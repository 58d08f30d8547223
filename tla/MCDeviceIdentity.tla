-------------------------- MODULE MCDeviceIdentity --------------------------
(* Model checking of DeviceIdentity. *)
EXTENDS DeviceIdentity

\* The blocks of the instance meet the hypothesis of the theorems, with none to spare:
\* the one at sector 6 begins before the middle, ends behind it and is as long as may be.
ASSUME InstanceAssumption == MiddleSeen /\ SectorsPerBlock = AreaSectors + 1
==============================================================================

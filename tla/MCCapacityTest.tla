---------------------------- MODULE MCCapacityTest ----------------------------
(* Model checking of CapacityTest.                                           *)
EXTENDS CapacityTest
===============================================================================

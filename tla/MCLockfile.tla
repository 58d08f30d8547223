------------------------------ MODULE MCLockfile ------------------------------
(* Model checking of Lockfile.  The copies are interchangeable, but symmetry *)
(* is only sound where no liveness is checked, and so not used.              *)
EXTENDS Lockfile
===============================================================================

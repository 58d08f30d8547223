--------------------------- MODULE MCEnduranceTest ---------------------------
(* Model checking of EnduranceTest; the constants are in the .cfg files.    *)
EXTENDS EnduranceTest
=============================================================================

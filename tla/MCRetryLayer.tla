----------------------------- MODULE MCRetryLayer -----------------------------
(* Model checking of RetryLayer.                                             *)
EXTENDS RetryLayer
===============================================================================

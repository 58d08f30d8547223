----------------------------- MODULE MCSqlThread -----------------------------
(* Model checking of SqlThread.                                            *)
EXTENDS SqlThread
==============================================================================

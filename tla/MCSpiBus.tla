----------------------------- MODULE MCSpiBus -----------------------------
(* The instance of SpiBus that TLC checks.                                 *)
EXTENDS SpiBus
============================================================================

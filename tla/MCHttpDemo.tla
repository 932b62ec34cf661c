----------------------------- MODULE MCHttpDemo -----------------------------
(* The instance of HttpDemo that TLC checks.                               *)
EXTENDS HttpDemo
============================================================================

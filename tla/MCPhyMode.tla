----------------------------- MODULE MCPhyMode -----------------------------
(* The instance of PhyMode that TLC checks.                                *)
EXTENDS PhyMode
Fast == [speed |-> "100M", duplex |-> "full"]
SlowOrFast == {Slow, Fast}
============================================================================

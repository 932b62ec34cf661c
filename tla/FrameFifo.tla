----------------------------- MODULE FrameFifo -----------------------------
(***************************************************************************)
(* What reception promises the network stack (FR-03 of the README): the    *)
(* frames the chip stored are delivered once each, unchanged, in the order *)
(* of their arrival, and all of them in the end.                           *)
(***************************************************************************)
EXTENDS Naturals, Sequences

CONSTANT Frames

VARIABLES
  in,    (* the frames stored so far                                       *)
  out    (* the frames delivered so far                                    *)

Init == in = <<>> /\ out = <<>>

Store == \E f \in Frames : in' = Append(in, f) /\ UNCHANGED out

Deliver ==
  /\ Len(out) < Len(in)
  /\ out' = Append(out, in[Len(out) + 1])
  /\ UNCHANGED in

Next == Store \/ Deliver

Spec == Init /\ [][Next]_<<in, out>> /\ WF_<<in, out>>(Deliver)
============================================================================

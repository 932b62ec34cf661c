------------------------------ MODULE RegFile ------------------------------
(***************************************************************************)
(* What the SPI transport promises its callers: a register is read or      *)
(* written as a whole, at one moment of the call.  A call that fails has   *)
(* had no effect.                                                          *)
(***************************************************************************)
CONSTANTS Threads, Words, None

VARIABLES
  file,    (* what the register holds                                      *)
  request, (* per thread: None, or what it asked for                       *)
  answer   (* per thread: None until the call took effect, then its result *)

Init ==
  /\ file \in Words
  /\ request = [t \in Threads |-> None] /\ answer = [t \in Threads |-> None]

Ask(t) ==
  /\ request[t] = None
  /\ \E r \in {<<"read">>} \cup {<<"write", w>> : w \in Words} :
       request' = [request EXCEPT ![t] = r]
  /\ UNCHANGED <<file, answer>>

Answer(t, result) ==
  /\ request[t] # None /\ answer[t] = None
  /\ answer' = [answer EXCEPT ![t] = result]
  /\ UNCHANGED request

Read(t) ==
  /\ request[t] = <<"read">>
  /\ Answer(t, <<"read", file>>) /\ UNCHANGED file

Write(t) == \E w \in Words :
  /\ request[t] = <<"write", w>>
  /\ Answer(t, <<"written">>) /\ file' = w

Fail(t) == Answer(t, <<"error">>) /\ UNCHANGED file

Return(t) ==
  /\ answer[t] # None
  /\ request' = [request EXCEPT ![t] = None]
  /\ answer' = [answer EXCEPT ![t] = None]
  /\ UNCHANGED file

Next == \E t \in Threads : Ask(t) \/ Read(t) \/ Write(t) \/ Fail(t) \/ Return(t)

Spec == Init /\ [][Next]_<<file, request, answer>>
============================================================================

--------------------------- MODULE PhyLink_proofs ---------------------------
(***************************************************************************)
(* Proofs about link management, for every value of the constants: slow    *)
(* chips, any failures, and a socket that is reopened at any moment.       *)
(***************************************************************************)
EXTENDS PhyLink, MacDataRx_proofs

(* What the stack believes if no report to it failed.                      *)
BelievedUp == told_up /\ ~tell_failed

(* The parts of a poll that has seen the socket open, and of one that has  *)
(* enabled its interrupt.                                                  *)
Opened   == {"clr_ir", "clr_s0_again", "unmask", "pending", "notify", "tell_up"}
Unmasked == {"pending", "notify", "tell_up"}

(* A CLOSE command is in Sn_CR only before the poll goes on to open the    *)
(* socket; a poll does that only when the link is marked as down.          *)
ClosesWhenDown ==
  /\ sn_cr = "CLOSE" => link_pc \in {"idle", "close", "close_wait"} /\ ~link_up
  /\ link_pc \notin {"idle", "tell_up", "tell_down"} => ~link_up

(* The stack is told of a link that is down before the next link-up.       *)
BeliefOwned ==
  /\ BelievedUp => link_up \/ link_pc = "tell_down"
  /\ link_pc = "tell_up" => link_up

SocketReady ==
  /\ link_up \/ link_pc \in Opened \/ BelievedUp => sn_sr = "MACRAW"
  /\ link_up \/ link_pc \in Unmasked \/ BelievedUp => ~sn_masked
  /\ link_pc \in Opened \/ BelievedUp => sn_cr # "CLOSE"

LinkTypes ==
  /\ link_pc \in LinkLabels /\ link_up \in BOOLEAN /\ told_up \in BOOLEAN
  /\ tell_failed \in BOOLEAN /\ phy_up \in BOOLEAN

LinkInv == LinkTypes /\ ClosesWhenDown /\ BeliefOwned /\ SocketReady

-----------------------------------------------------------------------------
LEMMA DataKeepsLinkInv == LinkInv /\ Data => LinkInv'
<1> SUFFICES ASSUME LinkInv, Data PROVE LinkInv'
  OBVIOUS
<1>1. SocketLeftAlone
  BY NextLeavesSocket DEF Data
<1>2. UNCHANGED <<link_pc, link_up, told_up, tell_failed, phy_up>>
  BY DEF Data, poll
<1>. QED
  BY <1>1, <1>2 DEF LinkInv, LinkTypes, ClosesWhenDown, BeliefOwned, BelievedUp,
                    SocketReady, SocketLeftAlone

-----------------------------------------------------------------------------
LEMMA LinkKeepsLinkInv ==
  LinkInv /\ (TakeClose \/ TakeOpen \/ LinkStep \/ SetLinkDown \/ PhyChange)
    => LinkInv'
<1> SUFFICES ASSUME LinkInv,
                    TakeClose \/ TakeOpen \/ LinkStep \/ SetLinkDown \/ PhyChange
             PROVE  LinkInv'
  OBVIOUS
<1> USE DEF LinkInv, LinkTypes, LinkLabels, ClosesWhenDown, BeliefOwned,
            BelievedUp, SocketReady, Opened, Unmasked
<1>1. CASE TakeClose \/ TakeOpen
  <2>1. UNCHANGED <<sn_masked, link_pc, link_up, told_up, tell_failed, phy_up>>
    BY <1>1 DEF TakeClose, TakeOpen, interrupt, poll
  <2>2. sn_cr' = "NONE" /\ sn_sr' = (IF sn_cr = "CLOSE" THEN "CLOSED" ELSE "MACRAW")
    BY <1>1 DEF TakeClose, TakeOpen
  <2>. QED
    BY <2>1, <2>2
<1>2. CASE SetLinkDown
  BY <1>2 DEF SetLinkDown, vars, chip, command, interrupt
<1>11. CASE PhyChange
  <2>1. UNCHANGED <<sn_cr, sn_sr, sn_masked, link_pc, link_up, told_up, tell_failed>>
    BY <1>11 DEF PhyChange, vars, chip, command, interrupt, poll
  <2>2. phy_up' \in BOOLEAN
    BY <1>11 DEF PhyChange
  <2>. QED
    BY <2>1, <2>2
<1>3. CASE PollUp \/ PollDown
  <2>1. UNCHANGED <<sn_cr, sn_sr, sn_masked, told_up, tell_failed, phy_up>>
    BY <1>3 DEF PollUp, PollDown, Goto, vars, chip, command, interrupt
  <2>2. CASE PollUp
    BY <2>1, <2>2 DEF PollUp, LinkAt, Goto
  <2>3. CASE PollDown
    BY <2>1, <2>3 DEF PollDown, LinkAt
  <2>. QED
    BY <1>3, <2>2, <2>3
<1>12. CASE Tell
  BY <1>12 DEF Tell, vars, chip, command, interrupt
<1>4. CASE LinkFails
  BY <1>4 DEF LinkFails, LinkAt, chip, command, interrupt
<1>5. CASE LinkClose \/ LinkOpen
  BY <1>5 DEF LinkClose, LinkOpen, Command, LinkAt, Goto, interrupt, rest
<1>6. CASE LinkClosed \/ LinkOpened
  BY <1>6 DEF LinkClosed, LinkOpened, Waited, Goto, chip, command, interrupt,
              rest
<1>7. CASE LinkClear \/ LinkClearAgain
  BY <1>7 DEF LinkClear, LinkClearAgain, ClearAll, ClearSnIr, LinkAt, Goto,
              command, rest
<1>8. CASE LinkReadSr
  BY <1>8 DEF LinkReadSr, LinkAt, Goto, chip, command, interrupt, rest
<1>9. CASE LinkClearIr \/ LinkUnmask
  BY <1>9 DEF LinkClearIr, LinkUnmask, LinkAt, Goto, command, rest
<1>10. CASE LinkPending \/ LinkNotify
  <2>1. UNCHANGED <<sn_cr, sn_sr, sn_masked, told_up, tell_failed, phy_up>>
    BY <1>10 DEF LinkPending, LinkNotify, Goto, chip, command, interrupt, rest
  <2>2. \/ link_pc = "pending" /\ link_pc' = "notify" /\ UNCHANGED link_up
        \/ link_pc = "notify" /\ link_pc' = "tell_up" /\ link_up' = TRUE
    BY <1>10 DEF LinkPending, LinkNotify, Goto
  <2>3. LinkTypes'
    BY <2>1, <2>2
  <2>4. ClosesWhenDown'
    BY <2>1, <2>2
  <2>5. BeliefOwned'
    BY <2>1, <2>2
  <2>6. SocketReady'
    BY <2>1, <2>2
  <2>. QED
    BY <2>3, <2>4, <2>5, <2>6
<1>. QED
  BY <1>1, <1>2, <1>3, <1>4, <1>5, <1>6, <1>7, <1>8, <1>9, <1>10, <1>11,
     <1>12 DEF LinkStep

LEMMA LinkInitInv == LinkInit => LinkInv
BY DEF LinkInit, ChipCleared, LinkInv, LinkTypes, LinkLabels, ClosesWhenDown,
       BeliefOwned, BelievedUp, SocketReady, Opened, Unmasked

LEMMA LinkNextKeepsLinkInv == LinkInv /\ [LinkNext]_linkVars => LinkInv'
<1>1. LinkInv /\ UNCHANGED linkVars => LinkInv'
  BY DEF linkVars, vars, poll, chip, command, interrupt, LinkInv, LinkTypes,
         ClosesWhenDown, BeliefOwned, BelievedUp, SocketReady
<1>. QED
  BY <1>1, DataKeepsLinkInv, LinkKeepsLinkInv DEF LinkNext

(***************************************************************************)
(* Whatever fails, however slow the chip is and whenever the cable is      *)
(* moved, a link the stack believes to be up has an open socket with its   *)
(* interrupt enabled.                                                      *)
(***************************************************************************)
THEOREM LinkAlwaysBacked == LinkSpec => []LinkBacked
<1>1. LinkInv => LinkBacked
  BY DEF LinkInv, SocketReady, BelievedUp, LinkBacked
<1>. QED
  BY <1>1, LinkInitInv, LinkNextKeepsLinkInv, PTL DEF LinkSpec

-----------------------------------------------------------------------------
LEMMA LinkKeepsTypeOK ==
  TypeOK /\ (TakeClose \/ TakeOpen \/ LinkStep \/ SetLinkDown \/ PhyChange)
    => TypeOK'
<1> SUFFICES ASSUME TypeOK,
                    TakeClose \/ TakeOpen \/ LinkStep \/ SetLinkDown \/ PhyChange
             PROVE  TypeOK'
  OBVIOUS
<1> USE DEF TypeOK
<1>1. UNCHANGED <<pc, isr_edge, gpio, comp_ir, service, rxTask, tx>>
  BY DEF TakeClose, TakeOpen, LinkStep, SetLinkDown, PhyChange, PollUp, PollDown,
         Tell, LinkFails, LinkClose, LinkOpen, Command, LinkClosed, LinkOpened,
         Waited, LinkClear, LinkClearAgain, ClearAll, LinkReadSr, LinkClearIr,
         LinkUnmask, LinkPending, LinkNotify, rest, vars, irq, wakeup
<1>2. RxTypeOK' /\ TxTypeOK'
  BY <1>1 DEF rxTask, task, rxLocals, tx, RxTypeOK, TxTypeOK, Frame, Bytes, Pointer
<1>3. notified' \in BOOLEAN
  <2>1. CASE LinkPending \/ LinkNotify
    BY <2>1 DEF LinkPending, LinkNotify, IrqTypeOK
  <2>2. CASE TakeClose \/ TakeOpen \/ SetLinkDown \/ PhyChange
             \/ (LinkStep /\ ~(LinkPending \/ LinkNotify))
    BY <2>2 DEF TakeClose, TakeOpen, LinkStep, SetLinkDown, PhyChange, PollUp,
         PollDown, Tell, LinkFails, LinkClose, LinkOpen, Command, LinkClosed,
         LinkOpened, Waited, LinkClear, LinkClearAgain, ClearAll, LinkReadSr,
         LinkClearIr, LinkUnmask, vars, irq, wakeup, IrqTypeOK
  <2>. QED
    BY <2>1, <2>2
<1>4. faults' \in Nat
  <2>1. CASE LinkFails
    BY <2>1 DEF LinkFails, IrqTypeOK
  <2>2. CASE TakeClose \/ TakeOpen \/ SetLinkDown \/ PhyChange
             \/ (LinkStep /\ ~LinkFails)
    BY <2>2 DEF TakeClose, TakeOpen, LinkStep, SetLinkDown, PhyChange, PollUp,
         PollDown, Tell, LinkClose, LinkOpen, Command, LinkClosed, LinkOpened,
         Waited, LinkClear, LinkClearAgain, ClearAll, LinkReadSr, LinkClearIr,
         LinkUnmask, LinkPending, LinkNotify, rest, vars, irq, IrqTypeOK
  <2>. QED
    BY <2>1, <2>2
<1>5. IrqTypeOK'
  BY <1>1, <1>3, <1>4 DEF gpio, service, IrqTypeOK
<1>6. ChipTypeOK'
  <2>0. USE DEF ChipTypeOK
  <2>1. CASE UNCHANGED chip
    BY <2>1 DEF chip, command, interrupt, rxStore, txRing
  <2>2. CASE TakeClose
    BY <2>2 DEF TakeClose, interrupt, rxStore, txRing, Commands
  <2>3. CASE TakeOpen
    BY <2>3, PointerFacts DEF TakeOpen, interrupt, Commands
  <2>4. CASE LinkClose \/ LinkOpen
    BY <2>4 DEF LinkClose, LinkOpen, Command, interrupt, rxStore, txRing, Commands
  <2>5. CASE LinkClear \/ LinkClearAgain
    BY <2>5 DEF LinkClear, LinkClearAgain, ClearAll, ClearSnIr, command, rxStore,
                txRing
  <2>6. CASE LinkClearIr \/ LinkUnmask
    BY <2>6 DEF LinkClearIr, LinkUnmask, command, rxStore, txRing
  <2>7. SetLinkDown \/ PhyChange \/ PollUp \/ PollDown \/ Tell \/ LinkFails
        \/ LinkClosed \/ LinkOpened \/ LinkReadSr \/ LinkPending \/ LinkNotify
          => UNCHANGED chip
    BY DEF SetLinkDown, PhyChange, PollUp, PollDown, Tell, LinkFails, LinkClosed,
           LinkOpened, Waited, LinkReadSr, LinkPending, LinkNotify, vars
  <2>. QED
    BY <2>1, <2>2, <2>3, <2>4, <2>5, <2>6, <2>7 DEF LinkStep
<1>. QED
  BY <1>1, <1>2, <1>5, <1>6

LEMMA LinkTyped == LinkSpec => [](TypeOK /\ LinkInv)
<1>1. LinkInit => TypeOK /\ LinkInv
  <2> SUFFICES ASSUME LinkInit PROVE TypeOK /\ LinkInv
    OBVIOUS
  <2>1. ChipTypeOK
    <3>1. rx_mem \in [0 .. RxBufSize - 1 -> Frame \cup {Bytes}]
      BY DEF LinkInit, ChipCleared
    <3>2. arrived \in Seq(Frame)
      BY DEF LinkInit, ChipCleared
    <3>. QED
      BY <3>1, <3>2, PointerFacts
         DEF LinkInit, ChipCleared, ChipTypeOK, Commands, IrBits
  <2>2. TypeOK
    BY <2>1, DriverInitTypes DEF LinkInit, TypeOK
  <2>. QED
    BY <2>2, LinkInitInv
<1>2. TypeOK /\ LinkInv /\ [LinkNext]_linkVars => (TypeOK /\ LinkInv)'
  <2>1. TypeOK /\ Data => TypeOK'
    BY NextKeepsTypeOK DEF Data
  <2>2. TypeOK /\ UNCHANGED linkVars => TypeOK'
    BY NextKeepsTypeOK DEF linkVars
  <2>. QED
    BY <2>1, <2>2, LinkKeepsTypeOK, LinkNextKeepsLinkInv DEF LinkNext
<1>. QED
  BY <1>1, <1>2, PTL DEF LinkSpec

(***************************************************************************)
(* Every variable keeps its type while the socket is reopened under the    *)
(* data path.                                                              *)
(***************************************************************************)
THEOREM LinkTypeCorrect == LinkSpec => []LinkTypeOK
<1>1. TypeOK /\ LinkInv => LinkTypeOK
  BY DEF LinkInv, LinkTypes, LinkTypeOK
<1>. QED
  BY <1>1, LinkTyped, PTL

-----------------------------------------------------------------------------
(***************************************************************************)
(* The wakeup of the RX task while a poll works on the socket.  The poll   *)
(* may clear the RECV event of a frame that is stored, but only while the  *)
(* link is down, and it notifies the task before the link is up.           *)
(***************************************************************************)
LinkActs == TakeClose \/ TakeOpen \/ LinkStep \/ SetLinkDown \/ PhyChange

LinkAwake ==
  /\ started /\ gpio_on /\ isr_task
  /\ RecvOwned /\ EdgeKept
  /\ link_up => EventKept \/ notified

(* The poll leaves the threads where they are and only adds notifications. *)
NobodyMoved ==
  UNCHANGED <<pc, isr_edge, gpio, rxTask>> /\ (notified => notified')

LEMMA PollMovesNobody == LinkActs => NobodyMoved
<1>1. CASE SetLinkDown \/ PhyChange \/ PollUp \/ PollDown \/ Tell
  BY <1>1 DEF SetLinkDown, PhyChange, PollUp, PollDown, Tell, vars, irq, wakeup,
     NobodyMoved
<1>2. CASE TakeClose \/ TakeOpen \/ LinkFails
  BY <1>2 DEF TakeClose, TakeOpen, LinkFails, irq, wakeup, NobodyMoved
<1>3. CASE \/ LinkClose \/ LinkClosed \/ LinkClear \/ LinkOpen \/ LinkOpened
           \/ LinkReadSr \/ LinkClearIr \/ LinkClearAgain \/ LinkUnmask
  <2>1. UNCHANGED <<notified, rest>>
    BY <1>3 DEF LinkClose, LinkOpen, Command, LinkClosed, LinkOpened, Waited,
       LinkClear, LinkClearAgain, ClearAll, LinkReadSr, LinkClearIr, LinkUnmask
  <2>. QED
    BY <2>1 DEF rest, NobodyMoved
<1>4. CASE LinkPending \/ LinkNotify
  <2>1. UNCHANGED rest /\ (notified => notified')
    BY <1>4 DEF LinkPending, LinkNotify
  <2>. QED
    BY <2>1 DEF rest, NobodyMoved
<1>. QED
  BY <1>1, <1>2, <1>3, <1>4 DEF LinkActs, LinkStep

(* What it does to the memory and the registers of the socket.             *)
LEMMA PollOnSocket ==
  LinkActs =>
    /\ int_low' => int_low
    /\ UNCHANGED <<rxStore, rx_rd>> \/ TakeOpen
    /\ UNCHANGED sn_ir \/ LinkClear \/ LinkClearAgain
    /\ UNCHANGED sn_sr \/ TakeOpen \/ TakeClose
    /\ UNCHANGED sn_cr \/ TakeOpen \/ TakeClose \/ LinkClose \/ LinkOpen
    /\ sn_cr' = "RECV" => sn_cr = "RECV"
<1> SUFFICES ASSUME LinkActs
             PROVE  /\ int_low' => int_low
                    /\ UNCHANGED <<rxStore, rx_rd>> \/ TakeOpen
                    /\ UNCHANGED sn_ir \/ LinkClear \/ LinkClearAgain
                    /\ UNCHANGED sn_sr \/ TakeOpen \/ TakeClose
                    /\ \/ UNCHANGED sn_cr
                       \/ TakeOpen \/ TakeClose \/ LinkClose \/ LinkOpen
                    /\ sn_cr' = "RECV" => sn_cr = "RECV"
  OBVIOUS
<1>1. CASE TakeClose
  BY <1>1 DEF TakeClose, interrupt
<1>2. CASE TakeOpen
  BY <1>2 DEF TakeOpen, interrupt
<1>3. CASE \/ SetLinkDown \/ PhyChange \/ PollUp \/ PollDown \/ Tell \/ LinkFails
           \/ LinkClosed \/ LinkOpened \/ LinkReadSr \/ LinkPending
           \/ LinkNotify
  <2>1. UNCHANGED chip
    BY <1>3 DEF SetLinkDown, PhyChange, PollUp, PollDown, Tell, LinkFails,
       LinkClosed, LinkOpened, Waited, LinkReadSr, LinkPending, LinkNotify, vars
  <2>. QED
    BY <2>1 DEF chip, command, interrupt
<1>4. CASE LinkClose \/ LinkOpen
  BY <1>4 DEF LinkClose, LinkOpen, Command, interrupt
<1>5. CASE LinkClear \/ LinkClearAgain
  BY <1>5 DEF LinkClear, LinkClearAgain, ClearAll, ClearSnIr, command
<1>6. CASE LinkClearIr \/ LinkUnmask
  BY <1>6 DEF LinkClearIr, LinkUnmask, command
<1>. QED
  BY <1>1, <1>2, <1>3, <1>4, <1>5, <1>6 DEF LinkActs, LinkStep

(* The link comes up with a notification, and events are cleared before.   *)
LEMMA PollOnLink ==
  LinkInv /\ LinkActs =>
    /\ link_up' => link_up \/ notified'  \/ ~isr_task
    /\ LinkClear \/ LinkClearAgain => ~link_up'
<1> SUFFICES ASSUME LinkInv, LinkActs
             PROVE  /\ link_up' => link_up \/ notified' \/ ~isr_task
                    /\ LinkClear \/ LinkClearAgain => ~link_up'
  OBVIOUS
<1>1. link_up' => link_up \/ notified' \/ ~isr_task
  <2>1. CASE LinkNotify
    BY <2>1 DEF LinkNotify
  <2>2. CASE SetLinkDown \/ PollDown
    BY <2>2 DEF SetLinkDown, PollDown
  <2>3. CASE \/ TakeClose \/ TakeOpen \/ PhyChange \/ PollUp \/ Tell \/ LinkFails
             \/ LinkClose \/ LinkClosed \/ LinkClear \/ LinkOpen \/ LinkOpened
             \/ LinkReadSr \/ LinkClearIr \/ LinkClearAgain \/ LinkUnmask
             \/ LinkPending
    BY <2>3 DEF TakeClose, TakeOpen, PhyChange, PollUp, Tell, LinkFails, LinkClose,
       LinkOpen, Command, LinkClosed, LinkOpened, Waited, LinkClear,
       LinkClearAgain, ClearAll, LinkReadSr, LinkClearIr, LinkUnmask,
       LinkPending, Goto, poll
  <2>. QED
    BY <2>1, <2>2, <2>3 DEF LinkActs, LinkStep
<1>2. LinkClear \/ LinkClearAgain => ~link_up'
  BY DEF LinkInv, ClosesWhenDown, LinkClear, LinkClearAgain, ClearAll, LinkAt, Goto
<1>. QED
  BY <1>1, <1>2

LEMMA PollKeepsAwake == LinkInv /\ LinkAwake /\ LinkActs => LinkAwake'
<1> SUFFICES ASSUME LinkInv, LinkAwake, LinkActs PROVE LinkAwake'
  OBVIOUS
<1>1. /\ UNCHANGED <<pc, isr_edge, gpio_on, isr_task, started, rx_failed>>
      /\ notified => notified'
  BY PollMovesNobody DEF NobodyMoved, gpio, rxTask, task
<1>2. RxRsr' = RxRsr \/ RxRsr' = 0
  <2>1. CASE UNCHANGED rxStore
    BY <2>1 DEF rxStore, RxRsr, Distance
  <2>2. CASE TakeOpen
    <3>1. 0 % PtrMod = 0
      BY Sizes, SmallRemainder
    <3>. QED
      BY <2>2, <3>1 DEF TakeOpen, RxRsr, Distance
  <2>. QED
    BY <2>1, <2>2, PollOnSocket
<1>3. RecvOwned'
  BY <1>1, PollOnSocket DEF LinkAwake, RecvOwned
<1>4. EdgeKept'
  BY <1>1, PollOnSocket DEF LinkAwake, EdgeKept
<1>5. link_up' => EventKept' \/ notified'
  <2> SUFFICES ASSUME link_up', ~notified' PROVE EventKept'
    OBVIOUS
  <2>1. EventKept /\ UNCHANGED sn_ir
    BY <1>1, PollOnLink, PollOnSocket DEF LinkAwake
  <2>. QED
    BY <1>1, <1>2, <2>1 DEF EventKept
<1>. QED
  BY <1>1, <1>3, <1>4, <1>5 DEF LinkAwake

LEMMA DataKeepsAwake ==
  RecvAwaited /\ PcFun /\ LinkAwake /\ Data => LinkAwake'
<1> SUFFICES ASSUME RecvAwaited, PcFun, LinkAwake, Data PROVE LinkAwake'
  OBVIOUS
<1>1. Next /\ UNCHANGED link_up
  BY DEF Data, poll
<1>2. LifeKeptBy
  BY <1>1, RxStaysInLoop, TxStaysInCall, OthersMoveNobody
     DEF Next, RxMoves, TxMoves
<1>3. WakeupKept
  BY <1>1, NextKeepsWakeup DEF LinkAwake
<1>4. pc'["rx"] = "woken" => EventKept'
  BY DEF EventKept
<1>. QED
  BY <1>1, <1>2, <1>3, <1>4 DEF LinkAwake, LifeKeptBy, WakeupKept

LEMMA LinkNextKeepsAwake ==
  ASSUME RecvAwaited
  PROVE  TypeOK /\ LinkInv /\ LinkAwake /\ [LinkNext]_linkVars => LinkAwake'
<1>1. LinkAwake /\ UNCHANGED linkVars => LinkAwake'
  BY DEF linkVars, vars, poll, chip, command, interrupt, rxStore, irq, wakeup,
     gpio, rxTask, task, LinkAwake, RecvOwned, EdgeKept, EventKept, RxRsr, Distance
<1>. QED
  BY <1>1, TypedPc, PollKeepsAwake, DataKeepsAwake DEF LinkNext, LinkActs

(***************************************************************************)
(* Over a link that is up the RX task never sleeps on a frame, although    *)
(* the poll clears the RECV events of frames that came while it opened the *)
(* socket, whatever of it fails and wherever the cable is pulled.          *)
(***************************************************************************)
THEOREM LinkNeverStalls == RecvAwaited => (LinkSpec => []NoStallAfterLinkUp)
<1> SUFFICES ASSUME RecvAwaited PROVE LinkSpec => []NoStallAfterLinkUp
  OBVIOUS
<1>1. LinkInit => LinkAwake
  BY StartsAwake DEF LinkInit, ChipCleared, DriverInit, LinkAwake
<1>2. LinkInv /\ LinkAwake => NoStallAfterLinkUp
  <2> SUFFICES ASSUME LinkInv, LinkAwake, link_up PROVE NoStall
    BY DEF NoStallAfterLinkUp
  <2>1. ~sn_masked
    BY DEF LinkInv, SocketReady
  <2>2. CASE EventKept
    BY <2>1, <2>2, KeptIsNoStall DEF LinkAwake
  <2>3. CASE notified
    BY <2>3 DEF NoStall
  <2>. QED
    BY <2>2, <2>3 DEF LinkAwake
<1>. QED
  BY <1>1, <1>2, LinkTyped, LinkNextKeepsAwake, PTL DEF LinkSpec

-----------------------------------------------------------------------------
(***************************************************************************)
(* Reception over a socket that is reopened.  The frames are numbered as   *)
(* they arrive; what is delivered comes from before the frame that is next *)
(* in the memory, which opening the socket moves behind the last one.      *)
(***************************************************************************)
Numbered == \A i \in 1 .. Len(arrived) : arrived[i].id = i

DeliveredBelow(q) ==
  /\ \A j \in 1 .. Len(delivered) :
       /\ delivered[j].id \in 1 .. Len(arrived) /\ delivered[j].id < q
       /\ delivered[j] = arrived[delivered[j].id]
  /\ \A i, j \in 1 .. Len(delivered) : i < j => delivered[i].id < delivered[j].id

Ascending == Numbered /\ \E q, pos : Stream(q, pos) /\ DeliveredBelow(q)

(* The RX task is inside a frame; a socket that is closed, or is about to  *)
(* be closed or opened, keeps it out, and the poll knows where it is.      *)
Inside == RcvLabels \ {"rcv_sr"}

Outside ==
  /\ sn_cr \in {"CLOSE", "OPEN"} \/ sn_sr = "CLOSED" => pc["rx"] \notin Inside
  /\ link_pc = "close_wait" => sn_cr = "CLOSE" \/ sn_sr = "CLOSED"
  /\ link_pc \in {"clr_s0", "open"} => sn_sr = "CLOSED"
  /\ sn_cr = "CLOSE" => link_pc = "close_wait"
  /\ sn_cr = "OPEN" => link_pc = "open_wait"

(* The threads wait while the command of a poll is in Sn_CR, and the RX    *)
(* task looks at the socket before it looks at the memory.                 *)
LEMMA ThreadsWait ==
  ASSUME ~SlowCommands, PcFun, Next
  PROVE  /\ sn_cr \in {"CLOSE", "OPEN"} => UNCHANGED sn_cr
         /\ pc'["rx"] \in Inside =>
              pc["rx"] \in Inside \/ (sn_cr = "NONE" /\ sn_sr = "MACRAW")
<1> USE DEF Inside, RcvLabels
<1>0. "rx" \in Threads /\ \A label : Go("rx", label) => pc'["rx"] = label
  BY GoMoves DEF Threads
<1>1. CASE Chip
  <2>1. UNCHANGED pc
    BY <1>1 DEF Chip
  <2>. QED
    BY <1>1, <2>1 DEF Chip, ChipStep, FrameArrives, TakeRecv, TakeSend, SendDone,
       OtherEvent, command
<1>2. CASE Wake
  BY <1>2 DEF Wake, AssertIntn, Isr, chip, command
<1>3. CASE Tx \/ Send
  <2>1. pc'["rx"] = pc["rx"]
    BY <1>3, TxStaysInCall DEF TxMoves
  <2>2. CASE UpdateTxCompletion("tx")
    BY <2>1, <2>2, CompKeepsWakeup DEF Threads
  <2>3. CASE \/ Transmit \/ TxReadSr \/ TxReadFsr \/ TxReadWr \/ TxWriteBuffer
             \/ TxWriteWr \/ TxCommand \/ TxDone \/ TxFails
    BY <2>1, <2>3 DEF Transmit, TxReadSr, TxReadFsr, TxReadWr, TxWriteBuffer,
       TxWriteWr, TxCommand, TxDone, TxFails, At, chip, command
  <2>. QED
    BY <1>3, <2>2, <2>3 DEF Tx, Send, TxStep
<1>4. CASE Rx
  <2>1. CASE ServiceInterrupts
    <3>1. CASE UpdateTxCompletion("rx")
      BY <1>0, <3>1, CompKeepsWakeup DEF CompLabels, AfterComp
    <3>2. CASE \/ SvcReadIr \/ SvcReadSir \/ SvcClearIr \/ SvcReadS0 \/ SvcConn
               \/ SvcTimesOut
      <4>1. pc'["rx"] \in SvcLabels \cup {"comp", "clr_rd"}
        BY <1>0, <3>2 DEF SvcReadIr, SvcReadSir, SvcClearIr, SvcReadS0, SvcConn,
           SvcEnd, SvcTimesOut, SvcLabels
      <4>2. UNCHANGED sn_cr
        BY <3>2 DEF SvcReadIr, SvcReadSir, SvcClearIr, SvcReadS0, SvcConn,
           SvcEnd, SvcTimesOut, chip, command
      <4>. QED
        BY <4>1, <4>2 DEF SvcLabels
    <3>. QED
      BY <2>1, <3>1, <3>2 DEF ServiceInterrupts
  <2>2. CASE Take \/ Woken \/ Inner \/ Loop \/ Level \/ ClearRecvRead
             \/ ClearRecvWrite \/ Drain \/ DrainRsr
    BY <1>0, <2>2 DEF Take, Woken, Inner, Loop, Level, Branch, ClearRecvRead,
       ClearRecvWrite, Drain, DrainRsr, chip, command
  <2>3. CASE RcvSr
    BY <1>0, <2>3 DEF RcvSr, Check, Break, At, chip, command
  <2>4. CASE \/ RcvRsr \/ RcvRd \/ RcvHdr \/ RcvPay \/ RcvWriteRd \/ RcvCommand
             \/ RcvDone
    <3>1. pc["rx"] \in Inside
      BY <2>4 DEF RcvRsr, RcvRd, RcvHdr, RcvPay, RcvWriteRd, RcvCommand, RcvDone, At
    <3>2. sn_cr = "NONE" \/ UNCHANGED sn_cr
      BY <2>4 DEF RcvRsr, RcvRd, RcvHdr, RcvPay, RcvWriteRd, RcvCommand, RcvDone,
         At, chip, command
    <3>. QED
      BY <3>1, <3>2
  <2>5. CASE RxGivesUp
    BY <1>0, <2>5 DEF RxGivesUp, Break, chip, command
  <2>. QED
    BY <1>4, <2>1, <2>2, <2>3, <2>4, <2>5 DEF Rx, RxStep
<1>. QED
  BY <1>1, <1>2, <1>3, <1>4 DEF Next

LEMMA DataKeepsOutside ==
  ~SlowCommands /\ PcFun /\ Outside /\ Data => Outside'
<1> SUFFICES ASSUME ~SlowCommands, PcFun, Outside, Data PROVE Outside'
  OBVIOUS
<1>1. /\ sn_cr \in {"CLOSE", "OPEN"} => UNCHANGED sn_cr
      /\ pc'["rx"] \in Inside =>
           pc["rx"] \in Inside \/ (sn_cr = "NONE" /\ sn_sr = "MACRAW")
  BY ThreadsWait DEF Data
<1>2. /\ UNCHANGED <<sn_sr, link_pc>>
      /\ sn_cr' \notin {"CLOSE", "OPEN"} \/ UNCHANGED sn_cr
  BY NextLeavesSocket DEF Data, SocketLeftAlone, poll
<1>. QED
  BY <1>1, <1>2 DEF Outside

LEMMA PollKeepsOutside ==
  QuietReopen /\ ~SlowCommands /\ Outside /\ LinkActs => Outside'
<1> SUFFICES ASSUME QuietReopen, ~SlowCommands, Outside, LinkActs PROVE Outside'
  OBVIOUS
<1>1. UNCHANGED pc
  BY PollMovesNobody DEF NobodyMoved
<1> USE <1>1 DEF Outside
<1>2. CASE TakeClose \/ TakeOpen
  <2>1. UNCHANGED link_pc /\ sn_cr' = "NONE"
    BY <1>2 DEF TakeClose, TakeOpen, poll
  <2>2. \/ sn_cr = "CLOSE" /\ sn_sr' = "CLOSED"
        \/ sn_cr = "OPEN" /\ sn_sr' = "MACRAW"
    BY <1>2 DEF TakeClose, TakeOpen
  <2>. QED
    BY <2>1, <2>2
<1>3. CASE LinkClose
  BY <1>3 DEF LinkClose, Quiet, Inside, Command, Goto
<1>4. CASE LinkOpen
  BY <1>4 DEF LinkOpen, Command, LinkAt, Goto
<1>5. CASE LinkClosed \/ LinkOpened
  BY <1>5 DEF LinkClosed, LinkOpened, Waited, Goto, chip, command
<1>6. CASE LinkClear \/ LinkClearAgain
  BY <1>6 DEF LinkClear, LinkClearAgain, ClearAll, LinkAt, Goto, command
<1>7. CASE LinkReadSr \/ LinkClearIr \/ LinkUnmask
  BY <1>7 DEF LinkReadSr, LinkClearIr, LinkUnmask, LinkAt, Goto, chip, command
<1>8. CASE SetLinkDown \/ PhyChange
  BY <1>8 DEF SetLinkDown, PhyChange, vars, chip, command, poll
<1>9. CASE PollUp \/ PollDown \/ LinkFails
  BY <1>9 DEF PollUp, PollDown, LinkFails, LinkAt, Goto, vars, chip, command
<1>10. CASE Tell
  BY <1>10 DEF Tell, vars, chip, command
<1>11. CASE LinkPending \/ LinkNotify
  BY <1>11 DEF LinkPending, LinkNotify, Goto, chip, command
<1>. QED
  BY <1>2, <1>3, <1>4, <1>5, <1>6, <1>7, <1>8, <1>9, <1>10, <1>11
     DEF LinkActs, LinkStep

-----------------------------------------------------------------------------
LEMMA DataKeepsAscending ==
  ASSUME RecvReliable, Typed, RecvOwned, Ascending, Next
  PROVE  Ascending'
<1>1. PICK q, pos : Stream(q, pos) /\ DeliveredBelow(q)
  BY DEF Ascending
<1>2. PICK r, pos2 : Stream(r, pos2)' /\ Advances(q, r)
  BY <1>1, NextKeepsStream DEF StreamKept
<1>3. PICK k, n : k = Len(delivered) /\ n = Len(arrived)
  OBVIOUS
<1>4. /\ arrived \in Seq(Frame) /\ n \in Nat /\ q \in 1 .. n + 1
      /\ delivered \in Seq(Frame \cup {Bytes}) /\ k \in Nat
  BY <1>1, <1>3, StreamFacts DEF Typed, RxTypeOK
<1>5. /\ \A j \in 1 .. k : /\ delivered[j].id \in 1 .. n /\ delivered[j].id < q
                          /\ delivered[j] = arrived[delivered[j].id]
      /\ \A i, j \in 1 .. k : i < j => delivered[i].id < delivered[j].id
  BY <1>1, <1>3 DEF DeliveredBelow
<1>6. \A i \in 1 .. n : arrived[i].id = i
  BY <1>3 DEF Ascending, Numbered
<1>7. CASE Arrival
  <2>1. PICK f \in Frame : /\ f.id = n + 1 /\ arrived' = Append(arrived, f)
                           /\ UNCHANGED delivered
    BY <1>3, <1>7 DEF Arrival
  <2>2. /\ Len(arrived') = n + 1 /\ arrived'[n + 1] = f
        /\ \A i \in 1 .. n : arrived'[i] = arrived[i]
    BY <1>3, <1>4, <2>1
  <2>3. \A i \in 1 .. n + 1 : i \in 1 .. n \/ i = n + 1
    BY <1>4
  <2>4. Numbered'
    BY <1>6, <2>1, <2>2, <2>3 DEF Numbered
  <2>5. r = q
    <3>1. arrived' # arrived
      BY <1>3, <1>4, <2>2
    <3>. QED
      BY <1>2, <3>1 DEF Advances
  <2>6. \A i \in 1 .. n : i \in 1 .. n + 1
    BY <1>4
  <2>7. DeliveredBelow(q)'
    BY <1>3, <1>5, <2>1, <2>2, <2>6 DEF DeliveredBelow
  <2>. QED
    BY <1>2, <2>4, <2>5, <2>7 DEF Ascending
<1>8. CASE UNCHANGED arrived /\ r = q /\ UNCHANGED delivered
  BY <1>1, <1>2, <1>8 DEF Ascending, Numbered, DeliveredBelow
<1>9. CASE /\ UNCHANGED arrived /\ r = q + 1 /\ q <= n
           /\ delivered' = Append(delivered, arrived[q])
  <2>1. /\ Len(delivered') = k + 1 /\ delivered'[k + 1] = arrived[q]
        /\ \A j \in 1 .. k : delivered'[j] = delivered[j]
    BY <1>3, <1>4, <1>9
  <2>2. q \in 1 .. n /\ arrived[q].id = q
    BY <1>4, <1>6, <1>9
  <2>3. \A j \in 1 .. k + 1 : (j \in 1 .. k /\ j # k + 1) \/ j = k + 1
    BY <1>4
  <2>4. ASSUME NEW j \in 1 .. k + 1
        PROVE  /\ delivered'[j].id \in 1 .. n /\ delivered'[j].id < r
               /\ delivered'[j] = arrived'[delivered'[j].id]
    <3>1. CASE j = k + 1
      BY <1>4, <1>9, <2>1, <2>2, <3>1
    <3>2. CASE j \in 1 .. k
      <4>1. /\ delivered'[j] = delivered[j] /\ delivered[j].id \in 1 .. n
            /\ delivered[j].id < q /\ delivered[j] = arrived[delivered[j].id]
        BY <1>5, <2>1, <3>2
      <4>. QED
        BY <1>4, <1>9, <4>1
    <3>. QED
      BY <2>3, <3>1, <3>2
  <2>5. ASSUME NEW i \in 1 .. k + 1, NEW j \in 1 .. k + 1, i < j
        PROVE  delivered'[i].id < delivered'[j].id
    <3>1. i \in 1 .. k
      BY <1>4, <2>5
    <3>2. CASE j = k + 1
      BY <1>5, <2>1, <2>2, <3>1, <3>2
    <3>3. CASE j \in 1 .. k
      BY <1>5, <2>1, <2>5, <3>1, <3>3
    <3>. QED
      BY <2>3, <3>2, <3>3
  <2>6. DeliveredBelow(r)'
    BY <1>3, <1>9, <2>1, <2>4, <2>5 DEF DeliveredBelow
  <2>. QED
    BY <1>2, <1>9, <2>6 DEF Ascending, Numbered
<1>10. UNCHANGED arrived \/ Arrival
  BY ArrivedGrows
<1>. QED
  BY <1>2, <1>3, <1>7, <1>8, <1>9, <1>10 DEF Advances

(* An opened socket starts afresh behind the last frame that arrived.      *)
LEMMA OpeningKeepsAscending ==
  ASSUME Typed, Outside, Ascending, TakeOpen
  PROVE  Ascending'
<1>1. PICK q, pos : Stream(q, pos) /\ DeliveredBelow(q)
  BY DEF Ascending
<1>2. PICK n : n = Len(arrived)
  OBVIOUS
<1>3. n \in Nat /\ q \in 1 .. n + 1 /\ n + 1 \in 1 .. n + 1
  BY <1>1, <1>2, StreamFacts
<1>4. /\ UNCHANGED <<arrived, delivered, pc, rx_mem>>
      /\ rx_wr' = 0 /\ rx_ack' = 0 /\ rx_rd' = 0 /\ sn_cr' = "NONE"
  BY DEF TakeOpen, rxTask
<1>5. pc["rx"] \notin Ahead
  BY DEF Outside, TakeOpen, Inside, RcvLabels, Ahead, Released
<1>6. PICK pos2 : pos2 = [i \in 1 .. n + 1 |-> 0]
  OBVIOUS
<1>7. InHand' = 0 /\ pos2[n + 1] = 0 /\ 0 % PtrMod = 0
  BY <1>3, <1>4, <1>5, <1>6, Sizes, SmallRemainder DEF InHand, Ahead, Released
<1>8. Laid(n + 1, pos2, arrived)
  BY <1>2, <1>3, <1>6 DEF Laid
<1>9. Stored(n + 1, pos2)'
  BY <1>2, <1>3, <1>4, <1>7, Sizes DEF Stored
<1>10. Reading(n + 1, pos2)'
  BY <1>4, <1>5, <1>7 DEF Reading, Ahead, Released
<1>11. Stream(n + 1, pos2)'
  <2>1. n + 1 + 0 = n + 1
    BY <1>3
  <2>. QED
    BY <1>4, <1>7, <1>8, <1>9, <1>10, <2>1 DEF Stream
<1>12. DeliveredBelow(n + 1)'
  <2>1. \A j \in 1 .. Len(delivered) : delivered[j].id < n + 1
    <3>1. \A j \in 1 .. Len(delivered) : delivered[j].id \in 1 .. n
      BY <1>1, <1>2 DEF DeliveredBelow
    <3>. QED
      BY <1>3, <3>1
  <2>. QED
    BY <1>1, <1>4, <2>1 DEF DeliveredBelow
<1>. QED
  BY <1>4, <1>11, <1>12 DEF Ascending, Numbered

LEMMA PollKeepsAscending ==
  ASSUME ~SlowCommands, Typed, Outside, Ascending, LinkActs
  PROVE  Ascending'
<1>1. CASE TakeOpen
  BY <1>1, OpeningKeepsAscending
<1>2. CASE ~TakeOpen
  <2>1. UNCHANGED <<rxStore, rx_rd, pc, rxLocals, delivered>>
    BY <1>2, PollMovesNobody, PollOnSocket DEF NobodyMoved, rxTask
  <2>2. sn_cr = "RECV" <=> sn_cr' = "RECV"
    <3>1. CASE UNCHANGED sn_cr
      BY <3>1
    <3>2. CASE TakeClose
      BY <3>2 DEF TakeClose
    <3>3. CASE LinkClose \/ LinkOpen
      BY <3>3 DEF LinkClose, LinkOpen, Command, LinkAt
    <3>. QED
      BY <1>2, <3>1, <3>2, <3>3, PollOnSocket
  <2>3. UNCHANGED arrived
    BY <2>1 DEF rxStore
  <2>. QED
    BY <2>1, <2>2, <2>3, StreamUntouched DEF Ascending, Numbered, DeliveredBelow
<1>. QED
  BY <1>1, <1>2

LinkRxInv == Outside /\ RecvOwned /\ Ascending

LEMMA LinkNextKeepsRx ==
  ASSUME QuietReopen, RecvReliable
  PROVE  TypeOK /\ LinkRxInv /\ [LinkNext]_linkVars => LinkRxInv'
<1> SUFFICES ASSUME TypeOK, LinkRxInv, [LinkNext]_linkVars PROVE LinkRxInv'
  OBVIOUS
<1>0. Typed /\ PcFun /\ ~SlowCommands
  BY TypeOKParts DEF Typed, RecvReliable
<1>1. CASE Data
  <2>1. Next /\ Outside /\ RecvOwned /\ Ascending
    BY <1>1 DEF Data, LinkRxInv
  <2>2. Outside'
    BY <1>0, <1>1, <2>1, DataKeepsOutside
  <2>3. Ascending'
    BY <1>0, <1>1, <2>1, DataKeepsAscending
  <2>4. RecvOwned'
    BY <1>0, <2>1, NextKeepsWakeup, ReliableIsAwaited DEF WakeupKept
  <2>. QED
    BY <2>2, <2>3, <2>4 DEF LinkRxInv
<1>2. CASE LinkActs
  <2>1. RecvOwned'
    BY <1>2, PollMovesNobody, PollOnSocket DEF NobodyMoved, LinkRxInv, RecvOwned
  <2>. QED
    BY <1>0, <1>2, <2>1, PollKeepsOutside, PollKeepsAscending DEF LinkRxInv
<1>3. CASE UNCHANGED linkVars
  <2>1. /\ UNCHANGED <<rxStore, rx_rd, pc, rxLocals, delivered>>
        /\ UNCHANGED <<sn_cr, sn_sr, link_pc>>
    BY <1>3 DEF linkVars, vars, poll, chip, command, rxTask
  <2>2. Ascending'
    BY <2>1, StreamUntouched DEF LinkRxInv, Ascending, Numbered,
       DeliveredBelow, rxStore
  <2>3. Outside' /\ RecvOwned'
    BY <2>1 DEF LinkRxInv, Outside, Inside, RecvOwned
  <2>. QED
    BY <2>2, <2>3 DEF LinkRxInv
<1>. QED
  BY <1>1, <1>2, <1>3 DEF LinkNext, LinkActs

(***************************************************************************)
(* Whenever the socket is closed and opened again, as long as no frame is  *)
(* half received then, no frame is delivered twice, out of order or        *)
(* mutilated.                                                              *)
(***************************************************************************)
THEOREM ReopenDeliversOnce ==
  QuietReopen /\ RecvReliable => (LinkSpec => []DeliveredOnce)
<1> SUFFICES ASSUME QuietReopen, RecvReliable PROVE LinkSpec => []DeliveredOnce
  OBVIOUS
<1>1. LinkInit => LinkRxInv
  <2> SUFFICES ASSUME LinkInit PROVE LinkRxInv
    OBVIOUS
  <2>1. /\ ChipCleared /\ delivered = <<>> /\ arrived = <<>> /\ sn_cr = "NONE"
        /\ pc["rx"] = "take" /\ link_pc = "idle"
    BY DEF LinkInit, DriverInit, RxInit, ChipCleared, Threads
  <2>2. InLine
    BY <2>1, StartsInLine DEF Ahead, Released
  <2>3. Ascending
    BY <2>1, <2>2 DEF InLine, Ascending, Numbered, DeliveredBelow
  <2>. QED
    BY <2>1, <2>3 DEF LinkRxInv, Outside, RecvOwned, Inside, RcvLabels
<1>2. TypeOK /\ LinkRxInv => DeliveredOnce
  <2> SUFFICES ASSUME TypeOK, LinkRxInv PROVE DeliveredOnce
    OBVIOUS
  <2>1. DOMAIN delivered = 1 .. Len(delivered) /\ DOMAIN arrived = 1 .. Len(arrived)
    BY DEF TypeOK, RxTypeOK, ChipTypeOK
  <2>. QED
    BY <2>1 DEF LinkRxInv, Ascending, DeliveredBelow, DeliveredOnce
<1>. QED
  BY <1>1, <1>2, LinkTyped, LinkNextKeepsRx, PTL DEF LinkSpec
=============================================================================

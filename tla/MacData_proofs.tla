--------------------------- MODULE MacData_proofs ---------------------------
(***************************************************************************)
(* Proofs about the data path, for every value of the constants: sizes of  *)
(* memories and frames, number of frames, number and places of failures,   *)
(* quick and slow chips.                                                   *)
(***************************************************************************)
EXTENDS MacData, TLAPS

(***************************************************************************)
(* The wait for the RECV command does not give up on a command the chip    *)
(* still holds.  A quick chip never holds one that long; with a slow one   *)
(* the wait must not be among the failures.                                *)
(***************************************************************************)
RecvAwaited == SlowCommands => "rcv_wait" \notin FaultAt

(* While the interface stays started nothing takes the interrupt away from *)
(* the RX task.                                                            *)
Wired == started /\ gpio_on /\ isr_task /\ ~sn_masked

(* A RECV command in Sn_CR is one the RX task is waiting for.              *)
RecvOwned == sn_cr = "RECV" => pc["rx"] = "rcv_wait"

(* Past the last look at Sn_RX_RSR, pending bytes have their RECV event.   *)
EventKept ==
  pc["rx"] \in {"level", "inner", "loop", "take"} /\ ~rx_failed /\ RxRsr # 0
    => "RECV" \in sn_ir

(* Past the last look at INTn, a low pin has its edge or its notification. *)
EdgeKept ==
  pc["rx"] \in {"loop", "take"} /\ ~rx_failed /\ int_low
    => notified \/ isr_edge

IInv == TypeOK /\ Wired /\ RecvOwned /\ EventKept /\ EdgeKept

(***************************************************************************)
(* The lemmas about single steps ask no more of pc than that it is a       *)
(* function of the threads: the life cycle of the RX task, which has       *)
(* labels of its own, uses them too.                                       *)
(***************************************************************************)
PcFun == pc = [p \in Threads |-> pc[p]]

Typed == ChipTypeOK /\ IrqTypeOK /\ RxTypeOK /\ TxTypeOK /\ PcFun

Labelled == pc["rx"] \in RxLabels \cup {"exit"} /\ pc["tx"] \in TxLabels

USE ChipAssumption, FaultAssumption, TxAssumption

-----------------------------------------------------------------------------
LEMMA PointerFacts ==
  /\ Pointer \subseteq Nat /\ 0 \in Pointer
  /\ \A n \in Int : n % PtrMod \in Pointer
  /\ \A n \in Nat : n % RxBufSize \in 0 .. RxBufSize - 1
  /\ \A a, b \in Pointer : Distance(a, b) \in Pointer
<1>1. Pointer \subseteq Nat /\ 0 \in Pointer
  BY DEF Pointer
<1>2. \A n \in Int : n % PtrMod \in Pointer
  BY DEF Pointer
<1>3. \A n \in Nat : n % RxBufSize \in 0 .. RxBufSize - 1
  OBVIOUS
<1>4. \A a, b \in Pointer : b - a \in Int
  BY <1>1
<1>. QED
  BY <1>1, <1>2, <1>3, <1>4 DEF Distance

(* Arithmetic of the pointer registers.                                    *)
LEMMA SmallRemainder ==
  /\ \A i \in Int : 0 <= i /\ i < PtrMod => i % PtrMod = i
  /\ \A i \in Int : -PtrMod <= i /\ i < 0 => i % PtrMod = i + PtrMod
  /\ \A i \in Int : PtrMod <= i /\ i < 2 * PtrMod => i % PtrMod = i - PtrMod
OBVIOUS

LEMMA DistanceValue ==
  ASSUME NEW a \in Pointer, NEW b \in Pointer
  PROVE  Distance(a, b) = IF a <= b THEN b - a ELSE b - a + PtrMod
<1>1. a \in Int /\ b \in Int /\ 0 <= a /\ a < PtrMod /\ 0 <= b /\ b < PtrMod
  BY DEF Pointer
<1>2. CASE a <= b
  BY <1>1, <1>2, SmallRemainder DEF Distance
<1>3. CASE ~(a <= b)
  BY <1>1, <1>3, SmallRemainder DEF Distance
<1>. QED
  BY <1>2, <1>3

LEMMA DistanceToSelf ==
  ASSUME NEW a \in Pointer
  PROVE  Distance(a, a) = 0
<1>1. a \in Int
  BY DEF Pointer
<1>. QED
  BY <1>1, DistanceValue

(* A pointer moved by n is n farther away, as long as that is less than    *)
(* once around.                                                            *)
LEMMA DistanceMoved ==
  ASSUME NEW a \in Pointer, NEW b \in Pointer, NEW n \in Nat,
         Distance(a, b) + n < PtrMod
  PROVE  Distance(a, (b + n) % PtrMod) = Distance(a, b) + n
<1>1. a \in Int /\ b \in Int /\ 0 <= a /\ a < PtrMod /\ 0 <= b /\ b < PtrMod
  BY DEF Pointer
<1>2. Distance(a, b) = IF a <= b THEN b - a ELSE b - a + PtrMod
  BY DistanceValue
<1>3. n < PtrMod /\ b + n \in Int /\ b + n < 2 * PtrMod
  BY <1>1, <1>2
<1> DEFINE c == (b + n) % PtrMod
<1>4. c = IF b + n < PtrMod THEN b + n ELSE b + n - PtrMod
  BY <1>1, <1>3, SmallRemainder
<1>5. c \in Pointer
  BY <1>3, PointerFacts
<1>6. Distance(a, c) = IF a <= c THEN c - a ELSE c - a + PtrMod
  BY <1>5, DistanceValue
<1>. QED
  BY <1>1, <1>2, <1>4, <1>6

-----------------------------------------------------------------------------
LEMMA ChipInitTypes == ChipInit => ChipTypeOK
<1> SUFFICES ASSUME ChipInit PROVE ChipTypeOK
  OBVIOUS
<1>1. rx_mem \in [0 .. RxBufSize - 1 -> Frame \cup {Bytes}]
  BY DEF ChipInit, ChipCleared
<1>2. arrived \in Seq(Frame)
  BY DEF ChipInit, ChipCleared
<1>. QED
  BY <1>1, <1>2, PointerFacts
     DEF ChipInit, ChipCleared, ChipTypeOK, Commands, IrBits

LEMMA InitTypes ==
  ASSUME IrqInit, RxInit, TxInit,
         started \in BOOLEAN, rx_handle \in BOOLEAN,
         gpio_on \in BOOLEAN, isr_task \in BOOLEAN
  PROVE  IrqTypeOK /\ RxTypeOK /\ TxTypeOK
<1> USE PointerFacts
<1>1. IrqTypeOK
  BY DEF IrqInit, IrqTypeOK
<1>2. RxTypeOK
  <2>1. delivered \in Seq(Frame \cup {Bytes})
    BY DEF RxInit
  <2>. QED
    BY <2>1 DEF RxInit, NoFrame, RxTypeOK
<1>3. TxTypeOK
  BY DEF TxInit, TxTypeOK, TxResults
<1>. QED
  BY <1>1, <1>2, <1>3

LEMMA DriverInitTypes ==
  ASSUME DriverInit
  PROVE  /\ IrqTypeOK /\ RxTypeOK /\ TxTypeOK
         /\ pc \in [Threads -> RxLabels \cup TxLabels \cup {"exit"}]
         /\ pc["rx"] \in RxLabels /\ pc["tx"] \in TxLabels
<1>1. IrqTypeOK /\ RxTypeOK /\ TxTypeOK
  BY InitTypes DEF DriverInit
<1>2. /\ pc \in [Threads -> RxLabels \cup TxLabels \cup {"exit"}]
      /\ pc["rx"] \in RxLabels /\ pc["tx"] \in TxLabels
  BY DEF DriverInit, Threads, RxLabels, TxLabels
<1>. QED
  BY <1>1, <1>2

LEMMA InitTypeOK == Init => TypeOK
BY ChipInitTypes, DriverInitTypes DEF Init, TypeOK

LEMMA GoKeepsPcFun ==
  PcFun => \A p \in Threads : \A label : Go(p, label) => PcFun'
<1> SUFFICES ASSUME PcFun, NEW p \in Threads, NEW label, Go(p, label)
             PROVE  PcFun'
  OBVIOUS
<1>. QED
  BY DEF PcFun, Go

LEMMA TypeOKParts ==
  /\ TypeOK => Typed /\ Labelled
  /\ Typed' /\ Labelled' => TypeOK'
<1>1. TypeOK => Typed /\ Labelled
  BY DEF TypeOK, Typed, Labelled, PcFun
<1>2. Typed' /\ Labelled' => TypeOK'
  <2> SUFFICES ASSUME Typed', Labelled' PROVE TypeOK'
    OBVIOUS
  <2>1. pc' \in [Threads -> RxLabels \cup TxLabels \cup {"exit"}]
    BY DEF Typed, PcFun, Labelled, Threads
  <2>. QED
    BY <2>1 DEF TypeOK, Typed, Labelled
<1>. QED
  BY <1>1, <1>2

LEMMA TypedPc == TypeOK => PcFun
BY TypeOKParts DEF Typed

LEMMA ChipKeepsTypes == Typed /\ Chip => Typed'
<1> SUFFICES ASSUME Typed, Chip PROVE Typed'
  OBVIOUS
<1> USE DEF Typed, PcFun, ChipTypeOK
<1>0. IrqTypeOK' /\ RxTypeOK' /\ TxTypeOK' /\ UNCHANGED pc
  BY DEF Chip, irq, wakeup, gpio, service, rxTask, task, rxLocals, tx,
         IrqTypeOK, RxTypeOK, TxTypeOK, IrBits, Frame, Bytes, Pointer
<1>1. CASE FrameArrives
  <2>1. PICK len \in FrameLens : FrameArrives!(len)
    BY <1>1 DEF FrameArrives
  <2> DEFINE f == [id |-> Len(arrived) + 1, len |-> len]
  <2>2. f \in Frame /\ len \in Nat
    BY <2>1 DEF Frame
  <2>3. arrived' \in Seq(Frame)
    BY <2>1, <2>2
  <2>4. rx_mem' \in [0 .. RxBufSize - 1 -> Frame \cup {Bytes}]
    BY <2>1, <2>2
  <2>5. rx_wr' \in Pointer
    <3>1. rx_wr \in Int /\ len \in Int
      BY <2>2, PointerFacts
    <3>2. rx_wr + HdrLen + len \in Int
      BY <3>1
    <3>. QED
      BY <2>1, <3>2, PointerFacts
  <2>6. sn_ir' \in SUBSET IrBits
    BY <2>1 DEF IrBits
  <2>. QED
    BY <1>0, <2>1, <2>3, <2>4, <2>5, <2>6 DEF command, txRing
<1>2. CASE TakeRecv
  BY <1>0, <1>2 DEF TakeRecv, interrupt, txRing, Commands
<1>3. CASE TakeSend
  BY <1>0, <1>3 DEF TakeSend, interrupt, rxStore, Commands
<1>4. CASE SendDone
  BY <1>0, <1>4 DEF SendDone, command, rxStore, IrBits
<1>5. CASE OtherEvent
  BY <1>0, <1>5 DEF OtherEvent, command, rxStore, txRing, IrBits
<1>. QED
  BY <1>1, <1>2, <1>3, <1>4, <1>5 DEF Chip, ChipStep

LEMMA WakeKeepsTypes == Typed /\ Wake => Typed'
<1> SUFFICES ASSUME Typed, Wake PROVE Typed'
  OBVIOUS
<1> USE DEF Typed, PcFun
<1>1. RxTypeOK' /\ TxTypeOK'
  BY DEF Wake, RxTypeOK, TxTypeOK, rxTask, task, rxLocals, tx
<1>2. CASE AssertIntn
  <2>1. isr_edge' \in BOOLEAN /\ int_low' \in BOOLEAN
    BY <1>2 DEF AssertIntn, IrqTypeOK
  <2>2. ChipTypeOK' /\ IrqTypeOK'
    BY <1>2, <2>1 DEF AssertIntn, ChipTypeOK, IrqTypeOK, command, rxStore,
       txRing, gpio, service
  <2>. QED
    BY <1>1, <1>2, <2>2 DEF AssertIntn
<1>3. CASE Isr
  <2>1. ChipTypeOK' /\ IrqTypeOK'
    BY <1>3 DEF Isr, ChipTypeOK, IrqTypeOK, chip, command, interrupt,
       rxStore, txRing, gpio, service
  <2>. QED
    BY <1>1, <1>3, <2>1 DEF Isr
<1>. QED
  BY <1>2, <1>3 DEF Wake

(* w5500_socket0_update_tx_completion, in either thread.                   *)
LEMMA CompKeepsTypes ==
  ASSUME Typed, NEW p \in Threads, UpdateTxCompletion(p)
  PROVE  /\ ChipTypeOK' /\ IrqTypeOK'
         /\ (p = "rx" \/ p = "tx") /\ PcFun'
<1> USE DEF Typed
<1>1. p = "rx" \/ p = "tx"
  BY DEF Threads
<1>3. \A label : Go(p, label) => PcFun'
  BY GoKeepsPcFun
<1>4. \A bits \in SUBSET IrBits :
        CompStep(p, bits) => comp_ir' \in [Threads -> SUBSET IrBits] /\ PcFun'
  BY <1>3 DEF CompStep, IrqTypeOK
<1>5. comp_ir[p] \in SUBSET IrBits /\ sn_ir \in SUBSET IrBits
  BY DEF IrqTypeOK, ChipTypeOK
<1>6. CASE CompRead(p)
  <2>1. comp_ir' \in [Threads -> SUBSET IrBits] /\ PcFun'
    BY <1>4, <1>5, <1>6 DEF CompRead
  <2>. QED
    BY <1>1, <1>6, <2>1 DEF CompRead, chip, command, interrupt, rxStore,
       txRing, wakeup, gpio, service, IrqTypeOK, ChipTypeOK
<1>7. CASE CompNotify(p)
  <2>1. comp_ir' \in [Threads -> SUBSET IrBits] /\ PcFun'
    BY <1>4, <1>5, <1>7 DEF CompNotify
  <2>. QED
    BY <1>1, <1>7, <2>1 DEF CompNotify, chip, command, interrupt, rxStore,
       txRing, gpio, service, IrqTypeOK, ChipTypeOK
<1>8. CASE CompClear(p)
  <2>1. PICK bit \in {"SEND_OK", "TIMEOUT"} : CompClear(p)!(bit)
    BY <1>8 DEF CompClear
  <2>2. comp_ir' \in [Threads -> SUBSET IrBits] /\ PcFun'
    BY <1>4, <1>5, <2>1
  <2>. QED
    BY <1>1, <2>1, <2>2 DEF ClearSnIr, command, rxStore,
       txRing, wakeup, gpio, service, IrqTypeOK, ChipTypeOK
<1>9. CASE CompTimesOut(p)
  <2>1. PcFun'
    BY <1>3, <1>9 DEF CompTimesOut
  <2>. QED
    BY <1>1, <1>9, <2>1 DEF CompTimesOut, Fails, chip, command, interrupt,
       rxStore, txRing, wakeup, gpio, service, IrqTypeOK, ChipTypeOK
<1>. QED
  BY <1>6, <1>7, <1>8, <1>9 DEF UpdateTxCompletion

LEMMA ServiceKeepsTypes ==
  ASSUME Typed, ServiceInterrupts
  PROVE  ChipTypeOK' /\ IrqTypeOK' /\ PcFun'
<1> USE DEF Typed
<1>1. \A label : Go("rx", label) => PcFun'
  BY GoKeepsPcFun DEF Threads
<1>3. CASE UpdateTxCompletion("rx")
  BY <1>3, CompKeepsTypes DEF Threads
<1>4. CASE SvcReadIr
  <2>1. PcFun'
    BY <1>1, <1>4 DEF SvcReadIr
  <2>. QED
    BY <1>4, <2>1 DEF SvcReadIr, chip, command, interrupt, rxStore, txRing,
       wakeup, gpio, IrqTypeOK, ChipTypeOK
<1>5. CASE SvcReadSir
  <2>1. PICK sir \in BOOLEAN :
          /\ rx_sir' = sir
          /\ Go("rx", IF rx_ir THEN "svc_clr_ir"
                      ELSE IF sir THEN "svc_s0" ELSE "clr_rd")
    BY <1>5 DEF SvcReadSir, SirReads
  <2>2. PcFun'
    BY <1>1, <2>1
  <2>. QED
    BY <1>5, <2>1, <2>2 DEF SvcReadSir, chip, command, interrupt, rxStore,
       txRing, wakeup, gpio, IrqTypeOK, ChipTypeOK
<1>6. CASE SvcClearIr
  <2>1. PcFun'
    BY <1>1, <1>6 DEF SvcClearIr
  <2>. QED
    BY <1>6, <2>1 DEF SvcClearIr, command, rxStore, txRing, wakeup, gpio,
       IrqTypeOK, ChipTypeOK
<1>7. CASE SvcReadS0
  <2>1. PcFun'
    BY <1>1, <1>7 DEF SvcReadS0
  <2>. QED
    BY <1>7, <2>1 DEF SvcReadS0, chip, command, interrupt, rxStore, txRing,
       wakeup, gpio, IrqTypeOK, ChipTypeOK
<1>8. CASE SvcConn
  <2>1. SvcEnd
    BY <1>8 DEF SvcConn
  <2>2. PcFun'
    BY <1>1, <2>1 DEF SvcEnd
  <2>3. sn_ir' \in SUBSET IrBits /\ int_low' \in BOOLEAN
    BY <1>8 DEF SvcConn, ClearSnIr, interrupt, ChipTypeOK
  <2>. QED
    BY <2>1, <2>2, <2>3 DEF SvcEnd, command, rxStore, txRing, wakeup, gpio,
       IrqTypeOK, ChipTypeOK
<1>9. CASE SvcTimesOut
  <2>1. PcFun'
    BY <1>1, <1>9 DEF SvcTimesOut
  <2>2. faults' \in Nat
    BY <1>9 DEF SvcTimesOut, Fails, IrqTypeOK
  <2>. QED
    BY <1>9, <2>1, <2>2 DEF SvcTimesOut, chip, command, interrupt, rxStore,
       txRing, wakeup, gpio, IrqTypeOK, ChipTypeOK
<1>. QED
  BY <1>3, <1>4, <1>5, <1>6, <1>7, <1>8, <1>9 DEF ServiceInterrupts

(* A break out of the inner loop, and the branches between the loops.      *)
LEMMA BreakKeepsTypes ==
  ASSUME Typed, Break
  PROVE  /\ PcFun' /\ started' \in BOOLEAN /\ rx_handle' \in BOOLEAN
         /\ rx_failed' \in BOOLEAN /\ delivered' \in Seq(Frame \cup {Bytes})
BY GoKeepsPcFun DEF Break, Typed, RxTypeOK, task, Threads

LEMMA CheckKeepsTypes ==
  ASSUME Typed, NEW ok \in BOOLEAN, NEW then, Check(ok, then)
  PROVE  /\ PcFun' /\ started' \in BOOLEAN /\ rx_handle' \in BOOLEAN
         /\ rx_failed' \in BOOLEAN /\ delivered' \in Seq(Frame \cup {Bytes})
BY BreakKeepsTypes, GoKeepsPcFun DEF Check, Typed, RxTypeOK, task, Threads

LEMMA RxKeepsTypes == Typed /\ Rx => Typed'
<1> SUFFICES ASSUME Typed, Rx PROVE Typed'
  OBVIOUS
<1> USE DEF Typed
<1>1. TxTypeOK'
  BY DEF Rx, tx, TxTypeOK
<1>2. PcFun' /\ ChipTypeOK' /\ IrqTypeOK' /\ RxTypeOK' => Typed'
  BY <1>1
<1>3. \A label : Go("rx", label) => PcFun'
  BY GoKeepsPcFun DEF Threads
<1>4. UNCHANGED chip => ChipTypeOK'
  BY DEF chip, command, interrupt, rxStore, txRing, ChipTypeOK
<1>5. UNCHANGED irq => IrqTypeOK'
  BY DEF irq, wakeup, gpio, service, IrqTypeOK
<1>6. UNCHANGED rxTask => RxTypeOK'
  BY DEF rxTask, task, rxLocals, RxTypeOK
<1>7. CASE ServiceInterrupts /\ UNCHANGED rxTask
  BY <1>2, <1>6, <1>7, ServiceKeepsTypes
<1>8. CASE Take
  <2>1. PcFun'
    BY <1>3, <1>8 DEF Take
  <2>2. IrqTypeOK'
    BY <1>8 DEF Take, IrqTypeOK, gpio, service
  <2>3. RxTypeOK'
    BY <1>8 DEF Take, RxTypeOK, task, rxLocals
  <2>. QED
    BY <1>2, <1>4, <1>8, <2>1, <2>2, <2>3 DEF Take
<1>9. CASE Woken \/ Inner \/ Loop \/ Level \/ Drain
  <2>1. PcFun' /\ UNCHANGED <<chip, irq, rxTask>>
    BY <1>3, <1>9 DEF Woken, Inner, Loop, Level, Drain, Branch
  <2>. QED
    BY <1>2, <1>4, <1>5, <1>6, <2>1
<1>10. CASE ClearRecvRead \/ DrainRsr
  <2>1. PcFun' /\ UNCHANGED <<chip, irq, rxTask>>
    BY <1>3, <1>10 DEF ClearRecvRead, DrainRsr
  <2>. QED
    BY <1>2, <1>4, <1>5, <1>6, <2>1
<1>11. CASE ClearRecvWrite
  <2>1. PcFun'
    BY <1>3, <1>11 DEF ClearRecvWrite
  <2>2. ChipTypeOK'
    BY <1>11 DEF ClearRecvWrite, ClearSnIr, ChipTypeOK, command, rxStore,
       txRing
  <2>. QED
    BY <1>2, <1>5, <1>6, <1>11, <2>1, <2>2 DEF ClearRecvWrite
<1>12. CASE RcvSr
  <2>1. /\ PcFun' /\ started' \in BOOLEAN /\ rx_handle' \in BOOLEAN
        /\ rx_failed' \in BOOLEAN /\ delivered' \in Seq(Frame \cup {Bytes})
    BY <1>12, CheckKeepsTypes DEF RcvSr
  <2>. QED
    BY <1>2, <1>4, <1>5, <1>12, <2>1 DEF RcvSr, rxLocals, RxTypeOK
<1>13. CASE RcvRsr
  <2>1. PICK ok \in BOOLEAN : \E then \in {"rcv_rd", "level"} : Check(ok, then)
    BY <1>13 DEF RcvRsr
  <2>2. rx_remain' \in Pointer
    <3>1. RxRsr \in Pointer
      BY PointerFacts DEF RxRsr, ChipTypeOK
    <3>. QED
      BY <1>13, <3>1, PointerFacts DEF RcvRsr
  <2>. QED
    BY <1>2, <1>4, <1>5, <1>13, <2>1, <2>2, CheckKeepsTypes
       DEF RcvRsr, RxTypeOK
<1>14. CASE RcvRd
  <2>1. /\ PcFun' /\ started' \in BOOLEAN /\ rx_handle' \in BOOLEAN
        /\ rx_failed' \in BOOLEAN /\ delivered' \in Seq(Frame \cup {Bytes})
    BY <1>14, CheckKeepsTypes DEF RcvRd
  <2>. QED
    BY <1>2, <1>4, <1>5, <1>14, <2>1 DEF RcvRd, RxTypeOK, ChipTypeOK
<1>15. CASE RcvHdr
  <2>1. PICK len \in HeaderAt(rx_ptr) : RcvHdr!2!(len)
    BY <1>15 DEF RcvHdr
  <2>2. CASE GoodRecord(len)
    <3>1. len \in Pointer
      <4>1. len \in Nat
        <5>1. rx_mem[rx_ptr % RxBufSize] \in Frame \cup {Bytes}
          BY PointerFacts DEF ChipTypeOK, RxTypeOK
        <5>2. \A f \in Frame : HdrLen + f.len \in Nat
          <6>1. \A f \in Frame : f.len \in FrameLens
            BY DEF Frame
          <6>2. \A n \in FrameLens : HdrLen + n \in Nat
            OBVIOUS
          <6>. QED
            BY <6>1, <6>2
        <5>. QED
          BY <2>1, <5>1, <5>2, PointerFacts DEF HeaderAt
      <4>. QED
        BY <2>2, <4>1 DEF GoodRecord, RxTypeOK, Pointer
    <3>2. /\ PcFun' /\ started' \in BOOLEAN /\ rx_handle' \in BOOLEAN
          /\ rx_failed' \in BOOLEAN /\ delivered' \in Seq(Frame \cup {Bytes})
      BY <2>1, <2>2, CheckKeepsTypes
    <3>. QED
      BY <1>2, <1>4, <1>5, <1>15, <2>1, <2>2, <3>1, <3>2 DEF RcvHdr, RxTypeOK
  <2>3. CASE ~GoodRecord(len)
    BY <1>2, <1>4, <1>5, <1>15, <2>1, <2>3, BreakKeepsTypes, PointerFacts
       DEF RcvHdr, RxTypeOK
  <2>. QED
    BY <2>2, <2>3
<1>16. CASE RcvPay
  <2>1. /\ PcFun' /\ started' \in BOOLEAN /\ rx_handle' \in BOOLEAN
        /\ rx_failed' \in BOOLEAN /\ delivered' \in Seq(Frame \cup {Bytes})
    BY <1>16, CheckKeepsTypes DEF RcvPay
  <2>2. rx_frame' \in Frame \cup {Bytes}
    <3>1. rx_ptr % RxBufSize \in 0 .. RxBufSize - 1
      BY PointerFacts DEF RxTypeOK
    <3>. QED
      BY <1>16, <3>1 DEF RcvPay, PayloadAt, ChipTypeOK
  <2>3. rx_ptr' \in Pointer
    <3>1. rx_ptr + rx_reclen \in Nat
      BY PointerFacts DEF RxTypeOK
    <3>. QED
      BY <1>16, <3>1, PointerFacts DEF RcvPay
  <2>. QED
    BY <1>2, <1>4, <1>5, <1>16, <2>1, <2>2, <2>3, PointerFacts
       DEF RcvPay, RxTypeOK
<1>17. CASE RcvWriteRd
  <2>1. /\ PcFun' /\ started' \in BOOLEAN /\ rx_handle' \in BOOLEAN
        /\ rx_failed' \in BOOLEAN /\ delivered' \in Seq(Frame \cup {Bytes})
    BY <1>17, CheckKeepsTypes DEF RcvWriteRd
  <2>2. ChipTypeOK'
    BY <1>17 DEF RcvWriteRd, RxTypeOK, ChipTypeOK, command, interrupt,
       rxStore, txRing
  <2>. QED
    BY <1>2, <1>5, <1>17, <2>1, <2>2, PointerFacts DEF RcvWriteRd, RxTypeOK
<1>18. CASE RcvCommand
  <2>1. /\ PcFun' /\ started' \in BOOLEAN /\ rx_handle' \in BOOLEAN
        /\ rx_failed' \in BOOLEAN /\ delivered' \in Seq(Frame \cup {Bytes})
    BY <1>18, CheckKeepsTypes DEF RcvCommand
  <2>2. ChipTypeOK'
    BY <1>18 DEF RcvCommand, ChipTypeOK, interrupt, rxStore, txRing, Commands
  <2>. QED
    BY <1>2, <1>5, <1>18, <2>1, <2>2 DEF RcvCommand, RxTypeOK, rxLocals
<1>19. CASE RcvDone
  <2>1. PcFun'
    BY <1>3, <1>19 DEF RcvDone
  <2>2. delivered' \in Seq(Frame \cup {Bytes})
    BY <1>19 DEF RcvDone, RxTypeOK
  <2>. QED
    BY <1>2, <1>4, <1>5, <1>19, <2>1, <2>2 DEF RcvDone, RxTypeOK, task
<1>20. CASE RxGivesUp
  <2>1. IrqTypeOK'
    <3>1. comp_ir' \in [Threads -> SUBSET IrBits]
      BY <1>20 DEF RxGivesUp, IrqTypeOK
    <3>2. faults' \in Nat
      BY <1>20 DEF RxGivesUp, Fails, IrqTypeOK
    <3>. QED
      BY <1>20, <3>1, <3>2 DEF RxGivesUp, IrqTypeOK, wakeup, gpio
  <2>. QED
    BY <1>2, <1>4, <1>20, <2>1, BreakKeepsTypes, PointerFacts
       DEF RxGivesUp, RxTypeOK
<1>. QED
  BY <1>7, <1>8, <1>9, <1>10, <1>11, <1>12, <1>13, <1>14, <1>15, <1>16,
     <1>17, <1>18, <1>19, <1>20 DEF Rx, RxStep

LEMMA TxKeepsTypes == Typed /\ (Tx \/ Send) => Typed'
<1> SUFFICES ASSUME Typed, Tx \/ Send PROVE Typed'
  OBVIOUS
<1> USE DEF Typed
<1>1. RxTypeOK'
  BY DEF Tx, Send, rxTask, task, rxLocals, RxTypeOK
<1>2. PcFun' /\ ChipTypeOK' /\ IrqTypeOK' /\ TxTypeOK' => Typed'
  BY <1>1
<1>3. \A label : Go("tx", label) => PcFun'
  BY GoKeepsPcFun DEF Threads
<1>4. UNCHANGED chip => ChipTypeOK'
  BY DEF chip, command, interrupt, rxStore, txRing, ChipTypeOK
<1>5. UNCHANGED txIrq => IrqTypeOK'
  BY DEF txIrq, wakeup, gpio, service, IrqTypeOK
<1>6. UNCHANGED tx => TxTypeOK'
  BY DEF tx, TxTypeOK
<1>7. \A result \in TxResults : Return(result) => PcFun' /\ TxTypeOK'
  BY <1>3, PointerFacts DEF Return, TxTypeOK
<1>8. CASE Send
  <2>1. PcFun' /\ TxTypeOK'
    BY <1>3, <1>8 DEF Send, Transmit, TxTypeOK, TxResults
  <2>. QED
    BY <1>2, <1>4, <1>5, <1>8, <2>1 DEF Send, Transmit
<1>9. CASE UpdateTxCompletion("tx") /\ UNCHANGED tx
  BY <1>2, <1>6, <1>9, CompKeepsTypes DEF Threads
<1>10. CASE TxReadSr
  <2>1. PcFun' /\ TxTypeOK'
    BY <1>3, <1>6, <1>7, <1>10 DEF TxReadSr, TxResults
  <2>. QED
    BY <1>2, <1>4, <1>5, <1>10, <2>1 DEF TxReadSr
<1>11. CASE TxReadFsr
  <2>1. PcFun' /\ TxTypeOK'
    BY <1>3, <1>6, <1>7, <1>11 DEF TxReadFsr, TxResults
  <2>. QED
    BY <1>2, <1>4, <1>5, <1>11, <2>1 DEF TxReadFsr
<1>12. CASE TxReadWr
  <2>1. PcFun' /\ TxTypeOK'
    BY <1>3, <1>12 DEF TxReadWr, TxTypeOK, ChipTypeOK
  <2>. QED
    BY <1>2, <1>4, <1>5, <1>12, <2>1 DEF TxReadWr
<1>13. CASE TxWriteBuffer
  <2>1. tx_ptr + tx_len \in Int
    BY PointerFacts DEF TxTypeOK
  <2>2. PcFun' /\ TxTypeOK'
    BY <1>3, <1>13, <2>1, PointerFacts DEF TxWriteBuffer, TxTypeOK
  <2>. QED
    BY <1>2, <1>4, <1>5, <1>13, <2>2 DEF TxWriteBuffer
<1>14. CASE TxWriteWr
  <2>1. PcFun'
    BY <1>3, <1>14 DEF TxWriteWr
  <2>2. ChipTypeOK'
    BY <1>14 DEF TxWriteWr, ChipTypeOK, TxTypeOK, command, interrupt, rxStore
  <2>. QED
    BY <1>2, <1>5, <1>6, <1>14, <2>1, <2>2 DEF TxWriteWr
<1>15. CASE TxCommand
  <2>1. PcFun'
    BY <1>3, <1>15 DEF TxCommand
  <2>2. ChipTypeOK'
    BY <1>15 DEF TxCommand, ChipTypeOK, Commands, interrupt, rxStore, txRing
  <2>. QED
    BY <1>2, <1>5, <1>6, <1>15, <2>1, <2>2 DEF TxCommand
<1>16. CASE TxDone
  BY <1>2, <1>4, <1>5, <1>7, <1>16 DEF TxDone, TxResults
<1>17. CASE TxFails
  <2>1. comp_ir' \in [Threads -> SUBSET IrBits]
    BY <1>17 DEF TxFails, IrqTypeOK
  <2>2. faults' \in Nat
    BY <1>17 DEF TxFails, Fails, IrqTypeOK
  <2>3. IrqTypeOK'
    BY <1>17, <2>1, <2>2 DEF TxFails, IrqTypeOK, wakeup, gpio, service
  <2>. QED
    BY <1>2, <1>4, <1>7, <1>17, <2>3 DEF TxFails, TxResults
<1>. QED
  BY <1>8, <1>9, <1>10, <1>11, <1>12, <1>13, <1>14, <1>15, <1>16, <1>17
     DEF Tx, TxStep

LEMMA NextKeepsTypes == Typed /\ [Next]_vars => Typed'
<1>1. Typed /\ UNCHANGED vars => Typed'
  BY DEF vars, chip, command, interrupt, rxStore, txRing, irq, wakeup, gpio,
     service, rxTask, task, rxLocals, tx, Typed, PcFun, ChipTypeOK, IrqTypeOK,
     RxTypeOK, TxTypeOK
<1>. QED
  BY <1>1, ChipKeepsTypes, WakeKeepsTypes, RxKeepsTypes, TxKeepsTypes
     DEF Next

-----------------------------------------------------------------------------
(***************************************************************************)
(* Where the threads go: the RX task stays in its loop, and leaves it only *)
(* after a stop; no step of the data path touches the life of the task.    *)
(***************************************************************************)
LifeKeptBy == UNCHANGED <<started, rx_handle, gpio_on, isr_task>>

RxMoves ==
  /\ pc["rx"] \in RxLabels
  /\ \/ pc'["rx"] \in RxLabels
     \/ pc'["rx"] = "exit" /\ ~started /\ UNCHANGED <<chip, rx_failed>>
  /\ pc'["tx"] = pc["tx"] /\ PcFun'
  /\ LifeKeptBy

TxMoves ==
  /\ pc["tx"] \in TxLabels /\ pc'["tx"] \in TxLabels
  /\ pc'["rx"] = pc["rx"] /\ PcFun'
  /\ LifeKeptBy

LEMMA GoMoves ==
  ASSUME PcFun, NEW p \in Threads, NEW label, Go(p, label)
  PROVE  /\ pc'[p] = label /\ PcFun'
         /\ \A q \in Threads : q # p => pc'[q] = pc[q]
BY GoKeepsPcFun DEF PcFun, Go

LEMMA CompMoves ==
  ASSUME PcFun, NEW p \in Threads, UpdateTxCompletion(p),
         UNCHANGED <<started, rx_handle>>
  PROVE  /\ pc[p] \in CompLabels /\ pc'[p] \in CompLabels \cup {AfterComp(p)}
         /\ \A q \in Threads : q # p => pc'[q] = pc[q]
         /\ PcFun' /\ LifeKeptBy
<1>1. LifeKeptBy /\ pc[p] \in CompLabels
  BY DEF UpdateTxCompletion, CompRead, CompNotify, CompClear, CompTimesOut, At,
     Fails, gpio, LifeKeptBy, CompLabels
<1>2. PICK label \in CompLabels \cup {AfterComp(p)} : Go(p, label)
  BY DEF UpdateTxCompletion, CompRead, CompNotify, CompClear, CompTimesOut,
     CompStep, CompLabel, CompLabels
<1>. QED
  BY <1>1, <1>2, GoMoves

LEMMA TxStaysInCall == PcFun /\ (Tx \/ Send) => TxMoves
<1> SUFFICES ASSUME PcFun, Tx \/ Send PROVE TxMoves
  OBVIOUS
<1>1. UNCHANGED <<started, rx_handle>> /\ "tx" \in Threads /\ "rx" \in Threads
  BY DEF Tx, Send, rxTask, task, Threads
<1>2. CASE UpdateTxCompletion("tx")
  BY <1>1, <1>2, CompMoves DEF TxMoves, AfterComp, TxLabels
<1>3. CASE \/ Transmit \/ TxReadSr \/ TxReadFsr \/ TxReadWr \/ TxWriteBuffer
           \/ TxWriteWr \/ TxCommand \/ TxDone \/ TxFails
  <2>1. LifeKeptBy /\ pc["tx"] \in TxLabels
    BY <1>1, <1>3 DEF Transmit, TxReadSr, TxReadFsr, TxReadWr, TxWriteBuffer,
       TxWriteWr, TxCommand, TxDone, TxFails, Fails, At, txIrq, gpio, LifeKeptBy,
       TxLabels, CompLabels
  <2>2. \E label \in TxLabels : Go("tx", label)
    BY <1>3 DEF Transmit, TxReadSr, TxReadFsr, TxReadWr, TxWriteBuffer,
       TxWriteWr, TxCommand, TxDone, TxFails, Return, TxLabels, CompLabels
  <2>. QED
    BY <1>1, <2>1, <2>2, GoMoves DEF TxMoves
<1>. QED
  BY <1>2, <1>3 DEF Tx, Send, TxStep

LEMMA RxStaysInLoop == PcFun /\ Rx => RxMoves
<1> SUFFICES ASSUME PcFun, Rx PROVE RxMoves
  OBVIOUS
<1>0. "tx" \in Threads /\ "rx" \in Threads
  BY DEF Threads
<1>1. \A label \in RxLabels :
        Go("rx", label) /\ LifeKeptBy /\ pc["rx"] \in RxLabels => RxMoves
  BY <1>0, GoMoves DEF RxMoves
<1>2. CASE ServiceInterrupts /\ UNCHANGED rxTask
  <2>1. UNCHANGED <<started, rx_handle>>
    BY <1>2 DEF rxTask, task
  <2>2. CASE UpdateTxCompletion("rx")
    BY <1>0, <2>1, <2>2, CompMoves DEF RxMoves, AfterComp, RxLabels, SvcLabels
  <2>3. CASE \/ SvcReadIr \/ SvcReadSir \/ SvcClearIr \/ SvcReadS0 \/ SvcConn
             \/ SvcTimesOut
    <3>1. LifeKeptBy /\ pc["rx"] \in RxLabels
      BY <2>1, <2>3 DEF SvcReadIr, SvcReadSir, SvcClearIr, SvcReadS0, SvcConn,
         SvcEnd, SvcTimesOut, Fails, At, gpio, LifeKeptBy, RxLabels, SvcLabels
    <3>2. \E label \in RxLabels : Go("rx", label)
      BY <2>3 DEF SvcReadIr, SvcReadSir, SvcClearIr, SvcReadS0, SvcConn,
         SvcEnd, SvcTimesOut, RxLabels, SvcLabels, CompLabels
    <3>. QED
      BY <1>1, <3>1, <3>2
  <2>. QED
    BY <1>2, <2>2, <2>3 DEF ServiceInterrupts
<1>3. CASE Woken \/ Loop
  <2>1. LifeKeptBy /\ pc["rx"] \in RxLabels
    BY <1>3 DEF Woken, Loop, Branch, irq, gpio, rxTask, task, LifeKeptBy, RxLabels
  <2>2. \/ \E label \in RxLabels : Go("rx", label)
        \/ ~started /\ Go("rx", "exit")
    BY <1>3 DEF Woken, Loop, Branch, RxLabels, SvcLabels
  <2>3. CASE ~started /\ Go("rx", "exit") /\ UNCHANGED <<chip, rx_failed>>
    BY <1>0, <2>1, <2>3, GoMoves DEF RxMoves
  <2>4. UNCHANGED <<chip, rx_failed>>
    BY <1>3 DEF Woken, Loop, Branch, rxTask
  <2>. QED
    BY <1>1, <2>1, <2>2, <2>3, <2>4
<1>4. CASE Take \/ Inner \/ Level \/ ClearRecvRead \/ ClearRecvWrite \/ Drain
           \/ DrainRsr
  <2>1. LifeKeptBy /\ pc["rx"] \in RxLabels
    BY <1>4 DEF Take, Inner, Level, ClearRecvRead, ClearRecvWrite, Drain,
       DrainRsr, At, Branch, irq, gpio, rxTask, task, LifeKeptBy, RxLabels
  <2>2. \E label \in RxLabels : Go("rx", label)
    BY <1>4 DEF Take, Inner, Level, ClearRecvRead, ClearRecvWrite, Drain,
       DrainRsr, Branch, RxLabels, SvcLabels, RcvLabels
  <2>. QED
    BY <1>1, <2>1, <2>2
<1>5. CASE \/ RcvSr \/ RcvRsr \/ RcvRd \/ RcvHdr \/ RcvPay \/ RcvWriteRd
           \/ RcvCommand \/ RcvDone
  <2>1. LifeKeptBy /\ pc["rx"] \in RxLabels
    BY <1>5 DEF RcvSr, RcvRsr, RcvRd, RcvHdr, RcvPay, RcvWriteRd, RcvCommand,
       RcvDone, Check, Break, At, irq, gpio, task, LifeKeptBy, RxLabels, RcvLabels
  <2>2. \E label \in RxLabels : Go("rx", label)
    BY <1>5 DEF RcvSr, RcvRsr, RcvRd, RcvHdr, RcvPay, RcvWriteRd, RcvCommand,
       RcvDone, Check, Break, RxLabels, RcvLabels
  <2>. QED
    BY <1>1, <2>1, <2>2
<1>6. CASE RxGivesUp
  <2>1. LifeKeptBy /\ pc["rx"] \in RxLabels
    BY <1>6 DEF RxGivesUp, Fails, At, Break, gpio, task, LifeKeptBy
  <2>2. Go("rx", "loop") /\ "loop" \in RxLabels
    BY <1>6 DEF RxGivesUp, Break, RxLabels
  <2>. QED
    BY <1>1, <2>1, <2>2
<1>. QED
  BY <1>2, <1>3, <1>4, <1>5, <1>6 DEF Rx, RxStep

LEMMA OthersMoveNobody == Chip \/ Wake => UNCHANGED pc /\ LifeKeptBy
BY DEF Chip, Wake, AssertIntn, Isr, irq, gpio, rxTask, task, LifeKeptBy

LEMMA NextKeepsTypeOK == TypeOK /\ [Next]_vars => TypeOK'
<1> SUFFICES ASSUME TypeOK, [Next]_vars PROVE TypeOK'
  OBVIOUS
<1>1. Typed' /\ Typed
  BY NextKeepsTypes, TypeOKParts
<1>2. Labelled'
  BY <1>1, TypeOKParts, RxStaysInLoop, TxStaysInCall, OthersMoveNobody
     DEF Next, vars, Typed, Labelled, RxMoves, TxMoves
<1>. QED
  BY <1>1, <1>2, TypeOKParts

(***************************************************************************)
(* Every variable keeps its type, whatever fails.                          *)
(***************************************************************************)
THEOREM TypeCorrect == Spec => []TypeOK
BY NextKeepsTypeOK, InitTypeOK, PTL DEF Spec

-----------------------------------------------------------------------------
(***************************************************************************)
(* The wakeup of the RX task.  The invariant adds to the types the three   *)
(* facts that together exclude a lost wakeup; each leans on the others:    *)
(* only the RX task clears the RECV event, and it looks at the memory      *)
(* after clearing it; it looks at the pin after looking at the memory.     *)
(***************************************************************************)
(* What a step does to the wakeup: no RECV command is left without its     *)
(* waiter, and while the interface is started and listens, neither the     *)
(* event nor the edge gets lost.  A notification stays until it wakes.     *)
WakeupKept ==
  /\ RecvOwned'
  /\ started /\ EventKept => EventKept'
  /\ started /\ gpio_on /\ isr_task /\ EdgeKept => EdgeKept'
  /\ notified => notified' \/ pc'["rx"] = "woken"

(* Bytes that are pending have their RECV event, and go on having it.      *)
Announced == RxRsr # 0 => "RECV" \in sn_ir

AnnouncedKept == RecvOwned /\ pc["rx"] # "rcv_wait" /\ Announced => Announced'

(* With the pin, the labels and the RX task's locals left alone.           *)
LEMMA AnnouncedKeepsWakeup ==
  ASSUME AnnouncedKept, RecvOwned, RecvOwned',
         UNCHANGED <<isr_edge, rx_failed>>, pc'["rx"] = pc["rx"],
         notified => notified', int_low' => int_low
  PROVE  WakeupKept
<1>1. EventKept => EventKept'
  BY DEF EventKept, AnnouncedKept, Announced
<1>. QED
  BY <1>1 DEF WakeupKept, EdgeKept

LEMMA ChipKeepsWakeup == RecvOwned /\ Chip => WakeupKept /\ AnnouncedKept
<1> SUFFICES ASSUME RecvOwned, Chip PROVE WakeupKept /\ AnnouncedKept
  OBVIOUS
<1>1. UNCHANGED <<pc, wakeup, gpio, started, rx_failed>>
  BY DEF Chip, irq, rxTask, task
<1>2. UNCHANGED int_low
  BY DEF Chip, ChipStep, FrameArrives, TakeRecv, TakeSend, SendDone,
     OtherEvent, interrupt
<1>3. RecvOwned' /\ AnnouncedKept => WakeupKept
  BY <1>1, <1>2, AnnouncedKeepsWakeup DEF wakeup
<1>4. CASE FrameArrives
  <2>1. "RECV" \in sn_ir' /\ UNCHANGED sn_cr
    BY <1>4 DEF FrameArrives, command
  <2>. QED
    BY <1>1, <1>3, <2>1 DEF RecvOwned, AnnouncedKept, Announced
<1>5. CASE TakeRecv
  <2>1. pc["rx"] = "rcv_wait" /\ sn_cr' = "NONE"
    BY <1>5 DEF TakeRecv, RecvOwned
  <2>. QED
    BY <1>1, <1>3, <2>1 DEF RecvOwned, AnnouncedKept
<1>6. CASE TakeSend \/ SendDone \/ OtherEvent
  <2>1. /\ UNCHANGED <<rx_wr, rx_ack>> /\ sn_ir \subseteq sn_ir'
        /\ sn_cr' \in {sn_cr, "NONE"}
    BY <1>6 DEF TakeSend, SendDone, OtherEvent, rxStore, command, interrupt
  <2>2. UNCHANGED RxRsr
    BY <2>1 DEF RxRsr, Distance
  <2>. QED
    BY <1>1, <1>3, <2>1, <2>2 DEF RecvOwned, AnnouncedKept, Announced
<1>. QED
  BY <1>4, <1>5, <1>6 DEF Chip, ChipStep

LEMMA WakeKeepsWakeup == RecvOwned /\ Wake => WakeupKept /\ AnnouncedKept
<1> SUFFICES ASSUME RecvOwned, Wake PROVE WakeupKept /\ AnnouncedKept
  OBVIOUS
<1>1. /\ UNCHANGED <<pc, gpio, started, rx_failed, sn_masked, sn_cr, sn_ir>>
      /\ UNCHANGED <<rx_wr, rx_ack>>
  BY DEF Wake, AssertIntn, Isr, rxTask, task, chip, command, interrupt, rxStore
<1>2. UNCHANGED RxRsr
  BY <1>1 DEF RxRsr, Distance
<1>3. RecvOwned' /\ (EventKept => EventKept') /\ AnnouncedKept
  BY <1>1, <1>2 DEF RecvOwned, EventKept, AnnouncedKept, Announced
<1>4. CASE AssertIntn
  BY <1>1, <1>3, <1>4 DEF AssertIntn, EdgeKept, WakeupKept
<1>5. CASE Isr
  BY <1>1, <1>3, <1>5 DEF Isr, EdgeKept, WakeupKept, chip, interrupt
<1>. QED
  BY <1>4, <1>5 DEF Wake

(* w5500_socket0_update_tx_completion takes no wakeup away.                *)
LEMMA CompKeepsWakeup ==
  ASSUME PcFun, NEW p \in Threads, UpdateTxCompletion(p)
  PROVE  /\ UNCHANGED <<gpio, isr_edge, sn_masked, sn_cr, rx_wr, rx_ack>>
         /\ "RECV" \in sn_ir => "RECV" \in sn_ir'
         /\ notified => notified'
         /\ int_low' => int_low
         /\ \A q \in Threads \ {p} : pc'[q] = pc[q]
         /\ pc[p] \in CompLabels /\ pc'[p] \in CompLabels \cup {AfterComp(p)}
<1> USE DEF CompStep, CompLabel, CompLabels, Go, At, PcFun
<1>1. CASE CompRead(p)
  BY <1>1 DEF CompRead, chip, command, interrupt, rxStore, wakeup
<1>2. CASE CompNotify(p)
  <2>1. notified => notified'
    BY <1>2 DEF CompNotify
  <2>. QED
    BY <1>2, <2>1 DEF CompNotify, chip, command, interrupt, rxStore
<1>3. CASE CompClear(p)
  <2>1. PICK bit \in {"SEND_OK", "TIMEOUT"} : CompClear(p)!(bit)
    BY <1>3 DEF CompClear
  <2>2. ("RECV" \in sn_ir => "RECV" \in sn_ir') /\ (int_low' => int_low)
    BY <2>1 DEF ClearSnIr
  <2>. QED
    BY <2>1, <2>2 DEF ClearSnIr, command, rxStore, wakeup
<1>4. CASE CompTimesOut(p)
  <2>1. pc[p] \in CompLabels
    BY <1>4 DEF CompTimesOut, Fails
  <2>. QED
    BY <1>4, <2>1 DEF CompTimesOut, chip, command, interrupt, rxStore, wakeup
<1>. QED
  BY <1>1, <1>2, <1>3, <1>4 DEF UpdateTxCompletion

(* The sending thread takes nothing away from the RX task.                 *)
LEMMA TxKeepsWakeup ==
  PcFun /\ RecvOwned /\ (Tx \/ Send) => WakeupKept /\ AnnouncedKept
<1> SUFFICES ASSUME PcFun, RecvOwned, Tx \/ Send
             PROVE  WakeupKept /\ AnnouncedKept
  OBVIOUS
<1>1. UNCHANGED <<started, rx_failed>>
  BY DEF Tx, Send, rxTask, task
<1>2. pc'["rx"] = pc["rx"]
  BY TxStaysInCall DEF TxMoves
<1>3. /\ UNCHANGED <<isr_edge, RxRsr>> /\ sn_cr' \in {sn_cr, "SEND"}
      /\ "RECV" \in sn_ir => "RECV" \in sn_ir'
      /\ notified => notified'
      /\ int_low' => int_low
  <2>1. CASE UpdateTxCompletion("tx")
    <3>1. UNCHANGED RxRsr
      BY <2>1, CompKeepsWakeup DEF RxRsr, Distance, Threads
    <3>. QED
      BY <2>1, <3>1, CompKeepsWakeup DEF Threads
  <2>2. CASE \/ Transmit \/ TxReadSr \/ TxReadFsr \/ TxReadWr \/ TxWriteBuffer
             \/ TxWriteWr \/ TxCommand \/ TxDone \/ TxFails
    <3>1. UNCHANGED wakeup
      BY <2>2 DEF Transmit, TxReadSr, TxReadFsr, TxReadWr, TxWriteBuffer,
         TxWriteWr, TxCommand, TxDone, TxFails, txIrq
    <3>2. UNCHANGED <<interrupt, rxStore>> /\ sn_cr' \in {sn_cr, "SEND"}
      BY <2>2 DEF Transmit, TxReadSr, TxReadFsr, TxReadWr, TxWriteBuffer,
         TxWriteWr, TxCommand, TxDone, TxFails, chip, command
    <3>3. UNCHANGED RxRsr
      BY <3>2 DEF RxRsr, Distance, rxStore
    <3>. QED
      BY <3>1, <3>2, <3>3 DEF wakeup, interrupt
  <2>. QED
    BY <2>1, <2>2 DEF Tx, Send, TxStep
<1>4. RecvOwned' /\ AnnouncedKept
  BY <1>2, <1>3 DEF RecvOwned, AnnouncedKept, Announced
<1>. QED
  BY <1>1, <1>2, <1>3, <1>4, AnnouncedKeepsWakeup

(* Past its looks at the memory and at the pin the RX task gets only from  *)
(* where they told it that it may.                                         *)
LEMMA RxKeepsWakeup == RecvAwaited /\ PcFun /\ RecvOwned /\ Rx => WakeupKept
<1> SUFFICES ASSUME RecvAwaited, PcFun, RecvOwned, Rx PROVE WakeupKept
  OBVIOUS
<1>0. "rx" \in Threads /\ \A label : Go("rx", label) => pc'["rx"] = label
  BY GoMoves DEF Threads
<1> DEFINE Idle == {"level", "inner", "loop", "take"}
<1> USE DEF WakeupKept, RecvOwned, EventKept, EdgeKept
<1>1. CASE ServiceInterrupts /\ UNCHANGED rxTask
  <2>2. CASE UpdateTxCompletion("rx")
    BY <1>0, <2>2, CompKeepsWakeup DEF CompLabels, AfterComp
  <2>3. CASE \/ SvcReadIr \/ SvcReadSir \/ SvcClearIr \/ SvcReadS0 \/ SvcConn
             \/ SvcTimesOut
    <3>1. pc["rx"] \in SvcLabels
      BY <2>3 DEF SvcReadIr, SvcReadSir, SvcClearIr, SvcReadS0, SvcConn,
         SvcTimesOut, Fails, At, SvcLabels
    <3>2. pc'["rx"] \in SvcLabels \cup {"comp", "clr_rd"}
      BY <1>0, <2>3 DEF SvcReadIr, SvcReadSir, SvcClearIr, SvcReadS0, SvcConn,
         SvcEnd, SvcTimesOut, SvcLabels
    <3>3. UNCHANGED <<sn_cr, notified>>
      BY <2>3 DEF SvcReadIr, SvcReadSir, SvcClearIr, SvcReadS0, SvcConn,
         SvcEnd, SvcTimesOut, chip, command, wakeup
    <3>. QED
      BY <3>1, <3>2, <3>3 DEF SvcLabels
  <2>. QED
    BY <1>1, <2>2, <2>3 DEF ServiceInterrupts
<1>2. CASE Take
  BY <1>0, <1>2 DEF Take, chip, command
<1>3. CASE Woken \/ Drain \/ Inner \/ Loop \/ Level
  <2>1. UNCHANGED <<chip, wakeup, rx_failed>>
    BY <1>3 DEF Woken, Drain, Inner, Loop, Level, Branch, irq, rxTask
  <2>2. UNCHANGED <<sn_cr, sn_ir, int_low, rx_wr, rx_ack>>
    BY <2>1 DEF chip, command, interrupt, rxStore
  <2>3. UNCHANGED RxRsr
    BY <2>2 DEF RxRsr, Distance
  <2>4. /\ pc["rx"] # "rcv_wait"
        /\ started /\ pc'["rx"] \in Idle => pc["rx"] \in Idle
        /\ started /\ pc'["rx"] \in {"loop", "take"} =>
             pc["rx"] \in {"loop", "take"} \/ ~int_low
    BY <1>0, <1>3 DEF Woken, Drain, Inner, Loop, Level, Branch
  <2>. QED
    BY <2>1, <2>2, <2>3, <2>4 DEF wakeup
<1>4. CASE ClearRecvRead \/ ClearRecvWrite
  <2>1. pc["rx"] # "rcv_wait" /\ pc'["rx"] \in {"clr_wr", "drain"}
    BY <1>0, <1>4 DEF ClearRecvRead, ClearRecvWrite, At
  <2>2. UNCHANGED <<sn_cr, notified>>
    BY <1>4 DEF ClearRecvRead, ClearRecvWrite, chip, command, irq, wakeup
  <2>. QED
    BY <2>1, <2>2
<1>5. CASE DrainRsr
  <2>1. UNCHANGED <<sn_cr, rx_wr, rx_ack, notified>>
    BY <1>5 DEF DrainRsr, chip, command, rxStore, irq, wakeup
  <2>2. UNCHANGED RxRsr
    BY <2>1 DEF RxRsr, Distance
  <2>3. /\ pc["rx"] # "rcv_wait"
        /\ pc'["rx"] = "rcv_sr" \/ (pc'["rx"] = "level" /\ RxRsr = 0)
    BY <1>0, <1>5 DEF DrainRsr, At
  <2>. QED
    BY <2>1, <2>2, <2>3
<1>6. CASE RcvRsr
  <2>1. UNCHANGED <<sn_cr, rx_wr, rx_ack, notified>>
    BY <1>6 DEF RcvRsr, chip, command, rxStore, irq, wakeup
  <2>2. UNCHANGED RxRsr
    BY <2>1 DEF RxRsr, Distance
  <2>3. /\ pc["rx"] # "rcv_wait"
        /\ \/ pc'["rx"] = "rcv_rd"
           \/ pc'["rx"] = "level" /\ RxRsr = 0
           \/ pc'["rx"] = "loop" /\ rx_failed'
    BY <1>0, <1>6 DEF RcvRsr, Check, Break, At
  <2>. QED
    BY <2>1, <2>2, <2>3
<1>7. CASE RcvSr \/ RcvRd \/ RcvHdr \/ RcvPay \/ RcvWriteRd
  <2>1. UNCHANGED <<sn_cr, notified>>
    BY <1>7 DEF RcvSr, RcvRd, RcvHdr, RcvPay, RcvWriteRd, chip, command, irq,
       wakeup
  <2>2. /\ pc["rx"] # "rcv_wait"
        /\ \/ pc'["rx"] \in RcvLabels
           \/ pc'["rx"] = "loop" /\ rx_failed'
    BY <1>0, <1>7 DEF RcvSr, RcvRd, RcvHdr, RcvPay, RcvWriteRd, Check, Break,
       At, RcvLabels
  <2>. QED
    BY <2>1, <2>2 DEF RcvLabels
<1>8. CASE RcvCommand
  BY <1>0, <1>8 DEF RcvCommand, Check, irq, wakeup
<1>9. CASE RcvDone
  BY <1>0, <1>9 DEF RcvDone, chip, command, irq, wakeup
<1>10. CASE RxGivesUp
  <2>1. pc["rx"] = "rcv_wait" => sn_cr = "NONE"
    BY <1>10 DEF RxGivesUp, Fails, At, RecvAwaited
  <2>2. UNCHANGED <<sn_cr, notified>>
    BY <1>10 DEF RxGivesUp, chip, command, wakeup
  <2>3. pc'["rx"] = "loop" /\ rx_failed'
    BY <1>0, <1>10 DEF RxGivesUp, Break
  <2>. QED
    BY <2>1, <2>2, <2>3
<1>. QED
  BY <1>1, <1>2, <1>3, <1>4, <1>5, <1>6, <1>7, <1>8, <1>9, <1>10
     DEF Rx, RxStep

LEMMA NextKeepsWakeup == RecvAwaited /\ PcFun /\ RecvOwned /\ Next => WakeupKept
BY ChipKeepsWakeup, WakeKeepsWakeup, TxKeepsWakeup, RxKeepsWakeup DEF Next

LEMMA StartsAwake ==
  ASSUME ~int_low, rx_wr = 0, rx_ack = 0, sn_cr = "NONE"
  PROVE  RecvOwned /\ EventKept /\ EdgeKept /\ Announced
<1>1. RxRsr = 0
  BY DEF RxRsr, Distance
<1>. QED
  BY <1>1 DEF RecvOwned, EventKept, EdgeKept, Announced

-----------------------------------------------------------------------------
(* The data path never closes the socket and never masks its interrupt.    *)
SocketLeftAlone ==
  /\ UNCHANGED <<sn_sr, sn_masked>>
  /\ sn_cr' \notin {"CLOSE", "OPEN"} \/ UNCHANGED sn_cr

LEMMA ChipLeavesSocket == Chip \/ Wake => SocketLeftAlone
<1>1. Chip => SocketLeftAlone
  BY DEF Chip, ChipStep, FrameArrives, TakeRecv, TakeSend, SendDone, OtherEvent,
         command, interrupt, SocketLeftAlone
<1>2. Wake => SocketLeftAlone
  BY DEF Wake, AssertIntn, Isr, chip, command, interrupt, SocketLeftAlone
<1>. QED
  BY <1>1, <1>2

LEMMA CompLeavesSocket ==
  ASSUME NEW p, UpdateTxCompletion(p)
  PROVE  SocketLeftAlone
BY DEF UpdateTxCompletion, CompRead, CompNotify, CompClear, CompTimesOut,
       ClearSnIr, chip, command, interrupt, SocketLeftAlone

LEMMA TxLeavesSocket == Tx \/ Send => SocketLeftAlone
<1>1. CASE UpdateTxCompletion("tx")
  BY <1>1, CompLeavesSocket
<1>2. CASE Send
  BY <1>2 DEF Send, Transmit, chip, command, interrupt, SocketLeftAlone
<1>3. CASE TxReadSr \/ TxReadFsr \/ TxReadWr \/ TxWriteBuffer \/ TxDone \/ TxFails
  BY <1>3 DEF TxReadSr, TxReadFsr, TxReadWr, TxWriteBuffer, TxDone, TxFails,
              chip, command, interrupt, SocketLeftAlone
<1>4. CASE TxWriteWr \/ TxCommand
  BY <1>4 DEF TxWriteWr, TxCommand, command, interrupt, SocketLeftAlone
<1>. QED
  BY <1>1, <1>2, <1>3, <1>4 DEF Tx, TxStep

LEMMA RxLeavesSocket == Rx => SocketLeftAlone
<1>1. CASE ServiceInterrupts
  <2>1. CASE SvcReadIr \/ SvcReadSir \/ SvcReadS0 \/ SvcTimesOut
    BY <2>1 DEF SvcReadIr, SvcReadSir, SvcReadS0, SvcTimesOut, chip, command,
                interrupt, SocketLeftAlone
  <2>2. CASE SvcClearIr \/ SvcConn
    BY <2>2 DEF SvcClearIr, SvcConn, SvcEnd, ClearSnIr, command, interrupt,
                SocketLeftAlone
  <2>. QED
    BY <1>1, <2>1, <2>2, CompLeavesSocket DEF ServiceInterrupts
<1>2. CASE Take \/ Woken \/ Inner \/ Loop \/ Level \/ ClearRecvRead \/ Drain
           \/ DrainRsr \/ RcvSr \/ RcvRsr \/ RcvRd \/ RcvHdr \/ RcvPay
           \/ RcvDone \/ RxGivesUp
  BY <1>2 DEF Take, Woken, Inner, Loop, Level, Branch, ClearRecvRead, Drain,
              DrainRsr, RcvSr, RcvRsr, RcvRd, RcvHdr, RcvPay, RcvDone,
              RxGivesUp, chip, command, interrupt, SocketLeftAlone
<1>3. CASE ClearRecvWrite \/ RcvWriteRd \/ RcvCommand
  BY <1>3 DEF ClearRecvWrite, RcvWriteRd, RcvCommand, ClearSnIr, command,
              interrupt, SocketLeftAlone
<1>. QED
  BY <1>1, <1>2, <1>3 DEF Rx, RxStep

LEMMA NextLeavesSocket == Next => SocketLeftAlone
BY ChipLeavesSocket, TxLeavesSocket, RxLeavesSocket DEF Next

-----------------------------------------------------------------------------
Safe == Wired /\ RecvOwned /\ EventKept /\ EdgeKept

LEMMA InitSafe == Init => Safe
BY StartsAwake DEF Init, DriverInit, ChipInit, ChipCleared, Safe, Wired

LEMMA NextKeepsSafe == RecvAwaited /\ PcFun /\ Safe /\ [Next]_vars => Safe'
<1> SUFFICES ASSUME RecvAwaited, PcFun, Safe, [Next]_vars PROVE Safe'
  OBVIOUS
<1>1. CASE UNCHANGED vars
  BY <1>1 DEF vars, chip, command, interrupt, rxStore, irq, wakeup, gpio,
     rxTask, task, Safe, Wired, RecvOwned, EventKept, EdgeKept, RxRsr, Distance
<1>2. CASE Next
  <2>1. LifeKeptBy
    BY <1>2, RxStaysInLoop, TxStaysInCall, OthersMoveNobody
       DEF Next, RxMoves, TxMoves
  <2>2. Wired'
    BY <1>2, <2>1, NextLeavesSocket DEF Safe, Wired, LifeKeptBy, SocketLeftAlone
  <2>. QED
    BY <1>2, <2>2, NextKeepsWakeup DEF Safe, Wired, WakeupKept
<1>. QED
  BY <1>1, <1>2

LEMMA Wakeup == RecvAwaited => (Spec => []IInv)
<1> SUFFICES ASSUME RecvAwaited PROVE Spec => []IInv
  OBVIOUS
<1>1. Init => IInv
  BY InitTypeOK, InitSafe DEF IInv, Safe
<1>2. IInv /\ [Next]_vars => IInv'
  <2>1. TypeOK => PcFun
    BY TypeOKParts DEF Typed
  <2>. QED
    BY <2>1, NextKeepsTypeOK, NextKeepsSafe DEF IInv, Safe
<1>. QED
  BY <1>1, <1>2, PTL DEF Spec

(* A task that sleeps on pending bytes with neither of its wakeups lost    *)
(* has the pin to wake it.                                                 *)
LEMMA KeptIsNoStall == EventKept /\ EdgeKept /\ ~sn_masked => NoStall
BY DEF NoStall, EventKept, EdgeKept, Sir

(***************************************************************************)
(* No frame is slept on: the RX task waits with bytes pending only after   *)
(* an error, or when a wakeup is on its way.                               *)
(***************************************************************************)
THEOREM NeverStalls == RecvAwaited => (Spec => []NoStall)
<1>1. IInv => NoStall
  BY KeptIsNoStall DEF IInv, Wired
<1>. QED
  BY <1>1, Wakeup, PTL
=============================================================================

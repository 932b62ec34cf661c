-------------------------- MODULE MacDataTx_proofs --------------------------
(***************************************************************************)
(* Proofs about transmission on the data path, for every value of the      *)
(* constants.                                                              *)
(***************************************************************************)
EXTENDS MacData_proofs

USE ChipAssumption, FaultAssumption, TxAssumption

-----------------------------------------------------------------------------
(***************************************************************************)
(* The space of the TX memory.  What was sent lies between what is on the  *)
(* wire and what is written, and the free space the sending thread has     *)
(* seen is still free when it moves the pointer: nobody else writes, and   *)
(* the chip only frees.                                                    *)
(***************************************************************************)
SpaceKept ==
  /\ TxUsed <= TxBufSize
  /\ Distance(tx_sent, tx_wr) <= TxUsed
  /\ pc["tx"] \in {"tx_wr", "tx_buf", "tx_wwr"} => TxUsed + tx_len <= TxBufSize
  /\ pc["tx"] = "tx_buf" => tx_ptr = tx_wr
  /\ pc["tx"] = "tx_wwr" => tx_ptr = (tx_wr + tx_len) % PtrMod

LEMMA TxVarsTyped ==
  ASSUME TypeOK
  PROVE  /\ tx_wr \in Pointer /\ tx_sent \in Pointer /\ tx_rd \in Pointer
         /\ TxUsed \in Nat /\ Distance(tx_sent, tx_wr) \in Nat
         /\ tx_len \in Nat /\ TxBufSize < PtrMod
         /\ pc \in [Threads -> RxLabels \cup TxLabels \cup {"exit"}]
         /\ "tx" \in Threads
<1>1. tx_wr \in Pointer /\ tx_sent \in Pointer /\ tx_rd \in Pointer
  BY DEF TypeOK, ChipTypeOK
<1>2. TxUsed \in Nat /\ Distance(tx_sent, tx_wr) \in Nat
  BY <1>1, PointerFacts DEF TxUsed
<1>3. tx_len \in Nat
  BY DEF TypeOK, TxTypeOK
<1>4. TxBufSize < PtrMod
  OBVIOUS
<1>. QED
  BY <1>1, <1>2, <1>3, <1>4 DEF TypeOK, Threads

(* The steps that leave the TX ring and the sending thread alone.          *)
LEMMA OthersKeepTxRing ==
  ASSUME TypeOK, [Next]_vars
  PROVE  \/ UNCHANGED <<txRing, tx>> /\ pc'["tx"] = pc["tx"]
         \/ TakeSend /\ UNCHANGED <<pc, tx>>
         \/ SendDone /\ UNCHANGED <<pc, tx>>
         \/ Tx
         \/ Send
<1>1. CASE Chip
  BY <1>1 DEF Chip, ChipStep, FrameArrives, TakeRecv, OtherEvent
<1>2. CASE Wake
  BY <1>2 DEF Wake, AssertIntn, Isr, chip
<1>3. CASE Rx
  <2>1. UNCHANGED tx
    BY <1>3 DEF Rx
  <2>2. CASE ServiceInterrupts
    <3>1. CASE UpdateTxCompletion("rx")
      <4>1. UNCHANGED txRing
        BY <3>1 DEF UpdateTxCompletion, CompRead, CompNotify, CompClear,
           CompTimesOut, chip
      <4>. QED
        BY <2>1, <3>1, <4>1, TypedPc, CompKeepsWakeup DEF Threads
    <3>2. CASE \/ SvcReadIr \/ SvcReadSir \/ SvcClearIr \/ SvcReadS0
               \/ SvcConn \/ SvcTimesOut
      BY <2>1, <3>2 DEF SvcReadIr, SvcReadSir, SvcClearIr, SvcReadS0, SvcConn,
         SvcEnd, SvcTimesOut, chip, Go, TypeOK, Threads
    <3>. QED
      BY <2>2, <3>1, <3>2 DEF ServiceInterrupts
  <2>3. CASE \/ Take \/ Woken \/ Inner \/ Loop \/ Level \/ ClearRecvRead
             \/ ClearRecvWrite \/ Drain \/ DrainRsr
    BY <2>1, <2>3 DEF Take, Woken, Inner, Loop, Level, ClearRecvRead,
       ClearRecvWrite, Drain, DrainRsr, Branch, chip, Go, TypeOK, Threads
  <2>4. CASE RcvSr \/ RcvRsr \/ RcvRd \/ RcvHdr \/ RcvPay \/ RxGivesUp
    BY <2>1, <2>4 DEF RcvSr, RcvRsr, RcvRd, RcvHdr, RcvPay, RxGivesUp, Check,
       Break, chip, Go, TypeOK, Threads
  <2>5. CASE RcvWriteRd \/ RcvCommand \/ RcvDone
    BY <2>1, <2>5 DEF RcvWriteRd, RcvCommand, RcvDone, Check, chip, Go,
       TypeOK, Threads
  <2>. QED
    BY <1>3, <2>2, <2>3, <2>4, <2>5 DEF Rx, RxStep
<1>4. CASE UNCHANGED vars
  BY <1>4 DEF vars, chip
<1>. QED
  BY <1>1, <1>2, <1>3, <1>4 DEF Next, Chip

LEMMA TxKeepsSpace ==
  ASSUME TypeOK, SpaceKept, Tx \/ Send
  PROVE  SpaceKept'
<1> USE TxVarsTyped DEF SpaceKept
<1>1. CASE Send
  BY <1>1 DEF Send, Transmit, Go, chip, txRing, TxUsed, Distance
<1>2. CASE UpdateTxCompletion("tx") /\ UNCHANGED tx
  <2>1. UNCHANGED txRing
    BY <1>2 DEF UpdateTxCompletion, CompRead, CompNotify, CompClear,
       CompTimesOut, chip
  <2>2. pc'["tx"] \in CompLabels \cup {"tx_sr"}
    BY <1>2, TypedPc, CompKeepsWakeup DEF AfterComp
  <2>. QED
    BY <1>2, <2>1, <2>2 DEF txRing, TxUsed, Distance, CompLabels
<1>3. CASE TxReadSr \/ TxDone \/ TxFails
  <2>1. pc'["tx"] \in {"tx_fsr", "idle"}
    BY <1>3 DEF TxReadSr, TxDone, TxFails, Return, Go
  <2>2. UNCHANGED <<tx_wr, tx_sent, tx_rd>>
    BY <1>3 DEF TxReadSr, TxDone, TxFails, chip, txRing
  <2>. QED
    BY <2>1, <2>2 DEF TxUsed, Distance
<1>4. CASE TxReadFsr
  <2>1. UNCHANGED <<tx_wr, tx_sent, tx_rd>>
    BY <1>4 DEF TxReadFsr, chip, txRing
  <2>2. \/ pc'["tx"] = "idle"
        \/ pc'["tx"] = "tx_wr" /\ TxFsr >= tx_len /\ UNCHANGED tx_len
    BY <1>4 DEF TxReadFsr, Return, Go, tx
  <2>. QED
    BY <2>1, <2>2 DEF TxFsr, TxUsed, Distance
<1>5. CASE TxReadWr
  BY <1>5 DEF TxReadWr, At, Go, chip, txRing, TxUsed, Distance
<1>6. CASE TxWriteBuffer
  BY <1>6 DEF TxWriteBuffer, At, Go, chip, txRing, TxUsed, Distance
<1>7. CASE TxWriteWr
  <2>1. pc["tx"] = "tx_wwr" /\ pc'["tx"] = "tx_cmd"
    BY <1>7 DEF TxWriteWr, At, Go
  <2>2. tx_wr' = (tx_wr + tx_len) % PtrMod /\ UNCHANGED <<tx_sent, tx_rd>>
    BY <1>7, <2>1 DEF TxWriteWr
  <2>3. TxUsed' = TxUsed + tx_len
    BY <2>1, <2>2, DistanceMoved DEF TxUsed
  <2>4. Distance(tx_sent, tx_wr)' = Distance(tx_sent, tx_wr) + tx_len
    BY <2>1, <2>2, DistanceMoved
  <2>. QED
    BY <2>1, <2>3, <2>4
<1>8. CASE TxCommand
  BY <1>8 DEF TxCommand, Go, txRing, TxUsed, Distance
<1>. QED
  BY <1>1, <1>2, <1>3, <1>4, <1>5, <1>6, <1>7, <1>8 DEF Tx, TxStep

(***************************************************************************)
(* A frame never overwrites bytes of the TX memory that are not on the     *)
(* wire yet, whatever fails and however slowly the chip takes commands.    *)
(***************************************************************************)
THEOREM TxNeverOverruns == Spec => []TxSpace
<1>1. Init => SpaceKept
  <2> SUFFICES ASSUME Init PROVE SpaceKept
    OBVIOUS
  <2>1. tx_wr = 0 /\ tx_sent = 0 /\ tx_rd = 0 /\ pc["tx"] = "idle"
    BY DEF Init, DriverInit, ChipInit, ChipCleared, Threads
  <2>2. Distance(0, 0) = 0
    BY DEF Distance
  <2>. QED
    BY <2>1, <2>2 DEF SpaceKept, TxUsed
<1>2. TypeOK /\ SpaceKept /\ [Next]_vars => SpaceKept'
  <2> SUFFICES ASSUME TypeOK, SpaceKept, [Next]_vars PROVE SpaceKept'
    OBVIOUS
  <2>1. CASE UNCHANGED <<txRing, tx>> /\ pc'["tx"] = pc["tx"]
    BY <2>1 DEF SpaceKept, txRing, tx, TxUsed, Distance
  <2>2. CASE TakeSend /\ UNCHANGED <<pc, tx>>
    <3>1. Distance(tx_wr, tx_wr) = 0
      BY TxVarsTyped, DistanceToSelf
    <3>2. tx_sent' = tx_wr /\ UNCHANGED <<tx_wr, tx_rd>>
      BY <2>2 DEF TakeSend
    <3>3. Distance(tx_sent, tx_wr)' = 0 /\ UNCHANGED TxUsed
      BY <3>1, <3>2 DEF TxUsed, Distance
    <3>. QED
      BY <2>2, <3>2, <3>3, TxVarsTyped DEF SpaceKept, tx
  <2>3. CASE SendDone /\ UNCHANGED <<pc, tx>>
    <3>1. tx_rd' = tx_sent /\ UNCHANGED <<tx_wr, tx_sent>>
      BY <2>3 DEF SendDone
    <3>2. TxUsed' = Distance(tx_sent, tx_wr) /\ UNCHANGED Distance(tx_sent, tx_wr)
      BY <3>1 DEF TxUsed, Distance
    <3>. QED
      BY <2>3, <3>1, <3>2, TxVarsTyped DEF SpaceKept, tx
  <2>4. CASE Tx \/ Send
    BY <2>4, TxKeepsSpace
  <2>. QED
    BY <2>1, <2>2, <2>3, <2>4, OthersKeepTxRing
<1>3. SpaceKept => TxSpace
  BY DEF SpaceKept, TxSpace
<1>. QED
  BY <1>1, <1>2, <1>3, TypeCorrect, PTL DEF Spec

-----------------------------------------------------------------------------
(***************************************************************************)
(* Whole frames.  With a quick chip a command is taken before another      *)
(* transaction, so that the SEND in Sn_CR is the sending thread's; and as  *)
(* long as the write of the command itself does not fail, one frame is     *)
(* between the two pointers exactly from the write of the pointer to the   *)
(* moment the chip takes the command.                                      *)
(***************************************************************************)
SendReliable == ~SlowCommands /\ "tx_cmd" \notin FaultAt

StagedOnce ==
  /\ sn_cr = "SEND" => pc["tx"] = "tx_wait"
  /\ tx_staged = IF pc["tx"] = "tx_cmd" \/ sn_cr = "SEND" THEN 1 ELSE 0
  /\ tx_staged = 0 => tx_sent = tx_wr
  /\ ~tx_merged

(* The chip and the RX task write no SEND over another command.            *)
LEMMA CommandKept ==
  ASSUME SendReliable, TypeOK, Chip \/ Wake \/ Rx
  PROVE  \/ TakeSend
         \/ sn_cr = "SEND" /\ sn_cr' = "SEND"
         \/ sn_cr # "SEND" /\ sn_cr' # "SEND"
<1>1. CASE Chip
  BY <1>1 DEF Chip, ChipStep, FrameArrives, TakeRecv, SendDone, OtherEvent,
     command
<1>2. CASE Wake
  BY <1>2 DEF Wake, AssertIntn, Isr, chip, command
<1>3. CASE Rx
  <2>1. CASE RcvCommand
    BY <2>1 DEF RcvCommand, At, SendReliable
  <2>2. CASE ServiceInterrupts
    BY <2>2 DEF ServiceInterrupts, UpdateTxCompletion, CompRead, CompNotify,
       CompClear, CompTimesOut, SvcReadIr, SvcReadSir, SvcClearIr, SvcReadS0,
       SvcConn, SvcEnd, SvcTimesOut, chip, command
  <2>3. CASE \/ Take \/ Woken \/ Inner \/ Loop \/ Level \/ ClearRecvRead
             \/ ClearRecvWrite \/ Drain \/ DrainRsr
    BY <2>3 DEF Take, Woken, Inner, Loop, Level, ClearRecvRead,
       ClearRecvWrite, Drain, DrainRsr, Branch, chip, command
  <2>4. CASE \/ RcvSr \/ RcvRsr \/ RcvRd \/ RcvHdr \/ RcvPay \/ RcvWriteRd
             \/ RcvDone \/ RxGivesUp
    BY <2>4 DEF RcvSr, RcvRsr, RcvRd, RcvHdr, RcvPay, RcvWriteRd, RcvDone,
       RxGivesUp, chip, command
  <2>. QED
    BY <1>3, <2>1, <2>2, <2>3, <2>4 DEF Rx, RxStep
<1>. QED
  BY <1>1, <1>2, <1>3

LEMMA TxKeepsStaged ==
  ASSUME SendReliable, TypeOK, StagedOnce, Tx \/ Send
  PROVE  StagedOnce'
<1> USE TxVarsTyped DEF StagedOnce
<1>1. CASE Send
  BY <1>1 DEF Send, Transmit, Go, chip, txRing, command
<1>2. CASE UpdateTxCompletion("tx") /\ UNCHANGED tx
  <2>1. UNCHANGED <<txRing, sn_cr>>
    BY <1>2 DEF UpdateTxCompletion, CompRead, CompNotify, CompClear,
       CompTimesOut, chip, command
  <2>2. pc["tx"] \in CompLabels /\ pc'["tx"] \in CompLabels \cup {"tx_sr"}
    BY <1>2, TypedPc, CompKeepsWakeup DEF AfterComp
  <2>. QED
    BY <2>1, <2>2 DEF txRing, CompLabels
<1>3. CASE TxReadSr \/ TxReadFsr \/ TxReadWr \/ TxWriteBuffer \/ TxDone
  BY <1>3 DEF TxReadSr, TxReadFsr, TxReadWr, TxWriteBuffer, TxDone, Return,
     At, Go, chip, command, txRing
<1>4. CASE TxWriteWr
  <2>1. pc["tx"] = "tx_wwr" /\ pc'["tx"] = "tx_cmd"
    BY <1>4 DEF TxWriteWr, At, Go
  <2>2. tx_staged' = tx_staged + 1 /\ UNCHANGED <<sn_cr, tx_merged>>
    BY <1>4 DEF TxWriteWr, command
  <2>. QED
    BY <2>1, <2>2
<1>5. CASE TxCommand
  <2>1. pc["tx"] = "tx_cmd" /\ pc'["tx"] = "tx_wait"
    BY <1>5 DEF TxCommand, At, Go
  <2>2. sn_cr' = "SEND" /\ UNCHANGED <<tx_staged, tx_merged>>
    BY <1>5 DEF TxCommand, txRing
  <2>. QED
    BY <2>1, <2>2
<1>6. CASE TxFails
  <2>1. pc["tx"] # "tx_cmd" /\ sn_cr # "SEND"
    BY <1>6 DEF TxFails, Fails, At, SendReliable
  <2>2. UNCHANGED <<txRing, sn_cr>> /\ pc'["tx"] = "idle"
    BY <1>6 DEF TxFails, Return, Go, chip, command
  <2>. QED
    BY <2>1, <2>2 DEF txRing
<1>. QED
  BY <1>1, <1>2, <1>3, <1>4, <1>5, <1>6 DEF Tx, TxStep

LEMMA Staging == SendReliable => (Spec => []StagedOnce)
<1> SUFFICES ASSUME SendReliable PROVE Spec => []StagedOnce
  OBVIOUS
<1>1. Init => StagedOnce
  BY DEF Init, DriverInit, ChipInit, ChipCleared, StagedOnce, Threads
<1>2. TypeOK /\ StagedOnce /\ [Next]_vars => StagedOnce'
  <2> SUFFICES ASSUME TypeOK, StagedOnce, [Next]_vars PROVE StagedOnce'
    OBVIOUS
  <2>1. CASE Tx \/ Send
    BY <2>1, TxKeepsStaged
  <2>2. CASE TakeSend /\ pc'["tx"] = pc["tx"]
    <3>1. tx_staged' = 0 /\ sn_cr' = "NONE" /\ UNCHANGED tx_wr
      BY <2>2 DEF TakeSend
    <3>2. tx_sent' = tx_wr /\ tx_merged' = (tx_merged \/ tx_staged # 1)
      BY <2>2 DEF TakeSend
    <3>3. tx_staged = 1 /\ pc["tx"] = "tx_wait"
      BY <2>2 DEF TakeSend, StagedOnce
    <3>. QED
      BY <2>2, <3>1, <3>2, <3>3 DEF StagedOnce
  <2>3. CASE /\ Chip \/ Wake \/ Rx
             /\ pc'["tx"] = pc["tx"]
             /\ UNCHANGED <<tx_staged, tx_sent, tx_wr, tx_merged>>
    <3>1. CASE TakeSend
      BY <2>2, <2>3, <3>1
    <3>2. CASE \/ sn_cr = "SEND" /\ sn_cr' = "SEND"
               \/ sn_cr # "SEND" /\ sn_cr' # "SEND"
      BY <2>3, <3>2 DEF StagedOnce
    <3>. QED
      BY <2>3, <3>1, <3>2, CommandKept
  <2>4. CASE UNCHANGED vars
    BY <2>4 DEF vars, chip, command, txRing, StagedOnce
  <2>5. CASE UNCHANGED <<txRing, tx>> /\ pc'["tx"] = pc["tx"]
    BY <2>1, <2>3, <2>4, <2>5 DEF Next, txRing
  <2>6. CASE SendDone /\ UNCHANGED <<pc, tx>>
    BY <2>1, <2>3, <2>4, <2>6 DEF Next, SendDone
  <2>. QED
    BY <2>1, <2>2, <2>5, <2>6, OthersKeepTxRing
<1>. QED
  BY <1>1, <1>2, TypeCorrect, PTL DEF Spec

(***************************************************************************)
(* Every SEND sends exactly one frame.                                     *)
(***************************************************************************)
THEOREM SendsWholeFrames == SendReliable => (Spec => []WholeFrames)
<1>1. StagedOnce => WholeFrames
  BY DEF StagedOnce, WholeFrames
<1>. QED
  BY <1>1, Staging, PTL

(***************************************************************************)
(* After ESP_OK a SEND command has covered the frame.                      *)
(***************************************************************************)
THEOREM SuccessMeansSent == SendReliable => (Spec => []SuccessIsSent)
<1>1. StagedOnce => SuccessIsSent
  BY DEF StagedOnce, SuccessIsSent
<1>. QED
  BY <1>1, Staging, PTL
=============================================================================

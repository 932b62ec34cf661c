------------------------------ MODULE MacData ------------------------------
(***************************************************************************)
(* The data path of the driver while the interface is started: the chip,   *)
(* the INTn interrupt, the RX task and a thread that sends, which share    *)
(* the registers of socket 0 with no lock over more than one transaction.  *)
(* The state begins where w5500_phy_get_link has left a link that is up    *)
(* (socket open) or where it was never up (socket closed).                 *)
(***************************************************************************)
EXTENDS MacRx, MacTx, SequencesExt

vars == <<chip, pc, irq, rxTask, tx>>

DriverInit ==
  /\ IrqInit /\ RxInit /\ TxInit
  /\ pc = [p \in Threads |-> IF p = "rx" THEN "take" ELSE "idle"]
  /\ started = TRUE /\ rx_handle = TRUE
  /\ gpio_on = TRUE /\ isr_task = TRUE

Init == ChipInit /\ DriverInit

Chip == ChipStep /\ UNCHANGED <<pc, irq, rxTask, tx>>
Wake == (AssertIntn \/ Isr) /\ UNCHANGED <<rxTask, tx>>
Rx   == RxStep /\ UNCHANGED tx
Tx   == TxStep /\ UNCHANGED rxTask
Send == Transmit /\ UNCHANGED rxTask

Next == Chip \/ Wake \/ Rx \/ Tx \/ Send

Spec == Init /\ [][Next]_vars

(* A quick chip takes every command, pulls the pin for every pending event *)
(* and finishes every transmission; the interrupt handler runs; both       *)
(* threads are scheduled.  They get the SPI lock again and again (FreeRTOS *)
(* gives it to the waiting task of the highest priority), though not at    *)
(* every moment: strong fairness.                                          *)
Fairness ==
  /\ WF_vars(Chip /\ (TakeRecv \/ TakeSend))
  /\ WF_vars(Chip /\ SendDone)
  /\ WF_vars(Wake)
  /\ SF_vars(Rx) /\ SF_vars(Tx)

FairSpec == Spec /\ Fairness

(* The network stack never stops sending.                                  *)
BusySpec == FairSpec /\ WF_vars(Send)

---------------------------------------------------------------------------
(* Every variable keeps the type it has in the code.                       *)
TypeOK ==
  /\ ChipTypeOK /\ IrqTypeOK /\ RxTypeOK /\ TxTypeOK
  /\ pc \in [Threads -> RxLabels \cup TxLabels \cup {"exit"}]
  /\ pc["rx"] \in RxLabels \cup {"exit"} /\ pc["tx"] \in TxLabels

(* The RX task never sleeps on a frame: when it waits for a notification   *)
(* and bytes are pending, it is notified, the interrupt handler is about   *)
(* to run, or the chip is about to pull the pin; unless the task went to   *)
(* sleep because of an error (mac.c:520-542: the RECV event is cleared     *)
(* before the memory is drained, the pin is tested after it).              *)
NoStall ==
  pc["rx"] = "take" /\ ~rx_failed /\ RxRsr # 0
    => notified \/ isr_edge \/ (Sir /\ ~int_low)

(* The bytes the chip holds are the records of the frames not delivered    *)
(* yet, in their order: no step of w5500_mac_receive_one_frame releases    *)
(* more or less than the frame it delivers.                                *)
Records(frames) == FoldLeft(LAMBDA sum, f : sum + HdrLen + f.len, 0, frames)

InHand == IF pc["rx"] = "rcv_wait" /\ sn_cr # "RECV" THEN 1 ELSE 0

PendingInMemory ==
  RxRsr = Records(SubSeq(arrived, Len(delivered) + 1 + InHand, Len(arrived)))

(* What is delivered are the first frames that arrived, each whole and     *)
(* each once (FR-03.2, README.md:41).  It does not hold when the write of  *)
(* RECV fails behind that of Sn_RX_RD (mac.c:639-651).                     *)
InOrder == IsPrefix(delivered, arrived)

(* A frame never overwrites bytes that are not on the wire yet (the test   *)
(* of Sn_TX_FSR, driver.c:431, against the pointer read behind it).        *)
TxSpace == TxUsed <= TxBufSize

(* Every SEND command sends exactly one frame (FR-04.2, README.md:48).  It *)
(* does not hold when the write of SEND fails behind that of Sn_TX_WR      *)
(* (driver.c:447-455).                                                     *)
WholeFrames == ~tx_merged

(* ESP_OK from w5500_mac_transmit means that the chip has the frame and a  *)
(* SEND command covered it.                                                *)
SuccessIsSent == pc["tx"] = "idle" /\ tx_res = "ok" => tx_sent = tx_wr

(* Reception implements the promise of FrameFifo.                          *)
Fifo == INSTANCE FrameFifo
          WITH Frames <- Frame, in <- arrived, out <- delivered
FifoSpec == Fifo!Spec

(* w5500_mac_transmit returns.                                             *)
TxReturns == pc["tx"] = "comp" ~> pc["tx"] = "idle"

(* A full TX memory is not full for ever: frames keep being accepted.      *)
TxKeepsGoing == sn_sr = "MACRAW" => []<>(tx_res = "ok")

(* A task that went to sleep on an error with INTn low and RECV set gets   *)
(* no edge any more: the notification of a sending thread wakes it         *)
(* (driver.c:541-543).                                                     *)
RescuedBySend ==
  (pc["rx"] = "take" /\ "RECV" \in sn_ir /\ int_low) ~> pc["rx"] = "woken"

---------------------------------------------------------------------------
(* What the README asks for and the code does not do.                      *)

(* FR-03.2 (README.md:41): each received frame is delivered in the end.    *)
EachFrameDelivered ==
  \A n \in 1 .. MaxArrivals : Len(arrived) >= n ~> Len(delivered) >= n
============================================================================

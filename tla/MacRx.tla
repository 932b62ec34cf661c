------------------------------- MODULE MacRx -------------------------------
(***************************************************************************)
(* The RX task of w5500_mac.c: w5500_mac_rx_task between its registration  *)
(* and its end, with w5500_mac_clear_recv_event_if_set, w5500_mac_drain_rx *)
(* and w5500_mac_receive_one_frame.                                        *)
(***************************************************************************)
EXTENDS W5500Irq

VARIABLES
  started,     (* ext_mac->started                                         *)
  rx_handle,   (* ext_mac->rx_task_handle is not NULL                      *)
  rx_failed,   (* history: the task left its inner loop on an error since  *)
               (* it was last woken                                        *)
  rx_remain,   (* remain_bytes of w5500_mac_receive_one_frame              *)
  rx_ptr,      (* its rx_rd                                                *)
  rx_reclen,   (* its record_len                                           *)
  rx_frame,    (* what its buf holds                                       *)
  delivered    (* history: the frames given to mediator->stack_input       *)

task     == <<started, rx_handle>>
rxLocals == <<rx_remain, rx_ptr, rx_reclen, rx_frame>>
rxTask   == <<task, rx_failed, rxLocals, delivered>>
irq      == <<wakeup, gpio, comp_ir, service, faults>>

RcvLabels == {"rcv_sr", "rcv_rsr", "rcv_rd", "rcv_hdr", "rcv_pay", "rcv_wrd",
              "rcv_cmd", "rcv_wait"}
RxLabels  == SvcLabels \cup CompLabels \cup RcvLabels \cup
             {"take", "woken", "clr_rd", "clr_wr", "drain", "drain_rsr",
              "level", "inner", "loop"}

NoFrame == rx_remain = 0 /\ rx_ptr = 0 /\ rx_reclen = 0 /\ rx_frame = Bytes

(* The inner loop is left on an error.                                     *)
Break == rx_failed' = TRUE /\ Go("rx", "loop") /\ UNCHANGED <<task, delivered>>

Check(ok, then) ==
  IF ok THEN Go("rx", then) /\ UNCHANGED <<task, rx_failed, delivered>>
        ELSE Break

---------------------------------------------------------------------------
(* ulTaskNotifyTake(pdTRUE, portMAX_DELAY).                                *)
Take ==
  /\ pc["rx"] = "take" /\ notified
  /\ notified' = FALSE
  /\ rx_failed' = FALSE
  /\ Go("rx", "woken")
  /\ UNCHANGED <<chip, isr_edge, gpio, comp_ir, service, faults, task,
                 rxLocals, delivered>>

(* The tests of ext_mac->started behind the take and in the two loops, and *)
(* the test of the pin at the end of the inner loop.                       *)
Branch(label, test, yes, no) ==
  /\ pc["rx"] = label
  /\ Go("rx", IF test THEN yes ELSE no)
  /\ UNCHANGED <<chip, irq, rxTask>>

Woken == Branch("woken", started, "svc_ir", "exit")
Inner == Branch("inner", started, "svc_ir", "loop")
Loop  == Branch("loop", started, "take", "exit")
Level == Branch("level", int_low, "inner", "loop")

---------------------------------------------------------------------------
(* w5500_mac_clear_recv_event_if_set.                                      *)
ClearRecvRead ==
  /\ At("rx", "clr_rd")
  /\ Go("rx", IF "RECV" \in sn_ir THEN "clr_wr" ELSE "drain")
  /\ UNCHANGED <<chip, irq, rxTask>>

ClearRecvWrite ==
  /\ At("rx", "clr_wr")
  /\ ClearSnIr({"RECV"})
  /\ Go("rx", "drain")
  /\ UNCHANGED <<command, rxStore, rx_rd, txRing, irq, rxTask>>

---------------------------------------------------------------------------
(* w5500_mac_drain_rx.                                                     *)
Drain == Branch("drain", started, "drain_rsr", "level")

DrainRsr ==
  /\ At("rx", "drain_rsr")
  /\ Go("rx", IF RxRsr = 0 THEN "level" ELSE "rcv_sr")
  /\ UNCHANGED <<chip, irq, rxTask>>

---------------------------------------------------------------------------
(* w5500_mac_receive_one_frame.                                            *)
RcvSr ==
  /\ At("rx", "rcv_sr")
  /\ Check(sn_sr = "MACRAW", "rcv_rsr")
  /\ UNCHANGED <<chip, irq, rxLocals>>

(* Nothing to receive is ESP_ERR_NOT_FOUND, no error for the task.         *)
RcvRsr ==
  /\ At("rx", "rcv_rsr")
  /\ IF RxRsr >= HdrLen
     THEN rx_remain' = RxRsr /\ Check(TRUE, "rcv_rd")
     ELSE rx_remain' = 0 /\ Check(RxRsr = 0, "level")
  /\ UNCHANGED <<chip, irq, rx_ptr, rx_reclen, rx_frame>>

RcvRd ==
  /\ At("rx", "rcv_rd")
  /\ rx_ptr' = rx_rd
  /\ Check(TRUE, "rcv_hdr")
  /\ UNCHANGED <<chip, irq, rx_remain, rx_reclen, rx_frame>>

(* The tests of the header: a record that fits in what was received and    *)
(* holds a frame of a legal length.                                        *)
GoodRecord(len) == len <= rx_remain /\ len - HdrLen \in MinFrame .. MaxFrame

(* Mutant: Sn_RX_RD is written before the payload is read.                 *)
RcvHdrCommits ==
  /\ At("rx", "rcv_hdr")
  /\ \E len \in HeaderAt(rx_ptr) :
       /\ GoodRecord(len)
       /\ rx_reclen' = len
       /\ rx_rd' = (rx_ptr + len) % PtrMod
       /\ Check(TRUE, "rcv_pay")
  /\ UNCHANGED <<command, interrupt, rxStore, txRing, irq, rx_remain, rx_ptr,
                 rx_frame>>

RcvHdr ==
  /\ At("rx", "rcv_hdr")
  /\ \E len \in HeaderAt(rx_ptr) :
       IF GoodRecord(len)
       THEN /\ rx_reclen' = len
            /\ Check(TRUE, "rcv_pay")
            /\ UNCHANGED <<rx_remain, rx_ptr>>
       ELSE /\ Break
            /\ rx_remain' = 0 /\ rx_ptr' = 0 /\ rx_reclen' = 0
  /\ UNCHANGED <<chip, irq, rx_frame>>

(* Mutant: the pointer is moved by the length of the frame only.           *)
RcvPayNoHeader ==
  /\ At("rx", "rcv_pay")
  /\ rx_frame' = PayloadAt(rx_ptr, rx_reclen - HdrLen)
  /\ rx_ptr' = (rx_ptr + rx_reclen - HdrLen) % PtrMod
  /\ rx_remain' = 0 /\ rx_reclen' = 0
  /\ Check(TRUE, "rcv_wrd")
  /\ UNCHANGED <<chip, irq>>

RcvPay ==
  /\ At("rx", "rcv_pay")
  /\ rx_frame' = PayloadAt(rx_ptr, rx_reclen - HdrLen)
  /\ rx_ptr' = (rx_ptr + rx_reclen) % PtrMod
  /\ rx_remain' = 0 /\ rx_reclen' = 0
  /\ Check(TRUE, "rcv_wrd")
  /\ UNCHANGED <<chip, irq>>

RcvWriteRd ==
  /\ At("rx", "rcv_wrd")
  /\ rx_rd' = rx_ptr
  /\ rx_ptr' = 0
  /\ Check(TRUE, "rcv_cmd")
  /\ UNCHANGED <<command, interrupt, rxStore, txRing, irq, rx_remain,
                 rx_reclen, rx_frame>>

RcvCommand ==
  /\ At("rx", "rcv_cmd")
  /\ sn_cr' = "RECV"
  /\ Check(TRUE, "rcv_wait")
  /\ UNCHANGED <<sn_sr, interrupt, rxStore, rx_rd, txRing, irq, rxLocals>>

(* Mutant: one frame is taken for each wakeup.                             *)
RcvDoneOnce ==
  /\ pc["rx"] = "rcv_wait" /\ sn_cr = "NONE"
  /\ delivered' = Append(delivered, rx_frame)
  /\ rx_frame' = Bytes
  /\ Go("rx", "level")
  /\ UNCHANGED <<chip, irq, task, rx_failed, rx_remain, rx_ptr, rx_reclen>>

(* The command register reads 0; w5500_mac_drain_rx gives the frame to the *)
(* network stack and goes round.                                           *)
RcvDone ==
  /\ pc["rx"] = "rcv_wait" /\ sn_cr = "NONE"
  /\ delivered' = Append(delivered, rx_frame)
  /\ rx_frame' = Bytes
  /\ Go("rx", "drain")
  /\ UNCHANGED <<chip, irq, task, rx_failed, rx_remain, rx_ptr, rx_reclen>>

---------------------------------------------------------------------------
(* A step of the task fails, or the wait for the command register times    *)
(* out: every error but the ESP_ERR_TIMEOUT of w5500_driver_service_       *)
(* interrupts ends the inner loop.                                         *)
RxGivesUp ==
  /\ Fails("rx", RxLabels \ {"take", "woken", "comp_notify", "drain", "level",
                             "inner", "loop"})
  /\ pc["rx"] = "svc_conn" => "CONN" \in rx_s0ir
  /\ comp_ir' = [comp_ir EXCEPT !["rx"] = {}]
  /\ rx_ir' = FALSE /\ rx_sir' = FALSE /\ rx_s0ir' = {}
  /\ rx_remain' = 0 /\ rx_ptr' = 0 /\ rx_reclen' = 0 /\ rx_frame' = Bytes
  /\ Break
  /\ UNCHANGED <<chip, wakeup, gpio>>

---------------------------------------------------------------------------
RxStep ==
  \/ ServiceInterrupts /\ UNCHANGED rxTask
  \/ Take \/ Woken \/ Inner \/ Loop \/ Level
  \/ ClearRecvRead \/ ClearRecvWrite
  \/ Drain \/ DrainRsr
  \/ RcvSr \/ RcvRsr \/ RcvRd \/ RcvHdr \/ RcvPay
  \/ RcvWriteRd \/ RcvCommand \/ RcvDone
  \/ RxGivesUp

RxInit == rx_failed = FALSE /\ NoFrame /\ delivered = <<>>

RxTypeOK ==
  /\ started \in BOOLEAN /\ rx_handle \in BOOLEAN /\ rx_failed \in BOOLEAN
  /\ rx_remain \in Pointer /\ rx_ptr \in Pointer /\ rx_reclen \in Pointer
  /\ rx_frame \in Frame \cup {Bytes}
  /\ delivered \in Seq(Frame \cup {Bytes})
============================================================================

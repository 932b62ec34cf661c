----------------------------- MODULE W5500Irq -----------------------------
(***************************************************************************)
(* The interrupt half of w5500_driver.c: the GPIO interrupt that wakes the *)
(* RX task, w5500_driver_service_interrupts, which the RX task runs, and   *)
(* w5500_socket0_update_tx_completion, which the RX task and the sending   *)
(* thread both run.                                                        *)
(*                                                                         *)
(* A thread's label names the SPI transaction, or the access to memory     *)
(* shared with another thread, that it does next.  An action does it, and  *)
(* the code behind it up to the next label.  A local variable of the code  *)
(* holds what the code has still to look at: it is emptied by its last use.*)
(***************************************************************************)
EXTENDS W5500Socket0

CONSTANTS
  FaultAt,     (* the labels where a transaction or an allocation may fail *)
  MaxFaults    (* bound: number of failures                                *)

ASSUME FaultAssumption == MaxFaults \in Nat

VARIABLES
  pc,          (* the label of each thread                                 *)
  notified,    (* the task notification count of the RX task is not 0      *)
  isr_edge,    (* the GPIO has latched a falling edge of INTn              *)
  gpio_on,     (* the GPIO interrupt is enabled and its handler installed  *)
  isr_task,    (* interrupt_task_handle is not NULL                        *)
  comp_ir,     (* sn_ir of w5500_socket0_update_tx_completion, per thread  *)
  rx_ir,       (* ir of w5500_driver_service_interrupts, as ir # 0         *)
  rx_sir,      (* its sir, as sir & W5500_SIR_S0                           *)
  rx_s0ir,     (* its s0_ir                                                *)
  faults       (* history: the number of failures so far                   *)

gpio    == <<gpio_on, isr_task>>
wakeup  == <<notified, isr_edge>>
service == <<rx_ir, rx_sir, rx_s0ir>>

Threads    == {"rx", "tx"}
CompLabels == {"comp", "comp_notify", "comp_ok", "comp_timeout"}
SvcLabels  == {"svc_ir", "svc_sir", "svc_clr_ir", "svc_s0", "svc_conn"}

(* Thread p is about to use the SPI bus: a quick chip has taken the last   *)
(* command by then.                                                        *)
At(p, label) == pc[p] = label /\ (SlowCommands \/ sn_cr = "NONE")

Go(p, label) == pc' = [pc EXCEPT ![p] = label]

(* The transaction of thread p, at one of the labels, fails: calloc or the *)
(* SPI driver fails, or the SPI lock is not free within 100 ms.  Nothing   *)
(* reaches the chip.                                                       *)
Fails(p, labels) ==
  /\ \E label \in labels \cap FaultAt : At(p, label)
  /\ faults < MaxFaults
  /\ faults' = faults + 1

---------------------------------------------------------------------------
(* The chip pulls the INTn pin, no sooner than INTLEVEL after releasing it.*)
AssertIntn ==
  /\ Sir /\ ~int_low
  /\ int_low' = TRUE
  /\ isr_edge' = (isr_edge \/ gpio_on)
  /\ UNCHANGED <<command, sn_ir, sn_masked, ir, rxStore, rx_rd, txRing,
                 pc, notified, gpio, comp_ir, service, faults>>

(* w5500_gpio_isr_handler.                                                 *)
Isr ==
  /\ isr_edge /\ gpio_on
  /\ isr_edge' = FALSE
  /\ notified' = (notified \/ isr_task)
  /\ UNCHANGED <<chip, pc, gpio, comp_ir, service, faults>>

---------------------------------------------------------------------------
(* w5500_socket0_update_tx_completion by thread p, which goes on at the    *)
(* label AfterComp(p) after ESP_OK and after ESP_ERR_TIMEOUT alike.        *)
AfterComp(p) == IF p = "rx" THEN "svc_conn" ELSE "tx_sr"

CompLabel(p, bits) ==
  IF "RECV" \in bits THEN "comp_notify"
  ELSE IF "SEND_OK" \in bits THEN "comp_ok"
  ELSE IF "TIMEOUT" \in bits THEN "comp_timeout" ELSE AfterComp(p)

CompStep(p, bits) ==
  /\ comp_ir' = [comp_ir EXCEPT ![p] = bits]
  /\ Go(p, CompLabel(p, bits))

CompRead(p) ==
  /\ At(p, "comp")
  /\ CompStep(p, sn_ir \ {"CONN"})
  /\ UNCHANGED <<chip, wakeup, gpio, service, faults>>

(* Mutant: the notification of the RX task is forgotten.                   *)
CompNotifyForgotten(p) ==
  /\ pc[p] = "comp_notify"
  /\ CompStep(p, comp_ir[p] \ {"RECV"})
  /\ UNCHANGED <<chip, wakeup, gpio, service, faults>>

(* w5500_driver_notify_interrupt_task_if_pending.                          *)
CompNotify(p) ==
  /\ pc[p] = "comp_notify"
  /\ notified' = (notified \/ (isr_task /\ int_low))
  /\ CompStep(p, comp_ir[p] \ {"RECV"})
  /\ UNCHANGED <<chip, isr_edge, gpio, service, faults>>

(* Mutant: the value read from S0_IR is written back as a whole.           *)
CompClearAll(p) ==
  /\ \E label \in {"comp_ok", "comp_timeout"} : At(p, label)
  /\ ClearSnIr(sn_ir)
  /\ CompStep(p, {})
  /\ UNCHANGED <<command, rxStore, rx_rd, txRing, wakeup, gpio, service,
                 faults>>

CompClear(p) ==
  \E bit \in {"SEND_OK", "TIMEOUT"} :
    /\ At(p, IF bit = "SEND_OK" THEN "comp_ok" ELSE "comp_timeout")
    /\ ClearSnIr({bit})
    /\ CompStep(p, comp_ir[p] \ {bit})
    /\ UNCHANGED <<command, rxStore, rx_rd, txRing, wakeup, gpio, service,
                   faults>>

(* The SPI lock times out: the callers take its ESP_ERR_TIMEOUT for the    *)
(* TIMEOUT event of a frame and go on.                                     *)
CompTimesOut(p) ==
  /\ Fails(p, {"comp", "comp_ok", "comp_timeout"})
  /\ comp_ir' = [comp_ir EXCEPT ![p] = {}]
  /\ Go(p, AfterComp(p))
  /\ UNCHANGED <<chip, wakeup, gpio, service>>

UpdateTxCompletion(p) ==
  CompRead(p) \/ CompNotify(p) \/ CompClear(p) \/ CompTimesOut(p)

---------------------------------------------------------------------------
(* w5500_driver_service_interrupts, which returns to the label "clr_rd".   *)
SvcReadIr ==
  /\ At("rx", "svc_ir")
  /\ rx_ir' = ir
  /\ Go("rx", "svc_sir")
  /\ UNCHANGED <<chip, wakeup, gpio, comp_ir, rx_sir, rx_s0ir, faults>>

SvcReadSir ==
  /\ At("rx", "svc_sir")
  /\ \E sir \in SirReads :
       /\ rx_sir' = sir
       /\ Go("rx", IF rx_ir THEN "svc_clr_ir"
                   ELSE IF sir THEN "svc_s0" ELSE "clr_rd")
  /\ UNCHANGED <<chip, wakeup, gpio, comp_ir, rx_ir, rx_s0ir, faults>>

(* w5500_handle_common_ir; with nothing in SIR the loop starts over.       *)
SvcClearIr ==
  /\ At("rx", "svc_clr_ir")
  /\ ir' = FALSE
  /\ rx_ir' = FALSE
  /\ Go("rx", IF rx_sir THEN "svc_s0" ELSE "svc_ir")
  /\ UNCHANGED <<command, sn_ir, sn_masked, int_low, rxStore, rx_rd, txRing,
                 wakeup, gpio, comp_ir, rx_sir, rx_s0ir, faults>>

(* w5500_handle_socket0_ir up to its call of update_tx_completion.         *)
SvcReadS0 ==
  /\ At("rx", "svc_s0")
  /\ rx_sir' = FALSE
  /\ rx_s0ir' = sn_ir
  /\ Go("rx", IF sn_ir = {} THEN "clr_rd"
              ELSE IF sn_ir \cap {"SEND_OK", "TIMEOUT"} # {} THEN "comp"
              ELSE "svc_conn")
  /\ UNCHANGED <<chip, wakeup, gpio, comp_ir, rx_ir, faults>>

(* The rest of w5500_handle_socket0_ir, and the return of the loop when    *)
(* RECV was set: it is not cleared here.                                   *)
SvcEnd ==
  /\ rx_s0ir' = {}
  /\ Go("rx", IF "RECV" \in rx_s0ir THEN "clr_rd" ELSE "svc_ir")
  /\ UNCHANGED <<command, sn_masked, ir, rxStore, rx_rd, txRing, wakeup,
                 gpio, comp_ir, rx_ir, rx_sir, faults>>

SvcConn ==
  \/ "CONN" \in rx_s0ir /\ At("rx", "svc_conn") /\ ClearSnIr({"CONN"}) /\ SvcEnd
  \/ "CONN" \notin rx_s0ir /\ pc["rx"] = "svc_conn" /\ UNCHANGED interrupt /\ SvcEnd

(* The SPI lock times out in one of the transactions of the function: the  *)
(* RX task goes on as after ESP_OK.                                        *)
SvcTimesOut ==
  /\ Fails("rx", SvcLabels)
  /\ pc["rx"] = "svc_conn" => "CONN" \in rx_s0ir
  /\ rx_ir' = FALSE /\ rx_sir' = FALSE /\ rx_s0ir' = {}
  /\ Go("rx", "clr_rd")
  /\ UNCHANGED <<chip, wakeup, gpio, comp_ir>>

ServiceInterrupts ==
  \/ UpdateTxCompletion("rx")
  \/ SvcReadIr \/ SvcReadSir \/ SvcClearIr \/ SvcReadS0 \/ SvcConn
  \/ SvcTimesOut

---------------------------------------------------------------------------
IrqInit ==
  /\ notified \in BOOLEAN /\ isr_edge = FALSE
  /\ comp_ir = [p \in Threads |-> {}]
  /\ rx_ir = FALSE /\ rx_sir = FALSE /\ rx_s0ir = {}
  /\ faults = 0

IrqTypeOK ==
  /\ notified \in BOOLEAN /\ isr_edge \in BOOLEAN
  /\ gpio_on \in BOOLEAN /\ isr_task \in BOOLEAN
  /\ comp_ir \in [Threads -> SUBSET IrBits]
  /\ rx_ir \in BOOLEAN /\ rx_sir \in BOOLEAN /\ rx_s0ir \in SUBSET IrBits
  /\ faults \in Nat
===========================================================================

------------------------------ MODULE MacLife ------------------------------
(***************************************************************************)
(* The life of the RX task: w5500_mac_init, start and stop, called by the  *)
(* network stack, the registration of the task as the interrupt task, its  *)
(* loop (the data path of MacData) and its end.  The stack makes one call  *)
(* at a time: it starts a stopped interface and stops a started one, after *)
(* w5500_mac_init has created the first task.                              *)
(***************************************************************************)
EXTENDS MacData

CONSTANTS
  Patient,    (* TRUE: the stack starts the interface only when the last   *)
              (* task is registered, or has ended if it was stopped        *)
  MaxCalls    (* bound: number of calls of start and stop                  *)

ASSUME LifeAssumption == Patient \in BOOLEAN /\ MaxCalls \in Nat

VARIABLES
  api,        (* the label of the stack's call, "idle" between two calls   *)
  eth,        (* what the stack did last: "new", "init", "start", "stop"   *)
  late_stop,  (* a task whose registration failed has still to write       *)
              (* started = false                                           *)
  left,       (* history: the last task ended between clearing RECV and    *)
              (* the end of the drain, and bytes are left                  *)
  unlistened, (* history: a registration or a creation failed, and no task *)
              (* was created since                                         *)
  calls       (* history: the number of calls so far                       *)

stack    == <<api, eth, calls>>
life     == <<stack, late_stop, left, unlistened>>
lifeVars == <<vars, life>>

ApiLabels  == {"idle", "start", "start_keep", "start_new", "start_create",
               "stop_gpio", "stop_test", "stop_notify"}
RegLabels  == {"reg", "reg_enable", "reg_pending", "reg_failed"}
EndLabels  == {"exit", "unreg_null", "null_handle", "none"}

(* The driver is initialised and w5500_eth_mac_new was called.             *)
LifeInit ==
  /\ ChipInit
  /\ IrqInit /\ RxInit /\ TxInit
  /\ notified = FALSE
  /\ pc = [p \in Threads |-> IF p = "rx" THEN "none" ELSE "idle"]
  /\ started = FALSE /\ rx_handle = FALSE
  /\ gpio_on = FALSE /\ isr_task = FALSE
  /\ api = "idle" /\ eth = "new" /\ calls = 0
  /\ late_stop = FALSE /\ left = FALSE /\ unlistened = FALSE

Alive == pc["rx"] # "none"

(* The variables of MacData that the life cycle leaves alone.              *)
others == <<chip, comp_ir, service, rx_failed, rxLocals, delivered, tx>>

---------------------------------------------------------------------------
(* w5500_mac_start_rx_task, called by w5500_mac_init and w5500_mac_start.  *)
Call(label, what) ==
  /\ api = "idle" /\ calls < MaxCalls
  /\ calls' = calls + 1
  /\ api' = label /\ eth' = what
  /\ UNCHANGED <<vars, late_stop, left, unlistened>>

InitCall  == eth = "new" /\ Call("start", "init")
StartCall ==
  /\ eth \in {"init", "stop"}
  /\ Patient => ~late_stop /\ pc["rx"] \notin RegLabels
  /\ Patient /\ eth = "stop" => ~Alive
  /\ Call("start", "start")

Step(label, then) ==
  /\ api = label /\ api' = then
  /\ UNCHANGED <<eth, calls, late_stop, left>>

(* Mutant: a task is created whether or not there is one.                  *)
StartTestForgotten ==
  Step("start", "start_new") /\ UNCHANGED <<vars, unlistened>>

StartTest ==
  /\ Step("start", IF rx_handle THEN "start_keep" ELSE "start_new")
  /\ UNCHANGED <<vars, unlistened>>

(* started = true, on either side of the test.                             *)
StartFlag ==
  /\ Step("start_keep", "idle") \/ Step("start_new", "start_create")
  /\ started' = TRUE
  /\ UNCHANGED <<others, pc, wakeup, gpio, faults, rx_handle, unlistened>>

StartCreate ==
  /\ Step("start_create", "idle")
  /\ rx_handle' = TRUE
  /\ pc' = [pc EXCEPT !["rx"] = "reg"]
  /\ notified' = FALSE /\ unlistened' = FALSE
  /\ UNCHANGED <<others, isr_edge, gpio, faults, started>>

(* xTaskCreate fails.                                                      *)
StartFails ==
  /\ Step("start_create", "idle")
  /\ "start_create" \in FaultAt /\ faults < MaxFaults
  /\ faults' = faults + 1
  /\ started' = FALSE /\ rx_handle' = FALSE
  /\ unlistened' = TRUE
  /\ UNCHANGED <<others, pc, wakeup, gpio>>

(* w5500_mac_stop.                                                         *)
StopCall ==
  /\ eth = "start"
  /\ api = "idle" /\ calls < MaxCalls
  /\ calls' = calls + 1
  /\ eth' = "stop"
  /\ api' = IF started THEN "stop_gpio" ELSE "idle"
  /\ started' = FALSE
  /\ UNCHANGED <<others, pc, wakeup, gpio, faults, rx_handle, late_stop, left,
                 unlistened>>

(* w5500_driver_disable_interrupt_gpio.                                    *)
StopGpio ==
  /\ Step("stop_gpio", "stop_test")
  /\ gpio_on' = FALSE
  /\ UNCHANGED <<others, pc, wakeup, isr_task, faults, task, unlistened>>

StopTest ==
  /\ Step("stop_test", IF rx_handle THEN "stop_notify" ELSE "idle")
  /\ UNCHANGED <<vars, unlistened>>

(* Mutant: the sleeping task is not notified.                              *)
StopNotifyForgotten ==
  Step("stop_notify", "idle") /\ UNCHANGED <<vars, unlistened>>

StopNotify ==
  /\ Step("stop_notify", "idle")
  /\ notified' = (notified \/ Alive)
  /\ UNCHANGED <<others, pc, isr_edge, gpio, faults, task, unlistened>>

Api ==
  \/ StartTest \/ StartFlag \/ StartCreate \/ StartFails
  \/ StopGpio \/ StopTest \/ StopNotify

---------------------------------------------------------------------------
(* w5500_driver_register_interrupt_task, run by the new task.              *)
TaskStep(label, then) ==
  pc["rx"] = label /\ Go("rx", then) /\ UNCHANGED <<others, stack, left>>

RegHandle ==
  /\ TaskStep("reg", "reg_enable")
  /\ isr_task' = TRUE
  /\ UNCHANGED <<wakeup, gpio_on, faults, task, late_stop, unlistened>>

(* Mutant: the interrupt that a stop disabled is not enabled again.        *)
RegEnableForgotten ==
  /\ TaskStep("reg_enable", "reg_pending")
  /\ UNCHANGED <<wakeup, gpio, faults, task, late_stop, unlistened>>

(* Enabling the interrupt drops an edge of before.                         *)
RegEnable ==
  /\ TaskStep("reg_enable", "reg_pending")
  /\ gpio_on' = TRUE /\ isr_edge' = FALSE
  /\ UNCHANGED <<notified, isr_task, faults, task, late_stop, unlistened>>

(* Mutant: a pin that is low already is not looked at.                     *)
RegPendingForgotten ==
  /\ TaskStep("reg_pending", "loop")
  /\ UNCHANGED <<wakeup, gpio, faults, task, late_stop, unlistened>>

RegPending ==
  /\ TaskStep("reg_pending", "loop")
  /\ notified' = (notified \/ (isr_task /\ int_low))
  /\ UNCHANGED <<isr_edge, gpio, faults, task, late_stop, unlistened>>

(* The ISR service is not installed, the handler not added or the          *)
(* interrupt not enabled: only the last forgets interrupt_task_handle.     *)
RegFails ==
  /\ \E label \in {"reg", "reg_add", "reg_enable"} \cap FaultAt :
       /\ TaskStep(IF label = "reg" THEN "reg" ELSE "reg_enable", "reg_failed")
       /\ isr_task' = (isr_task /\ label # "reg_enable")
  /\ faults < MaxFaults
  /\ faults' = faults + 1
  /\ unlistened' = TRUE
  /\ UNCHANGED <<wakeup, gpio_on, task, late_stop>>

(* The task forgets its handle, ends, and clears started in between.       *)
RegFailed ==
  /\ TaskStep("reg_failed", "none")
  /\ rx_handle' = FALSE /\ late_stop' = TRUE
  /\ UNCHANGED <<irq, started, unlistened>>

LateStop ==
  /\ late_stop /\ late_stop' = FALSE
  /\ started' = FALSE
  /\ UNCHANGED <<others, pc, irq, rx_handle, stack, left, unlistened>>

---------------------------------------------------------------------------
(* The end of w5500_mac_rx_task, with w5500_driver_unregister_interrupt_   *)
(* task.                                                                   *)
UnregDisable ==
  /\ TaskStep("exit", "unreg_null")
  /\ gpio_on' = FALSE
  /\ UNCHANGED <<wakeup, isr_task, faults, task, late_stop, unlistened>>

(* Mutant: interrupt_task_handle is kept.                                  *)
UnregNullForgotten ==
  /\ TaskStep("unreg_null", "null_handle")
  /\ UNCHANGED <<irq, task, late_stop, unlistened>>

UnregNull ==
  /\ TaskStep("unreg_null", "null_handle")
  /\ isr_task' = FALSE
  /\ UNCHANGED <<wakeup, gpio_on, faults, task, late_stop, unlistened>>

NullHandle ==
  /\ TaskStep("null_handle", "none")
  /\ rx_handle' = FALSE
  /\ UNCHANGED <<irq, started, late_stop, unlistened>>

Task ==
  \/ RegHandle \/ RegEnable \/ RegPending \/ RegFails \/ RegFailed
  \/ UnregDisable \/ UnregNull \/ NullHandle

---------------------------------------------------------------------------
Ends == pc["rx"] # "exit" /\ pc'["rx"] = "exit"

Data ==
  /\ Next
  /\ left' = (RxRsr' # 0 /\ (left \/ (Ends /\ "RECV" \notin sn_ir)))
  /\ UNCHANGED <<stack, late_stop, unlistened>>

LifeNext ==
  InitCall \/ StartCall \/ StopCall \/ Api \/ Task \/ LateStop \/ Data

LifeSpec == LifeInit /\ [][LifeNext]_lifeVars

(* As for the data path; a call that was made goes on, and a task too.     *)
LifeFairness ==
  /\ WF_lifeVars(Api) /\ WF_lifeVars(Task) /\ WF_lifeVars(LateStop)
  /\ WF_lifeVars(Data /\ Chip /\ (TakeRecv \/ TakeSend))
  /\ WF_lifeVars(Data /\ Chip /\ SendDone)
  /\ WF_lifeVars(Data /\ Wake)
  /\ SF_lifeVars(Data /\ Rx) /\ SF_lifeVars(Data /\ Tx)

LifeFairSpec == LifeSpec /\ LifeFairness

---------------------------------------------------------------------------
(* Every variable keeps the type it has in the code.                       *)
LifeTypeOK ==
  /\ ChipTypeOK /\ IrqTypeOK /\ RxTypeOK /\ TxTypeOK
  /\ pc \in [Threads -> RxLabels \cup TxLabels \cup RegLabels \cup EndLabels]
  /\ pc["tx"] \in TxLabels /\ pc["rx"] \notin {"idle"}
  /\ api \in ApiLabels /\ eth \in {"new", "init", "start", "stop"}
  /\ late_stop \in BOOLEAN /\ left \in BOOLEAN /\ unlistened \in BOOLEAN
  /\ calls \in 0 .. MaxCalls

(* The ISR and the link management notify interrupt_task_handle: while it  *)
(* is not NULL, the task it names exists (driver.c:190-209, 229).          *)
IrqTaskAlive == isr_task => Alive

(* A second task is never created next to a living one (mac.c:199).        *)
OneTask == api = "start_create" => ~Alive

(* A started interface listens: its task exists, and when that sleeps, the *)
(* GPIO interrupt is enabled and names it.                                 *)
Listens ==
  /\ Alive
  /\ pc["rx"] = "take" => gpio_on /\ isr_task

StartedListens ==
  api = "idle" /\ eth = "start" /\ ~unlistened => started /\ Listens

(* Frames that came while the interface was stopped wake the new task: it  *)
(* does not sleep on them (driver.c:208), nor on others.                   *)
NoStallAfterStart ==
  started /\ ~left => NoStall

(* Events that the driver does not expect stop coming: the loop of         *)
(* service_interrupts goes on as long as they do (driver.c:342).           *)
Calm ==
  <>[][(ir' => ir) /\ ("CONN" \in sn_ir' => "CONN" \in sn_ir)]_<<ir, sn_ir>>

(* An interface that stays stopped loses its task, however the stop met    *)
(* its registration or its loop, and nothing points to it any more.        *)
StopEnds ==
  Calm /\ <>[](eth = "stop")
    => <>[](~Alive /\ ~rx_handle /\ ~started /\ ~isr_task /\ ~gpio_on)

(* An interface that stays started drains the memory.                      *)
StartedDrains ==
  Calm /\ <>[](eth = "start" /\ ~unlistened)
    => []<>(RxRsr = 0 \/ left \/ rx_failed)
============================================================================

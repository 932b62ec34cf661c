--------------------------- MODULE MacLife_proofs ---------------------------
(***************************************************************************)
(* Proofs about the life of the RX task, for every value of the constants: *)
(* any number of calls, any failures, slow and quick chips.                *)
(***************************************************************************)
EXTENDS MacLife, MacDataRx_proofs

(* The labels of the task: of all its life, and between its registration   *)
(* and the end of it.                                                      *)
TaskLabels == RxLabels \cup RegLabels \cup EndLabels
Registered == RxLabels \cup {"reg_enable", "reg_pending", "exit", "unreg_null"}

PcOK == PcFun /\ pc["rx"] \in TaskLabels

(* The handle of the task is kept exactly while it exists, and the stack   *)
(* is about to create one only when there is none.                         *)
HandleTrue == rx_handle <=> Alive
Creating   == api \in {"start_new", "start_create"} => ~Alive

HandleInv == PcOK /\ HandleTrue /\ Creating

-----------------------------------------------------------------------------
(* What the data path does to the life of the task: it ends its loop, and  *)
(* nothing else, and only after a stop.                                    *)
LifeLeftAlone ==
  /\ PcFun' /\ LifeKeptBy
  /\ \/ pc'["rx"] = pc["rx"]
     \/ pc["rx"] \in RxLabels /\ pc'["rx"] \in RxLabels
     \/ pc["rx"] \in RxLabels /\ pc'["rx"] = "exit" /\ ~started

LEMMA DataLeavesLife == PcFun /\ Next => LifeLeftAlone
<1>1. ASSUME PcFun, Chip \/ Wake PROVE LifeLeftAlone
  BY <1>1, OthersMoveNobody DEF LifeLeftAlone, LifeKeptBy, PcFun
<1>. QED
  BY <1>1, RxStaysInLoop, TxStaysInCall DEF Next, RxMoves, TxMoves, LifeLeftAlone, LifeKeptBy

-----------------------------------------------------------------------------
(***************************************************************************)
(* One task.  A call tests the handle before it creates a task; the handle *)
(* is written where a task begins or ends, and only the one call of the    *)
(* stack creates tasks.                                                    *)
(***************************************************************************)
LEMMA LabelsDiffer ==
  /\ RegLabels \cup EndLabels \subseteq TaskLabels
  /\ "loop" \in RxLabels /\ RxLabels \subseteq TaskLabels
  /\ RxLabels \cap (RegLabels \cup EndLabels) = {}
  /\ "rx" \in Threads
BY DEF TaskLabels, RegLabels, EndLabels, RxLabels, SvcLabels, CompLabels,
   RcvLabels, Threads

(* A step of the task outside its loop.                                    *)
LEMMA TaskGoes ==
  ASSUME PcOK
  PROVE  \A label, then \in RegLabels \cup EndLabels \cup {"loop"} :
           TaskStep(label, then) =>
             /\ PcOK' /\ pc["rx"] = label /\ pc'["rx"] = then
             /\ UNCHANGED <<api, eth>>
BY GoMoves, LabelsDiffer DEF TaskStep, stack, PcOK, PcFun

LEMMA TaskMoves ==
  ASSUME PcOK, Task
  PROVE  /\ PcOK' /\ UNCHANGED <<api, eth>>
         /\ rx_handle' <=> rx_handle /\ pc'["rx"] # "none"
         /\ pc["rx"] # "none"
<1> USE TaskGoes DEF RegLabels, EndLabels
<1>1. CASE RegHandle \/ RegEnable \/ RegPending \/ UnregDisable
  BY <1>1 DEF RegHandle, RegEnable, RegPending, UnregDisable, task
<1>2. CASE RegFails
  BY <1>2 DEF RegFails, task
<1>3. CASE UnregNull
  BY <1>3 DEF UnregNull, task
<1>4. CASE RegFailed \/ NullHandle
  BY <1>4 DEF RegFailed, NullHandle
<1>. QED
  BY <1>1, <1>2, <1>3, <1>4 DEF Task

LEMMA DataKeepsHandle == HandleInv /\ Data => HandleInv'
<1> SUFFICES ASSUME HandleInv, Data PROVE HandleInv'
  OBVIOUS
<1>1. LifeLeftAlone /\ UNCHANGED api
  BY DataLeavesLife DEF HandleInv, PcOK, Data, stack
<1>2. PcOK' /\ (Alive' <=> Alive)
  BY <1>1, LabelsDiffer
     DEF LifeLeftAlone, LifeKeptBy, HandleInv, PcOK, PcFun, Alive, EndLabels, TaskLabels
<1>. QED
  BY <1>1, <1>2 DEF LifeLeftAlone, LifeKeptBy, HandleInv, HandleTrue, Creating

LEMMA CallKeepsHandle == HandleInv /\ (InitCall \/ StartCall \/ StopCall) => HandleInv'
<1> SUFFICES ASSUME HandleInv, InitCall \/ StartCall \/ StopCall
             PROVE  HandleInv'
  OBVIOUS
<1>1. UNCHANGED <<pc, rx_handle>>
  BY DEF InitCall, StartCall, StopCall, Call, vars, rxTask, task
<1>2. api' \in {"start", "stop_gpio", "idle"}
  BY DEF InitCall, StartCall, StopCall, Call
<1>. QED
  BY <1>1, <1>2 DEF HandleInv, PcOK, PcFun, HandleTrue, Alive, Creating

LEMMA ApiKeepsHandle == HandleInv /\ Api => HandleInv'
<1> SUFFICES ASSUME HandleInv, Api PROVE HandleInv'
  OBVIOUS
<1> USE DEF HandleInv, HandleTrue, Alive, Creating, Step
<1>1. CASE StartTest \/ StopTest
  <2>1. UNCHANGED <<pc, rx_handle>>
    BY <1>1 DEF StartTest, StopTest, vars, rxTask, task
  <2>2. api' = "start_new" => ~rx_handle
    BY <1>1 DEF StartTest, StopTest
  <2>3. api' # "start_create"
    BY <1>1 DEF StartTest, StopTest
  <2>. QED
    BY <2>1, <2>2, <2>3 DEF PcOK, PcFun
<1>2. CASE StartFlag \/ StopGpio \/ StopNotify
  <2>1. UNCHANGED <<pc, rx_handle>>
    BY <1>2 DEF StartFlag, StopGpio, StopNotify, task
  <2>2. api' \in {"start_new", "start_create"} => api = "start_new"
    BY <1>2 DEF StartFlag, StopGpio, StopNotify
  <2>. QED
    BY <2>1, <2>2 DEF PcOK, PcFun
<1>3. CASE StartCreate
  <2>1. PcOK' /\ pc'["rx"] = "reg"
    BY <1>3, LabelsDiffer DEF StartCreate, PcOK, PcFun, RegLabels
  <2>. QED
    BY <1>3, <2>1 DEF StartCreate
<1>4. CASE StartFails
  BY <1>4 DEF StartFails, PcOK, PcFun
<1>. QED
  BY <1>1, <1>2, <1>3, <1>4 DEF Api

LEMMA TaskKeepsHandle == HandleInv /\ (Task \/ LateStop) => HandleInv'
<1>1. HandleInv /\ Task => HandleInv'
  BY TaskMoves DEF HandleInv, HandleTrue, Alive, Creating
<1>2. HandleInv /\ LateStop => HandleInv'
  BY DEF LateStop, stack, HandleInv, PcOK, PcFun, HandleTrue, Alive, Creating
<1>. QED
  BY <1>1, <1>2

LEMMA InitHandle == LifeInit => HandleInv
<1> SUFFICES ASSUME LifeInit PROVE HandleInv
  OBVIOUS
<1>1. PcOK /\ pc["rx"] = "none"
  BY DEF LifeInit, PcOK, PcFun, Threads, TaskLabels, EndLabels, TxLabels
<1>. QED
  BY <1>1 DEF LifeInit, HandleInv, HandleTrue, Alive, Creating

LEMMA HandleKept == HandleInv /\ [LifeNext]_lifeVars => HandleInv'
<1>1. HandleInv /\ UNCHANGED lifeVars => HandleInv'
  BY DEF lifeVars, life, stack, vars, rxTask, task, HandleInv, PcOK, PcFun,
     HandleTrue, Alive, Creating
<1>. QED
  BY <1>1, DataKeepsHandle, CallKeepsHandle, ApiKeepsHandle, TaskKeepsHandle
     DEF LifeNext

LEMMA HandleSpec == LifeSpec => []HandleInv
BY InitHandle, HandleKept, PTL DEF LifeSpec

(***************************************************************************)
(* A second task is never created next to a living one.                    *)
(***************************************************************************)
THEOREM OnlyOneTask == LifeSpec => []OneTask
<1>1. HandleInv => OneTask
  BY DEF HandleInv, Creating, OneTask
<1>. QED
  BY <1>1, HandleSpec, PTL
-----------------------------------------------------------------------------
(***************************************************************************)
(* The handle the interrupt uses.  It names the task from its registration *)
(* to the end of it, and nothing else, provided that adding the GPIO       *)
(* handler does not fail: that failure leaves the handle of a task that    *)
(* ends (driver.c:193-197).                                                *)
(***************************************************************************)
AddReliable == "reg_add" \notin FaultAt

Named == isr_task => pc["rx"] \in Registered

LEMMA TaskKeepsNamed ==
  ASSUME AddReliable, PcOK, Named, Task
  PROVE  Named'
<1> USE TaskGoes DEF RegLabels, EndLabels, Named
<1>1. {"loop", "reg_enable", "reg_pending", "exit", "unreg_null"} \subseteq Registered
  BY DEF Registered, RxLabels
<1>2. {"reg", "reg_failed", "null_handle", "none"} \cap Registered = {}
  BY DEF Registered, RxLabels, SvcLabels, CompLabels, RcvLabels
<1> HIDE DEF Registered
<1>3. CASE RegHandle
  BY <1>1, <1>3 DEF RegHandle
<1>4. CASE RegEnable \/ RegPending \/ UnregDisable
  <2>1. pc'["rx"] \in Registered
    BY <1>1, <1>4 DEF RegEnable, RegPending, UnregDisable
  <2>. QED
    BY <2>1
<1>5. CASE RegFails
  <2>1. PICK label \in {"reg", "reg_enable"} :
          /\ TaskStep(IF label = "reg" THEN "reg" ELSE "reg_enable", "reg_failed")
          /\ isr_task' = (isr_task /\ label # "reg_enable")
    BY <1>5 DEF RegFails, AddReliable
  <2>2. label = "reg" => pc["rx"] = "reg"
    BY <2>1
  <2>. QED
    BY <1>2, <2>1, <2>2
<1>6. CASE UnregNull
  BY <1>6 DEF UnregNull
<1>7. CASE RegFailed \/ NullHandle
  <2>1. pc["rx"] \notin Registered /\ UNCHANGED isr_task
    BY <1>2, <1>7 DEF RegFailed, NullHandle, irq, gpio
  <2>. QED
    BY <2>1
<1>. QED
  BY <1>3, <1>4, <1>5, <1>6, <1>7 DEF Task

LEMMA NamedKept ==
  ASSUME AddReliable
  PROVE  HandleInv /\ Named /\ [LifeNext]_lifeVars => Named'
<1> SUFFICES ASSUME HandleInv, Named, [LifeNext]_lifeVars PROVE Named'
  OBVIOUS
<1> USE DEF HandleInv, Named
<1>1. CASE InitCall \/ StartCall \/ StopCall \/ LateStop \/ UNCHANGED lifeVars
  BY <1>1 DEF InitCall, StartCall, StopCall, Call, LateStop, lifeVars, vars,
     irq, gpio
<1>2. CASE Api
  <2>1. CASE StartCreate
    <3>1. ~isr_task
      BY <2>1, LabelsDiffer DEF StartCreate, Step, Creating, Alive, Registered,
         EndLabels
    <3>. QED
      BY <2>1, <3>1 DEF StartCreate, gpio
  <2>2. CASE \/ StartTest \/ StartFlag \/ StartFails \/ StopGpio \/ StopTest
             \/ StopNotify
    BY <2>2 DEF StartTest, StartFlag, StartFails, StopGpio, StopTest,
       StopNotify, vars, irq, gpio
  <2>. QED
    BY <1>2, <2>1, <2>2 DEF Api
<1>3. CASE Task
  BY <1>3, TaskKeepsNamed
<1>4. CASE Data
  BY <1>4, DataLeavesLife DEF PcOK, Data, LifeLeftAlone, LifeKeptBy, Registered
<1>. QED
  BY <1>1, <1>2, <1>3, <1>4 DEF LifeNext

(***************************************************************************)
(* The interrupt never notifies a task that is gone.                       *)
(***************************************************************************)
THEOREM NotifiesTheLiving == AddReliable => (LifeSpec => []IrqTaskAlive)
<1> SUFFICES ASSUME AddReliable PROVE LifeSpec => []IrqTaskAlive
  OBVIOUS
<1>1. LifeInit => Named
  BY DEF LifeInit, Named
<1>2. Named => IrqTaskAlive
  BY LabelsDiffer DEF Named, Registered, IrqTaskAlive, Alive, EndLabels
<1>. QED
  BY <1>1, <1>2, NamedKept, HandleSpec, PTL DEF LifeSpec
-----------------------------------------------------------------------------
(***************************************************************************)
(* A started interface listens, if the stack is patient.  The invariant    *)
(* follows a start from the call to the registered task:                   *)
(***************************************************************************)
Serves == RxLabels \cup {"reg_pending"}

(* a registered task owns the interrupt, and while no stop is on its way   *)
(* the interrupt stays enabled;                                            *)
Owned     == pc["rx"] \in Registered => isr_task
Listening == eth \in {"init", "start"} /\ pc["rx"] \in Serves => gpio_on

(* a start finds no task that is still being registered and no late write  *)
(* of started; nothing happens before w5500_mac_init;                      *)
Starting ==
  api \in {"start", "start_keep", "start_new", "start_create"} =>
    ~late_stop /\ pc["rx"] \notin RegLabels /\ (api = "start_create" => started)

Fresh == eth = "new" => ~Alive /\ ~late_stop /\ api = "idle"

Stopping == api \in {"stop_gpio", "stop_test", "stop_notify"} => eth = "stop"

(* and until the next stop the task is about to be created, or exists with *)
(* started set.                                                            *)
Coming == ~Alive /\ api \in {"start", "start_new", "start_create"}
Here   == /\ Alive /\ pc["rx"] \notin EndLabels \cup {"reg_failed"}
          /\ started /\ api \in {"idle", "start", "start_keep"}

Up == eth \in {"init", "start"} /\ ~unlistened => ~late_stop /\ (Coming \/ Here)

LifeInv == Owned /\ Listening /\ Starting /\ Fresh /\ Stopping /\ Up

LEMMA InitLife == LifeInit => LifeInv
<1> SUFFICES ASSUME LifeInit PROVE LifeInv
  OBVIOUS
<1>1. pc["rx"] = "none" /\ "none" \notin Registered \cup Serves
  BY LabelsDiffer DEF LifeInit, Threads, Registered, Serves, EndLabels
<1>. QED
  BY <1>1 DEF LifeInit, LifeInv, Owned, Listening, Starting, Fresh, Stopping, Up,
     Alive

LEMMA DataKeepsLife == HandleInv /\ LifeInv /\ Data => LifeInv'
<1> SUFFICES ASSUME HandleInv, LifeInv, Data PROVE LifeInv'
  OBVIOUS
<1> USE DEF LifeInv
<1>1. LifeLeftAlone /\ UNCHANGED <<api, eth, late_stop, unlistened>>
  BY DataLeavesLife DEF HandleInv, PcOK, Data, stack
<1>2. Owned'
  BY <1>1 DEF LifeLeftAlone, LifeKeptBy, Owned, Registered
<1>3. Listening'
  BY <1>1, LabelsDiffer DEF LifeLeftAlone, LifeKeptBy, Listening, Serves, EndLabels
<1>4. Alive' <=> Alive
  BY <1>1, LabelsDiffer DEF LifeLeftAlone, LifeKeptBy, Alive, EndLabels
<1>5. pc'["rx"] \in RegLabels => pc'["rx"] = pc["rx"]
  BY <1>1, LabelsDiffer DEF LifeLeftAlone, LifeKeptBy, RegLabels
<1>6. Starting' /\ Fresh' /\ Stopping'
  BY <1>1, <1>4, <1>5 DEF LifeLeftAlone, LifeKeptBy, Starting, Fresh, Stopping
<1>7. Up'
  BY <1>1, <1>4, LabelsDiffer
     DEF LifeLeftAlone, LifeKeptBy, Up, Coming, Here, RegLabels
<1>. QED
  BY <1>2, <1>3, <1>6, <1>7

LEMMA CallKeepsLife ==
  ASSUME Patient, LifeInv, InitCall \/ StartCall \/ StopCall
  PROVE  LifeInv'
<1> USE DEF LifeInv
<1>1. UNCHANGED <<pc, gpio_on, isr_task, late_stop, unlistened>>
  BY DEF InitCall, StartCall, StopCall, Call, vars, irq, gpio
<1>2. Owned' /\ (Alive' <=> Alive)
  BY <1>1 DEF Owned, Alive
<1>3. "none" \notin Serves \cup RegLabels
  BY LabelsDiffer DEF Serves, RegLabels, EndLabels
<1>4. CASE InitCall \/ StartCall
  <2>1. UNCHANGED started /\ api = "idle" /\ api' = "start" /\ eth' # "new"
    BY <1>4 DEF InitCall, StartCall, Call, vars, rxTask, task
  <2>2. ~late_stop /\ pc["rx"] \notin RegLabels
    BY <1>3, <1>4 DEF InitCall, StartCall, Fresh, Alive
  <2>3. eth = "init" \/ ~Alive
    BY <1>4 DEF InitCall, StartCall, Fresh
  <2>4. Listening'
    BY <1>1, <1>3, <2>3 DEF Listening, Alive
  <2>5. Up'
    BY <1>1, <1>2, <2>1, <2>2, <2>3 DEF Up, Coming, Here
  <2>. QED
    BY <1>1, <1>2, <2>1, <2>2, <2>4, <2>5 DEF Starting, Fresh, Stopping
<1>5. CASE StopCall
  BY <1>2, <1>5 DEF StopCall, Listening, Starting, Fresh, Stopping, Up
<1>. QED
  BY <1>4, <1>5

LEMMA ApiKeepsLife == HandleInv /\ LifeInv /\ Api => LifeInv'
<1> SUFFICES ASSUME HandleInv, LifeInv, Api PROVE LifeInv'
  OBVIOUS
<1> USE DEF LifeInv, Step
<1>1. UNCHANGED <<eth, late_stop, isr_task>> /\ eth # "new"
  BY DEF Api, StartTest, StartFlag, StartCreate, StartFails, StopGpio,
     StopTest, StopNotify, vars, irq, gpio, Fresh
<1>2. CASE StartTest \/ StartFlag
  <2>1. UNCHANGED <<pc, gpio_on, unlistened>>
    BY <1>2 DEF StartTest, StartFlag, vars, irq, gpio
  <2>2. /\ api' \in {"start_keep", "start_new", "start_create", "idle"}
        /\ api \in {"start", "start_keep", "start_new"}
        /\ api' \in {"start_keep", "idle"} /\ Coming => FALSE
        /\ api' \in {"start_new", "start_create"} /\ Here => FALSE
        /\ api' = "start_create" => started'
        /\ started => started'
    BY <1>2 DEF StartTest, StartFlag, vars, rxTask, task, HandleInv,
       HandleTrue, Coming, Here
  <2>3. Starting' /\ Stopping' /\ Fresh'
    BY <1>1, <2>1, <2>2 DEF Starting, Stopping, Fresh
  <2>4. Up'
    BY <1>1, <2>1, <2>2 DEF Up, Coming, Here, Alive
  <2>. QED
    BY <1>1, <2>1, <2>3, <2>4 DEF Owned, Listening
<1>3. CASE StartCreate
  <2>1. pc'["rx"] = "reg" /\ api' = "idle" /\ started' /\ ~late_stop
    BY <1>3 DEF StartCreate, HandleInv, PcOK, PcFun, Threads, Starting
  <2>2. "reg" \notin Registered \cup Serves \cup EndLabels \cup {"reg_failed", "none"}
    BY LabelsDiffer DEF Registered, Serves, RegLabels, EndLabels
  <2>. QED
    BY <1>1, <2>1, <2>2
       DEF Owned, Listening, Starting, Fresh, Stopping, Up, Here, Alive
<1>4. CASE StartFails
  BY <1>1, <1>4 DEF StartFails, gpio, Owned, Listening, Starting, Fresh,
     Stopping, Up
<1>5. CASE StopGpio \/ StopTest \/ StopNotify
  <2>1. eth = "stop" /\ UNCHANGED pc
    BY <1>5 DEF StopGpio, StopTest, StopNotify, vars, Stopping
  <2>2. api' \in {"stop_test", "stop_notify", "idle"}
    BY <1>5 DEF StopGpio, StopTest, StopNotify
  <2>. QED
    BY <1>1, <2>1, <2>2 DEF Owned, Listening, Starting, Fresh, Stopping, Up
<1>. QED
  BY <1>2, <1>3, <1>4, <1>5 DEF Api
LEMMA TaskKeepsLife == HandleInv /\ LifeInv /\ Task => LifeInv'
<1> SUFFICES ASSUME HandleInv, LifeInv, Task PROVE LifeInv'
  OBVIOUS
<1> USE TaskGoes DEF HandleInv, LifeInv, RegLabels, EndLabels
<1>1. {"reg", "reg_failed", "null_handle", "none"} \cap Registered = {}
  BY DEF Registered, RxLabels, SvcLabels, CompLabels, RcvLabels
<1>2. /\ "loop" \in Serves /\ "reg_pending" \in Serves
      /\ {"reg", "reg_enable", "reg_failed", "exit", "unreg_null",
          "null_handle", "none"} \cap Serves = {}
  BY DEF Serves, RxLabels, SvcLabels, CompLabels, RcvLabels
<1>3. Stopping' /\ UNCHANGED <<api, eth>>
  BY TaskMoves DEF Stopping
<1>4. pc["rx"] \in RegLabels \cup EndLabels /\ Alive
  BY TaskMoves DEF Task, RegHandle, RegEnable, RegPending, RegFails, RegFailed,
     UnregDisable, UnregNull, NullHandle, TaskStep, Alive
<1>5. CASE RegHandle \/ RegEnable \/ RegPending
  <2>1. /\ pc["rx"] \in {"reg", "reg_enable", "reg_pending"}
        /\ pc'["rx"] \in {"reg_enable", "reg_pending", "loop"}
        /\ UNCHANGED <<started, late_stop, unlistened>>
    BY <1>5 DEF RegHandle, RegEnable, RegPending, task
  <2>2. pc["rx"] \in Registered \/ isr_task'
    BY <1>5 DEF RegHandle, RegEnable, RegPending, Registered
  <2>3. isr_task => isr_task'
    BY <1>5 DEF RegHandle, RegEnable, RegPending, gpio
  <2>4. gpio_on' \/ pc'["rx"] = "reg_enable" \/ (pc["rx"] = "reg_pending" /\ gpio_on' = gpio_on)
    BY <1>5 DEF RegHandle, RegEnable, RegPending, gpio
  <2>5. Owned' /\ Listening'
    BY <1>2, <1>3, <2>2, <2>3, <2>4 DEF Owned, Listening
  <2>. QED
    BY <1>3, <2>1, <2>5 DEF Starting, Fresh, Up, Coming, Here, Alive
<1>6. CASE RegFails
  <2>1. pc'["rx"] = "reg_failed" /\ unlistened' /\ UNCHANGED <<late_stop, started>>
    BY <1>6 DEF RegFails, task
  <2>2. pc["rx"] \in RegLabels
    BY <1>6 DEF RegFails
  <2>. QED
    BY <1>1, <1>2, <1>3, <1>4, <2>1, <2>2
       DEF Owned, Listening, Starting, Fresh, Up
<1>7. CASE RegFailed
  <2>1. pc["rx"] = "reg_failed" /\ pc'["rx"] = "none" /\ UNCHANGED unlistened
    BY <1>7 DEF RegFailed
  <2>. QED
    BY <1>1, <1>2, <1>3, <1>4, <2>1
       DEF Owned, Listening, Starting, Fresh, Up, Coming, Here
<1>8. CASE UnregDisable \/ UnregNull \/ NullHandle
  <2>1. /\ pc["rx"] \in EndLabels
        /\ pc'["rx"] \in {"unreg_null", "null_handle", "none"}
        /\ UNCHANGED <<started, late_stop, unlistened>>
    BY <1>8 DEF UnregDisable, UnregNull, NullHandle, task
  <2>2. pc'["rx"] = "unreg_null" => pc["rx"] = "exit" /\ UNCHANGED isr_task
    BY <1>8 DEF UnregDisable, UnregNull, NullHandle
  <2>3. Owned' /\ Listening'
    BY <1>1, <1>2, <2>1, <2>2 DEF Owned, Listening, Registered
  <2>. QED
    BY <1>3, <1>4, <2>1, <2>3 DEF Starting, Fresh, Up, Coming, Here
<1>. QED
  BY <1>5, <1>6, <1>7, <1>8 DEF Task

LEMMA LifeKept ==
  ASSUME Patient
  PROVE  HandleInv /\ LifeInv /\ [LifeNext]_lifeVars => LifeInv'
<1>1. LifeInv /\ LateStop => LifeInv'
  BY DEF LateStop, stack, irq, gpio, LifeInv, Owned, Listening, Starting,
     Fresh, Stopping, Up, Coming, Here, Alive
<1>2. LifeInv /\ UNCHANGED lifeVars => LifeInv'
  BY DEF lifeVars, life, stack, vars, irq, gpio, rxTask, task, LifeInv, Owned,
     Listening, Starting, Fresh, Stopping, Up, Coming, Here, Alive
<1>. QED
  BY <1>1, <1>2, DataKeepsLife, CallKeepsLife, ApiKeepsLife, TaskKeepsLife
     DEF LifeNext

(***************************************************************************)
(* With a stack that starts the interface only when the last task has      *)
(* ended and its registration is over, a started interface listens.        *)
(***************************************************************************)
THEOREM PatientListens == Patient => (LifeSpec => []StartedListens)
<1> SUFFICES ASSUME Patient PROVE LifeSpec => []StartedListens
  OBVIOUS
<1>1. "take" \in RxLabels
  BY DEF RxLabels
<1>2. LifeInv => StartedListens
  BY <1>1 DEF LifeInv, Owned, Listening, Up, Coming, Here, Registered, Serves,
     StartedListens, Listens
<1>. QED
  BY <1>2, InitLife, LifeKept, HandleSpec, PTL DEF LifeSpec
-----------------------------------------------------------------------------
(***************************************************************************)
(* A started interface does not sleep on its frames.  The wakeup of the    *)
(* data path is carried over a stop and a start: a task that ends leaves   *)
(* pending bytes with their RECV event, unless it is one "left" tells of,  *)
(* and the new task looks at the pin behind its registration.              *)
(***************************************************************************)
Starts == {"start", "start_keep", "start_new", "start_create"}

(* The flag is set in a call of init or start, and cleared by a stop.      *)
Chosen ==
  /\ started => eth \in {"init", "start"}
  /\ api \in Starts => eth \in {"init", "start"}

(* A task that could not listen is on its way out.                         *)
Deaf == unlistened => ~Alive \/ pc["rx"] = "reg_failed"

(* There is no task in the loop, or it is past its last look at Sn_RX_RSR. *)
LastLook ==
  \/ pc["rx"] \in RegLabels \cup EndLabels
  \/ started /\ pc["rx"] \in {"level", "inner", "loop", "take"}

Awake == LastLook /\ ~rx_failed /\ ~left => Announced

Edged == started => EdgeKept

WakeInv == Chosen /\ Deaf /\ ~sn_masked /\ RecvOwned /\ Awake /\ Edged

LEMMA InitWake == LifeInit => WakeInv
<1> SUFFICES ASSUME LifeInit PROVE WakeInv
  OBVIOUS
<1>1. ~int_low /\ rx_wr = 0 /\ rx_ack = 0 /\ sn_cr = "NONE" /\ ~sn_masked
  BY DEF LifeInit, ChipInit, ChipCleared
<1>2. RecvOwned /\ EdgeKept /\ Announced
  BY <1>1, StartsAwake
<1>3. Chosen /\ Deaf
  BY DEF LifeInit, Chosen, Deaf, Starts
<1>. QED
  BY <1>1, <1>2, <1>3 DEF WakeInv, Awake, Edged

LEMMA DataKeepsAwake ==
  ASSUME RecvAwaited, HandleInv, WakeInv, Data
  PROVE  Awake'
<1> SUFFICES ASSUME LastLook', ~rx_failed', ~left', RxRsr' # 0
             PROVE  "RECV" \in sn_ir'
  BY DEF Awake, Announced
<1>1. Next /\ PcFun /\ RecvOwned /\ Awake
  BY DEF Data, HandleInv, PcOK, WakeInv
<1>2. ~left /\ (Ends => "RECV" \in sn_ir)
  BY DEF Data
<1>3. CASE Rx
  <2>1. RxMoves /\ WakeupKept
    BY <1>1, <1>3, RxStaysInLoop, RxKeepsWakeup
  <2>2. CASE pc'["rx"] \notin RxLabels
    <3>1. pc'["rx"] = "exit" /\ UNCHANGED sn_ir
      BY <2>1, <2>2 DEF RxMoves, chip, interrupt
    <3>2. pc["rx"] # "exit"
      BY <2>1, LabelsDiffer DEF RxMoves, EndLabels
    <3>. QED
      BY <1>2, <3>1, <3>2 DEF Ends
  <2>3. CASE pc'["rx"] \in RxLabels
    <3>1. started /\ pc'["rx"] \in {"level", "inner", "loop", "take"}
      BY <2>1, <2>3, LabelsDiffer DEF LastLook, RxMoves, LifeKeptBy
    <3>2. EventKept
      BY <1>1, <1>2, <3>1 DEF Awake, LastLook, EventKept, Announced
    <3>. QED
      BY <2>1, <3>1, <3>2 DEF WakeupKept, EventKept
  <2>. QED
    BY <2>2, <2>3
<1>4. CASE Chip \/ Wake \/ Tx \/ Send
  <2>1. AnnouncedKept
    BY <1>1, <1>4, ChipKeepsWakeup, WakeKeepsWakeup, TxKeepsWakeup
  <2>2. pc'["rx"] = pc["rx"] /\ UNCHANGED started
    BY <1>1, <1>4, OthersMoveNobody, TxStaysInCall DEF TxMoves, LifeKeptBy
  <2>3. UNCHANGED rx_failed
    BY <1>4 DEF Chip, Wake, Tx, Send, rxTask
  <2>4. LastLook /\ pc["rx"] # "rcv_wait"
    BY <2>2 DEF LastLook, RegLabels, EndLabels
  <2>. QED
    BY <1>1, <1>2, <2>1, <2>3, <2>4 DEF Awake, AnnouncedKept, Announced
<1>. QED
  BY <1>1, <1>3, <1>4 DEF Next

LEMMA DataKeepsWake ==
  ASSUME RecvAwaited, HandleInv, LifeInv, WakeInv, Data
  PROVE  WakeInv'
<1>1. /\ Next /\ PcFun /\ RecvOwned /\ UNCHANGED <<api, eth, unlistened>>
  BY DEF Data, stack, HandleInv, PcOK, WakeInv
<1>2. LifeLeftAlone /\ WakeupKept /\ SocketLeftAlone
  BY <1>1, DataLeavesLife, NextKeepsWakeup, NextLeavesSocket
<1>3. Chosen'
  BY <1>1, <1>2 DEF WakeInv, Chosen, LifeLeftAlone, LifeKeptBy
<1>4. Deaf'
  BY <1>1, <1>2, LabelsDiffer
     DEF WakeInv, Deaf, LifeLeftAlone, Alive, RegLabels, EndLabels
<1>5. Edged'
  <2> SUFFICES ASSUME started' PROVE EdgeKept'
    BY DEF Edged
  <2>1. started /\ EdgeKept /\ eth \in {"init", "start"}
    BY <1>2 DEF LifeLeftAlone, LifeKeptBy, WakeInv, Edged, Chosen
  <2>2. CASE pc["rx"] \in RxLabels
    <3>1. gpio_on /\ isr_task
      BY <2>1, <2>2 DEF LifeInv, Owned, Listening, Registered, Serves
    <3>. QED
      BY <1>2, <2>1, <3>1 DEF WakeupKept
  <2>3. CASE pc["rx"] \notin RxLabels
    <3>1. "loop" \in RxLabels /\ "take" \in RxLabels
      BY DEF RxLabels
    <3>. QED
      BY <1>2, <2>3, <3>1 DEF LifeLeftAlone, EdgeKept
  <2>. QED
    BY <2>2, <2>3
<1>. QED
  BY <1>2, <1>3, <1>4, <1>5, DataKeepsAwake
     DEF WakeInv, WakeupKept, SocketLeftAlone

(* The steps outside the data path leave the chip alone.                   *)
LEMMA ChipAloneKeepsWake ==
  ASSUME WakeInv, UNCHANGED <<chip, rx_failed, left>>, LastLook' => LastLook,
         pc["rx"] = "rcv_wait" => pc'["rx"] = "rcv_wait",
         Chosen', Deaf', Edged'
  PROVE  WakeInv'
<1>1. UNCHANGED <<sn_cr, sn_masked, sn_ir, rx_wr, rx_ack>>
  BY DEF chip, command, interrupt, rxStore
<1>2. Announced <=> Announced'
  BY <1>1 DEF Announced, RxRsr, Distance
<1>. QED
  BY <1>1, <1>2 DEF WakeInv, Awake, RecvOwned

LEMMA CallKeepsWake ==
  ASSUME WakeInv, InitCall \/ StartCall \/ StopCall
  PROVE  WakeInv'
<1>1. /\ UNCHANGED <<chip, rx_failed, left, pc, unlistened, int_low, wakeup>>
      /\ started' => started
  BY DEF InitCall, StartCall, StopCall, Call, vars, irq, rxTask, task, others,
     chip, interrupt
<1>2. Chosen'
  BY DEF InitCall, StartCall, StopCall, Call, vars, rxTask, task, WakeInv,
     Chosen, Starts
<1>3. Deaf' /\ Edged' /\ (LastLook' => LastLook)
  BY <1>1 DEF WakeInv, Deaf, Alive, Edged, EdgeKept, LastLook, wakeup
<1>. QED
  BY <1>1, <1>2, <1>3, ChipAloneKeepsWake

(* A start that sets the flag finds it set, or finds no task.              *)
LEMMA FlagForNobody ==
  ASSUME HandleInv, LifeInv, WakeInv, Api, started', ~started
  PROVE  ~Alive
<1>1. StartFlag
  BY DEF Api, StartTest, StartFlag, StartCreate, StartFails, StopGpio,
     StopTest, StopNotify, vars, rxTask, task
<1>2. api \in {"start_keep", "start_new"}
  BY <1>1 DEF StartFlag, Step
<1>3. CASE api = "start_new"
  BY <1>3 DEF HandleInv, Creating
<1>4. CASE api = "start_keep"
  <2>1. eth \in {"init", "start"} /\ pc["rx"] \notin RegLabels
    BY <1>4 DEF WakeInv, Chosen, Starts, LifeInv, Starting
  <2>2. ~Coming /\ ~Here
    BY <1>4 DEF Coming, Here
  <2>. QED
    BY <2>1, <2>2 DEF LifeInv, Up, WakeInv, Deaf, RegLabels
<1>. QED
  BY <1>2, <1>3, <1>4

LEMMA ApiKeepsWake ==
  ASSUME HandleInv, LifeInv, WakeInv, Api
  PROVE  WakeInv'
<1>1. UNCHANGED <<chip, rx_failed, left, eth>>
  BY DEF Api, StartTest, StartFlag, StartCreate, StartFails, StopGpio,
     StopTest, StopNotify, Step, vars, rxTask, others
<1>2. UNCHANGED int_low
  BY <1>1 DEF chip, interrupt
<1>3. Chosen'
  BY <1>1 DEF Api, StartTest, StartFlag, StartCreate, StartFails, StopGpio,
     StopTest, StopNotify, Step, vars, rxTask, task, WakeInv, Chosen, Starts
<1>4. CASE StartCreate
  <2>1. pc'["rx"] = "reg" /\ ~unlistened' /\ ~Alive
    BY <1>4, LabelsDiffer DEF StartCreate, Step, HandleInv, PcOK, PcFun,
       Creating, Threads
  <2>2. LastLook /\ Deaf' /\ Edged'
    BY <2>1 DEF Alive, LastLook, EndLabels, Deaf, Edged, EdgeKept
  <2>. QED
    BY <1>1, <1>3, <2>1, <2>2, ChipAloneKeepsWake DEF Alive
<1>5. CASE \/ StartTest \/ StartFlag \/ StartFails \/ StopGpio \/ StopTest
           \/ StopNotify
  <2>1. UNCHANGED <<pc, isr_edge>> /\ (notified => notified')
    <3>1. CASE StopNotify
      BY <3>1 DEF StopNotify
    <3>2. CASE StartTest \/ StartFlag \/ StartFails \/ StopGpio \/ StopTest
      BY <3>2 DEF StartTest, StartFlag, StartFails, StopGpio, StopTest, vars,
         irq, wakeup
    <3>. QED
      BY <1>5, <3>1, <3>2
  <2>2. started' => started \/ pc["rx"] = "none"
    BY FlagForNobody DEF Alive
  <2>3. unlistened' => unlistened \/ ~Alive
    BY <1>5 DEF StartTest, StartFlag, StartFails, StopGpio, StopTest,
       StopNotify, Step, HandleInv, Creating
  <2>4. Deaf' /\ Edged' /\ (LastLook' => LastLook)
    BY <1>1, <1>2, <2>1, <2>2, <2>3
       DEF WakeInv, Deaf, Alive, Edged, EdgeKept, LastLook, EndLabels
  <2>. QED
    BY <1>1, <1>3, <2>1, <2>4, ChipAloneKeepsWake
<1>. QED
  BY <1>4, <1>5 DEF Api

LEMMA TaskKeepsWake ==
  ASSUME HandleInv, LifeInv, WakeInv, Task
  PROVE  WakeInv'
<1>1. UNCHANGED <<chip, rx_failed, left, api, eth, started>>
  BY DEF Task, RegHandle, RegEnable, RegPending, RegFails, RegFailed,
     UnregDisable, UnregNull, NullHandle, TaskStep, others, stack, task
<1>2. Chosen'
  BY <1>1 DEF WakeInv, Chosen
<1>3. pc["rx"] \in RegLabels \cup EndLabels
  BY DEF Task, RegHandle, RegEnable, RegPending, RegFails, RegFailed,
     UnregDisable, UnregNull, NullHandle, TaskStep, RegLabels, EndLabels
<1>4. LastLook /\ pc["rx"] # "rcv_wait"
  BY <1>3 DEF LastLook, RegLabels, EndLabels
<1>5. Deaf' /\ Edged'
  <2> USE TaskGoes DEF HandleInv, RegLabels, EndLabels
  <2>1. CASE RegPending
    <3>1. pc["rx"] = "reg_pending" /\ UNCHANGED unlistened
      BY <2>1 DEF RegPending
    <3>2. isr_task /\ ~unlistened /\ UNCHANGED int_low
      BY <1>1, <3>1 DEF LifeInv, Owned, Registered, WakeInv, Deaf, Alive, chip,
         interrupt
    <3>3. int_low => notified'
      BY <2>1, <3>2 DEF RegPending
    <3>. QED
      BY <3>1, <3>2, <3>3 DEF Deaf, Edged, EdgeKept
  <2>2. CASE RegFails \/ RegFailed \/ NullHandle
    <3>1. pc'["rx"] \in {"reg_failed", "none"}
      BY <2>2 DEF RegFails, RegFailed, NullHandle
    <3>. QED
      BY <3>1 DEF Deaf, Alive, Edged, EdgeKept
  <2>3. CASE RegHandle \/ RegEnable \/ UnregDisable \/ UnregNull
    <3>1. /\ pc["rx"] \notin {"none", "reg_failed"} /\ UNCHANGED unlistened
          /\ pc'["rx"] \in {"reg_enable", "reg_pending", "unreg_null", "null_handle"}
      BY <2>3 DEF RegHandle, RegEnable, UnregDisable, UnregNull
    <3>. QED
      BY <3>1 DEF WakeInv, Deaf, Alive, Edged, EdgeKept
  <2>. QED
    BY <2>1, <2>2, <2>3 DEF Task
<1>. QED
  BY <1>1, <1>2, <1>4, <1>5, ChipAloneKeepsWake

LEMMA WakeKept ==
  ASSUME RecvAwaited
  PROVE  HandleInv /\ LifeInv /\ WakeInv /\ [LifeNext]_lifeVars => WakeInv'
<1> SUFFICES ASSUME HandleInv, LifeInv, WakeInv, [LifeNext]_lifeVars
             PROVE  WakeInv'
  OBVIOUS
<1>1. CASE LateStop \/ UNCHANGED lifeVars
  <2>1. /\ UNCHANGED <<chip, rx_failed, left, pc, unlistened, api, eth>>
        /\ UNCHANGED wakeup /\ (started' => started)
    BY <1>1 DEF LateStop, lifeVars, life, stack, vars, others, irq, rxTask, task
  <2>2. UNCHANGED int_low
    BY <2>1 DEF chip, interrupt
  <2>3. Chosen' /\ Deaf' /\ Edged' /\ (LastLook' => LastLook)
    BY <2>1, <2>2 DEF WakeInv, Chosen, Deaf, Alive, Edged, EdgeKept, LastLook,
       wakeup
  <2>. QED
    BY <2>1, <2>3, ChipAloneKeepsWake
<1>. QED
  BY <1>1, DataKeepsWake, CallKeepsWake, ApiKeepsWake, TaskKeepsWake
     DEF LifeNext

(***************************************************************************)
(* Frames that came while the interface was stopped wake the new task, and *)
(* the task of a started interface sleeps on no others, if the stack is    *)
(* patient.                                                                *)
(***************************************************************************)
THEOREM StartedNeverStalls ==
  Patient /\ RecvAwaited => (LifeSpec => []NoStallAfterStart)
<1> SUFFICES ASSUME Patient, RecvAwaited PROVE LifeSpec => []NoStallAfterStart
  OBVIOUS
<1>1. WakeInv => NoStallAfterStart
  <2> SUFFICES ASSUME WakeInv, started, ~left PROVE NoStall
    BY DEF NoStallAfterStart
  <2>1. EventKept
    BY DEF WakeInv, Awake, LastLook, Announced, EventKept
  <2>. QED
    BY <2>1, KeptIsNoStall DEF WakeInv, Edged
<1>. QED
  BY <1>1, InitWake, WakeKept, InitLife, LifeKept, HandleSpec, PTL DEF LifeSpec
-----------------------------------------------------------------------------
(***************************************************************************)
(* Reception over the lives of several tasks.  A task ends between two     *)
(* frames only, so the next one goes on where the last one stopped.        *)
(***************************************************************************)
Outside == InitCall \/ StartCall \/ StopCall \/ Api \/ Task \/ LateStop

LEMMA OutsideMoves ==
  ASSUME HandleInv, Outside
  PROVE  /\ UNCHANGED others /\ PcFun'
         /\ \/ pc'["rx"] = pc["rx"]
            \/ pc["rx"] \in RegLabels \cup EndLabels /\ pc'["rx"] \notin RcvLabels
<1>0. HandleInv'
  BY CallKeepsHandle, ApiKeepsHandle, TaskKeepsHandle DEF Outside
<1>1. UNCHANGED others
  BY DEF Outside, InitCall, StartCall, StopCall, Call, Api, StartTest,
     StartFlag, StartCreate, StartFails, StopGpio, StopTest, StopNotify, Task,
     RegHandle, RegEnable, RegPending, RegFails, RegFailed, UnregDisable,
     UnregNull, NullHandle, TaskStep, LateStop, vars, irq, rxTask, others
<1>2. CASE Task
  <2>1. \E label, then \in RegLabels \cup EndLabels \cup {"loop"} :
           TaskStep(label, then) /\ label # "loop"
    BY <1>2 DEF Task, RegHandle, RegEnable, RegPending, RegFails, RegFailed,
       UnregDisable, UnregNull, NullHandle, RegLabels, EndLabels
  <2>2. (RegLabels \cup EndLabels \cup {"loop"}) \cap RcvLabels = {}
    BY DEF RegLabels, EndLabels, RcvLabels
  <2>. QED
    BY <1>0, <1>1, <2>1, <2>2, TaskGoes DEF HandleInv, PcOK
<1>3. CASE StartCreate
  <2>1. pc'["rx"] = "reg" /\ pc["rx"] = "none"
    BY <1>3, LabelsDiffer DEF StartCreate, Step, HandleInv, PcOK, PcFun,
       Creating, Alive
  <2>. QED
    BY <1>0, <1>1, <2>1 DEF HandleInv, PcOK, RegLabels, EndLabels, RcvLabels
<1>4. CASE \/ InitCall \/ StartCall \/ StopCall \/ LateStop \/ StartTest
           \/ StartFlag \/ StartFails \/ StopGpio \/ StopTest \/ StopNotify
  <2>1. UNCHANGED pc
    BY <1>4 DEF InitCall, StartCall, StopCall, Call, LateStop, StartTest,
       StartFlag, StartFails, StopGpio, StopTest, StopNotify, vars
  <2>. QED
    BY <1>0, <1>1, <2>1 DEF HandleInv, PcOK
<1>. QED
  BY <1>2, <1>3, <1>4 DEF Outside, Api

(* The variables the steps outside the data path write keep their types.   *)
Flags ==
  /\ notified \in BOOLEAN /\ isr_edge \in BOOLEAN
  /\ gpio_on \in BOOLEAN /\ isr_task \in BOOLEAN /\ faults \in Nat
  /\ started \in BOOLEAN /\ rx_handle \in BOOLEAN

LEMMA OutsideKeepsFlags == Flags /\ Outside => Flags'
<1> SUFFICES ASSUME Flags, Outside PROVE Flags'
  OBVIOUS
<1> USE DEF Flags, irq, wakeup, gpio, task
<1>1. CASE InitCall \/ StartCall \/ StopCall \/ LateStop
  BY <1>1 DEF InitCall, StartCall, StopCall, Call, LateStop, vars, rxTask
<1>2. CASE StartTest \/ StartFlag \/ StartCreate
  BY <1>2 DEF StartTest, StartFlag, StartCreate, vars, rxTask
<1>3. CASE StartFails
  <2>1. faults' \in Nat
    BY <1>3 DEF StartFails
  <2>. QED
    BY <1>3, <2>1 DEF StartFails
<1>4. CASE StopGpio \/ StopTest \/ StopNotify
  BY <1>4 DEF StopGpio, StopTest, StopNotify, vars, rxTask
<1>5. CASE RegHandle \/ RegEnable \/ RegFailed
  BY <1>5 DEF RegHandle, RegEnable, RegFailed
<1>6. CASE RegPending
  BY <1>6 DEF RegPending
<1>7. CASE RegFails
  BY <1>7 DEF RegFails
<1>8. CASE UnregDisable \/ UnregNull \/ NullHandle
  BY <1>8 DEF UnregDisable, UnregNull, NullHandle
<1>. QED
  BY <1>1, <1>2, <1>3, <1>4, <1>5, <1>6, <1>7, <1>8 DEF Outside, Api, Task

LEMMA OutsideKeepsTypes == HandleInv /\ Typed /\ Outside => Typed'
<1> SUFFICES ASSUME HandleInv, Typed, Outside PROVE Typed'
  OBVIOUS
<1>1. Flags'
  BY OutsideKeepsFlags DEF Flags, Typed, IrqTypeOK, RxTypeOK
<1>2. UNCHANGED others /\ PcFun'
  BY OutsideMoves
<1>3. ChipTypeOK'
  BY <1>2 DEF others, chip, command, interrupt, rxStore, txRing, Typed,
     ChipTypeOK
<1>4. IrqTypeOK' /\ RxTypeOK' /\ TxTypeOK'
  BY <1>1, <1>2 DEF others, service, rxLocals, tx, Typed, Flags, IrqTypeOK,
     RxTypeOK, TxTypeOK
<1>. QED
  BY <1>2, <1>3, <1>4 DEF Typed

LifeRxInv == Typed /\ RecvOwned /\ InLine

LEMMA LifeNextKeepsRx ==
  ASSUME RecvReliable
  PROVE  HandleInv /\ LifeRxInv /\ [LifeNext]_lifeVars => LifeRxInv'
<1> SUFFICES ASSUME HandleInv, LifeRxInv, [LifeNext]_lifeVars
             PROVE  LifeRxInv'
  OBVIOUS
<1>1. CASE Data
  <2>1. Next /\ PcFun /\ Typed
    BY <1>1 DEF Data, LifeRxInv, Typed
  <2>2. InLine'
    BY <2>1, NextKeepsLine DEF LifeRxInv
  <2>3. RecvOwned'
    BY <2>1, NextKeepsWakeup, ReliableIsAwaited DEF LifeRxInv, WakeupKept
  <2>. QED
    BY <2>1, <2>2, <2>3, NextKeepsTypes DEF LifeRxInv
<1>2. CASE Outside
  <2>1. UNCHANGED <<rxStore, rx_rd, rxLocals, delivered, sn_cr>>
    BY <1>2, OutsideMoves DEF others, chip, command
  <2>2. \/ pc'["rx"] = pc["rx"]
        \/ pc["rx"] \notin Released \cup {"rcv_wait"} /\ pc'["rx"] \notin Ahead
    BY <1>2, OutsideMoves
       DEF RegLabels, EndLabels, RcvLabels, Ahead, Released
  <2>3. RecvOwned'
    BY <2>1, <2>2 DEF LifeRxInv, RecvOwned
  <2>4. InLine'
    BY <2>1, <2>2, StreamUntouched DEF LifeRxInv, InLine, rxStore
  <2>. QED
    BY <1>2, <2>3, <2>4, OutsideKeepsTypes DEF LifeRxInv
<1>3. CASE UNCHANGED lifeVars
  <2>1. /\ UNCHANGED <<rxStore, rx_rd, rxLocals, delivered, sn_cr, pc>>
        /\ UNCHANGED vars
    BY <1>3 DEF lifeVars, vars, chip, command, rxTask
  <2>2. InLine'
    BY <2>1, StreamUntouched DEF LifeRxInv, InLine, rxStore
  <2>3. RecvOwned'
    BY <2>1 DEF LifeRxInv, RecvOwned
  <2>. QED
    BY <2>1, <2>2, <2>3, NextKeepsTypes DEF LifeRxInv
<1>. QED
  BY <1>1, <1>2, <1>3 DEF LifeNext, Outside

(***************************************************************************)
(* However often the interface is stopped and started, what is delivered   *)
(* are the first frames that arrived, each whole and each once.            *)
(***************************************************************************)
THEOREM RestartDeliversInOrder == RecvReliable => (LifeSpec => []InOrder)
<1> SUFFICES ASSUME RecvReliable PROVE LifeSpec => []InOrder
  OBVIOUS
<1>1. LifeInit => LifeRxInv
  <2> SUFFICES ASSUME LifeInit PROVE LifeRxInv
    OBVIOUS
  <2>1. PcFun /\ pc["rx"] = "none"
    BY DEF LifeInit, PcFun, Threads
  <2>2. Typed
    BY <2>1, ChipInitTypes, InitTypes DEF LifeInit, Typed
  <2>3. InLine
    BY <2>1, StartsInLine DEF LifeInit, ChipInit, RxInit, Ahead, Released
  <2>4. RecvOwned
    BY DEF LifeInit, ChipInit, ChipCleared, RecvOwned
  <2>. QED
    BY <2>2, <2>3, <2>4 DEF LifeRxInv
<1>2. LifeRxInv => InOrder
  BY InLineIsOrdered DEF LifeRxInv
<1>. QED
  BY <1>1, <1>2, LifeNextKeepsRx, HandleSpec, PTL DEF LifeSpec
=============================================================================

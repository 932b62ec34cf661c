------------------------------- MODULE SpiBus -------------------------------
(***************************************************************************)
(* The SPI transport: w5500_spi_init and w5500_spi_deinit, called by one   *)
(* thread, next to threads that read and write 16-bit registers with       *)
(* w5500_spi_read and w5500_spi_write, and read a counter of the chip with *)
(* w5500_read_sn_rx_rsr_stable.  A word goes over the bus as two bytes,    *)
(* the high one first, and the counter may change between them.            *)
(***************************************************************************)
EXTENDS Naturals

CONSTANTS
  Threads,    (* the callers: RX task, sender, poll of the link            *)
  Readers,    (* those that read the counter                               *)
  Bytes,      (* the values of a byte                                      *)
  MaxTries,   (* attempts of a stable read: 8 in the code                  *)
  None

Words == Bytes \X Bytes
Blank == CHOOSE w \in Words : TRUE

ASSUME BusAssumption ==
  /\ Readers \subseteq Threads /\ Bytes \subseteq Nat /\ Bytes # {}
  /\ MaxTries \in Nat \ {0}
  /\ None \notin Threads /\ None \notin Words
  /\ None \notin {"read", "write"} \X Words
  /\ None \notin {<<"read">>, <<"written">>, <<"error">>}

VARIABLES
  reg,         (* the word in a register the driver writes                 *)
  count,       (* the word in a counter of the chip                        *)
  initialized, spi_lock, spi_handle,
               (* w5500_global_context: a pointer is TRUE when not NULL    *)
  lock_live, bus_up, dev_up,
               (* what was created and not deleted                         *)
  owner,       (* the holder of the lock, or None                          *)
  stuck,       (* history: spi_bus_free or spi_bus_remove_device failed    *)
  ctl,         (* the next call of init or deinit, "idle" outside          *)
  pc,          (* per thread: its next step                                *)
  op,          (* what it does: "read", "write", "stable"                  *)
  word,        (* what it writes, or has read                              *)
  good,        (* the transaction returned ESP_OK                          *)
  bufs,        (* the buffers it allocated                                 *)
  first,       (* the first value of an attempt of a stable read, or None  *)
  tries,       (* the attempts that failed                                 *)
  seen         (* history: the values of the counter in this attempt       *)

resources == <<lock_live, bus_up, dev_up, stuck>>
context   == <<initialized, spi_lock, spi_handle>>
calls     == <<pc, op, word, good, bufs, first, tries, seen>>
busVars   == <<reg, count, resources, context, owner, ctl, calls>>

InitLabels   == {"bus", "device", "publish"}
DeinitLabels == {"free_bus", "delete_lock", "clear"}
OnBus        == {"alloc", "hi", "lo", "free"}
BusLabels    == {"idle", "test", "lock", "ret"} \cup OnBus

BusInit ==
  /\ reg = Blank /\ count = Blank
  /\ initialized = FALSE /\ spi_lock = FALSE /\ spi_handle = FALSE
  /\ lock_live = FALSE /\ bus_up = FALSE /\ dev_up = FALSE /\ stuck = FALSE
  /\ owner = None /\ ctl = "idle"
  /\ pc = [t \in Threads |-> "idle"] /\ op = [t \in Threads |-> "read"]
  /\ word = [t \in Threads |-> Blank] /\ good = [t \in Threads |-> FALSE]
  /\ bufs = [t \in Threads |-> {}] /\ first = [t \in Threads |-> None]
  /\ tries = [t \in Threads |-> 0] /\ seen = [t \in Threads |-> {}]

---------------------------------------------------------------------------
(* w5500_spi_init; each step may fail, and undoes those before it.  Other  *)
(* threads look at nothing but initialized until it is TRUE.               *)
Forget == lock_live' = FALSE /\ spi_lock' = FALSE

(* spi_bus_free and spi_bus_remove_device may fail, which their callers do *)
(* not look at: what is up stays up.                                       *)
TakenDown(up, up_next) == up_next \in {FALSE, up}

Stuck == stuck' = (stuck \/ bus_up' \/ dev_up')

CreateLock ==
  /\ ctl = "idle" /\ ~initialized
  /\ ctl' = "bus" /\ lock_live' = TRUE /\ spi_lock' = TRUE /\ owner' = None
  /\ UNCHANGED <<initialized, spi_handle, bus_up, dev_up, stuck>>

BusInitialize ==
  /\ ctl = "bus"
  /\ \/ ~bus_up /\ bus_up' = TRUE /\ ctl' = "device"
        /\ UNCHANGED <<lock_live, spi_lock>>
     \/ ctl' = "idle" /\ Forget /\ UNCHANGED bus_up
  /\ UNCHANGED <<initialized, spi_handle, dev_up, stuck, owner>>

(* Mutant: the bus stays initialised when the device cannot be added.      *)
AddDeviceKeepsBus ==
  /\ ctl = "device"
  /\ \/ ctl' = "publish" /\ dev_up' = TRUE /\ spi_handle' = TRUE
        /\ UNCHANGED <<lock_live, spi_lock>>
     \/ ctl' = "idle" /\ Forget /\ UNCHANGED <<dev_up, spi_handle>>
  /\ UNCHANGED <<initialized, bus_up, stuck, owner>>

AddDevice ==
  /\ ctl = "device"
  /\ \/ ctl' = "publish" /\ dev_up' = TRUE /\ spi_handle' = TRUE
        /\ UNCHANGED <<lock_live, spi_lock, bus_up, stuck>>
     \/ /\ ctl' = "idle" /\ Forget
        /\ TakenDown(bus_up, bus_up') /\ UNCHANGED <<dev_up, spi_handle>> /\ Stuck
  /\ UNCHANGED <<initialized, owner>>

Publish ==
  /\ ctl = "publish"
  /\ ctl' = "idle" /\ initialized' = TRUE
  /\ UNCHANGED <<spi_lock, spi_handle, resources, owner>>

(* w5500_spi_deinit: it takes no lock and waits for nobody.  A bus with a  *)
(* device on it cannot be freed.                                           *)
RemoveDevice ==
  /\ ctl = "idle" /\ initialized
  /\ ctl' = "free_bus" /\ TakenDown(dev_up, dev_up') /\ UNCHANGED bus_up
  /\ stuck' = (stuck \/ dev_up')
  /\ UNCHANGED <<context, lock_live, owner>>

FreeBus ==
  /\ ctl = "free_bus"
  /\ ctl' = "delete_lock" /\ TakenDown(bus_up, bus_up') /\ UNCHANGED dev_up
  /\ dev_up => bus_up'
  /\ Stuck
  /\ UNCHANGED <<context, lock_live, owner>>

DeleteLock ==
  /\ ctl = "delete_lock"
  /\ ctl' = "clear" /\ lock_live' = FALSE
  /\ UNCHANGED <<context, bus_up, dev_up, stuck, owner>>

ClearContext ==
  /\ ctl = "clear"
  /\ ctl' = "idle"
  /\ initialized' = FALSE /\ spi_lock' = FALSE /\ spi_handle' = FALSE
  /\ UNCHANGED <<resources, owner>>

Control ==
  /\ \/ CreateLock \/ BusInitialize \/ AddDevice \/ Publish
     \/ RemoveDevice \/ FreeBus \/ DeleteLock \/ ClearContext
  /\ UNCHANGED <<reg, count, calls>>

---------------------------------------------------------------------------
(* The counter goes up while a thread reads it: only the reading thread    *)
(* takes bytes away, by RECV or SEND, before or after.                     *)
Below(v, w) == v[1] < w[1] \/ (v[1] = w[1] /\ v[2] < w[2])

Counting(t) == pc[t] # "idle" /\ op[t] = "stable"

Chip ==
  /\ count' \in Words
  /\ (\E t \in Threads : Counting(t)) => Below(count, count')
  /\ seen' = [t \in Threads |-> IF Counting(t) THEN seen[t] \cup {count'}
                                              ELSE seen[t]]
  /\ UNCHANGED <<reg, resources, context, owner, ctl, pc, op, word, good,
                 bufs, first, tries>>

---------------------------------------------------------------------------
Goto(t, label)   == pc' = [pc EXCEPT ![t] = label]
Outcome(t, ok)   == good' = [good EXCEPT ![t] = ok]

Attempt(t) ==
  /\ first' = [first EXCEPT ![t] = None]
  /\ seen' = [seen EXCEPT ![t] = IF op'[t] = "stable" THEN {count} ELSE {}]
  /\ Goto(t, "test")

Ask(t) ==
  /\ pc[t] = "idle"
  /\ \/ op' = [op EXCEPT ![t] = "read"] /\ UNCHANGED word
     \/ /\ op' = [op EXCEPT ![t] = "write"]
        /\ \E w \in Words : word' = [word EXCEPT ![t] = w]
     \/ t \in Readers /\ op' = [op EXCEPT ![t] = "stable"] /\ UNCHANGED word
  /\ Attempt(t)
  /\ UNCHANGED <<good, bufs, tries, reg, owner>>

Test(t) ==
  /\ pc[t] = "test"
  /\ Goto(t, IF initialized THEN "lock" ELSE "ret") /\ Outcome(t, FALSE)
  /\ UNCHANGED <<op, word, bufs, first, tries, seen, reg, owner>>

(* w5500_spi_lock: the lock is there, or not, or not free for 100 ms.  To  *)
(* take one that was deleted is undefined, and may do either.              *)
TakeLock(t) ==
  /\ pc[t] = "lock" /\ spi_lock /\ ~(lock_live /\ owner # None)
  /\ owner' = t
  /\ Goto(t, "alloc")
  /\ UNCHANGED <<op, word, good, bufs, first, tries, seen, reg>>

(* Mutants: the error of the lock is ignored; it is waited for without a   *)
(* timeout.                                                                *)
LockFailsIgnored(t) ==
  /\ pc[t] = "lock" /\ ~(spi_lock /\ lock_live /\ owner = None)
  /\ Goto(t, "alloc")
  /\ UNCHANGED <<op, word, good, bufs, first, tries, seen, reg, owner>>

LockFailsNever(t) ==
  /\ pc[t] = "lock" /\ ~spi_lock
  /\ Goto(t, "ret")
  /\ UNCHANGED <<op, word, good, bufs, first, tries, seen, reg, owner>>

LockFails(t) ==
  /\ pc[t] = "lock" /\ ~(spi_lock /\ lock_live /\ owner = None)
  /\ Goto(t, "ret")
  /\ UNCHANGED <<op, word, good, bufs, first, tries, seen, reg, owner>>

Buffers(t) == IF op[t] = "write" THEN {"tx"} ELSE {"tx", "rx"}

(* Mutant: a failed calloc returns without unlocking.                      *)
AllocFailsLocked(t) ==
  /\ pc[t] = "alloc"
  /\ \/ Goto(t, "hi") /\ bufs' = [bufs EXCEPT ![t] = Buffers(t)]
     \/ Goto(t, "ret") /\ UNCHANGED bufs
  /\ UNCHANGED <<op, word, good, first, tries, seen, reg, owner>>

Alloc(t) ==
  /\ pc[t] = "alloc"
  /\ \E got \in SUBSET Buffers(t) :
       /\ bufs' = [bufs EXCEPT ![t] = got]
       /\ Goto(t, IF got = Buffers(t) THEN "hi" ELSE "free")
  /\ UNCHANGED <<op, word, good, first, tries, seen, reg, owner>>

(* spi_device_polling_transmit: one byte of the word read or written.      *)
Register(t) == IF op[t] = "stable" THEN count ELSE reg

Transfer(t, byte) ==
  IF op[t] = "write"
  THEN reg' = [reg EXCEPT ![byte] = word[t][byte]] /\ UNCHANGED word
  ELSE word' = [word EXCEPT ![t][byte] = Register(t)[byte]] /\ UNCHANGED reg

High(t) ==
  /\ pc[t] = "hi"
  /\ Transfer(t, 1)
  /\ Goto(t, "lo")
  /\ UNCHANGED <<op, good, bufs, first, tries, seen, owner>>

Low(t) ==
  /\ pc[t] = "lo"
  /\ Transfer(t, 2)
  /\ Goto(t, "free") /\ Outcome(t, TRUE)
  /\ UNCHANGED <<op, bufs, first, tries, seen, owner>>

TransmitFails(t) ==
  /\ pc[t] = "hi"
  /\ Goto(t, "free")
  /\ UNCHANGED <<op, word, good, bufs, first, tries, seen, reg, owner>>

(* free, unlock, and the return of the transaction: to the caller, or to   *)
(* the loop of the stable read, which wants the same value twice.  Only    *)
(* its holder gives a recursive lock back.                                 *)
Release(t) ==
  /\ pc[t] = "free"
  /\ bufs' = [bufs EXCEPT ![t] = {}]
  /\ owner' = IF owner = t THEN None ELSE owner
  /\ UNCHANGED <<op, reg>>

(* Mutant: one reading of the counter is enough.                           *)
DoneOnce(t) ==
  /\ Release(t)
  /\ Goto(t, "ret")
  /\ UNCHANGED <<word, good, first, tries, seen>>

Done(t) ==
  /\ Release(t)
  /\ good[t] => op[t] # "stable" \/ first[t] = word[t]
  /\ Goto(t, "ret")
  /\ UNCHANGED <<word, good, first, tries, seen>>

ReadAgain(t) ==
  /\ Release(t)
  /\ good[t] /\ op[t] = "stable" /\ first[t] = None
  /\ first' = [first EXCEPT ![t] = word[t]]
  /\ word' = [word EXCEPT ![t] = Blank]
  /\ Goto(t, "test") /\ Outcome(t, FALSE)
  /\ UNCHANGED <<tries, seen>>

Unstable(t) ==
  /\ Release(t)
  /\ good[t] /\ op[t] = "stable" /\ first[t] \notin {None, word[t]}
  /\ word' = [word EXCEPT ![t] = Blank] /\ Outcome(t, FALSE)
  /\ tries' = [tries EXCEPT ![t] = @ + 1]
  /\ IF tries[t] + 1 < MaxTries THEN Attempt(t)
     ELSE Goto(t, "ret") /\ UNCHANGED <<first, seen>>

(* The caller's variables are its own again.                               *)
Return(t) ==
  /\ pc[t] = "ret"
  /\ Goto(t, "idle") /\ Outcome(t, FALSE)
  /\ op' = [op EXCEPT ![t] = "read"] /\ word' = [word EXCEPT ![t] = Blank]
  /\ first' = [first EXCEPT ![t] = None] /\ seen' = [seen EXCEPT ![t] = {}]
  /\ tries' = [tries EXCEPT ![t] = 0]
  /\ UNCHANGED <<bufs, reg, owner>>

InCall(t) ==
  \/ Test(t) \/ TakeLock(t) \/ LockFails(t) \/ Alloc(t) \/ High(t) \/ Low(t)
  \/ TransmitFails(t) \/ Done(t) \/ ReadAgain(t) \/ Unstable(t) \/ Return(t)

Thread(t) ==
  (Ask(t) \/ InCall(t)) /\ UNCHANGED <<count, resources, context, ctl>>

BusNext == Control \/ Chip \/ \E t \in Threads : Thread(t)

BusSpec == BusInit /\ [][BusNext]_busVars

(* What the code asks of the caller of w5500_spi_deinit, which takes no    *)
(* lock: that no thread is in a call, or starts one, while it runs.        *)
Quiet       == \A t \in Threads : pc[t] = "idle"
QuietDeinit == ctl \in DeinitLabels => Quiet
QuietNext   == BusNext /\ QuietDeinit'
QuietSpec   == BusInit /\ [][QuietNext]_busVars

(* A thread in a call goes on: a wait for the lock ends after 100 ms.      *)
QuietFairSpec ==
  QuietSpec /\ \A t \in Threads : WF_busVars(Thread(t) /\ InCall(t))

---------------------------------------------------------------------------
(* Every variable keeps the type it has in the code.                       *)
BusTypeOK ==
  /\ reg \in Words /\ count \in Words
  /\ initialized \in BOOLEAN /\ spi_lock \in BOOLEAN /\ spi_handle \in BOOLEAN
  /\ lock_live \in BOOLEAN /\ bus_up \in BOOLEAN /\ dev_up \in BOOLEAN
  /\ stuck \in BOOLEAN
  /\ owner \in Threads \cup {None}
  /\ ctl \in {"idle"} \cup InitLabels \cup DeinitLabels
  /\ pc \in [Threads -> BusLabels]
  /\ op \in [Threads -> {"read", "write", "stable"}]
  /\ word \in [Threads -> Words] /\ good \in [Threads -> BOOLEAN]
  /\ bufs \in [Threads -> SUBSET {"tx", "rx"}]
  /\ first \in [Threads -> Words \cup {None}]
  /\ tries \in [Threads -> 0 .. MaxTries]
  /\ seen \in [Threads -> SUBSET Words]

(* Two threads are never between the lock and the unlock of a transaction, *)
(* though each waits only 100 ms for the lock (spi.c:130 and 183).  It     *)
(* holds of QuietSpec: deinit deletes a lock that is held (spi.c:111).     *)
OneOnTheBus == \A t, u \in Threads : pc[t] \in OnBus /\ pc[u] \in OnBus => t = u

(* A call that returned, on whatever path, has freed its buffers and given *)
(* the lock back (spi.c:136-168 and 189-217).                              *)
NothingLeaks ==
  \A t \in Threads : pc[t] \notin OnBus => bufs[t] = {} /\ owner # t

(* When neither init nor deinit runs, everything is there or nothing, so   *)
(* that an init that failed half-way can be repeated (spi.c:66-87); and    *)
(* initialized, the one thing other threads look at, is TRUE only when the *)
(* rest is there (spi.c:90).  The bus and the device stay up only when     *)
(* spi_bus_free or spi_bus_remove_device failed, which spi.c:83, 105 and   *)
(* 108 ignore.                                                             *)
AllOrNothing ==
  /\ initialized => ctl \in {"idle"} \cup DeinitLabels
  /\ ctl = "idle" =>
       /\ \A r \in {spi_lock, spi_handle, lock_live} : r = initialized
       /\ initialized => bus_up /\ dev_up
       /\ ~initialized /\ ~stuck => ~bus_up /\ ~dev_up

(* Two equal readings of a counter give a value the counter had during the *)
(* call, although each reading may mix bytes of two values (regs.c:199).   *)
StableIsReal ==
  \A t \in Threads :
    pc[t] = "ret" /\ op[t] = "stable" /\ good[t] => word[t] \in seen[t]

(* A call returns, also when the lock is never free at the right moment.   *)
CallsReturn == \A t \in Threads : pc[t] # "idle" ~> pc[t] = "idle"

(* Reads and writes of a register are atomic (spi.c:118-218): a write      *)
(* takes effect with its first byte, since no other thread sees the rest.  *)
Plain(t)   == pc[t] # "idle" /\ op[t] # "stable"
Halfway(t) == pc[t] = "lo" /\ op[t] = "write"

Result(t) ==
  IF ~(pc[t] \in {"free", "ret"} \/ Halfway(t)) THEN None
  ELSE IF Halfway(t) \/ (good[t] /\ op[t] = "write") THEN <<"written">>
  ELSE IF good[t] THEN <<"read", word[t]>> ELSE <<"error">>

TheFile ==
  IF \E t \in Threads : Halfway(t)
  THEN word[CHOOSE t \in Threads : Halfway(t)] ELSE reg
Requests == [t \in Threads |->
  IF ~Plain(t) THEN None
  ELSE IF op[t] = "write" THEN <<"write", word[t]>> ELSE <<"read">>]
Answers == [t \in Threads |-> IF Plain(t) THEN Result(t) ELSE None]

File == INSTANCE RegFile
          WITH file <- TheFile, request <- Requests, answer <- Answers

AtomicRegisters == File!Spec
============================================================================

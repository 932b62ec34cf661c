---------------------------- MODULE SpiBus_proofs ----------------------------
(***************************************************************************)
(* Proofs about the SPI transport, for any threads, bytes and attempts.    *)
(***************************************************************************)
EXTENDS SpiBus, TLAPS

USE BusAssumption

LEMMA BlankIsWord == Blank \in Words
<1>1. PICK b \in Bytes : TRUE
  OBVIOUS
<1>2. <<b, b>> \in Words
  BY DEF Words
<1>. QED
  BY <1>2 DEF Blank

LEMMA ByteReplaced ==
  ASSUME NEW w \in Words, NEW c \in Bytes
  PROVE  /\ [w EXCEPT ![1] = c] = <<c, w[2]>> /\ [w EXCEPT ![2] = c] = <<w[1], c>>
         /\ w[1] \in Bytes /\ w[2] \in Bytes
BY DEF Words

LEMMA WordParts ==
  ASSUME NEW w \in Words
  PROVE  w[1] \in Nat /\ w[2] \in Nat /\ w = <<w[1], w[2]>>
<1>1. w[1] \in Bytes /\ w[2] \in Bytes
  BY DEF Words
<1>2. w = <<w[1], w[2]>>
  BY DEF Words
<1>. QED
  BY <1>1, <1>2

-----------------------------------------------------------------------------
(* A thread that is still reading has an attempt left.                     *)
TriesLeft == \A t \in Threads : pc[t] # "ret" => tries[t] < MaxTries

BusType == BusTypeOK /\ TriesLeft

LEMMA TypeInit == BusInit => BusType
<1> SUFFICES ASSUME BusInit PROVE BusType
  OBVIOUS
<1>1. /\ pc \in [Threads -> BusLabels] /\ op \in [Threads -> {"read", "write", "stable"}]
      /\ good \in [Threads -> BOOLEAN] /\ first \in [Threads -> Words \cup {None}]
  BY DEF BusInit, BusLabels
<1>2. /\ word \in [Threads -> Words] /\ bufs \in [Threads -> SUBSET {"tx", "rx"}]
      /\ seen \in [Threads -> SUBSET Words]
  BY BlankIsWord DEF BusInit
<1>3. tries \in [Threads -> 0 .. MaxTries] /\ TriesLeft
  BY DEF BusInit, TriesLeft
<1>. QED
  BY <1>1, <1>2, <1>3, BlankIsWord DEF BusInit, BusTypeOK, BusType

LEMMA TypeControl == BusType /\ (Control \/ Chip) => BusType'
<1> SUFFICES ASSUME BusType, Control \/ Chip PROVE BusType'
  OBVIOUS
<1>1. CASE Control
  BY <1>1 DEF BusType, BusTypeOK, TriesLeft, Control, CreateLock, BusInitialize,
     AddDevice, Publish, RemoveDevice, FreeBus, DeleteLock, ClearContext, Forget,
     TakenDown, Stuck, resources, context, calls, InitLabels, DeinitLabels
<1>2. CASE Chip
  <2>1. seen' \in [Threads -> SUBSET Words]
    BY <1>2 DEF Chip, BusType, BusTypeOK
  <2>. QED
    BY <1>2, <2>1 DEF BusType, BusTypeOK, TriesLeft, Chip, resources, context
<1>. QED
  BY <1>1, <1>2

LEMMA TypeThread ==
  ASSUME BusType, NEW t \in Threads, Thread(t)
  PROVE  BusType'
<1> USE DEF BusLabels, OnBus, Goto, Outcome, resources, context, BusType, TriesLeft
<1>. /\ reg \in Words /\ word \in [Threads -> Words] /\ count \in Words
     /\ tries \in [Threads -> 0 .. MaxTries]
  BY DEF BusTypeOK
<1>1. CASE Ask(t)
  BY <1>1 DEF Ask, Attempt, Thread, BusTypeOK
<1>2. CASE Test(t)
  BY <1>2 DEF Test, Thread, BusTypeOK
<1>3. CASE TakeLock(t) \/ LockFails(t) \/ TransmitFails(t)
  BY <1>3 DEF TakeLock, LockFails, TransmitFails, Thread, BusTypeOK
<1>4. CASE Alloc(t)
  <2>1. PICK got \in SUBSET {"tx", "rx"}, label \in {"hi", "free"} :
          bufs' = [bufs EXCEPT ![t] = got] /\ pc' = [pc EXCEPT ![t] = label]
    BY <1>4 DEF Alloc, Buffers
  <2>2. bufs' \in [Threads -> SUBSET {"tx", "rx"}]
    BY <2>1 DEF BusTypeOK
  <2>3. pc' \in [Threads -> BusLabels] /\ TriesLeft'
    BY <1>4, <2>1 DEF BusTypeOK, Alloc
  <2>. QED
    BY <1>4, <2>2, <2>3 DEF Alloc, Thread, BusTypeOK
<1>5. CASE High(t) \/ Low(t)
  <2>1. Register(t)[1] \in Bytes /\ Register(t)[2] \in Bytes
    BY ByteReplaced DEF Register
  <2>2. PICK byte \in {1, 2} : Transfer(t, byte)
    BY <1>5 DEF High, Low
  <2>3. reg' \in Words /\ word' \in [Threads -> Words]
    <3>1. CASE op[t] = "write"
      BY <2>2, <3>1, ByteReplaced DEF Transfer, Words
    <3>2. CASE op[t] # "write"
      <4>1. [word[t] EXCEPT ![byte] = Register(t)[byte]] \in Words
        BY <2>1, ByteReplaced DEF Words
      <4>. QED
        BY <2>2, <3>2, <4>1 DEF Transfer
    <3>. QED
      BY <3>1, <3>2
  <2>4. UNCHANGED <<op, bufs, first, tries, seen, owner, count, resources, context, ctl>>
    BY <1>5 DEF High, Low, Thread
  <2>5. /\ pc' \in [Threads -> BusLabels] /\ good' \in [Threads -> BOOLEAN]
        /\ TriesLeft'
    <3>1. PICK label \in {"lo", "free"} : pc' = [pc EXCEPT ![t] = label]
      BY <1>5 DEF High, Low
    <3>2. pc[t] # "ret" /\ good' \in [Threads -> BOOLEAN]
      BY <1>5 DEF High, Low, BusTypeOK
    <3>. QED
      BY <2>4, <3>1, <3>2 DEF BusTypeOK
  <2>. QED
    BY <2>3, <2>4, <2>5 DEF BusTypeOK
<1>6. CASE Done(t)
  BY <1>6 DEF Done, Release, Thread, BusTypeOK
<1>7. CASE ReadAgain(t)
  <2>1. word' \in [Threads -> Words] /\ first' \in [Threads -> Words \cup {None}]
    BY <1>7, BlankIsWord DEF ReadAgain, BusTypeOK
  <2>. QED
    BY <1>7, <2>1 DEF ReadAgain, Release, Thread, BusTypeOK
<1>8. CASE Return(t)
  BY <1>8, BlankIsWord DEF Return, Thread, BusTypeOK
<1>9. CASE Unstable(t)
  <2>1. word' \in [Threads -> Words]
    BY <1>9, BlankIsWord DEF Unstable
  <2>2. tries[t] + 1 <= MaxTries
    BY <1>9 DEF Unstable, Release
  <2>3. tries' = [tries EXCEPT ![t] = tries[t] + 1]
    BY <1>9 DEF Unstable
  <2>4. CASE tries[t] + 1 < MaxTries
    BY <1>9, <2>1, <2>2, <2>3, <2>4 DEF Unstable, Attempt, Release, Thread, BusTypeOK
  <2>5. CASE ~(tries[t] + 1 < MaxTries)
    BY <1>9, <2>1, <2>2, <2>3, <2>5 DEF Unstable, Release, Thread, BusTypeOK
  <2>. QED
    BY <2>4, <2>5
<1>. QED
  BY <1>1, <1>2, <1>3, <1>4, <1>5, <1>6, <1>7, <1>8, <1>9 DEF Thread, InCall

LEMMA TypeKept == BusType /\ [BusNext]_busVars => BusType'
<1>1. BusType /\ UNCHANGED busVars => BusType'
  BY DEF BusType, BusTypeOK, TriesLeft, busVars, resources, context, calls
<1>. QED
  BY <1>1, TypeControl, TypeThread DEF BusNext

(* Every variable keeps its type, and a stable read never runs out of the  *)
(* attempts it has (regs.c:205-226).                                       *)
THEOREM BusTypeCorrect == BusSpec => []BusTypeOK
<1>1. BusSpec => []BusType
  BY TypeInit, TypeKept, PTL DEF BusSpec
<1>. QED
  BY <1>1, PTL DEF BusType

-----------------------------------------------------------------------------
(* What init and deinit have done when they are about to make each call.   *)
Stages ==
  /\ AllOrNothing
  /\ dev_up => bus_up
  /\ ctl \in InitLabels =>
       /\ ~initialized /\ spi_lock /\ lock_live
       /\ spi_handle = (ctl = "publish")
       /\ ctl = "bus" => stuck \/ ~bus_up
       /\ ctl = "device" => bus_up /\ ~dev_up
       /\ ctl = "publish" => bus_up /\ dev_up
  /\ ctl \in DeinitLabels =>
       /\ initialized /\ lock_live = (ctl # "clear")
       /\ dev_up => stuck
       /\ ctl # "free_bus" => stuck \/ ~bus_up

Settled ==
  /\ spi_lock = initialized /\ spi_handle = initialized /\ lock_live = initialized
  /\ initialized => bus_up /\ dev_up
  /\ ~initialized /\ ~stuck => ~bus_up /\ ~dev_up

LEMMA StagesKept == BusType /\ Stages /\ [BusNext]_busVars => Stages'
<1> SUFFICES ASSUME BusType, Stages, [BusNext]_busVars PROVE Stages'
  OBVIOUS
<1>1. AllOrNothing <=> /\ initialized => ctl \in {"idle"} \cup DeinitLabels
                       /\ ctl = "idle" => Settled
  BY DEF AllOrNothing, Settled
<1>2. AllOrNothing' <=> /\ initialized' => ctl' \in {"idle"} \cup DeinitLabels
                        /\ ctl' = "idle" => Settled'
  BY DEF AllOrNothing, Settled
<1> USE <1>1, <1>2 DEF Settled, TakenDown, Stuck, BusType, BusTypeOK, Stages, InitLabels, DeinitLabels,
            resources, context
<1>3. CASE UNCHANGED <<resources, context, ctl>>
  BY <1>3
<1>4. CASE CreateLock
  BY <1>4 DEF CreateLock
<1>5. CASE BusInitialize
  BY <1>5 DEF BusInitialize, Forget
<1>6. CASE AddDevice
  BY <1>6 DEF AddDevice, Forget
<1>7. CASE RemoveDevice
  BY <1>7 DEF RemoveDevice
<1>8. CASE FreeBus
  BY <1>8 DEF FreeBus
<1>9. CASE DeleteLock
  BY <1>9 DEF DeleteLock
<1>10. CASE ClearContext
  BY <1>10 DEF ClearContext
<1>11. CASE Publish
  BY <1>11 DEF Publish
<1>. QED
  BY <1>3, <1>4, <1>5, <1>6, <1>7, <1>8, <1>9, <1>10, <1>11
  DEF BusNext, Control, Chip, Thread, busVars

(* An init that fails half-way leaves nothing behind, a deinit takes       *)
(* everything down, unless a call that takes down failed, and initialized  *)
(* is published last; whatever calls run meanwhile (spi.c:39-116).         *)
THEOREM AllOrNothingHolds == BusSpec => []AllOrNothing
<1>1. BusInit => Stages
  BY DEF BusInit, Stages, AllOrNothing, InitLabels, DeinitLabels
<1>2. Stages => AllOrNothing
  BY DEF Stages
<1>. QED
  BY <1>1, <1>2, TypeInit, TypeKept, StagesKept, PTL DEF BusSpec

(* Deinit and calls keep apart, when the caller of deinit sees to it.      *)
Apart ==
  /\ QuietDeinit
  /\ \A t \in Threads : pc[t] \in {"lock"} \cup OnBus => initialized

LEMMA ApartKept == BusType /\ Apart /\ [QuietNext]_busVars => Apart'
<1> SUFFICES ASSUME BusType, Apart, [QuietNext]_busVars PROVE Apart'
  OBVIOUS
<1>. pc \in [Threads -> BusLabels]
  BY DEF BusType, BusTypeOK
<1> USE DEF Apart, QuietDeinit, Quiet, DeinitLabels, OnBus
<1>1. CASE UNCHANGED <<ctl, pc, initialized>>
  BY <1>1
<1>2. CASE Control
  <2>1. pc' = pc
    BY <1>2 DEF Control, calls
  <2>2. QuietDeinit'
    BY DEF QuietNext, busVars, calls
  <2>3. CASE ClearContext
    BY <2>1, <2>2, <2>3 DEF ClearContext
  <2>. QED
    BY <1>2, <2>1, <2>2, <2>3 DEF Control, CreateLock, BusInitialize, AddDevice, Publish,
       RemoveDevice, FreeBus, DeleteLock, context
<1>3. ASSUME NEW t \in Threads, Thread(t), QuietDeinit' PROVE Apart'
  <2>1. initialized' = initialized /\ \A u \in Threads \ {t} : pc'[u] = pc[u]
    BY <1>3 DEF Thread, context, Ask, Attempt, InCall, Test, TakeLock, LockFails, Alloc,
       High, Low, TransmitFails, Done, ReadAgain, Unstable, Return, Goto
  <2>2. pc'[t] \in {"lock"} \cup OnBus => initialized
    BY <1>3 DEF Thread, Ask, Attempt, InCall, Test, TakeLock, LockFails, Alloc,
       High, Low, TransmitFails, Done, ReadAgain, Unstable, Release, Return, Goto, BusLabels
  <2>. QED
    BY <1>3, <2>1, <2>2
<1>. QED
  BY <1>1, <1>2, <1>3 DEF QuietNext, BusNext, Chip, busVars, calls, context

-----------------------------------------------------------------------------
(* The lock, as long as deinit is quiet: its holder is the thread on the   *)
(* bus, and the only one with buffers.                                     *)
LockInv ==
  \A t \in Threads : /\ owner = t <=> pc[t] \in OnBus
                     /\ pc[t] \notin OnBus => bufs[t] = {}

LEMMA LockKept ==
  BusType /\ Stages /\ Apart /\ LockInv /\ [BusNext]_busVars => LockInv'
<1> SUFFICES ASSUME BusType, Stages, Apart, LockInv, [BusNext]_busVars PROVE LockInv'
  OBVIOUS
<1>. /\ pc \in [Threads -> BusLabels] /\ bufs \in [Threads -> SUBSET {"tx", "rx"}]
  BY DEF BusType, BusTypeOK
<1>1. CASE UNCHANGED <<owner, pc, bufs>>
  BY <1>1 DEF LockInv
<1>2. ASSUME NEW t \in Threads, Thread(t) PROVE LockInv'
  <2> USE DEF LockInv, OnBus, BusLabels, Goto
  <2>1. CASE Ask(t) \/ Test(t) \/ LockFails(t) \/ Return(t)
    BY <1>2, <2>1 DEF Ask, Attempt, Test, LockFails, Return
  <2>2. CASE TakeLock(t)
    <3>1. lock_live
      BY <2>2 DEF TakeLock, Stages, AllOrNothing, InitLabels, DeinitLabels, Apart,
         QuietDeinit, Quiet, BusType, BusTypeOK
    <3>. QED
      BY <2>2, <3>1 DEF TakeLock
  <2>3. CASE Alloc(t)
    <3>1. PICK got \in SUBSET {"tx", "rx"}, label \in {"hi", "free"} :
            bufs' = [bufs EXCEPT ![t] = got] /\ pc' = [pc EXCEPT ![t] = label]
      BY <2>3 DEF Alloc, Buffers
    <3>2. pc[t] = "alloc" /\ owner' = owner
      BY <2>3 DEF Alloc
    <3>. QED
      BY <3>1, <3>2
  <2>4. CASE High(t) \/ Low(t) \/ TransmitFails(t)
    BY <2>4 DEF High, Low, TransmitFails
  <2>5. CASE Done(t) \/ ReadAgain(t) \/ Unstable(t)
    <3>1. /\ owner = t /\ owner' = None /\ bufs' = [bufs EXCEPT ![t] = {}]
      BY <2>5 DEF Done, ReadAgain, Unstable, Release
    <3>2. PICK label \in {"ret", "test"} : pc' = [pc EXCEPT ![t] = label]
      BY <2>5 DEF Done, ReadAgain, Unstable, Attempt
    <3>. QED
      BY <3>1, <3>2
  <2>. QED
    BY <1>2, <2>1, <2>2, <2>3, <2>4, <2>5 DEF Thread, InCall
<1>3. CASE Control
  <2>1. owner' \in {owner, None} /\ UNCHANGED <<pc, bufs>>
    BY <1>3 DEF Control, CreateLock, BusInitialize, AddDevice, Publish, RemoveDevice,
       FreeBus, DeleteLock, ClearContext, calls
  <2>2. CASE owner' = owner
    BY <1>1, <2>1, <2>2
  <2>3. CASE owner' # owner
    <3>1. \A t \in Threads : pc[t] \notin OnBus
      BY <1>3, <2>3 DEF Control, CreateLock, BusInitialize, AddDevice, Publish,
         RemoveDevice, FreeBus, DeleteLock, ClearContext, Apart
    <3>. QED
      BY <2>1, <2>3, <3>1 DEF LockInv
  <2>. QED
    BY <2>2, <2>3
<1>. QED
  BY <1>1, <1>2, <1>3 DEF BusNext, Chip, busVars, calls

LEMMA LockInit == BusInit => LockInv
<1>1. ASSUME BusInit, NEW t \in Threads
      PROVE  owner # t /\ pc[t] = "idle" /\ bufs[t] = {}
  <2>1. owner = None /\ None # t
    BY <1>1 DEF BusInit
  <2>2. pc[t] = "idle" /\ bufs[t] = {}
    BY <1>1 DEF BusInit
  <2>. QED
    BY <2>1, <2>2
<1>. QED
  BY <1>1 DEF LockInv, OnBus

QuietInv == BusType /\ Stages /\ Apart /\ LockInv

LEMMA QuietHolds == QuietSpec => []QuietInv
<1>1. BusInit => QuietInv
  BY TypeInit, LockInit DEF QuietInv, BusInit, Stages, AllOrNothing, InitLabels,
     DeinitLabels, Apart, QuietDeinit, OnBus
<1>2. [QuietNext]_busVars => [BusNext]_busVars
  BY DEF QuietNext
<1>3. QuietInv /\ [QuietNext]_busVars => QuietInv'
  BY <1>2, TypeKept, StagesKept, ApartKept, LockKept DEF QuietInv
<1>. QED
  BY <1>1, <1>3, PTL DEF QuietSpec

(* Two threads are never in a transaction at once, for any number of them, *)
(* as long as deinit is quiet (spi.c:19-37).                               *)
THEOREM OneOnTheBusHolds == QuietSpec => []OneOnTheBus
<1>1. QuietInv => OneOnTheBus
  BY DEF QuietInv, BusType, LockInv, OneOnTheBus
<1>. QED
  BY <1>1, QuietHolds, PTL

(* Whatever path a call takes, it keeps no buffer and no lock              *)
(* (spi.c:136-168 and 189-217).                                            *)
THEOREM NothingLeaksHolds == QuietSpec => []NothingLeaks
<1>1. QuietInv => NothingLeaks
  BY DEF QuietInv, LockInv, NothingLeaks
<1>. QED
  BY <1>1, QuietHolds, PTL

(* A step of a thread leaves the others as they were.                      *)
LEMMA OthersStay ==
  ASSUME BusType, NEW t \in Threads, Thread(t)
  PROVE  \A u \in Threads \ {t} :
           /\ pc'[u] = pc[u] /\ op'[u] = op[u] /\ word'[u] = word[u] /\ good'[u] = good[u]
           /\ first'[u] = first[u] /\ seen'[u] = seen[u]
<1>. /\ word \in [Threads -> Words] /\ seen \in [Threads -> SUBSET Words]
     /\ first \in [Threads -> Words \cup {None}] /\ op \in [Threads -> {"read", "write", "stable"}]
     /\ pc \in [Threads -> BusLabels] /\ good \in [Threads -> BOOLEAN]
  BY DEF BusType, BusTypeOK
<1>. QED
  BY DEF Thread, Ask, Attempt, InCall, Test, TakeLock, LockFails, Alloc, High, Low, Transfer,
     TransmitFails, Done, ReadAgain, Unstable, Release, Return, Goto, Outcome

-----------------------------------------------------------------------------
(* The stable read.  A reading takes its high byte from one value of the   *)
(* counter and its low byte from a later one.                              *)
Leq(v, w) == v = w \/ Below(v, w)

Torn(p, S) == \E v, w \in S : Leq(v, w) /\ p = <<v[1], w[2]>>

(* A first reading that a second one follows, whose high byte is the same  *)
(* or greater.                                                             *)
Follows(p, S, high) == \E v, w \in S : Leq(v, w) /\ p = <<v[1], w[2]>> /\ w[1] <= high

ReadReal(t) ==
  /\ count \in seen[t] /\ \A v \in seen[t] : Leq(v, count)
  /\ first[t] = None =>
       /\ pc[t] = "lo" => \E v \in seen[t] : v[1] = word[t][1]
       /\ pc[t] = "free" /\ good[t] => Torn(word[t], seen[t])
  /\ first[t] # None =>
       /\ pc[t] # "ret" => Torn(first[t], seen[t])
       /\ pc[t] = "lo" \/ (pc[t] = "free" /\ good[t])
            => Follows(first[t], seen[t], word[t][1])
  /\ pc[t] = "ret" /\ good[t] => word[t] \in seen[t]

ReadInv ==
  \A t \in Threads : /\ good[t] => pc[t] \in {"free", "ret"}
                     /\ Counting(t) => ReadReal(t)

LEMMA Order ==
  ASSUME NEW u \in Words, NEW v \in Words, NEW w \in Words
  PROVE  /\ Leq(u, u)
         /\ Leq(u, v) /\ Below(v, w) => Leq(u, w)
         /\ Leq(u, v) => u[1] <= v[1]
<1>1. ASSUME NEW p \in Words PROVE p[1] \in Nat /\ p[2] \in Nat /\ p = <<p[1], p[2]>>
  BY WordParts
<1>. HIDE BusAssumption
<1>2. Leq(u, u) /\ (Leq(u, v) => u[1] <= v[1])
  BY <1>1 DEF Leq, Below
<1>3. Leq(u, v) /\ Below(v, w) => Below(u, w)
  BY <1>1 DEF Leq, Below
<1>. QED
  BY <1>2, <1>3 DEF Leq

(* Two equal readings are no mixture.                                      *)
LEMMA EqualReadings ==
  ASSUME NEW S \in SUBSET Words, NEW p \in Words, Follows(p, S, p[1])
  PROVE  p \in S
<1>1. PICK v \in S, w \in S : Leq(v, w) /\ p = <<v[1], w[2]>> /\ w[1] <= p[1]
  BY DEF Follows
<1>2. v[1] \in Nat /\ w[1] \in Nat /\ w = <<w[1], w[2]>>
  BY WordParts
<1>3. v[1] <= w[1]
  BY <1>1, Order
<1>4. w[1] = v[1]
  BY <1>1, <1>2, <1>3
<1>. QED
  BY <1>1, <1>2, <1>4

LEMMA ChipReads == BusType /\ ReadInv /\ Chip => ReadInv'
<1> SUFFICES ASSUME BusType, ReadInv, Chip PROVE ReadInv'
  OBVIOUS
<1>. count \in Words /\ count' \in Words /\ seen \in [Threads -> SUBSET Words]
  BY DEF BusType, BusTypeOK, Chip
<1>1. UNCHANGED <<pc, op, word, good, first>>
  BY DEF Chip
<1>2. ASSUME NEW t \in Threads, Counting(t) PROVE ReadReal(t)'
  <2>1. Below(count, count') /\ seen'[t] = seen[t] \cup {count'}
    BY <1>2 DEF Chip
  <2>2. ReadReal(t)
    BY <1>2 DEF ReadInv
  <2>3. count' \in seen'[t] /\ \A v \in seen'[t] : Leq(v, count')
    BY <2>1, <2>2, Order DEF ReadReal
  <2>4. /\ \A p : Torn(p, seen[t]) => Torn(p, seen'[t])
        /\ \A p, b : Follows(p, seen[t], b) => Follows(p, seen'[t], b)
    BY <2>1 DEF Torn, Follows
  <2>. QED
    BY <1>1, <2>1, <2>2, <2>3, <2>4 DEF ReadReal
<1>. QED
  BY <1>1, <1>2 DEF ReadInv, Counting

LEMMA ThreadReads ==
  ASSUME BusType, ReadInv, NEW t \in Threads, Thread(t)
  PROVE  ReadInv'
<1> USE DEF Goto, Outcome
<1>. /\ word \in [Threads -> Words] /\ count \in Words /\ seen \in [Threads -> SUBSET Words]
     /\ first \in [Threads -> Words \cup {None}] /\ op \in [Threads -> {"read", "write", "stable"}]
     /\ pc \in [Threads -> BusLabels] /\ good \in [Threads -> BOOLEAN]
  BY DEF BusType, BusTypeOK
<1>. count' = count /\ ReadInv
  BY DEF Thread
<1>2. \A u \in Threads \ {t} :
        /\ good'[u] => pc'[u] \in {"free", "ret"}
        /\ Counting(u)' => ReadReal(u)'
  BY OthersStay DEF ReadInv, ReadReal, Counting
<1>3. (good'[t] => pc'[t] \in {"free", "ret"}) /\ (Counting(t)' => ReadReal(t)')
  <2>0. /\ good[t] => pc[t] \in {"free", "ret"}
        /\ Counting(t) => ReadReal(t)
    BY DEF ReadInv
  <2>1. CASE Ask(t)
    <3>1. seen'[t] = IF op'[t] = "stable" THEN {count} ELSE {}
      BY <2>1 DEF Ask, Attempt
    <3>2. pc'[t] = "test" /\ first'[t] = None /\ ~good'[t]
      BY <2>0, <2>1 DEF Ask, Attempt
    <3>. QED
      BY <3>1, <3>2, Order DEF ReadReal, Counting
  <2>2. CASE Test(t) \/ TakeLock(t) \/ LockFails(t) \/ Alloc(t) \/ TransmitFails(t)
    <3>1. /\ pc[t] \in {"test", "lock", "alloc", "hi"} /\ ~good'[t]
          /\ pc'[t] \in {"lock", "alloc", "hi", "free", "ret"}
          /\ UNCHANGED <<op, word, first, seen>>
      BY <2>0, <2>2 DEF Test, TakeLock, LockFails, Alloc, TransmitFails
    <3>. QED
      BY <2>0, <3>1 DEF ReadReal, Counting
  <2>3. CASE High(t)
    <3>1. pc[t] = "hi" /\ pc'[t] = "lo" /\ ~good'[t] /\ UNCHANGED <<op, first, seen>>
      BY <2>0, <2>3 DEF High
    <3>2. CASE op[t] = "stable"
      <4>1. word'[t][1] = count[1] /\ ReadReal(t)
        BY <2>0, <2>3, <3>1, <3>2 DEF High, Transfer, Register, Counting, Words
      <4>2. first[t] # None => Follows(first[t], seen[t], count[1])
        BY <3>1, <4>1, Order DEF ReadReal, Torn, Follows
      <4>. QED
        BY <3>1, <4>1, <4>2 DEF ReadReal, Counting
    <3>. QED
      BY <3>1, <3>2 DEF Counting
  <2>4. CASE Low(t)
    <3>1. pc[t] = "lo" /\ pc'[t] = "free" /\ UNCHANGED <<op, first, seen>>
      BY <2>4 DEF Low
    <3>2. CASE op[t] = "stable"
      <4>1. word'[t] = <<word[t][1], count[2]>> /\ ReadReal(t)
        <5>1. word'[t] = [word[t] EXCEPT ![2] = count[2]]
          BY <2>4, <3>2 DEF Low, Transfer, Register
        <5>2. count[2] \in Bytes /\ word[t] \in Words
          BY ByteReplaced
        <5>3. word'[t] = <<word[t][1], count[2]>>
          BY <5>1, <5>2, ByteReplaced
        <5>. QED
          BY <2>0, <3>1, <3>2, <5>3 DEF Counting
      <4>2. first[t] = None => Torn(word'[t], seen[t])
        BY <3>1, <4>1 DEF ReadReal, Torn
      <4>. QED
        BY <3>1, <4>1, <4>2 DEF ReadReal, Counting
    <3>. QED
      BY <3>1, <3>2 DEF Counting
  <2>5. CASE Done(t)
    <3>1. /\ pc[t] = "free" /\ pc'[t] = "ret" /\ UNCHANGED <<op, word, good, first, seen>>
          /\ good[t] => op[t] # "stable" \/ first[t] = word[t]
      BY <2>5 DEF Done, Release
    <3>2. ASSUME Counting(t), good[t] PROVE word[t] \in seen[t]
      <4>1. Follows(word[t], seen[t], word[t][1])
        BY <2>0, <3>1, <3>2 DEF ReadReal, Counting
      <4>. QED
        BY <4>1, EqualReadings
    <3>. QED
      BY <2>0, <3>1, <3>2 DEF ReadReal, Counting
  <2>6. CASE ReadAgain(t)
    BY <2>0, <2>6 DEF ReadAgain, Release, ReadReal, Counting
  <2>7. CASE Unstable(t)
    <3>1. pc[t] = "free" /\ op[t] = "stable" /\ ~good'[t] /\ op' = op
      BY <2>7 DEF Unstable, Release
    <3>2. CASE tries[t] + 1 < MaxTries
      <4>1. seen'[t] = {count} /\ first'[t] = None /\ pc'[t] = "test"
        BY <2>7, <3>1, <3>2 DEF Unstable, Attempt
      <4>. QED
        BY <3>1, <4>1, Order DEF ReadReal, Counting
    <3>3. CASE ~(tries[t] + 1 < MaxTries)
      BY <2>0, <2>7, <3>1, <3>3 DEF Unstable, ReadReal, Counting
    <3>. QED
      BY <3>2, <3>3
  <2>8. CASE Return(t)
    BY <2>8 DEF Return, Counting
  <2>. QED
    BY <2>1, <2>2, <2>3, <2>4, <2>5, <2>6, <2>7, <2>8 DEF Thread, InCall
<1>. QED
  BY <1>2, <1>3 DEF ReadInv

LEMMA ReadKept == BusType /\ ReadInv /\ [BusNext]_busVars => ReadInv'
<1>1. ReadInv /\ UNCHANGED <<count, calls>> => ReadInv'
  BY DEF ReadInv, ReadReal, Counting, calls
<1>. QED
  BY <1>1, ChipReads, ThreadReads DEF BusNext, busVars, Control

(* Two equal readings give a value that the counter had during the call,   *)
(* however fast it goes up and whatever the width of a byte                *)
(* (regs.c:199-256).                                                       *)
THEOREM StableIsRealHolds == QuietSpec => []StableIsReal
<1>1. BusInit => ReadInv
  BY DEF BusInit, ReadInv, Counting
<1>2. ReadInv => StableIsReal
  BY DEF ReadInv, StableIsReal, ReadReal, Counting
<1>3. [QuietNext]_busVars => [BusNext]_busVars
  BY DEF QuietNext
<1>. QED
  BY <1>1, <1>2, <1>3, TypeInit, TypeKept, ReadKept, PTL DEF QuietSpec

-----------------------------------------------------------------------------
(* Registers are atomic.  What is halfway written or read agrees with the  *)
(* register in its high byte, since its thread has the bus for itself.     *)
HighAgrees ==
  \A t \in Threads : pc[t] = "lo" /\ op[t] # "stable" => word[t][1] = reg[1]

FileIs ==
  /\ \A t \in Threads : Halfway(t) => TheFile = word[t]
  /\ \A t \in Threads : pc[t] \in OnBus /\ ~Halfway(t) => TheFile = reg

LEMMA FileValue == OneOnTheBus => FileIs
<1> SUFFICES ASSUME OneOnTheBus PROVE FileIs
  OBVIOUS
<1>1. ASSUME NEW t \in Threads, NEW u \in Threads, Halfway(t), pc[u] \in OnBus PROVE u = t
  BY <1>1 DEF OneOnTheBus, Halfway, OnBus
<1>2. ASSUME NEW t \in Threads, Halfway(t) PROVE TheFile = word[t]
  <2>1. Halfway(CHOOSE u \in Threads : Halfway(u)) /\ (CHOOSE u \in Threads : Halfway(u)) \in Threads
    BY <1>2
  <2>2. (CHOOSE u \in Threads : Halfway(u)) = t
    BY <1>1, <1>2, <2>1 DEF Halfway, OnBus
  <2>. QED
    BY <1>2, <2>2 DEF TheFile
<1>3. ASSUME NEW t \in Threads, pc[t] \in OnBus, ~Halfway(t) PROVE TheFile = reg
  <2>1. ~\E u \in Threads : Halfway(u)
    BY <1>1, <1>3
  <2>. QED
    BY <2>1 DEF TheFile
<1>. QED
  BY <1>2, <1>3 DEF FileIs

LEMMA HighAgreesKept ==
  BusType /\ LockInv /\ HighAgrees /\ [BusNext]_busVars => HighAgrees'
<1> SUFFICES ASSUME BusType, LockInv, HighAgrees, [BusNext]_busVars PROVE HighAgrees'
  OBVIOUS
<1>. /\ word \in [Threads -> Words] /\ reg \in Words
     /\ op \in [Threads -> {"read", "write", "stable"}] /\ pc \in [Threads -> BusLabels]
  BY DEF BusType, BusTypeOK
<1>1. CASE UNCHANGED <<reg, pc, op, word>>
  BY <1>1 DEF HighAgrees
<1>2. ASSUME NEW t \in Threads, Thread(t) PROVE HighAgrees'
  <2>1. CASE High(t)
    <3>1. \A u \in Threads \ {t} : pc'[u] # "lo"
      BY <1>2, <2>1, OthersStay DEF High, LockInv, OnBus
    <3>2. op'[t] # "stable" => word'[t][1] = reg'[1]
      <4>1. CASE op[t] = "write"
        <5>1. word' = word /\ reg' = [reg EXCEPT ![1] = word[t][1]]
          BY <2>1, <4>1 DEF High, Transfer
        <5>2. word[t] \in Words /\ word[t][1] \in Bytes
          BY ByteReplaced
        <5>3. reg' = <<word[t][1], reg[2]>>
          BY <5>1, <5>2, ByteReplaced
        <5>. QED
          BY <5>1, <5>3
      <4>2. CASE op[t] = "read"
        <5>1. word'[t] = [word[t] EXCEPT ![1] = reg[1]] /\ reg' = reg
          BY <2>1, <4>2 DEF High, Transfer, Register
        <5>2. word[t] \in Words /\ reg[1] \in Bytes
          BY ByteReplaced
        <5>3. word'[t] = <<reg[1], word[t][2]>>
          BY <5>1, <5>2, ByteReplaced
        <5>. QED
          BY <5>1, <5>3
      <4>. QED
        BY <2>1, <4>1, <4>2 DEF High
    <3>. QED
      BY <3>1, <3>2 DEF HighAgrees
  <2>2. CASE Low(t)
    <3>1. owner = t /\ pc'[t] = "free"
      BY <1>2, <2>2 DEF Low, LockInv, OnBus, Goto
    <3>2. \A u \in Threads \ {t} : pc'[u] # "lo"
      BY <1>2, <3>1, OthersStay DEF LockInv, OnBus
    <3>. QED
      BY <3>1, <3>2 DEF HighAgrees
  <2>3. CASE ~High(t) /\ ~Low(t)
    <3>1. reg' = reg /\ pc'[t] # "lo"
      BY <1>2, <2>3 DEF Thread, Ask, Attempt, InCall, Test, TakeLock, LockFails, Alloc,
         TransmitFails, Done, ReadAgain, Unstable, Release, Return, Goto
    <3>. QED
      BY <1>2, <3>1, OthersStay DEF HighAgrees
  <2>. QED
    BY <2>1, <2>2, <2>3
<1>. QED
  BY <1>1, <1>2 DEF BusNext, Control, Chip, busVars, calls

FileVars == <<TheFile, Requests, Answers>>

LEMMA FileFrame ==
  ASSUME BusType, NEW t \in Threads, Thread(t)
  PROVE  /\ Requests' = [Requests EXCEPT ![t] = Requests'[t]]
         /\ Answers' = [Answers EXCEPT ![t] = Answers'[t]]
         /\ Requests'[t] = Requests[t] => Requests' = Requests
         /\ Answers'[t] = Answers[t] => Answers' = Answers
<1>1. ASSUME NEW u \in Threads \ {t}
      PROVE  Requests'[u] = Requests[u] /\ Answers'[u] = Answers[u]
  <2>1. pc'[u] = pc[u] /\ op'[u] = op[u] /\ word'[u] = word[u] /\ good'[u] = good[u]
    BY OthersStay
  <2>2. (Plain(u)' <=> Plain(u)) /\ Result(u)' = Result(u)
    BY <2>1 DEF Plain, Result, Halfway
  <2>. QED
    BY <2>1, <2>2 DEF Requests, Answers
<1>2. /\ Requests = [u \in Threads |-> Requests[u]] /\ Requests' = [u \in Threads |-> Requests'[u]]
      /\ Answers = [u \in Threads |-> Answers[u]] /\ Answers' = [u \in Threads |-> Answers'[u]]
  BY DEF Requests, Answers
<1>3. /\ Requests' = [Requests EXCEPT ![t] = Requests'[t]]
      /\ Requests'[t] = Requests[t] => Requests' = Requests
  BY <1>1, <1>2
<1>4. /\ Answers' = [Answers EXCEPT ![t] = Answers'[t]]
      /\ Answers'[t] = Answers[t] => Answers' = Answers
  BY <1>1, <1>2
<1>. QED
  BY <1>3, <1>4

LEMMA FileStays ==
  ASSUME BusType, OneOnTheBus, OneOnTheBus', NEW t \in Threads, Thread(t), ~High(t), ~Low(t)
  PROVE  TheFile' = TheFile
<1>1. FileIs /\ FileIs'
  BY FileValue, PTL
<1>2. reg' = reg /\ ~Halfway(t)' /\ ~Halfway(t)
  BY DEF Halfway, BusType, BusTypeOK, Thread, Ask, Attempt, InCall, Test, TakeLock, LockFails,
     Alloc, TransmitFails, Done, ReadAgain, Unstable, Release, Return, Goto
<1>3. \A u \in Threads : Halfway(u)' <=> Halfway(u)
  BY <1>2, OthersStay DEF Halfway
<1>4. CASE \E u \in Threads : Halfway(u)
  <2>1. PICK u \in Threads \ {t} : Halfway(u)
    BY <1>2, <1>4
  <2>2. TheFile = word[u] /\ TheFile' = word'[u]
    BY <1>1, <1>3, <2>1 DEF FileIs
  <2>. QED
    BY <2>1, <2>2, OthersStay
<1>5. CASE ~\E u \in Threads : Halfway(u)
  BY <1>2, <1>3, <1>5 DEF TheFile
<1>. QED
  BY <1>4, <1>5

(* Each step of a thread is a step of the file, or none.                   *)
LEMMA FileThread ==
  ASSUME BusType, OneOnTheBus, OneOnTheBus', ReadInv, HighAgrees, NEW t \in Threads, Thread(t)
  PROVE  File!Next \/ UNCHANGED FileVars
<1>. /\ word \in [Threads -> Words] /\ reg \in Words
     /\ op \in [Threads -> {"read", "write", "stable"}] /\ pc \in [Threads -> BusLabels]
     /\ good \in [Threads -> BOOLEAN]
  BY DEF BusType, BusTypeOK
<1>. good[t] => pc[t] \in {"free", "ret"}
  BY DEF ReadInv
<1> USE DEF FileVars, Goto, Outcome
<1>0. /\ Requests[t] = IF ~Plain(t) THEN None
                       ELSE IF op[t] = "write" THEN <<"write", word[t]>> ELSE <<"read">>
      /\ Requests'[t] = IF ~Plain(t)' THEN None
                        ELSE IF op'[t] = "write" THEN <<"write", word'[t]>> ELSE <<"read">>
      /\ Answers[t] = IF Plain(t) THEN Result(t) ELSE None
      /\ Answers'[t] = IF Plain(t)' THEN Result(t)' ELSE None
  BY DEF Requests, Answers
<1>1. CASE Ask(t)
  <2>1. TheFile' = TheFile
    BY <1>1, FileStays DEF Ask, High, Low
  <2>2. pc[t] = "idle" /\ pc'[t] = "test" /\ word'[t] \in Words
    BY <1>1 DEF Ask, Attempt
  <2>3. Requests[t] = None /\ Answers[t] = None /\ Answers'[t] = None
    BY <1>0, <2>2 DEF Plain, Result, Halfway
  <2>4. Requests'[t] \in {None, <<"read">>} \cup {<<"write", w>> : w \in Words}
    BY <1>0, <2>2
  <2>5. CASE Requests'[t] = None
    BY <2>1, <2>3, <2>5, FileFrame
  <2>6. CASE Requests'[t] # None
    BY <2>1, <2>3, <2>4, <2>6, FileFrame DEF File!Next, File!Ask
  <2>. QED
    BY <2>5, <2>6
<1>2. CASE InCall(t) /\ op[t] = "stable"
  <2>1. ~Plain(t) /\ ~Plain(t)'
    BY <1>2 DEF Plain, InCall, Test, TakeLock, LockFails, Alloc, High, Low, TransmitFails,
       Done, ReadAgain, Unstable, Release, Return
  <2>2. CASE High(t) \/ Low(t)
    <3>1. pc[t] \in OnBus /\ pc'[t] \in OnBus /\ ~Halfway(t) /\ ~Halfway(t)' /\ reg' = reg
      BY <1>2, <2>2 DEF High, Low, OnBus, Halfway, Transfer
    <3>2. FileIs /\ FileIs'
      BY FileValue, PTL
    <3>. QED
      BY <1>0, <2>1, <3>1, <3>2, FileFrame DEF FileIs
  <2>3. CASE ~High(t) /\ ~Low(t)
    BY <1>0, <2>1, <2>3, FileFrame, FileStays
  <2>. QED
    BY <2>2, <2>3
<1>. DEFINE going == \/ Test(t) /\ initialized
                     \/ TakeLock(t)
                     \/ Alloc(t) /\ pc'[t] = "hi"
            failing == \/ Test(t) /\ ~initialized
                       \/ LockFails(t)
                       \/ Alloc(t) /\ pc'[t] = "free"
                       \/ TransmitFails(t)
<1>3. CASE op[t] # "stable" /\ (going \/ failing)
  <2>1. /\ ~good'[t] /\ op' = op /\ word' = word
        /\ pc[t] \in {"test", "lock", "alloc", "hi"}
        /\ pc'[t] \in {"lock", "alloc", "hi", "free", "ret"}
        /\ failing <=> pc'[t] \in {"free", "ret"}
    BY <1>3 DEF Test, TakeLock, LockFails, Alloc, TransmitFails
  <2>2. TheFile' = TheFile
    BY <1>3, FileStays DEF High, Low, Test, TakeLock, LockFails, Alloc, TransmitFails
  <2>3. Requests[t] # None /\ Requests'[t] = Requests[t] /\ Answers[t] = None
    BY <1>0, <1>3, <2>1 DEF Plain, Result, Halfway
  <2>4. CASE failing
    <3>1. Answers'[t] = <<"error">>
      BY <1>0, <1>3, <2>1, <2>4 DEF Plain, Result, Halfway
    <3>. QED
      BY <2>2, <2>3, <3>1, FileFrame DEF File!Next, File!Fail, File!Answer
  <2>5. CASE ~failing
    <3>1. Answers'[t] = None
      BY <1>0, <1>3, <2>1, <2>5 DEF Plain, Result, Halfway
    <3>. QED
      BY <2>2, <2>3, <3>1, FileFrame
  <2>. QED
    BY <2>4, <2>5
<1>4. CASE op[t] = "read" /\ (High(t) \/ Low(t))
  <2>1. /\ op' = op /\ reg' = reg /\ pc[t] \in OnBus /\ pc'[t] \in OnBus
        /\ ~Halfway(t) /\ ~Halfway(t)'
    BY <1>4 DEF High, Low, OnBus, Halfway, Transfer
  <2>2. TheFile = reg /\ TheFile' = reg
    <3>1. FileIs /\ FileIs'
      BY FileValue, PTL
    <3>. QED
      BY <2>1, <3>1 DEF FileIs
  <2>3. Requests[t] = <<"read">> /\ Requests'[t] = <<"read">> /\ Answers[t] = None
    BY <1>0, <1>4, <2>1 DEF High, Low, Plain, Result, Halfway
  <2>4. CASE High(t)
    <3>1. Answers'[t] = None
      BY <1>0, <1>4, <2>1, <2>4 DEF High, Result
    <3>. QED
      BY <2>2, <2>3, <3>1, FileFrame
  <2>5. CASE Low(t)
    <3>1. word'[t] = reg
      <4>1. word'[t] = [word[t] EXCEPT ![2] = reg[2]] /\ word[t][1] = reg[1]
        BY <1>4, <2>5 DEF Low, Transfer, Register, HighAgrees
      <4>2. word[t] \in Words /\ reg[2] \in Bytes
        BY ByteReplaced
      <4>3. word'[t] = <<word[t][1], reg[2]>>
        BY <4>1, <4>2, ByteReplaced
      <4>. QED
        BY <4>1, <4>3, WordParts
    <3>2. Answers'[t] = <<"read", reg>>
      BY <1>0, <1>4, <2>1, <2>5, <3>1 DEF Low, Plain, Result
    <3>. QED
      BY <2>2, <2>3, <3>2, FileFrame DEF File!Next, File!Read, File!Answer
  <2>. QED
    BY <1>4, <2>4, <2>5
<1>5. CASE op[t] = "write" /\ (High(t) \/ Low(t))
  <2>1. /\ op' = op /\ word' = word /\ pc[t] \in OnBus /\ pc'[t] \in OnBus
        /\ High(t) <=> Halfway(t)'
        /\ Low(t) <=> Halfway(t)
    BY <1>5 DEF High, Low, OnBus, Halfway, Transfer
  <2>2. FileIs /\ FileIs'
    BY FileValue, PTL
  <2>3. Requests[t] = <<"write", word[t]>> /\ Requests'[t] = Requests[t]
    BY <1>0, <1>5, <2>1 DEF High, Low, Plain
  <2>4. Answers'[t] = <<"written">> /\ (High(t) => Answers[t] = None)
                                    /\ (Low(t) => Answers[t] = <<"written">>)
    BY <1>0, <1>5, <2>1 DEF High, Low, Plain, Result, Halfway
  <2>5. CASE High(t)
    <3>1. TheFile' = word[t]
      BY <2>1, <2>2, <2>5 DEF FileIs
    <3>2. Requests' = Requests /\ Answers' = [Answers EXCEPT ![t] = <<"written">>]
      BY <2>3, <2>4, FileFrame
    <3>3. word[t] \in Words /\ Requests[t] # None /\ Answers[t] = None
      BY <2>3, <2>4, <2>5
    <3>4. File!Write(t)
      BY <2>3, <3>1, <3>2, <3>3 DEF File!Write, File!Answer
    <3>. QED
      BY <3>4 DEF File!Next
  <2>6. CASE Low(t)
    <3>1. reg' = word[t]
      <4>1. reg' = [reg EXCEPT ![2] = word[t][2]] /\ word[t][1] = reg[1]
        BY <1>5, <2>6 DEF Low, Transfer, HighAgrees
      <4>2. reg \in Words /\ word[t] \in Words /\ word[t][2] \in Bytes
        BY ByteReplaced
      <4>3. \A w \in Words, c \in Bytes : [w EXCEPT ![2] = c] = <<w[1], c>>
        BY ByteReplaced
      <4>4. [reg EXCEPT ![2] = word[t][2]] = <<reg[1], word[t][2]>>
        BY <4>2, <4>3
      <4>. QED
        BY <4>1, <4>2, <4>4, WordParts
    <3>2. TheFile = word[t] /\ TheFile' = word[t]
      BY <1>5, <2>1, <2>2, <2>6, <3>1 DEF FileIs, High, Low
    <3>. QED
      BY <2>3, <2>4, <2>6, <3>2, FileFrame
  <2>. QED
    BY <1>5, <2>5, <2>6
<1>6. CASE op[t] # "stable" /\ Done(t)
  <2>1. TheFile' = TheFile
    BY <1>6, FileStays DEF Done, Release, High, Low
  <2>2. /\ pc[t] = "free" /\ pc'[t] = "ret" /\ UNCHANGED <<op, word, good>>
    BY <1>6 DEF Done, Release
  <2>3. Requests'[t] = Requests[t] /\ Answers'[t] = Answers[t]
    BY <1>0, <1>6, <2>2 DEF Plain, Result, Halfway
  <2>. QED
    BY <2>1, <2>3, FileFrame
<1>7. CASE op[t] # "stable" /\ Return(t)
  <2>1. TheFile' = TheFile
    BY <1>7, FileStays DEF Return, High, Low
  <2>2. pc[t] = "ret" /\ pc'[t] = "idle"
    BY <1>7 DEF Return
  <2>3. Answers[t] # None /\ Requests'[t] = None /\ Answers'[t] = None
    BY <1>0, <1>7, <2>2 DEF Plain, Result, Halfway
  <2>. QED
    BY <2>1, <2>3, FileFrame DEF File!Next, File!Return
<1>8. (Alloc(t) => pc'[t] \in {"hi", "free"})
      /\ (ReadAgain(t) \/ Unstable(t) => op[t] = "stable")
  BY DEF Alloc, ReadAgain, Unstable
<1>. QED
  BY <1>1, <1>2, <1>3, <1>4, <1>5, <1>6, <1>7, <1>8 DEF Thread, InCall

(* The transport implements registers that are read and written as a       *)
(* whole, for any threads and any words, as long as deinit is quiet        *)
(* (spi.c:118-218).                                                        *)
THEOREM RegistersAreAtomic == QuietSpec => AtomicRegisters
<1>1. BusInit => File!Init
  <2> SUFFICES ASSUME BusInit PROVE File!Init
    OBVIOUS
  <2>1. TheFile = Blank
    BY DEF BusInit, TheFile, Halfway
  <2>. QED
    BY <2>1, BlankIsWord DEF BusInit, Requests, Answers, Plain, File!Init
<1>2. UNCHANGED <<pc, op, word, good, reg>> => UNCHANGED FileVars
  BY DEF FileVars, TheFile, Requests, Answers, Plain, Result, Halfway
<1>3. ASSUME BusType, LockInv, LockInv', ReadInv, HighAgrees, [BusNext]_busVars
      PROVE  [File!Next]_FileVars
  <2>1. OneOnTheBus /\ OneOnTheBus'
    BY <1>3 DEF LockInv, OneOnTheBus
  <2>. QED
    BY <1>2, <1>3, <2>1, FileThread DEF BusNext, Control, Chip, busVars, calls
<1>4. BusInit => ReadInv /\ HighAgrees
  BY DEF BusInit, ReadInv, Counting, HighAgrees
<1>5. [QuietNext]_busVars => [BusNext]_busVars
  BY DEF QuietNext
<1>6. QuietInv => BusType /\ LockInv
  BY DEF QuietInv
<1>7. QuietSpec => [](BusType /\ LockInv /\ ReadInv /\ HighAgrees)
  BY <1>4, <1>5, <1>6, QuietHolds, ReadKept, HighAgreesKept, PTL DEF QuietSpec
<1>. QED
  BY <1>1, <1>3, <1>5, <1>7, PTL DEF QuietSpec, AtomicRegisters, File!Spec, FileVars

=============================================================================

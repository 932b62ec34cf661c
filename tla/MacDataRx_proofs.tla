-------------------------- MODULE MacDataRx_proofs --------------------------
(***************************************************************************)
(* Proofs about reception on the data path, for every value of the         *)
(* constants: what the RX memory holds, and what is delivered from it.     *)
(***************************************************************************)
EXTENDS MacData_proofs, FiniteSetTheorems

(***************************************************************************)
(* A chip that takes a command before the next transaction, so that no     *)
(* SEND is written over a RECV; and a RECV command that is written and     *)
(* waited for without a failure: after one the code forgets the frame it   *)
(* has read, whose place is released, or not, with the next frame's.       *)
(***************************************************************************)
RecvReliable == ~SlowCommands /\ {"rcv_cmd", "rcv_wait"} \cap FaultAt = {}

(* The record of the frame in hand is released.                            *)
Released == {"rcv_cmd", "rcv_wait"}

(* A frame is being read.                                                  *)
Ahead == {"rcv_rd", "rcv_hdr", "rcv_pay", "rcv_wrd"} \cup Released

(***************************************************************************)
(* The records of the frames from number q on lie in the memory one behind *)
(* the other: pos[i] is where the record of frame i starts, counted from   *)
(* the opening of the socket and not cut to the pointer's width.           *)
(***************************************************************************)
Laid(q, pos, frames) ==
  /\ q \in 1 .. Len(frames) + 1
  /\ pos \in [1 .. Len(frames) + 1 -> Nat]
  /\ \A i \in q .. Len(frames) : pos[i + 1] = pos[i] + HdrLen + frames[i].len
  /\ \A i \in q .. Len(frames) : \A j \in i + 1 .. Len(frames) + 1 :
       pos[i] + HdrLen + frames[i].len <= pos[j]

(* The chip holds the records from number a on, each under its header.     *)
Stored(a, pos) ==
  /\ a \in 1 .. Len(arrived) + 1
  /\ rx_wr = pos[Len(arrived) + 1] % PtrMod
  /\ rx_ack = pos[a] % PtrMod
  /\ pos[Len(arrived) + 1] - pos[a] <= RxBufSize
  /\ \A i \in a .. Len(arrived) : rx_mem[pos[i] % RxBufSize] = arrived[i]

(* Where the RX task is in the record of frame q.                          *)
Reading(q, pos) ==
  /\ pc["rx"] \in Ahead => q <= Len(arrived)
  /\ rx_rd = pos[IF pc["rx"] \in Released THEN q + 1 ELSE q] % PtrMod
  /\ pc["rx"] \in {"rcv_hdr", "rcv_pay"} => rx_ptr = rx_rd
  /\ pc["rx"] = "rcv_pay" => rx_reclen = HdrLen + arrived[q].len
  /\ pc["rx"] = "rcv_wrd" => rx_ptr = pos[q + 1] % PtrMod
  /\ pc["rx"] \in {"rcv_wrd", "rcv_cmd", "rcv_wait"} => rx_frame = arrived[q]

(* Frame q is the next one to deliver.                                     *)
Stream(q, pos) ==
  Laid(q, pos, arrived) /\ Stored(q + InHand, pos) /\ Reading(q, pos)

(* The sizes, without the remainder in ChipAssumption, which the solver is *)
(* shown only where it is needed.                                          *)
LEMMA Sizes ==
  /\ HdrLen \in Nat \ {0} /\ HdrLen \in Nat /\ HdrLen > 0
  /\ PtrMod \in Nat \ {0} /\ PtrMod \in Nat
  /\ RxBufSize \in Nat \ {0} /\ RxBufSize \in Nat
  /\ RxBufSize < PtrMod
BY ChipAssumption

-----------------------------------------------------------------------------
(* Arithmetic of remainders.                                               *)
LEMMA DivMod ==
  ASSUME NEW m \in Nat \ {0}, NEW a \in Int
  PROVE  /\ a = m * (a \div m) + (a % m)
         /\ a % m \in 0 .. m - 1 /\ a \div m \in Int
OBVIOUS

LEMMA DivModUnique ==
  ASSUME NEW m \in Nat \ {0}, NEW d \in Int, NEW r \in 0 .. m - 1
  PROVE  (m * d + r) % m = r
OBVIOUS

LEMMA ModShift ==
  ASSUME NEW m \in Nat \ {0}, NEW d \in Int, NEW a \in Int
  PROVE  (m * d + a) % m = a % m
<1> DEFINE k == a \div m  r == a % m
<1>1. a = m * k + r /\ r \in 0 .. m - 1 /\ k \in Int
  BY DivMod
<1> HIDE DEF k, r
<1>2. m * d + a = m * (d + k) + r
  BY <1>1
<1>3. (m * (d + k) + r) % m = r
  BY <1>1, DivModUnique
<1>. QED
  BY <1>2, <1>3 DEF r

LEMMA ModInside ==
  ASSUME NEW m \in Nat \ {0}, NEW x \in Int, NEW k \in Int
  PROVE  ((x % m) + k) % m = (x + k) % m
<1> DEFINE d == x \div m  r == x % m
<1>1. x = m * d + r /\ r \in Int /\ d \in Int
  BY DivMod
<1> HIDE DEF d, r
<1> DEFINE u == r + k
<1>2. x + k = m * d + u /\ u \in Int
  BY <1>1
<1> HIDE DEF u
<1>3. (m * d + u) % m = u % m
  BY <1>1, <1>2, ModShift
<1>. QED
  BY <1>2, <1>3 DEF r, u

LEMMA ModDifference ==
  ASSUME NEW m \in Nat \ {0}, NEW x \in Int, NEW y \in Int
  PROVE  ((x % m) - (y % m)) % m = (x - y) % m
<1> DEFINE d == x \div m  r == x % m  e == y \div m  t == y % m
<1>1. /\ x = m * d + r /\ r \in Int /\ d \in Int
      /\ y = m * e + t /\ t \in Int /\ e \in Int
  BY DivMod
<1> HIDE DEF d, r, e, t
<1> DEFINE h == d - e  u == r - t
<1>2. x - y = m * h + u /\ h \in Int /\ u \in Int
  BY <1>1
<1> HIDE DEF h, u
<1>3. (m * h + u) % m = u % m
  BY <1>2, ModShift
<1>. QED
  BY <1>2, <1>3 DEF u, r, t

LEMMA ModMultiple ==
  ASSUME NEW m \in Nat \ {0}, NEW b \in Nat \ {0}, m % b = 0, NEW x \in Int
  PROVE  (x % m) % b = x % b
<1> DEFINE d == x \div m  r == x % m  w == m \div b
<1>1. x = m * d + r /\ r \in Int /\ d \in Int
  BY DivMod
<1>2. m = b * w /\ w \in Int
  BY DivMod
<1> HIDE DEF d, r, w
<1>3. m * d = b * (w * d) /\ w * d \in Int
  BY <1>1, <1>2
<1>4. (b * (w * d) + r) % b = r % b
  BY <1>1, <1>3, ModShift
<1>. QED
  BY <1>1, <1>3, <1>4 DEF r
-----------------------------------------------------------------------------
(* Indices of a sequence and of the end behind it.                         *)
LEMMA IndexInside ==
  ASSUME NEW n \in Nat, NEW q \in 1 .. n + 1, NEW i \in q .. n + 1, i # n + 1
  PROVE  /\ i \in q .. n /\ i \in 1 .. n /\ i \in 1 .. n + 1
         /\ i + 1 \in 1 .. n + 1 /\ n + 1 \in i + 1 .. n + 1
OBVIOUS

LEMMA IndexBehind ==
  ASSUME NEW n \in Nat, NEW q \in 1 .. n + 1, NEW i \in q .. n,
         NEW j \in i + 1 .. n + 2, j # n + 2
  PROVE  j \in i + 1 .. n + 1 /\ j \in 1 .. n + 1
OBVIOUS

(* What is pending is what lies between the first record that is not       *)
(* released and the end of the last one.                                   *)
LEMMA PendingIsHeld ==
  ASSUME NEW a, NEW pos, pos \in [1 .. Len(arrived) + 1 -> Nat],
         Len(arrived) \in Nat, Stored(a, pos),
         pos[a] <= pos[Len(arrived) + 1]
  PROVE  RxRsr = pos[Len(arrived) + 1] - pos[a]
<1> DEFINE x == pos[Len(arrived) + 1]  y == pos[a]
<1>1. x \in Nat /\ y \in Nat /\ y <= x /\ x - y < PtrMod
  <2>1. x \in Nat /\ y \in Nat /\ y <= x /\ x - y <= RxBufSize
    BY DEF Stored
  <2>. QED
    BY <2>1, Sizes
<1>2. rx_wr = x % PtrMod /\ rx_ack = y % PtrMod
  BY DEF Stored
<1> HIDE DEF x, y
<1>3. RxRsr = (x - y) % PtrMod
  <2>1. PtrMod \in Nat \ {0} /\ x \in Int /\ y \in Int
    BY <1>1, Sizes
  <2>2. ((x % PtrMod) - (y % PtrMod)) % PtrMod = (x - y) % PtrMod
    BY <2>1, ModDifference
  <2>. QED
    BY <1>2, <2>2 DEF RxRsr, Distance
<1>4. (x - y) % PtrMod = x - y
  BY <1>1, SmallRemainder
<1>. QED
  BY <1>3, <1>4 DEF x, y

LEMMA FrameLenFacts == \A f \in Frame : f.len \in Nat /\ f.len \in FrameLens
<1>1. \A f \in Frame : f.len \in FrameLens
  BY DEF Frame
<1>2. \A n \in FrameLens : n \in Nat
  BY ChipAssumption
<1>. QED
  BY <1>1, <1>2

LEMMA LaidGrows ==
  ASSUME NEW frames \in Seq(Frame), NEW q, NEW pos, Laid(q, pos, frames)
  PROVE  /\ \A i \in q .. Len(frames) : frames[i] \in Frame /\ frames[i].len \in Nat
         /\ \A i \in q .. Len(frames) :
              \A j \in i + 1 .. Len(frames) + 1 : pos[i] < pos[j]
<1>1. Len(frames) \in Nat
  OBVIOUS
<1>2. q \in 1 .. Len(frames) + 1 /\ pos \in [1 .. Len(frames) + 1 -> Nat]
  BY DEF Laid
<1>3. \A i \in q .. Len(frames) : frames[i] \in Frame /\ frames[i].len \in Nat
  BY <1>1, <1>2, FrameLenFacts
<1>4. ASSUME NEW i \in q .. Len(frames), NEW j \in i + 1 .. Len(frames) + 1
      PROVE  pos[i] < pos[j]
  <2>1. pos[i] + HdrLen + frames[i].len <= pos[j]
    BY DEF Laid
  <2>2. pos[i] \in Nat /\ pos[j] \in Nat /\ frames[i].len \in Nat
    BY <1>1, <1>2, <1>3
  <2>. QED
    BY <2>1, <2>2, Sizes
<1>. QED
  BY <1>3, <1>4

(* One more record, behind the last.                                       *)
LEMMA LaidExtended ==
  ASSUME NEW frames \in Seq(Frame), NEW q, NEW pos, Laid(q, pos, frames),
         NEW f \in Frame, NEW n, n = Len(frames),
         NEW pos2 \in [1 .. n + 2 -> Nat],
         \A i \in 1 .. n + 1 : pos2[i] = pos[i],
         pos2[n + 2] = pos[n + 1] + HdrLen + f.len
  PROVE  Laid(q, pos2, Append(frames, f))
<1> DEFINE more == Append(frames, f)
<1>1. n \in Nat /\ q \in 1 .. n + 1 /\ f.len \in Nat
  BY FrameLenFacts DEF Laid
<1>2. Len(more) = n + 1 /\ more[n + 1] = f /\ \A i \in 1 .. n : more[i] = frames[i]
  OBVIOUS
<1>3. \A i \in 1 .. n + 1 : pos[i] \in Nat
  BY DEF Laid
<1>4. \A i \in q .. n : pos[i + 1] = pos[i] + HdrLen + frames[i].len
  BY DEF Laid
<1>5. \A i \in q .. n : \A j \in i + 1 .. n + 1 :
        pos[i] + HdrLen + frames[i].len <= pos[j]
  BY DEF Laid
<1>6. \A i \in q .. n : frames[i].len \in Nat
  BY <1>1, LaidGrows
<1> HIDE DEF more
<1>7. ASSUME NEW i \in q .. n + 1
      PROVE  pos2[i + 1] = pos2[i] + HdrLen + more[i].len
  <2>1. CASE i = n + 1
    BY <1>1, <1>2, <2>1
  <2>2. CASE i # n + 1
    <3>1. i \in q .. n /\ i \in 1 .. n /\ i \in 1 .. n + 1 /\ i + 1 \in 1 .. n + 1
      BY <1>1, <2>2, IndexInside
    <3>. QED
      BY <1>2, <1>4, <3>1
  <2>. QED
    BY <2>1, <2>2
<1>8. ASSUME NEW i \in q .. n + 1, NEW j \in i + 1 .. n + 2
      PROVE  pos2[i] + HdrLen + more[i].len <= pos2[j]
  <2>1. CASE i = n + 1
    <3>1. j = n + 2
      BY <1>1, <2>1
    <3>2. pos2[i] = pos[n + 1] /\ pos[n + 1] \in Nat
      BY <1>1, <1>3, <2>1
    <3>. QED
      BY <1>1, <1>2, <2>1, <3>1, <3>2, Sizes
  <2>2. CASE i # n + 1
    <3>1. /\ i \in q .. n /\ i \in 1 .. n /\ i \in 1 .. n + 1
          /\ n + 1 \in i + 1 .. n + 1
      BY <1>1, <2>2, IndexInside
    <3>2. pos2[i] = pos[i] /\ more[i] = frames[i]
      BY <1>2, <3>1
    <3>3. CASE j = n + 2
      <4>1. n + 1 \in 1 .. n + 1
        BY <1>1
      <4>2. pos[i] + HdrLen + frames[i].len <= pos[n + 1]
        BY <1>5, <3>1
      <4>3. pos[i] \in Nat /\ pos[n + 1] \in Nat /\ frames[i].len \in Nat
        BY <1>3, <1>6, <3>1, <4>1
      <4>4. pos2[j] = pos[n + 1] + HdrLen + f.len
        BY <3>3
      <4>. QED
        <5> DEFINE a == pos[i]  l == frames[i].len  b == pos[n + 1]
        <5>1. a \in Nat /\ l \in Nat /\ b \in Nat /\ a + HdrLen + l <= b
          BY <4>2, <4>3
        <5> HIDE DEF a, l, b
        <5>2. a + HdrLen + l <= b + HdrLen + f.len
          BY <1>1, <5>1, Sizes
        <5>. QED
          BY <3>2, <4>4, <5>2 DEF a, l, b
    <3>4. CASE j # n + 2
      <4>1. j \in i + 1 .. n + 1 /\ j \in 1 .. n + 1
        BY <1>1, <3>1, <3>4, IndexBehind
      <4>. QED
        BY <1>5, <3>1, <3>2, <4>1
    <3>. QED
      BY <3>3, <3>4
  <2>. QED
    BY <2>1, <2>2
<1>9. (n + 1) + 1 = n + 2 /\ q \in 1 .. n + 2
  BY <1>1
<1>. QED
  BY <1>2, <1>7, <1>8, <1>9 DEF Laid, more

LEMMA StreamFacts ==
  ASSUME Typed, NEW q, NEW pos, Stream(q, pos)
  PROVE  /\ arrived \in Seq(Frame) /\ Len(arrived) \in Nat
         /\ q \in 1 .. Len(arrived) + 1
         /\ InHand \in {0, 1} /\ q + InHand \in q .. Len(arrived) + 1
         /\ RxRsr = pos[Len(arrived) + 1] - pos[q + InHand]
         /\ \A i \in 1 .. Len(arrived) + 1 : pos[i] \in Nat
         /\ \A i \in q .. Len(arrived) : arrived[i] \in Frame /\ arrived[i].len \in Nat
         /\ \A i \in q .. Len(arrived) :
              \A j \in i + 1 .. Len(arrived) + 1 : pos[i] < pos[j]
<1>1. arrived \in Seq(Frame) /\ Len(arrived) \in Nat /\ InHand \in {0, 1}
  BY DEF Typed, ChipTypeOK, InHand
<1>2. Laid(q, pos, arrived) /\ Stored(q + InHand, pos)
  BY DEF Stream
<1>3. q \in 1 .. Len(arrived) + 1 /\ \A i \in 1 .. Len(arrived) + 1 : pos[i] \in Nat
  BY <1>2 DEF Laid
<1>4. /\ \A i \in q .. Len(arrived) : arrived[i] \in Frame /\ arrived[i].len \in Nat
      /\ \A i \in q .. Len(arrived) :
           \A j \in i + 1 .. Len(arrived) + 1 : pos[i] < pos[j]
  BY <1>1, <1>2, LaidGrows
<1>5. q + InHand \in q .. Len(arrived) + 1
  BY <1>1, <1>2, <1>3 DEF Stored
<1>6. pos[q + InHand] <= pos[Len(arrived) + 1]
  <2>1. PICK n : n = Len(arrived)
    OBVIOUS
  <2>2. PICK a : a = q + InHand
    OBVIOUS
  <2>3. n \in Nat /\ q \in 1 .. n + 1 /\ a \in q .. n + 1 /\ pos[n + 1] \in Nat
    BY <1>1, <1>3, <1>5, <2>1, <2>2
  <2>4. CASE a = n + 1
    BY <2>1, <2>2, <2>3, <2>4
  <2>5. CASE a # n + 1
    <3>1. a \in q .. n /\ n + 1 \in a + 1 .. n + 1 /\ a \in 1 .. n + 1
      BY <2>3, <2>5, IndexInside
    <3>2. pos[a] < pos[n + 1] /\ pos[a] \in Nat
      BY <1>3, <1>4, <2>1, <3>1
    <3>. QED
      BY <2>1, <2>2, <2>3, <3>2
  <2>. QED
    BY <2>4, <2>5
<1>7. pos \in [1 .. Len(arrived) + 1 -> Nat]
  BY <1>2 DEF Laid
<1>8. RxRsr = pos[Len(arrived) + 1] - pos[q + InHand]
  BY <1>1, <1>2, <1>6, <1>7, PendingIsHeld
<1>. QED
  BY <1>1, <1>3, <1>4, <1>5, <1>8

(* A step that touches neither the memory nor the frame being read.        *)
LEMMA StreamUntouched ==
  ASSUME NEW q, NEW pos, Stream(q, pos), UNCHANGED <<rxStore, rx_rd>>,
         \/ /\ pc'["rx"] = pc["rx"] /\ UNCHANGED rxLocals
            /\ sn_cr = "RECV" <=> sn_cr' = "RECV"
         \/ pc["rx"] \notin Released /\ pc'["rx"] \notin Ahead
  PROVE  Stream(q, pos)'
<1>1. UNCHANGED <<rx_wr, rx_ack, rx_mem, arrived, rx_rd>>
  BY DEF rxStore
<1>2. InHand' = InHand
  BY DEF InHand, Ahead, Released
<1>3. Laid(q, pos, arrived)' /\ Stored(q + InHand, pos)'
  BY <1>1, <1>2 DEF Stream, Laid, Stored
<1>4. Reading(q, pos)'
  <2>1. CASE pc'["rx"] = pc["rx"] /\ UNCHANGED rxLocals
    BY <1>1, <2>1 DEF Stream, Reading, rxLocals
  <2>2. CASE pc["rx"] \notin Released /\ pc'["rx"] \notin Ahead
    BY <1>1, <2>2 DEF Stream, Reading, Ahead, Released
  <2>. QED
    BY <2>1, <2>2
<1>. QED
  BY <1>3, <1>4 DEF Stream

-----------------------------------------------------------------------------
(* A new record ends where an old one begins, or before: seen from the     *)
(* write pointer, the start p of a record that lies d before the end x is  *)
(* that much before one turn of the memory.                                *)
LEMMA TurnOfMemory ==
  ASSUME NEW p \in Nat, NEW x \in Nat, p < x, x - p < RxBufSize
  PROVE  ((p % RxBufSize) - (x % PtrMod)) % RxBufSize = RxBufSize - (x - p)
<1> DEFINE b == RxBufSize  w == x % PtrMod  k == -w
<1>1. /\ b \in Nat \ {0} /\ PtrMod \in Nat \ {0} /\ PtrMod % b = 0
      /\ p \in Int /\ x \in Int
  BY ChipAssumption
<1>2. w % b = x % b /\ w \in Int /\ k \in Int
  <2>1. w % b = x % b
    BY <1>1, ModMultiple
  <2>2. w \in Int
    BY <1>1, DivMod
  <2>. QED
    BY <2>1, <2>2
<1> HIDE DEF w, b
<1>3. ((p % b) + k) % b = (p + k) % b
  <2> HIDE DEF k
  <2>. QED
    BY <1>1, <1>2, ModInside
<1>4. (p - w) % b = ((p % b) - (w % b)) % b
  BY <1>1, <1>2, ModDifference
<1>5. ((p % b) - (x % b)) % b = (p - x) % b
  BY <1>1, ModDifference
<1>6. (p - x) % b = b - (x - p)
  <2>1. p - x = b * (-1) + (b - (x - p)) /\ b - (x - p) \in 0 .. b - 1
    BY <1>1 DEF b
  <2>. QED
    BY <1>1, <2>1, DivModUnique
<1>7. (p % b) + k = (p % b) - w /\ p + k = p - w
  BY <1>1, <1>2
<1>. QED
  BY <1>2, <1>3, <1>4, <1>5, <1>6, <1>7 DEF w, b

LEMMA TurnComplete ==
  ASSUME NEW at \in Int, NEW w \in Int, at = w % RxBufSize
  PROVE  (at - w) % RxBufSize = 0
<1> DEFINE d == w \div RxBufSize
<1>1. w = RxBufSize * d + at /\ d \in Int /\ RxBufSize \in Nat \ {0}
  BY Sizes, DivMod
<1> HIDE DEF d
<1>2. at - w = RxBufSize * (-d) + 0 /\ 0 \in 0 .. RxBufSize - 1 /\ -d \in Int
  BY <1>1
<1>. QED
  BY <1>1, <1>2, DivModUnique

(* An arriving frame goes behind the last one.                             *)
LEMMA ArrivalKeepsStream ==
  ASSUME Typed, NEW q, NEW pos, Stream(q, pos), FrameArrives,
         UNCHANGED <<pc, rxLocals>>
  PROVE  \E pos2 : Stream(q, pos2)'
<1>0. PICK n, a : n = Len(arrived) /\ a = q + InHand
  OBVIOUS
<1>1. n \in Nat /\ q \in 1 .. n + 1 /\ a \in q .. n + 1 /\ a \in 1 .. n + 1
  BY <1>0, StreamFacts
<1>2. RxRsr = pos[n + 1] - pos[a] /\ \A i \in 1 .. n + 1 : pos[i] \in Nat
  BY <1>0, StreamFacts
<1>3. \A i \in q .. n : \A j \in i + 1 .. n + 1 : pos[i] < pos[j]
  BY <1>0, StreamFacts
<1>4. rx_wr = pos[n + 1] % PtrMod /\ rx_ack = pos[a] % PtrMod
  BY <1>0 DEF Stream, Stored
<1>5. \A i \in a .. n : rx_mem[pos[i] % RxBufSize] = arrived[i]
  BY <1>0 DEF Stream, Stored
<1>6. PICK len \in FrameLens : FrameArrives!(len)
  BY DEF FrameArrives
<1>7. PICK f, rec, top :
        /\ f = [id |-> n + 1, len |-> len] /\ rec = HdrLen + len
        /\ top = pos[n + 1] + rec
  OBVIOUS
<1>8. /\ arrived' = Append(arrived, f) /\ n < MaxArrivals
      /\ RxRsr + HdrLen + len <= RxBufSize
      /\ rx_wr' = (rx_wr + HdrLen + len) % PtrMod
      /\ UNCHANGED <<rx_ack, rx_rd, sn_cr>>
  BY <1>0, <1>6, <1>7 DEF command
<1>9. \A at \in 0 .. RxBufSize - 1 :
        rx_mem'[at] = IF at = rx_wr % RxBufSize THEN f
                      ELSE IF (at - rx_wr) % RxBufSize < HdrLen + len THEN Bytes
                      ELSE rx_mem[at]
  BY <1>0, <1>6, <1>7
<1>10. f \in Frame /\ f.len = len /\ len \in Nat /\ rec \in Nat /\ rec > 0
  <2>1. n + 1 \in 1 .. MaxArrivals
    BY <1>1, <1>8, ChipAssumption
  <2>2. f \in Frame /\ f.len = len
    BY <1>6, <1>7, <2>1 DEF Frame
  <2>. QED
    BY <1>7, <2>2, FrameLenFacts, Sizes
<1>11. top \in Nat
  BY <1>1, <1>2, <1>7, <1>10
<1>12. PICK pos2 : pos2 = [i \in 1 .. n + 2 |-> IF i = n + 2 THEN top ELSE pos[i]]
  OBVIOUS
<1>20. pos2 \in [1 .. n + 2 -> Nat] /\ pos2[n + 2] = top
       /\ \A i \in 1 .. n + 1 : pos2[i] = pos[i]
  BY <1>1, <1>2, <1>11, <1>12
<1>21. RxRsr + rec <= RxBufSize /\ RxRsr \in Int
  <2>1. pos[n + 1] \in Int /\ pos[a] \in Int
    BY <1>1, <1>2
  <2>. QED
    BY <1>2, <1>7, <1>8, <1>10, <2>1, Sizes
<1>13. Len(arrived') = n + 1 /\ arrived'[n + 1] = f
       /\ \A i \in 1 .. n : arrived'[i] = arrived[i]
  BY <1>0, <1>8, StreamFacts
<1>14. InHand' = InHand
  BY <1>8 DEF InHand
<1>15. Laid(q, pos2, arrived)'
  <2>1. pos2[n + 2] = pos[n + 1] + HdrLen + f.len
    <3>1. pos[n + 1] \in Nat
      BY <1>1, <1>2
    <3>. QED
      BY <1>7, <1>10, <1>20, <3>1, Sizes
  <2>2. arrived \in Seq(Frame) /\ Laid(q, pos, arrived)
    BY StreamFacts DEF Stream
  <2>3. Laid(q, pos2, Append(arrived, f))
    BY <1>0, <1>10, <1>20, <2>1, <2>2, LaidExtended
  <2>. QED
    BY <1>8, <2>3
<1>16. Stored(a, pos2)'
  <2>1. rx_wr' = top % PtrMod
    <3>1. PICK x : x = pos[n + 1]
      OBVIOUS
    <3>2. x \in Int /\ rec \in Int
      BY <1>1, <1>2, <1>10, <3>1
    <3>3. rx_wr + HdrLen + len = (x % PtrMod) + rec
      <4>1. rx_wr \in Int
        BY PointerFacts DEF Typed, ChipTypeOK
      <4>. QED
        BY <1>4, <1>7, <1>10, <3>1, <4>1, Sizes
    <3>4. ((x % PtrMod) + rec) % PtrMod = (x + rec) % PtrMod
      BY <3>2, Sizes, ModInside
    <3>. QED
      BY <1>8, <1>7, <3>1, <3>3, <3>4
  <2>2. rx_ack' = pos2[a] % PtrMod
    BY <1>1, <1>4, <1>8, <1>20
  <2>3. pos2[n + 2] - pos2[a] <= RxBufSize
    <3>1. pos[a] \in Nat /\ pos[n + 1] \in Nat /\ pos2[a] = pos[a]
      BY <1>1, <1>2, <1>20
    <3>2. pos2[n + 2] - pos2[a] = RxRsr + rec
      BY <1>2, <1>10, <1>7, <1>20, <3>1
    <3>. QED
      BY <1>21, <3>2
  <2>4. ASSUME NEW i \in a .. n + 1
        PROVE  rx_mem'[pos2[i] % RxBufSize] = arrived'[i]
    <3>1. PICK p, x, at : p = pos[i] /\ x = pos[n + 1] /\ at = p % RxBufSize
      OBVIOUS
    <3>2. i \in 1 .. n + 1 /\ n + 1 \in 1 .. n + 1
      BY <1>1
    <3>3. p \in Nat /\ x \in Nat /\ pos2[i] = p
      BY <1>2, <1>20, <3>1, <3>2
    <3>4. at \in 0 .. RxBufSize - 1 /\ at \in Int
      <4>1. RxBufSize \in Nat \ {0} /\ p \in Int
        BY <3>3, Sizes
      <4>2. p % RxBufSize \in 0 .. RxBufSize - 1
        BY <4>1, DivMod
      <4>. QED
        BY <3>1, <4>1, <4>2
    <3>5. rx_wr = x % PtrMod /\ rx_wr \in Int
      BY <1>4, <3>1, PointerFacts DEF Typed, ChipTypeOK
    <3>6. CASE i = n + 1
      <4>1. /\ PtrMod % RxBufSize = 0 /\ x \in Int
            /\ PtrMod \in Nat \ {0} /\ RxBufSize \in Nat \ {0}
        <5>1. PtrMod % RxBufSize = 0
          BY ChipAssumption
        <5>. QED
          BY <3>3, <5>1, Sizes
      <4>2. (x % PtrMod) % RxBufSize = x % RxBufSize
        BY <4>1, ModMultiple
      <4>3. at = rx_wr % RxBufSize
        BY <3>1, <3>5, <3>6, <4>2
      <4>. QED
        BY <1>9, <1>13, <3>1, <3>3, <3>4, <3>6, <4>3
    <3>7. CASE i # n + 1
      <4>1. i \in q .. n /\ i \in a .. n /\ i \in 1 .. n /\ n + 1 \in i + 1 .. n + 1
        <5>1. i \in a .. n /\ i \in 1 .. n /\ n + 1 \in i + 1 .. n + 1
          BY <1>1, <3>7, IndexInside
        <5>. QED
          BY <1>1, <5>1
      <4>2. p < x
        BY <1>3, <3>1, <4>1
      <4>3. pos[a] \in Nat /\ pos[a] <= p
        <5>1. CASE i = a
          BY <3>1, <3>3, <5>1
        <5>2. CASE i # a
          <6>1. a \in q .. n /\ i \in a + 1 .. n + 1
            <7>1. a # n + 1 /\ i \in a + 1 .. n + 1
              BY <1>1, <4>1, <5>2
            <7>. QED
              BY <1>1, <7>1, IndexInside
          <6>2. pos[a] < p /\ pos[a] \in Nat
            BY <1>1, <1>2, <1>3, <3>1, <6>1
          <6>. QED
            BY <3>3, <6>2
        <5>. QED
          BY <5>1, <5>2
      <4>4. x - p + rec <= RxBufSize /\ x - p < RxBufSize /\ x - p > 0
        <5>1. x - pos[a] + rec <= RxBufSize
          BY <1>2, <1>21, <3>1
        <5>. QED
          BY <1>10, <3>3, <4>2, <4>3, <5>1, Sizes
      <4>5. PICK off : off = (at - rx_wr) % RxBufSize
        OBVIOUS
      <4>6. off = RxBufSize - (x - p)
        BY <3>1, <3>3, <3>5, <4>2, <4>4, <4>5, TurnOfMemory
      <4>7. off # 0 /\ ~(off < HdrLen + len)
        BY <1>7, <1>10, <3>3, <4>4, <4>6, Sizes
      <4>8. at # rx_wr % RxBufSize
        BY <3>4, <3>5, <4>5, <4>7, TurnComplete
      <4>9. rx_mem'[at] = rx_mem[at]
        BY <1>9, <3>4, <4>5, <4>7, <4>8
      <4>. QED
        BY <1>5, <1>13, <3>1, <3>3, <4>1, <4>9
    <3>. QED
      BY <3>6, <3>7
  <2>5. (n + 1) + 1 = n + 2 /\ a \in 1 .. n + 2
    BY <1>1
  <2>. QED
    BY <1>13, <1>20, <2>1, <2>2, <2>3, <2>4, <2>5 DEF Stored
<1>17. Reading(q, pos2)'
  <2>1. pc["rx"] \in Ahead => q \in 1 .. n /\ q + 1 \in 1 .. n + 1
    <3>1. pc["rx"] \in Ahead => q <= n
      BY <1>0 DEF Stream, Reading
    <3>. QED
      BY <1>1, <3>1
  <2>2. pos2[q] = pos[q] /\ (pc["rx"] \in Ahead => pos2[q + 1] = pos[q + 1])
    BY <1>1, <1>20, <2>1
  <2>3. UNCHANGED <<pc, rx_rd, rx_ptr, rx_reclen, rx_frame>>
    BY <1>8 DEF rxLocals
  <2>4. pc["rx"] \in Ahead => arrived'[q] = arrived[q] /\ q <= Len(arrived')
    BY <1>1, <1>13, <2>1
  <2>. QED
    BY <2>2, <2>3, <2>4 DEF Stream, Reading, Ahead, Released
<1>18. Stored(q + InHand, pos2)'
  BY <1>0, <1>14, <1>16
<1>. QED
  BY <1>15, <1>17, <1>18 DEF Stream

-----------------------------------------------------------------------------
(* Frame q is still to come, or has just been given to the stack.          *)
Advances(q, r) ==
  \/ r = q /\ UNCHANGED delivered
  \/ /\ r = q + 1 /\ q <= Len(arrived)
     /\ delivered' = Append(delivered, arrived[q])
     /\ UNCHANGED arrived

StreamKept(q) == \E r, pos : Stream(r, pos)' /\ Advances(q, r)

LEMMA StreamStays ==
  ASSUME NEW q, NEW pos, Stream(q, pos)', UNCHANGED delivered
  PROVE  StreamKept(q)
BY DEF StreamKept, Advances

(* The memory stays, and the task goes on to the next part of the record.  *)
LEMMA StreamRead ==
  ASSUME NEW q, NEW pos, Stream(q, pos), UNCHANGED <<rxStore, delivered>>,
         InHand' = InHand, Reading(q, pos)'
  PROVE  StreamKept(q)
<1>1. UNCHANGED <<rx_wr, rx_ack, rx_mem, arrived>>
  BY DEF rxStore
<1>2. Laid(q, pos, arrived)' /\ Stored(q + InHand, pos)'
  BY <1>1 DEF Stream, Laid, Stored
<1>. QED
  BY <1>2, StreamStays DEF Stream

(* The record behind the one in hand is the next.                          *)
LEMMA NextRecord ==
  ASSUME Typed, NEW q, NEW pos, Stream(q, pos), q <= Len(arrived)
  PROVE  /\ q + 1 \in 1 .. Len(arrived) + 1
         /\ pos[q] \in Nat /\ pos[q + 1] \in Nat
         /\ pos[q + 1] = pos[q] + HdrLen + arrived[q].len
         /\ arrived[q] \in Frame /\ arrived[q].len \in Nat
         /\ InHand = 0 => rx_mem[pos[q] % RxBufSize] = arrived[q]
         /\ Laid(q + 1, pos, arrived)
         /\ Stored(q, pos) => pos[Len(arrived) + 1] - pos[q + 1] <= RxBufSize
<1>1. PICK n : n = Len(arrived)
  OBVIOUS
<1>2. n \in Nat /\ q \in 1 .. n + 1 /\ q <= n
  BY <1>1, StreamFacts
<1>3. q \in q .. n /\ q + 1 \in 1 .. n + 1 /\ q + 1 \in 1 .. n + 1
      /\ \A i \in q + 1 .. n : i \in q .. n
  BY <1>2
<1>4. pos[q] \in Nat /\ pos[q + 1] \in Nat /\ pos[n + 1] \in Nat
  BY <1>1, <1>2, <1>3, StreamFacts
<1>5. arrived[q] \in Frame /\ arrived[q].len \in Nat
  BY <1>1, <1>3, StreamFacts
<1>6. pos[q + 1] = pos[q] + HdrLen + arrived[q].len
  BY <1>1, <1>3 DEF Stream, Laid
<1>7. InHand = 0 => rx_mem[pos[q] % RxBufSize] = arrived[q]
  <2> SUFFICES ASSUME InHand = 0 PROVE rx_mem[pos[q] % RxBufSize] = arrived[q]
    OBVIOUS
  <2>1. q + InHand = q
    BY <1>2
  <2>. QED
    BY <1>1, <1>3, <2>1 DEF Stream, Stored
<1>8. Laid(q + 1, pos, arrived)
  BY <1>1, <1>3 DEF Stream, Laid
<1>9. Stored(q, pos) => pos[n + 1] - pos[q + 1] <= RxBufSize
  <2>1. pos[q + 1] >= pos[q]
    BY <1>4, <1>5, <1>6, Sizes
  <2>2. Stored(q, pos) => pos[n + 1] - pos[q] <= RxBufSize
    BY <1>1 DEF Stored
  <2>. QED
    BY <1>4, <2>1, <2>2, Sizes
<1>. QED
  BY <1>1, <1>3, <1>4, <1>5, <1>6, <1>7, <1>8, <1>9

(* RECV releases the record that has been read.                            *)
LEMMA ReleaseKeepsStream ==
  ASSUME Typed, NEW q, NEW pos, Stream(q, pos), TakeRecv,
         pc["rx"] = "rcv_wait", UNCHANGED <<pc, rxLocals>>
  PROVE  Stream(q, pos)'
<1>1. q <= Len(arrived) /\ rx_rd = pos[q + 1] % PtrMod
  BY DEF Stream, Reading, Ahead, Released
<1>2. InHand = 0 /\ InHand' = 1
  BY DEF TakeRecv, InHand
<1>3. /\ UNCHANGED <<rx_wr, rx_mem, arrived, rx_rd>> /\ rx_ack' = rx_rd
  BY DEF TakeRecv
<1>4. Len(arrived) \in Nat /\ q \in 1 .. Len(arrived) + 1 /\ q + 0 = q
  BY StreamFacts
<1>5. Stored(q, pos)
  BY <1>2, <1>4 DEF Stream
<1>6. Laid(q, pos, arrived)'
  BY <1>3 DEF Stream, Laid
<1>7. Stored(q + 1, pos)'
  <2>1. \A i \in q + 1 .. Len(arrived) : i \in q .. Len(arrived)
    BY <1>4
  <2>. QED
    BY <1>1, <1>3, <1>5, <2>1, NextRecord DEF Stored
<1>8. Reading(q, pos)'
  BY <1>3 DEF Stream, Reading, rxLocals
<1>. QED
  BY <1>2, <1>6, <1>7, <1>8 DEF Stream

LEMMA ChipKeepsStream ==
  ASSUME Typed, RecvOwned, NEW q, NEW pos, Stream(q, pos), Chip
  PROVE  StreamKept(q)
<1>1. UNCHANGED <<pc, rxLocals, delivered>>
  BY DEF Chip, rxTask
<1>2. CASE FrameArrives
  BY <1>1, <1>2, ArrivalKeepsStream, StreamStays
<1>3. CASE TakeRecv
  <2>1. pc["rx"] = "rcv_wait"
    BY <1>3 DEF TakeRecv, RecvOwned
  <2>. QED
    BY <1>1, <1>3, <2>1, ReleaseKeepsStream, StreamStays
<1>4. CASE TakeSend \/ SendDone \/ OtherEvent
  <2>1. UNCHANGED <<rxStore, rx_rd>> /\ (sn_cr = "RECV" <=> sn_cr' = "RECV")
    BY <1>4 DEF TakeSend, SendDone, OtherEvent, command
  <2>. QED
    BY <1>1, <2>1, StreamUntouched, StreamStays
<1>. QED
  BY <1>2, <1>3, <1>4 DEF Chip, ChipStep

(* Interrupts and the sending thread do not touch reception.  A quick chip *)
(* has taken the RECV command before the thread writes its SEND command.   *)
ReceptionLeftAlone ==
  /\ UNCHANGED <<rxStore, rx_rd, rxLocals, delivered>>
  /\ pc'["rx"] = pc["rx"]
  /\ sn_cr = "RECV" <=> sn_cr' = "RECV"

LEMMA OthersLeaveReception ==
  ASSUME ~SlowCommands, PcFun, Wake \/ Tx \/ Send
  PROVE  ReceptionLeftAlone
<1>1. UNCHANGED <<rxLocals, delivered>>
  BY DEF Wake, Tx, Send, rxTask
<1>2. CASE Wake
  BY <1>1, <1>2 DEF Wake, AssertIntn, Isr, chip, command, ReceptionLeftAlone
<1>3. CASE Tx \/ Send
  <2>1. pc'["rx"] = pc["rx"]
    BY <1>3, TxStaysInCall DEF TxMoves
  <2>2. CASE UpdateTxCompletion("tx")
    <3>1. UNCHANGED <<rxStore, rx_rd, command>>
      BY <2>2 DEF UpdateTxCompletion, CompRead, CompNotify, CompClear,
         CompTimesOut, chip
    <3>. QED
      BY <1>1, <2>1, <3>1 DEF command, ReceptionLeftAlone
  <2>3. CASE \/ Transmit \/ TxReadSr \/ TxReadFsr \/ TxReadWr
             \/ TxWriteBuffer \/ TxWriteWr \/ TxDone \/ TxFails
    <3>1. UNCHANGED <<rxStore, rx_rd, command>>
      BY <2>3 DEF Transmit, TxReadSr, TxReadFsr, TxReadWr, TxWriteBuffer,
         TxWriteWr, TxDone, TxFails, chip
    <3>. QED
      BY <1>1, <2>1, <3>1 DEF command, ReceptionLeftAlone
  <2>4. CASE TxCommand
    BY <1>1, <2>1, <2>4 DEF TxCommand, At, ReceptionLeftAlone
  <2>. QED
    BY <1>3, <2>2, <2>3, <2>4 DEF Tx, Send, TxStep
<1>. QED
  BY <1>2, <1>3

LEMMA OthersKeepStream ==
  ASSUME NEW q, NEW pos, Stream(q, pos), ReceptionLeftAlone
  PROVE  StreamKept(q)
BY StreamUntouched, StreamStays DEF ReceptionLeftAlone

-----------------------------------------------------------------------------
(* The steps of the RX task outside the reading of a frame.                *)
LEMMA RestKeepsStream ==
  ASSUME NEW q, NEW pos, Stream(q, pos),
         pc["rx"] \notin Released, pc'["rx"] \notin Ahead,
         UNCHANGED <<rxStore, rx_rd, delivered>>
  PROVE  StreamKept(q)
BY StreamUntouched, StreamStays

LEMMA GivingUpKeepsStream ==
  ASSUME RecvReliable, PcFun, NEW q, NEW pos, Stream(q, pos), RxGivesUp
  PROVE  StreamKept(q)
<1>1. pc["rx"] \notin Released
  BY DEF RxGivesUp, Fails, At, RecvReliable, Released
<1>2. pc'["rx"] = "loop"
  BY GoMoves DEF RxGivesUp, Break, Threads
<1>3. UNCHANGED <<rxStore, rx_rd, delivered>>
  BY DEF RxGivesUp, Break, chip
<1>. QED
  BY <1>1, <1>2, <1>3, RestKeepsStream DEF Ahead, Released

(* A record is read only when one is there.                                *)
LEMMA RsrKeepsStream ==
  ASSUME Typed, NEW q, NEW pos, Stream(q, pos), RcvRsr
  PROVE  StreamKept(q)
<1>1. /\ pc["rx"] = "rcv_rsr" /\ UNCHANGED <<rxStore, rx_rd, delivered>>
      /\ pc["rx"] \notin Ahead
  BY DEF RcvRsr, At, Check, Break, chip, Ahead, Released
<1>2. CASE RxRsr >= HdrLen
  <2>1. pc'["rx"] = "rcv_rd"
    BY <1>2, GoMoves DEF RcvRsr, Check, Threads, Typed
  <2>2. InHand = 0 /\ InHand' = InHand
    BY <1>1, <2>1 DEF InHand
  <2>3. q <= Len(arrived)
    <3>1. PICK n : n = Len(arrived)
      OBVIOUS
    <3>2. n \in Nat /\ q \in 1 .. n + 1 /\ pos[n + 1] \in Nat
          /\ RxRsr = pos[n + 1] - pos[q]
      <4>1. n \in Nat /\ q \in 1 .. n + 1 /\ q + 0 = q
        BY <3>1, StreamFacts
      <4>2. n + 1 \in 1 .. n + 1
        BY <4>1
      <4>. QED
        BY <2>2, <3>1, <4>1, <4>2, StreamFacts
    <3>3. q # n + 1
      BY <1>2, <3>2, Sizes
    <3>. QED
      BY <3>1, <3>2, <3>3
  <2>4. Reading(q, pos)'
    <3>1. UNCHANGED <<arrived, rx_rd>>
      BY <1>1 DEF rxStore
    <3>. QED
      BY <1>1, <2>1, <2>3, <3>1 DEF Stream, Reading, Ahead, Released
  <2>. QED
    BY <1>1, <2>2, <2>4, StreamRead
<1>3. CASE ~(RxRsr >= HdrLen)
  <2>1. pc'["rx"] \in {"level", "loop"}
    BY <1>3, GoMoves DEF RcvRsr, Check, Break, Threads, Typed
  <2>. QED
    BY <1>1, <2>1, RestKeepsStream DEF Ahead, Released
<1>. QED
  BY <1>2, <1>3

(* The header that is read is that of frame q, wherever the memory wraps.  *)
LEMMA HeaderIsNext ==
  ASSUME Typed, NEW q, NEW pos, Stream(q, pos),
         pc["rx"] \in {"rcv_hdr", "rcv_pay"}
  PROVE  /\ q <= Len(arrived) /\ rx_ptr = pos[q] % PtrMod
         /\ rx_mem[rx_ptr % RxBufSize] = arrived[q]
         /\ arrived[q] # Bytes
<1>1. q <= Len(arrived) /\ rx_ptr = pos[q] % PtrMod /\ InHand = 0
  BY DEF Stream, Reading, Ahead, Released, InHand
<1>2. /\ pos[q] \in Nat /\ arrived[q] \in Frame
      /\ rx_mem[pos[q] % RxBufSize] = arrived[q]
  BY <1>1, NextRecord
<1>3. rx_ptr % RxBufSize = pos[q] % RxBufSize
  <2>1. PICK x : x = pos[q]
    OBVIOUS
  <2>2. /\ PtrMod % RxBufSize = 0 /\ x \in Int
        /\ PtrMod \in Nat \ {0} /\ RxBufSize \in Nat \ {0}
    <3>1. PtrMod % RxBufSize = 0
      BY ChipAssumption
    <3>. QED
      BY <1>2, <2>1, <3>1, Sizes
  <2>3. (x % PtrMod) % RxBufSize = x % RxBufSize
    BY <2>2, ModMultiple
  <2>. QED
    BY <1>1, <2>1, <2>3
<1>4. arrived[q] # Bytes
  <2>1. \A f \in Frame : f.id \in 1 .. MaxArrivals
    BY DEF Frame
  <2>2. Bytes.id = 0 /\ 0 \notin 1 .. MaxArrivals
    BY DEF Bytes
  <2>. QED
    BY <1>2, <2>1, <2>2
<1>. QED
  BY <1>1, <1>2, <1>3, <1>4

LEMMA HeaderKeepsStream ==
  ASSUME Typed, NEW q, NEW pos, Stream(q, pos), RcvHdr
  PROVE  StreamKept(q)
<1>1. /\ pc["rx"] = "rcv_hdr" /\ UNCHANGED <<rxStore, rx_rd, delivered>>
  BY DEF RcvHdr, At, Check, Break, chip
<1>2. q <= Len(arrived) /\ HeaderAt(rx_ptr) = {HdrLen + arrived[q].len}
  BY <1>1, HeaderIsNext DEF HeaderAt
<1>3. PICK len \in HeaderAt(rx_ptr) : RcvHdr!2!(len)
  BY DEF RcvHdr
<1>4. CASE GoodRecord(len)
  <2>1. pc'["rx"] = "rcv_pay"
    BY <1>3, <1>4, GoMoves DEF Check, Threads, Typed
  <2>2. InHand' = InHand
    BY <1>1, <2>1 DEF InHand
  <2>3. Reading(q, pos)'
    <3>1. rx_reclen' = HdrLen + arrived[q].len /\ UNCHANGED <<rx_ptr, arrived, rx_rd>>
      BY <1>1, <1>2, <1>3, <1>4 DEF rxStore
    <3>. QED
      BY <1>1, <2>1, <3>1 DEF Stream, Reading, Ahead, Released
  <2>. QED
    BY <1>1, <2>2, <2>3, StreamRead
<1>5. CASE ~GoodRecord(len)
  <2>1. pc'["rx"] = "loop"
    BY <1>3, <1>5, GoMoves DEF Break, Threads, Typed
  <2>. QED
    BY <1>1, <2>1, RestKeepsStream DEF Ahead, Released
<1>. QED
  BY <1>4, <1>5

(* The payload is the frame, and its end the start of the next record.     *)
LEMMA PayloadKeepsStream ==
  ASSUME Typed, NEW q, NEW pos, Stream(q, pos), RcvPay
  PROVE  StreamKept(q)
<1>1. /\ pc["rx"] = "rcv_pay" /\ pc'["rx"] = "rcv_wrd"
      /\ UNCHANGED <<rxStore, rx_rd, delivered>>
  BY GoMoves DEF RcvPay, At, Check, Break, chip, Threads, Typed
<1>2. q <= Len(arrived) /\ rx_ptr = pos[q] % PtrMod
      /\ rx_mem[rx_ptr % RxBufSize] = arrived[q]
  BY <1>1, HeaderIsNext
<1>3. rx_reclen = HdrLen + arrived[q].len
  BY <1>1 DEF Stream, Reading
<1>4. PICK x, len : x = pos[q] /\ len = arrived[q].len
  OBVIOUS
<1>5. x \in Nat /\ len \in Nat /\ pos[q + 1] = x + HdrLen + len
  BY <1>2, <1>4, NextRecord
<1>6. rx_frame' = arrived[q]
  <2>1. rx_reclen - HdrLen = len
    BY <1>3, <1>4, <1>5, Sizes
  <2>. QED
    BY <1>2, <1>4, <2>1 DEF RcvPay, PayloadAt
<1>7. rx_ptr' = pos[q + 1] % PtrMod
  <2>1. PICK k : k = HdrLen + len
    OBVIOUS
  <2>2. k \in Int /\ x \in Int /\ PtrMod \in Nat \ {0} /\ x + HdrLen + len = x + k
    BY <1>5, <2>1, Sizes
  <2>3. ((x % PtrMod) + k) % PtrMod = (x + k) % PtrMod
    BY <2>2, ModInside
  <2>4. rx_ptr' = (rx_ptr + rx_reclen) % PtrMod
    BY DEF RcvPay
  <2>. QED
    BY <1>2, <1>3, <1>4, <1>5, <2>1, <2>2, <2>3, <2>4
<1>8. InHand' = InHand
  BY <1>1 DEF InHand
<1>9. Reading(q, pos)'
  <2>1. UNCHANGED <<arrived, rx_rd>>
    BY <1>1 DEF rxStore
  <2>. QED
    BY <1>1, <1>2, <1>6, <1>7, <2>1 DEF Stream, Reading, Ahead, Released
<1>. QED
  BY <1>1, <1>8, <1>9, StreamRead

LEMMA ReadKeepsStream ==
  ASSUME Typed, NEW q, NEW pos, Stream(q, pos),
         RcvRd \/ RcvWriteRd \/ RcvCommand
  PROVE  StreamKept(q)
<1>0. \A label : Go("rx", label) => pc'["rx"] = label
  BY GoMoves DEF Typed, Threads
<1>1. UNCHANGED <<rxStore, delivered>> /\ UNCHANGED arrived
  BY DEF RcvRd, RcvWriteRd, RcvCommand, Check, Break, chip, rxStore
<1>2. CASE RcvRd
  <2>1. /\ pc["rx"] = "rcv_rd" /\ pc'["rx"] = "rcv_hdr"
        /\ rx_ptr' = rx_rd /\ UNCHANGED rx_rd
    BY <1>0, <1>2 DEF RcvRd, At, Check, chip
  <2>2. Reading(q, pos)'
    BY <1>1, <2>1 DEF Stream, Reading, Ahead, Released
  <2>3. InHand' = InHand
    BY <2>1 DEF InHand
  <2>. QED
    BY <1>1, <2>2, <2>3, StreamRead
<1>3. CASE RcvWriteRd
  <2>1. /\ pc["rx"] = "rcv_wrd" /\ pc'["rx"] = "rcv_cmd"
        /\ rx_rd' = rx_ptr /\ UNCHANGED rx_frame
    BY <1>0, <1>3 DEF RcvWriteRd, At, Check
  <2>2. Reading(q, pos)'
    BY <1>1, <2>1 DEF Stream, Reading, Ahead, Released
  <2>3. InHand' = InHand
    BY <2>1 DEF InHand
  <2>. QED
    BY <1>1, <2>2, <2>3, StreamRead
<1>4. CASE RcvCommand
  <2>1. /\ pc["rx"] = "rcv_cmd" /\ pc'["rx"] = "rcv_wait" /\ sn_cr' = "RECV"
        /\ UNCHANGED <<rx_frame, rx_rd>>
    BY <1>0, <1>4 DEF RcvCommand, At, Check, rxLocals
  <2>2. Reading(q, pos)'
    BY <1>1, <2>1 DEF Stream, Reading, Ahead, Released
  <2>3. InHand' = InHand
    BY <2>1 DEF InHand
  <2>. QED
    BY <1>1, <2>2, <2>3, StreamRead
<1>. QED
  BY <1>2, <1>3, <1>4

(* The frame in hand is given to the stack, and the next one is q + 1.     *)
LEMMA DeliveryKeepsStream ==
  ASSUME Typed, NEW q, NEW pos, Stream(q, pos), RcvDone
  PROVE  StreamKept(q)
<1>1. /\ pc["rx"] = "rcv_wait" /\ pc'["rx"] = "drain" /\ sn_cr = "NONE"
      /\ UNCHANGED chip /\ delivered' = Append(delivered, rx_frame)
  BY GoMoves DEF RcvDone, Threads, Typed
<1>2. UNCHANGED <<rx_wr, rx_ack, rx_mem, arrived, rx_rd>>
  BY <1>1 DEF chip, rxStore
<1>3. InHand = 1 /\ InHand' = 0
  BY <1>1 DEF InHand
<1>4. /\ q <= Len(arrived) /\ rx_rd = pos[q + 1] % PtrMod
      /\ rx_frame = arrived[q] /\ Stored(q + 1, pos)
  BY <1>1, <1>3 DEF Stream, Reading, Ahead, Released
<1>5. q + 1 + 0 = q + 1
  BY <1>4, NextRecord
<1>6. Laid(q + 1, pos, arrived)'
  BY <1>2, <1>4, NextRecord DEF Laid
<1>7. Stored(q + 1 + InHand, pos)'
  BY <1>2, <1>3, <1>4, <1>5 DEF Stored
<1>8. Reading(q + 1, pos)'
  BY <1>1, <1>2, <1>4 DEF Reading, Ahead, Released
<1>9. Stream(q + 1, pos)'
  BY <1>6, <1>7, <1>8 DEF Stream
<1>10. Advances(q, q + 1)
  BY <1>1, <1>2, <1>4 DEF Advances
<1>. QED
  BY <1>9, <1>10 DEF StreamKept

LEMMA RxKeepsStream ==
  ASSUME RecvReliable, Typed, NEW q, NEW pos, Stream(q, pos), Rx
  PROVE  StreamKept(q)
<1>0. /\ PcFun /\ "rx" \in Threads
      /\ \A label : Go("rx", label) => pc'["rx"] = label
  BY GoMoves DEF Typed, Threads
<1>1. CASE ServiceInterrupts /\ UNCHANGED rxTask
  <2>1. UNCHANGED delivered
    BY <1>1 DEF rxTask
  <2>2. CASE UpdateTxCompletion("rx")
    <3>1. UNCHANGED <<rxStore, rx_rd>>
      BY <2>2 DEF UpdateTxCompletion, CompRead, CompNotify, CompClear,
         CompTimesOut, chip
    <3>2. pc["rx"] \notin Released /\ pc'["rx"] \notin Ahead
      BY <1>0, <2>2, CompKeepsWakeup
         DEF CompLabels, AfterComp, Ahead, Released
    <3>. QED
      BY <2>1, <3>1, <3>2, RestKeepsStream
  <2>3. CASE \/ SvcReadIr \/ SvcReadSir \/ SvcClearIr \/ SvcReadS0 \/ SvcConn
             \/ SvcTimesOut
    <3>1. pc["rx"] \in SvcLabels
      BY <2>3 DEF SvcReadIr, SvcReadSir, SvcClearIr, SvcReadS0, SvcConn,
         SvcTimesOut, Fails, At, SvcLabels
    <3>2. pc'["rx"] \in SvcLabels \cup {"comp", "clr_rd"}
      BY <1>0, <2>3 DEF SvcReadIr, SvcReadSir, SvcClearIr, SvcReadS0, SvcConn,
         SvcEnd, SvcTimesOut, SvcLabels
    <3>3. UNCHANGED <<rxStore, rx_rd>>
      BY <2>3 DEF SvcReadIr, SvcReadSir, SvcClearIr, SvcReadS0, SvcConn,
         SvcEnd, SvcTimesOut, chip
    <3>. QED
      BY <2>1, <3>1, <3>2, <3>3, RestKeepsStream DEF SvcLabels, Ahead, Released
  <2>. QED
    BY <1>1, <2>2, <2>3 DEF ServiceInterrupts
<1>2. CASE \/ Take \/ Woken \/ Inner \/ Loop \/ Level \/ ClearRecvRead
           \/ ClearRecvWrite \/ Drain \/ DrainRsr \/ RcvSr
  <2>1. pc["rx"] \notin Released /\ pc'["rx"] \notin Ahead
    BY <1>0, <1>2 DEF Take, Woken, Inner, Loop, Level, Branch, ClearRecvRead,
       ClearRecvWrite, Drain, DrainRsr, RcvSr, Check, Break, At, Ahead, Released
  <2>2. UNCHANGED <<rxStore, rx_rd, delivered>>
    BY <1>2 DEF Take, Woken, Inner, Loop, Level, Branch, ClearRecvRead,
       ClearRecvWrite, Drain, DrainRsr, RcvSr, Check, Break, chip, rxTask
  <2>. QED
    BY <2>1, <2>2, RestKeepsStream
<1>. QED
  BY <1>0, <1>1, <1>2, GivingUpKeepsStream, RsrKeepsStream, HeaderKeepsStream,
     PayloadKeepsStream, ReadKeepsStream, DeliveryKeepsStream DEF Rx, RxStep

(* Whatever happens, the records stay in line.                             *)
LEMMA NextKeepsStream ==
  ASSUME RecvReliable, Typed, RecvOwned, NEW q, NEW pos, Stream(q, pos), Next
  PROVE  StreamKept(q)
<1>1. CASE Wake \/ Tx \/ Send
  BY <1>1, OthersLeaveReception, OthersKeepStream DEF RecvReliable, Typed
<1>. QED
  BY <1>1, ChipKeepsStream, RxKeepsStream DEF Next

-----------------------------------------------------------------------------
(***************************************************************************)
(* Records is a fold, which is a recursive function over the sets of       *)
(* indices.  Its value is found by induction over the naturals, which is   *)
(* here the pigeonhole principle: moving every element of a set of small   *)
(* numbers by one would have to leave the set.                             *)
(***************************************************************************)
LEMMA Induction ==
  ASSUME NEW S \in SUBSET Nat, 0 \in S, \A n \in S : n + 1 \in S
  PROVE  S = Nat
<1> SUFFICES ASSUME NEW x \in Nat, x \notin S PROVE FALSE
  OBVIOUS
<1> DEFINE T == S \cap (0 .. x)
           f == [y \in T |-> y + 1]
<1>1. IsFiniteSet(T)
  <2>1. IsFiniteSet(0 .. x)
    BY FS_Interval
  <2>. QED
    BY <2>1, FS_Subset
<1>2. IsFiniteSet(T \ {0}) /\ Cardinality(T \ {0}) = Cardinality(T) - 1
  BY <1>1, FS_RemoveElement
<1>3. f \in [T -> T \ {0}]
  OBVIOUS
<1>4. Cardinality(T) \in Nat
  BY <1>1, FS_CardinalityType
<1>5. \E a, b \in T : a # b /\ f[a] = f[b]
  <2> HIDE DEF T, f
  <2>. QED
    BY <1>1, <1>2, <1>3, <1>4, FS_PigeonHole
<1>. QED
  BY <1>5

(* The sum of the records of s with the indices in t, one step of it.      *)
Sum(s, iter, t) ==
  IF t = {} THEN 0 ELSE iter[t \ {Max(t)}] + HdrLen + s[Max(t)].len

LEMMA RecordsUnfolded ==
  ASSUME NEW s
  PROVE  Records(s) =
           (CHOOSE iter : iter = [t \in SUBSET DOMAIN s |-> Sum(s, iter, t)])
             [DOMAIN s]
BY DEF Records, FoldLeft, MapThenFoldSet, Sum

LEMMA MaxIsLast ==
  ASSUME NEW m \in Nat, NEW t \in SUBSET (1 .. m + 1), m + 1 \in t
  PROVE  Max(t) = m + 1
<1>1. \A x \in t : x \in 1 .. m + 1
  OBVIOUS
<1>2. \A y \in t : m + 1 >= y
  BY <1>1
<1>3. \A x \in t : x >= m + 1 => x = m + 1
  BY <1>1
<1>4. Max(t) \in t /\ Max(t) >= m + 1
  BY <1>2 DEF Max
<1>. QED
  BY <1>3, <1>4

LEMMA SumExists ==
  ASSUME NEW s, NEW n \in Nat
  PROVE  \E iter : iter = [t \in SUBSET (1 .. n) |-> Sum(s, iter, t)]
<1> DEFINE S == {m \in Nat :
                  \E iter : iter = [t \in SUBSET (1 .. m) |-> Sum(s, iter, t)]}
<1>1. 0 \in S
  <2> DEFINE h == [t \in SUBSET (1 .. 0) |-> 0]
  <2>1. \A t \in SUBSET (1 .. 0) : Sum(s, h, t) = 0
    BY DEF Sum
  <2>2. h = [t \in SUBSET (1 .. 0) |-> Sum(s, h, t)]
    BY <2>1
  <2>. QED
    BY <2>2
<1>2. ASSUME NEW m \in S PROVE m + 1 \in S
  <2>1. PICK g : g = [t \in SUBSET (1 .. m) |-> Sum(s, g, t)]
    OBVIOUS
  <2>2. PICK h : h = [t \in SUBSET (1 .. m + 1) |->
                       IF m + 1 \in t
                         THEN g[t \ {m + 1}] + HdrLen + s[m + 1].len
                         ELSE g[t]]
    OBVIOUS
  <2>3. \A t \in SUBSET (1 .. m) :
          g[t] = Sum(s, g, t) /\ h[t] = g[t]
    BY <2>1, <2>2
  <2>4. ASSUME NEW t \in SUBSET (1 .. m + 1)
        PROVE  h[t] = Sum(s, h, t)
    <3>1. CASE m + 1 \in t
      <4>1. t \ {m + 1} \in SUBSET (1 .. m)
        OBVIOUS
      <4>2. h[t] = h[t \ {m + 1}] + HdrLen + s[m + 1].len
        BY <2>2, <2>3, <3>1, <4>1
      <4>3. Max(t) = m + 1 /\ t # {}
        BY <3>1, MaxIsLast
      <4>. QED
        BY <4>2, <4>3 DEF Sum
    <3>2. CASE m + 1 \notin t
      <4>1. t \in SUBSET (1 .. m) /\ t \ {Max(t)} \in SUBSET (1 .. m)
        <5>1. \A y \in 1 .. m + 1 : y # m + 1 => y \in 1 .. m
          OBVIOUS
        <5>. QED
          BY <3>2, <5>1
      <4>. QED
        BY <2>3, <4>1 DEF Sum
    <3>. QED
      BY <3>1, <3>2
  <2>5. h = [t \in SUBSET (1 .. m + 1) |-> Sum(s, h, t)]
    BY <2>2, <2>4
  <2>. QED
    BY <2>5
<1>3. S = Nat
  <2> HIDE DEF S
  <2>1. S \in SUBSET Nat
    BY DEF S
  <2>. QED
    BY <1>1, <1>2, <2>1, Induction
<1>. QED
  BY <1>3

(* The records of s end where their positions say.                         *)
LEMMA RecordsValue ==
  ASSUME NEW n \in Nat, NEW s, DOMAIN s = 1 .. n,
         NEW g, \A i \in 1 .. n + 1 : g[i] \in Nat,
         \A i \in 1 .. n : s[i].len \in Nat,
         \A i \in 1 .. n : g[i + 1] = g[i] + HdrLen + s[i].len
  PROVE  Records(s) = g[n + 1] - g[1]
<1>0. PICK h :
        h = CHOOSE iter : iter = [t \in SUBSET DOMAIN s |-> Sum(s, iter, t)]
  OBVIOUS
<1>1. h = [t \in SUBSET (1 .. n) |-> Sum(s, h, t)] /\ Records(s) = h[1 .. n]
  <2>1. \E iter : iter = [t \in SUBSET DOMAIN s |-> Sum(s, iter, t)]
    <3>1. \E iter : iter = [t \in SUBSET (1 .. n) |-> Sum(s, iter, t)]
      BY SumExists
    <3>2. 1 .. n = DOMAIN s
      OBVIOUS
    <3>. QED
      BY <3>1, <3>2, Zenon
  <2>2. h = [t \in SUBSET DOMAIN s |-> Sum(s, h, t)]
    BY <1>0, <2>1
  <2>3. Records(s) = h[DOMAIN s]
    BY <1>0, RecordsUnfolded
  <2>. QED
    BY <2>2, <2>3
<1>2. \A t \in SUBSET (1 .. n) : h[t] = Sum(s, h, t)
  BY <1>1
<1> DEFINE S == {k \in Nat : k <= n => h[1 .. k] = g[k + 1] - g[1]}
<1>3. 0 \in S
  <2>1. 1 .. 0 = {} /\ {} \in SUBSET (1 .. n) /\ g[0 + 1] \in Nat
    OBVIOUS
  <2>2. h[{}] = 0
    BY <1>2, <2>1 DEF Sum
  <2>. QED
    BY <2>1, <2>2
<1>4. ASSUME NEW k \in S PROVE k + 1 \in S
  <2> SUFFICES ASSUME k + 1 <= n
               PROVE  h[1 .. k + 1] = g[(k + 1) + 1] - g[1]
    OBVIOUS
  <2>1. k \in Nat /\ h[1 .. k] = g[k + 1] - g[1]
    OBVIOUS
  <2>2. PICK t : t = 1 .. k + 1
    OBVIOUS
  <2>3. /\ t \in SUBSET (1 .. n) /\ t \in SUBSET (1 .. k + 1) /\ k + 1 \in t
        /\ t \ {k + 1} = 1 .. k /\ t # {}
    <3>1. k + 1 \in 1 .. k + 1 /\ \A y \in 1 .. k + 1 : y \in 1 .. n
      BY <2>1
    <3>2. \A y : y \in 1 .. k <=> y \in 1 .. k + 1 /\ y # k + 1
      BY <2>1
    <3>. QED
      BY <2>2, <3>1, <3>2
  <2>4. Max(t) = k + 1
    BY <2>1, <2>3, MaxIsLast
  <2>5. h[t] = h[1 .. k] + HdrLen + s[k + 1].len
    BY <1>2, <2>3, <2>4 DEF Sum
  <2>6. /\ k + 1 \in 1 .. n /\ k + 1 \in 1 .. n + 1 /\ 1 \in 1 .. n + 1
    BY <2>1
  <2>7. /\ g[k + 1] \in Nat /\ g[1] \in Nat /\ s[k + 1].len \in Nat
        /\ g[(k + 1) + 1] = g[k + 1] + HdrLen + s[k + 1].len
    BY <2>6
  <2>. QED
    BY <2>1, <2>2, <2>5, <2>7, Sizes
<1>5. S = Nat
  <2> HIDE DEF S
  <2>1. S \in SUBSET Nat
    BY DEF S
  <2>. QED
    BY <1>3, <1>4, <2>1, Induction
<1>6. n \in S
  BY <1>5
<1>. QED
  BY <1>1, <1>6

(* The bytes pending are the records of the frames from the first that is  *)
(* not released on.                                                        *)
LEMMA PendingIsRecords ==
  ASSUME Typed, NEW q, NEW pos, Stream(q, pos)
  PROVE  RxRsr = Records(SubSeq(arrived, q + InHand, Len(arrived)))
<1>1. PICK n, a, s : /\ n = Len(arrived) /\ a = q + InHand
                     /\ s = SubSeq(arrived, a, n)
  OBVIOUS
<1>2. PICK m : m = n - a + 1
  OBVIOUS
<1>3. /\ n \in Nat /\ q \in 1 .. n + 1 /\ a \in q .. n + 1
      /\ RxRsr = pos[n + 1] - pos[a]
  BY <1>1, StreamFacts
<1>4. m \in Nat /\ a + m = n + 1 /\ a \in Nat
  BY <1>2, <1>3
<1>5. /\ \A i \in 1 .. n + 1 : pos[i] \in Nat
      /\ \A i \in q .. n : arrived[i].len \in Nat
      /\ \A i \in q .. n : pos[i + 1] = pos[i] + HdrLen + arrived[i].len
  BY <1>1, StreamFacts DEF Stream, Laid
<1>6. DOMAIN s = 1 .. m /\ \A i \in 1 .. m : s[i] = arrived[a + i - 1]
  BY <1>1, <1>2, <1>3, StreamFacts
<1>7. PICK g : g = [i \in 1 .. m + 1 |-> pos[a + i - 1]]
  OBVIOUS
<1>8. \A i \in 1 .. m : a + i - 1 \in q .. n
  BY <1>3, <1>4
<1>9. \A i \in 1 .. m + 1 : a + i - 1 \in 1 .. n + 1
  BY <1>3, <1>4
<1>10. \A i \in 1 .. m + 1 : g[i] = pos[a + i - 1] /\ g[i] \in Nat
  BY <1>5, <1>7, <1>9
<1>11. \A i \in 1 .. m : s[i].len \in Nat
  BY <1>5, <1>6, <1>8
<1>12. ASSUME NEW i \in 1 .. m
       PROVE  g[i + 1] = g[i] + HdrLen + s[i].len
  <2>1. /\ i \in 1 .. m + 1 /\ i + 1 \in 1 .. m + 1
        /\ a + (i + 1) - 1 = (a + i - 1) + 1
    BY <1>4
  <2>. QED
    BY <1>5, <1>6, <1>8, <1>10, <2>1
<1>13. Records(s) = g[m + 1] - g[1]
  BY <1>4, <1>6, <1>10, <1>11, <1>12, RecordsValue
<1>14. /\ m + 1 \in 1 .. m + 1 /\ 1 \in 1 .. m + 1
       /\ a + (m + 1) - 1 = n + 1 /\ a + 1 - 1 = a
  BY <1>4
<1>15. g[m + 1] = pos[n + 1] /\ g[1] = pos[a]
  BY <1>10, <1>14
<1>. QED
  BY <1>1, <1>3, <1>13, <1>15

-----------------------------------------------------------------------------
(* Only an arriving frame changes the RX memory's contents.                *)
LEMMA ThreadsLeaveMemory == Wake \/ Rx \/ Tx \/ Send => UNCHANGED rxStore
<1>1. \A p : UpdateTxCompletion(p) => UNCHANGED rxStore
  BY DEF UpdateTxCompletion, CompRead, CompNotify, CompClear, CompTimesOut, chip
<1>2. Wake => UNCHANGED rxStore
  BY DEF Wake, AssertIntn, Isr, chip
<1>3. Tx \/ Send => UNCHANGED rxStore
  BY <1>1 DEF Tx, Send, TxStep, Transmit, TxReadSr, TxReadFsr, TxReadWr,
     TxWriteBuffer, TxWriteWr, TxCommand, TxDone, TxFails, chip
<1>4. Rx => UNCHANGED rxStore
  <2>1. ServiceInterrupts => UNCHANGED rxStore
    BY <1>1 DEF ServiceInterrupts, SvcReadIr, SvcReadSir, SvcClearIr, SvcReadS0,
       SvcConn, SvcEnd, SvcTimesOut, chip
  <2>. QED
    BY <2>1 DEF Rx, RxStep, Take, Woken, Inner, Loop, Level, Branch,
       ClearRecvRead, ClearRecvWrite, Drain, DrainRsr, RcvSr, RcvRsr, RcvRd,
       RcvHdr, RcvPay, RcvWriteRd, RcvCommand, RcvDone, RxGivesUp, chip
<1>. QED
  BY <1>2, <1>3, <1>4

(* What arrives is put behind what arrived before, and numbered.           *)
Arrival ==
  \E f \in Frame : /\ f.id = Len(arrived) + 1
                  /\ arrived' = Append(arrived, f)
                  /\ UNCHANGED delivered

LEMMA ArrivedGrows == Typed /\ Next => UNCHANGED arrived \/ Arrival
<1> SUFFICES ASSUME Typed, Next PROVE UNCHANGED arrived \/ Arrival
  OBVIOUS
<1>1. CASE Wake \/ Rx \/ Tx \/ Send
  BY <1>1, ThreadsLeaveMemory DEF rxStore
<1>2. CASE Chip
  <2>1. CASE FrameArrives
    <3>1. PICK len \in FrameLens : FrameArrives!(len)
      BY <2>1 DEF FrameArrives
    <3>2. PICK f : f = [id |-> Len(arrived) + 1, len |-> len]
      OBVIOUS
    <3>3. Len(arrived) + 1 \in 1 .. MaxArrivals
      BY <3>1, ChipAssumption DEF Typed, ChipTypeOK
    <3>4. f \in Frame /\ f.id = Len(arrived) + 1
      BY <3>1, <3>2, <3>3 DEF Frame
    <3>. QED
      BY <1>2, <3>1, <3>2, <3>4 DEF Arrival, Chip, rxTask
  <2>. QED
    BY <1>2, <2>1 DEF Chip, ChipStep, TakeRecv, TakeSend, SendDone, OtherEvent,
       rxStore
<1>. QED
  BY <1>1, <1>2 DEF Next

-----------------------------------------------------------------------------
(***************************************************************************)
(* What is delivered is what arrived, frame by frame; the record that      *)
(* comes next lies where the read pointer says.                            *)
(***************************************************************************)
InLine ==
  /\ \E pos : Stream(Len(delivered) + 1, pos)
  /\ \A j \in 1 .. Len(delivered) : delivered[j] = arrived[j]

RxInv == TypeOK /\ RecvOwned /\ InLine

LEMMA StartsInLine ==
  ASSUME ChipCleared, delivered = <<>>, pc["rx"] \notin Ahead
  PROVE  InLine
<1>1. /\ arrived = <<>> /\ delivered = <<>> /\ rx_wr = 0 /\ rx_ack = 0
      /\ rx_rd = 0 /\ pc["rx"] \notin Ahead
  BY DEF ChipCleared
<1>2. PICK pos : pos = [i \in 1 .. 1 |-> 0]
  OBVIOUS
<1>3. 0 % PtrMod = 0
  BY Sizes, SmallRemainder
<1>4. InHand = 0 /\ Len(arrived) = 0 /\ Len(delivered) = 0 /\ pos[1] = 0
  BY <1>1, <1>2 DEF InHand, Ahead, Released
<1>5. Laid(1, pos, arrived)
  BY <1>2, <1>4 DEF Laid
<1>6. Stored(1 + InHand, pos)
  BY <1>1, <1>3, <1>4, Sizes DEF Stored
<1>7. Reading(1, pos)
  BY <1>1, <1>3, <1>4 DEF Reading, Ahead, Released
<1>. QED
  BY <1>4, <1>5, <1>6, <1>7 DEF InLine, Stream

LEMMA InLineFacts ==
  ASSUME Typed, InLine
  PROVE  /\ arrived \in Seq(Frame) /\ Len(arrived) \in Nat
         /\ delivered \in Seq(Frame \cup {Bytes}) /\ Len(delivered) \in Nat
         /\ Len(delivered) <= Len(arrived)
         /\ RxRsr = Records(SubSeq(arrived, Len(delivered) + 1 + InHand,
                                  Len(arrived)))
<1>1. PICK pos : Stream(Len(delivered) + 1, pos)
  BY DEF InLine
<1>2. /\ arrived \in Seq(Frame) /\ Len(arrived) \in Nat
      /\ Len(delivered) + 1 \in 1 .. Len(arrived) + 1
  BY <1>1, StreamFacts
<1>3. delivered \in Seq(Frame \cup {Bytes}) /\ Len(delivered) \in Nat
  BY DEF Typed, RxTypeOK
<1>. QED
  BY <1>1, <1>2, <1>3, PendingIsRecords

(* A step stores a frame, delivers the next one, or does neither.          *)
LEMMA NextKeepsLine ==
  ASSUME RecvReliable, Typed, RecvOwned, InLine, Next
  PROVE  InLine' /\ [Fifo!Next]_<<arrived, delivered>>
<1>1. PICK pos : Stream(Len(delivered) + 1, pos)
  BY DEF InLine
<1>2. PICK r, pos2 : Stream(r, pos2)' /\ Advances(Len(delivered) + 1, r)
  BY <1>1, NextKeepsStream DEF StreamKept
<1>3. /\ arrived \in Seq(Frame) /\ Len(arrived) \in Nat
      /\ delivered \in Seq(Frame \cup {Bytes}) /\ Len(delivered) \in Nat
      /\ Len(delivered) <= Len(arrived)
      /\ \A j \in 1 .. Len(delivered) : delivered[j] = arrived[j]
  BY InLineFacts DEF InLine
<1>4. CASE Arrival
  <2>1. PICK f \in Frame : arrived' = Append(arrived, f) /\ UNCHANGED delivered
    BY <1>4 DEF Arrival
  <2>2. r = Len(delivered') + 1
    <3>1. Len(arrived') = Len(arrived) + 1
      BY <1>3, <2>1
    <3>2. arrived' # arrived
      BY <1>3, <3>1
    <3>. QED
      BY <1>2, <2>1, <3>2 DEF Advances
  <2>3. \A j \in 1 .. Len(delivered') : delivered'[j] = arrived'[j]
    BY <1>3, <2>1
  <2>4. Fifo!Store
    BY <2>1 DEF Fifo!Store
  <2>. QED
    BY <1>2, <2>2, <2>3, <2>4 DEF InLine, Fifo!Next
<1>5. CASE UNCHANGED arrived /\ UNCHANGED delivered
  <2>1. r = Len(delivered) + 1
    <3>1. Len(Append(delivered, arrived[Len(delivered) + 1])) = Len(delivered) + 1
      BY <1>3
    <3>. QED
      BY <1>2, <1>3, <1>5, <3>1 DEF Advances
  <2>. QED
    BY <1>2, <1>3, <1>5, <2>1 DEF InLine
<1>6. CASE UNCHANGED arrived /\ ~UNCHANGED delivered
  <2>1. /\ r = Len(delivered) + 1 + 1 /\ Len(delivered) + 1 <= Len(arrived)
        /\ delivered' = Append(delivered, arrived[Len(delivered) + 1])
    BY <1>2, <1>6 DEF Advances
  <2>2. /\ Len(delivered') = Len(delivered) + 1
        /\ delivered'[Len(delivered) + 1] = arrived[Len(delivered) + 1]
        /\ \A j \in 1 .. Len(delivered) : delivered'[j] = delivered[j]
    BY <1>3, <2>1
  <2>3. \A j \in 1 .. Len(delivered') : delivered'[j] = arrived'[j]
    <3>1. \A j \in 1 .. Len(delivered) + 1 :
            j \in 1 .. Len(delivered) \/ j = Len(delivered) + 1
      BY <1>3
    <3>. QED
      BY <1>3, <1>6, <2>2, <3>1
  <2>4. Fifo!Deliver
    BY <1>3, <1>6, <2>1 DEF Fifo!Deliver
  <2>. QED
    BY <1>2, <2>1, <2>2, <2>3, <2>4 DEF InLine, Fifo!Next
<1>. QED
  BY <1>4, <1>5, <1>6, ArrivedGrows

LEMMA InLineIsOrdered == Typed /\ InLine => InOrder /\ PendingInMemory
<1> SUFFICES ASSUME Typed, InLine PROVE InOrder /\ PendingInMemory
  OBVIOUS
<1>1. PICK k, n : k = Len(delivered) /\ n = Len(arrived)
  OBVIOUS
<1>2. /\ k \in Nat /\ n \in Nat /\ k <= n
      /\ arrived \in Seq(Frame) /\ delivered \in Seq(Frame \cup {Bytes})
      /\ \A j \in 1 .. k : delivered[j] = arrived[j]
  BY <1>1, InLineFacts DEF InLine
<1>3. SubSeq(delivered, 1, k) = SubSeq(arrived, 1, k)
  BY <1>1, <1>2
<1>. QED
  BY <1>1, <1>2, <1>3, InLineFacts DEF InOrder, IsPrefix, PendingInMemory

LEMMA ReliableIsAwaited == RecvReliable => RecvAwaited
BY DEF RecvReliable, RecvAwaited

LEMMA NextKeepsRxInv ==
  RecvReliable /\ RxInv /\ [Next]_vars
    => RxInv' /\ [Fifo!Next]_<<arrived, delivered>>
<1> SUFFICES ASSUME RecvReliable, RxInv, [Next]_vars
             PROVE  RxInv' /\ [Fifo!Next]_<<arrived, delivered>>
  OBVIOUS
<1>1. TypeOK' /\ Typed
  BY NextKeepsTypeOK, TypeOKParts DEF RxInv
<1>2. CASE Next
  BY <1>1, <1>2, NextKeepsLine, NextKeepsWakeup, ReliableIsAwaited
     DEF RxInv, WakeupKept, Typed
<1>3. CASE UNCHANGED vars
  <2>1. /\ UNCHANGED <<pc, sn_cr, rx_wr, rx_ack, rx_rd, rx_mem, arrived, delivered>>
        /\ UNCHANGED <<rx_ptr, rx_reclen, rx_frame>>
    BY <1>3 DEF vars, chip, command, rxStore, rxTask, rxLocals
  <2>2. RecvOwned' /\ InLine'
    BY <2>1 DEF RxInv, RecvOwned, InLine, Stream, Laid, Stored, Reading, InHand
  <2>. QED
    BY <1>1, <2>1, <2>2 DEF RxInv
<1>. QED
  BY <1>2, <1>3

LEMMA Reception ==
  RecvReliable => (Spec => []RxInv /\ [][Fifo!Next]_<<arrived, delivered>>)
<1> SUFFICES ASSUME RecvReliable
             PROVE  Spec => []RxInv /\ [][Fifo!Next]_<<arrived, delivered>>
  OBVIOUS
<1>1. Init => RxInv
  <2> SUFFICES ASSUME Init PROVE RxInv
    OBVIOUS
  <2>1. ChipCleared /\ delivered = <<>> /\ pc["rx"] = "take"
    BY DEF Init, ChipInit, DriverInit, RxInit, Threads
  <2>. QED
    BY <2>1, InitTypeOK, StartsInLine, InitSafe DEF RxInv, Safe, Ahead, Released
<1>2. RxInv /\ [Next]_vars => RxInv' /\ [Fifo!Next]_<<arrived, delivered>>
  BY NextKeepsRxInv
<1>. QED
  BY <1>1, <1>2, PTL DEF Spec

(***************************************************************************)
(* What is delivered are the first frames that arrived, each whole and     *)
(* each once, at every size of memory and frames.                          *)
(***************************************************************************)
THEOREM DeliveryInOrder == RecvReliable => (Spec => []InOrder)
<1>1. RxInv => InOrder
  BY InLineIsOrdered, TypeOKParts DEF RxInv
<1>. QED
  BY <1>1, Reception, PTL

(***************************************************************************)
(* The bytes the chip holds are the records of the frames not delivered    *)
(* yet: no step releases more or less than the frame it delivers.          *)
(***************************************************************************)
THEOREM PendingHeld == RecvReliable => (Spec => []PendingInMemory)
<1>1. RxInv => PendingInMemory
  BY InLineIsOrdered, TypeOKParts DEF RxInv
<1>. QED
  BY <1>1, Reception, PTL

(***************************************************************************)
(* Reception implements the safety part of FrameFifo: every step of the    *)
(* data path stores a frame, delivers the next one, or leaves both alone.  *)
(***************************************************************************)
THEOREM ImplementsFifo ==
  RecvReliable => (Spec => Fifo!Init /\ [][Fifo!Next]_<<arrived, delivered>>)
<1>1. Init => Fifo!Init
  BY DEF Init, ChipInit, ChipCleared, DriverInit, RxInit, Fifo!Init
<1>. QED
  BY <1>1, Reception, PTL DEF Spec
=============================================================================

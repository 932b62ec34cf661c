--------------------------- MODULE PhyMode_proofs ---------------------------
(***************************************************************************)
(* Proofs about the mode of the PHY, for any faults and modes, and for     *)
(* calls of the stack that race with the poll.                             *)
(***************************************************************************)
EXTENDS PhyMode, TLAPS

USE ModeAssumption

(* A function over the two fields is a mode.                               *)
LEMMA FieldsMakeAMode ==
  ASSUME NEW m \in Modes, NEW n \in Modes, NEW S
  PROVE  [f \in Fields |-> IF f \in S THEN n[f] ELSE m[f]] \in Modes
BY DEF Fields, Modes

LEMMA ForcedRange ==
  /\ \A m \in Modes : Forced(m) \in {0, 1, 2, 3}
  /\ \A n \in {0, 1, 2, 3} : \E m \in Modes : Forced(m) = n
<1>1. ASSUME NEW m \in Modes PROVE Forced(m) \in {0, 1, 2, 3}
  BY DEF Forced, Modes
<1>2. /\ Forced([speed |-> "10M", duplex |-> "half"]) = 0
      /\ Forced([speed |-> "10M", duplex |-> "full"]) = 1
      /\ Forced([speed |-> "100M", duplex |-> "half"]) = 2
      /\ Forced([speed |-> "100M", duplex |-> "full"]) = 3
  BY DEF Forced
<1>3. /\ [speed |-> "10M", duplex |-> "half"] \in Modes
      /\ [speed |-> "10M", duplex |-> "full"] \in Modes
      /\ [speed |-> "100M", duplex |-> "half"] \in Modes
      /\ [speed |-> "100M", duplex |-> "full"] \in Modes
  BY DEF Modes
<1>. QED
  BY <1>1, <1>2, <1>3

LEMMA OverwriteType ==
  ASSUME ModeTypeOK, NEW S \in SUBSET Fields, NEW b \in BOOLEAN, Overwrite(S, b)
  PROVE  /\ mode' \in Modes /\ told' \in Modes
         /\ measured' \subseteq Fields /\ silent' \subseteq Fields
<1>. DEFINE changed == {f \in S : mode[f] # new[f]}
<1>1. /\ mode' = [f \in Fields |-> IF f \in changed THEN new[f] ELSE mode[f]]
      /\ told' = told \/ told' = [f \in Fields |-> IF f \in changed THEN new[f] ELSE told[f]]
      /\ measured' = measured \cup changed
      /\ silent' = silent \cup changed \/ silent' = silent \ changed
  BY DEF Overwrite
<1>2. mode \in Modes /\ new \in Modes /\ told \in Modes
      /\ measured \subseteq Fields /\ silent \subseteq Fields
  BY DEF ModeTypeOK
<1>3. changed \subseteq Fields
  OBVIOUS
<1>. HIDE DEF changed
<1>4. mode' \in Modes
  BY <1>1, <1>2, FieldsMakeAMode
<1>5. told' \in Modes
  BY <1>1, <1>2, FieldsMakeAMode
<1>. QED
  BY <1>1, <1>2, <1>3, <1>4, <1>5

LEMMA ModeTypeInit == ModeInit => ModeTypeOK
<1>1. Slow \in Modes
  BY DEF Slow, Modes
<1> SUFFICES ASSUME ModeInit PROVE ModeTypeOK
  OBVIOUS
<1>2. opmdc \in {0, 1, 2, 3, 6, 7} /\ faults \in 0 .. MaxFaults
  BY DEF ModeInit
<1>3. {out_of_reset, up, power, autoneg, link, installed, in_force} \subseteq BOOLEAN
  <2>1. /\ out_of_reset = TRUE /\ up = FALSE /\ power = TRUE /\ autoneg = TRUE
        /\ link = FALSE /\ installed = FALSE /\ in_force = FALSE
    BY DEF ModeInit
  <2>. QED
    BY <2>1
<1>4. /\ line \in Modes /\ mode \in Modes /\ told \in Modes /\ new \in Modes
      /\ measured \subseteq Fields /\ silent \subseteq Fields
  BY <1>1 DEF ModeInit
<1>. QED
  BY <1>2, <1>3, <1>4 DEF ModeInit, ModeTypeOK, ApiLabels, PollLabels

LEMMA ModeTypeCalls ==
  ASSUME ModeTypeOK,
         PhyInit \/ AutonegoCtrl \/ PwrCtl \/ SetSpeed \/ SetDuplex \/ SetLink
  PROVE  ModeTypeOK'
<1> USE DEF ModeTypeOK, ApiLabels, Call, register, wire, polling
<1>1. CASE PhyInit
  <2>1. mode' \in Modes
    BY <1>1 DEF PhyInit, Slow, Modes
  <2>. QED
    BY <1>1, <2>1 DEF PhyInit
<1>2. CASE AutonegoCtrl
  BY <1>2 DEF AutonegoCtrl, wishes
<1>3. CASE PwrCtl
  BY <1>3 DEF PwrCtl, wishes
<1>4. ASSUME NEW f \in Fields, Set(f) PROVE ModeTypeOK'
  <2>1. mode' \in Modes
    <3>1. PICK m \in Modes : mode' = [mode EXCEPT ![f] = m[f]]
      BY <1>4 DEF Set
    <3>. QED
      BY <3>1 DEF Fields, Modes
  <2>2. measured' \subseteq Fields /\ silent' \subseteq Fields
    BY <1>4 DEF Set
  <2>. QED
    BY <1>4, <2>1, <2>2 DEF Set, flags
<1>5. CASE SetLink
  BY <1>5 DEF SetLink, flags, wishes
<1>. QED
  BY <1>1, <1>2, <1>3, <1>4, <1>5 DEF SetSpeed, SetDuplex, Fields

LEMMA ModeTypeRegister ==
  ASSUME ModeTypeOK, Connect \/ Disconnect \/ Apply \/ ApplyFails
  PROVE  ModeTypeOK'
<1> USE DEF ModeTypeOK, ApiLabels, register, wire, flags, wishes, calling, polling
<1>1. Slow \in Modes
  BY DEF Slow, Modes
<1>2. CASE Connect
  <2>1. line' \in Modes
    BY <1>2, ForcedRange DEF Connect, PhyRuns
  <2>. QED
    BY <1>2, <2>1 DEF Connect
<1>3. CASE Disconnect
  BY <1>1, <1>3 DEF Disconnect
<1>4. CASE Prepare
  BY <1>1, <1>4, ForcedRange DEF Prepare, WritePhycfgr
<1>5. CASE Assert \/ Release
  BY <1>1, <1>5 DEF Assert, Release, WritePhycfgr
<1>6. CASE ApplyFails
  BY <1>6 DEF ApplyFails, Fail
<1>. QED
  BY <1>2, <1>3, <1>4, <1>5, <1>6 DEF Apply

LEMMA ModeTypePoll ==
  ASSUME ModeTypeOK, GetLink \/ ReportFails
  PROVE  ModeTypeOK'
<1>1. Slow \in Modes
  BY DEF Slow, Modes
<1>2. CASE ReadStatus
  BY <1>1, <1>2 DEF ReadStatus, ModeTypeOK, ApiLabels, PollLabels, register, wire, flags,
     wishes, calling
<1>3. CASE CompareSpeed \/ CompareDuplex \/ Keep
  <2>1. PICK S \in SUBSET Fields, b \in BOOLEAN : Overwrite(S, b)
    BY <1>3 DEF CompareSpeed, CompareDuplex, Keep, Fields
  <2>. QED
    BY <1>1, <1>3, <2>1, OverwriteType DEF CompareSpeed, CompareDuplex, Keep, Poll, ModeTypeOK,
       ApiLabels, PollLabels, register, wire, flags, calling
<1>4. CASE TellUp \/ TellDown
  BY <1>1, <1>4 DEF TellUp, TellDown, Poll, ModeTypeOK, ApiLabels, PollLabels, register, wire,
     flags, wishes, calling
<1>5. CASE ReportFails
  <2>1. /\ mode' \in Modes /\ told' \in Modes
        /\ measured' \subseteq Fields /\ silent' \subseteq Fields
    BY <1>5, OverwriteType DEF ReportFails, wishes, ModeTypeOK
  <2>2. poll' = "idle" /\ new' = Slow /\ link' \in BOOLEAN /\ UNCHANGED <<register, wire, flags, calling>>
    BY <1>5 DEF ReportFails, Poll, ModeTypeOK
  <2>. QED
    BY <1>1, <1>5, <2>1, <2>2 DEF ReportFails, Fail, ModeTypeOK, ApiLabels, PollLabels,
       register, wire, flags, calling
<1>. QED
  BY <1>2, <1>3, <1>4, <1>5 DEF GetLink

LEMMA ModeTypeKept == ModeTypeOK /\ [ModeNext]_modeVars => ModeTypeOK'
<1>1. ModeTypeOK /\ UNCHANGED modeVars => ModeTypeOK'
  BY DEF ModeTypeOK, modeVars, register, wire, flags, wishes, calling, polling
<1>. QED
  BY <1>1, ModeTypeCalls, ModeTypeRegister, ModeTypePoll DEF ModeNext

(* Every variable keeps its type.                                          *)
THEOREM ModeTypeCorrect == ModeSpec => []ModeTypeOK
BY ModeTypeInit, ModeTypeKept, PTL DEF ModeSpec

-----------------------------------------------------------------------------
(* What the polls do to the wish is measured, and to the last report is    *)
(* reported or silent.                                                     *)
LEMMA OverwriteEffect ==
  ASSUME ModeTypeOK, NEW S \in SUBSET Fields, NEW b \in BOOLEAN, Overwrite(S, b)
  PROVE  /\ measured' = {} => measured = {} /\ mode' = mode
         /\ \A f \in Fields : mode'[f] = IF f \in S THEN new[f] ELSE mode[f]
         /\ \A f \in Fields \ silent' :
              \/ f \notin silent /\ mode'[f] = mode[f] /\ told'[f] = told[f]
              \/ f \in S /\ mode'[f] = new[f] /\ told'[f] = new[f]
<1>. DEFINE changed == {f \in S : mode[f] # new[f]}
<1>1. /\ mode' = [f \in Fields |-> IF f \in changed THEN new[f] ELSE mode[f]]
      /\ told' = told \/ told' = [f \in Fields |-> IF f \in changed THEN new[f] ELSE told[f]]
      /\ measured' = measured \cup changed
      /\ \/ silent' = silent \cup changed /\ told' = told
         \/ /\ silent' = silent \ changed
            /\ told' = [f \in Fields |-> IF f \in changed THEN new[f] ELSE told[f]]
  BY DEF Overwrite
<1>2. mode \in Modes /\ new \in Modes /\ told \in Modes
  BY DEF ModeTypeOK
<1>3. measured' = {} => measured = {} /\ mode' = mode
  <2>1. measured' = {} => measured = {} /\ changed = {}
    BY <1>1
  <2>2. mode = [f \in Fields |-> mode[f]]
    BY <1>2 DEF Fields, Modes
  <2>. QED
    BY <1>1, <2>1, <2>2
<1>4. \A f \in Fields : mode'[f] = IF f \in S THEN new[f] ELSE mode[f]
  BY <1>1
<1>5. \A f \in Fields \ silent' :
        \/ f \notin silent /\ mode'[f] = mode[f] /\ told'[f] = told[f]
        \/ f \in S /\ mode'[f] = new[f] /\ told'[f] = new[f]
  BY <1>1
<1>. QED
  BY <1>3, <1>4, <1>5

(* What is in force, or will be when the writes of apply_mode that remain  *)
(* have been made: the flags change only before apply_mode.                *)
ForceInv ==
  /\ in_force => api = "idle" /\ out_of_reset
  /\ in_force \/ api \in {"assert", "release"} =>
       /\ IF ~power THEN opmdc = 6 ELSE IF autoneg THEN opmdc = 7 ELSE opmdc < 6
       /\ power /\ ~autoneg /\ measured = {} => opmdc = Forced(mode)

LEMMA ForceKept == ModeTypeOK /\ ForceInv /\ [ModeNext]_modeVars => ForceInv'
<1> SUFFICES ASSUME ModeTypeOK, ForceInv, [ModeNext]_modeVars PROVE ForceInv'
  OBVIOUS
<1>1. CASE UNCHANGED <<opmdc, out_of_reset, flags, api, in_force>>
            /\ (measured' = {} => measured = {} /\ mode' = mode)
  BY <1>1 DEF ForceInv, flags
<1>2. CASE PhyInit \/ AutonegoCtrl \/ PwrCtl
  BY <1>2 DEF PhyInit, AutonegoCtrl, PwrCtl, Call, ForceInv
<1>3. ASSUME NEW f \in Fields, Set(f) PROVE ForceInv'
  BY <1>3 DEF Set, Call, register, flags, ForceInv
<1>4. CASE SetLink
  BY <1>1, <1>4 DEF SetLink, Call, register, flags, wishes
<1>5. CASE Prepare
  <2>1. Forced(mode) \in {0, 1, 2, 3}
    BY ForcedRange DEF ModeTypeOK
  <2>2. /\ api' = "assert" /\ UNCHANGED <<power, autoneg, mode, measured, in_force>> /\ ~in_force
        /\ opmdc' = IF ~power THEN 6 ELSE IF autoneg THEN 7 ELSE Forced(mode)
    BY <1>5 DEF Prepare, WritePhycfgr, flags, wishes, ForceInv
  <2>. QED
    BY <2>1, <2>2 DEF ForceInv
<1>6. CASE Assert \/ Release
  BY <1>6 DEF Assert, Release, WritePhycfgr, flags, wishes, ForceInv
<1>7. CASE ApplyFails
  BY <1>7 DEF ApplyFails, register, flags, wishes, ForceInv
<1>8. CASE Connect \/ Disconnect \/ ReadStatus
  BY <1>1, <1>8 DEF Connect, Disconnect, ReadStatus, register, flags, wishes, calling
<1>9. CASE CompareSpeed \/ CompareDuplex \/ TellUp \/ TellDown \/ Keep \/ ReportFails
  <2>1. UNCHANGED <<opmdc, out_of_reset, flags, api, in_force>>
    BY <1>9 DEF CompareSpeed, CompareDuplex, TellUp, TellDown, Keep, ReportFails, Poll,
       register, calling
  <2>2. UNCHANGED wishes \/ \E S \in SUBSET Fields, b \in BOOLEAN : Overwrite(S, b)
    BY <1>9 DEF CompareSpeed, CompareDuplex, TellUp, TellDown, Keep, ReportFails, Fields
  <2>3. measured' = {} => measured = {} /\ mode' = mode
    BY <2>2, OverwriteEffect DEF wishes
  <2>. QED
    BY <1>1, <2>1, <2>3
<1>. QED
  BY <1>1, <1>2, <1>3, <1>4, <1>5, <1>6, <1>7, <1>8, <1>9
     DEF ModeNext, Apply, GetLink, SetSpeed, SetDuplex, Fields, modeVars, register, flags, wishes,
         calling

LEMMA ForceInvariant == ModeSpec => [](ModeTypeOK /\ ForceInv)
<1>1. ModeInit => ForceInv
  BY DEF ModeInit, ForceInv
<1>. QED
  BY <1>1, ModeTypeInit, ModeTypeKept, ForceKept, PTL DEF ModeSpec

(* After any call that returned ESP_OK the PHY runs in a mode that the     *)
(* flags ask for, whatever failed before (phy.c:96-147).                   *)
THEOREM ModeInForceHolds == ModeSpec => []ModeInForce
<1>1. ForceInv => ModeInForce
  BY DEF ForceInv, ModeInForce
<1>. QED
  BY <1>1, ForceInvariant, PTL

(* A forced mode is the one asked for, unless a poll has overwritten the   *)
(* wish since (phy.c:303, 313, 360).                                       *)
THEOREM ForcedAsAskedHolds == ModeSpec => []ForcedAsAsked
<1>1. ForceInv => ForcedAsAsked
  BY DEF ForceInv, ForcedAsAsked
<1>. QED
  BY <1>1, ForceInvariant, PTL

-----------------------------------------------------------------------------
(* What the stack knows.                                                   *)
ReportInv ==
  /\ ~installed => mode = Slow /\ told = Slow /\ poll = "idle"
  /\ \A f \in Fields \ silent : told[f] = mode[f]
  /\ poll \in {"duplex", "link"} /\ "speed" \notin silent => told["speed"] = new["speed"]
  /\ poll = "link" /\ "duplex" \notin silent => told["duplex"] = new["duplex"]

LEMMA ReportKept == ModeTypeOK /\ ReportInv /\ [ModeNext]_modeVars => ReportInv'
<1> SUFFICES ASSUME ModeTypeOK, ReportInv, [ModeNext]_modeVars PROVE ReportInv'
  OBVIOUS
<1>. mode \in Modes /\ new \in Modes /\ told \in Modes
  BY DEF ModeTypeOK
<1>1. CASE UNCHANGED <<wishes, polling>> /\ installed \in {installed', FALSE}
  BY <1>1 DEF ReportInv, wishes, polling
<1>2. CASE PhyInit
  BY <1>2 DEF PhyInit, Call, ReportInv, polling
<1>3. ASSUME NEW f \in Fields, Set(f) PROVE ReportInv'
  <2>1. /\ installed /\ installed' = installed /\ silent \subseteq silent'
        /\ \A g \in Fields \ silent' : mode'[g] = mode[g]
        /\ UNCHANGED polling
    <3>1. PICK v \in {m[f] : m \in Modes} :
            /\ mode' = [mode EXCEPT ![f] = v]
            /\ silent' = IF v = mode[f] THEN silent ELSE silent \cup {f}
      BY <1>3 DEF Set
    <3>. QED
      BY <1>3, <3>1 DEF Set, Call, Fields, Modes
  <2>. QED
    BY <2>1 DEF ReportInv, polling
<1>4. CASE AutonegoCtrl \/ PwrCtl \/ SetLink \/ Connect \/ Disconnect \/ Apply \/ ApplyFails
  <2>1. UNCHANGED <<wishes, polling>> /\ installed \in {installed', FALSE}
    BY <1>4 DEF AutonegoCtrl, PwrCtl, SetLink, Connect, Disconnect, Apply, ApplyFails, Call,
       Prepare, Assert, Release, WritePhycfgr, calling, ModeTypeOK
  <2>. QED
    BY <1>1, <2>1
<1>5. CASE ReadStatus
  BY <1>5 DEF ReadStatus, ReportInv, wishes, calling
<1>6. CASE CompareSpeed
  <2>1. /\ poll = "speed" /\ poll' = "duplex" /\ new' = new /\ installed' = installed
        /\ Overwrite({"speed"}, TRUE)
    BY <1>6 DEF CompareSpeed, Poll, calling
  <2>. QED
    BY <2>1, OverwriteEffect DEF ReportInv, Fields
<1>7. CASE CompareDuplex
  <2>1. /\ poll = "duplex" /\ poll' = "link" /\ new' = new /\ installed' = installed
        /\ Overwrite({"duplex"}, TRUE)
    BY <1>7 DEF CompareDuplex, Poll, calling
  <2>. QED
    BY <2>1, OverwriteEffect DEF ReportInv, Fields
<1>8. CASE TellUp \/ TellDown
  BY <1>8 DEF TellUp, TellDown, Poll, ReportInv, wishes, calling
<1>9. CASE Keep \/ ReportFails
  <2>1. /\ poll # "idle" /\ poll' = "idle" /\ installed' = installed
        /\ UNCHANGED <<told, wishes>> \/ \E S \in SUBSET Fields : Overwrite(S, FALSE)
    BY <1>9 DEF Keep, ReportFails, Poll, Fields, calling
  <2>2. \A f \in Fields \ silent' : told'[f] = mode'[f]
    BY <2>1, OverwriteEffect DEF ReportInv, wishes
  <2>. QED
    BY <2>1, <2>2 DEF ReportInv
<1>. QED
  BY <1>1, <1>2, <1>3, <1>4, <1>5, <1>6, <1>7, <1>8, <1>9
     DEF ModeNext, GetLink, SetSpeed, SetDuplex, Fields, modeVars, wishes, polling, calling

(* When a poll brings the link up, the stack knows the speed and duplex it *)
(* read, but for what changed silently (phy.c:301-345).                    *)
THEOREM SpeedBeforeUpHolds == ModeSpec => SpeedBeforeUp
<1>1. ModeInit => ReportInv
  BY DEF ModeInit, ReportInv
<1>2. ASSUME ModeTypeOK, ReportInv, [ModeNext]_modeVars
      PROVE  [~link /\ link' => \A f \in Fields \ silent : told[f] = new[f]]_modeVars
  <2> SUFFICES ASSUME ModeNext, ~link, link' PROVE \A f \in Fields \ silent : told[f] = new[f]
    BY <1>2
  <2>1. poll = "link"
    BY DEF ModeNext, Connect, Disconnect, PhyInit, AutonegoCtrl, PwrCtl, SetSpeed, SetDuplex, Set,
       SetLink, Call, Apply, Prepare, Assert, Release, WritePhycfgr, ApplyFails, GetLink,
       ReadStatus, CompareSpeed, CompareDuplex, TellUp, TellDown, Keep, ReportFails, Poll
  <2>. QED
    BY <1>2, <2>1 DEF ReportInv, Fields
<1>3. ModeSpec => [](ModeTypeOK /\ ReportInv)
  BY <1>1, ModeTypeInit, ModeTypeKept, ReportKept, PTL DEF ModeSpec
<1>. QED
  BY <1>2, <1>3, PTL DEF ModeSpec, SpeedBeforeUp

=============================================================================

------------------------------ MODULE PhyMode ------------------------------
(***************************************************************************)
(* The mode of the PHY: what the stack asks for (w5500_phy_init, autonego_ *)
(* ctrl, pwrctl, set_speed, set_duplex) and w5500_phy_apply_mode writes to *)
(* PHYCFGR, next to the poll (w5500_phy_get_link) that measures speed and  *)
(* duplex into the fields that hold the wish, and reports them.  There is  *)
(* no lock between the two.  What a link-up does to the socket is PhyLink. *)
(***************************************************************************)
EXTENDS Naturals

CONSTANTS
  MaxFaults,   (* transactions and reports that may fail                   *)
  QuietCalls,  (* TRUE: the stack calls only between two polls             *)
  Negotiated,  (* the modes autonegotiation may end in                     *)
  Unlinked     (* what SPD and DPX may show without a link                 *)

Fields == {"speed", "duplex"}
Modes  == [speed : {"10M", "100M"}, duplex : {"half", "full"}]
Slow   == [speed |-> "10M", duplex |-> "half"]

ASSUME ModeAssumption ==
  /\ MaxFaults \in Nat /\ QuietCalls \in BOOLEAN
  /\ Negotiated \subseteq Modes /\ Unlinked \subseteq Modes
  /\ Negotiated # {} /\ Unlinked # {}

VARIABLES
  opmdc, out_of_reset, (* PHYCFGR: the mode bits and RST                   *)
  up, line,    (* PHYCFGR: LNK; SPD and DPX while it is set                *)
  power, autoneg, mode, link,
               (* w5500_eth_phy_t: power_enabled, autoneg_enabled, speed   *)
               (* and duplex, link = ETH_LINK_UP                           *)
  api,         (* the label of the stack's call                            *)
  poll,        (* the label of the poll                                    *)
  new,         (* new_speed, new_duplex; poll knows new_link               *)
  told,        (* the speed and duplex last reported to the stack          *)
  installed,   (* w5500_phy_init has succeeded                             *)
  in_force,    (* history: the last apply_mode returned ESP_OK             *)
  measured,    (* history: fields a poll has changed since they were asked *)
  silent,      (* history: fields that changed and were not reported       *)
  faults

register == <<opmdc, out_of_reset>>
wire     == <<up, line>>
flags    == <<power, autoneg>>
wishes   == <<mode, measured, silent>>
calling  == <<api, installed, in_force>>
polling  == <<poll, new, told>>
modeVars == <<register, wire, flags, wishes, link, calling, polling, faults>>

(* opmdc is also the local variable of apply_mode that all its writes use. *)
ApiLabels  == {"idle", "prepare", "assert", "release"}
PollLabels == {"idle", "speed", "duplex", "link", "tell_down", "keep"}

(* w5500_eth_phy_new.                                                      *)
ModeInit ==
  /\ opmdc = 7 /\ out_of_reset = TRUE
  /\ up = FALSE /\ line = Slow
  /\ power = TRUE /\ autoneg = TRUE /\ mode = Slow /\ link = FALSE
  /\ api = "idle" /\ poll = "idle" /\ new = Slow /\ told = Slow
  /\ installed = FALSE /\ in_force = FALSE /\ measured = {} /\ silent = {}
  /\ faults = 0

Fail == faults < MaxFaults /\ faults' = faults + 1

---------------------------------------------------------------------------
(* The PHY and the cable: a link needs power, and takes the forced mode.   *)
Forced(m) == CASE m.speed = "10M"  /\ m.duplex = "half" -> 0
               [] m.speed = "10M"  /\ m.duplex = "full" -> 1
               [] m.speed = "100M" /\ m.duplex = "half" -> 2
               [] m.speed = "100M" /\ m.duplex = "full" -> 3

PhyRuns == out_of_reset /\ opmdc # 6

Connect ==
  /\ ~up /\ PhyRuns
  /\ up' = TRUE
  /\ IF opmdc = 7 THEN line' \in Negotiated
     ELSE line' = CHOOSE m \in Modes : Forced(m) = opmdc
  /\ UNCHANGED <<register, flags, wishes, link, calling, polling, faults>>

Disconnect ==
  /\ up
  /\ up' = FALSE /\ line' = Slow
  /\ UNCHANGED <<register, flags, wishes, link, calling, polling, faults>>

---------------------------------------------------------------------------
(* The calls of the stack, up to apply_mode.  What was asked for stays     *)
(* when it cannot be applied.                                              *)
Call(apply) ==
  /\ api = "idle" /\ (QuietCalls => poll = "idle")
  /\ IF apply THEN api' = "prepare" /\ in_force' = FALSE
              ELSE UNCHANGED <<api, in_force>>
  /\ UNCHANGED <<register, wire, polling, faults>>

PhyInit ==
  /\ ~installed /\ Call(TRUE)
  /\ power' = TRUE /\ autoneg' = TRUE /\ link' = FALSE
  /\ mode' = Slow /\ measured' = {}
  /\ UNCHANGED <<installed, silent>>

(* EN and DIS; RESTART leaves autoneg as it is.                            *)
AutonegoCtrl ==
  /\ installed /\ Call(TRUE)
  /\ autoneg' \in BOOLEAN
  /\ UNCHANGED <<installed, power, wishes, link>>

PwrCtl ==
  /\ installed /\ Call(TRUE)
  /\ power' \in BOOLEAN
  /\ UNCHANGED <<installed, autoneg, wishes, link>>

(* set_speed and set_duplex.  Mutant: the new value is not applied to a PHY*)
(* that has power.                                                         *)
SetUnapplied(f) ==
  /\ installed /\ Call(~autoneg /\ ~power)
  /\ \E v \in {m[f] : m \in Modes} :
       /\ mode' = [mode EXCEPT ![f] = v] /\ measured' = measured \ {f}
       /\ silent' = IF v = mode[f] THEN silent ELSE silent \cup {f}
  /\ UNCHANGED <<installed, flags, link>>

Set(f) ==
  /\ installed /\ Call(~autoneg /\ power)
  /\ \E v \in {m[f] : m \in Modes} :
       /\ mode' = [mode EXCEPT ![f] = v] /\ measured' = measured \ {f}
       /\ silent' = IF v = mode[f] THEN silent ELSE silent \cup {f}
  /\ UNCHANGED <<installed, flags, link>>

SetSpeed  == Set("speed")
SetDuplex == Set("duplex")

(* The stack marks the link as down when it stops.                         *)
SetLink ==
  /\ installed /\ Call(FALSE)
  /\ link' = FALSE
  /\ UNCHANGED <<installed, flags, wishes>>

(* w5500_phy_apply_mode: three writes of PHYCFGR.                          *)
WritePhycfgr(label, rst, then) ==
  /\ api = label /\ api' = then
  /\ out_of_reset' = rst
  /\ up' = (up /\ rst) /\ line' = IF rst THEN line ELSE Slow
  /\ UNCHANGED <<flags, wishes, link, polling, faults>>

(* Mutant: autonegotiation is tested before power.                         *)
PreparePowerLast ==
  /\ WritePhycfgr("prepare", TRUE, "assert")
  /\ opmdc' = IF autoneg THEN 7 ELSE IF ~power THEN 6 ELSE Forced(mode)
  /\ UNCHANGED <<installed, in_force>>

Prepare ==
  /\ WritePhycfgr("prepare", TRUE, "assert")
  /\ opmdc' = IF ~power THEN 6 ELSE IF autoneg THEN 7 ELSE Forced(mode)
  /\ UNCHANGED <<installed, in_force>>

Assert ==
  /\ WritePhycfgr("assert", FALSE, "release")
  /\ UNCHANGED <<opmdc, installed, in_force>>

(* Mutant: RST stays 0.                                                    *)
ReleaseNot ==
  /\ WritePhycfgr("release", FALSE, "idle")
  /\ installed' = TRUE /\ in_force' = TRUE /\ UNCHANGED opmdc

Release ==
  /\ WritePhycfgr("release", TRUE, "idle")
  /\ installed' = TRUE /\ in_force' = TRUE /\ UNCHANGED opmdc

Apply == Prepare \/ Assert \/ Release

ApplyFails ==
  /\ api \in {"prepare", "assert", "release"} /\ api' = "idle"
  /\ Fail
  /\ UNCHANGED <<register, wire, flags, wishes, link, installed, in_force, polling>>

---------------------------------------------------------------------------
(* w5500_phy_get_link and w5500_phy_read_status.                           *)
Poll(label, then) ==
  /\ poll = label /\ poll' = then
  /\ new' = IF then = "idle" THEN Slow ELSE new
  /\ UNCHANGED <<register, wire, flags, calling>>

ReadStatus ==
  /\ installed /\ poll = "idle" /\ (QuietCalls => api = "idle")
  /\ poll' = IF up THEN "speed" ELSE "tell_down"
  /\ IF up THEN new' = line ELSE new' \in Unlinked
  /\ UNCHANGED <<register, wire, flags, calling, told, wishes, link, faults>>

(* The fields that differ from what was read take it.                      *)
Overwrite(fields, reported) ==
  LET changed == {f \in fields : mode[f] # new[f]}
      Updated(m, fs) == [f \in Fields |-> IF f \in fs THEN new[f] ELSE m[f]]
  IN
  /\ mode' = Updated(mode, changed) /\ measured' = measured \cup changed
  /\ IF reported
     THEN told' = Updated(told, changed) /\ silent' = silent \ changed
     ELSE UNCHANGED told /\ silent' = silent \cup changed

CompareSpeed ==
  Poll("speed", "duplex") /\ Overwrite({"speed"}, TRUE) /\ UNCHANGED <<link, faults>>

(* Mutant: the duplex is kept and not reported.                            *)
CompareDuplexNot ==
  Poll("duplex", "link") /\ UNCHANGED <<told, wishes, link, faults>>

CompareDuplex ==
  Poll("duplex", "link") /\ Overwrite({"duplex"}, TRUE) /\ UNCHANGED <<link, faults>>

(* The link comes up: PhyLink has the steps.                               *)
TellUp ==
  Poll("link", "idle") /\ link' = TRUE /\ UNCHANGED <<told, wishes, faults>>

TellDown ==
  /\ Poll("tell_down", "keep")
  /\ link' = FALSE
  /\ UNCHANGED <<told, wishes, faults>>

(* With the link down, speed and duplex are set and not reported.          *)
Keep == Poll("keep", "idle") /\ Overwrite(Fields, FALSE) /\ UNCHANGED <<link, faults>>

(* A report or the socket fails: what the poll has set stays.              *)
ReportFails ==
  /\ \/ \E f \in Fields :
          Poll(f, "idle") /\ mode[f] # new[f] /\ Overwrite({f}, FALSE) /\ UNCHANGED link
     \/ Poll("link", "idle") /\ ~link /\ link' \in BOOLEAN /\ UNCHANGED <<told, wishes>>
     \/ Poll("tell_down", "idle") /\ link /\ link' = FALSE /\ UNCHANGED <<told, wishes>>
  /\ Fail

GetLink ==
  \/ ReadStatus \/ CompareSpeed \/ CompareDuplex \/ TellUp \/ TellDown \/ Keep

ModeNext ==
  \/ Connect \/ Disconnect
  \/ PhyInit \/ AutonegoCtrl \/ PwrCtl \/ SetSpeed \/ SetDuplex \/ SetLink
  \/ Apply \/ ApplyFails
  \/ GetLink \/ ReportFails

ModeSpec == ModeInit /\ [][ModeNext]_modeVars

(* A PHY without power loses the link; a call that was made and the timer  *)
(* of the stack go on.                                                     *)
ModeFairSpec ==
  /\ ModeSpec
  /\ WF_modeVars(~PhyRuns /\ Disconnect)
  /\ WF_modeVars(Apply) /\ WF_modeVars(GetLink)

---------------------------------------------------------------------------
(* Every variable keeps the type it has in the code.                       *)
ModeTypeOK ==
  /\ opmdc \in {0, 1, 2, 3, 6, 7}
  /\ {out_of_reset, up, power, autoneg, link, installed, in_force}
       \subseteq BOOLEAN
  /\ line \in Modes /\ mode \in Modes /\ told \in Modes
  /\ new \in Modes
  /\ api \in ApiLabels /\ poll \in PollLabels
  /\ measured \subseteq Fields /\ silent \subseteq Fields /\ faults \in 0 .. MaxFaults

(* After a call that returned ESP_OK the PHY is out of reset in the mode   *)
(* the flags ask for, though any of the three writes of an earlier call    *)
(* failed and left the PHY in reset (phy.c:119-143).                       *)
ModeInForce ==
  api = "idle" /\ in_force =>
    /\ out_of_reset
    /\ IF ~power THEN opmdc = 6 ELSE IF autoneg THEN opmdc = 7 ELSE opmdc < 6

(* A forced mode is the one last asked for, call by call, unless a poll    *)
(* has measured another one meanwhile: a poll writes into the fields the   *)
(* wish is in (phy.c:303, 313, 360).                                       *)
ForcedAsAsked ==
  api = "idle" /\ in_force /\ power /\ ~autoneg /\ measured = {} =>
    opmdc = Forced(mode)

(* When a poll brings the link up, the stack has been told the speed and   *)
(* the duplex that this poll has read; but for fields that changed with    *)
(* no report, or with a report that failed (phy.c:301-345).                *)
SpeedBeforeUp ==
  [][~link /\ link' => \A f \in Fields \ silent : told[f] = new[f]]_modeVars

(* A PHY without power is reported as down and stays so, although a poll   *)
(* may have read its link before (phy.c:100 and 387).                      *)
PowerOffTakesDown == <>[](~power /\ in_force /\ api = "idle") => <>[]~link
============================================================================

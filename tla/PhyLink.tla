------------------------------ MODULE PhyLink ------------------------------
(***************************************************************************)
(* Link management: w5500_phy_get_link, which a timer of the network stack *)
(* runs again and again, next to the data path.  When the link comes up it *)
(* closes and opens socket 0 (w5500_socket0_open_macraw), enables the      *)
(* interrupts (w5500_interrupts_enable_socket0), wakes the RX task and     *)
(* tells the stack.  A label names the next transaction of the poll that   *)
(* has an effect here, with those before it that have none.                *)
(***************************************************************************)
EXTENDS MacData

CONSTANT
  QuietReopen  (* TRUE: the socket is closed only when no frame is half    *)
               (* received or half sent                                    *)

ASSUME LinkAssumption == QuietReopen \in BOOLEAN

VARIABLES
  link_pc,     (* the label of the poll, "idle" between two polls          *)
  phy_up,      (* PHYCFGR.LNK                                              *)
  link_up,     (* ext_phy->link = ETH_LINK_UP                              *)
  told_up,     (* what the stack was last told, or set itself              *)
  tell_failed  (* history: on_state_changed failed                         *)

poll     == <<link_pc, link_up, told_up, tell_failed>>
linkVars == <<vars, poll, phy_up>>

LinkLabels == {"idle", "close", "close_wait", "clr_s0", "open", "open_wait",
               "open_sr", "clr_ir", "clr_s0_again", "unmask", "pending",
               "notify", "tell_up", "tell_down"}

LinkAt(label) == link_pc = label /\ (SlowCommands \/ sn_cr = "NONE")

Goto(label) == link_pc' = label /\ UNCHANGED <<link_up, told_up, tell_failed>>

(* All that the poll leaves alone but the chip and the notification.       *)
rest == <<pc, isr_edge, gpio, comp_ir, service, faults, rxTask, tx, phy_up>>

LinkInit ==
  /\ ChipCleared /\ sn_sr = "CLOSED" /\ sn_masked = TRUE
  /\ DriverInit
  /\ link_pc = "idle" /\ phy_up \in BOOLEAN
  /\ link_up = FALSE /\ told_up = FALSE /\ tell_failed = FALSE

---------------------------------------------------------------------------
(* CLOSE keeps the memory; OPEN starts all pointers afresh.                *)
TakeClose ==
  /\ sn_cr = "CLOSE"
  /\ sn_cr' = "NONE" /\ sn_sr' = "CLOSED"
  /\ UNCHANGED <<interrupt, rxStore, rx_rd, txRing, pc, irq, rxTask, tx, poll,
                 phy_up>>

TakeOpen ==
  /\ sn_cr = "OPEN"
  /\ sn_cr' = "NONE" /\ sn_sr' = "MACRAW"
  /\ rx_wr' = 0 /\ rx_ack' = 0 /\ rx_rd' = 0
  /\ tx_wr' = 0 /\ tx_sent' = 0 /\ tx_rd' = 0 /\ tx_staged' = 0
  /\ UNCHANGED <<interrupt, rx_mem, arrived, tx_merged, pc, irq, rxTask, tx,
                 poll, phy_up>>

(* The cable is plugged in or out.                                         *)
PhyChange == phy_up' = ~phy_up /\ UNCHANGED <<vars, poll>>

---------------------------------------------------------------------------
(* w5500_phy_set_link: the stack marks the link as down when it stops, and *)
(* stops the timer first.                                                  *)
SetLinkDown ==
  /\ link_pc = "idle" /\ link_up
  /\ link_up' = FALSE /\ told_up' = FALSE
  /\ UNCHANGED <<vars, link_pc, phy_up, tell_failed>>

(* Mutant: link is set before the socket is open.                          *)
PollUpEarly ==
  /\ LinkAt("idle") /\ phy_up /\ ~link_up
  /\ link_up' = TRUE
  /\ link_pc' = "close"
  /\ UNCHANGED <<vars, phy_up, told_up, tell_failed>>

(* w5500_phy_read_status; a poll that finds no change does nothing.        *)
PollUp ==
  /\ LinkAt("idle") /\ phy_up /\ ~link_up
  /\ Goto("close")
  /\ UNCHANGED <<vars, phy_up>>

PollDown ==
  /\ LinkAt("idle") /\ ~phy_up /\ link_up
  /\ link_up' = FALSE
  /\ link_pc' = "tell_down"
  /\ UNCHANGED <<vars, phy_up, told_up, tell_failed>>

Quiet ==
  /\ pc["rx"] \notin RcvLabels \ {"rcv_sr"}
  /\ pc["tx"] \notin TxLabels \ (CompLabels \cup {"idle", "tx_sr"})

Command(label, cmd, then) ==
  /\ LinkAt(label)
  /\ sn_cr' = cmd
  /\ Goto(then)
  /\ UNCHANGED <<sn_sr, interrupt, rxStore, rx_rd, txRing, notified, rest>>

LinkClose == (QuietReopen => Quiet) /\ Command("close", "CLOSE", "close_wait")
LinkOpen  == Command("open", "OPEN", "open_wait")

Waited(label, then) ==
  /\ link_pc = label /\ sn_cr = "NONE"
  /\ Goto(then)
  /\ UNCHANGED <<chip, notified, rest>>

LinkClosed == Waited("close_wait", "clr_s0")
LinkOpened == Waited("open_wait", "open_sr")

ClearAll(label, then) ==
  /\ LinkAt(label)
  /\ ClearSnIr(IrBits)
  /\ Goto(then)
  /\ UNCHANGED <<command, rxStore, rx_rd, txRing, notified, rest>>

LinkClear      == ClearAll("clr_s0", "open")
LinkClearAgain == ClearAll("clr_s0_again", "unmask")

LinkReadSr ==
  /\ LinkAt("open_sr")
  /\ Goto(IF sn_sr = "MACRAW" THEN "clr_ir" ELSE "idle")
  /\ UNCHANGED <<chip, notified, rest>>

LinkClearIr ==
  /\ LinkAt("clr_ir")
  /\ ir' = FALSE
  /\ Goto("clr_s0_again")
  /\ UNCHANGED <<command, sn_ir, sn_masked, int_low, rxStore, rx_rd, txRing,
                 notified, rest>>

(* Mutant: the mask of the socket is not written.                          *)
LinkUnmaskForgotten ==
  LinkAt("unmask") /\ Goto("pending") /\ UNCHANGED <<chip, notified, rest>>

(* S0_IMR, INTLEVEL and SIMR.                                              *)
LinkUnmask ==
  /\ LinkAt("unmask")
  /\ sn_masked' = FALSE
  /\ Goto("pending")
  /\ UNCHANGED <<command, sn_ir, ir, int_low, rxStore, rx_rd, txRing,
                 notified, rest>>

(* w5500_driver_notify_interrupt_task_if_pending.                          *)
LinkPending ==
  /\ link_pc = "pending"
  /\ notified' = (notified \/ (isr_task /\ int_low))
  /\ Goto("notify")
  /\ UNCHANGED <<chip, rest>>

(* Mutant: get_link relies on the notification for a low pin.              *)
LinkNotifyForgotten ==
  /\ link_pc = "notify"
  /\ link_up' = TRUE
  /\ link_pc' = "tell_up"
  /\ UNCHANGED <<chip, notified, rest, told_up, tell_failed>>

LinkNotify ==
  /\ link_pc = "notify"
  /\ notified' = (notified \/ isr_task)
  /\ link_up' = TRUE
  /\ link_pc' = "tell_up"
  /\ UNCHANGED <<chip, rest, told_up, tell_failed>>

Tell ==
  /\ link_pc \in {"tell_up", "tell_down"}
  /\ told_up' = (link_pc = "tell_up")
  /\ link_pc' = "idle"
  /\ UNCHANGED <<vars, phy_up, link_up, tell_failed>>

(* A transaction of the poll fails, or a wait for the command register, or *)
(* on_state_changed: the poll returns an error.                            *)
LinkFails ==
  /\ \E label \in FaultAt \cap (LinkLabels \ {"idle", "pending", "notify"}) :
       LinkAt(label)
  /\ faults < MaxFaults
  /\ faults' = faults + 1
  /\ link_pc' = "idle"
  /\ tell_failed' = (tell_failed \/ link_pc \in {"tell_up", "tell_down"})
  /\ UNCHANGED <<chip, pc, wakeup, gpio, comp_ir, service, rxTask, tx, phy_up,
                 link_up, told_up>>

LinkStep ==
  \/ PollUp \/ PollDown \/ Tell \/ LinkFails
  \/ LinkClose \/ LinkClosed \/ LinkClear \/ LinkOpen \/ LinkOpened
  \/ LinkReadSr \/ LinkClearIr \/ LinkClearAgain \/ LinkUnmask
  \/ LinkPending \/ LinkNotify

---------------------------------------------------------------------------
(* A frame arrives only over a link that is up.                            *)
Data ==
  /\ Next
  /\ arrived' # arrived => phy_up
  /\ UNCHANGED <<poll, phy_up>>

LinkNext ==
  Data \/ TakeClose \/ TakeOpen \/ LinkStep \/ SetLinkDown \/ PhyChange

LinkSpec == LinkInit /\ [][LinkNext]_linkVars

(* As for the data path; the timer of the stack never stops polling.       *)
LinkFairness ==
  /\ WF_linkVars(Data /\ Chip /\ (TakeRecv \/ TakeSend))
  /\ WF_linkVars(TakeClose \/ TakeOpen)
  /\ WF_linkVars(Data /\ Chip /\ SendDone)
  /\ WF_linkVars(Data /\ Wake)
  /\ SF_linkVars(Data /\ Rx) /\ SF_linkVars(Data /\ Tx)
  /\ SF_linkVars(LinkStep)

LinkFairSpec == LinkSpec /\ LinkFairness

---------------------------------------------------------------------------
(* Every variable keeps the type it has in the code.                       *)
LinkTypeOK ==
  /\ TypeOK
  /\ link_pc \in LinkLabels /\ phy_up \in BOOLEAN /\ link_up \in BOOLEAN
  /\ told_up \in BOOLEAN /\ tell_failed \in BOOLEAN

(* While the stack believes the link is up, socket 0 is open and its       *)
(* interrupt is enabled (phy.c:325-342: both are done before the stack is  *)
(* told, and undone only after it was told the opposite).                  *)
LinkBacked == told_up /\ ~tell_failed => sn_sr = "MACRAW" /\ ~sn_masked

(* After a link-up the RX task never sleeps on a frame, although the poll  *)
(* cleared the RECV event of frames stored since the socket was opened     *)
(* (driver.c:267): the notification in phy.c:337 makes up for it.          *)
NoStallAfterLinkUp == link_up => NoStall

(* No frame is delivered twice, out of order or mutilated, though a        *)
(* reopening of the socket may lose some.                                  *)
DeliveredOnce ==
  /\ \A n \in DOMAIN delivered :
       delivered[n].id \in DOMAIN arrived /\ delivered[n] = arrived[delivered[n].id]
  /\ \A m, n \in DOMAIN delivered : m < n => delivered[m].id < delivered[n].id

(* A link that stays up, or down, is reported in the end, though polls may *)
(* fail (phy.c:322-341: link is set last, so a failed link-up is repeated).*)
(* FR-02.2, README.md:34.  It does not hold when the report itself fails,  *)
(* which comes behind that (phy.c:341-347, 351-357).                       *)
LinkTold ==
  /\ <>[]phy_up => []<>told_up
  /\ <>[]~phy_up => <>[]~told_up

(* Frames do not stay in the RX memory of a link that stays up.            *)
LinkDrains == <>[]link_up => []<>(RxRsr = 0)

---------------------------------------------------------------------------
(* FR-03.1 (README.md:40): frames are received from the controller, which  *)
(* needs a chip whose RX memory is not accounted for as more than full.    *)
ReceptionPossible == RxRsr <= RxBufSize
============================================================================

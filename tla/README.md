# A formal model of esp32-w5500-driver

The repository is an ESP-IDF Ethernet driver for the WIZnet W5500, a chip on an
SPI bus, with a demo that serves HTTP over it.  This directory holds TLA+
modules that model the driver, TLC configurations that check them on small
instances, and theorems that the TLAPS proof system checks for every instance.

Contents: 1 inventory, 2 modules, 3 correspondence with the code, 4 runs,
5 bounds, 6 fairness, 7 proofs, 8 what the code does not do, 9 what is not
modelled, 10 plan.

File names without a path are under `src/components/w5500_driver/` (`mac.c` is
`w5500_mac.c`, and so on).

## 1. Inventory

| Component | State it keeps | Operations | Hard behaviour | What makes it correct |
|---|---|---|---|---|
| Chip (external) | socket registers, RX and TX memory, interrupt bits, INTn pin | takes commands, stores frames, sends, raises events | runs on its own; one command register for everything | — (assumed) |
| SPI transport, `spi.c` | `w5500_global_context`: lock, handle, `initialized` | init, deinit, read, write | a lock with a 100 ms timeout; a failed step of init must undo the earlier ones; deinit next to users | transactions exclude each other; nothing leaks; nothing is used after deinit |
| Registers, `regs.c` | none | one accessor per register; stable reads of RX_RSR and TX_FSR; wait for Sn_CR; soft reset | reads of 16-bit counters that move; waits with a timeout | a value returned is one the register had |
| Interrupt path, `driver.c` | `interrupt_task_handle`, GPIO configuration | ISR, register and unregister the task, service_interrupts, update_tx_completion | INTn is level, the GPIO is edge triggered; two threads clear bits of one register | no event is lost for ever |
| Receive path, `mac.c` | `started`, `rx_task_handle`, Sn_RX_RD | RX task: take, service, clear RECV, drain, receive one frame | frames arrive at every point of it; any transaction may fail | each frame delivered once, whole, in order, in the end |
| Transmit path, `mac.c`, `driver.c` | Sn_TX_WR | transmit, send_raw_frame | shares S0_CR and S0_IR with the RX task; full memory | no overrun, one frame per SEND, an honest result, it returns |
| MAC life cycle, `mac.c`, `driver.c` | `started`, `rx_task_handle`, GPIO | init, start, stop, del; registration and end of the RX task | start and stop next to a task that begins or ends | a started interface has exactly one listening task; a stopped one none |
| Link management, `phy.c`, `driver.c` | `link`, `speed`, `duplex` | get_link (polled), set_link, open_macraw, interrupts_enable_socket0 | the socket is closed and opened under the data path; each of 30 transactions may fail | the stack is told the truth; reception works after a link-up |
| PHY mode, `phy.c` | `power_enabled`, `autoneg_enabled`, `speed`, `duplex` | autonego_ctrl, set_speed, set_duplex, pwrctl, apply_mode | speed and duplex are both the wish and the measurement | PHYCFGR holds the mode asked for |
| MAC wiring, `mac.c` | mediator, MAC address | constructors, set_addr, unsupported callbacks | — | — |
| HTTP demo, `examples/http_demo/components/demo` | network data under a mutex, server handle | start, stop, handlers, image download | event handlers next to HTTP handlers; partial failures | requests are refused when the network is down |
| Bring-up, `examples/http_demo/main` | event context | app_main, Ethernet and IP events | order of link, address and server events | the server runs exactly while there is an address |

How they interact: the network stack calls `w5500_mac_transmit` from its own
thread; the RX task, woken by the GPIO interrupt through a task notification,
calls `mediator->stack_input`; a timer of ESP-IDF polls `w5500_phy_get_link`,
which reopens the socket and wakes the RX task; all three meet in the registers
of socket 0, where only a single SPI transaction is exclusive.

## 2. Modules

| Module | Models | Extends |
|---|---|---|
| `W5500Socket0` | the chip: socket 0 in MACRAW mode (external) | |
| `W5500Irq` | INTn, the ISR, `w5500_driver_service_interrupts`, `w5500_socket0_update_tx_completion`, the notification of the RX task | `W5500Socket0` |
| `MacRx` | the RX task, its inner loop, `w5500_mac_drain_rx`, `w5500_mac_receive_one_frame` | `W5500Irq` |
| `MacTx` | `w5500_mac_transmit`, `w5500_socket0_send_raw_frame` | `W5500Irq` |
| `MacData` | both at once over one chip: specification, fairness, properties | `MacRx`, `MacTx` |
| `FrameFifo` | abstract: what reception promises the stack | |
| `PhyLink` | `w5500_phy_get_link` with the reopening of the socket, `w5500_phy_set_link`, next to the data path | `MacData` |
| `MacLife` | `w5500_mac_init`, `start` and `stop`, registration and end of the RX task, around the data path | `MacData` |
| `RegFile` | abstract: what the SPI transport promises of a register | |
| `SpiBus` | `w5500_spi_init`, `deinit`, `read`, `write`; 16-bit accesses and `w5500_read_sn_rx_rsr_stable` by several threads | |
| `PhyMode` | the PHY callbacks of the stack with `w5500_phy_apply_mode`, next to the speed and duplex part of `w5500_phy_get_link` | |
| `HttpDemo` | `app_main`, both event handlers, the demo's data, server, request handlers and download | |
| `MacData_proofs` | types and the wakeup of the RX task, proved | `MacData`, TLAPS |
| `MacDataTx_proofs` | transmission, proved | `MacData_proofs` |
| `MacDataRx_proofs` | reception and its refinement of `FrameFifo`, proved | `MacData_proofs` |
| `PhyLink_proofs` | types, the state of the link, the wakeup and reception over link-ups, proved | `PhyLink`, `MacDataRx_proofs` |
| `MacLife_proofs` | one task, its handles, its interrupt, its wakeup and reception over restarts, proved | `MacLife`, `MacDataRx_proofs` |
| `SpiBus_proofs` | the safety of the transport and its refinement of `RegFile`, proved | `SpiBus`, TLAPS |
| `PhyMode_proofs` | the mode in force and the reports, proved | `PhyMode`, TLAPS |
| `HttpDemo_proofs` | the safety of the demo, proved | `HttpDemo`, TLAPS |
| `MCMacData`, `MCPhyLink`, `MCMacLife`, `MCSpiBus`, `MCPhyMode`, `MCHttpDemo` | the modules the runs check | the module they are named after |

`PhyLink` and `MacLife` take the whole next-state relation of `MacData` as one
of their actions (`Data`) and add the steps of one more thread each.  `SpiBus`
stands below all of them: the theorem `RegistersAreAtomic` is why a transaction
is one step there, and `StableIsRealHolds` why a stable read is one step that
returns the present value or fails.  `PhyMode` shares with `PhyLink` the
function `w5500_phy_get_link`, of which each models one part in full and the
other as a single step.  `HttpDemo` stands above them, and sees the link as a
report the poll posts once for each change, which is lost when the queue of the
event loop is full (section 8), and in the end otherwise (`LinkTold`).

## 3. Correspondence with the code

**Atomicity.** A transaction of `w5500_spi_read` or `w5500_spi_write` holds the
SPI lock (`spi.c:118-218`; proved in `SpiBus_proofs`), so one step of the model is one transaction with the
local computation behind it; tests of variables that another thread writes
(`started`, `interrupt_task_handle`, the level of the pin) are steps of their
own.  The label of a thread, `pc[p]`, names its next transaction; the prefix
names the function: `svc_` service_interrupts, `comp` update_tx_completion,
`clr_` clear_recv_event_if_set, `drain` drain_rx, `rcv_` receive_one_frame,
`tx_` send_raw_frame.

**Chip.** `rx_wr`, `rx_ack` and `rx_rd` separate the pointer the chip has
committed from the register the driver writes, since a RECV command is what
moves the one to the other; `tx_wr`, `tx_sent`, `tx_rd` do it for SEND.  The RX
memory holds one record header per frame at the place it has in the real
memory, so a wrong pointer reads bytes that are no header: `HeaderAt` then
returns any length, and `PayloadAt` no frame.  `int_low` is the pin; the chip
asserts it again, after a release, by a step of its own (INTLEVEL).  SIR may
show S0 or not for events that S0_IMR masks (`SirReads`): the driver must work
in both cases.

**Local variables.** A local variable of the code that is read by no later step
is reset to a fixed value by its last use, which changes no behaviour.  The
variable `int_level` of `service_interrupts` is left out: the test it is used in
is followed by one that returns in the same case without it (`driver.c:389-396`).

**The notification value** of the RX task is a Boolean: `ulTaskNotifyTake(pdTRUE)`
clears it whatever it was.

**Merged data.** CON and DISCON are one bit, `"CONN"`, cleared by the same
write; the four bits of IR are one.  A frame is its arrival number and length.
What `stack_input` returns changes only who frees the buffer (`mac.c:155`), so a
frame counts as delivered when it is called.

**Failures.** `FaultAt` is the set of labels at which a transaction may fail and
`MaxFaults` how many may: a failed `calloc` or `malloc`, an error of the SPI
driver, a lock that was not free in time, eight unstable reads of a counter, a
wait for S0_CR that ran out.  Nothing of a failed transaction reaches the chip.
`RxGivesUp` and `TxFails` are the error returns; `SvcTimesOut` and
`CompTimesOut` are the paths on which `ESP_ERR_TIMEOUT` is taken for the TIMEOUT
event of a frame (`mac.c:522`, `driver.c:316` and `412`).

**Initial states.** The task is registered and waits; the socket is open (a
link came up before) or closed (none did); a notification may be left over from
the registration or from the link-up.

**Link management (`PhyLink`).** A poll is a third thread with its own label,
`link_pc`.  Its transactions whose effect no property can see (modes, buffer
sizes, S0_MR, IMR) belong to the label of the next one that has an effect: the
interleavings that are left out differ only in registers nobody else reads.
`LinkFails` covers every error return, `on_state_changed` included
(`esp_event_post` may fail with a full queue).  CLOSE keeps the memories, OPEN
sets all pointers to 0; both are external.  `SetLinkDown` is the stack's own
`set_link(DOWN)` when it stops, after it stopped the timer.  The reports of
speed and duplex are left out: they are in `PhyMode`.
`QuietReopen` confines link-ups to moments when no frame is half received or
half sent.  Nothing in the driver does: the runs that use it show what holds
between frames, and `PhyLink_reopen` shows what happens otherwise.

**Life cycle (`MacLife`).** The stack is a thread with the label `api`, making
one call at a time; `eth` is the last call.  `late_stop` is the write
`started = false` of a task whose registration failed (`mac.c:504`), which comes
after its handle was cleared and so may meet the next start.  A task is `"none"`
from the step that clears `rx_task_handle`.  `gpio_on` stands for an enabled
interrupt with an installed handler; `gpio_isr_handler_add` and
`gpio_intr_enable` are one step, and enabling drops an edge latched before.
`Patient` says that the stack starts the interface only when the last
registration is over and, after a stop, the last task has ended.  The driver
gives the stack no way to know it: `MacLife_hasty` shows why it would have to.
`left` and `unlistened` are history: the last task ended between clearing RECV
and emptying the memory (the stop interrupted its drain, so bytes without an
event are left); a creation or a registration failed since the last start.

**Transport (`SpiBus`).** `ctl` is the label of the one thread that calls
`w5500_spi_init` and `w5500_spi_deinit`, `pc[t]` that of a caller of read and
write.  `lock_live`, `bus_up` and `dev_up` say what exists outside of the
driver; `spi_lock`, `spi_handle` and `initialized` what `w5500_global_context`
says.  The two differ for some steps, which is what the properties are about.
The payload is a word of two bytes that go over the bus one after the other
(`hi`, `lo`): a counter of the chip may move in between, another thread may
read in between if the lock does not keep it out.  `op[t] = "stable"` makes the
thread go round the loop of the stable read with two words an attempt; `seen`
is history, the values the counter had in the present attempt.  The counter only
grows while somebody reads it, since the reader itself is the one that takes
bytes away (`RECV` in the RX task, which reads RX_RSR; `SEND` in the sender,
which reads TX_FSR); without that a counter could change and change back between
the bytes of each of two equal readings.  One thing in the driver does not respect
that: the OPEN of a link-up sets the pointers of the chip, and so both counters,
to 0 while a stable read may be under way.

deinit takes no lock and waits for nobody (`spi.c:98-116`), and so do its
actions: `BusSpec` lets it run next to any call, and section 8 says what that
leads to.  `QuietSpec` is the same system under an assumption about
the caller of `w5500_spi_deinit` that nothing in `spi.c` enforces: no thread is
in a call, or starts one, while deinit runs.  Taking a lock that was deleted is
undefined, so it may succeed or fail (`TakeLock`, `LockFails`).  The results of
`spi_bus_remove_device` and `spi_bus_free` are ignored (`spi.c:83, 105, 108`): each
may leave up what it should have taken down (`TakenDown`), and `stuck` is history,
that one did.

**PHY mode (`PhyMode`).** `mode` stands for the fields `speed` and `duplex`,
which hold the wish of the stack and the measurement of the poll alike.  `api`
is the label of the stack's call, whose three writes of PHYCFGR are three steps;
`poll` the label of `w5500_phy_get_link`.  `opmdc` is both the local variable of
`apply_mode` and the register, as only those writes change the register.  With
`QuietCalls = FALSE` the two threads interleave freely: there is no lock between
them.  `measured` and `silent` are history: the fields a poll has changed since
the stack asked for them; the fields that changed without a report that
succeeded.

**HTTP demo (`HttpDemo`).** `main` is the stage of `app_main`, `loop` the label
of the event loop in one of the two event handlers, `handler` the label of the
server's thread in a request.  The events are in `queue` from the moment they are
posted: what they tell may be out of date when they are handled.  `http_server`
is the handle, `running` the server that has the port; they part company when
`httpd_stop` fails (`leaked`).  The queue has room for `QueueLen` events.  A
report of the link that finds it full is lost, and is not repeated while the link
stays (`unreported`); an address event that finds it full is lost too, and counts
as an address that was not handled (`unready`).  Of the network data the model has two fields,
`ethernet_up` and `ip`, which the event handlers write in two steps under
`data_lock` and a request copies in two steps (`says_up`, `says_ip`); a wait for
the lock that runs out is `DataUpFails`, `DataDownFails` and `SnapshotFails`.
Whether an answer could be sent changes nothing in the code, which does not look at
the result of `httpd_resp_sendstr`: `Reply` goes on to `Count` in any case.  How
many bytes `Count` adds is left out, as nothing but the text of an answer depends
on it.  `FaultAt` is the set of labels of the event loop that may fail; the
download may always fail, as the outcome of an operation on the network is open.

## 4. Runs

| Run | Checks | Shows |
|---|---|---|
| `MacData_fifo` | `FifoSpec` | reception next to a sending thread implements `FrameFifo`, liveness included: frames that arrive at any point are delivered once, in order, in the end |
| `MacData_safety` | `TypeOK`, `NoStall`, `PendingInMemory`, `InOrder` | one failure at nearly any transaction: the task sleeps on a frame only after an error, the memory holds exactly the records of the undelivered frames, none is repeated or reordered |
| `MacData_tx` | `TxSpace`, `WholeFrames`, `SuccessIsSent`, `TxReturns`, `TxKeepsGoing`, `RescuedBySend` | no overrun, one frame per SEND that was written, an honest ESP_OK; calls return, a full memory drains; an error that leaves INTn low with RECV set is repaired by the next transmission |
| `PhyLink_link` | `LinkBacked`, `NoStallAfterLinkUp`, `DeliveredOnce`, `LinkTold`, `LinkDrains` | a link the stack believes in is backed by an open socket with its interrupt; link-ups whose reopening failed are repeated; reception works after them |
| `MacLife_restart` | `IrqTaskAlive`, `OneTask`, `StartedListens`, `NoStallAfterStart`, `InOrder`, `StopEnds`, `StartedDrains` | a patient stack has one listening task while started and none in the end while stopped; frames that came in between are received |
| `SpiBus_bus` | `OneOnTheBus`, `NothingLeaks`, `AllOrNothing`, `StableIsReal`, `CallsReturn`, `AtomicRegisters` | with no user next to deinit (`QuietSpec`): transactions exclude each other although a lock is waited for 100 ms only; every error path frees and unlocks; init leaves everything or nothing, but for what the SPI master would not give back; a stable read is a value the counter had; calls return; register accesses implement `RegFile` |
| `PhyMode_mode` | `ModeInForce`, `ForcedAsAsked`, `SpeedBeforeUp`, `PowerOffTakesDown` | a call that succeeded puts its flags into force whatever failed before; a forced mode is the one asked for unless a poll measured another; speed and duplex are reported before a link-up; a PHY without power ends up reported as down |
| `HttpDemo_network` | `OkMeansUp`, `AvailableServes`, `DownloadFrees`, `AnswersRecent`, `ComesBack`, `LoopReturns` | no "ok" of a network that is down, nor of half a change of the network data; available means a complete server; downloads free what they hold; the server comes back with the link; the event loop does not hang on a handler |

The four runs that find a violation are in section 8.

The premises of some properties keep out what section 8 describes: `StopEnds` and
`StartedDrains` assume that unexpected events end (`Calm`: the loop at
`driver.c:342` goes on as long as they come), `ForcedAsAsked` and `SpeedBeforeUp`
except what a poll overwrote or changed without a report, `AllOrNothing` a bus or
a device that the SPI master would not give back (`stuck`), and the properties of
`HttpDemo` a server that `httpd_stop` could not stop (`leaked`), an address that was not
handled (`unready`) and a report of the link that was lost (`unreported`).

Deadlock is checked except in the runs of `MacLife`, where the number of calls
and of frames is bounded and the system may rest when both are used up: a
stopped interface has nothing to do.

Every property has a mutant in `PROJECT.json`: a definition with a plausible
bug (kept next to the definition, marked "Mutant") under which the same run
finds the property violated.

## 5. Bounds

Pointers are taken modulo `PtrMod` = 8 or 10, memories have 4 or 5 units,
records 2 or 3 units (a header of 1 and a frame of 1 or 2).  In the code the
register (2^16) is a multiple of the memory (2^14), which is all
`ChipAssumption` asks for.  In `MacData_fifo` three records of 2 units go
through a memory of 5, so that the third lies across the end of the memory and
fits only when the first was released; in `MacData_safety`
records of 2 and 3 units go through 4 units, so that a record of either length
wraps and two may or may not fit.  Frames may arrive at every step of handling
an earlier one, and the loop that handles them is then in a state it was in
before.  The frames sent fill the memory exactly (length equal to `TxBufSize`),
or are 2 units in a memory of 3 (`MacData_tx`), so that the test of the free
space meets room that is too small by one, and the write pointer wraps at every
place of a frame in turn.  One failure (`MaxFaults` = 1) reaches
each error return.  Where a run leaves labels out of `FaultAt`, the failures
there break the property: section 8 has the runs or the reason.  `MacData_tx`
is the exception: of reception's labels it keeps the reads of the registers that
`service_interrupts` handles, one in the middle of clearing (`clr_wr`) and two of
receiving a frame (`rcv_rsr`, `rcv_pay`), to keep the run short:
the sender shares only INTn, S0_IR and the notification with that task; `MacData_safety` has those.  `MaxCalls` = 6
gives init and five calls: two restarts and a stop.  Sending is left out of the
runs of `PhyLink` and `MacLife` (`TxLens = {}`), where the data path is there
for the RX task.  `OtherEvents` is on in `MacLife_restart` only: CON and DISCON are
not raised by a MACRAW socket, and elsewhere they multiply the states by five.

`SpiBus_bus` has two threads (the sender, and the RX task, which also reads the
counter), bytes of two values and two attempts in place of eight: a mixed
reading needs one carry from the low to the high byte, and a loop that fails
once and succeeds or gives up needs two.  Calls are not bounded: the state graph
is finite as it is.  In `PhyMode_mode` autonegotiation ends in the slowest or the
fastest mode and an unlinked PHY shows either, while all four can be forced; one
write, report or reopening fails.  `HttpDemo_network` has room for two events: a
link-down and a link-up, or a link-down and an address, wait at once behind the one
that is being handled, and a third is lost.  It has two addresses, so that a copy
of the network data could mix two of them, and a chunk, so that a download may
break off before, after and between.  `HttpDemo_stale` has room for three events
and one address: a link-down behind which an address is queued, and one more.
The theorems of section 7 hold for every value of these.

## 6. Fairness

`Fairness` assumes that the chip takes a command, finishes a transmission and
pulls the pin (weak fairness: nothing disables these steps but themselves), that
the interrupt handler runs, and that both threads get the SPI lock again and
again.  The last is strong fairness: a thread's step is disabled while a command
of the other one waits in S0_CR.  FreeRTOS gives a released mutex to a waiting
thread and the wait is bounded (100 ms), so neither thread is passed over for
ever.  `BusySpec` adds that the stack goes on sending; only properties about
transmission assume it.  No fairness is assumed of arrivals, of failures or of
unexpected events.

`LinkFairness` adds that the timer of the stack goes on polling, and that a poll
gets the lock again and again; `LifeFairness` that a call that was made goes on,
that a registration or an end of the task goes on, and the late write too.
Neither assumes that the cable or the stack ever does anything.

`QuietFairSpec` assumes that a thread in a call goes on; the wait for the lock is
one of its steps and may fail, as it ends after 100 ms, so no strong fairness is
needed.  Nothing is assumed of init, deinit and the counter.  `ModeFairSpec`
assumes that a call of the stack and the poll, which a timer repeats, go on, and
that a PHY without power loses the link.  `DemoFairSpec` assumes that `app_main`,
the event loop and a handler go on (all operations on the network have a
timeout: `demo_image_client.c:52`), that the poll reports a change of the link
(once, and in vain if the queue is full)
and that DHCP finds an address as long as the link is up.  Requests, the cable
and renewals of the address have no fairness.

## 7. Proofs

Proved for all sizes of pointers, memories, headers and frames, any number of
frames, calls and failures (the ASSUMEs of the modules, and the premises named
with a theorem, are the only conditions on the constants).

`MacData_proofs`:

- `TypeCorrect`: `Spec => []TypeOK`.  Inductive with the sizes of `ChipAssumption`.
- `NeverStalls`: `RecvAwaited => (Spec => []NoStall)`.  `NoStall` is not
  inductive: whether the task may sleep depends on what it did before.  `IInv`
  adds four parts.  `Wired`: the interface is started and the GPIO is on.
  `RecvOwned`: a RECV command in S0_CR is one the task waits for, so no other
  one can move the read pointer behind its back.  `EventKept`: past its last
  look at RX_RSR, pending bytes have their RECV event, unless it failed.
  `EdgeKept`: past its last look at the pin, a low pin has its edge or its
  notification.  `RecvAwaited` says that with a slow chip the wait for S0_CR
  does not fail: otherwise the task would go round with RECV still in S0_CR.
- The lemmas about single steps that the other modules use ask only that `pc` is
  a function (`PcFun`) and that the variables have their types (`Typed`), since
  the life cycle has labels of its own: `NextKeepsTypes`; `RxStaysInLoop`,
  `TxStaysInCall` (where a step leads); `NextKeepsWakeup` (`WakeupKept`, what a
  step does to the wakeup, with no assumption on what the task did before).

`MacDataTx_proofs`:

- `TxNeverOverruns`: `Spec => []TxSpace`, whatever fails and however slow the
  chip is.  The invariant relates `tx_rd`, `tx_sent`, `tx_wr` and the pointer
  the sender holds: free space only grows between the test and the write.  Most
  of the proof is the arithmetic of distances modulo `PtrMod`.
- `SendsWholeFrames`, `SuccessMeansSent`: under `SendReliable` (a quick chip, no
  failure of the write of SEND) each SEND covers one frame, and `ESP_OK` means
  that one did.  Section 8 shows why both are needed.

`MacDataRx_proofs`, all under `RecvReliable`: the chip takes a command before the
next transaction (`SlowCommands = FALSE`), and the write of RECV and the wait
for it do not fail.  Section 8 has what happens otherwise: a sender may write
SEND over RECV, or a frame that was read is forgotten with its place released.

- `DeliveryInOrder`: `Spec => []InOrder`, and `PendingHeld`:
  `Spec => []PendingInMemory`.  Neither says anything of the pointers, so neither
  is inductive.  `InLine` says that there are places `pos`, counted from the
  opening of the socket and not cut to 16 bits, where the records of the frames
  from the next one on lie: one behind the other (`Laid`); within one memory
  length of each other, so that their headers are still there and the pointer
  registers are the places modulo `PtrMod` (`Stored`); and where the task is in
  the next record at each of its labels (`Reading`).  The sizes matter here: that
  `PtrMod` is a multiple of `RxBufSize` makes the place in the memory the same
  before and after the pointer wraps.  There is one lemma for a frame that
  arrives (`ArrivalKeepsStream`: it overwrites no pending record), one for the
  steps of others and one for the task's.
- `PendingInMemory` adds up the records with a fold.  Its value is found by an
  induction over the number of frames (`RecordsValue`).  The induction theorem of
  the library takes an operator, which the provers cannot instantiate; the lemma
  `Induction` states it of a set of numbers, and follows from the pigeonhole
  principle of the library.
- `ImplementsFifo`: `Spec => Fifo!Init /\ [][Fifo!Next]_<<arrived, delivered>>`,
  the safety half of `FifoSpec`: a step of the data path is `Store` when
  `arrived` grows (only by a frame at its end), `Deliver` when `delivered` does,
  and a stutter otherwise.

`PhyLink_proofs`, without `QuietReopen` except where it says so, so with link-ups
at any moment:

- `LinkAlwaysBacked`: `LinkSpec => []LinkBacked`.  The invariant `LinkInv` says
  what a poll has reached at each label (`SocketReady`), that CLOSE is in S0_CR
  only while the link is marked down (`ClosesWhenDown`), and that the stack is
  told of a link that is down before the next link-up (`BeliefOwned`).
- `LinkNeverStalls`: `RecvAwaited => (LinkSpec => []NoStallAfterLinkUp)`.  A poll
  may clear the RECV event of a frame that is stored (`driver.c` clears all of S0_IR
  when it opens the socket and again when it enables its interrupt), so `EventKept`
  fails.  `LinkAwake` has, while the link is up, the event
  or a notification: the poll gives it before it marks the link up.
- `ReopenDeliversOnce`:
  `QuietReopen /\ RecvReliable => (LinkSpec => []DeliveredOnce)`.  OPEN drops the
  frames the memory holds, so `delivered` is no prefix any more.  `Ascending` has
  in its place that the next frame to deliver comes after all that were
  (`DeliveredBelow`), and `Outside` that the task is in no frame from CLOSE until
  the socket is open again: the label the poll waits at, S0_CR and S0_SR say so
  together.
- `LinkTypeCorrect`: `LinkSpec => []LinkTypeOK`.

`MacLife_proofs`:

- `OnlyOneTask`: `LifeSpec => []OneTask`, for hasty stacks too.  The handle is
  set exactly while the task exists, and only the one call of the stack creates.
- `NotifiesTheLiving`: `AddReliable => (LifeSpec => []IrqTaskAlive)`.
  `AddReliable` leaves out a failure of `gpio_isr_handler_add`, after which
  `interrupt_task_handle` names a task that ends (`driver.c:193-197`).
- `PatientListens`: `Patient => (LifeSpec => []StartedListens)`.  `LifeInv`
  follows a start from the call to the registered task: no late write and no
  unfinished registration is met (`Starting`), and until the next stop the task
  is about to be created, or exists with `started` set (`Up`).
- `StartedNeverStalls`:
  `Patient /\ RecvAwaited => (LifeSpec => []NoStallAfterStart)`.  `WakeInv`
  carries the wakeup over a stop and a start.  While there is no task in the
  loop, and past the last look at RX_RSR of a started one, pending bytes have
  their event (`Awake`); a task that a stop sends out of its drain breaks this,
  which is what `left` tells.  A low pin is looked at behind the registration
  (`Edged`).  `Patient` is needed twice: for the interrupt (`LifeInv`), and for
  `FlagForNobody`, that a start which sets the flag finds no task, whose last
  look may have been before a stop.
- `RestartDeliversInOrder`: `RecvReliable => (LifeSpec => []InOrder)`, for hasty
  stacks too: a task ends between two frames only.
- They rest on one lemma, `DataLeavesLife`: the data path changes nothing
  of the life cycle, but that a task may leave its loop after a stop.

`SpiBus_proofs`, for any number of threads, any set of byte values and any number
of attempts.  Two theorems are about `BusSpec`, with deinit next to users:

- `BusTypeCorrect`: `BusSpec => []BusTypeOK`.
- `AllOrNothingHolds`: `BusSpec => []AllOrNothing`, from `Stages`, what exists at
  each label of init and deinit.

Four are about `QuietSpec`, since with a deleted lock none of them holds.
`QuietInv` adds to `Stages` that no thread is past its test while init has not
published or deinit has begun (`Apart`), and `LockInv`, which ties `owner`, the
labels on the bus and the buffers together:

- `OneOnTheBusHolds`, `NothingLeaksHolds`: parts of `LockInv`.
- `RegistersAreAtomic`: `QuietSpec => AtomicRegisters`, the refinement of
  `RegFile`.  A write takes effect for its callers with its first byte, while
  `reg` still holds half of the old word: `TheFile` is the word of the thread that
  is half-way, and `reg` otherwise, which is well defined only because at most
  one thread is on the bus.  `HighAgrees` says that the first byte already sent
  or read is that of the file, so that the second completes the word.  The proof
  has one lemma for each kind of step, which maps it to a step of `RegFile` or to
  a stutter.
- `StableIsRealHolds`: from `ReadInv`.  A reading takes its high byte from one
  value of the counter and its low byte from a later one (`Torn`), whose own high
  byte is at most that of the next reading, as the counter grew (`Follows`).  If
  the two readings are equal, all these high bytes are, and the reading is the
  later value (`EqualReadings`).

`PhyMode_proofs`, for any number of failures and any sets of modes:

- `ModeInForceHolds`, `ForcedAsAskedHolds`: from `ForceInv`, which says what
  `opmdc` and the reset bit are at each label of `apply_mode`, and that between
  two calls the register still is what the flags, or the unmeasured wish, ask for.
- `SpeedBeforeUpHolds`: `ModeSpec => SpeedBeforeUp`, an action property, from
  `ReportInv`: past the comparison of a field its report agrees with what this
  poll read, unless a call has changed the wish without a report since.
- `ModeTypeCorrect`: `ModeSpec => []ModeTypeOK`.

`HttpDemo_proofs`, for any length of the queue, set of addresses, number of
chunks and set of failing steps:

- `AvailableServesHolds`: from `ServerInv`, which says at each label of the event
  loop which of handle, server, handlers, data and `available` are set.
- `OkMeansUpHolds`: adds `HandlerInv`.  A request is in a handler only while a
  server runs, and the data is set down only after that server was stopped, so
  after the handler returned, or leaked.
- `AnswersRecentHolds`: `DemoSpec => AnswersRecent`, an action property, from
  `LockInv`, which ties `data_lock` to the labels that write and copy the data and
  says that a copy that has begun agrees with the data.
- `DownloadFreesHolds`: from `DownloadInv`.
- `DemoTypeCorrect`: `DemoSpec => []DemoTypeOK`.

Every invariant and every action property of the passing runs is proved.
Model-checked only is what the prover cannot treat, liveness under fairness:
`TxReturns`, `TxKeepsGoing`, `RescuedBySend`, `LinkTold`, `LinkDrains`,
`StopEnds`, `StartedDrains`, `CallsReturn`, `PowerOffTakesDown`, `ComesBack`,
`LoopReturns`, and that every frame is delivered in the end (the other half of
`FifoSpec`).

## 8. What the repository's documentation says and the code does not do

| Run | Property | |
|---|---|---|
| `MacData_one_failure` | `EachFrameDelivered` | FR-03.2.  RECV is cleared before the memory is drained; one failed transaction or allocation in the drain leaves the frame there with no event.  It is delivered with the next frame, or never.  A failed write of RECV (`mac.c:646`) behind that of Sn_RX_RD loses a frame that was read whole: the next RECV releases it with the one behind |
| `PhyLink_reopen` | `ReceptionPossible` | FR-03.1.  A link-up reopens the socket under a receive in progress, whose RECV then commits a pointer of before |
| `MacLife_hasty` | `StartedListens` | FR-02.1.  A start that comes before the task has noticed the stop keeps the task, whose interrupt stays disabled, or a handle of a task on its way out |
| `HttpDemo_stale` | `RefusesWhenDown` | FR-10.  A GOT_IP event that was queued behind a DISCONNECTED event makes the demo available again with the link down |

Met while modelling, with no run of their own.  Each is left out of a run by a
named constant or premise; where the text says that a property is violated, TLC
finds that when the constant or the premise is changed as it says.

- When the write of SEND fails (`driver.c:452-455`) after Sn_TX_WR was advanced,
  the next SEND sends two frames as one (FR-04.2): `WholeFrames` is violated with
  `tx_cmd` in `FaultAt`, which `MacData_tx` has not, and `SendReliable` is a premise
  of the theorems.
- When the write of RECV fails (`mac.c:646`) the frame is lost, as above, and
  later ones are delivered: `rcv_cmd` and `rcv_wait` are not in `FaultAt` of the
  passing runs that check `InOrder`, which is violated with `rcv_cmd` there.
- `link` is set before the stack is told (`phy.c:341-347, 351-357`), and a failed
  report is not repeated (FR-02.2): `LinkTold` is violated with `tell_up` or
  `tell_down` in `FaultAt`, which `PhyLink_link` has not.
- `w5500_spi_deinit` takes no lock, does not wait for users and clears
  `initialized` last (`spi.c:98-116`), so a thread that passed the test of
  `spi.c:120` goes on over a removed device and a deleted lock: `OneOnTheBus` is
  violated by `BusSpec`, after the next init has created another lock.
- When `httpd_stop` fails (`demo_http_server.c:156-162`) the handle is dropped all
  the same: the server keeps the port and no later start succeeds (FR-06).
  `demo_on_network_down` leaves the data at "up" then (`demo.c:77-81`), to be read
  only once it is set again.
- `stop()` tests the handle of the RX task after it has cleared `started`
  (`mac.c:276-280`): the task may see that, end and delete itself in between, and
  the notification goes to a deleted task.
- A poll with the link down overwrites `speed` and `duplex` with what PHYCFGR
  shows then and reports neither (`phy.c:360-361`).  A forced mode is lost that
  way, and a link that comes back with the values shown while it was down is
  reported as up with the stack still told the old ones (FR-02.2): hence
  `measured` and `silent` in `ForcedAsAsked` and `SpeedBeforeUp`.  A failed report
  of the speed or the duplex is not repeated either (`phy.c:303-319`).
- When `gpio_isr_handler_add` fails (`driver.c:193-197`) `interrupt_task_handle`
  names a task that ends: `reg_add` is not in `FaultAt` of `MacLife_restart`, and
  `AddReliable` is a premise of `NotifiesTheLiving`.
- The results of `spi_bus_free` and `spi_bus_remove_device` are ignored: a bus that
  stays up makes every later init fail.
- A failure of `demo_on_network_ready` is only logged (`main.c:87-90`): the
  server is not started until the next address (FR-06).  Nor is anything repeated
  of a link or an address event that found the queue of the event loop full.
- A download that breaks off after its first chunk is answered with 502 behind
  the chunks (`demo_http_server.c:85-92`), whose bytes are not counted; an answer
  that could not be sent is counted all the same (`demo_http_server.c:18-19`).
- If the chip kept a command over several transactions (`SlowCommands`), the RX
  task's RECV could overwrite SEND in S0_CR and `SuccessIsSent` would fail.  The
  driver takes no lock over the write and the wait, so it relies on a chip that
  takes a command before the next transaction; the runs do the same.
- FR-04.4 asks for success or timeout as the result of a transmission: a full
  memory is `ESP_ERR_NO_MEM`, and a TIMEOUT event is swallowed by the next call
  (`driver.c:412`).
- The late `started = false` of a failed registration (`mac.c:504`) may stop the
  task of the next start; a stop() then returns early (`mac.c:272`) and leaves
  that task asleep for ever.  `Patient` excludes it, and no run has such a
  failure next to a hasty start.
- `w5500_mac_del` frees the object that the task it asked to end still uses
  (`mac.c:489`).

## 9. Not modelled

The time a wait takes (the models have failures in place of timeouts); FreeRTOS
priorities and ticks; the contents of frames, of answers and of images; logging;
the other seven sockets; `w5500_mac_receive`, which the stack never calls for a
driver that pushes frames; `w5500_mac_del` (what follows is undefined) and
`deinit` (a report only); soft and hard reset and SHAR, which `app_main` and
`w5500_mac_init` use once, before there is anything to interleave with; the
GPIO set-up of `w5500_driver_init`; a sender next to a stop or a link-up;
ETHERNET_EVENT_STOP, which nothing in the demo can cause; the loss of an address
by the expiry of its lease, for which the demo registers no handler.

Of the components, only the MAC wiring has no module: tables of callbacks, and
callbacks that store one value or return ESP_ERR_NOT_SUPPORTED.

## 10. Plan

All modules of the first plan are there.  What would add most, in this order:

1. A sender next to the life cycle and to link-ups (`TxLens` not empty there):
   what a reopening does to a frame half sent.  The theorems of `PhyLink_proofs`
   and `MacLife_proofs` cover a sender already, the runs do not.
2. `SendsWholeFrames` and `SuccessMeansSent` over restarts, by the same lemmas.
3. `InOrder` over link-ups that drop nothing: with the memory empty at every
   reopening, reception implements `FrameFifo` there too.

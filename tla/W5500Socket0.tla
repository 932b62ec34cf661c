--------------------------- MODULE W5500Socket0 ---------------------------
(***************************************************************************)
(* Socket 0 of the W5500 chip, opened in MACRAW mode, as the driver sees   *)
(* it through its registers, its two packet memories and its INTn pin.     *)
(* The chip is not part of the repository: this module is the external     *)
(* half of the model, and says what w5500_regs.c, w5500_driver.c and       *)
(* w5500_mac.c assume of the chip.  Every register access of the driver is *)
(* one SPI transaction under the SPI lock, so it is one atomic step of the *)
(* modules that extend this one.                                           *)
(*                                                                         *)
(* Memory is counted in abstract units.  A received frame is a record of   *)
(* its arrival number and its length; in memory it is preceded by a header *)
(* of HdrLen units that holds the length of the whole record.              *)
(***************************************************************************)
EXTENDS Integers, Sequences, FiniteSets

CONSTANTS
  PtrMod,       (* modulus of the pointer registers: 2^16                  *)
  RxBufSize,    (* Sn_RXBUF_SIZE: 16 KB                                    *)
  TxBufSize,    (* Sn_TXBUF_SIZE: 16 KB                                    *)
  HdrLen,       (* sizeof(header) in front of each received frame          *)
  MinFrame,     (* smallest frame length the driver accepts: 60            *)
  MaxFrame,     (* largest frame length: W5500_MAC_RX_BUF_SIZE             *)
  FrameLens,    (* lengths of the frames that arrive                       *)
  MaxArrivals,  (* bound: number of frames that arrive                     *)
  OtherEvents,  (* the chip may raise CON, DISCON and bits of IR           *)
  SlowCommands  (* TRUE: a command may stay in Sn_CR across several SPI    *)
                (* transactions; FALSE: the chip takes it before the next  *)

ASSUME ChipAssumption ==
  /\ PtrMod \in Nat /\ RxBufSize \in Nat \ {0} /\ TxBufSize \in Nat \ {0}
  /\ 2 * RxBufSize <= PtrMod /\ PtrMod % RxBufSize = 0
  /\ 2 * TxBufSize <= PtrMod
  /\ HdrLen \in Nat \ {0} /\ MinFrame \in Nat \ {0} /\ MaxFrame \in Nat
  /\ FrameLens \subseteq MinFrame .. MaxFrame
  /\ MaxArrivals \in Nat
  /\ OtherEvents \in BOOLEAN /\ SlowCommands \in BOOLEAN

VARIABLES
  sn_sr,      (* S0_SR: "MACRAW" or "CLOSED"                               *)
  sn_cr,      (* S0_CR: the command the chip has not taken yet, or "NONE"  *)
  sn_ir,      (* S0_IR: the set of interrupt bits that are 1               *)
  sn_masked,  (* the RECV interrupt is masked by S0_IMR or SIMR            *)
  ir,         (* a bit of the common register IR is 1                      *)
  int_low,    (* the INTn pin is asserted (low)                            *)
  rx_wr,      (* S0_RX_WR: where the next frame will be stored             *)
  rx_ack,     (* the read pointer the last RECV command committed          *)
  rx_rd,      (* S0_RX_RD: the read pointer register                       *)
  rx_mem,     (* the RX memory: headers of frames, other bytes             *)
  arrived,    (* history: the frames stored in the RX memory so far        *)
  tx_wr,      (* S0_TX_WR: the write pointer register                      *)
  tx_sent,    (* the write pointer the last SEND command committed         *)
  tx_rd,      (* S0_TX_RD: everything before it is on the wire             *)
  tx_staged,  (* history: frames put before tx_wr since the last SEND      *)
  tx_merged   (* history: some SEND covered other than one whole frame     *)

command   == <<sn_sr, sn_cr>>
interrupt == <<sn_ir, sn_masked, ir, int_low>>
rxStore   == <<rx_wr, rx_ack, rx_mem, arrived>>
txRing    == <<tx_wr, tx_sent, tx_rd, tx_staged, tx_merged>>
chip      == <<command, interrupt, rxStore, rx_rd, txRing>>

(* "CONN" stands for the two bits CON and DISCON.                          *)
IrBits   == {"CONN", "RECV", "TIMEOUT", "SEND_OK"}
Commands == {"NONE", "OPEN", "CLOSE", "SEND", "RECV"}
Pointer  == 0 .. PtrMod - 1

(* The contents of the memory where no header was stored: bytes of a       *)
(* frame, or bytes nothing was written to.                                 *)
Bytes == [id |-> 0, len |-> 0]
Frame == [id : 1 .. MaxArrivals, len : FrameLens]

Distance(from, to) == (to - from) % PtrMod

(* S0_RX_RSR, the bytes received and not yet released by a RECV command.   *)
RxRsr == Distance(rx_ack, rx_wr)

(* S0_TX_FSR, the free space of the TX memory, and what is not free.       *)
TxUsed == Distance(tx_rd, tx_wr)
TxFsr  == IF TxUsed <= TxBufSize THEN TxBufSize - TxUsed ELSE 0

(* Socket 0 asks for the INTn pin, and what a read of bit S0 of SIR may    *)
(* return: an unmasked event sets the bit, a masked one may.               *)
Sir      == "RECV" \in sn_ir /\ ~sn_masked
SirReads == {bit \in BOOLEAN : (Sir => bit) /\ (bit => sn_ir # {})}

(* What a driver that reads a record header at pointer p takes for the     *)
(* length of the record, and the payload it reads behind that header.      *)
HeaderAt(p) ==
  LET c == rx_mem[p % RxBufSize]
  IN  IF c = Bytes THEN Pointer ELSE {HdrLen + c.len}

PayloadAt(p, len) ==
  LET c == rx_mem[p % RxBufSize] IN IF c.len = len THEN c ELSE Bytes

ChipCleared ==
  /\ sn_cr = "NONE"
  /\ sn_ir = {} /\ ir = FALSE /\ int_low = FALSE
  /\ rx_wr = 0 /\ rx_ack = 0 /\ rx_rd = 0
  /\ rx_mem = [a \in 0 .. RxBufSize - 1 |-> Bytes]
  /\ arrived = <<>>
  /\ tx_wr = 0 /\ tx_sent = 0 /\ tx_rd = 0
  /\ tx_staged = 0 /\ tx_merged = FALSE

ChipInit == sn_sr \in {"MACRAW", "CLOSED"} /\ sn_masked = FALSE /\ ChipCleared

---------------------------------------------------------------------------
(* A frame is stored when the memory has room for it (it is lost on the    *)
(* chip otherwise, with no effect), and RECV is raised.                    *)
FrameArrives ==
  \E len \in FrameLens :
    LET f == [id |-> Len(arrived) + 1, len |-> len]
        Overwritten(a) == (a - rx_wr) % RxBufSize < HdrLen + len
    IN  /\ Len(arrived) < MaxArrivals
        /\ sn_sr = "MACRAW"
        /\ RxRsr + HdrLen + len <= RxBufSize
        /\ rx_mem' = [a \in 0 .. RxBufSize - 1 |->
                        IF a = rx_wr % RxBufSize THEN f
                        ELSE IF Overwritten(a) THEN Bytes ELSE rx_mem[a]]
        /\ rx_wr' = (rx_wr + HdrLen + len) % PtrMod
        /\ arrived' = Append(arrived, f)
        /\ sn_ir' = sn_ir \cup {"RECV"}
        /\ UNCHANGED <<command, sn_masked, ir, int_low, rx_ack, rx_rd, txRing>>

(* RECV releases the memory up to the read pointer register.               *)
TakeRecv ==
  /\ sn_cr = "RECV"
  /\ sn_cr' = "NONE"
  /\ rx_ack' = rx_rd
  /\ UNCHANGED <<sn_sr, interrupt, rx_wr, rx_mem, arrived, rx_rd, txRing>>

(* SEND sends the bytes between the last SEND and the write pointer        *)
(* register as one Ethernet frame.                                         *)
TakeSend ==
  /\ sn_cr = "SEND"
  /\ sn_cr' = "NONE"
  /\ tx_sent' = tx_wr
  /\ tx_staged' = 0
  /\ tx_merged' = (tx_merged \/ tx_staged # 1)
  /\ UNCHANGED <<sn_sr, interrupt, rxStore, rx_rd, tx_wr, tx_rd>>

(* The frames sent so far are on the wire, or the last one timed out.      *)
SendDone ==
  /\ tx_rd # tx_sent
  /\ tx_rd' = tx_sent
  /\ \E bit \in {"SEND_OK", "TIMEOUT"} : sn_ir' = sn_ir \cup {bit}
  /\ UNCHANGED <<command, sn_masked, ir, int_low, rxStore, rx_rd, tx_wr,
                 tx_sent, tx_staged, tx_merged>>

(* Events the driver does not expect of a MACRAW socket: CON or DISCON, or *)
(* a bit of the common register, which is masked from the pin.             *)
OtherEvent ==
  /\ OtherEvents
  /\ \/ "CONN" \notin sn_ir /\ sn_ir' = sn_ir \cup {"CONN"} /\ UNCHANGED ir
     \/ ~ir /\ ir' = TRUE /\ UNCHANGED sn_ir
  /\ UNCHANGED <<command, sn_masked, int_low, rxStore, rx_rd, txRing>>

ChipStep == FrameArrives \/ TakeRecv \/ TakeSend \/ SendDone \/ OtherEvent

---------------------------------------------------------------------------
(* Writing 1 to bits of S0_IR clears them.  The pin is released when the   *)
(* only unmasked one is cleared; it falls again no sooner than the time in *)
(* INTLEVEL, as a step of its own.                                         *)
ClearSnIr(bits) ==
  /\ sn_ir' = sn_ir \ bits
  /\ int_low' = (int_low /\ "RECV" \notin bits)
  /\ UNCHANGED <<sn_masked, ir>>

ChipTypeOK ==
  /\ sn_sr \in {"MACRAW", "CLOSED"} /\ sn_cr \in Commands
  /\ sn_ir \subseteq IrBits
  /\ sn_masked \in BOOLEAN /\ ir \in BOOLEAN /\ int_low \in BOOLEAN
  /\ rx_wr \in Pointer /\ rx_ack \in Pointer /\ rx_rd \in Pointer
  /\ rx_mem \in [0 .. RxBufSize - 1 -> Frame \cup {Bytes}]
  /\ arrived \in Seq(Frame)
  /\ tx_wr \in Pointer /\ tx_sent \in Pointer /\ tx_rd \in Pointer
  /\ tx_staged \in Nat /\ tx_merged \in BOOLEAN
===========================================================================

------------------------------- MODULE MacTx -------------------------------
(***************************************************************************)
(* w5500_mac_transmit and w5500_socket0_send_raw_frame, run by the thread  *)
(* of the network stack that sends; the stack sends one frame at a time.   *)
(***************************************************************************)
EXTENDS W5500Irq

CONSTANT TxLens   (* the lengths of the frames that are sent               *)

ASSUME TxAssumption == TxLens \subseteq Nat \ {0}

VARIABLES
  tx_len,      (* len of w5500_socket0_send_raw_frame                      *)
  tx_ptr,      (* its tx_wr                                                *)
  tx_res       (* what the last w5500_mac_transmit returned                *)

tx == <<tx_len, tx_ptr, tx_res>>

TxLabels  == CompLabels \cup {"idle", "tx_sr", "tx_fsr", "tx_wr", "tx_buf",
                              "tx_wwr", "tx_cmd", "tx_wait"}
TxResults == {"none", "ok", "no_mem", "invalid_state", "failed"}

txIrq == <<wakeup, gpio, comp_ir, service, faults>>

Return(result) ==
  /\ tx_res' = result
  /\ tx_len' = 0 /\ tx_ptr' = 0
  /\ Go("tx", "idle")

---------------------------------------------------------------------------
(* The caller never sends an empty frame.                                  *)
Transmit ==
  /\ pc["tx"] = "idle"
  /\ tx_len' \in TxLens
  /\ tx_res' = "none"
  /\ Go("tx", "comp")
  /\ UNCHANGED <<chip, txIrq, tx_ptr>>

(* Mutant: a closed socket is waited for.                                  *)
TxReadSrWaits ==
  /\ At("tx", "tx_sr")
  /\ Go("tx", IF sn_sr = "MACRAW" THEN "tx_fsr" ELSE "comp")
  /\ UNCHANGED <<chip, txIrq, tx>>

TxReadSr ==
  /\ At("tx", "tx_sr")
  /\ IF sn_sr = "MACRAW" THEN Go("tx", "tx_fsr") /\ UNCHANGED tx
                         ELSE Return("invalid_state")
  /\ UNCHANGED <<chip, txIrq>>

(* Mutant: off by one in the test of the free space.                       *)
TxReadFsrOffByOne ==
  /\ At("tx", "tx_fsr")
  /\ IF TxFsr + 1 >= tx_len THEN Go("tx", "tx_wr") /\ UNCHANGED tx
                            ELSE Return("no_mem")
  /\ UNCHANGED <<chip, txIrq>>

TxReadFsr ==
  /\ At("tx", "tx_fsr")
  /\ IF TxFsr >= tx_len THEN Go("tx", "tx_wr") /\ UNCHANGED tx
                        ELSE Return("no_mem")
  /\ UNCHANGED <<chip, txIrq>>

TxReadWr ==
  /\ At("tx", "tx_wr")
  /\ tx_ptr' = tx_wr
  /\ Go("tx", "tx_buf")
  /\ UNCHANGED <<chip, txIrq, tx_len, tx_res>>

(* Mutant: the pointer is not cut to 16 bits.                              *)
TxWriteBufferNoWrap ==
  /\ At("tx", "tx_buf")
  /\ tx_ptr' = tx_ptr + tx_len
  /\ Go("tx", "tx_wwr")
  /\ UNCHANGED <<chip, txIrq, tx_len, tx_res>>

(* Mutant: Sn_TX_WR is not written.                                        *)
TxWriteBufferOnly ==
  /\ At("tx", "tx_buf")
  /\ Go("tx", "tx_cmd")
  /\ UNCHANGED <<chip, txIrq, tx>>

(* The bytes of the frame, then the pointer behind them.                   *)
TxWriteBuffer ==
  /\ At("tx", "tx_buf")
  /\ tx_ptr' = (tx_ptr + tx_len) % PtrMod
  /\ Go("tx", "tx_wwr")
  /\ UNCHANGED <<chip, txIrq, tx_len, tx_res>>

(* Mutant: the SEND command is forgotten.                                  *)
TxWriteWrOnly ==
  /\ At("tx", "tx_wwr")
  /\ tx_wr' = tx_ptr
  /\ tx_staged' = tx_staged + 1
  /\ Go("tx", "tx_wait")
  /\ UNCHANGED <<command, interrupt, rxStore, rx_rd, tx_sent, tx_rd,
                 tx_merged, txIrq, tx>>

TxWriteWr ==
  /\ At("tx", "tx_wwr")
  /\ tx_wr' = tx_ptr
  /\ tx_staged' = tx_staged + 1
  /\ Go("tx", "tx_cmd")
  /\ UNCHANGED <<command, interrupt, rxStore, rx_rd, tx_sent, tx_rd,
                 tx_merged, txIrq, tx>>

TxCommand ==
  /\ At("tx", "tx_cmd")
  /\ sn_cr' = "SEND"
  /\ Go("tx", "tx_wait")
  /\ UNCHANGED <<sn_sr, interrupt, rxStore, rx_rd, txRing, txIrq, tx>>

TxDone ==
  /\ pc["tx"] = "tx_wait" /\ sn_cr = "NONE"
  /\ Return("ok")
  /\ UNCHANGED <<chip, txIrq>>

(* A transaction fails, or the wait for the command register times out.    *)
TxFails ==
  /\ Fails("tx", TxLabels \ {"idle", "comp_notify"})
  /\ comp_ir' = [comp_ir EXCEPT !["tx"] = {}]
  /\ Return("failed")
  /\ UNCHANGED <<chip, wakeup, gpio, service>>

---------------------------------------------------------------------------
TxStep ==
  \/ UpdateTxCompletion("tx") /\ UNCHANGED tx
  \/ TxReadSr \/ TxReadFsr \/ TxReadWr \/ TxWriteBuffer \/ TxWriteWr
  \/ TxCommand \/ TxDone \/ TxFails

TxInit == tx_len = 0 /\ tx_ptr = 0 /\ tx_res = "none"

TxTypeOK ==
  /\ tx_len \in TxLens \cup {0} /\ tx_ptr \in Pointer /\ tx_res \in TxResults
============================================================================

------------------------------ MODULE MCOcores ------------------------------
(***************************************************************************)
(* The drivers i2c-ocores and spi-ocores, one of them per behaviour, both  *)
(* by interrupts or both by polling.                                       *)
(*                                                                         *)
(* Transfers: a probe without bytes, a write and a read of two bytes each, *)
(* a read followed by a write in two parts.                                *)
(*                                                                         *)
(* Messages: of up to three transfers, of one to three words of 8 to 128   *)
(* bits, held together or apart; the last two have a transfer the driver   *)
(* refuses, one too wide and one too short.                                *)
(***************************************************************************)
EXTENDS I2cOcores, SpiOcores

ReadMsg(n)  == [rd |-> TRUE, len |-> n, nostart |-> FALSE]
WriteMsg(n) == [rd |-> FALSE, len |-> n, nostart |-> FALSE]
Part(n)     == [rd |-> FALSE, len |-> n, nostart |-> TRUE]

MCTransfers ==
  {<<WriteMsg(0)>>, <<WriteMsg(2), ReadMsg(2)>>, <<ReadMsg(1), WriteMsg(1), Part(1)>>}

Xfer(len, bits, change, t, r) ==
  [len |-> len, bits |-> bits, cs_change |-> change, tx |-> t, rx |-> r]

MCMessages ==
  {<<Xfer(3, 8, FALSE, TRUE, FALSE)>>,
   <<Xfer(1, 8, FALSE, TRUE, FALSE), Xfer(4, 16, FALSE, FALSE, TRUE)>>,
   <<Xfer(8, 32, TRUE, TRUE, TRUE), Xfer(16, 64, FALSE, TRUE, TRUE)>>,
   <<Xfer(32, 128, TRUE, TRUE, TRUE)>>,
   <<Xfer(1, 8, FALSE, TRUE, TRUE), Xfer(1, 8, TRUE, FALSE, TRUE),
     Xfer(2, 16, FALSE, TRUE, FALSE)>>,
   <<Xfer(2, 8, FALSE, TRUE, TRUE), Xfer(32, 129, FALSE, TRUE, TRUE)>>,
   <<Xfer(1, 8, FALSE, TRUE, FALSE), Xfer(1, 16, FALSE, TRUE, FALSE)>>}

VARIABLE driver   \* the driver of this behaviour; never changes

mcVars == <<vars, spiVars, driver>>

MCInit ==
  /\ Init /\ SpiInit /\ spi_poll = poll /\ driver \in {"i2c", "spi"}
  /\ driver = "i2c" => cs = 0

(* The thread has left a message unfinished: nothing goes on.              *)
GaveUp == spi_pc["thread"] = "stuck" /\ UNCHANGED spiVars

MCNext ==
  /\ UNCHANGED driver
  /\ \/ driver = "i2c" /\ Next /\ UNCHANGED spiVars
     \/ driver = "spi" /\ (SpiNext \/ GaveUp) /\ UNCHANGED vars

MCWorking ==
  /\ UNCHANGED driver
  /\ \/ driver = "i2c" /\ Working /\ UNCHANGED spiVars
     \/ driver = "spi" /\ SpiWorking /\ UNCHANGED vars

MCSpec == MCInit /\ [][MCNext]_mcVars /\ WF_mcVars(MCWorking)

=============================================================================

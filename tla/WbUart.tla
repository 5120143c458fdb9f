------------------------------- MODULE WbUart -------------------------------
(***************************************************************************)
(* The Linux driver wb_uart on wb_simple_uart with FIFOs.  The interrupt   *)
(* handler runs on the CPU of the system calls, which it then suspends, or *)
(* on another one, beside them.  A register access is a step of its own;   *)
(* between two of them anything else may run.  Bytes are numbered in the   *)
(* order they are written, and in the order they enter the receive FIFO.   *)
(***************************************************************************)
EXTENDS Naturals, Sequences, FiniteSets

CONSTANTS PAGE_SIZE,                  \* of the ring xmit_buf
          MAX_NBR_OF_BYTES_PER_IRQ,
          TxSize, RxSize,             \* of the FIFOs of the UART
          Files,                      \* the files that may be open on the tty
          MaxWrite,                   \* bytes of one write()
          MaxTx, MaxRx                \* bound: bytes written, bytes received

ASSUME SizeAssumption ==
  /\ {PAGE_SIZE, MAX_NBR_OF_BYTES_PER_IRQ, TxSize, RxSize} \subseteq Nat \ {0}
  /\ {MaxWrite, MaxTx, MaxRx} \subseteq Nat

VARIABLES
  smp,                                      \* is there a second CPU? (never changes)
  cr,                                       \* interrupt enables, register CR
  txFifo, shifter, sent,                    \* transmitter, what left on the line
  rxFifo, rdr, rxRdy, flip,                 \* receiver, what the tty was handed
  xmit_buf, ptr_read, ptr_write, nb_bytes,  \* the ring of the channel
  lock,                                     \* who holds channel->lock
  open_count, file,                         \* opens, and what each file got
  irq, irqCpu, irqCr, max_count,            \* the handler: place, CPU, CR it read
  sys, sysCr,                               \* the system call: place, CR it read
  waiting,                                  \* a writer sleeps until tty_wakeup
  accepted, arrived,                        \* bytes write() took, bytes received
  left                                      \* shut down with bytes in the ring
                                            \* and nothing written since
hw   == <<txFifo, shifter, sent, rxFifo, rdr, rxRdy, arrived>>
ring == <<xmit_buf, ptr_read, ptr_write, nb_bytes>>
hand == <<irq, irqCpu, irqCr, max_count>>
call == <<sys, sysCr, waiting, accepted, left>>
tty  == <<open_count, file>>
vars == <<smp, cr, hw, flip, ring, lock, tty, hand, call>>

Advance(ptr) == (ptr + 1) % PAGE_SIZE

Init ==
  /\ smp \in BOOLEAN
  /\ cr = [rx |-> FALSE, tx |-> FALSE]
  /\ txFifo = <<>> /\ shifter = <<>> /\ sent = <<>>
  /\ rxFifo = <<>> /\ rdr = 0 /\ rxRdy = FALSE /\ flip = <<>>
  /\ xmit_buf = [p \in 0..(PAGE_SIZE - 1) |-> 0]
  /\ ptr_read = 0 /\ ptr_write = 0 /\ nb_bytes = 0
  /\ lock = "none" /\ open_count = 0 /\ file = [f \in Files |-> "none"]
  /\ irq = "out" /\ irqCpu = "same" /\ irqCr = cr /\ max_count = 0
  /\ sys = "idle" /\ sysCr = cr /\ waiting = FALSE
  /\ accepted = 0 /\ arrived = 0 /\ left = FALSE

-----------------------------------------------------------------------------
(* The UART                                                                *)

TxBusy == Len(txFifo) = TxSize

WriteTdr(c) == IF TxBusy THEN txFifo ELSE Append(txFifo, c)

Interrupt == (rxRdy /\ cr.rx) \/ (~TxBusy /\ cr.tx)

tx_fifo_fsm ==                        \* IDLE: the next byte starts
  /\ shifter = <<>> /\ txFifo # <<>>
  /\ shifter' = <<Head(txFifo)>> /\ txFifo' = Tail(txFifo)
  /\ UNCHANGED <<smp, cr, sent, rxFifo, rdr, rxRdy, arrived, flip, ring, lock, tty, hand, call>>

TxDone ==                             \* TRANSMIT_PENDING ends
  /\ shifter # <<>>
  /\ sent' = sent \o shifter /\ shifter' = <<>>
  /\ UNCHANGED <<smp, cr, txFifo, rxFifo, rdr, rxRdy, arrived, flip, ring, lock, tty, hand, call>>

RxArrives ==                          \* a byte is dropped when the FIFO is full
  /\ arrived < MaxRx /\ Len(rxFifo) < RxSize
  /\ rxFifo' = Append(rxFifo, arrived + 1) /\ arrived' = arrived + 1
  /\ UNCHANGED <<smp, cr, txFifo, shifter, sent, rdr, rxRdy, flip, ring, lock, tty, hand, call>>

rx_fifo_fsm ==                        \* RX_READ: the next byte waits in RDR
  /\ ~rxRdy /\ rxFifo # <<>>
  /\ rdr' = Head(rxFifo) /\ rxRdy' = TRUE /\ rxFifo' = Tail(rxFifo)
  /\ UNCHANGED <<smp, cr, txFifo, shifter, sent, arrived, flip, ring, lock, tty, hand, call>>

-----------------------------------------------------------------------------
(* The interrupt handler                                                   *)

Mut_wbu_tty_handler(cpu) ==
  /\ irq = "out" /\ Interrupt
  /\ cpu = "same" \/ smp
  /\ rxRdy \/ nb_bytes # 0
  /\ irq' = "rx" /\ irqCpu' = cpu /\ max_count' = MAX_NBR_OF_BYTES_PER_IRQ
  /\ UNCHANGED <<smp, cr, hw, flip, ring, lock, tty, irqCr, call>>

(* IRQ_NONE changes nothing.  The lock is taken with interrupts off.       *)
wbu_tty_handler(cpu) ==
  /\ irq = "out" /\ Interrupt
  /\ IF cpu = "same" THEN lock # "sys" ELSE smp
  /\ rxRdy \/ nb_bytes # 0
  /\ irq' = "rx" /\ irqCpu' = cpu /\ max_count' = MAX_NBR_OF_BYTES_PER_IRQ
  /\ UNCHANGED <<smp, cr, hw, flip, ring, lock, tty, irqCr, call>>

wbu_tty_handler_rx ==
  /\ irq = "rx"
  /\ IF rxRdy /\ max_count > 0
     THEN /\ flip' = Append(flip, rdr) /\ rxRdy' = FALSE
          /\ max_count' = max_count - 1 /\ UNCHANGED irq
     ELSE irq' = "tx" /\ UNCHANGED <<flip, rxRdy, max_count>>
  /\ UNCHANGED <<smp, cr, txFifo, shifter, sent, rxFifo, rdr, arrived, ring, lock, tty,
                 irqCpu, irqCr, call>>

wbu_tty_handler_tx ==                 \* nb_bytes is read without the lock
  /\ irq = "tx"
  /\ IF nb_bytes = 0
     THEN irq' = "out" /\ UNCHANGED <<lock, max_count>>
     ELSE /\ lock = "none" /\ lock' = "irq"
          /\ max_count' = MAX_NBR_OF_BYTES_PER_IRQ /\ irq' = "send"
  /\ UNCHANGED <<smp, cr, hw, flip, ring, tty, irqCpu, irqCr, call>>

Mut_wbu_tty_tx_send ==
  /\ irq = "send"
  /\ txFifo' = WriteTdr(xmit_buf[ptr_read]) /\ ptr_read' = Advance(ptr_read)
  /\ nb_bytes' = nb_bytes - 1 /\ max_count' = max_count - 1
  /\ irq' = IF nb_bytes' > 0 /\ max_count' > 0 THEN "send" ELSE "sent"
  /\ UNCHANGED <<smp, cr, shifter, sent, rxFifo, rdr, rxRdy, arrived, flip, xmit_buf,
                 ptr_write, lock, tty, irqCpu, irqCr, call>>

wbu_tty_tx_send ==                    \* one turn of the loop
  /\ irq = "send"
  /\ IF TxBusy
     THEN irq' = "sent" /\ UNCHANGED <<txFifo, ptr_read, nb_bytes, max_count>>
     ELSE /\ txFifo' = WriteTdr(xmit_buf[ptr_read])
          /\ ptr_read' = Advance(ptr_read)
          /\ nb_bytes' = nb_bytes - 1 /\ max_count' = max_count - 1
          /\ irq' = IF nb_bytes' > 0 /\ max_count' > 0 THEN "send" ELSE "sent"
  /\ UNCHANGED <<smp, cr, shifter, sent, rxFifo, rdr, rxRdy, arrived, flip, xmit_buf,
                 ptr_write, lock, tty, irqCpu, irqCr, call>>

Mut_HandlerSent ==
  /\ irq = "sent" /\ lock' = "none"
  /\ IF nb_bytes = 0 THEN irqCr' = cr /\ irq' = "off" ELSE irq' = "out" /\ UNCHANGED irqCr
  /\ UNCHANGED <<smp, cr, hw, flip, ring, tty, irqCpu, max_count, call>>

HandlerSent ==                        \* out, or into disable_tx_interrupts
  /\ irq = "sent"
  /\ IF nb_bytes = 0
     THEN irqCr' = cr /\ irq' = "off" /\ UNCHANGED lock
     ELSE lock' = "none" /\ irq' = "out" /\ UNCHANGED irqCr
  /\ UNCHANGED <<smp, cr, hw, flip, ring, tty, irqCpu, max_count, call>>

Mut_wbu_disable_tx_interrupts ==
  /\ irq = "off"
  /\ cr' = [rx |-> irqCr.rx, tx |-> FALSE] /\ lock' = "none" /\ irq' = "out"
  /\ UNCHANGED <<smp, hw, flip, ring, tty, irqCpu, irqCr, max_count, call>>

wbu_disable_tx_interrupts ==          \* the write, the wake-up, the unlock
  /\ irq = "off"
  /\ cr' = [rx |-> irqCr.rx, tx |-> FALSE]
  /\ waiting' = FALSE /\ lock' = "none" /\ irq' = "out"
  /\ UNCHANGED <<smp, hw, flip, ring, tty, irqCpu, irqCr, max_count,
                 sys, sysCr, accepted, left>>

Handler ==
  \/ \E cpu \in {"same", "other"} : wbu_tty_handler(cpu)
  \/ wbu_tty_handler_rx \/ wbu_tty_handler_tx \/ wbu_tty_tx_send
  \/ HandlerSent \/ wbu_disable_tx_interrupts

-----------------------------------------------------------------------------
(* The system calls, one at a time: the tty core serialises them           *)

Runs(place) == sys = place /\ ~(irq # "out" /\ irqCpu = "same")

(* The copy under the lock.  A writer whose bytes do not all fit sleeps.   *)
wbu_tty_write ==
  /\ Runs("idle") /\ ~waiting /\ lock = "none"
  /\ \E f \in Files : file[f] = "open"
  /\ \E count \in 1..MaxWrite :
       LET room == PAGE_SIZE - nb_bytes
           n    == IF count <= room THEN count ELSE room
           slot(k) == (ptr_write + k - 1) % PAGE_SIZE
       IN  /\ accepted + count <= MaxTx
           /\ xmit_buf' = [p \in DOMAIN xmit_buf |->
                             IF \E k \in 1..n : slot(k) = p
                             THEN accepted + CHOOSE k \in 1..n : slot(k) = p
                             ELSE xmit_buf[p]]
           /\ ptr_write' = (ptr_write + n) % PAGE_SIZE
           /\ nb_bytes' = nb_bytes + n /\ accepted' = accepted + n
           /\ waiting' = (n < count)
  /\ lock' = "sys" /\ sys' = "copied"
  /\ UNCHANGED <<smp, cr, hw, flip, ptr_read, tty, hand, sysCr, left>>

WriteUnlock ==
  /\ Runs("copied") /\ lock' = "none" /\ sys' = "check"
  /\ UNCHANGED <<smp, cr, hw, flip, ring, tty, hand, sysCr, waiting, accepted, left>>

WriteCheck ==                         \* nb_bytes > 0: CR is read
  /\ Runs("check")
  /\ IF nb_bytes > 0 THEN sysCr' = cr /\ sys' = "on"
                     ELSE sys' = "idle" /\ UNCHANGED sysCr
  /\ left' = FALSE
  /\ UNCHANGED <<smp, cr, hw, flip, ring, lock, tty, hand, waiting, accepted>>

wbu_enable_tx_interrupts ==
  /\ Runs("on")
  /\ cr' = [rx |-> sysCr.rx, tx |-> TRUE] /\ sys' = "idle"
  /\ UNCHANGED <<smp, hw, flip, ring, lock, tty, hand, sysCr, waiting, accepted, left>>

(* An open that fails is followed by a close, as the tty core has it.      *)
wbu_tty_open(f) ==
  /\ Runs("idle") /\ file[f] = "none"
  /\ open_count' = open_count + 1
  /\ IF open_count > 0
     THEN file' = [file EXCEPT ![f] = "busy"] /\ UNCHANGED <<sysCr, sys>>
     ELSE file' = [file EXCEPT ![f] = "open"] /\ sysCr' = cr /\ sys' = "activate"
  /\ UNCHANGED <<smp, cr, hw, flip, ring, lock, hand, waiting, accepted, left>>

wbu_port_activate ==
  /\ Runs("activate")
  /\ cr' = [rx |-> TRUE, tx |-> sysCr.tx] /\ sys' = "idle"
  /\ UNCHANGED <<smp, hw, flip, ring, lock, tty, hand, sysCr, waiting, accepted, left>>

Mut_wbu_tty_close(f) ==
  /\ Runs("idle") /\ file[f] # "none"
  /\ waiting => file[f] = "busy"
  /\ file' = [file EXCEPT ![f] = "none"] /\ open_count' = open_count - 1
  /\ sysCr' = cr /\ sys' = "close"
  /\ UNCHANGED <<smp, cr, hw, flip, ring, lock, hand, waiting, accepted, left>>

(* tty_port_close waits for the ring to empty, unless a signal or the      *)
(* timeout ends the wait: the shutdown may come at any moment.             *)
wbu_tty_close(f) ==
  /\ Runs("idle") /\ file[f] # "none"
  /\ waiting => file[f] = "busy"
  /\ file' = [file EXCEPT ![f] = "none"] /\ open_count' = open_count - 1
  /\ IF open_count = 1 THEN sysCr' = cr /\ sys' = "close" ELSE UNCHANGED <<sysCr, sys>>
  /\ UNCHANGED <<smp, cr, hw, flip, ring, lock, hand, waiting, accepted, left>>

wbu_port_shutdown ==
  /\ \/ /\ Runs("close") /\ cr' = [rx |-> FALSE, tx |-> sysCr.tx] /\ sys' = "close_rx"
        /\ UNCHANGED <<sysCr, left>>
     \/ /\ Runs("close_rx") /\ sysCr' = cr /\ sys' = "close_tx" /\ UNCHANGED <<cr, left>>
     \/ /\ Runs("close_tx") /\ cr' = [rx |-> sysCr.rx, tx |-> FALSE] /\ sys' = "idle"
        /\ left' = (nb_bytes > 0) /\ UNCHANGED sysCr
  /\ UNCHANGED <<smp, hw, flip, ring, lock, tty, hand, waiting, accepted>>

SysCall ==
  \/ wbu_tty_write \/ WriteUnlock \/ WriteCheck \/ wbu_enable_tx_interrupts
  \/ wbu_port_activate \/ wbu_port_shutdown
  \/ \E f \in Files : wbu_tty_open(f) \/ wbu_tty_close(f)

-----------------------------------------------------------------------------
(* The specification: the hardware goes on, a CPU goes on with what it     *)
(* began and takes an interrupt that stays.  No call has to be made.       *)

Hardware == tx_fifo_fsm \/ TxDone \/ RxArrives \/ rx_fifo_fsm

Next == Hardware \/ Handler \/ SysCall

GoesOn == WriteUnlock \/ WriteCheck \/ wbu_enable_tx_interrupts
          \/ wbu_port_activate \/ wbu_port_shutdown

Spec ==
  /\ Init /\ [][Next]_vars
  /\ WF_vars(tx_fifo_fsm) /\ WF_vars(TxDone) /\ WF_vars(rx_fifo_fsm)
  /\ SF_vars(Handler) /\ SF_vars(GoesOn)

-----------------------------------------------------------------------------
(* Properties                                                              *)

InOrder(s, n) == s = [k \in 1..n |-> k]

Ring == [k \in 1..nb_bytes |-> xmit_buf[(ptr_read + k - 1) % PAGE_SIZE]]

(* Every byte write() accepted is once on its way, in its place: on the    *)
(* line, in the transmitter, in its FIFO or in the ring; and every byte    *)
(* received is once handed to the tty, or waits: the handler reads RDR     *)
(* neither twice nor before it is loaded.  So whatever handler and system  *)
(* call do beside each other.                                              *)
BytesOnceInOrder ==
  /\ InOrder(sent \o shifter \o txFifo \o Ring, accepted)
  /\ InOrder(flip \o (IF rxRdy THEN <<rdr>> ELSE <<>>) \o rxFifo, arrived)

(* No lost wake-up: when write() has returned, bytes in the ring have the  *)
(* transmit interrupt enabled, so that some handler will send them.  Bytes *)
(* that a close left behind wait for the next write().                     *)
PendingHasInterrupt ==
  nb_bytes > 0 /\ ~left /\ sys = "idle" => cr.tx

(* On one CPU, between calls, the receive interrupt is enabled exactly     *)
(* while the port is open for some file, and none when it is closed.       *)
ControlFollowsPort ==
  ~smp /\ sys = "idle" /\ irq = "out" =>
    /\ (\E f \in Files : file[f] = "open") => cr.rx
    /\ (\A f \in Files : file[f] = "none") => ~cr.rx /\ ~cr.tx

(* What is written goes out on the line, unless a close leaves it behind.  *)
WritesGoOut == []<>(Len(sent) = accepted \/ left \/ sys \in {"close_rx", "close_tx"})

(* A writer that found the ring full is woken.                             *)
WriterWoken == waiting ~> ~waiting

=============================================================================

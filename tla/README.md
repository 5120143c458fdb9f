# general-cores in TLA+

*general-cores* is CERN's library of VHDL cores: memories and FIFOs, clock-domain crossings, a
Wishbone interconnect with its peripherals, DSP blocks, and the Linux drivers of a few of the
peripherals. A core is small and is instantiated by other people's designs at sizes, clock ratios and
traffic that no test bench of the repository exercises. What can go wrong in it is seldom the
arithmetic: it is two clocks whose edges fall in an order nobody simulated, a flag that is late, a
reset that one side leaves before the other, a handshake cut in the middle, and a CPU that reads a
register a few clocks after it was true. This directory models those cores and asks about those things.

1. [Inventory](#1-inventory)
2. [Modules and how they correspond to the code](#2-modules)
3. [Runs](#3-runs)
4. [Fairness](#4-fairness)
5. [Proofs](#5-proofs)
6. [Where code and documentation disagree](#6-where-code-and-documentation-disagree)
7. [What is not modelled](#7-what-is-not-modelled)
8. [Plan](#8-plan)

## 1. Inventory

All paths are below `src/modules/` unless they start with `software/`. `PROJECT.json` lists every
component with its files, and every hazard with its line and the properties that cover it.

**FIFOs (`genrams/`).** `inferred_async_fifo` keeps a ring of words, a binary and a Gray pointer on each
side, two two-stage synchronisers, and one registered flag per side. `inferred_async_fifo_dual_rst` is
the same with a synchronous reset per clock and none in the synchronisers. `inferred_sync_fifo` has one
clock and four ways, chosen by generics, of telling a full ring from an empty one. Operations: write,
read, reset. Hard: a pointer sampled while several bits of it change; flags computed from copies two
clocks old; a RAM word read while it is written; one side reset while the other runs. Correct means:
words come out once each, in order, unaltered; a flag errs on the safe side only, and not for ever.

**Clock crossings (`common/`).** `gc_pulse_synchronizer2` sends a pulse as a level that is cleared when
it has come back; `gc_sync_word_wr` and `gc_sync_word_rd` move a word under the protection of such a
pulse. State: the phases of the handshake on either side. Hard: a pulse while the previous one is on its
way; resets released in either order. Correct means: one pulse out for each pulse taken, and a word that
does not change while it is sampled.

**Clock bridges (`wishbone/`).** `xwb_clock_bridge` and `xwb_clock_crossing` each join two Wishbone
ports by two asynchronous FIFOs and a counter that limits what is outstanding. Hard: the counter lives
on one side and the FIFO it protects reports late; a stall in the clock in which the next request is
fetched; the end of a cycle against the replies. Correct means: requests reach the slave once and in
order, replies come back once and in order, no FIFO is written full, no deadlock, cycles stay apart.

**Crossbar (`wishbone/wb_crossbar`).** A matrix of connections that is recomputed in every clock from the
old matrix and the requests; combinational or registered; a virtual slave answers addresses that belong to
nobody with an error. Correct means: one master per slave and one slave per master, a connection that
lasts as long as CYC, replies to whom made the request.

**Interrupt controller and its driver (`wishbone/wb_vic`, `software/htvic`).** Lines, mask, polarity,
edge emulation, a table of vectors, and a state machine that shows one vector at a time and waits for an
end-of-interrupt. The driver probes the controller, unmasks lines, and in its handler reads the pending
lines once and works through them. They interact over registers and one line. Hard: everything the CPU
reads may be old when it acts on it; an end-of-interrupt may meet another state than the one it was
written for. Correct means: the vector shown is that of the interrupt being served, every request is
served, the line comes down in the end.

**MSI (`wishbone/wb_irq`).** `irqm_core` counts interrupts per channel and sends each as a bus cycle,
one channel at a time; `wb_irq_slave` queues them per channel for software to pop. Hard: the index moves
while a cycle runs; a queue is disabled or cleared with a message on the bus.

**Wishbone adapters and routing.** `wb_slave_adapter` converts between the classic and the pipelined
protocol; `wb_skidpad`, `xwb_register` and `xwb_register_link` are pipeline stages; `xwb_split`,
`xwb_bus_fanout`, `xwb_remapper`, `xwb_indirect`, `wb16_to_wb32` and `wb_async_bridge` are small state
machines between two buses. Hard: what is on the bus in the one clock in which such a machine changes its
mind. Correct means: each strobe taken is forwarded once and answered once.

**DMA (`wishbone/wb_dma`).** Two streams and a ring with four pointers, which bus events of two ports
and writes of software move in the same clock.

**Primitives (`common/`, `genrams/common`).** Round-robin arbiter and arbitrated multiplexer, difference
of two counters in two clocks, shift-register FIFO, word packer, watchdog, resets, glitch filters.

**UART and its driver (`wishbone/wb_uart`, `software/wb_uart`).** The core has two FIFOs, a state machine
behind each, and two interrupt enables. The driver keeps a ring of one page between `write()` and the
handler, a lock for the ring, and a count of opens. They interact over registers and one line; the tty
core calls `open`, `close`, `write` one at a time, the handler runs on the same CPU or on another. Hard:
the count is looked at outside the lock, by both sides; CR is read, changed and written by everybody and
protected by nobody. Correct means: bytes go out once each and in order, bytes in the ring have an
interrupt that will send them, a sleeping writer is woken, the enables follow the port.

**I2C master and its driver (`wishbone/wb_i2c_master`, `software/i2c-ocores`).** The core executes one
command at a time, start, byte or stop, on the interface its multiplexer selects. The driver keeps the
list of messages, a position in it and a state, which the handler advances by one byte per interrupt; a
thread waits for the end, or polls. Hard: a timeout that ends the transfer while the handler is at work; a
command is given a byte ahead of its effect; messages without bytes or joined to the one before; a device
that refuses a byte, a bus lost to another master. Correct means: the bus sees the messages and nothing
else, the result says what became of them, and the bus is given back.

**SPI master and its driver (`wishbone/wb_spi`, `software/spi-ocores`).** The core shifts one word at a
time, and any access to a register takes its interrupt away. The driver keeps the current transfer and two
pointers into its buffers; the thread that starts a message and the handler run the same functions on
them. Hard: the handler may finish the message before the thread that started it has returned; transfers
of different widths and chip-select policies in one message; one that is refused in the middle. Correct
means: the slave sees the words of the message under its chip select, every word read is stored at its
place, and each message is given back.

**Other serial interfaces and peripherals.** I2C slave and bridge, one-wire, GPIO, timers, PWM, flash
programming.

**AXI bridges (`axi/`)**, single-transaction state machines. **Radiation tolerance (`radtol/`)**: a
memory with error correction and scrubbing, voters.

**Arithmetic, DSP, platform support, vendored processors, generators, benches**: no concurrency of their
own, or not of the repository's making.

How they are built on one another: the synchronisers are in the FIFOs and the word synchronisers; the
asynchronous FIFO with two resets is in both clock bridges; the synchronous FIFO is in the MSI slave and
the peripherals; the crossbar carries both the bus and, as a second instance, the MSI; the adapters are in
front of nearly every Wishbone slave; the interrupt controller collects the peripherals' lines.

## 2. Modules

In the models of cores one step is one edge of a clock, or one edge of two clocks at once. Two unrelated clocks have
three kinds of steps: the edge of either alone, and both together. In the latter a flip-flop that samples
the other domain may settle on the old or the new value, bit by bit, and a RAM word read while it is
written reads as anything. Nothing is assumed of the ratio of the clocks. What the surroundings do at an
edge (write, read, stall, reset) is chosen freely within what the protocol allows, which the module's
opening comment says. In the models of drivers one step is one access to a register, or what a lock makes
one; the core under the driver does its own steps in between, at any speed.

| module | models | correspondence |
|---|---|---|
| `GrayCode` | `gencores_pkg` Gray functions | a word is the set of its bits that are 1; `Sampled` is what a register reads of a word that changes |
| `AsyncFifo` | `inferred_async_fifo.vhd` | `WriteSide` and `ReadSide` are the processes of the two clocks, `rx0/rx1`, `wx0/wx1` the synchronisers bit by bit, `AssertReset` the asynchronous clear; `taken` is the word a reader got |
| `Fifo` | – (abstract) | a queue of bounded length and the word last taken from it |
| `MCAsyncFifo` | – | clocks that do not stop, for liveness; the Gray law at more widths |
| `AsyncFifoDualRst` | `inferred_async_fifo_dual_rst.vhd` | `AsyncFifo` with `rst_n` tied high, the resets per side, and what the header demands of whoever resets |
| `LaggedFifo`, `LaggedFifoSpec` | the same FIFO, for composition | pointers replaced by counts of what each side has not seen yet; `IsLagged` says that this is exact, edge by edge |
| `ClockBridge`, `MCClockBridge` | `xwb_clock_bridge.vhd` | `SlavePort` and `MasterPort` are the two domains; the FIFOs are `LaggedFifo` records |
| `ClockCrossing` | `xwb_clock_crossing.vhd` | likewise, with `mpushed` and `mpopped` and the record that ends a cycle |
| `SyncFifo` | `inferred_sync_fifo.vhd` | all four modes in one module; the mode is a variable chosen in `Init` |
| `PulseSync` | `gc_pulse_synchronizer2.vhd` with `gc_sync`, `gc_edge_detect` | `Handshake` is `p_input_ack`, a disjunct for each branch |
| `SyncWordWr`, `SyncWordRd`, `MCSyncWord` | `gc_sync_word_wr.vhd`, `gc_sync_word_rd.vhd` | each extends `PulseSync` with its registers; a run has one of the two, chosen in `MCInit` |
| `Crossbar` | `xwb_crossbar.vhd` | `matrix_new` is `matrix_logic`; `Drivers`, `STB`, `STALL`, `ACK` are the ORs of `slave_logic` and `master_logic`; masters and slaves are the environment |
| `Vic` | `wb_vic.vhd`, `wb_slave_vic.vhd` | one clock per step: `Bus` is the register bank, the disjuncts of `Clock` are the states of `vic_fsm` |
| `HtVic` | `software/htvic/drivers/htvic.c` | `Vic` with a CPU: each function is an action per bus access; devices keep a line up until their handler has run |
| `WbUart` | `software/wb_uart/drivers/wb_uart.c` on `wb_simple_uart.vhd` with FIFOs | the handler and the system call each have a place (`irq`, `sys`), the step from one to the next is one access; `Runs` lets the handler suspend the call it interrupts; `smp` says whether it may run beside it |
| `I2cOcores` | `software/i2c-ocores/.../i2c-ocores.c` on `wb_i2c_master` | `pc` is the thread; the handler has three steps, the status (`ocores_isr`), `i2c->msg` before the lock (`IsrMsg`), and what it does under `process_lock` (`IsrProcess`); `Finish`, `LoseArbitration`, `BusFree` are the master; of the history variables `rested` says that the transfer found master and handler at rest, `log` what the bus has seen of it |
| `SpiOcores` | `software/spi-ocores/drivers/spi/spi-ocores.c` on `spi_top.v` | every function takes the context that runs it, thread or handler; `Shift` is the master; `spi_log` is what the slaves have seen |
| `MCOcores` | – | one of the two per behaviour, and the transfers and messages of the run |
| `AsyncFifo_proofs` (both asynchronous FIFOs), `SyncFifo_proofs`, `SyncWord_proofs`, `ClockBridge_proofs`, `ClockCrossing_proofs`, `Crossbar_proofs`, `Drivers_proofs` (UART driver; interrupt controller and htvic), `Ocores_proofs` (I2C and SPI drivers) | – | theorems |

Generics that select variants (`mode` of the synchronous FIFO, `g_registered` of the crossbar,
`g_retry_timeout`, the board `version` of htvic, `g_AUTO_WR`) and the flags of the drivers (polling or
interrupts, one CPU or two) are variables that `Init` chooses and no
step changes, so that one run covers all of them.

Data are abstracted to what the properties tell apart. FIFO words are two values, enough to tell a word
from another one in its place. Requests through a bridge are numbered, and so are their replies. An
address of the crossbar is the slave it belongs to: that the ranges do not overlap is what `f_ranges_ok`
asserts at elaboration. Sizes that are no power of two are excluded by an assumption: the pointers wrap at the next
power of two, so that the flags would count a ring larger than the memory. Bytes of the drivers are
numbered by their place: byte *p* of message *k*, word *b* of transfer *k*, the *n*-th byte written. What
the bus has seen can then be compared with what it should see, and a byte stored with where it was read.

**Resets.** `AsyncFifo` may be reset at any moment. `AsyncFifoDualRst` follows its header ("If you reset
one clock domain, you must reset BOTH"): either side first, together long enough for the synchronisers to
flush, released in either order. `PulseSync` is reset in rounds of the same kind. The bridges start in
reset and leave it in either order; the crossbar and the interrupt controller may be reset at any clock.

## 3. Runs

| run | question | bounds | states |
|---|---|---|---|
| `async_fifo` | Are the pointers in order, the flags safe, the word on display the oldest, the whole a FIFO? Do the flags catch up? | Size 2, two words, show-ahead | 3 728 |
| `async_fifo_dual_rst` | Is the FIFO sound from the end of a flush through releases far apart? Is `LaggedFifo` exact? | Size 2, two words, no show-ahead, MinEdges 3 | 34 960 |
| `sync_fifo` | In all four modes: order, full and empty, counter and thresholds, output | Size 4, two words | 3 060 |
| `clock_bridge` | Once and in order both ways, CYC covers replies, every request answered | g_SIZE 4, 4 requests, 4 outstanding | 157 428 |
| `clock_bridge_burst` | expected violation, see section 6 | g_SIZE 4, 5 requests, all of them outstanding | – |
| `clock_crossing` | The same, and cycles are kept apart | g_size 4, 6 requests, 3 cycles, 6 outstanding (3 with several cycles) | 235 265 |
| `sync_word` | One pulse per request, delivered; words intact; reads answered with their word | 3 pulses between resets, two words | 92 532 |
| `crossbar` | Exclusive grants, locks, replies to whom they belong, cycles where addressed | 3 masters, 1 slave and the error slave, 2 outstanding | 4 954 |
| `vic` | The vector is that of the interrupt served; every request is served | 2 lines, EMU_LEN 1, retry 2 clocks or none, 2 requests, 1 software interrupt | ~630 000 |
| `vic_line` | expected violation, see section 6 | as `vic`, no software interrupts | – |
| `uart` | Bytes once and in order both ways; no byte in the ring without its interrupt; enables follow the port; what is written goes out, writers wake | ring of 2, 2 bytes per interrupt, FIFOs of 1, 2 files, writes of up to 2, 3 bytes out, 2 in | ~560 000 |
| `ocores` | I2C, of a transfer that begins at rest: the bus sees the messages and no more, the result is true, the bus is given back, no timeout is needed. SPI: words in order under their chip select, messages given back whole, each of them in the end | I2C: 3 transfers of up to 3 messages, one after the other in any order, 2 interfaces, MaxPos 3. SPI: 7 messages of up to 3 transfers, 8 to 128 bits, 2 slaves | 920 186 |

Why the bounds are enough:

- *Size 2* of the asynchronous FIFO has pointers of two bits that wrap after four steps, so a run fills,
  empties and wraps the ring as often as it likes, with all of it in flight in the synchronisers; two
  words tell a stale one from a fresh one. The proofs cover all sizes.
- *MinEdges 3* is two flip-flops and the pointer: what both clocks need while both resets are low until no
  old pointer is left. With two the property fails.
- *Size 4* of the synchronous FIFO is the least at which the thresholds, "one word early" and full are
  different counts.
- *g_SIZE 4* of the clock bridge with four requests reaches the limit of `mdm_block_lim` (three) and blocks;
  with four outstanding the counter of pending requests is at its last value. Whether a reply can meet a full
  FIFO is not asked there, for four replies cannot fill it before the last is written: `clock_bridge_burst`
  asks it with *five outstanding*, the least at which the FIFO is full with a request still to come.
  Up to g_SIZE outstanding it is proved for every size and every number of requests (`ClockBridgeSpace`).
- *Six requests and three cycles* of the clock crossing: a cycle that fills both FIFOs and a count that
  goes round its values, or several cycles one behind the other. A WB master that makes one cycle may have all six
  outstanding; one that makes several has fewer than g_size, since with g_size of them and an end of cycle
  the FIFO does overflow: see section 6.
- *Three masters*: one connected, two that ask in the clock in which it lets go. *One slave* and the error
  slave are two targets, so that a master can be on one and want the other.
- *Two lines*, each of which may be raised again while the other one is served. The retry counter, edge
  emulation and the low time are one or two clocks instead of generics' or register's values: what matters
  is whether the CPU is in time or not, and both happen.

- *A ring of two* wraps, fills, and makes a writer of two bytes sleep; three bytes out are one more than it
  holds, so that the writer that was woken writes again. *FIFOs of one* are busy after each byte, which ends
  the handler's loop early; a burst of two is the least at which the loop can end for either reason.
  *Two files* are the one that has the port open and the one that is refused.
- *Three transfers*: a probe without bytes; a write and, after a repeated start, a read of two bytes each; a
  read, then a write in two parts (`I2C_M_NOSTART`). They take each branch of `ocores_process` and each pair
  of states it goes between, any byte may be refused and any command may lose the bus. One transfer follows
  another, so that each may begin with what any other has left behind. *MaxPos 3* ends the bytes of a
  message whose end was missed, which only a transfer that does not begin at rest can do.
- *Seven messages* have every width the driver has a function for, one to three words per transfer, with and
  without each buffer and each chip-select policy, and both ways a later transfer is refused.

Deadlock is checked in the runs of the cores and in `ocores`: none of them may stop, but for the SPI thread that
gave up polling and left its message (`GaveUp`). It is not checked in `uart`, where the bytes are bounded and
nobody has to call, nor in `clock_bridge_burst`, where the requests are.

## 4. Fairness

- *Clocks run.* Every liveness property rests on it. It is stated of a variable that changes at each edge,
  so that it says nothing about what is asked for at the edge. In `FlagsCatchUp` nobody need ever read or
  write.
- *The resets are released*, or a new round of resets excuses the synchroniser (`PulseDelivered`).
- *The Wishbone slave* behind the bridge does not stall for ever nor withhold a reply for ever
  (`SF_accepted`, `SF_answered`): an acceptance that is possible again and again is made. The WB master
  takes replies as they come, as pipelined Wishbone obliges it to.
- *The CPU* runs its probe and its handler: strong, because a step of another actor may come in between at
  any clock. It does not assume that the CPU is fast: any number of clocks may pass before each access.
- *Device drivers* ask for their interrupt, or quiet their device, in the end (`Startup`, `Quieted`): a
  line that is up with no driver is not the controller's fault.
- *UART*: the transmitter and the receiver go on (weak: nothing disables them but their own step). A CPU
  takes an interrupt that stays pending and goes on with a handler or a system call it has begun (strong:
  the lock, or a handler on the same CPU, may stop it for a while, again and again). Nobody has to call.
- *I2C and SPI*: whatever can go on goes on (weak, of all steps together: any two that are enabled at once
  belong to actors that do not prevent each other). No timeout has to expire, no arbitration to be lost and
  no transfer to be asked for. So `XferReturns` and `MessageFinalized` hold without the help of a timeout.
- `RequestsServed` is claimed for `g_retry_timeout = 0` only. With a retry, the state machine leaves
  `WAIT_ACK` every so often, an end-of-interrupt that comes while it is in `RETRY` is lost, and no fairness
  of the CPU makes it hit the right clocks.

## 5. Proofs

All are checked by TLAPS with Z3, Zenon and LS4, for every value of the constants within the assumptions.

| theorem | says |
|---|---|
| `AsyncFifoTypes`, `AsyncFifoOrder`, `AsyncFifoFlags`, `AsyncFifoHead` | `TypeOK`, `PointersInOrder`, `FlagsAreConservative` and `HeadOnDisplay` always hold, for every power of two as size, every set of words, any order of edges, metastability and resets included |
| `AsyncFifoIsFifo` | the asynchronous FIFO implements `Fifo`: words come out once each, in order, unaltered |
| `DualRstSound` | for every size and however long the resets last, from three edges on: once both have been active together that long, whatever the synchronisers held before, and through their release in either order, the pointers are in order and the flags conservative (`SoundOnceFlushed`) |
| `DualRstIsLagged` | without show-ahead (`Plain`), each step between two flushes is a step of `LaggedFifo` (`IsLagged`): words, flags, `wr_count` and what either side has yet to see |
| `SyncFifoFull`, `SyncFifoFlags`, `SyncFifoOutput` | in every mode, size and pair of thresholds (`Usable`): full, empty, the counter and the almost flags say what is stored, and the right word is on the output |
| `SyncFifoIsFifo` | the synchronous FIFO implements `Fifo` in every mode (`Usable`) |
| `PulseSyncSafe` | for any number of pulses, any clocks, any metastability and rounds of resets: one pulse out for each taken, ready only when it is out, at most the one acknowledge of section 6 too many |
| `WordsSafe`, `ReadsSafe`, `MCReadsSafe` | words cross `gc_sync_word_wr` intact, once and in order; each read by `gc_sync_word_rd` is answered with the word caught for it, also where the two share one clock model |
| `ClockBridgeCycle`, `ClockBridgeRequests` | CYC is up while replies are owed; requests reach the WB slave once and in order, however many are outstanding |
| `ClockBridgeOrder`, `ClockBridgeSpace` | with no more outstanding than g_SIZE (`Fits`), replies come back once and in order, and none meets a full FIFO (`RepliesFindSpace`; without `Fits` the run `clock_bridge_burst` violates it) |
| `RequestsCrossOnce`, `CyclesStayApart`, `FifosHaveSpace` | the clock crossing, for any size, number of requests and of cycles: requests and replies cross once and in order, the end of each cycle comes between the right two requests, and no FIFO is written when full, `mfifo` with its ends of cycles included (`Spaced`) |
| `CrossbarGrants`, `CrossbarLocks` | for any number of masters and slaves, in both variants, grants are one-to-one, and a connection lasts as long as CYC |
| `CrossbarReplies`, `CrossbarAddressed` | every reply, the error slave's too, reaches the master that made the request, still connected; the first request of a cycle goes where it is addressed |
| `VicVector` | for any number of interrupts, any EMU length and retry, and any host that fills the table while the controller is disabled, VAR is the vector of the interrupt being served |
| `HtVicIsHost`, `HtVicVector` | the driver is such a host, and so VAR is the current vector in the composed system |
| `UartPendingHasInterrupt` | for any sizes, any number of files, one CPU or two: when `write()` has returned, bytes in the ring have the transmit interrupt enabled (`PendingHasInterrupt`) |
| `UartRingBounded` | the ring never holds more than a page, and the handler never sends from an empty one |
| `UartBytesInOrder` | bytes are sent, and bytes received are handed to the tty, once each and in order (`BytesOnceInOrder`) |
| `UartControlFollowsPort` | on one CPU the enables of the core follow the port (`ControlFollowsPort`), for any number of files |
| `I2cWireFollowsMessages` | for any transfers, of any messages (`Filled`), by interrupts and by polling, wherever a device refuses, the bus is lost or a transfer times out: of a transfer that begins at rest the bus sees addresses and bytes in order and once each, on the selected interface, and after the first refusal, loss or stop nothing but stops (`WireFollowsMessages`) |
| `I2cResultTrue` | a transfer that begins at rest and is reported as done has been acknowledged to its last byte and every byte read is in place; by interrupts, one reported as failed was refused or lost the bus (`ResultTrue`) |
| `SpiWordsInOrder` | for any messages, of any number of transfers and policies, of words of 8 to 128 bits and with the first transfer not refused (`Whole`), refused ones after it among them: the slave sees the words once each and in order, nobody else sees any, and the chip select goes off where it should (`WordsInOrder`) |
| `SpiFinalizedWhenDone` | a message is given back when all of it is exchanged, the words read are stored in place, the slave is released, and neither thread nor handler is still at work on it (`FinalizedWhenDone`) |

**Assumptions.** `SizeAssumption`: the size is a power of two, of which the number of pointer bits is the
logarithm. `GrayAssumption`: at this number of bits the Gray code is one-to-one, is undone by its decoder,
and neighbours modulo 2^w differ in one bit. That is a fact about bit strings which TLAPS cannot prove for
every width, for want of induction; TLC evaluates it for the widths 1 to 6 (`MCAsyncFifo`), which are FIFOs
of up to 32 words. `MinEdgesAssumption`: a reset lasts three edges of each clock at least, for the pointer and
the two stages of the synchroniser; with two, TLC finds a stale word of the Gray code that survives. The other
assumptions are that constants are of their kinds. Six groups of theorems have a hypothesis as well. Without
five of these they are false (section 6): `Usable`, that a synchronous FIFO with show-ahead has more than two
words; `Fits`, that the master on the bridge has no more than g_SIZE requests outstanding; and `Spaced`, that
a master on the clock crossing that makes several cycles has fewer than g_size outstanding, while one that
makes a single cycle may have any number; `Filled`, that an I2C message that goes on where the one before ends
has a byte; and `Whole`, that the first transfer of an SPI message is not refused, and that words are of 8, 16,
32, 64 or 128 bits and fill their transfers. The run `ocores` has such transfers and messages only; with
others TLC finds the words or bytes too many.
The sixth, `Plain`, is how both bridges instantiate the FIFO; `LaggedFifo` has no output without a register.
The theorems about I2C have no hypothesis on when a transfer begins: the specification lets it begin at any
time, and the condition `rested` is part of the properties they prove.

**Asynchronous FIFO.** `PointersInOrder` is nearly inductive. Going round the ring from the writer's view of
the reader one meets the six pointers in a fixed order within one turn. An edge moves one of them up to its
neighbour at most, provided a metastable sample is either the old or the new pointer, which is the Gray law.
What has to be added is the types, including that each synchroniser holds the Gray word of *some* pointer;
that the flags are conservative, for they are what keeps the two pointers from passing one another; that in
reset all are zero; and for the display that the word was complete before its pointer was seen. The
refinement maps the queue to the words between the pointers. Its lemmas say what one write, one read, and
both together do to that sequence, by way of its length and its elements.

**Two resets.** `DrInv` counts the flush: one edge with both resets active clears the pointer, two more have
the zero in each stage of the other side (`FlushOK`), and the count of neither side starts before the other
side has had its edge (`PhaseOK`). From then on `IInv` holds (`SoundOK`). With both resets released an edge
is one of `AsyncFifo`, whose lemmas serve; a reader still in reset stands at zero while the writer goes on,
and the pointers keep their order; a writer still in reset keeps both at zero. For `LaggedFifo` each edge is
taken apart into what it does to the writer's side, the reader's side and the synchronisers, either of which
may also stand still (`EdgeOfSides`), so that the three kinds of edges and the release of a reset are one case. The
distances between neighbouring pointers are then the counts of the record: their sums are what the sides
believe (`Beliefs`), and a step moves them as `Unseen` and `Moved` say (`CountsStep`). The theorems of the clock
bridge, which are about `LaggedFifo`, rest in this way on the FIFO with pointers and synchronisers.

**Synchronous FIFO.** `IInv` of `SyncFifo_proofs` says where the words are: the write pointer is the read pointer
and the number of words, modulo the size, and in between the memory holds them in order (`RingOK`). The
hard part is that each mode tells full from empty by another register, a guard bit, a full bit or the
counter, that some of them are one clock late, and that they may only disagree with the distance of the
pointers in states in which nobody looks: `FlagsOK` and `OutputOK` say in which. The refinement
then follows from what a write, a read and both do to the sequence.

**Synchronisers.** The handshake is a ring of flip-flops around which one edge travels. `PsInv` says that there
is at most one such edge (`FrontOK`), where it is, which may be any place in which metastability leaves it,
and that the counts of the two sides differ by it (`CountOK`); a round of resets brings the ring to one level
(`ResetOK`). The word synchronisers add that the word held is the one of the edge on its way: it is on the
output when the edge has passed, and does not change while the edge has yet to come (`WrInv`, `RdInv`).

**Clock bridge.** Requests and replies are numbered, so that "in order" is: the FIFOs hold a run of numbers that
goes on where the receiver stands. `BInv` has this of the requests, with what each stage of the ports holds,
and that the counter of pending requests is exact. The three edge actions are one (`Step`) with a bit for
each clock. `FInv` adds the replies and the room: what the write side of the M2S FIFO believes to be stored,
and everything that is still to be answered, is no more than the FIFO holds, but for requests the master port
does not see yet. A full FIFO, whose count reads 0 so that `mdm_block_lim` is g_SIZE-1, must be shown to have
nothing pending: there `Fits` is needed.

**Clock crossing.** A cycle ends when nothing is outstanding, so that `mfifo` holds one end at most and before
it nothing. All its words are numbered by position, ends included: the position says which word it is
(`WordAt`), the length of the queue says which words have left (`Popped`), and from these follow the requests
(`RequestsOK`, `AcceptedOK`) and the gaps (`GapsOK`) the WB slave has seen. The replies in `sfifo` are a run
of numbers, as on the bridge (`RepliedOK`), and the slave port's two counters tell exactly how many requests
wait (`CountOK`). For the room in `sfifo` one has to go through both synchronisers stage by stage: the requests that
can be seen at a stage are within g_size of the replies whose departure can be seen at the same stage
(`RepliesFit`). For `mfifo`, a slave port that sees a reply has also seen the read of its request, so the
FIFO is full only when g_size requests wait, or one fewer and an end of cycle (`RequestsFit`). In the latter
case the port's own count lets one more through; `Spaced` is what keeps the master from asking. `CInv` was first
checked by TLC with FIFOs of four words. The one-step lemmas on `LaggedFifo` are also in `ClockBridge_proofs`;
they are stated twice because the two bridges have variables of the same names.

**Crossbar.** The matrix kept from the last clock is one-to-one, and a row or column that is kept is not
given to anybody else: a selection is made only among idle rows and columns, and it prefers the lowest
master. The invariant has that a master requests one slave at a time, since its address belongs to one.
For the replies `RInv` adds what the slaves owe: whoever is owed a reply has CYC up and is connected where he
is owed it, for a master lowers CYC only when nothing is owed and the matrix keeps it until then.

**Interrupt controller.** The state machine needs two clocks between choosing an interrupt and showing its
vector, as the table is a RAM with a registered output; the invariant follows the word through `data_int`
(`Fetch`) and needs that the table does not change meanwhile, which holds because the host writes it only
while the controller is disabled. The driver's invariant is that it has not enabled the controller while it
is in the loop that fills the table.

**UART driver.** The invariant is a conjunction of who is where: `LockOK` ties the lock to the places inside
it, `PlaceOK` says that the handler sends only with bytes in the ring and goes to disable the interrupt only
with none, `EnablesOK` and `RingOK` bound the data, and `PendingOK` strengthens the property by the place
between an open's read of CR and its write, where the value read must carry the bit as well. That the handler
may disable the interrupt after `write()` has seen bytes does no harm because it does so under the lock, with
the ring empty. Of the constants only `SizeAssumption` is used: they are natural numbers, the sizes positive.
`BytesInv` follows the *n*-th byte from the call through the ring, the hand of the handler and the FIFO to the
line, as one run of numbers cut at those places. `PortInv` relates CR to the count of opens at each place of
`open` and `close` between the read of CR and its write: on one CPU a handler that comes in between is
finished when the call goes on, and it has changed the transmit enable at most, so that the receive enable the
call carries over is still that of CR.

**I2C driver.** What the bus has to see of a transfer is a set of places, ordered (`Places`, `Before`): the
address of each message, but of those that are joined to the one before, and each byte. The place at which
the driver is (`Here`) splits them: everything before it is in the log and, if read, in the buffer (`LogIs`,
`BufIs`), and the command under way is the one that brings it about (`UnderWay`). `IInv` is
`TypeOK` and, if the transfer began at rest, one of three phases (`RInv`); of a transfer that did not only the
types are known, and the next one may again begin at rest, for that asks of the master and the handler only
and not of what became of the transfer before. Before its first command nothing is on the bus (`Before0`).
While it lives, either the command is on its way, and the driver is not looking, or it is done: then the
interrupt is pending, and what the handler has read of status and message before it took the lock is still so
(`GoneOK`); this is where the thread, which may write the stop of a timeout between the handler's read and
its lock, has to be excluded or be shown to leave the state over. When it is over (`Closing`), the log is
complete and followed by stops, or ends in a refusal, or is cut (`GivenUp`); in the last case the transfer has
timed out or was polled, and the byte that was under way when the stop was written may still come. If that is
the last byte read, it is acknowledged and not refused, for the stop has taken the place of the refusal in CR
(`CutAfterRead`), which is why `WireFollowsMessages` has that exception. Each action leaves `TypeOK`
(`NextType`) and, but for the one that begins a transfer, `rested` (`RestedStays`).
The lemmas on places say what is before the next one, after a byte, a message or the last message
(`SeenNext`, `SeenOver`), and that one more place before is one more entry of the log (`LogGrows`).

**SPI driver.** The same for words: `Places` are the words of the transfers up to the first that is refused, and
the deselections between them. Thread and handler run the same functions, so the invariant says where either
is: one of them is in the middle of a message and the other is out of the way (`One`), a word is being
shifted and both are out (or the thread polls), or it is done and the interrupt is pending (`GoingOK`,
`GoneOK`). The hard part is between transfers, where the current transfer is already, or not yet, the next
one: `Between` counts from the last transfer that is done (`After`). That an interrupt is not lost to an
access of a register is part of it: at every access the word is either not yet done, or has been fetched.
Widths are powers of two (`NextMultiple`), so that the position of a word is a multiple of its width.

**Model-checked only.** Liveness, which is out of the prover's reach, and with it `BusReleased`,
`XferReturns` and `MessageFinalized`; the Gray law beyond six bits. Every safety property of the
passing runs is proved. Nothing is claimed of `LaggedFifo` with show-ahead.

## 6. Where code and documentation disagree

Two have runs whose counterexamples TLC finds; `PROJECT.json` quotes the lines.

- **`vic_line`**. htvic says of an interrupt with nothing pending "not for us" and returns without writing EOIR. If the device let go of its
  line in between (its interrupt was freed), the controller stays in `WAIT_ACK` and its line stays active,
  with nobody to take it down; the CPU calls the handler for ever.
- **`clock_bridge_burst`**. The comment on `mdm_rd_en` of `xwb_clock_bridge` (lines 239–242) says that a request
  is fetched when "there is enough space in the M2S_FIFO to push the new reply, taking into account any pending
  transactions". With more requests outstanding than g_SIZE there is not: the pending requests and the count,
  which is an edge old, let the reply FIFO fill up to exactly g_SIZE; then `mdm_m2s_count`, which has no bit for
  that, reads 0, `mdm_block_lim` is g_SIZE-1, another request is fetched, and its reply meets a full FIFO and is
  lost. Nothing on the slave port bounds what a WB master has outstanding. Up to g_SIZE outstanding the comment
  is proved (`ClockBridgeSpace`); the limit is then not even needed, as the replies of all that is
  outstanding fit.

Four more have no run of their own; the first two are shown by a configuration that differs from that of a
run as said here.

- The comment on the counters of `xwb_clock_crossing` says that the slave port blocks even if MFIFO is not
  full, so that the FIFO's own full flag is not looked at (it is open). But the record that ends a cycle goes
  through MFIFO as well and is not counted: when g_size requests of the next cycle come while it is still in
  there, the last of them is written to a full FIFO and lost, and its reply never comes. (`ClockCrossing`
  with g_size 2, MaxRequests 4, MaxCycles 2, MaxOutstanding 4, MaxOverlap 4 violates `FifosFindSpace`. With fewer
  than g_size outstanding the comment is proved: `FifosHaveSpace`.)
- With show-ahead and `g_size` 2, `inferred_sync_fifo` asserts full where the message it prints promises it
  "at g_SIZE". A write and a read in the same clock set the guard bit of a FIFO that is not full; the next
  read clears it a clock after the empty flag was computed from it; a read passes an empty FIFO, the read
  pointer overtakes the write pointer, and the next write asserts full with one word missing. (`SyncFifo`
  with Size 2, Modes {"ahead"}, AlmostEmpty 0, AlmostFull 1 violates `FullMeansFull`.)
- `d_ack_p_o` of the pulse synchroniser is "last pulse input acknowledged", but it is raised also after a
  reset, for no pulse, as the branch that ends a handshake is also the steady state. `OnePulsePerRequest`
  therefore allows one acknowledge more than there were pulses.
- The comment in `ocores_process` (lines 323–326) says "If we spin here is because we are in timeout, so we are
  going to be in STATE_ERROR". The timeout lets go of the lock and returns, and the next transfer sets
  STATE_START without it (line 536). A handler that is held up for so long between the release of the lock and
  its turn (a preempted virtual CPU, a threaded handler) then takes the new transfer's START for acknowledged,
  with the status and the message it has read for the one before. (In `I2cOcores`: `IsrMsg`,
  `ocores_process_timeout`, the next `ocores_xfer_core`, `IsrProcess`.)

Met on the way and stated as hazards only, as no line of the repository says otherwise: software interrupts
requested while others are pending replace them, and any end-of-interrupt clears them; the driver reads the
dummy vector if its interrupt is taken before the controller is enabled with the right polarity; the loop
that drains pending interrupts at probe time reads RISR, which the mask does not affect, and so waits for a
line that a device holds up; masking by IDR takes two clocks to reach the state machine.

Limits of the drivers that were met, within which their properties are stated:

- *wb_uart.* `write()` may enable the transmit interrupt just after the handler has emptied the ring: the
  handler then returns `IRQ_NONE` on every call, until the next byte or until the kernel gives up the line.
  On two CPUs `open` and `close` read, change and write CR beside the handler, and either's write can carry
  an old enable: `ControlFollowsPort` is for one CPU. Bytes that a close leaves in the ring are sent after
  the next write. Without FIFOs the core raises no transmit interrupt, and the driver does not look.
- *i2c-ocores.* A transfer counts as done when its stop is written, not when it is over, and after a timeout a
  byte may be under way before the stop, with the handler half way. The model lets the next transfer begin
  then (`ohwr_i2c_mux_select` does not look): its START is lost when the master clears CR at the end of the
  stop, the stop's interrupt is taken for the address's, and bytes go out that nobody was addressed with, or
  the handler goes on with a message it has read of the list before. Nothing is true of the result of
  such a transfer, so the properties are stated of those that begin at rest (`rested`, `Quiet`: the master
  idle, the handler out, no interrupt pending), whatever the ones before them were. The list before is its
  client's again by then, and what the handler finds at its pointer is any message (`Pointed`); a byte stored
  through it is not in `buf`. The stop of a timeout takes the place of READ_NACK in CR, so that the last byte read
  is acknowledged. `ocores_xfer_core` stores message, position and count before the state, and the handler
  looks at the state first, so these stores are one step, but for a handler that has its message already,
  which has it of the old list. `wait_event_timeout` looks once more when its time is up (`Expire`).
  A poll that times out leaves the bus claimed, without a stop. A joined message of no bytes is excluded
  (`Filled`): the driver would give the command for its first byte. The acknowledge that `ocores_init` writes
  comes before the core is enabled and has no effect.
- *spi-ocores.* A message whose first transfer is refused is never given back by interrupt, and by polling a
  word is processed that was never sent; the model has both (`Refused`), the messages checked have their
  refused transfer later (`Whole`). Its error is overwritten by status 0. Words of other than 8, 16, 32, 64, 128 bits
  are counted wrongly (FIXME in the source): more words are sent than there are, and the unsigned count
  passes below zero. A transfer of no bytes is refused. Polling that gives up on a word leaves the message
  unfinished with the slave selected.

## 7. What is not modelled

Of the components that are modelled: the almost-full and almost-empty flags and counts of the asynchronous
FIFOs other than `wr_count`; sizes of the synchronous FIFO that are no power of two; the bridges' CLASSIC
ports and a reset in the middle of a cycle; the address arithmetic of `xwb_sdb_crossbar`; the kernel's memory
and mapping of interrupt numbers in htvic. Of the drivers of the UART, I2C and SPI masters: probe and remove,
the accessors for the widths and byte orders of the bus, clock dividers, the UART without FIFOs and its host
port, atomic (polled) transfers of an I2C adapter that otherwise has interrupts, the SPI message's status and
length. The priority of the crossbar starves higher-numbered masters by
policy, and nothing is claimed about it.

Whole components: those in the plan below are not reached yet. Memories are arrays with a clocked read,
vendors' FIFOs and hard blocks are not the repository's logic, lm32 and conmax are other projects', DSP and
coding are arithmetic for which a bit-true simulation says more, and generators, benches and documents are no
part of the running system (they were read for what they say about it).

Not in the model at all: analog timing, constraints, the time a metastable flip-flop takes to settle
(it is settled by the next edge, as the two-stage synchronisers assume), and skew among the bits of a bus
beyond one sampling edge (the place-and-route constraint on Gray words).

## 8. Plan

In order; each item is a component, its run, and what is to be proved about it.

1. **MSI**: `IrqmCore` (channels counted and sent one by one; the channel that is marked as being sent while
   another one's cycle runs, `irqm_core.vhd:199`) and `IrqSlave` (queues, `wb_irq_slave.vhd:122`), composed.
   Abstract specification: a bag of messages per channel, delivered at most once. Theorem: conservation of
   the counts, if it holds.
2. **Wishbone streams**: an abstract *each strobe taken is forwarded once and answered once*, which
   `wb_slave_adapter` (both directions), `xwb_split`, `xwb_indirect`, `wb_skidpad` and `xwb_register` are
   shown to implement or not. Theorem: the refinement for the pipeline stages.
3. **DMA**: the four ring pointers against both ports and software's writes.
4. **Primitives**: `gc_rr_arbiter` with `gc_arbitrated_mux` (no starvation), `gc_async_counter_diff` (with
   the sign at line 162), `generic_shiftreg_fifo`, `gc_word_packer`, the watchdog.
5. `gc_i2c_slave` with `wb_i2c_bridge`, `wb_async_bridge`, the AXI bridges, the scrubbing memory of `radtol`.

Where a run is needed for these, runs of two small units are joined by a variable that chooses the unit, as
in `MCSyncWord`. For the MSI, what is known so far: with several channels round robin sends each interrupt
once; with priorities, or one channel, a burst sends a message twice, as the falling edge of the cycle is
seen a clock after the channel may have been chosen again (`irqm_core.vhd`).

Of what is modelled now, liveness under fairness is what is left to TLC; proofs come with the modules above.

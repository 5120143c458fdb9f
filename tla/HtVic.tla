------------------------------- MODULE HtVic -------------------------------
(***************************************************************************)
(* The Linux driver htvic on top of the controller: its probe, the start   *)
(* of an interrupt by a device driver, and its handler, on a CPU that      *)
(* calls the handler whenever the master line is at its active level and   *)
(* on no other occasion.  Software makes one bus access at a time, as fast *)
(* as the bus allows or as slowly as it likes.                             *)
(*                                                                         *)
(* A device raises its line and keeps it up until its own handler has run. *)
(***************************************************************************)
EXTENDS Vic

CONSTANTS MaxRaises,   \* how many requests the devices make in a run
          MaxSoft      \* how many times debugfs' swirq is written

ASSUME HtVicAssumption == Irqs \subseteq Vectors

VARIABLES
  version,     \* HTVIC_VER_*, never changes
  probe, idx,   \* where htvic_probe is, and its loop's index
  started,     \* the interrupts a device driver has requested
  handler,     \* where htvic_handler is
  risr, vect,  \* its local variables
  raises, soft

driver == <<version, probe, idx, started, handler, risr, vect>>
htVars == <<vicVars, driver, raises, soft>>

Versions == {"SPEC", "SVEC", "WRSWI"}
ActiveHigh == version \in {"SPEC", "SVEC"}
EmuEdge == version = "SPEC"

LineActive == irq_master_o = IF ActiveHigh THEN 1 ELSE 0

\* The controller comes out of reset, and the devices are in any state.
HtInit ==
  /\ VicInit
  /\ vector_table = [n \in Irqs |-> 0] /\ data_int = 0
  /\ version \in Versions
  /\ probe = "CTL" /\ idx = 0 /\ started = {}
  /\ handler = "off" /\ risr = {} /\ vect = 0
  /\ raises = 0 /\ soft = 0

-----------------------------------------------------------------------------
(* The devices.  Before its driver has asked for the interrupt, a device   *)
(* that holds its line may be quieted by its driver.                       *)
Lines(drop) ==
  \E up \in SUBSET (Irqs \ irqs_i) :
    /\ raises + Cardinality(up) <= MaxRaises
    /\ raises' = raises + Cardinality(up)
    /\ irqs_i' = (irqs_i \cup up) \ drop

Idle == Clock(Quiet) /\ Lines({}) /\ UNCHANGED <<driver, soft>>

QuietDevice(n) ==
  /\ n \in irqs_i \ started /\ Clock(Quiet)
  /\ irqs_i' = irqs_i \ {n} /\ UNCHANGED <<driver, raises, soft>>

Do(a) == Clock(a) /\ Lines({}) /\ UNCHANGED <<version, soft>>

-----------------------------------------------------------------------------
(* htvic_probe, from the reset of the controller to its enabling; idx is   *)
(* the index of the loop of htvic_irq_mapping.                             *)
Probe(from, a, to) ==
  /\ probe = from /\ Do(a) /\ probe' = to
  /\ UNCHANGED <<started, handler, risr, vect>>

htvic_ack_pending ==
  /\ UNCHANGED idx
  /\ \/ Probe("RISR", Read, IF RISR = {} THEN "IVT" ELSE "EOIR")
     \/ Probe("EOIR", WriteEoir, "RISR")

htvic_irq_mapping ==
  /\ Probe("IVT", WriteIvt(idx, idx), IF idx + 1 \in Irqs THEN "IVT" ELSE "request")
  /\ idx' = IF idx + 1 \in Irqs THEN idx + 1 ELSE 0

htvic_probe ==
  \/ htvic_ack_pending
  \/ htvic_irq_mapping
  \/ /\ UNCHANGED idx
     /\ \/ Probe("CTL", WriteCtl(FALSE, 0, FALSE), "IDR")
        \/ Probe("IDR", WriteSet("IDR", Irqs), "RISR")
        \/ Probe("request", Quiet, "enable")
        \/ Probe("enable", WriteCtl(TRUE, IF ActiveHigh THEN 1 ELSE 0, EmuEdge), "done")

htvic_irq_startup(n) ==
  /\ probe = "done" /\ n \notin started
  /\ Do(WriteSet("IER", {n})) /\ started' = started \cup {n}
  /\ UNCHANGED <<probe, idx, handler, risr, vect>>

\* free_irq waits for the handler of the interrupt it frees.
htvic_irq_shutdown(n) ==
  /\ probe = "done" /\ n \in started /\ ~(handler = "nested" /\ vect = n)
  /\ Do(WriteSet("IDR", {n})) /\ started' = started \ {n}
  /\ UNCHANGED <<probe, idx, handler, risr, vect>>

htvic_dbg_swirq_write ==
  /\ probe \in {"enable", "done"} /\ soft < MaxSoft
  /\ Clock(WriteSet("SWIR", {0})) /\ Lines({})
  /\ soft' = soft + 1 /\ UNCHANGED driver

-----------------------------------------------------------------------------
(* htvic_handler, one bus access per step. *)
Handling(from, a, to) ==
  /\ handler = from /\ Clock(a) /\ handler' = to
  /\ UNCHANGED <<version, probe, idx, started, soft>>

Enter ==   \* the CPU takes the interrupt
  /\ probe \in {"enable", "done"} /\ LineActive
  /\ Handling("off", Quiet, "RISR") /\ Lines({}) /\ UNCHANGED <<risr, vect>>

ReadRisr ==
  /\ Handling("RISR", Read, IF RISR = {} THEN "off" ELSE "VAR")
  /\ Lines({}) /\ risr' = RISR /\ UNCHANGED vect

ReadVar ==
  /\ Handling("VAR", Read, IF vic_var = Dummy THEN "off" ELSE "nested")
  /\ vect' = vic_var /\ risr' = risr \ {vic_var} /\ Lines({})

\* Without an action the nested handler does nothing.
handle_nested_irq ==
  /\ Handling("nested", Quiet, "EOIR")
  /\ Lines({vect} \cap started) /\ UNCHANGED <<risr, vect>>

Mut_htvic_eoi == /\ Handling("EOIR", IF risr = {} THEN WriteEoir ELSE Quiet, "delay")
                 /\ Lines({}) /\ UNCHANGED <<risr, vect>>
htvic_eoi == Handling("EOIR", WriteEoir, "delay") /\ Lines({}) /\ UNCHANGED <<risr, vect>>

Delay ==
  /\ Handling("delay", Read, IF risr = {} THEN "off" ELSE "VAR")
  /\ Lines({}) /\ UNCHANGED <<risr, vect>>

htvic_handler == Enter \/ ReadRisr \/ ReadVar \/ handle_nested_irq \/ htvic_eoi \/ Delay

-----------------------------------------------------------------------------
Startup == \E n \in Irqs : htvic_irq_startup(n)
Shutdown == \E n \in Irqs : htvic_irq_shutdown(n)
Quieted == \E n \in Irqs : QuietDevice(n)

HtNext == \/ Idle \/ Quieted
          \/ htvic_probe \/ Startup \/ Shutdown \/ htvic_dbg_swirq_write
          \/ htvic_handler

HtSpec == HtInit /\ [][HtNext]_htVars

(* The clock runs; software and the drivers of the devices are not kept    *)
(* waiting for ever by each other's accesses.                              *)
LiveSpec == /\ HtSpec
            /\ WF_htVars(HtNext) /\ SF_htVars(htvic_probe) /\ SF_htVars(htvic_handler)
            /\ SF_htVars(Startup) /\ SF_htVars(Quieted)

-----------------------------------------------------------------------------
(* Every request is served: once the devices make no more of them, all     *)
(* lines go down for good (htvic.c:413-461 with wb_vic.vhd:278-367).        *)
RequestsServed == g_retry_timeout = 0 => <>[](irqs_i = {})

(* "Nothing to do - not for us", says the handler when RISR reads 0        *)
(* (htvic.c:418-420), and of its only way out that the controller then     *)
(* "advances to another pending interrupt(s) or releases the master        *)
(* interrupt output" (htvic.c:184-186): with no request left, the master   *)
(* line is released in the end.                                            *)
LineReleased == g_retry_timeout = 0 => <>[](probe = "done" /\ ~LineActive)
=============================================================================

-------------------------------- MODULE Vic --------------------------------
(***************************************************************************)
(* wb_vic: the vectored interrupt controller.  One step is one clock.  The *)
(* bus side (wb_vic_regs) takes a write in one clock and shows it to the   *)
(* controller in the next one as a strobe; until then it stalls the bus,   *)
(* which leaves a clock between two accesses.                              *)
(***************************************************************************)
EXTENDS Naturals, FiniteSets

CONSTANTS g_NUM_INTERRUPTS,
          Vectors,        \* what the vector table may hold
          Dummy,          \* what VAR shows while disabled: x"12345678"
          EmuLen,         \* the EMU_LEN the host sets, a field of 16 bits
          RetryTimeout,   \* a g_retry_timeout that is not 0
          RetryLow        \* the 100 clocks of the state RETRY

ASSUME VicAssumption ==
  /\ g_NUM_INTERRUPTS \in Nat \ {0}
  /\ 0 \in Vectors /\ Dummy \notin Vectors
  /\ EmuLen \in Nat /\ RetryTimeout \in Nat \ {0} /\ RetryLow \in Nat

Irqs == 0 .. g_NUM_INTERRUPTS-1

VARIABLES
  g_retry_timeout,    \* never changes
  irqs_i, access,     \* what this clock sees: the lines, and the last bus access
  enable, emu_edge, pol, imr, vector_table,
  irqs_i_reg, swi_mask, state, current_irq, data_int, vic_var, timeout_count,
  irq_master_o

regs == <<enable, emu_edge, pol, imr, vector_table>>
fsm == <<irqs_i_reg, swi_mask, state, current_irq, data_int, vic_var,
         timeout_count, irq_master_o>>
vicVars == <<g_retry_timeout, irqs_i, access, regs, fsm>>

(* The accesses of the bus.  A read changes nothing. *)
Quiet == [reg |-> "none"]
Read == [reg |-> "read"]
WriteCtl(en, p, emu) == [reg |-> "CTL", enable |-> en, pol |-> p, emu_edge |-> emu]
WriteSet(r, s) == [reg |-> r, set |-> s]
WriteEoir == [reg |-> "EOIR"]
WriteIvt(i, v) == [reg |-> "IVT", irq |-> i, vector |-> v]

Accesses == {Quiet, Read, WriteEoir}
            \cup {WriteCtl(en, p, emu) : en \in BOOLEAN, p \in {0, 1}, emu \in BOOLEAN}
            \cup {WriteSet(r, s) : r \in {"IER", "IDR", "SWIR"}, s \in SUBSET Irqs}
            \cup {WriteIvt(i, v) : i \in Irqs, v \in Vectors}

-----------------------------------------------------------------------------
Cleared ==
  /\ enable = FALSE /\ emu_edge = FALSE /\ pol = 0 /\ imr = {}
  /\ access = Quiet
  /\ irqs_i_reg = {} /\ swi_mask = {} /\ state = "WAIT_IRQ" /\ current_irq = 0
  /\ vic_var = Dummy /\ irq_master_o = 0

VicInit == /\ g_retry_timeout \in {0, RetryTimeout}
           /\ irqs_i \in SUBSET Irqs
           /\ vector_table \in [Irqs -> Vectors] /\ data_int \in Vectors
           /\ timeout_count = 0
           /\ Cleared

Lowest(s) == CHOOSE i \in s : \A j \in s : i <= j

RISR == irqs_i \cup swi_mask

-----------------------------------------------------------------------------
(* The registers.  A write of CTL sets ENABLE and EMU_EDGE at once, the    *)
(* polarity a clock later.                                                 *)
Bus(a) ==
  /\ access # Quiet => a = Quiet
  /\ access' = a
  /\ enable' = IF a.reg = "CTL" THEN a.enable ELSE enable
  /\ emu_edge' = IF a.reg = "CTL" THEN a.emu_edge ELSE emu_edge
  /\ pol' = IF access.reg = "CTL" THEN access.pol ELSE pol
  /\ imr' = IF access.reg = "IER" THEN imr \cup access.set
            ELSE IF access.reg = "IDR" THEN imr \ access.set ELSE imr
  /\ vector_table' = IF access.reg = "IVT"
                     THEN [vector_table EXCEPT ![access.irq] = access.vector]
                     ELSE vector_table

\* swi_mask, before what the state machine does to it.
Software == IF access.reg = "SWIR" THEN access.set ELSE swi_mask

Deassert == irq_master_o' = 1 - pol
Assert == irq_master_o' = pol

Disabled ==
  /\ ~enable
  /\ Deassert
  /\ state' = "WAIT_IRQ" /\ current_irq' = 0 /\ vic_var' = Dummy /\ swi_mask' = {}
  /\ UNCHANGED timeout_count

Mut_WaitIrq ==
  /\ enable /\ state = "WAIT_IRQ"
  /\ IF irqs_i_reg # {}
     THEN /\ current_irq' = Lowest(irqs_i_reg) /\ state' = "PROCESS_IRQ"
          /\ UNCHANGED <<vic_var, irq_master_o>>
     ELSE /\ Deassert /\ vic_var' = 0
          /\ UNCHANGED <<current_irq, state>>
  /\ swi_mask' = Software
  /\ UNCHANGED timeout_count
WaitIrq ==
  /\ enable /\ state = "WAIT_IRQ"
  /\ IF irqs_i_reg # {}
     THEN /\ current_irq' = Lowest(irqs_i_reg) /\ state' = "WAIT_MEM"
          /\ UNCHANGED <<vic_var, irq_master_o>>
     ELSE /\ Deassert /\ vic_var' = 0
          /\ UNCHANGED <<current_irq, state>>
  /\ swi_mask' = Software
  /\ UNCHANGED timeout_count

WaitMem ==
  /\ enable /\ state = "WAIT_MEM"
  /\ state' = "PROCESS_IRQ" /\ swi_mask' = Software
  /\ UNCHANGED <<current_irq, vic_var, timeout_count, irq_master_o>>

ProcessIrq ==
  /\ enable /\ state = "PROCESS_IRQ"
  /\ vic_var' = data_int /\ Assert /\ timeout_count' = 0 /\ state' = "WAIT_ACK"
  /\ swi_mask' = Software
  /\ UNCHANGED current_irq

Acked ==
  /\ enable /\ state = "WAIT_ACK" /\ access = WriteEoir
  /\ state' = "WAIT_IDLE" /\ swi_mask' = {} /\ timeout_count' = 0
  /\ UNCHANGED <<current_irq, vic_var, irq_master_o>>

\* Without a retry timeout nothing reads the counter before it is cleared.
WaitAck ==
  /\ enable /\ state = "WAIT_ACK" /\ access # WriteEoir
  /\ IF g_retry_timeout # 0 /\ timeout_count = g_retry_timeout
     THEN timeout_count' = 0 /\ state' = "RETRY" /\ Deassert
     ELSE /\ timeout_count' = IF g_retry_timeout = 0 THEN 0 ELSE timeout_count + 1
          /\ UNCHANGED <<state, irq_master_o>>
  /\ swi_mask' = Software
  /\ UNCHANGED <<current_irq, vic_var>>

Retry ==
  /\ enable /\ state = "RETRY"
  /\ IF timeout_count = RetryLow
     THEN Assert /\ state' = "WAIT_ACK" /\ timeout_count' = 0
     ELSE timeout_count' = timeout_count + 1 /\ UNCHANGED <<state, irq_master_o>>
  /\ swi_mask' = Software
  /\ UNCHANGED <<current_irq, vic_var>>

\* The counter runs one past EMU_LEN and is not read again before it is cleared.
WaitIdle ==
  /\ enable /\ state = "WAIT_IDLE"
  /\ IF emu_edge
     THEN /\ Deassert
          /\ timeout_count' = timeout_count + 1
          /\ state' = IF timeout_count = EmuLen THEN "WAIT_IRQ" ELSE state
     ELSE state' = "WAIT_IRQ" /\ UNCHANGED <<irq_master_o, timeout_count>>
  /\ swi_mask' = Software
  /\ UNCHANGED <<current_irq, vic_var>>

Clock(a) ==
  /\ Bus(a)
  /\ irqs_i_reg' = RISR \cap imr
  /\ data_int' = vector_table[current_irq]
  /\ \/ Disabled \/ WaitIrq \/ WaitMem \/ ProcessIrq
     \/ Acked \/ WaitAck \/ Retry \/ WaitIdle
  /\ UNCHANGED g_retry_timeout

(* rst_n_i low: the table and the counter are not reset. *)
Reset == /\ Cleared'
         /\ data_int' = vector_table[current_irq]
         /\ UNCHANGED <<g_retry_timeout, vector_table, timeout_count>>

(* Any host that fills the table only while the controller is disabled, as *)
(* the driver does.                                                        *)
HostRule(a) == a.reg = "IVT" => ~enable

VicNext == \/ \E a \in Accesses : HostRule(a) /\ Clock(a) /\ irqs_i' \in SUBSET Irqs
           \/ Reset /\ irqs_i' \in SUBSET Irqs

VicSpec == VicInit /\ [][VicNext]_vicVars

-----------------------------------------------------------------------------
States == {"WAIT_IRQ", "WAIT_MEM", "PROCESS_IRQ", "WAIT_ACK", "RETRY", "WAIT_IDLE"}

TypeOK ==
  /\ g_retry_timeout \in {0, RetryTimeout} /\ irqs_i \subseteq Irqs
  /\ access \in Accesses
  /\ enable \in BOOLEAN /\ emu_edge \in BOOLEAN /\ pol \in {0, 1}
  /\ imr \subseteq Irqs /\ vector_table \in [Irqs -> Vectors]
  /\ irqs_i_reg \subseteq Irqs /\ swi_mask \subseteq Irqs
  /\ state \in States /\ current_irq \in Irqs /\ data_int \in Vectors
  /\ vic_var \in Vectors \cup {Dummy}
  /\ timeout_count \in Nat /\ irq_master_o \in {0, 1}

(* While an interrupt waits for its end-of-interrupt, VAR is the vector of *)
(* the interrupt being served, whatever the lines, the mask and the other  *)
(* registers do meanwhile (wb_vic.vhd:142-147, 304-330).                   *)
VectorIsCurrent ==
  state \in {"WAIT_ACK", "RETRY"} /\ enable => vic_var = vector_table[current_irq]
=============================================================================

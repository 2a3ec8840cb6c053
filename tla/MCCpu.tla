------------------------------- MODULE MCCpu -------------------------------
(***************************************************************************)
(* What the wrappers of the simulator do for their CPUs: the interrupts,   *)
(* "irq"; the clock and the frequency levels, "clock"; the trace of the    *)
(* energy, "energy".                                                       *)
(***************************************************************************)
EXTENDS QemuInterrupts, CpuClock, EnergyTrace

VARIABLE part

\* Interrupt 0 to both CPUs, the others to cpu1, which writes the enable mask.
Shared == [i \in Irqs |-> IF i = 0 THEN {"cpu0", "cpu1"} ELSE {"cpu1"}]
TwoSpeeds == [l \in 0 .. 1 |-> l + 1]
TwoModes == [m \in 0 .. 1 |-> 2 * m + 1]

MCInit == /\ part \in {"irq", "clock", "energy"}
          /\ Init /\ ClockInit /\ TraceInit
          /\ part # "energy" => mode = [p \in Periphs |-> 0]

MCNext == \/ part = "irq" /\ Next /\ UNCHANGED <<part, clockVars, traceVars>>
          \/ part = "clock" /\ ClockNext /\ UNCHANGED <<part, vars, traceVars>>
          \/ part = "energy" /\ TraceNext /\ UNCHANGED <<part, vars, clockVars>>

MCSpec == /\ MCInit /\ [][MCNext]_<<part, vars, clockVars, traceVars>>
          /\ WF_vars(InterruptsThread /\ UNCHANGED part)
=============================================================================

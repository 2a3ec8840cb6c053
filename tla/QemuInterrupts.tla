--------------------------- MODULE QemuInterrupts ---------------------------
(***************************************************************************)
(* The interrupt logic of qemu_wrapper: interrupts_thread turns edges of   *)
(* the interrupt ports into the level of each CPU's interrupt line, the    *)
(* register writes SET_SYSTEMC_INT_ENABLE, GENERATE_SWI and SWI_ACK change *)
(* the same levels, and a CPU that executed a wait-for-interrupt sleeps in *)
(* cpu_thread until wakeup() is called.                                    *)
(*                                                                         *)
(* Bit masks over interrupts and CPUs are sets.  generate_swi is only      *)
(* called with bit 0, so m_swi is a boolean.                               *)
(***************************************************************************)
EXTENDS Naturals, FiniteSets

CONSTANTS
    Cpus,            \* CPUs of the wrapper
    NInterrupts,     \* m_ninterrupts
    IrqCpus,         \* m_irq_cpu_mask: the CPUs each interrupt is routed to
    EnableWriters    \* the CPUs whose software writes INT_ENABLE

Irqs == 0 .. NInterrupts - 1

ASSUME InterruptsAssumption ==
    /\ NInterrupts \in 0 .. 32          \* the masks are 32-bit registers
    /\ IrqCpus \in [Irqs -> SUBSET Cpus]
    /\ EnableWriters \subseteq Cpus

VARIABLES
    port,        \* the interrupt ports that are high
    changed,     \* ports with an edge in this delta cycle, not yet handled
    raw,         \* m_interrupts_raw_status
    enable,      \* m_interrupts_enable
    cpuRaw,      \* m_cpu_interrupts_raw_status
    cpuStatus,   \* m_cpu_interrupts_status
    swi,         \* m_swi of each CPU
    line,        \* the level last given to qemu_irq_update
    asleep       \* cpu_thread is in wait (m_ev_wakeup)

vars == <<port, changed, raw, enable, cpuRaw, cpuStatus, swi, line, asleep>>

Routed(c) == {i \in Irqs : c \in IrqCpus[i]}

Init == /\ port = {} /\ changed = {}
        /\ raw = {} /\ enable = {}
        /\ cpuRaw = [c \in Cpus |-> {}]
        /\ cpuStatus = [c \in Cpus |-> {}]
        /\ swi = [c \in Cpus |-> FALSE]
        /\ line = [c \in Cpus |-> FALSE]
        /\ asleep = [c \in Cpus |-> FALSE]
-----------------------------------------------------------------------------
\* The devices drive their interrupt signals: the kernel's update phase.
UpdatePorts(S) ==
    /\ changed = {}
    /\ port' = (port \ S) \cup (S \ port)
    /\ changed' = S
    /\ UNCHANGED <<raw, enable, cpuRaw, cpuStatus, swi, line, asleep>>

Rising == changed \cap port
Falling == changed \ port

\* The status of CPU c when the scan of interrupts_thread reaches interrupt i.
StatusAt(c, i) ==
    LET seen == {j \in Routed(c) \cap enable : j < i}
    IN  (cpuStatus[c] \cup (Rising \cap seen)) \ (Falling \cap seen)

\* The scan compares the status before it, not as it goes.
GoesUp_AtStart(c) == cpuStatus[c] = {} /\ Rising \cap Routed(c) \cap enable # {}
GoesUp(c) == \E i \in Rising \cap Routed(c) \cap enable : StatusAt(c, i) = {}
GoesDown(c) == \E i \in Falling \cap Routed(c) \cap enable : StatusAt(c, i + 1) = {}

\* interrupts_thread that raises the lines and leaves the CPUs asleep.
InterruptsThread_NoWakeup ==
    /\ changed # {}
    /\ changed' = {}
    /\ raw' = (raw \cup Rising) \ Falling
    /\ cpuRaw' = [c \in Cpus |-> (cpuRaw[c] \cup (Rising \cap Routed(c))) \ (Falling \cap Routed(c))]
    /\ cpuStatus' = [c \in Cpus |-> StatusAt(c, NInterrupts)]
    /\ line' = [c \in Cpus |-> IF swi[c] THEN line[c]
                               ELSE GoesUp(c) \/ (line[c] /\ ~GoesDown(c))]
    /\ UNCHANGED <<port, enable, swi, asleep>>

\* interrupts_thread: one scan of the ports that had an edge.
InterruptsThread ==
    /\ changed # {}
    /\ changed' = {}
    /\ raw' = (raw \cup Rising) \ Falling
    /\ cpuRaw' = [c \in Cpus |-> (cpuRaw[c] \cup (Rising \cap Routed(c))) \ (Falling \cap Routed(c))]
    /\ cpuStatus' = [c \in Cpus |-> StatusAt(c, NInterrupts)]
    /\ line' = [c \in Cpus |-> IF swi[c] THEN line[c]
                               ELSE GoesUp(c) \/ (line[c] /\ ~GoesDown(c))]
    /\ asleep' = [c \in Cpus |-> asleep[c] /\ (swi[c] \/ ~GoesUp(c))]
    /\ UNCHANGED <<port, enable, swi>>

\* set_int_enable that forgets to recompute the status.
SetIntEnable_StaleStatus(c, val) ==
    /\ ~asleep[c] /\ c \in EnableWriters
    /\ line' = [d \in Cpus |->
         IF swi[d] THEN line[d]
         ELSE IF cpuStatus[d] = {} THEN line[d] \/ cpuRaw[d] \cap val # {}
         ELSE line[d] /\ cpuRaw[d] \cap val # {}]
    /\ enable' = val
    /\ UNCHANGED <<port, changed, raw, cpuRaw, cpuStatus, swi, asleep>>

\* set_int_enable: CPU c writes SET_SYSTEMC_INT_ENABLE.  No CPU is woken.
SetIntEnable(c, val) ==
    /\ ~asleep[c] /\ c \in EnableWriters
    /\ line' = [d \in Cpus |->
         IF swi[d] THEN line[d]
         ELSE IF cpuStatus[d] = {} THEN line[d] \/ cpuRaw[d] \cap val # {}
         ELSE line[d] /\ cpuRaw[d] \cap val # {}]
    /\ cpuStatus' = [d \in Cpus |-> cpuRaw[d] \cap val]
    /\ enable' = val
    /\ UNCHANGED <<port, changed, raw, cpuRaw, swi, asleep>>

\* generate_swi: CPU c writes GENERATE_SWI.
GenerateSwi(c, targets) ==
    /\ ~asleep[c]
    /\ swi' = [d \in Cpus |-> swi[d] \/ d \in targets]
    /\ line' = [d \in Cpus |-> line[d] \/ (d \in targets /\ cpuStatus[d] = {})]
    /\ asleep' = [d \in Cpus |-> asleep[d] /\ ~(d \in targets /\ cpuStatus[d] = {})]
    /\ UNCHANGED <<port, changed, raw, enable, cpuRaw, cpuStatus>>

\* swi_ack: CPU c acknowledges its software interrupt.
SwiAck(c) ==
    /\ ~asleep[c] /\ swi[c]
    /\ swi' = [swi EXCEPT ![c] = FALSE]
    /\ line' = [line EXCEPT ![c] = @ /\ cpuStatus[c] # {}]
    /\ UNCHANGED <<port, changed, raw, enable, cpuRaw, cpuStatus, asleep>>

\* qemu_cpu_loop returns EXCP_HLT or EXCP_HALTED: the CPU waits for an
\* interrupt and its line is low.
Halt(c) ==
    /\ ~asleep[c] /\ ~line[c]
    /\ asleep' = [asleep EXCEPT ![c] = TRUE]
    /\ UNCHANGED <<port, changed, raw, enable, cpuRaw, cpuStatus, swi, line>>

CpuStep(c) ==
    \/ \E val \in SUBSET Irqs : SetIntEnable(c, val)
    \/ \E targets \in SUBSET Cpus : GenerateSwi(c, targets)
    \/ SwiAck(c)
    \/ Halt(c)

Next == \/ \E S \in SUBSET Irqs : UpdatePorts(S)
        \/ InterruptsThread
        \/ \E c \in Cpus : CpuStep(c)

Spec == Init /\ [][Next]_vars

\* The scheduler runs interrupts_thread in the delta cycle of the edge.
FairSpec == Spec /\ WF_vars(InterruptsThread)
-----------------------------------------------------------------------------
\* GET_SYSTEMC_MAX_INT_PENDING read by CPU c: its software interrupt, else
\* the lowest pending interrupt of the wrapper, else 1023.
NoVector == 1023
MaxIntPending(c) ==
    LET pending == raw \cap enable
    IN  IF swi[c] THEN 1
        ELSE IF pending = {} THEN NoVector
        ELSE 32 + CHOOSE i \in pending : \A j \in pending : i <= j

TypeOK ==
    /\ port \subseteq Irqs /\ changed \subseteq Irqs
    /\ raw \subseteq Irqs /\ enable \subseteq Irqs
    /\ cpuRaw \in [Cpus -> SUBSET Irqs]
    /\ cpuStatus \in [Cpus -> SUBSET Irqs]
    /\ swi \in [Cpus -> BOOLEAN]
    /\ line \in [Cpus -> BOOLEAN]
    /\ asleep \in [Cpus -> BOOLEAN]

(* The interrupt line of a CPU is high exactly while one of its enabled    *)
(* interrupts or its software interrupt is pending, whatever the order of  *)
(* edges, mask writes, software interrupts and acknowledgements: the three *)
(* places that update the line only look at the part they change.          *)
LineFollowsSources ==
    \A c \in Cpus : line[c] <=> (cpuStatus[c] # {} \/ swi[c])

(* The copies of the interrupt state agree: per CPU and global, raw and    *)
(* enabled, and, between delta cycles, with the ports.                     *)
CopiesAgree ==
    /\ \A i \in Irqs \ changed : i \in raw <=> i \in port
    /\ \A i \in changed : i \in raw <=> i \notin port
    /\ \A c \in Cpus : /\ cpuRaw[c] = raw \cap Routed(c)
                       /\ cpuStatus[c] = cpuRaw[c] \cap enable

\* No other CPU changes the enable mask of an interrupt routed to c.
OwnEnable(c) == Routed(c) = {} \/ EnableWriters \subseteq {c}

(* No CPU sleeps while its interrupt line is high, provided no other CPU   *)
(* enables interrupts for it: set_int_enable raises the line of another    *)
(* CPU without waking it.                                                  *)
NoSleepOnInterrupt ==
    \A c \in Cpus : OwnEnable(c) => (asleep[c] => ~line[c])

(* A CPU that is interrupted finds a cause: it never reads the spurious    *)
(* vector, and a hardware vector it reads is one that is enabled and high. *)
InterruptHasVector ==
    \A c \in Cpus : line[c] =>
        LET v == MaxIntPending(c)
        IN  v # NoVector /\ (v >= 32 => v - 32 \in raw \cap enable)

(* An enabled interrupt that stays up wakes the CPU it is routed to, under *)
(* the same proviso.                                                       *)
InterruptWakes ==
    \A c \in {d \in Cpus : OwnEnable(d)} :
      (asleep[c] /\ port \cap enable \cap Routed(c) # {})
         ~> (~asleep[c] \/ port \cap enable \cap Routed(c) = {})
=============================================================================

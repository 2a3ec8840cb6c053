----------------------------- MODULE CpuProofs -----------------------------
(***************************************************************************)
(* Proofs about the CPUs of a qemu_wrapper: QemuInterrupts, for every      *)
(* number of CPUs and interrupts and every routing; CpuClock, for every    *)
(* number of CPUs, every list of frequency levels and without a bound on   *)
(* the time; and EnergyTrace, for every set of peripherals, every cost of  *)
(* their modes, every period and every size of the history.                *)
(***************************************************************************)
EXTENDS QemuInterrupts, CpuClock, EnergyTrace, WellFoundedInduction, FiniteSetTheorems,
        SequenceTheorems, TLAPS

(* A scan of the interrupts in increasing order has a first and a last     *)
(* element among those it changes.                                         *)
LEMMA FirstOf ==
  ASSUME NEW T, T \subseteq Nat, T # {}
  PROVE  \E x \in T : \A y \in T : x <= y
<1>1. PICK x \in T : \A y \in T : ~ (<<y, x>> \in OpToRel(<, Nat))
  BY NatLessThanWellFounded, WFMin
<1>2. \A y \in T : ~ (y < x)
  BY <1>1 DEF OpToRel
<1> QED BY <1>2

LEMMA LastOf ==
  ASSUME NEW N \in Nat, NEW T, T \subseteq 0 .. N - 1, T # {}
  PROVE  \E x \in T : \A y \in T : y <= x
<1> DEFINE U == {k \in Nat : \E t \in T : k = N - t}
<1>1. U \subseteq Nat /\ U # {}
  <2>1. PICK t \in T : TRUE OBVIOUS
  <2>2. N - t \in Nat OBVIOUS
  <2> QED BY <2>1, <2>2
<1>2. PICK u \in U : \A v \in U : u <= v
  <2> HIDE DEF U
  <2> QED BY <1>1, FirstOf
<1>3. PICK t \in T : u = N - t OBVIOUS
<1>4. \A y \in T : y <= t
  <2> TAKE y \in T
  <2>1. N - y \in U OBVIOUS
  <2>2. u <= N - y
    <3> HIDE DEF U
    <3> QED BY <1>2, <2>1
  <2>3. t \in 0 .. N - 1 /\ y \in 0 .. N - 1 OBVIOUS
  <2> QED BY <1>3, <2>2, <2>3
<1> QED BY <1>4

(* The status of a CPU when the scan reaches interrupt i: S is its status  *)
(* before the scan, R and F the enabled interrupts that rise and fall.     *)
ScanAt(S, R, F, i) == (S \cup {j \in R : j < i}) \ {j \in F : j < i}

ScanUp(S, R, F) == \E i \in R : ScanAt(S, R, F, i) = {}
ScanDown(S, R, F) == \E i \in F : ScanAt(S, R, F, i + 1) = {}

(* The decision of interrupts_thread, for one CPU.  "The status was empty  *)
(* when a bit was set, or it was not empty and never became empty when a   *)
(* bit was cleared" tells whether it is empty at the end, although the two *)
(* tests are made in the middle of the scan.                               *)
LEMMA ScanDecides ==
  ASSUME NEW N \in Nat,
         NEW S, S \subseteq 0 .. N - 1,
         NEW R, R \subseteq 0 .. N - 1, R \cap S = {},
         NEW F, F \subseteq S
  PROVE  (S \cup R) \ F # {}
           <=> ScanUp(S, R, F) \/ (S # {} /\ ~ScanDown(S, R, F))
<1> DEFINE At(i) == (S \cup {j \in R : j < i}) \ {j \in F : j < i}
           up    == \E i \in R : At(i) = {}
           down  == \E i \in F : At(i + 1) = {}
<1>0. SUFFICES (S \cup R) \ F # {} <=> up \/ (S # {} /\ ~down)
  BY DEF ScanUp, ScanDown, ScanAt
<1>1. R \subseteq (S \cup R) \ F OBVIOUS
<1>2. CASE R # {}
  <2>. R \subseteq Nat
    OBVIOUS
  <2>1. PICK r \in R : \A y \in R : r <= y
    BY <1>2, FirstOf
  <2>. \A y \in R : ~(y < r)
    BY <2>1
  <2>2. up \/ S # {}
    <3>1. SUFFICES ASSUME S = {} PROVE At(r) = {}
      BY <2>1
    <3>2. {j \in R : j < r} = {}
      OBVIOUS
    <3> QED BY <3>1, <3>2
  <2>3. ASSUME down PROVE up
    <3>1. PICK f \in F : At(f + 1) = {}
      BY <2>3
    <3>2. \A j \in R : f < j
      <4>1. SUFFICES ASSUME NEW j \in R, ~(f < j) PROVE FALSE
        OBVIOUS
      <4>2. j < f + 1 /\ j \notin F
        BY <4>1
      <4>3. j \in At(f + 1)
        BY <4>2
      <4> QED BY <3>1, <4>3
    <3>3. \A j \in S : j \in F /\ j < f + 1
      BY <3>1
    <3>4. {j \in R : j < r} = {}
      OBVIOUS
    <3>5. \A j \in S : j \in F /\ j < r
      BY <3>2, <3>3, <2>1
    <3>6. At(r) = {}
      BY <3>4, <3>5
    <3> QED BY <3>6, <2>1
  <2> QED BY <1>1, <1>2, <2>2, <2>3
<1>3. CASE R = {}
  <2>1. ~up /\ (S \cup R) \ F = S \ F
    BY <1>3
  <2>2. ASSUME down PROVE S \ F = {}
    BY <2>2, <1>3
  <2>3. ASSUME S \ F = {}, S # {} PROVE down
    <3>1. PICK f \in F : \A y \in F : y <= f
      BY <2>3, LastOf
    <3>2. \A j \in S : j \in F /\ j < f + 1
      BY <2>3, <3>1
    <3>3. At(f + 1) = {}
      BY <3>2, <1>3
    <3> QED BY <3>3
  <2> QED BY <2>1, <2>2, <2>3
<1> QED BY <1>2, <1>3
-----------------------------------------------------------------------------
(* The inductive invariant.  The line of a CPU is decided from the copies  *)
(* of the interrupt state, so it is only inductive together with them.     *)
IInv == TypeOK /\ CopiesAgree /\ LineFollowsSources

(* The scan of interrupts_thread for CPU c: what it leaves in the status,  *)
(* and its two tests, in terms of ScanDecides.                             *)
LEMMA ScanOfCpu ==
  ASSUME TypeOK, CopiesAgree, NEW c \in Cpus
  PROVE  LET R == Rising \cap Routed(c) \cap enable
             F == Falling \cap Routed(c) \cap enable
         IN  /\ StatusAt(c, NInterrupts) = (cpuStatus[c] \cup R) \ F
             /\ StatusAt(c, NInterrupts) # {}
                  <=> GoesUp(c) \/ (cpuStatus[c] # {} /\ ~GoesDown(c))
<1> DEFINE S == cpuStatus[c]
           R == Rising \cap Routed(c) \cap enable
           F == Falling \cap Routed(c) \cap enable
<1>1. NInterrupts \in Nat
  BY InterruptsAssumption
<1>2. S \subseteq 0 .. NInterrupts - 1 /\ R \subseteq 0 .. NInterrupts - 1
  BY DEF TypeOK, Routed, Irqs
<1>3. R \cap S = {}
  BY DEF TypeOK, CopiesAgree, Rising, Routed, Irqs
<1>4. F \subseteq S
  BY DEF TypeOK, CopiesAgree, Falling, Routed, Irqs
<1>5. \A i : StatusAt(c, i) = ScanAt(S, R, F, i)
  BY DEF StatusAt, ScanAt
<1>6. ScanAt(S, R, F, NInterrupts) = (S \cup R) \ F
  <2>1. {j \in R : j < NInterrupts} = R
    BY <1>1, <1>2
  <2>2. {j \in F : j < NInterrupts} = F
    BY <1>1, <1>2, <1>4
  <2> QED BY <2>1, <2>2 DEF ScanAt
<1>7. (S \cup R) \ F # {}
        <=> ScanUp(S, R, F) \/ (S # {} /\ ~ScanDown(S, R, F))
  <2> HIDE DEF S, R, F
  <2> QED BY <1>1, <1>2, <1>3, <1>4, ScanDecides
<1>8. GoesUp(c) <=> ScanUp(S, R, F)
  BY <1>5 DEF GoesUp, ScanUp
<1>9. GoesDown(c) <=> ScanDown(S, R, F)
  BY <1>5 DEF GoesDown, ScanDown
<1> QED BY <1>5, <1>6, <1>7, <1>8, <1>9
-----------------------------------------------------------------------------
LEMMA InitEstablishes == Init => IInv
BY InterruptsAssumption DEF Init, IInv, TypeOK, CopiesAgree, LineFollowsSources, Irqs

\* The handler of the ports keeps the invariant.
LEMMA ThreadPreserves == IInv /\ InterruptsThread => IInv'
<1> SUFFICES ASSUME IInv, InterruptsThread PROVE IInv'
  OBVIOUS
<1> USE DEF IInv
<1>1. \A c \in Cpus : /\ cpuStatus'[c] = StatusAt(c, NInterrupts)
                      /\ cpuRaw'[c] = (cpuRaw[c] \cup (Rising \cap Routed(c))) \ (Falling \cap Routed(c))
  BY DEF InterruptsThread
<1>2. \A c \in Cpus : cpuStatus'[c] = (cpuStatus[c] \cup (Rising \cap Routed(c) \cap enable))
                                       \ (Falling \cap Routed(c) \cap enable)
  BY <1>1, ScanOfCpu
<1>3. CopiesAgree'
  <2>1. \A i \in Irqs : i \in raw' <=> i \in port'
    BY DEF InterruptsThread, CopiesAgree, TypeOK, Rising, Falling
  <2>2. ASSUME NEW c \in Cpus
        PROVE  cpuRaw'[c] = raw' \cap Routed(c) /\ cpuStatus'[c] = cpuRaw'[c] \cap enable'
    BY <1>1, <1>2 DEF InterruptsThread, CopiesAgree
  <2> QED BY <2>1, <2>2 DEF CopiesAgree, InterruptsThread, Routed
<1>4. TypeOK'
  <2>1. raw' \subseteq Irqs
    BY DEF InterruptsThread, TypeOK, Rising
  <2>2. cpuRaw' \in [Cpus -> SUBSET Irqs]
    BY DEF InterruptsThread, TypeOK, Rising
  <2>3. cpuStatus' \in [Cpus -> SUBSET Irqs]
    BY DEF InterruptsThread, TypeOK, Rising, StatusAt
  <2>4. line' \in [Cpus -> BOOLEAN] /\ asleep' \in [Cpus -> BOOLEAN]
    BY DEF InterruptsThread, TypeOK, GoesUp
  <2> QED BY <2>1, <2>2, <2>3, <2>4 DEF InterruptsThread, TypeOK
<1>5. LineFollowsSources'
  <2> SUFFICES ASSUME NEW c \in Cpus
               PROVE  line'[c] <=> (cpuStatus'[c] # {} \/ swi'[c])
    BY DEF LineFollowsSources
  <2>1. line'[c] <=> IF swi[c] THEN line[c] ELSE GoesUp(c) \/ (line[c] /\ ~GoesDown(c))
    BY DEF InterruptsThread
  <2>2. swi'[c] = swi[c]
    BY DEF InterruptsThread
  <2>3. line[c] <=> (cpuStatus[c] # {} \/ swi[c])
    BY DEF LineFollowsSources
  <2>4. cpuStatus'[c] # {} <=> GoesUp(c) \/ (cpuStatus[c] # {} /\ ~GoesDown(c))
    BY <1>1, ScanOfCpu
  <2> QED BY <2>1, <2>2, <2>3, <2>4
<1> QED BY <1>3, <1>4, <1>5

LEMMA StepPreserves == IInv /\ [Next]_vars => IInv'
<1> SUFFICES ASSUME IInv, [Next]_vars PROVE IInv'
  OBVIOUS
<1> USE DEF IInv
<1>1. ASSUME NEW S \in SUBSET Irqs, UpdatePorts(S) PROVE IInv'
  <2>1. TypeOK'
    BY <1>1 DEF UpdatePorts, TypeOK
  <2>2. CopiesAgree'
    BY <1>1 DEF UpdatePorts, TypeOK, CopiesAgree, Routed
  <2>3. LineFollowsSources'
    BY <1>1 DEF UpdatePorts, LineFollowsSources
  <2> QED BY <2>1, <2>2, <2>3
<1>2. CASE InterruptsThread
  BY <1>2, ThreadPreserves
<1>3. ASSUME NEW c \in Cpus, NEW val \in SUBSET Irqs, SetIntEnable(c, val) PROVE IInv'
  <2>1. TypeOK'
    <3>1. line' \in [Cpus -> BOOLEAN]
      BY <1>3 DEF SetIntEnable, TypeOK
    <3>2. cpuStatus' \in [Cpus -> SUBSET Irqs]
      BY <1>3 DEF SetIntEnable, TypeOK
    <3> QED BY <1>3, <3>1, <3>2 DEF SetIntEnable, TypeOK
  <2>2. CopiesAgree'
    BY <1>3 DEF SetIntEnable, CopiesAgree, Routed
  <2>3. LineFollowsSources'
    BY <1>3 DEF SetIntEnable, LineFollowsSources
  <2> QED BY <2>1, <2>2, <2>3
<1>4. ASSUME NEW c \in Cpus, NEW targets \in SUBSET Cpus, GenerateSwi(c, targets) PROVE IInv'
  <2>1. TypeOK'
    BY <1>4 DEF GenerateSwi, TypeOK
  <2>2. CopiesAgree'
    BY <1>4 DEF GenerateSwi, CopiesAgree, Routed
  <2>3. LineFollowsSources'
    BY <1>4 DEF GenerateSwi, LineFollowsSources
  <2> QED BY <2>1, <2>2, <2>3
<1>5. ASSUME NEW c \in Cpus, SwiAck(c) PROVE IInv'
  <2>1. TypeOK'
    BY <1>5 DEF SwiAck, TypeOK
  <2>2. CopiesAgree'
    BY <1>5 DEF SwiAck, CopiesAgree, Routed
  <2>3. LineFollowsSources'
    BY <1>5 DEF SwiAck, LineFollowsSources, TypeOK
  <2> QED BY <2>1, <2>2, <2>3
<1>6. ASSUME NEW c \in Cpus, Halt(c) PROVE IInv'
  BY <1>6 DEF Halt, TypeOK, CopiesAgree, LineFollowsSources, Routed
<1>7. CASE UNCHANGED vars
  BY <1>7 DEF vars, TypeOK, CopiesAgree, LineFollowsSources, Routed
<1> QED BY <1>1, <1>2, <1>3, <1>4, <1>5, <1>6, <1>7 DEF Next, CpuStep

LEMMA Invariance == Spec => []IInv
BY InitEstablishes, StepPreserves, PTL DEF Spec

(* The sets that stand for the masks of qemu_wrapper stay within the       *)
(* interrupts and the CPUs it was built with.                              *)
THEOREM TypeCorrect == Spec => []TypeOK
BY Invariance, PTL DEF IInv

(* After any interleaving of interrupts_thread, set_int_enable,            *)
(* generate_swi and swi_ack the level given to qemu_irq_update is high     *)
(* exactly while an enabled or software interrupt of the CPU is pending.   *)
THEOREM LineIsRight == Spec => []LineFollowsSources
BY Invariance, PTL DEF IInv

(* m_interrupts_raw_status, m_cpu_interrupts_raw_status and                *)
(* m_cpu_interrupts_status never drift apart, nor from the ports.          *)
THEOREM CopiesDoNotDrift == Spec => []CopiesAgree
BY Invariance, PTL DEF IInv

-----------------------------------------------------------------------------
LEMMA SleepersInit == Init => NoSleepOnInterrupt
BY DEF Init, NoSleepOnInterrupt

\* A line only rises in a step that wakes the CPU, or, for its own mask
\* write, while it runs.
LEMMA SleepersStep ==
  IInv /\ NoSleepOnInterrupt /\ [Next]_vars => NoSleepOnInterrupt'
<1> SUFFICES ASSUME IInv, NoSleepOnInterrupt, [Next]_vars,
                    NEW d \in Cpus, OwnEnable(d), asleep'[d]
             PROVE  ~line'[d]
  BY DEF NoSleepOnInterrupt, OwnEnable, Routed
<1>0. asleep[d] => ~line[d]
  BY DEF NoSleepOnInterrupt
<1>1. ASSUME NEW S \in SUBSET Irqs, UpdatePorts(S) PROVE ~line'[d]
  BY <1>0, <1>1 DEF UpdatePorts
<1>2. CASE InterruptsThread
  <2>1. asleep[d] /\ (swi[d] \/ ~GoesUp(d))
    BY <1>2 DEF InterruptsThread
  <2>2. line'[d] <=> IF swi[d] THEN line[d] ELSE GoesUp(d) \/ (line[d] /\ ~GoesDown(d))
    BY <1>2 DEF InterruptsThread
  <2> QED BY <1>0, <2>1, <2>2
<1>3. ASSUME NEW c \in Cpus, NEW val \in SUBSET Irqs, SetIntEnable(c, val) PROVE ~line'[d]
  <2>1. asleep[d] /\ ~asleep[c] /\ c \in EnableWriters
    BY <1>3 DEF SetIntEnable
  <2>2. cpuRaw[d] = {}
    <3>1. SUFFICES ASSUME NEW i \in cpuRaw[d] PROVE FALSE
      OBVIOUS
    <3>2. i \in Routed(d)
      BY DEF IInv, CopiesAgree
    <3>3. c = d
      BY <2>1, <3>2 DEF OwnEnable
    <3> QED BY <2>1, <3>3
  <2>3. ~line[d]
    BY <1>0, <2>1
  <2> QED BY <1>3, <2>2, <2>3 DEF SetIntEnable
<1>4. ASSUME NEW c \in Cpus, NEW targets \in SUBSET Cpus, GenerateSwi(c, targets) PROVE ~line'[d]
  BY <1>0, <1>4 DEF GenerateSwi
<1>5. ASSUME NEW c \in Cpus, SwiAck(c) PROVE ~line'[d]
  BY <1>0, <1>5 DEF SwiAck, IInv, TypeOK
<1>6. ASSUME NEW c \in Cpus, Halt(c) PROVE ~line'[d]
  BY <1>0, <1>6 DEF Halt, IInv, TypeOK
<1>7. CASE UNCHANGED vars
  BY <1>0, <1>7 DEF vars
<1> QED BY <1>1, <1>2, <1>3, <1>4, <1>5, <1>6, <1>7 DEF Next, CpuStep

(* On every platform, a CPU for which no other CPU enables interrupts does *)
(* not stay in wait (m_ev_wakeup) while its interrupt line is high: every  *)
(* place that raises a line also wakes.                                    *)
THEOREM SleepersAreWoken == Spec => []NoSleepOnInterrupt
<1>1. Init => NoSleepOnInterrupt
  BY SleepersInit
<1>2. IInv /\ NoSleepOnInterrupt /\ [Next]_vars => NoSleepOnInterrupt'
  BY SleepersStep
<1> QED BY <1>1, <1>2, Invariance, PTL DEF Spec
-----------------------------------------------------------------------------
\* A CPU whose line is high finds a vector.
LEMMA VectorFound == IInv => InterruptHasVector
<1> SUFFICES ASSUME IInv, NEW c \in Cpus, line[c]
             PROVE  LET v == MaxIntPending(c)
                    IN  v # NoVector /\ (v >= 32 => v - 32 \in raw \cap enable)
  BY DEF InterruptHasVector
<1>1. CASE swi[c]
  BY <1>1 DEF MaxIntPending, NoVector
<1>2. CASE ~swi[c]
  <2> DEFINE pending == raw \cap enable
             first == CHOOSE i \in pending : \A j \in pending : i <= j
  <2>1. pending # {}
    BY <1>2 DEF IInv, LineFollowsSources, CopiesAgree
  <2>2. pending \subseteq Nat /\ pending \subseteq Irqs
    BY InterruptsAssumption DEF IInv, TypeOK, Irqs
  <2>3. first \in pending
    BY <2>1, <2>2, FirstOf
  <2>4. MaxIntPending(c) = 32 + first
    BY <1>2, <2>1 DEF MaxIntPending
  <2> HIDE DEF first
  <2>5. first \in 0 .. 31
    <3>1. first \in 0 .. NInterrupts - 1
      BY <2>2, <2>3 DEF Irqs
    <3>2. NInterrupts \in 0 .. 32
      BY InterruptsAssumption
    <3> HIDE DEF pending
    <3> QED BY <3>1, <3>2
  <2>6. 32 + first # NoVector /\ (32 + first) - 32 = first
    BY <2>5 DEF NoVector
  <2> QED BY <2>3, <2>4, <2>6
<1> QED BY <1>1, <1>2

(* A CPU that takes an interrupt never reads the spurious vector 1023 from *)
(* GET_SYSTEMC_MAX_INT_PENDING, and a hardware vector it reads is one that *)
(* is enabled and high; the 32 bits of the mask keep 32 + i below 1023.    *)
THEOREM VectorsAreReal == Spec => []InterruptHasVector
BY Invariance, VectorFound, PTL
-----------------------------------------------------------------------------

(* The variables have their types.                                         *)
ClockTypes ==
    /\ now \in Nat
    /\ doing \in [ClockCpus -> {"run", "slice", "sync", "read", "idle", "bus"}]
    /\ level \in [ClockCpus -> Levels] /\ at \in [ClockCpus -> Levels]
    /\ total \in [ClockCpus -> Nat] /\ n \in [ClockCpus -> Nat] /\ base \in [ClockCpus -> Nat]
    /\ left \in [ClockCpus -> Int] /\ since \in [ClockCpus -> Nat]
    /\ work \in [ClockCpus -> Nat] /\ syncs \in [ClockCpus -> Nat]
    /\ spent \in [ClockCpus -> [Levels -> Nat]]
    /\ logged \in [ClockCpus -> [Levels \cup {Idle} -> Nat]]
    /\ asked \in [ClockCpus -> ClockCpus]
    /\ high \in [ClockCpus -> Nat \cup {None}] /\ sctime \in [ClockCpus -> Nat \cup {None}]
    /\ got \in [ClockCpus -> Nat] /\ fresh \in [ClockCpus -> Nat]
    /\ half \in [ClockCpus -> {"low", "high"}]

Asleep(c) == doing[c] \in {"slice", "sync"}

\* The work done since the CPU last accounted for its time.
Since(c) == (now - since[c]) * Speed[at[c]]

\* A counter is behind the work w by less than a cycle for each of k interruptions.
Behind(t, w, k) == t * Cycle <= w /\ t * Cycle >= w - k * (Cycle - 1)

(* A CPU that sleeps has not slept longer than its cycles take; what is    *)
(* left of them is what it has not worked; its counter is behind the work  *)
(* it accounted for only by what the interruptions round off; and all the  *)
(* time since the last of them passed at the level it began with.          *)
SliceIsRight(c) ==
    /\ since[c] <= now
    /\ doing[c] = "slice" => level[c] = at[c]
    /\ Asleep(c) =>
         /\ now <= Until(c) /\ left[c] >= Cycle
         /\ left[c] = n[c] * Cycle - work[c] + Since(c)
         /\ Behind(total[c], base[c] * Cycle + work[c] - Since(c), syncs[c])
         /\ \A l \in Levels : spent[c][l] = IF l = at[c] THEN now - since[c] ELSE 0

(* The halves that software reads are those of one value.                  *)
ReadIsRight(c) ==
    /\ doing[c] = "read" =>
         /\ high[c] = None /\ sctime[c] = None
         /\ doing[asked[c]] = "slice" => since[asked[c]] = now
    /\ high[c] # None =>
         sctime[c] = None /\ high[c] = fresh[c] \div Half /\ got[c] = fresh[c] % Half
    /\ sctime[c] # None => sctime[c] = fresh[c] /\ got[c] = Part(half[c], fresh[c])

Slicing == \A c \in ClockCpus : SliceIsRight(c)
Reading == \A c \in ClockCpus : ReadIsRight(c)
ClockInv == ClockTypes /\ Slicing /\ Reading
-----------------------------------------------------------------------------
\* What division computes.
LEMMA Divided ==
  ASSUME NEW a \in Nat, NEW b \in Nat \ {0}
  PROVE  /\ a \div b \in Nat /\ a % b \in 0 .. b - 1
         /\ a = b * (a \div b) + (a % b)
OBVIOUS

\* A wait takes at least no time, and at most what is left takes, rounded to a tick.
LEMMA WaitIsRounded ==
  ASSUME NEW l \in Nat, NEW s \in Nat \ {0}
  PROVE  /\ (l + s \div 2) \div s \in Nat
         /\ \A p \in Int : p <= (l + s \div 2) \div s => p * s < l + s
<1>1. PICK h \in Nat : h = s \div 2 /\ h < s
  <2>1. s \div 2 \in Nat /\ s \div 2 < s OBVIOUS
  <2> QED BY <2>1
<1>2. PICK x \in Nat : x = l + h BY <1>1
<1>3. PICK q \in Nat : q = x \div s /\ s * q <= x
  <2>1. x \div s \in Nat /\ x % s \in 0 .. s - 1 /\ x = s * (x \div s) + (x % s) BY <1>2, Divided
  <2>2. PICK q \in Nat : q = x \div s BY <2>1
  <2>3. PICK r \in 0 .. s - 1 : r = x % s BY <2>1
  <2>4. x = s * q + r BY <2>1, <2>2, <2>3
  <2>5. s * q <= x BY ONLY <2>3, <2>4, s \in Nat \ {0}
  <2> QED BY <2>2, <2>5
<1>4. ASSUME NEW p \in Int, p <= q PROVE p * s < l + s
  <2>1. p * s <= s * q
    <3>1. (q - p) * s >= 0 BY <1>4
    <3>2. (q - p) * s = s * q - p * s OBVIOUS
    <3> QED BY <3>1, <3>2
  <2> QED BY <1>1, <1>2, <1>3, <2>1
<1>5. (l + s \div 2) \div s = q BY <1>1, <1>2, <1>3
<1> QED BY <1>4, <1>5

\* A counter that is behind by less than a cycle for each of k interruptions, and then
\* counts the whole cycles of d.
LEMMA CountRounds ==
  ASSUME NEW t \in Nat, NEW w \in Int, NEW d \in Nat, NEW k \in Nat, Behind(t, w - d, k)
  PROVE  d \div Cycle \in Nat /\ Behind(t + d \div Cycle, w, k + 1)
<1>0. Cycle \in Nat \ {0} BY ClockAssumption
<1>1. PICK r \in Nat : r = d \div Cycle /\ Cycle * r <= d /\ Cycle * r >= d - (Cycle - 1)
  <2>1. d \div Cycle \in Nat /\ d % Cycle \in 0 .. Cycle - 1 /\ d = Cycle * (d \div Cycle) + (d % Cycle)
    BY <1>0, Divided
  <2>2. PICK q \in Nat : q = d \div Cycle BY <2>1
  <2>3. PICK r \in 0 .. Cycle - 1 : r = d % Cycle BY <2>1
  <2>4. d = Cycle * q + r BY <2>1, <2>2, <2>3
  <2>5. Cycle * q <= d /\ Cycle * q >= d - (Cycle - 1) BY ONLY <2>3, <2>4, <1>0, d \in Nat
  <2> QED BY <2>2, <2>5
<1>2. (t + r) * Cycle = t * Cycle + Cycle * r BY <1>0
<1>3. (k + 1) * (Cycle - 1) = k * (Cycle - 1) + (Cycle - 1) BY <1>0
<1>4. t * Cycle <= w - d /\ t * Cycle >= (w - d) - k * (Cycle - 1) BY DEF Behind
<1>5. (t + r) * Cycle <= w /\ (t + r) * Cycle >= w - (k + 1) * (Cycle - 1)
  BY <1>0, <1>1, <1>2, <1>3, <1>4
<1> QED BY <1>1, <1>5 DEF Behind

\* A slice nobody interferes with but by waking its CPU.
LEMMA SliceKept ==
  ASSUME NEW c \in ClockCpus, SliceIsRight(c), now' = now,
         total'[c] = total[c], n'[c] = n[c], base'[c] = base[c], left'[c] = left[c],
         since'[c] = since[c], at'[c] = at[c], spent'[c] = spent[c], work'[c] = work[c],
         syncs'[c] = syncs[c], Asleep(c)' => Asleep(c), doing'[c] = "slice" => level'[c] = at[c]
  PROVE  SliceIsRight(c)'
<1>1. Since(c)' = Since(c) /\ Until(c)' = Until(c) BY DEF Since, Until
<1> QED BY <1>1 DEF SliceIsRight

\* A CPU that has just been put to sleep.
LEMMA SliceBegins ==
  ASSUME ClockTypes, NEW c \in ClockCpus, NEW l \in Nat, l >= Cycle, left'[c] = l,
         now' = now, since'[c] = now, level'[c] \in Levels, at'[c] = level'[c],
         \A k \in Levels : spent'[c][k] = 0,
         n'[c] \in Nat, work'[c] \in Nat, l = n'[c] * Cycle - work'[c],
         NEW u \in Int, u = base'[c] * Cycle + work'[c], Behind(total'[c], u, syncs'[c])
  PROVE  SliceIsRight(c)'
<1>1. Speed[at'[c]] \in Nat \ {0} /\ now \in Nat BY ClockAssumption DEF ClockTypes, Levels
<1>2. Since(c)' = 0 BY <1>1 DEF Since
<1>3. now' <= Until(c)'
  <2>1. (l + Speed[at'[c]] \div 2) \div Speed[at'[c]] \in Nat BY <1>1, WaitIsRounded
  <2> QED BY <1>1, <2>1 DEF Until
<1>4. left'[c] >= Cycle /\ left'[c] = n'[c] * Cycle - work'[c] + Since(c)' BY <1>2
<1>5. Behind(total'[c], base'[c] * Cycle + work'[c] - Since(c)', syncs'[c])
  <2>1. u - 0 = u OBVIOUS
  <2>2. base'[c] * Cycle + work'[c] - Since(c)' = u BY <1>2, <2>1
  <2> QED BY <2>2
<1>7. Behind(total[c], base[c] * Cycle + work[c] - Since(c), syncs[c])'
  BY <1>5 DEF Behind
<1>6. \A k \in Levels : spent'[c][k] = IF k = at'[c] THEN now' - since'[c] ELSE 0 BY <1>1
<1> QED BY <1>1, <1>3, <1>4, <1>6, <1>7 DEF SliceIsRight

\* What a CPU reads is not disturbed by others.
LEMMA ReadKept ==
  ASSUME NEW c \in ClockCpus, ReadIsRight(c), now' = now,
         asked'[c] = asked[c], high'[c] = high[c], got'[c] = got[c], fresh'[c] = fresh[c],
         sctime'[c] = sctime[c], half'[c] = half[c],
         doing'[c] = "read" => doing[c] = "read",
         doing'[asked[c]] = "slice" =>
           \/ doing[asked[c]] = "slice" /\ since'[asked[c]] = since[asked[c]]
           \/ since'[asked[c]] = now
  PROVE  ReadIsRight(c)'
BY DEF ReadIsRight, Part

\* At first nothing is done and nothing is read.
LEMMA ClockBegins ==
  ClockInit => ClockInv
<1>1. SUFFICES ASSUME ClockInit PROVE ClockInv OBVIOUS
<1>2. ClockTypes
  <2>1. level \in [ClockCpus -> Levels]
    <3>1. PICK l \in Levels : level = [c \in ClockCpus |-> l] BY <1>1 DEF ClockInit, Each
    <3> QED BY <3>1
  <2>2. Each("run") \in [ClockCpus -> {"run", "slice", "sync", "read", "idle", "bus"}]
    BY DEF Each
  <2>3. Each(0) \in [ClockCpus -> Nat] /\ Each(0) \in [ClockCpus -> Int] BY DEF Each
  <2>4. Each(None) \in [ClockCpus -> Nat \cup {None}] BY DEF Each
  <2>5. Each("low") \in [ClockCpus -> {"low", "high"}] BY DEF Each
  <2>6. Each(NoTime) \in [ClockCpus -> [Levels -> Nat]] BY DEF Each, NoTime
  <2>7. Each([l \in Levels \cup {Idle} |-> 0]) \in [ClockCpus -> [Levels \cup {Idle} -> Nat]]
    BY DEF Each
  <2>8. asked \in [ClockCpus -> ClockCpus] BY <1>1 DEF ClockInit
  <2> QED BY <1>1, <2>1, <2>2, <2>3, <2>4, <2>5, <2>6, <2>7, <2>8 DEF ClockInit, ClockTypes
<1>3. ASSUME NEW c \in ClockCpus PROVE SliceIsRight(c) /\ ReadIsRight(c)
  <2>1. /\ doing[c] = "run" /\ since[c] = 0 /\ now = 0
        /\ high[c] = None /\ sctime[c] = None
    BY <1>1 DEF ClockInit, Each
  <2> QED BY <2>1 DEF SliceIsRight, ReadIsRight, Asleep
<1> QED BY <1>2, <1>3 DEF ClockInv, Slicing, Reading

\* The CPU is handed cycles.
LEMMA ConsumeKeeps ==
  ASSUME ClockInv, NEW c \in ClockCpus, NEW k \in Slices, Consume(c, k)
  PROVE  ClockInv'
<1> USE DEF ClockInv
<1>0. /\ Cycle \in Nat \ {0} /\ k \in Nat \ {0} /\ total[c] \in Nat /\ now \in Nat
      /\ level[c] \in Levels
  BY ClockAssumption DEF ClockTypes
<1>1. PICK l \in Nat : l = k * Cycle /\ l >= Cycle
  <2>1. k * Cycle \in Nat BY <1>0
  <2>2. (k - 1) * Cycle >= 0 BY <1>0
  <2>3. (k - 1) * Cycle = k * Cycle - Cycle BY <1>0
  <2> QED BY <1>0, <2>1, <2>2, <2>3
<1>2. left' = [left EXCEPT ![c] = l] BY <1>1 DEF Consume
<1>3. ClockTypes'
  <2>1. doing' \in [ClockCpus -> {"run", "slice", "sync", "read", "idle", "bus"}] BY DEF ClockTypes, Consume
  <2>2. level' \in [ClockCpus -> Levels] /\ at' \in [ClockCpus -> Levels]
    BY <1>0 DEF ClockTypes, Consume, Sleep
  <2>3. n' \in [ClockCpus -> Nat] /\ base' \in [ClockCpus -> Nat] /\ since' \in [ClockCpus -> Nat]
    BY <1>0 DEF ClockTypes, Consume, Sleep
  <2>4. left' \in [ClockCpus -> Int] BY <1>1, <1>2 DEF ClockTypes
  <2>5. work' \in [ClockCpus -> Nat] /\ syncs' \in [ClockCpus -> Nat] BY DEF ClockTypes, Consume
  <2>6. spent' \in [ClockCpus -> [Levels -> Nat]]
    <3>1. NoTime \in [Levels -> Nat] BY DEF NoTime
    <3> QED BY <3>1 DEF ClockTypes, Consume, Sleep
  <2> QED BY <2>1, <2>2, <2>3, <2>4, <2>5, <2>6 DEF ClockTypes, Consume, readVars
<1>4. SliceIsRight(c)'
  <2>1. /\ left'[c] = l /\ now' = now /\ since'[c] = now /\ level'[c] = level[c]
        /\ at'[c] = level[c] /\ spent'[c] = NoTime /\ n'[c] = k /\ work'[c] = 0
        /\ base'[c] = total[c] /\ total'[c] = total[c] /\ syncs'[c] = 0
    BY <1>2 DEF Consume, Sleep, ClockTypes
  <2>2. \A j \in Levels : spent'[c][j] = 0 BY <2>1 DEF NoTime
  <2>3. PICK u \in Nat : u = total[c] * Cycle BY <1>0
  <2>4. Behind(total[c], u, 0)
    <3>1. 0 * (Cycle - 1) = 0 BY <1>0
    <3> QED BY <2>3, <3>1 DEF Behind
  <2>5. Behind(total'[c], u, syncs'[c]) BY <2>1, <2>4
  <2>6. u = base'[c] * Cycle + work'[c] BY <2>1, <2>3
  <2>7. l = n'[c] * Cycle - work'[c] BY <1>0, <1>1, <2>1
  <2>8. level'[c] \in Levels /\ at'[c] = level'[c] /\ n'[c] \in Nat /\ work'[c] \in Nat
    BY <1>0, <2>1
  <2>9. l \in Nat /\ l >= Cycle /\ u \in Int BY <1>1, <2>3
  <2>10. left'[c] = l /\ now' = now /\ since'[c] = now BY <2>1
  <2>11. ClockTypes OBVIOUS
  <2> QED BY ONLY <2>2, <2>5, <2>6, <2>7, <2>8, <2>9, <2>10, <2>11, c \in ClockCpus, SliceBegins
<1>5. ASSUME NEW d \in ClockCpus, d # c PROVE SliceIsRight(d)'
  <2>1. /\ now' = now /\ total'[d] = total[d] /\ n'[d] = n[d] /\ base'[d] = base[d]
        /\ left'[d] = left[d] /\ since'[d] = since[d] /\ at'[d] = at[d] /\ spent'[d] = spent[d]
        /\ work'[d] = work[d] /\ syncs'[d] = syncs[d] /\ doing'[d] = doing[d]
        /\ level'[d] = level[d]
    BY <1>5 DEF Consume, Sleep, ClockTypes
  <2>2. SliceIsRight(d) BY DEF Slicing
  <2>3. Asleep(d)' => Asleep(d) BY <2>1 DEF Asleep
  <2>4. doing'[d] = "slice" => level'[d] = at[d] BY <2>1, <2>2 DEF SliceIsRight
  <2> QED BY ONLY <2>1, <2>2, <2>3, <2>4, d \in ClockCpus, SliceKept
<1>6. ASSUME NEW d \in ClockCpus PROVE ReadIsRight(d)'
  <2>1. /\ now' = now /\ asked'[d] = asked[d] /\ high'[d] = high[d] /\ got'[d] = got[d]
        /\ fresh'[d] = fresh[d] /\ sctime'[d] = sctime[d] /\ half'[d] = half[d]
    BY DEF Consume, readVars
  <2>2. ReadIsRight(d) BY DEF Reading
  <2>3. doing'[d] = "read" => doing[d] = "read" BY DEF Consume, ClockTypes
  <2>4. asked[d] \in ClockCpus BY DEF ClockTypes
  <2>5. doing'[asked[d]] = "slice" =>
          \/ doing[asked[d]] = "slice" /\ since'[asked[d]] = since[asked[d]]
          \/ since'[asked[d]] = now
    BY <2>4 DEF Consume, Sleep, ClockTypes
  <2> QED BY ONLY <2>1, <2>2, <2>3, <2>5, d \in ClockCpus, ReadKept
<1> QED BY <1>3, <1>4, <1>5, <1>6 DEF Slicing, Reading

\* What a CPU that sleeps has worked since it last accounted for its time.
LEMMA SinceIsTime ==
  ASSUME ClockInv, NEW c \in ClockCpus
  PROVE  /\ now - since[c] \in Nat /\ Since(c) \in Nat /\ (now - since[c]) \div Ns \in Nat
         /\ Speed[at[c]] \in Nat \ {0}
<1>1. SliceIsRight(c) BY DEF ClockInv, Slicing
<1>2. PICK p \in Nat : p = now - since[c] BY <1>1 DEF ClockInv, ClockTypes, SliceIsRight
<1>3. PICK s \in Nat \ {0} : s = Speed[at[c]] BY ClockAssumption DEF ClockInv, ClockTypes, Levels
<1>4. p * s \in Nat BY <1>2, <1>3
<1>5. Ns \in Nat \ {0} BY ClockAssumption
<1>6. p \div Ns \in Nat BY <1>5, Divided
<1> QED BY <1>2, <1>3, <1>4, <1>6 DEF Since

\* The CPU accounts for the time it slept.
LEMMA AccountKeeps ==
  ASSUME ClockInv, NEW c \in ClockCpus, Account(c)
  PROVE  ClockInv'
<1> USE DEF ClockInv
<1>0. /\ Cycle \in Nat \ {0} /\ now \in Nat /\ level[c] \in Levels /\ at[c] \in Levels
      /\ total[c] \in Nat /\ n[c] \in Nat /\ base[c] \in Nat /\ left[c] \in Int
      /\ work[c] \in Nat /\ syncs[c] \in Nat
  BY ClockAssumption DEF ClockTypes
<1>1. PICK d \in Nat : d = Since(c) /\ d = (now - since[c]) * Speed[at[c]]
  BY SinceIsTime DEF Since
<1>2. Asleep(c) BY DEF Account, Awake, Asleep
<1>3. SliceIsRight(c) BY DEF Slicing
<1>4. PICK l \in Int : l = left[c] - d BY <1>0
<1>5. left' = [left EXCEPT ![c] = l] /\ left'[c] = l
  <2>1. left' = [left EXCEPT ![c] = left[c] - (now - since[c]) * Speed[at[c]]] BY DEF Account
  <2> QED BY <1>1, <1>4, <2>1 DEF ClockTypes
<1>6. l = n[c] * Cycle - work[c] BY <1>0, <1>1, <1>2, <1>3, <1>4 DEF SliceIsRight
<1>7. PICK r \in Nat : r = d \div Cycle BY <1>0, Divided
<1>8. IF l >= Cycle
        THEN total' = [total EXCEPT ![c] = total[c] + r]
             /\ doing' = [doing EXCEPT ![c] = "slice"]
        ELSE total' = [total EXCEPT ![c] = base[c] + n[c]]
             /\ doing' = [doing EXCEPT ![c] = "run"]
  BY <1>1, <1>5, <1>7 DEF Account
<1>9. PICK p \in Nat : p = (now - since[c]) \div Ns BY SinceIsTime
<1>14. /\ l >= Cycle => Sleep(c)
       /\ ~(l >= Cycle) => Forget(c)
  BY <1>5 DEF Account
<1>15. PICK z \in Nat, y \in Levels :
         /\ since' = [since EXCEPT ![c] = z] /\ at' = [at EXCEPT ![c] = y]
         /\ spent' = [spent EXCEPT ![c] = NoTime] /\ z <= now
         /\ l >= Cycle => z = now /\ y = level[c]
  <2>1. CASE l >= Cycle BY <1>0, <1>14, <2>1 DEF Sleep
  <2>2. CASE ~(l >= Cycle)
    <3>1. at = [at EXCEPT ![c] = at[c]] BY DEF ClockTypes
    <3>2. 0 <= now BY <1>0
    <3> QED BY <1>0, <1>14, <2>2, <3>1, <3>2 DEF Forget
  <2> QED BY <2>1, <2>2
<1>10. ClockTypes'
  <2>1. doing' \in [ClockCpus -> {"run", "slice", "sync", "read", "idle", "bus"}]
    BY <1>8 DEF ClockTypes
  <2>2. total' \in [ClockCpus -> Nat]
    <3>1. total[c] + r \in Nat /\ base[c] + n[c] \in Nat BY <1>0, <1>7
    <3>2. PICK t \in Nat : total' = [total EXCEPT ![c] = t] BY <1>8, <3>1
    <3> QED BY <3>2 DEF ClockTypes
  <2>3. since' \in [ClockCpus -> Nat] /\ at' \in [ClockCpus -> Levels]
    BY <1>15 DEF ClockTypes
  <2>4. spent' \in [ClockCpus -> [Levels -> Nat]]
    <3>1. NoTime \in [Levels -> Nat] BY DEF NoTime
    <3> QED BY <1>15, <3>1 DEF ClockTypes
  <2>5. syncs' \in [ClockCpus -> Nat] BY <1>0 DEF Account, ClockTypes
  <2>6. left' \in [ClockCpus -> Int] BY <1>5 DEF ClockTypes
  <2>7. logged' \in [ClockCpus -> [Levels \cup {Idle} -> Nat]]
    <3>1. logged' = [logged EXCEPT ![c] = [logged[c] EXCEPT ![at[c]] = logged[c][at[c]] + p]]
      BY <1>9 DEF Account, LevelOf
    <3>2. logged[c] \in [Levels \cup {Idle} -> Nat] BY DEF ClockTypes
    <3>3. [logged[c] EXCEPT ![at[c]] = logged[c][at[c]] + p] \in [Levels \cup {Idle} -> Nat]
      BY <1>0, <3>2
    <3> QED BY <3>1, <3>3 DEF ClockTypes
  <2> QED BY <2>1, <2>2, <2>3, <2>4, <2>5, <2>6, <2>7 DEF ClockTypes, Account, readVars
<1>11. SliceIsRight(c)'
  <2>1. /\ now' = now /\ since'[c] = z /\ level'[c] = level[c] /\ at'[c] = y
        /\ spent'[c] = NoTime /\ n'[c] = n[c] /\ work'[c] = work[c] /\ base'[c] = base[c]
        /\ syncs'[c] = syncs[c] + 1
    BY <1>15 DEF Account, ClockTypes
  <2>2. CASE l >= Cycle
    <3>1. total'[c] = total[c] + r BY <1>8, <2>2 DEF ClockTypes
    <3>2. PICK w \in Int : w = base[c] * Cycle + work[c] BY <1>0
    <3>3. Behind(total[c], w - d, syncs[c])
      <4>1. Behind(total[c], base[c] * Cycle + work[c] - Since(c), syncs[c])
        BY <1>2, <1>3 DEF SliceIsRight
      <4>2. base[c] * Cycle + work[c] - Since(c) = w - d
        <5>1. d = Since(c) BY <1>1
        <5>2. PICK m \in Nat : m = base[c] * Cycle BY <1>0
        <5>3. m + (work[c] - d) = (m + work[c]) - d BY ONLY <5>2, <1>0, d \in Nat
        <5> QED BY ONLY <3>2, <5>1, <5>2, <5>3
      <4> QED BY <4>1, <4>2
    <3>4. Behind(total[c] + r, w, syncs[c] + 1)
      <4>1. /\ total[c] \in Nat /\ w \in Int /\ d \in Nat /\ syncs[c] \in Nat
            /\ Behind(total[c], w - d, syncs[c])
        BY <1>0, <3>3
      <4>2. Behind(total[c] + d \div Cycle, w, syncs[c] + 1)
        BY ONLY <4>1, CountRounds
      <4> QED BY <1>7, <4>2
    <3>5. Behind(total'[c], w, syncs'[c]) BY <2>1, <3>1, <3>4
    <3>6. \A k \in Levels : spent'[c][k] = 0 BY <2>1 DEF NoTime
    <3>7. l \in Nat /\ l >= Cycle BY <1>0, <2>2
    <3>8. level'[c] \in Levels /\ at'[c] = level'[c] /\ n'[c] \in Nat /\ work'[c] \in Nat
      BY <1>0, <1>15, <2>1, <2>2
    <3>9. l = n'[c] * Cycle - work'[c] BY <1>6, <2>1
    <3>10. w = base'[c] * Cycle + work'[c] BY <2>1, <3>2
    <3>11. left'[c] = l /\ now' = now /\ since'[c] = now BY <1>5, <1>15, <2>1, <2>2
    <3>12. ClockTypes OBVIOUS
    <3> QED BY ONLY <3>2, <3>5, <3>6, <3>7, <3>8, <3>9, <3>10, <3>11, <3>12, c \in ClockCpus,
                    SliceBegins
  <2>3. CASE ~(l >= Cycle)
    <3>1. doing'[c] = "run" BY <1>8, <2>3 DEF ClockTypes
    <3> QED BY <1>0, <1>15, <2>1, <3>1 DEF SliceIsRight, Asleep
  <2> QED BY <2>2, <2>3
<1>12. ASSUME NEW e \in ClockCpus, e # c PROVE SliceIsRight(e)'
  <2>1. /\ now' = now /\ n'[e] = n[e] /\ base'[e] = base[e]
        /\ left'[e] = left[e] /\ since'[e] = since[e] /\ at'[e] = at[e] /\ spent'[e] = spent[e]
        /\ work'[e] = work[e] /\ syncs'[e] = syncs[e] /\ level'[e] = level[e]
    BY <1>12, <1>15 DEF Account, ClockTypes
  <2>2. total'[e] = total[e] /\ doing'[e] = doing[e] BY <1>8, <1>12 DEF ClockTypes
  <2>3. SliceIsRight(e) BY DEF Slicing
  <2>4. Asleep(e)' => Asleep(e) BY <2>2 DEF Asleep
  <2>5. doing'[e] = "slice" => level'[e] = at[e] BY <2>1, <2>2, <2>3 DEF SliceIsRight
  <2> QED BY ONLY <2>1, <2>2, <2>3, <2>4, <2>5, e \in ClockCpus, SliceKept
<1>13. ASSUME NEW e \in ClockCpus PROVE ReadIsRight(e)'
  <2>1. /\ now' = now /\ asked'[e] = asked[e] /\ high'[e] = high[e] /\ got'[e] = got[e]
        /\ fresh'[e] = fresh[e] /\ sctime'[e] = sctime[e] /\ half'[e] = half[e]
    BY DEF Account, readVars
  <2>2. ReadIsRight(e) BY DEF Reading
  <2>3. doing'[e] = "read" => doing[e] = "read" BY <1>8 DEF ClockTypes
  <2>4. asked[e] \in ClockCpus BY DEF ClockTypes
  <2>5. doing'[asked[e]] = "slice" =>
          \/ doing[asked[e]] = "slice" /\ since'[asked[e]] = since[asked[e]]
          \/ since'[asked[e]] = now
    <3>1. CASE l >= Cycle BY <1>8, <1>15, <2>4, <3>1 DEF ClockTypes
    <3>2. CASE ~(l >= Cycle) BY <1>8, <1>15, <2>4, <3>2 DEF ClockTypes
    <3> QED BY <3>1, <3>2
  <2> QED BY ONLY <2>1, <2>2, <2>3, <2>5, e \in ClockCpus, ReadKept
<1> QED BY <1>10, <1>11, <1>12, <1>13 DEF Slicing, Reading

\* A CPU goes to sleep for no number of cycles, or waits for the bus, and goes on.
LEMMA DozeKeeps ==
  ASSUME ClockInv, NEW c \in ClockCpus, Doze(c) \/ Wakeup(c) \/ Access(c) \/ AccessDone(c)
  PROVE  ClockInv'
<1> USE DEF ClockInv
<1>1. PICK p \in Nat, q \in Nat : p = (now - since[c]) \div Ns /\ q = now - since[c] BY SinceIsTime
<1>2. now \in Nat /\ 0 <= now BY DEF ClockTypes
<1>8. PICK d \in {"run", "idle", "bus"}, z \in {0, now} :
        /\ doing' = [doing EXCEPT ![c] = d] /\ since' = [since EXCEPT ![c] = z]
        /\ d = "run" => spent' = [spent EXCEPT ![c] = NoTime]
        /\ d # "run" => spent' = spent
        /\ UNCHANGED <<now, level, total, n, base, left, at, readVars, work, syncs>>
  BY DEF Doze, Wakeup, Access, AccessDone, Forget
<1>3. doing' \in [ClockCpus -> {"run", "slice", "sync", "read", "idle", "bus"}]
  BY <1>8 DEF ClockTypes
<1>4. doing[c] \notin {"slice", "read"} /\ doing'[c] \notin {"slice", "sync", "read"}
  BY <1>8 DEF Doze, Wakeup, Access, AccessDone, ClockTypes
<1>5. ClockTypes'
  <2>1. since' \in [ClockCpus -> Nat] BY <1>2, <1>8 DEF ClockTypes
  <2>3. spent' \in [ClockCpus -> [Levels -> Nat]]
    <3>1. NoTime \in [Levels -> Nat] BY DEF NoTime
    <3>2. spent \in [ClockCpus -> [Levels -> Nat]] BY DEF ClockTypes
    <3>3. spent' = spent \/ spent' = [spent EXCEPT ![c] = NoTime] BY <1>8
    <3> QED BY ONLY <3>1, <3>2, <3>3
  <2>2. logged' \in [ClockCpus -> [Levels \cup {Idle} -> Nat]]
    <3>0. logged[c] \in [Levels \cup {Idle} -> Nat] /\ level[c] \in Levels BY DEF ClockTypes
    <3>1. CASE Doze(c) \/ Access(c) BY <3>1 DEF Doze, Access, ClockTypes
    <3>2. CASE Wakeup(c)
      <4>1. logged' = [logged EXCEPT ![c] = [logged[c] EXCEPT ![Idle] = logged[c][Idle] + p]]
        BY <1>1, <3>2 DEF Wakeup
      <4>2. [logged[c] EXCEPT ![Idle] = logged[c][Idle] + p] \in [Levels \cup {Idle} -> Nat]
        BY <3>0
      <4> QED BY <4>1, <4>2 DEF ClockTypes
    <3>3. CASE AccessDone(c)
      <4>1. logged' = [logged EXCEPT ![c] = [logged[c] EXCEPT ![level[c]] = logged[c][level[c]] + q]]
        BY <1>1, <3>3 DEF AccessDone
      <4>2. [logged[c] EXCEPT ![level[c]] = logged[c][level[c]] + q] \in [Levels \cup {Idle} -> Nat]
        BY <3>0
      <4> QED BY <4>1, <4>2 DEF ClockTypes
    <3> QED BY <3>1, <3>2, <3>3
  <2> QED BY <1>3, <1>8, <2>1, <2>2, <2>3 DEF ClockTypes, readVars
<1>6. ASSUME NEW e \in ClockCpus PROVE SliceIsRight(e)'
  <2>1. SliceIsRight(e) BY DEF Slicing
  <2>2. CASE e = c
    <3>1. now' = now /\ since'[c] \in {0, now}
      BY <1>8 DEF ClockTypes
    <3> QED BY <1>2, <1>4, <2>1, <2>2, <3>1 DEF SliceIsRight, Asleep
  <2>3. CASE e # c
    <3>1. /\ now' = now /\ n'[e] = n[e] /\ base'[e] = base[e] /\ total'[e] = total[e]
          /\ left'[e] = left[e] /\ since'[e] = since[e] /\ at'[e] = at[e] /\ spent'[e] = spent[e]
          /\ work'[e] = work[e] /\ syncs'[e] = syncs[e] /\ level'[e] = level[e]
          /\ doing'[e] = doing[e]
      BY <1>8, <2>3 DEF ClockTypes
    <3>2. Asleep(e)' => Asleep(e) BY <3>1 DEF Asleep
    <3>3. doing'[e] = "slice" => level'[e] = at[e] BY <2>1, <3>1 DEF SliceIsRight
    <3> QED BY ONLY <2>1, <3>1, <3>2, <3>3, e \in ClockCpus, SliceKept
  <2> QED BY <2>2, <2>3
<1>7. ASSUME NEW e \in ClockCpus PROVE ReadIsRight(e)'
  <2>1. /\ now' = now /\ asked'[e] = asked[e] /\ high'[e] = high[e] /\ got'[e] = got[e]
        /\ fresh'[e] = fresh[e] /\ sctime'[e] = sctime[e] /\ half'[e] = half[e]
    BY <1>8 DEF readVars
  <2>2. ReadIsRight(e) BY DEF Reading
  <2>3. doing'[e] = "read" => doing[e] = "read" BY <1>8 DEF ClockTypes
  <2>4. asked[e] \in ClockCpus BY DEF ClockTypes
  <2>5. doing'[asked[e]] = "slice" =>
          doing[asked[e]] = "slice" /\ since'[asked[e]] = since[asked[e]]
    BY <1>8, <2>4 DEF ClockTypes
  <2> QED BY ONLY <2>1, <2>2, <2>3, <2>5, e \in ClockCpus, ReadKept
<1> QED BY <1>5, <1>6, <1>7 DEF Slicing, Reading

\* What CPUs are notified, and of which level, changes nothing in their slices.
LEMMA NotifyKeeps ==
  ASSUME ClockInv, NEW S, doing' = Notify(S), level' \in [ClockCpus -> Levels],
         \A e \in ClockCpus : e \notin S => level'[e] = level[e],
         UNCHANGED <<now, total, sleepVars, readVars, logged, spent, work, syncs>>
  PROVE  ClockInv'
<1> USE DEF ClockInv
<1>1. ClockTypes' BY DEF ClockTypes, sleepVars, readVars, Notify
<1>2. ASSUME NEW e \in ClockCpus PROVE SliceIsRight(e)'
  <2>1. SliceIsRight(e) BY DEF Slicing
  <2>2. /\ now' = now /\ n'[e] = n[e] /\ base'[e] = base[e] /\ total'[e] = total[e]
        /\ left'[e] = left[e] /\ since'[e] = since[e] /\ at'[e] = at[e] /\ spent'[e] = spent[e]
        /\ work'[e] = work[e] /\ syncs'[e] = syncs[e]
    BY DEF sleepVars
  <2>3. Asleep(e)' => Asleep(e) BY DEF Asleep, Notify
  <2>4. doing'[e] = "slice" => doing[e] = "slice" /\ e \notin S BY DEF Notify
  <2>5. doing'[e] = "slice" => level'[e] = at[e] BY <2>1, <2>4 DEF SliceIsRight
  <2> QED BY ONLY <2>1, <2>2, <2>3, <2>5, e \in ClockCpus, SliceKept
<1>3. ASSUME NEW e \in ClockCpus PROVE ReadIsRight(e)'
  <2>1. /\ now' = now /\ asked'[e] = asked[e] /\ high'[e] = high[e] /\ got'[e] = got[e]
        /\ fresh'[e] = fresh[e] /\ sctime'[e] = sctime[e] /\ half'[e] = half[e]
    BY DEF readVars
  <2>2. ReadIsRight(e) BY DEF Reading
  <2>3. doing'[e] = "read" => doing[e] = "read" BY DEF Notify
  <2>4. asked[e] \in ClockCpus BY DEF ClockTypes
  <2>5. doing'[asked[e]] = "slice" =>
          doing[asked[e]] = "slice" /\ since'[asked[e]] = since[asked[e]]
    BY <2>4 DEF Notify, sleepVars
  <2> QED BY ONLY <2>1, <2>2, <2>3, <2>5, e \in ClockCpus, ReadKept
<1> QED BY <1>1, <1>2, <1>3 DEF Slicing, Reading

\* The CPU sets levels, its own or those of others.
LEMMA WriteLevelKeeps ==
  ASSUME ClockInv, NEW c \in ClockCpus, WriteLevel(c)
  PROVE  ClockInv'
<1>1. ASSUME NEW S, NEW l \in Levels, SetLevel(S, l) PROVE ClockInv'
  <2>1. doing' = Notify({e \in S : level[e] # l}) BY <1>1 DEF SetLevel
  <2>2. level' \in [ClockCpus -> Levels] BY <1>1 DEF SetLevel, ClockInv, ClockTypes
  <2>3. \A e \in ClockCpus : e \notin {f \in S : level[f] # l} => level'[e] = level[e]
    BY <1>1 DEF SetLevel
  <2>4. UNCHANGED <<now, total, sleepVars, readVars, logged, spent, work, syncs>> BY DEF WriteLevel
  <2> QED BY <2>1, <2>2, <2>3, <2>4, NotifyKeeps
<1>2. ASSUME NEW t \in ClockCpus, NEW l \in Levels PROVE CpuxWord(t, l) \div 256 = l
  <2>1. t \in 0 .. 255 /\ l \in Nat BY ClockAssumption DEF Levels
  <2> QED BY ONLY <2>1 DEF CpuxWord
<1>3. PICK l \in Levels :
         \/ SetLevel({c}, l)
         \/ SetLevel(ClockCpus, l)
         \/ \E w \in {CpuxWord(t, l) : t \in ClockCpus} : SetLevel({w % 256}, w \div 256)
  BY DEF WriteLevel
<1>4. CASE \E w \in {CpuxWord(t, l) : t \in ClockCpus} : SetLevel({w % 256}, w \div 256)
  <2>1. PICK t \in ClockCpus : SetLevel({CpuxWord(t, l) % 256}, CpuxWord(t, l) \div 256) BY <1>4
  <2>2. CpuxWord(t, l) \div 256 \in Levels BY <1>2
  <2> QED BY <1>1, <2>1, <2>2
<1> QED BY <1>1, <1>3, <1>4

\* All CPUs are woken before the graph is drawn.
LEMMA TimeoutKeeps ==
  ASSUME ClockInv, Timeout
  PROVE  ClockInv'
<1>1. level' \in [ClockCpus -> Levels] /\ doing' = Notify(ClockCpus) /\ level' = level
  BY DEF Timeout, ClockInv, ClockTypes
<1>2. UNCHANGED <<now, total, sleepVars, readVars, logged, spent, work, syncs>> BY DEF Timeout
<1> QED BY <1>1, <1>2, NotifyKeeps

\* A read of a counter wakes the CPU it counts for.
LEMMA ReadCyclesKeeps ==
  ASSUME ClockInv, NEW c \in ClockCpus, NEW t \in ClockCpus, ReadCycles(c, t)
  PROVE  ClockInv'
<1> USE DEF ClockInv
<1>1. /\ doing' = [Notify({t}) EXCEPT ![c] = "read"] /\ asked' = [asked EXCEPT ![c] = t]
      /\ doing[c] = "run" /\ high[c] = None /\ sctime[c] = None
      /\ UNCHANGED <<now, level, total, sleepVars, high, got, fresh, sctime, half, logged,
                     spent, work, syncs>>
  BY DEF ReadCycles, Synced
<1>2. \A e \in ClockCpus : doing'[e] = IF e = c THEN "read" ELSE Notify({t})[e]
  BY <1>1 DEF Notify
<1>3. ClockTypes'
  <2>1. Notify({t}) \in [ClockCpus -> {"run", "slice", "sync", "read", "idle", "bus"}]
    BY DEF Notify, ClockTypes
  <2>2. doing' \in [ClockCpus -> {"run", "slice", "sync", "read", "idle", "bus"}] BY <1>1, <2>1
  <2>3. asked' \in [ClockCpus -> ClockCpus] BY <1>1 DEF ClockTypes
  <2> QED BY <1>1, <2>2, <2>3 DEF ClockTypes, sleepVars
<1>4. ASSUME NEW e \in ClockCpus PROVE SliceIsRight(e)'
  <2>1. SliceIsRight(e) BY DEF Slicing
  <2>2. /\ now' = now /\ n'[e] = n[e] /\ base'[e] = base[e] /\ total'[e] = total[e]
        /\ left'[e] = left[e] /\ since'[e] = since[e] /\ at'[e] = at[e] /\ spent'[e] = spent[e]
        /\ work'[e] = work[e] /\ syncs'[e] = syncs[e]
    BY <1>1 DEF sleepVars
  <2>3. Asleep(e)' => Asleep(e) BY <1>2 DEF Asleep, Notify
  <2>4. doing'[e] = "slice" => doing[e] = "slice" BY <1>2 DEF Notify
  <2>5. doing'[e] = "slice" => level'[e] = at[e] BY <1>1, <2>1, <2>4 DEF SliceIsRight
  <2> QED BY ONLY <2>1, <2>2, <2>3, <2>5, e \in ClockCpus, SliceKept
<1>5. ReadIsRight(c)'
  <2>1. asked'[c] = t /\ high'[c] = None /\ sctime'[c] = None BY <1>1 DEF ClockTypes
  <2>2. doing'[t] # "slice" BY <1>2 DEF Notify
  <2> QED BY <2>1, <2>2 DEF ReadIsRight
<1>6. ASSUME NEW e \in ClockCpus, e # c PROVE ReadIsRight(e)'
  <2>1. /\ now' = now /\ asked'[e] = asked[e] /\ high'[e] = high[e] /\ got'[e] = got[e]
        /\ fresh'[e] = fresh[e] /\ sctime'[e] = sctime[e] /\ half'[e] = half[e]
    BY <1>1, <1>6 DEF ClockTypes
  <2>2. ReadIsRight(e) BY DEF Reading
  <2>3. doing'[e] = "read" => doing[e] = "read" BY <1>2, <1>6 DEF Notify
  <2>4. asked[e] \in ClockCpus BY DEF ClockTypes
  <2>5. doing'[asked[e]] = "slice" =>
          doing[asked[e]] = "slice" /\ since'[asked[e]] = since[asked[e]]
    BY <1>1, <1>2, <2>4 DEF Notify, sleepVars
  <2> QED BY ONLY <2>1, <2>2, <2>3, <2>5, e \in ClockCpus, ReadKept
<1> QED BY <1>3, <1>4, <1>5, <1>6 DEF Slicing, Reading

\* The registers software reads belong to the CPU that reads.
LEMMA RegisterKeeps ==
  ASSUME ClockInv, NEW c \in ClockCpus,
         \/ ReadLow(c) \/ ReadHigh(c) \/ ReadTime(c)
         \/ \E h \in {"low", "high"} : LatchTime(c, h)
  PROVE  ClockInv'
<1> USE DEF ClockInv
<1>0. Half \in Nat \ {0} /\ Ns \in Nat \ {0} /\ now \in Nat BY ClockAssumption DEF ClockTypes
<1>1. ASSUME NEW v \in Nat, NEW h \in {"low", "high"} PROVE v \div Half \in Nat /\ v % Half \in Nat /\ Part(h, v) \in Nat
  BY <1>0, Divided DEF Part
<1>2. /\ UNCHANGED <<now, level, total, sleepVars, logged, spent, work, syncs>>
      /\ doing' = doing \/ doing' = [doing EXCEPT ![c] = "run"]
  BY DEF ReadLow, ReadHigh, ReadTime, LatchTime
<1>3. PICK a \in ClockCpus, x \in Nat \cup {None}, y \in Nat \cup {None}, g \in Nat, f \in Nat,
           h \in {"low", "high"} :
         /\ asked' = [asked EXCEPT ![c] = a] /\ high' = [high EXCEPT ![c] = x]
         /\ sctime' = [sctime EXCEPT ![c] = y] /\ got' = [got EXCEPT ![c] = g]
         /\ fresh' = [fresh EXCEPT ![c] = f] /\ half' = [half EXCEPT ![c] = h]
  <2>1. /\ asked[c] \in ClockCpus /\ half[c] \in {"low", "high"}
        /\ high[c] \in Nat \cup {None} /\ sctime[c] \in Nat \cup {None}
        /\ asked = [asked EXCEPT ![c] = asked[c]] /\ half = [half EXCEPT ![c] = half[c]]
        /\ high = [high EXCEPT ![c] = high[c]] /\ sctime = [sctime EXCEPT ![c] = sctime[c]]
    BY DEF ClockTypes
  <2>2. CASE ReadLow(c)
    <3>1. PICK v \in Nat : v = total[asked[c]] BY <2>1 DEF ClockTypes
    <3>2. v \div Half \in Nat /\ v % Half \in Nat BY <1>1
    <3>3. /\ asked' = asked /\ sctime' = sctime /\ half' = half
          /\ high' = [high EXCEPT ![c] = v \div Half]
          /\ got' = [got EXCEPT ![c] = v % Half] /\ fresh' = [fresh EXCEPT ![c] = v]
      BY <2>2, <3>1 DEF ReadLow
    <3> QED BY <2>1, <3>2, <3>3
  <2>3. CASE ReadHigh(c)
    <3>1. /\ asked' = [asked EXCEPT ![c] = c] /\ sctime' = sctime /\ half' = half
          /\ high' = [high EXCEPT ![c] = None]
          /\ got' = [got EXCEPT ![c] = 0] /\ fresh' = [fresh EXCEPT ![c] = 0]
      BY <2>3 DEF ReadHigh
    <3> QED BY <2>1, <3>1
  <2>4. CASE ReadTime(c)
    <3>1. /\ asked' = asked /\ high' = high /\ sctime' = [sctime EXCEPT ![c] = None]
          /\ half' = [half EXCEPT ![c] = "low"]
          /\ got' = [got EXCEPT ![c] = 0] /\ fresh' = [fresh EXCEPT ![c] = 0]
      BY <2>4 DEF ReadTime
    <3> QED BY <2>1, <3>1
  <2>5. CASE \E k \in {"low", "high"} : LatchTime(c, k)
    <3>1. PICK k \in {"low", "high"} : LatchTime(c, k) BY <2>5
    <3>2. PICK t \in Nat : t = now \div Ns BY <1>0, Divided
    <3>3. PICK p \in Nat : p = Part(k, t) BY <1>1
    <3>4. /\ asked' = asked /\ high' = high /\ sctime' = [sctime EXCEPT ![c] = t]
          /\ half' = [half EXCEPT ![c] = k]
          /\ got' = [got EXCEPT ![c] = p] /\ fresh' = [fresh EXCEPT ![c] = t]
      BY <3>1, <3>2, <3>3 DEF LatchTime
    <3> QED BY <2>1, <3>4
  <2> QED BY <2>2, <2>3, <2>4, <2>5
<1>4. ClockTypes'
  <2>1. doing' \in [ClockCpus -> {"run", "slice", "sync", "read", "idle", "bus"}]
    BY <1>2 DEF ClockTypes
  <2>2. /\ asked' \in [ClockCpus -> ClockCpus] /\ half' \in [ClockCpus -> {"low", "high"}]
        /\ high' \in [ClockCpus -> Nat \cup {None}] /\ sctime' \in [ClockCpus -> Nat \cup {None}]
        /\ got' \in [ClockCpus -> Nat] /\ fresh' \in [ClockCpus -> Nat]
    BY <1>3 DEF ClockTypes
  <2> QED BY <1>2, <2>1, <2>2 DEF ClockTypes, sleepVars
<1>5. ASSUME NEW e \in ClockCpus PROVE SliceIsRight(e)'
  <2>1. SliceIsRight(e) BY DEF Slicing
  <2>2. /\ now' = now /\ n'[e] = n[e] /\ base'[e] = base[e] /\ total'[e] = total[e]
        /\ left'[e] = left[e] /\ since'[e] = since[e] /\ at'[e] = at[e] /\ spent'[e] = spent[e]
        /\ work'[e] = work[e] /\ syncs'[e] = syncs[e] /\ level' = level
    BY <1>2 DEF sleepVars
  <2>3. doing'[e] \in {doing[e], "run"} BY <1>2 DEF ClockTypes
  <2>4. Asleep(e)' => Asleep(e) BY <2>3 DEF Asleep
  <2>5. doing'[e] = "slice" => level'[e] = at[e] BY <2>1, <2>2, <2>3 DEF SliceIsRight
  <2> QED BY ONLY <2>1, <2>2, <2>4, <2>5, e \in ClockCpus, SliceKept
<1>6. ASSUME NEW e \in ClockCpus, e # c PROVE ReadIsRight(e)'
  <2>1. /\ now' = now /\ asked'[e] = asked[e] /\ high'[e] = high[e] /\ got'[e] = got[e]
        /\ fresh'[e] = fresh[e] /\ sctime'[e] = sctime[e] /\ half'[e] = half[e]
    BY <1>2, <1>3, <1>6 DEF ClockTypes
  <2>2. ReadIsRight(e) BY DEF Reading
  <2>3. doing'[e] = "read" => doing[e] = "read" BY <1>2, <1>6 DEF ClockTypes
  <2>4. asked[e] \in ClockCpus BY DEF ClockTypes
  <2>5. doing'[asked[e]] = "slice" =>
          doing[asked[e]] = "slice" /\ since'[asked[e]] = since[asked[e]]
    BY <1>2, <2>4 DEF sleepVars, ClockTypes
  <2> QED BY ONLY <2>1, <2>2, <2>3, <2>5, e \in ClockCpus, ReadKept
<1>7. ReadIsRight(c)'
  <2>0. ReadIsRight(c) BY DEF Reading
  <2>1. doing'[c] = "run" BY <1>2 DEF ReadLow, ReadHigh, ReadTime, LatchTime, ClockTypes
  <2>2. CASE ReadLow(c)
    <3>1. high[c] = None /\ sctime[c] = None BY <2>0, <2>2 DEF ReadLow, ReadIsRight
    <3>2. PICK u \in Nat : u = total[asked[c]] BY DEF ClockTypes
    <3>3. fresh'[c] = u /\ high'[c] = u \div Half /\ got'[c] = u % Half /\ sctime'[c] = None
      BY <2>2, <3>1, <3>2 DEF ReadLow, ClockTypes
    <3> QED BY <2>1, <3>3 DEF ReadIsRight
  <2>3. CASE ReadHigh(c)
    <3>1. sctime[c] = None BY <2>0, <2>3 DEF ReadHigh, ReadIsRight
    <3>2. high'[c] = None /\ sctime'[c] = None BY <2>3, <3>1 DEF ReadHigh, ClockTypes
    <3> QED BY <2>1, <3>2 DEF ReadIsRight
  <2>4. CASE ReadTime(c)
    <3>1. high[c] = None BY <2>0, <2>4 DEF ReadTime, ReadIsRight
    <3>2. high'[c] = None /\ sctime'[c] = None BY <2>4, <3>1 DEF ReadTime, ClockTypes
    <3> QED BY <2>1, <3>2 DEF ReadIsRight
  <2>5. ASSUME NEW k \in {"low", "high"}, LatchTime(c, k) PROVE ReadIsRight(c)'
    <3>1. PICK u \in Nat : u = now \div Ns BY <1>0, Divided
    <3>2. high'[c] = None BY <2>5 DEF LatchTime
    <3>3. sctime'[c] = u /\ fresh'[c] = u /\ half'[c] = k /\ got'[c] = Part(k, u)
      BY <2>5, <3>1 DEF LatchTime, ClockTypes
    <3> QED BY <2>1, <3>2, <3>3 DEF ReadIsRight, Part
  <2> QED BY <2>2, <2>3, <2>4, <2>5
<1> QED BY <1>4, <1>5, <1>6, <1>7 DEF Slicing, Reading

\* One more of something.
LEMMA OneMore ==
  ASSUME NEW p \in Int, NEW s \in Int
  PROVE  (p + 1) * s = p * s + s
OBVIOUS

\* Time passes.
LEMMA TickKeeps ==
  ASSUME ClockInv, Tick
  PROVE  ClockInv'
<1> USE DEF ClockInv
<1>0. now \in Nat /\ now' = now + 1 /\ Settled /\ doing' = doing /\ level' = level
  BY DEF Tick, ClockTypes
<1>1. \A e \in ClockCpus : Speed[level[e]] \in Nat \ {0} /\ level[e] \in Levels
  BY ClockAssumption DEF ClockTypes, Levels
<1>2. ClockTypes'
  <2>1. work' \in [ClockCpus -> Nat]
    <3>1. ASSUME NEW e \in ClockCpus PROVE work[e] \in Nat /\ work[e] + Speed[level[e]] \in Nat
      <4>1. PICK w \in Nat, s \in Nat : w = work[e] /\ s = Speed[level[e]] BY <1>1 DEF ClockTypes
      <4> QED BY <4>1
    <3> QED BY <3>1 DEF Tick
  <2>2. spent' \in [ClockCpus -> [Levels -> Nat]]
    <3>1. ASSUME NEW e \in ClockCpus
          PROVE  /\ spent[e] \in [Levels -> Nat]
                 /\ [spent[e] EXCEPT ![level[e]] = spent[e][level[e]] + 1] \in [Levels -> Nat]
      <4>1. PICK f \in [Levels -> Nat], l \in Levels : f = spent[e] /\ l = level[e]
        BY <1>1 DEF ClockTypes
      <4>2. [f EXCEPT ![l] = f[l] + 1] \in [Levels -> Nat] BY <4>1
      <4> QED BY <4>1, <4>2
    <3> QED BY <3>1 DEF Tick
  <2>3. now' \in Nat BY <1>0
  <2>4. UNCHANGED <<doing, level, total, n, base, left, since, at, asked, high, got, fresh, sctime,
                    half, logged, syncs>>
    BY DEF Tick, sleepVars, readVars
  <2> QED BY <2>1, <2>2, <2>3, <2>4 DEF ClockTypes
<1>3. ASSUME NEW e \in ClockCpus PROVE SliceIsRight(e)'
  <2>0. SliceIsRight(e) BY DEF Slicing
  <2>1. /\ now' = now + 1 /\ n'[e] = n[e] /\ base'[e] = base[e] /\ total'[e] = total[e]
        /\ left'[e] = left[e] /\ since'[e] = since[e] /\ at'[e] = at[e]
        /\ syncs'[e] = syncs[e] /\ level'[e] = level[e] /\ doing'[e] = doing[e]
        /\ doing[e] \in {"slice", "idle", "bus"} /\ Until(e)' = Until(e)
    BY <1>0 DEF Tick, sleepVars, Until
  <2>2. since[e] \in Nat /\ since'[e] <= now' BY <1>0, <2>0, <2>1 DEF SliceIsRight, ClockTypes
  <2>3. CASE doing[e] \in {"idle", "bus"} BY <2>1, <2>2, <2>3 DEF SliceIsRight, Asleep
  <2>4. CASE doing[e] = "slice"
    <3>1. level[e] = at[e] /\ Asleep(e) BY <2>0, <2>4 DEF SliceIsRight, Asleep
    <3>2. now' <= Until(e)'
      <4>1. ~(now >= Until(e)) BY <1>0, <2>4 DEF Settled, Awake
      <4>2. Until(e) \in Int
        <5>1. PICK s \in Nat \ {0} : s = Speed[at[e]] BY <1>1, <3>1
        <5>2. PICK l \in Nat : l = left[e]
          <6>1. left[e] \in Int /\ left[e] >= Cycle /\ Cycle \in Nat \ {0}
            BY <2>0, <3>1, ClockAssumption DEF SliceIsRight, ClockTypes
          <6> QED BY <6>1
        <5>3. (l + s \div 2) \div s \in Nat BY WaitIsRounded
        <5> QED BY <2>2, <5>1, <5>2, <5>3 DEF Until
      <4> QED BY <1>0, <2>1, <4>1, <4>2
    <3>3. PICK s \in Nat \ {0} : s = Speed[level[e]] /\ s = Speed[at[e]] BY <1>1, <3>1
    <3>4. work'[e] = work[e] + s /\ work[e] \in Nat BY <2>4, <3>3 DEF Tick, ClockTypes
    <3>5. Since(e)' = Since(e) + s /\ Since(e) \in Nat
      <4>1. Since(e) = (now - since[e]) * s /\ Since(e)' = ((now + 1) - since[e]) * s
        BY <1>0, <2>1, <3>3 DEF Since
      <4>2. ((now + 1) - since[e]) * s = (now - since[e]) * s + s
        <5>1. PICK p \in Nat : p = now - since[e] BY SinceIsTime
        <5>2. (now + 1) - since[e] = p + 1 BY <1>0, <2>2, <5>1
        <5>3. (p + 1) * s = p * s + s BY OneMore
        <5> QED BY <5>1, <5>2, <5>3
      <4>3. Since(e) \in Nat BY SinceIsTime
      <4> QED BY <4>1, <4>2, <4>3
    <3>6. left'[e] = n'[e] * Cycle - work'[e] + Since(e)'
      <4>1. PICK m \in Nat : m = n[e] * Cycle BY ClockAssumption DEF ClockTypes
      <4>2. left[e] = m - work[e] + Since(e) BY <2>0, <3>1, <4>1 DEF SliceIsRight
      <4>3. left'[e] = m - work'[e] + Since(e)' BY <2>1, <3>4, <3>5, <4>2
      <4> QED BY <2>1, <4>1, <4>3
    <3>7. Behind(total'[e], base'[e] * Cycle + work'[e] - Since(e)', syncs'[e])
      <4>1. PICK m \in Nat : m = base[e] * Cycle BY ClockAssumption DEF ClockTypes
      <4>2. Behind(total[e], m + work[e] - Since(e), syncs[e])
        BY <2>0, <3>1, <4>1 DEF SliceIsRight
      <4>3. m + work'[e] - Since(e)' = m + work[e] - Since(e) BY <3>4, <3>5
      <4>4. base'[e] * Cycle + work'[e] - Since(e)' = m + work[e] - Since(e) BY <2>1, <4>1, <4>3
      <4> QED BY <2>1, <4>2, <4>4
    <3>8. Behind(total[e], base[e] * Cycle + work[e] - Since(e), syncs[e])' BY <3>7 DEF Behind
    <3>9. \A l \in Levels : spent'[e][l] = IF l = at'[e] THEN now' - since'[e] ELSE 0
      <4>1. /\ spent'[e] = [spent[e] EXCEPT ![at[e]] = spent[e][at[e]] + 1]
            /\ spent[e] \in [Levels -> Nat] /\ at[e] \in Levels
        BY <2>4, <3>1 DEF Tick, ClockTypes
      <4>2. \A l \in Levels : spent[e][l] = IF l = at[e] THEN now - since[e] ELSE 0
        BY <2>0, <3>1 DEF SliceIsRight
      <4>3. (now - since[e]) + 1 = (now + 1) - since[e] BY <1>0, <2>2
      <4> QED BY <1>0, <2>1, <4>1, <4>2, <4>3
    <3>10. left'[e] >= Cycle BY <2>0, <2>1, <3>1 DEF SliceIsRight
    <3>11. doing'[e] = "slice" => level'[e] = at'[e] BY <2>1, <3>1
    <3> QED BY <2>2, <3>2, <3>6, <3>8, <3>9, <3>10, <3>11 DEF SliceIsRight
  <2> QED BY <2>1, <2>3, <2>4
<1>4. ASSUME NEW e \in ClockCpus PROVE ReadIsRight(e)'
  <2>1. ReadIsRight(e) BY DEF Reading
  <2>2. /\ doing'[e] # "read" /\ high' = high /\ got' = got /\ fresh' = fresh
        /\ sctime' = sctime /\ half' = half
    BY DEF Tick, readVars
  <2> QED BY <2>1, <2>2 DEF ReadIsRight, Part
<1> QED BY <1>2, <1>3, <1>4 DEF Slicing, Reading

\* ClockInv is inductive.
LEMMA ClockInvHolds ==
  ClockSpec => []ClockInv
<1>1. ClockInit => ClockInv BY ClockBegins
<1>2. ClockInv /\ [ClockNext]_clockVars => ClockInv'
  <2>1. SUFFICES ASSUME ClockInv, [ClockNext]_clockVars PROVE ClockInv' OBVIOUS
  <2>2. Readers \subseteq ClockCpus /\ Masters \subseteq ClockCpus BY ClockAssumption
  <2>3. ASSUME NEW c \in ClockCpus, NEW k \in Slices, Consume(c, k) PROVE ClockInv'
    BY <2>1, <2>3, ConsumeKeeps
  <2>4. ASSUME NEW c \in ClockCpus, Account(c) PROVE ClockInv' BY <2>1, <2>4, AccountKeeps
  <2>5. ASSUME NEW c \in ClockCpus, Doze(c) \/ Wakeup(c) \/ Access(c) \/ AccessDone(c)
        PROVE ClockInv'
    BY <2>1, <2>5, DozeKeeps
  <2>6. ASSUME NEW c \in ClockCpus, WriteLevel(c) PROVE ClockInv' BY <2>1, <2>6, WriteLevelKeeps
  <2>7. ASSUME NEW c \in ClockCpus, NEW t \in ClockCpus, ReadCycles(c, t) PROVE ClockInv'
    BY <2>1, <2>7, ReadCyclesKeeps
  <2>8. ASSUME NEW c \in ClockCpus,
               \/ ReadLow(c) \/ ReadHigh(c) \/ ReadTime(c)
               \/ \E h \in {"low", "high"} : LatchTime(c, h)
        PROVE ClockInv'
    BY <2>1, <2>8, RegisterKeeps
  <2>9. CASE Timeout BY <2>1, <2>9, TimeoutKeeps
  <2>10. CASE Tick BY <2>1, <2>10, TickKeeps
  <2>11. CASE UNCHANGED clockVars
    <3>1. ClockTypes' BY <2>1, <2>11 DEF ClockInv, ClockTypes, clockVars, sleepVars, readVars
    <3>2. ASSUME NEW e \in ClockCpus PROVE SliceIsRight(e)'
      BY <2>1, <2>11 DEF ClockInv, Slicing, SliceIsRight, Asleep, Since, Until, Behind,
                         clockVars, sleepVars
    <3>3. ASSUME NEW e \in ClockCpus PROVE ReadIsRight(e)'
      BY <2>1, <2>11 DEF ClockInv, Reading, ReadIsRight, Part, clockVars, sleepVars, readVars
    <3> QED BY <3>1, <3>2, <3>3 DEF ClockInv, Slicing, Reading
  <2> QED BY <2>1, <2>2, <2>3, <2>4, <2>5, <2>6, <2>7, <2>8, <2>9, <2>10, <2>11 DEF ClockNext
<1> QED BY <1>1, <1>2, PTL DEF ClockSpec

\* Only the CPU itself accounts for its time.
LEMMA OnlyAccount ==
  ASSUME ClockInv, ClockNext, NEW c \in ClockCpus,
         syncs'[c] > syncs[c] \/ (Asleep(c) /\ doing'[c] = "run")
  PROVE  Account(c)
<1> USE DEF ClockInv
<1>0. syncs[c] \in Nat /\ Readers \subseteq ClockCpus /\ Masters \subseteq ClockCpus
  BY ClockAssumption DEF ClockTypes
<1>1. ASSUME NEW d \in ClockCpus, NEW k \in Slices, Consume(d, k) PROVE FALSE
  <2>1. syncs'[c] \in {0, syncs[c]} BY <1>1 DEF Consume, ClockTypes
  <2>2. doing'[c] \in {"slice", doing[c]} BY <1>1 DEF Consume, ClockTypes
  <2> QED BY <1>0, <2>1, <2>2 DEF Asleep
<1>2. ASSUME NEW d \in ClockCpus, Account(d) PROVE Account(c)
  <2>1. CASE d # c
    <3>1. syncs'[c] = syncs[c] /\ doing'[c] = doing[c] BY <1>2, <2>1 DEF Account, ClockTypes
    <3> QED BY <1>0, <3>1 DEF Asleep
  <2> QED BY <1>2, <2>1
<1>3. ASSUME NEW d \in ClockCpus, Doze(d) \/ Wakeup(d) \/ Access(d) \/ AccessDone(d) PROVE FALSE
  <2>1. syncs' = syncs /\ (doing'[c] = doing[c] \/ doing[c] \notin {"slice", "sync"})
    BY <1>3 DEF Doze, Wakeup, Access, AccessDone, ClockTypes
  <2> QED BY <1>0, <2>1 DEF Asleep
<1>4. ASSUME NEW d \in ClockCpus, WriteLevel(d) \/ Timeout PROVE FALSE
  <2>1. syncs' = syncs /\ doing'[c] \in {doing[c], "sync"}
    BY <1>4 DEF WriteLevel, Timeout, SetLevel, Notify
  <2> QED BY <1>0, <2>1 DEF Asleep
<1>5. ASSUME NEW d \in ClockCpus, NEW t \in ClockCpus, ReadCycles(d, t) PROVE FALSE
  <2>1. syncs' = syncs /\ doing'[c] \in {doing[c], "sync", "read"}
    BY <1>5 DEF ReadCycles, Synced, Notify
  <2> QED BY <1>0, <2>1 DEF Asleep
<1>6. ASSUME NEW d \in ClockCpus,
             \/ ReadLow(d) \/ ReadHigh(d) \/ ReadTime(d)
             \/ \E h \in {"low", "high"} : LatchTime(d, h)
      PROVE FALSE
  <2>1. syncs' = syncs /\ (doing'[c] = doing[c] \/ doing[c] = "read")
    BY <1>6 DEF ReadLow, ReadHigh, ReadTime, LatchTime, ClockTypes
  <2> QED BY <1>0, <2>1 DEF Asleep
<1>7. CASE Tick
  <2>1. syncs' = syncs /\ doing' = doing BY <1>7 DEF Tick
  <2> QED BY <1>0, <2>1 DEF Asleep
<1> QED BY <1>0, <1>1, <1>2, <1>3, <1>4, <1>5, <1>6, <1>7 DEF ClockNext

(* consume_instruction_cycles_with_sync: whatever the levels were while a  *)
(* CPU slept, its slice has taken the time of its cycles, up to the tick   *)
(* or the cycle that is rounded.                                           *)
THEOREM CyclesAreWorked == ClockSpec => CyclesTakeTheirTime
<1>1. ClockInv /\ [ClockNext]_clockVars => [WorksItsCycles]_clockVars
  <2>1. SUFFICES ASSUME ClockInv, ClockNext, NEW c \in ClockCpus, Asleep(c), doing'[c] = "run"
                 PROVE  work[c] > (n[c] - 1) * Cycle /\ work[c] - n[c] * Cycle < Speed[at[c]]
    BY DEF WorksItsCycles, Asleep
  <2>2. Account(c) BY <2>1, OnlyAccount
  <2>3. SliceIsRight(c) BY <2>1 DEF ClockInv, Slicing
  <2>4. PICK s \in Nat \ {0} : s = Speed[at[c]] BY <2>1, SinceIsTime
  <2>5. PICK d \in Nat : d = Since(c) /\ d = (now - since[c]) * s
    BY <2>1, <2>4, SinceIsTime DEF Since
  <2>6. PICK l \in Nat : l = left[c]
    BY <2>1, <2>3, ClockAssumption DEF SliceIsRight, ClockInv, ClockTypes
  <2>7. PICK m \in Nat : m = n[c] * Cycle BY <2>1, ClockAssumption DEF ClockInv, ClockTypes
  <2>8. work[c] \in Nat /\ n[c] \in Nat /\ Cycle \in Nat \ {0}
    BY <2>1, ClockAssumption DEF ClockInv, ClockTypes
  <2>9. l = m - work[c] + d BY <2>1, <2>3, <2>5, <2>6, <2>7 DEF SliceIsRight
  <2>10. l - d < Cycle
    <3>1. left'[c] = l - d
      <4>1. left' = [left EXCEPT ![c] = left[c] - (now - since[c]) * Speed[at[c]]]
        BY <2>2 DEF Account
      <4> QED BY <2>1, <2>4, <2>5, <2>6, <4>1 DEF ClockInv, ClockTypes
    <3>2. ~(left'[c] >= Cycle)
      <4>1. SUFFICES ASSUME left'[c] >= Cycle PROVE FALSE OBVIOUS
      <4>2. doing' = [doing EXCEPT ![c] = "slice"] BY <2>2, <4>1 DEF Account
      <4> QED BY <2>1, <4>2 DEF ClockInv, ClockTypes
    <3> QED BY <2>5, <2>6, <2>8, <3>1, <3>2
  <2>11. d < l + s
    <3>1. PICK p \in Nat : p = now - since[c] BY <2>1, SinceIsTime
    <3>2. PICK u \in Nat : u = (l + s \div 2) \div s BY WaitIsRounded
    <3>3. p <= u
      <4>1. now <= since[c] + u BY <2>1, <2>3, <2>4, <2>6, <3>2 DEF SliceIsRight, Until
      <4>2. now \in Nat /\ since[c] \in Nat BY <2>1 DEF ClockInv, ClockTypes
      <4> QED BY ONLY <3>1, <4>1, <4>2, u \in Nat, p \in Nat
    <3>4. p * s < l + s BY <3>2, <3>3, WaitIsRounded
    <3> QED BY <2>5, <3>1, <3>4
  <2>12. (n[c] - 1) * Cycle = m - Cycle BY <2>7, <2>8
  <2> QED BY <2>4, <2>7, <2>8, <2>9, <2>10, <2>11, <2>12
<1> QED BY <1>1, ClockInvHolds, PTL DEF ClockSpec, CyclesTakeTheirTime

\* The log of a CPU changes only when it accounts for a slice or goes on after a wait.
LEMMA OnlyLogs ==
  ASSUME ClockInv, ClockNext, NEW c \in ClockCpus
  PROVE  \/ Account(c) \/ Wakeup(c) \/ AccessDone(c)
         \/ /\ logged'[c] = logged[c] /\ ~(syncs'[c] > syncs[c])
            /\ ~(doing[c] \in {"idle", "bus"} /\ doing'[c] = "run")
<1> USE DEF ClockInv
<1>0. syncs[c] \in Nat /\ Readers \subseteq ClockCpus /\ Masters \subseteq ClockCpus
  BY ClockAssumption DEF ClockTypes
<1> DEFINE Quiet == /\ logged'[c] = logged[c] /\ (syncs'[c] = syncs[c] \/ syncs'[c] = 0)
                    /\ ~(doing[c] \in {"idle", "bus"} /\ doing'[c] = "run")
<1>1. ASSUME NEW d \in ClockCpus, NEW k \in Slices, Consume(d, k) PROVE Quiet
  BY <1>1 DEF Consume, ClockTypes
<1>2. ASSUME NEW d \in ClockCpus, d # c, Account(d) \/ Wakeup(d) \/ AccessDone(d) PROVE Quiet
  BY <1>2 DEF Account, Wakeup, AccessDone, ClockTypes
<1>3. ASSUME NEW d \in ClockCpus, Doze(d) \/ Access(d) PROVE Quiet
  BY <1>3 DEF Doze, Access, ClockTypes
<1>4. ASSUME NEW d \in ClockCpus, WriteLevel(d) \/ Timeout PROVE Quiet
  BY <1>4 DEF WriteLevel, Timeout, SetLevel, Notify
<1>5. ASSUME NEW d \in ClockCpus, NEW t \in ClockCpus, ReadCycles(d, t) PROVE Quiet
  BY <1>5 DEF ReadCycles, Synced, Notify
<1>6. ASSUME NEW d \in ClockCpus,
             \/ ReadLow(d) \/ ReadHigh(d) \/ ReadTime(d)
             \/ \E h \in {"low", "high"} : LatchTime(d, h)
      PROVE Quiet
  BY <1>6 DEF ReadLow, ReadHigh, ReadTime, LatchTime, ClockTypes
<1>7. CASE Tick
  <2>1. Quiet BY <1>7 DEF Tick
  <2> QED BY <1>0, <2>1
<1>8. CASE Quiet BY <1>0, <1>8
<1> HIDE DEF Quiet
<1> QED BY <1>0, <1>1, <1>2, <1>3, <1>4, <1>5, <1>6, <1>7, <1>8 DEF ClockNext

(* add_time_at_fv: nothing is added to the log but the time of slices, to  *)
(* each level what the CPU spent at it, the time it slept for interrupts,  *)
(* to the idle place, and the accesses of the bus, which are not counted   *)
(* in nanoseconds and which the level of their end gets.                   *)
THEOREM TimeIsLogged == ClockSpec => TimeIsAtItsLevel
<1>1. ClockInv /\ [ClockNext]_clockVars => [LogsItsTime]_clockVars
  <2> DEFINE Added(c, l) == logged'[c][l] - logged[c][l]
             Wakes(c, d) == doing[c] = d /\ doing'[c] = "run"
             Right(c, l) ==
               IF syncs'[c] > syncs[c] /\ l \in Levels THEN Added(c, l) = spent[c][l] \div Ns
               ELSE IF Wakes(c, "idle") /\ l = Idle THEN Added(c, l) = (now - since[c]) \div Ns
               ELSE IF Wakes(c, "bus") /\ l = level[c] THEN Added(c, l) = now - since[c]
               ELSE Added(c, l) = 0
  <2>1. SUFFICES ASSUME ClockInv, ClockNext, NEW c \in ClockCpus, NEW l \in Levels \cup {Idle}
                 PROVE  Right(c, l)
    BY DEF LogsItsTime
  <2>2. /\ logged[c] \in [Levels \cup {Idle} -> Nat] /\ logged[c][l] \in Nat
        /\ at[c] \in Levels /\ level[c] \in Levels /\ Idle \notin Levels /\ syncs[c] \in Nat
    <3>1. logged[c] \in [Levels \cup {Idle} -> Nat] BY <2>1 DEF ClockInv, ClockTypes
    <3>2. logged[c][l] \in Nat BY <2>1, <3>1
    <3>3. at[c] \in Levels /\ level[c] \in Levels /\ syncs[c] \in Nat
      BY <2>1 DEF ClockInv, ClockTypes
    <3>4. Idle \notin Levels
      <4>1. Levels \subseteq Nat BY ClockAssumption
      <4> QED BY <4>1 DEF Idle
    <3> QED BY <3>1, <3>2, <3>3, <3>4
  <2>3. PICK p \in Nat, q \in Nat : p = (now - since[c]) \div Ns /\ q = now - since[c]
    BY <2>1, SinceIsTime
  <2>4. CASE Account(c)
    <3>1. Asleep(c) /\ SliceIsRight(c)
      BY <2>1, <2>4 DEF ClockInv, Slicing, Account, Awake, Asleep
    <3>2. logged' = [logged EXCEPT ![c] = [logged[c] EXCEPT ![at[c]] = logged[c][at[c]] + p]]
      BY <2>3, <2>4 DEF Account, LevelOf
    <3>3. logged'[c][l] = IF l = at[c] THEN logged[c][l] + p ELSE logged[c][l]
      BY <2>1, <2>2, <3>2 DEF ClockInv, ClockTypes
    <3>4. Added(c, l) = IF l = at[c] THEN p ELSE 0 BY <2>2, <2>3, <3>3
    <3>5. syncs'[c] > syncs[c] BY <2>1, <2>2, <2>4 DEF Account, ClockInv, ClockTypes
    <3>6. ~Wakes(c, "idle") /\ ~Wakes(c, "bus") BY <3>1 DEF Asleep
    <3>7. l \in Levels => Added(c, l) = spent[c][l] \div Ns
      <4>1. SUFFICES ASSUME l \in Levels PROVE Added(c, l) = spent[c][l] \div Ns OBVIOUS
      <4>2. spent[c][l] = IF l = at[c] THEN now - since[c] ELSE 0
        BY <3>1, <4>1 DEF SliceIsRight
      <4>3. 0 \div Ns = 0 BY ClockAssumption
      <4> QED BY <2>3, <3>4, <4>2, <4>3
    <3>8. l \notin Levels => Added(c, l) = 0 BY <2>2, <3>4
    <3> QED BY <3>5, <3>6, <3>7, <3>8
  <2>5. CASE Wakeup(c)
    <3>1. logged' = [logged EXCEPT ![c] = [logged[c] EXCEPT ![Idle] = logged[c][Idle] + p]]
      BY <2>3, <2>5 DEF Wakeup
    <3>2. logged'[c][l] = IF l = Idle THEN logged[c][l] + p ELSE logged[c][l]
      BY <2>1, <2>2, <3>1 DEF ClockInv, ClockTypes
    <3>3. Added(c, l) = IF l = Idle THEN p ELSE 0 BY <2>2, <2>3, <3>2
    <3>4. syncs' = syncs /\ Wakes(c, "idle") /\ ~Wakes(c, "bus")
      BY <2>1, <2>5 DEF Wakeup, ClockInv, ClockTypes
    <3> QED BY <2>2, <2>3, <3>3, <3>4
  <2>6. CASE AccessDone(c)
    <3>1. logged' = [logged EXCEPT ![c] = [logged[c] EXCEPT ![level[c]] = logged[c][level[c]] + q]]
      BY <2>3, <2>6 DEF AccessDone
    <3>2. logged'[c][l] = IF l = level[c] THEN logged[c][l] + q ELSE logged[c][l]
      BY <2>1, <2>2, <3>1 DEF ClockInv, ClockTypes
    <3>3. Added(c, l) = IF l = level[c] THEN q ELSE 0 BY <2>2, <2>3, <3>2
    <3>4. syncs' = syncs /\ Wakes(c, "bus") /\ ~Wakes(c, "idle")
      BY <2>1, <2>6 DEF AccessDone, ClockInv, ClockTypes
    <3> QED BY <2>2, <2>3, <3>3, <3>4
  <2>7. CASE /\ logged'[c] = logged[c] /\ ~(syncs'[c] > syncs[c])
             /\ ~(doing[c] \in {"idle", "bus"} /\ doing'[c] = "run")
    <3>1. Added(c, l) = 0 BY <2>2, <2>7
    <3>2. ~Wakes(c, "idle") /\ ~Wakes(c, "bus") BY <2>7
    <3> QED BY <2>7, <3>1, <3>2
  <2> QED BY <2>1, <2>4, <2>5, <2>6, <2>7, OnlyLogs
<1> QED BY <1>1, ClockInvHolds, PTL DEF ClockSpec, TimeIsAtItsLevel

\* A CPU leaves a read, and takes the other half of a counter or of the time, only with
\* the access that does so.
LEMMA OnlyReads ==
  ASSUME ClockInv, ClockNext, NEW c \in ClockCpus
  PROVE  /\ doing[c] = "read" /\ doing'[c] = "run" => ReadLow(c)
         /\ high[c] # None /\ high'[c] = None => ReadHigh(c)
         /\ sctime[c] # None /\ sctime'[c] = None => ReadTime(c)
<1> USE DEF ClockInv
<1>0. Readers \subseteq ClockCpus /\ Masters \subseteq ClockCpus /\ ReadIsRight(c)
  BY ClockAssumption DEF Reading
<1>1. ASSUME NEW d \in ClockCpus,
             \/ \E k \in Slices : Consume(d, k)
             \/ Account(d) \/ Doze(d) \/ Wakeup(d) \/ Access(d) \/ AccessDone(d)
             \/ WriteLevel(d) \/ Timeout \/ Tick
             \/ \E t \in ClockCpus : ReadCycles(d, t)
      PROVE  /\ doing[c] = "read" => doing'[c] = "read"
             /\ high' = high /\ sctime' = sctime
  <2>1. ASSUME NEW k \in Slices, Consume(d, k)
        PROVE  (doing[c] = "read" => doing'[c] = "read") /\ high' = high /\ sctime' = sctime
    BY <2>1 DEF Consume, readVars, ClockTypes
  <2>2. CASE Account(d)
    <3>1. doing[d] # "read" BY <2>2 DEF Account, Awake
    <3>2. doing'[c] = doing[c] \/ c = d BY <2>2 DEF Account, ClockTypes
    <3> QED BY <2>2, <3>1, <3>2 DEF Account, readVars
  <2>3. CASE Doze(d) \/ Wakeup(d) \/ Access(d) \/ AccessDone(d)
    BY <2>3 DEF Doze, Wakeup, Access, AccessDone, readVars, ClockTypes
  <2>4. CASE WriteLevel(d) \/ Timeout BY <2>4 DEF WriteLevel, Timeout, SetLevel, Notify, readVars
  <2>5. CASE Tick BY <2>5 DEF Tick, readVars
  <2>6. ASSUME NEW t \in ClockCpus, ReadCycles(d, t)
        PROVE  (doing[c] = "read" => doing'[c] = "read") /\ high' = high /\ sctime' = sctime
    BY <2>6 DEF ReadCycles, Synced, Notify
  <2> QED BY <1>1, <2>1, <2>2, <2>3, <2>4, <2>5, <2>6
<1>2. ASSUME NEW d \in ClockCpus,
             \/ ReadLow(d) \/ ReadHigh(d) \/ ReadTime(d)
             \/ \E h \in {"low", "high"} : LatchTime(d, h)
      PROVE  /\ doing[c] = "read" /\ doing'[c] = "run" => ReadLow(c)
             /\ high[c] # None /\ high'[c] = None => ReadHigh(c)
             /\ sctime[c] # None /\ sctime'[c] = None => ReadTime(c)
  <2>0. Half \in Nat \ {0} /\ Ns \in Nat \ {0} /\ now \in Nat BY ClockAssumption DEF ClockTypes
  <2>1. CASE ReadLow(d)
    <3>1. sctime' = sctime /\ (d # c => doing'[c] = doing[c] /\ high'[c] = high[c])
      BY <2>1 DEF ReadLow, ClockTypes
    <3>2. high[d] = None BY <2>1 DEF Reading, ReadIsRight, ReadLow
    <3> QED BY <2>1, <3>1, <3>2
  <2>2. CASE ReadHigh(d)
    <3>1. doing' = doing /\ sctime' = sctime /\ (d # c => high'[c] = high[c])
      BY <2>2 DEF ReadHigh, ClockTypes
    <3> QED BY <2>2, <3>1
  <2>3. CASE ReadTime(d)
    <3>1. doing' = doing /\ high' = high /\ (d # c => sctime'[c] = sctime[c])
      BY <2>3 DEF ReadTime, ClockTypes
    <3> QED BY <2>3, <3>1
  <2>4. ASSUME NEW h \in {"low", "high"}, LatchTime(d, h)
        PROVE doing' = doing /\ high' = high /\ (sctime[c] # None => sctime'[c] = sctime[c])
    BY <2>4 DEF LatchTime, ClockTypes
  <2> QED BY <1>2, <2>1, <2>2, <2>3, <2>4
<1> QED BY <1>0, <1>1, <1>2 DEF ClockNext

(* get_no_cycles and the time registers: a count that is read is that of   *)
(* the instant of the read, and its halves, or those of the time, are of   *)
(* one value.                                                              *)
THEOREM CountsAreFresh == ClockSpec => CountIsFresh
<1>1. ClockInv /\ [ClockNext]_clockVars => [ReadsNow]_clockVars
  <2>1. SUFFICES ASSUME ClockInv, ClockNext PROVE ReadsNow OBVIOUS
  <2>0. Half \in Nat \ {0} /\ Cycle \in Nat \ {0} /\ now \in Nat
    BY <2>1, ClockAssumption DEF ClockInv, ClockTypes
  <2>2. ASSUME NEW c \in ClockCpus, doing[c] = "read", doing'[c] = "run",
               NEW t, t = asked[c], NEW done,
               done = IF doing[t] = "slice" THEN base[t] * Cycle + work[t] ELSE total[t] * Cycle
        PROVE  fresh'[c] * Cycle \in done - syncs[t] * (Cycle - 1) .. done
    <3>1. ReadLow(c) BY <2>1, <2>2, OnlyReads
    <3>2. t \in ClockCpus /\ SliceIsRight(t)
      BY <2>1, <2>2 DEF ClockInv, ClockTypes, Slicing
    <3>3. PICK v \in Nat, k \in Nat : v = total[t] /\ k = syncs[t]
      BY <2>1, <3>2 DEF ClockInv, ClockTypes
    <3>4. fresh'[c] = v BY <2>1, <2>2, <3>1, <3>3 DEF ReadLow, ClockInv, ClockTypes
    <3>5. k * (Cycle - 1) \in Nat /\ v * Cycle \in Nat BY <2>0
    <3>6. done \in Nat /\ v * Cycle <= done /\ v * Cycle >= done - k * (Cycle - 1)
      <4>1. CASE doing[t] = "slice"
        <5>1. PICK w \in Nat : w = base[t] * Cycle + work[t]
          <6>1. PICK b \in Nat, x \in Nat : b = base[t] /\ x = work[t]
            BY <2>1, <3>2 DEF ClockInv, ClockTypes
          <6>2. b * Cycle + x \in Nat BY <2>0
          <6> QED BY <6>1, <6>2
        <5>2. since[t] = now BY <2>1, <2>2, <4>1 DEF ClockInv, Reading, ReadIsRight
        <5>3. Since(t) = 0
          <6>1. PICK s \in Nat : s = Speed[at[t]] BY <2>1, <3>2, SinceIsTime
          <6> QED BY <2>0, <5>2, <6>1 DEF Since
        <5>4. base[t] * Cycle + work[t] - Since(t) = w
          <6>1. base[t] \in Nat /\ work[t] \in Nat BY <2>1, <3>2 DEF ClockInv, ClockTypes
          <6>2. work[t] - Since(t) = work[t] BY <5>3, <6>1
          <6> QED BY <5>1, <6>2
        <5>5. Behind(v, w, k)
          <6>1. Asleep(t) BY <4>1 DEF Asleep
          <6>2. Behind(total[t], base[t] * Cycle + work[t] - Since(t), syncs[t])
            BY <3>2, <6>1 DEF SliceIsRight
          <6> QED BY <3>3, <5>4, <6>2
        <5>6. done = w BY <2>2, <4>1, <5>1
        <5> QED BY <5>5, <5>6 DEF Behind
      <4>2. CASE doing[t] # "slice"
        <5>1. done = v * Cycle BY <2>2, <3>3, <4>2
        <5> QED BY <3>5, <5>1
      <4> QED BY <4>1, <4>2
    <3> QED BY <3>3, <3>4, <3>5, <3>6
  <2>3. ASSUME NEW c \in ClockCpus, high[c] # None, high'[c] = None
        PROVE  got[c] + Half * HighHalf(c) = fresh[c]
    <3>1. PICK v \in Nat : v = fresh[c] BY <2>1, <2>3 DEF ClockInv, ClockTypes
    <3>2. high[c] = v \div Half /\ got[c] = v % Half
      BY <2>1, <2>3, <3>1 DEF ClockInv, Reading, ReadIsRight
    <3>3. v \div Half \in Nat /\ v % Half \in Nat /\ v = Half * (v \div Half) + (v % Half)
      BY <2>0, Divided
    <3>4. PICK q \in Nat, r \in Nat : q = v \div Half /\ r = v % Half BY <3>3
    <3> QED BY <2>0, <3>1, <3>2, <3>3, <3>4 DEF HighHalf
  <2>4. ASSUME NEW c \in ClockCpus, sctime[c] # None, sctime'[c] = None
        PROVE  (IF half[c] = "low" THEN got[c] ELSE TimeHalf(c))
                 + Half * (IF half[c] = "low" THEN TimeHalf(c) ELSE got[c]) = fresh[c]
    <3>1. PICK v \in Nat : v = fresh[c] BY <2>1, <2>4 DEF ClockInv, ClockTypes
    <3>2. sctime[c] = v /\ got[c] = Part(half[c], v) /\ half[c] \in {"low", "high"}
      BY <2>1, <2>4, <3>1 DEF ClockInv, ClockTypes, Reading, ReadIsRight
    <3>3. v \div Half \in Nat /\ v % Half \in Nat /\ v = Half * (v \div Half) + (v % Half)
      BY <2>0, Divided
    <3>4. PICK q \in Nat, r \in Nat : q = v \div Half /\ r = v % Half BY <3>3
    <3>5. r + Half * q = v BY <2>0, <3>3, <3>4
    <3>6. CASE half[c] = "low"
      <4>1. got[c] = r /\ TimeHalf(c) = q BY <3>2, <3>4, <3>6 DEF Part, Other, TimeHalf
      <4> QED BY <3>1, <3>5, <3>6, <4>1
    <3>7. CASE half[c] = "high"
      <4>1. got[c] = q /\ TimeHalf(c) = r BY <3>2, <3>4, <3>7 DEF Part, Other, TimeHalf
      <4> QED BY <3>1, <3>5, <3>7, <4>1
    <3> QED BY <3>2, <3>6, <3>7
  <2> QED BY <2>2, <2>3, <2>4 DEF ReadsNow
<1> QED BY <1>1, ClockInvHolds, PTL DEF ClockSpec, CountIsFresh

\* Induction, for a set of numbers.
LEMMA AllNumbers ==
    ASSUME NEW m \in Nat, NEW P, 0 \in P, \A num \in Nat : num < m /\ num \in P => num + 1 \in P
    PROVE  \A num \in 0 .. m : num \in P
<1> SUFFICES ASSUME NEW z \in 0 .. m, z \notin P PROVE FALSE
  OBVIOUS
<1>1. PICK T : T = {num \in 0 .. m : num \notin P}
  OBVIOUS
<1>2. T \subseteq Nat /\ T # {}
  BY <1>1
<1>3. PICK x \in T : \A y \in T : x <= y
  BY <1>2, FirstOf
<1>4. x \in 0 .. m /\ x \notin P /\ x # 0
  BY <1>1, <1>3
<1>5. x - 1 \in 0 .. m /\ x - 1 \in Nat /\ x - 1 < m
  BY <1>4
<1>6. x - 1 \in P
  BY <1>1, <1>3, <1>5
<1>7. (x - 1) + 1 \in P
  BY <1>5, <1>6
<1> QED  BY <1>4, <1>7

-----------------------------------------------------------------------------
(* Sums over finite sets, as the community modules define them: the sum is *)
(* that of one element, whichever, and of the others.                      *)

\* Every finite set has a property its subsets have when the smaller ones have it.
LEMMA AllSubsets ==
    ASSUME NEW S, IsFiniteSet(S), NEW P,
           \A T \in SUBSET S : (\A U \in SUBSET T : U # T => U \in P) => T \in P
    PROVE  \A T \in SUBSET S : T \in P
<1> SUFFICES ASSUME NEW Z \in SUBSET S, Z \notin P PROVE FALSE
  OBVIOUS
<1>1. PICK B, C : B = {T \in SUBSET S : T \notin P} /\ C = {Cardinality(T) : T \in B}
  OBVIOUS
<1>2. \A T \in SUBSET S : IsFiniteSet(T) /\ Cardinality(T) \in Nat
  BY FS_Subset, FS_CardinalityType
<1>3. C \subseteq Nat /\ C # {}
  BY <1>1, <1>2
<1>4. PICK num \in C : \A k \in C : num <= k
  BY <1>3, FirstOf
<1>5. PICK T \in B : num = Cardinality(T)
  BY <1>1
<1>6. T \in SUBSET S /\ T \notin P /\ IsFiniteSet(T) /\ num \in Nat
  BY <1>1, <1>2, <1>5
<1>7. ASSUME NEW U \in SUBSET T, U # T PROVE U \in P
  <2>1. U \in SUBSET S
    BY <1>6
  <2>2. Cardinality(U) \in Nat /\ Cardinality(U) <= Cardinality(T) /\ Cardinality(U) # Cardinality(T)
    BY <1>2, <1>6, <1>7, <2>1, FS_Subset
  <2>3. Cardinality(U) \notin C
    BY <1>4, <1>5, <1>6, <2>2
  <2> QED  BY <1>1, <2>1, <2>3
<1> QED  BY <1>6, <1>7

\* The element that the community modules add first, and the sums of the subsets of S, each
\* made from that of a smaller one.
Chosen(s) == CHOOSE x \in s : TRUE
SumOn(f, s) == SumFunctionOnSet(f, s)
WalkStep(it, f, s) == IF s = {} THEN 0 ELSE f[Chosen(s)] + it[s \ {Chosen(s)}]
SumWalk(it, f, S) == it = [s \in SUBSET S |-> WalkStep(it, f, s)]

LEMMA SumIsWalk ==
    ASSUME NEW f, NEW S PROVE SumOn(f, S) = (CHOOSE it : SumWalk(it, f, S))[S]
BY DEF SumOn, SumFunctionOnSet, FoldFunctionOnSet, MapThenFoldSet, SumWalk, WalkStep, Chosen

LEMMA ChosenIn == ASSUME NEW s, s # {} PROVE Chosen(s) \in s
BY DEF Chosen

\* The walk over the subsets of a few elements.
Small(S, num) == {s \in SUBSET S : Cardinality(s) <= num}
PartWalk(it, f, S, num) == it = [s \in Small(S, num) |-> WalkStep(it, f, s)]

LEMMA SmallerWithout ==
    ASSUME NEW S, IsFiniteSet(S), NEW s \in SUBSET S, s # {}
    PROVE  /\ s \ {Chosen(s)} \in SUBSET S /\ s \ {Chosen(s)} # s
           /\ Cardinality(s) \in Nat /\ Cardinality(s \ {Chosen(s)}) = Cardinality(s) - 1
<1>1. Chosen(s) \in s /\ IsFiniteSet(s)
  BY ChosenIn, FS_Subset
<1>2. Cardinality(s) \in Nat
  BY <1>1, FS_CardinalityType
<1>3. Cardinality(s \ {Chosen(s)}) = Cardinality(s) - 1
  BY <1>1, FS_RemoveElement
<1> QED  BY <1>1, <1>2, <1>3

LEMMA WalkExists ==
    ASSUME NEW S, IsFiniteSet(S), NEW f
    PROVE  \E it : SumWalk(it, f, S)
<1>1. PICK P : P = {num \in Nat : \E it : PartWalk(it, f, S, num)}
  OBVIOUS
<1>2. 0 \in P
  <2>1. PICK it : it = [s \in Small(S, 0) |-> 0]
    OBVIOUS
  <2>2. ASSUME NEW s \in Small(S, 0) PROVE WalkStep(it, f, s) = 0
    <3>1. s \in SUBSET S /\ Cardinality(s) <= 0
      BY DEF Small
    <3>2. IsFiniteSet(s) /\ Cardinality(s) \in Nat
      BY <3>1, FS_Subset, FS_CardinalityType
    <3>3. s = {}
      BY <3>1, <3>2, FS_EmptySet
    <3> QED  BY <3>3 DEF WalkStep
  <2>3. PartWalk(it, f, S, 0)
    BY <2>1, <2>2 DEF PartWalk
  <2> QED  BY <1>1, <2>3
<1>3. ASSUME NEW num \in Nat, num \in P PROVE num + 1 \in P
  <2>1. PICK it : PartWalk(it, f, S, num)
    BY <1>1, <1>3
  <2>2. PICK new : new = [s \in Small(S, num + 1) |-> WalkStep(it, f, s)]
    OBVIOUS
  <2>3. ASSUME NEW s \in Small(S, num) PROVE s \in Small(S, num + 1) /\ new[s] = it[s]
    <3>1. s \in SUBSET S /\ Cardinality(s) <= num
      BY DEF Small
    <3>2. Cardinality(s) \in Nat
      BY <3>1, FS_Subset, FS_CardinalityType
    <3>3. s \in Small(S, num + 1)
      BY <3>1, <3>2 DEF Small
    <3>4. it[s] = WalkStep(it, f, s)
      BY <2>1 DEF PartWalk
    <3> QED  BY <2>2, <3>3, <3>4
  <2>4. ASSUME NEW s \in Small(S, num + 1) PROVE WalkStep(it, f, s) = WalkStep(new, f, s)
    <3>1. CASE s = {}
      BY <3>1 DEF WalkStep
    <3>2. CASE s # {}
      <4>1. s \in SUBSET S /\ Cardinality(s) <= num + 1
        BY DEF Small
      <4>2. s \ {Chosen(s)} \in Small(S, num)
        BY <3>2, <4>1, SmallerWithout DEF Small
      <4>3. new[s \ {Chosen(s)}] = it[s \ {Chosen(s)}]
        BY <2>3, <4>2
      <4> QED  BY <4>3 DEF WalkStep
    <3> QED  BY <3>1, <3>2
  <2>5. PartWalk(new, f, S, num + 1)
    BY <2>2, <2>4 DEF PartWalk
  <2> QED  BY <1>1, <2>5
<1>4. PICK N : N = Cardinality(S)
  OBVIOUS
<1>5. N \in Nat
  BY <1>4, FS_CardinalityType
<1>6. N \in P
  BY <1>2, <1>3, <1>5, AllNumbers
<1>7. Small(S, N) = SUBSET S
  BY <1>4, FS_Subset DEF Small
<1>8. PICK it : PartWalk(it, f, S, N)
  BY <1>1, <1>6
<1> QED  BY <1>7, <1>8 DEF PartWalk, SumWalk

LEMMA WalkUnique ==
    ASSUME NEW S, IsFiniteSet(S), NEW T \in SUBSET S, NEW f, NEW i, SumWalk(i, f, S), NEW j, SumWalk(j, f, T)
    PROVE  \A u \in SUBSET T : i[u] = j[u]
<1>1. PICK P : P = {u \in SUBSET T : i[u] = j[u]}
  OBVIOUS
<1>2. IsFiniteSet(T)
  BY FS_Subset
<1>3. ASSUME NEW u \in SUBSET T, \A v \in SUBSET u : v # u => v \in P PROVE u \in P
  <2>1. i[u] = WalkStep(i, f, u) /\ j[u] = WalkStep(j, f, u)
    BY DEF SumWalk
  <2>2. CASE u = {}
    BY <1>1, <2>1, <2>2 DEF WalkStep
  <2>3. CASE u # {}
    <3>1. u \ {Chosen(u)} \in P
      BY <1>3, <2>3, ChosenIn
    <3>2. i[u \ {Chosen(u)}] = j[u \ {Chosen(u)}]
      BY <1>1, <3>1
    <3> QED  BY <1>1, <2>1, <3>2 DEF WalkStep
  <2> QED  BY <2>2, <2>3
<1>4. \A u \in SUBSET T : u \in P
  BY ONLY <1>2, <1>3, AllSubsets
<1> QED  BY <1>1, <1>4

LEMMA SumOfNone == ASSUME NEW f PROVE SumOn(f, {}) = 0
<1>1. PICK it : it = CHOOSE i : SumWalk(i, f, {})
  OBVIOUS
<1>2. SumWalk(it, f, {})
  BY <1>1, WalkExists, FS_EmptySet
<1>3. it[{}] = 0
  BY <1>2 DEF SumWalk, WalkStep
<1> QED  BY <1>1, <1>3, SumIsWalk

LEMMA SumOfChosen ==
    ASSUME NEW S, IsFiniteSet(S), S # {}, NEW f
    PROVE  SumOn(f, S) = f[Chosen(S)] + SumOn(f, S \ {Chosen(S)})
<1>1. PICK T : T = S \ {Chosen(S)}
  OBVIOUS
<1>2. T \in SUBSET S /\ IsFiniteSet(T)
  BY <1>1, FS_Subset
<1>3. PICK i, j : i = (CHOOSE h : SumWalk(h, f, S)) /\ j = (CHOOSE h : SumWalk(h, f, T))
  OBVIOUS
<1>4. SumWalk(i, f, S) /\ SumWalk(j, f, T)
  BY <1>2, <1>3, WalkExists
<1>5. SumOn(f, S) = i[S] /\ SumOn(f, T) = j[T]
  BY <1>3, SumIsWalk
<1>6. i[S] = f[Chosen(S)] + i[T]
  BY <1>1, <1>4 DEF SumWalk, WalkStep
<1>7. i[T] = j[T]
  BY <1>2, <1>4, WalkUnique
<1> QED  BY <1>1, <1>5, <1>6, <1>7

\* Numbers to add.
Numbers(f, S) == \A x \in S : f[x] \in Nat

LEMMA SumIsNumber ==
    ASSUME NEW S, IsFiniteSet(S), NEW f, Numbers(f, S)
    PROVE  SumOn(f, S) \in Nat
<1>1. PICK P : P = {T \in SUBSET S : SumOn(f, T) \in Nat}
  OBVIOUS
<1>2. ASSUME NEW T \in SUBSET S, \A U \in SUBSET T : U # T => U \in P PROVE T \in P
  <2>1. CASE T = {}
    BY <1>1, <2>1, SumOfNone
  <2>2. CASE T # {}
    <3>1. Chosen(T) \in T /\ IsFiniteSet(T)
      BY <2>2, ChosenIn, FS_Subset
    <3>2. T \ {Chosen(T)} \in P
      BY <1>2, <3>1
    <3>3. f[Chosen(T)] \in Nat
      BY <3>1 DEF Numbers
    <3>4. SumOn(f, T) = f[Chosen(T)] + SumOn(f, T \ {Chosen(T)})
      BY <2>2, <3>1, SumOfChosen
    <3> QED  BY <1>1, <3>2, <3>3, <3>4
  <2> QED  BY <2>1, <2>2
<1>3. S \in P
  BY ONLY <1>2, AllSubsets, IsFiniteSet(S)
<1> QED  BY <1>1, <1>3

LEMMA SumWithout ==
    ASSUME NEW S, IsFiniteSet(S), NEW f, Numbers(f, S), NEW x \in S
    PROVE  SumOn(f, S) = f[x] + SumOn(f, S \ {x})
<1>1. PICK P : P = {T \in SUBSET S : \A y \in T : SumOn(f, T) = f[y] + SumOn(f, T \ {y})}
  OBVIOUS
<1>2. ASSUME NEW T \in SUBSET S, \A U \in SUBSET T : U # T => U \in P PROVE T \in P
  <2> SUFFICES ASSUME NEW y \in T PROVE SumOn(f, T) = f[y] + SumOn(f, T \ {y})
    BY <1>1
  <2>1. PICK c : c = Chosen(T)
    OBVIOUS
  <2>2. c \in T /\ IsFiniteSet(T) /\ IsFiniteSet(T \ {y})
    BY <2>1, ChosenIn, FS_Subset
  <2>3. SumOn(f, T) = f[c] + SumOn(f, T \ {c})
    BY <2>1, <2>2, SumOfChosen
  <2>4. CASE y = c
    BY <2>3, <2>4
  <2>5. CASE y # c
    <3>1. PICK U, V, W : U = T \ {c} /\ V = T \ {y} /\ W = (T \ {c}) \ {y}
      OBVIOUS
    <3>2. U \in P /\ V \in P /\ y \in U /\ c \in V /\ W = U \ {y} /\ W = V \ {c}
      BY <1>2, <2>2, <2>5, <3>1
    <3>3. SumOn(f, U) = f[y] + SumOn(f, W) /\ SumOn(f, V) = f[c] + SumOn(f, W)
      BY <1>1, <3>2
    <3>4. W \in SUBSET S /\ IsFiniteSet(W) /\ Numbers(f, W)
      BY <3>1, FS_Subset DEF Numbers
    <3>5. f[c] \in Nat /\ f[y] \in Nat /\ SumOn(f, W) \in Nat
      BY <2>2, <3>4, SumIsNumber DEF Numbers
    <3> QED  BY <2>3, <3>1, <3>3, <3>5
  <2> QED  BY <2>4, <2>5
<1>3. S \in P
  BY ONLY <1>2, AllSubsets, IsFiniteSet(S)
<1> QED  BY <1>1, <1>3

\* The same numbers in other places: m is the place of each.
Moved(f, S, g, m) ==
    /\ \A x \in S : g[m[x]] = f[x]
    /\ \A x \in S, y \in S : m[x] = m[y] => x = y

LEMMA SumMoved ==
    ASSUME NEW S, IsFiniteSet(S), NEW f, Numbers(f, S), NEW g, NEW m, Moved(f, S, g, m)
    PROVE  SumOn(f, S) = SumOn(g, {m[x] : x \in S})
<1>1. PICK P : P = {T \in SUBSET S : /\ IsFiniteSet({m[x] : x \in T})
                                    /\ SumOn(f, T) = SumOn(g, {m[x] : x \in T})}
  OBVIOUS
<1>2. ASSUME NEW T \in SUBSET S, \A U \in SUBSET T : U # T => U \in P PROVE T \in P
  <2>1. CASE T = {}
    <3>1. {m[x] : x \in T} = {}
      BY <2>1
    <3> QED  BY <1>1, <2>1, <3>1, SumOfNone, FS_EmptySet
  <2>2. CASE T # {}
    <3>1. PICK c, U, I, J : /\ c = Chosen(T) /\ U = T \ {c}
                            /\ I = {m[x] : x \in T} /\ J = {m[x] : x \in U}
      OBVIOUS
    <3>2. c \in T /\ IsFiniteSet(T) /\ c \in S
      BY <2>2, <3>1, ChosenIn, FS_Subset
    <3>3. U \in P
      BY <1>2, <3>1, <3>2
    <3>4. IsFiniteSet(J) /\ SumOn(f, U) = SumOn(g, J)
      BY <1>1, <3>1, <3>3
    <3>5. J = I \ {m[c]} /\ m[c] \in I /\ I = J \cup {m[c]}
      <4>1. \A x \in U : m[x] # m[c]
        BY <3>1, <3>2 DEF Moved
      <4>2. \A x \in T : x \in U \/ x = c
        BY <3>1
      <4> QED  BY <3>1, <3>2, <4>1, <4>2
    <3>6. IsFiniteSet(I)
      <4>1. PICK e : e = m[c]
        OBVIOUS
      <4>2. IsFiniteSet(J \cup {e})
        BY ONLY <3>4, FS_AddElement
      <4> QED  BY ONLY <3>5, <4>1, <4>2
    <3>7. Numbers(g, I)
      BY <3>1 DEF Numbers, Moved
    <3>8. SumOn(g, I) = g[m[c]] + SumOn(g, J)
      BY <3>5, <3>6, <3>7, SumWithout
    <3>9. SumOn(f, T) = f[c] + SumOn(f, U)
      BY <2>2, <3>1, <3>2, SumOfChosen
    <3>10. g[m[c]] = f[c]
      BY <3>2 DEF Moved
    <3>11. SumOn(f, T) = SumOn(g, I)
      BY <3>4, <3>8, <3>9, <3>10
    <3> QED  BY <1>1, <3>1, <3>6, <3>11
  <2> QED  BY <2>1, <2>2
<1>3. S \in P
  BY ONLY <1>2, AllSubsets, IsFiniteSet(S)
<1> QED  BY <1>1, <1>3

\* The sum depends on the numbers added only.
LEMMA SumOfSame ==
    ASSUME NEW S, IsFiniteSet(S), NEW f, Numbers(f, S), NEW g, \A x \in S : g[x] = f[x]
    PROVE  SumOn(f, S) = SumOn(g, S)
<1>1. PICK m : m = [x \in S |-> x]
  OBVIOUS
<1>2. Moved(f, S, g, m)
  BY <1>1 DEF Moved
<1>3. {m[x] : x \in S} = S
  BY <1>1
<1>4. SumOn(f, S) = SumOn(g, {m[x] : x \in S})
  BY <1>2, SumMoved
<1> QED  BY <1>3, <1>4

LEMMA SumOfAppended ==
    ASSUME NEW s \in Seq(Nat), NEW e \in Nat
    PROVE  SumFunction(Append(s, e)) = SumFunction(s) + e /\ SumFunction(s) \in Nat
<1>1. PICK num, t : num = Len(s) /\ t = Append(s, e)
  OBVIOUS
<1>2. /\ num \in Nat /\ DOMAIN s = 1 .. num /\ DOMAIN t = 1 .. num + 1 /\ t[num + 1] = e
      /\ \A i \in 1 .. num : t[i] = s[i]
  BY <1>1
<1>3. Numbers(s, 1 .. num) /\ Numbers(t, 1 .. num + 1) /\ IsFiniteSet(1 .. num) /\ IsFiniteSet(1 .. num + 1)
  <2>1. \A i \in 1 .. num : s[i] \in Nat
    BY <1>1
  <2>2. \A i \in 1 .. num + 1 : i \in 1 .. num \/ i = num + 1
    BY <1>2
  <2>3. Numbers(s, 1 .. num) /\ Numbers(t, 1 .. num + 1)
    BY ONLY <1>2, <2>1, <2>2, e \in Nat DEF Numbers
  <2>4. IsFiniteSet(1 .. num) /\ IsFiniteSet(1 .. num + 1)
    BY ONLY <1>2, FS_Interval
  <2> QED  BY ONLY <2>3, <2>4
<1>4. (1 .. num + 1) \ {num + 1} = 1 .. num /\ num + 1 \in 1 .. num + 1
  BY <1>2
<1>5. SumOn(t, 1 .. num + 1) = t[num + 1] + SumOn(t, (1 .. num + 1) \ {num + 1})
  BY ONLY <1>3, <1>4, SumWithout
<1>6. SumOn(s, 1 .. num) = SumOn(t, 1 .. num)
  BY ONLY <1>2, <1>3, SumOfSame
<1>7. SumOn(s, 1 .. num) \in Nat
  BY ONLY <1>3, SumIsNumber
<1>8. SumFunction(s) = SumOn(s, 1 .. num) /\ SumFunction(t) = SumOn(t, 1 .. num + 1)
  BY <1>2 DEF SumFunction, SumOn
<1>9. SumFunction(t) = SumFunction(s) + e
  <2>1. PICK a : a = SumOn(s, 1 .. num)
    OBVIOUS
  <2>2. SumOn(t, 1 .. num + 1) = e + a
    BY ONLY <1>2, <1>4, <1>5, <1>6, <2>1
  <2>3. a \in Nat
    BY ONLY <1>7, <2>1
  <2> QED  BY ONLY <1>8, <2>1, <2>2, <2>3, e \in Nat
<1> QED  BY ONLY <1>1, <1>7, <1>8, <1>9
-----------------------------------------------------------------------------
(* The samples.  A peripheral is charged when it leaves a mode, and        *)
(* get_sample charges the modes that go on: until then the sample lacks    *)
(* what the peripheral used since it changed its mode.                     *)

\* What the sample that is being taken holds of peripheral p.
Charge(p) == IF samples = <<>> THEN 0 ELSE Head(samples).energy[p]

\* Since when the sample lacks the energy of p.
LacksSince(p) == Later(lastMeasure, changedAt[p])

SampleType == [stamp : Nat, energy : [Periphs -> Nat], processed : [Periphs -> BOOLEAN]]

TraceTypes ==
    /\ instant \in Nat /\ lastMeasure \in Nat
    /\ mode \in [Periphs -> Modes] /\ changedAt \in [Periphs -> Nat]
    /\ used \in [Periphs -> Nat]
    /\ lastMeasure <= instant /\ instant <= lastMeasure + Period
    /\ \A p \in Periphs : changedAt[p] <= instant
    /\ samples = <<>> \/ \E s \in SampleType : samples = <<s>> /\ s.stamp = lastMeasure + Period

\* A peripheral was charged in the sample when it changed its mode in its period.
ChargedOf(p) ==
    /\ used[p] = Charge(p) + (Cost[mode[p]] * (instant - LacksSince(p)))
    /\ changedAt[p] > lastMeasure <=> samples # <<>> /\ Head(samples).processed[p]
    /\ changedAt[p] <= lastMeasure => Charge(p) = 0

SamplesInv == TraceTypes /\ \A p \in Periphs : ChargedOf(p)

LEMMA OneSample ==
    ASSUME TraceTypes, samples # <<>>
    PROVE  /\ Head(samples) \in SampleType /\ samples = <<Head(samples)>> /\ Tail(samples) = <<>>
           /\ Head(samples).stamp = lastMeasure + Period
<1>1. PICK s \in SampleType : samples = <<s>> /\ s.stamp = lastMeasure + Period
  BY DEF TraceTypes
<1> QED  BY <1>1

LEMMA SampleIsUsed ==
    ASSUME SamplesInv, instant = lastMeasure + Period
    PROVE  Sample.energy = used /\ Sample.stamp = instant
<1>1. PICK s : s = IF samples = <<>> THEN NewSample(lastMeasure) ELSE Head(samples)
  OBVIOUS
<1>2. /\ s \in SampleType /\ s.stamp = lastMeasure + Period
      /\ \A p \in Periphs : s.energy[p] = Charge(p)
      /\ \A p \in Periphs : s.processed[p] <=> samples # <<>> /\ Head(samples).processed[p]
  <2>1. CASE samples = <<>>
    <3>1. s = NewSample(lastMeasure)
      BY <1>1, <2>1
    <3>2. lastMeasure + Period \in Nat
      BY TraceAssumption DEF SamplesInv, TraceTypes
    <3> QED  BY <2>1, <3>1, <3>2 DEF NewSample, SampleType, Charge
  <2>2. CASE samples # <<>>
    <3>1. s = Head(samples)
      BY <1>1, <2>2
    <3> QED  BY <2>2, <3>1, OneSample DEF SamplesInv, Charge
  <2> QED  BY <2>1, <2>2
<1>3. ASSUME NEW p \in Periphs
      PROVE  used[p] = s.energy[p] +
               (IF instant - changedAt[p] < Period THEN Cost[mode[p]] * (instant - changedAt[p])
                ELSE IF s.processed[p] THEN 0 ELSE Cost[mode[p]] * Period)
  <2>1. PICK c, a, l, e : c = Cost[mode[p]] /\ a = changedAt[p] /\ l = lastMeasure /\ e = Charge(p)
    OBVIOUS
  <2>2. c \in Nat /\ a \in Nat /\ l \in Nat /\ instant = l + Period /\ a <= instant /\ Period \in Nat \ {0}
    BY <2>1, TraceAssumption DEF SamplesInv, TraceTypes
  <2>3. used[p] = e + (c * (instant - Later(l, a)))
    BY <2>1 DEF SamplesInv, ChargedOf, LacksSince
  <2>4. s.processed[p] <=> a > l
    BY <1>2, <2>1 DEF SamplesInv, ChargedOf
  <2>5. CASE a > l
    <3>1. instant - a < Period /\ Later(l, a) = a
      BY ONLY <2>2, <2>5 DEF Later
    <3> QED  BY <1>2, <2>1, <2>3, <3>1
  <2>6. CASE ~(a > l)
    <3>1. ~(instant - a < Period) /\ Later(l, a) = l /\ instant - l = Period
      BY ONLY <2>2, <2>6 DEF Later
    <3> QED  BY <1>2, <2>1, <2>3, <2>4, <2>6, <3>1
  <2> QED  BY <2>5, <2>6
<1>4. Sample.energy = [p \in Periphs |-> s.energy[p] +
               (IF instant - changedAt[p] < Period THEN Cost[mode[p]] * (instant - changedAt[p])
                ELSE IF s.processed[p] THEN 0 ELSE Cost[mode[p]] * Period)]
  BY <1>1, <1>2 DEF Sample, SampleType
<1>5. Sample.energy = used
  <2>1. used = [p \in Periphs |-> used[p]]
    BY DEF SamplesInv, TraceTypes
  <2> QED  BY <1>3, <1>4, <2>1
<1>6. Sample.stamp = instant
  BY <1>1, <1>2 DEF Sample, SampleType
<1> QED  BY <1>5, <1>6

\* The sample, charged when peripheral p leaves its mode.
First == IF samples = <<>> THEN NewSample(lastMeasure) ELSE Head(samples)
Left(p) == [First EXCEPT !.processed[p] = TRUE,
                         !.energy[p] = @ + (instant - LacksSince(p)) * Cost[mode[p]]]

LEMMA FirstIsSample ==
    ASSUME TraceTypes
    PROVE  First \in SampleType /\ First.stamp = lastMeasure + Period
<1>1. lastMeasure + Period \in Nat
  BY TraceAssumption DEF TraceTypes
<1>2. CASE samples = <<>>
  BY <1>1, <1>2 DEF First, NewSample, SampleType
<1>3. CASE samples # <<>>
  BY <1>3, OneSample DEF First
<1> QED  BY <1>2, <1>3

LEMMA OnePeriod == ASSUME NEW x \in 1 .. Period PROVE (x + Period - 1) \div Period = 1
<1>1. Period \in Nat \ {0}
  BY TraceAssumption
<1>2. x + Period - 1 \in Nat /\ x + Period - 1 >= Period /\ x + Period - 1 < 2 * Period
  BY <1>1
<1>3. PICK y, q, r : y = x + Period - 1 /\ q = y \div Period /\ r = y % Period
  OBVIOUS
<1>4. y \in Nat /\ y >= Period /\ y < 2 * Period
  BY <1>2, <1>3
<1>5. q \in Nat /\ r \in 0 .. Period - 1 /\ y = Period * q + r
  BY <1>1, <1>3, <1>4, Divided
<1>6. q # 0
  BY <1>1, <1>4, <1>5
<1>7. ~(q >= 2)
  <2> SUFFICES ASSUME q >= 2 PROVE FALSE
    OBVIOUS
  <2>1. PICK k : k = q - 2
    OBVIOUS
  <2>2. k \in Nat /\ q = 2 + k
    BY <1>5, <2>1
  <2>3. Period * q = 2 * Period + Period * k /\ Period * k \in Nat
    BY <1>1, <2>2
  <2> QED  BY <1>1, <1>4, <1>5, <2>3
<1> QED  BY <1>3, <1>5, <1>6, <1>7

\* The i-th sample of the charged list, of which the first samples are visited.
ChargedAt(list, p, t, last, num, i) ==
    LET s == IF i <= Len(list) THEN list[i] ELSE NewSample(last + (i - 1) * Period)
        cost == IF last + i * Period < changedAt[p] THEN 0
                ELSE (Earlier(t, last + i * Period) - Begin(p, last + (i - 1) * Period)) * Cost[mode[p]]
    IN  IF i <= num THEN [s EXCEPT !.processed[p] = TRUE, !.energy[p] = @ + cost] ELSE list[i]

LEMMA ChargedIs ==
    ASSUME NEW list, NEW p, NEW t, NEW last, NEW num, num = (t - last + Period - 1) \div Period
    PROVE  Charged(list, p, t, last) =
             [i \in 1 .. Later(num, Len(list)) |-> ChargedAt(list, p, t, last, num, i)]
BY DEF Charged, ChargedAt

LEMMA ListCharged ==
    ASSUME TraceTypes, NEW p \in Periphs
    PROVE  Charged(samples, p, instant, lastMeasure) =
             IF instant > lastMeasure THEN <<Left(p)>> ELSE samples
<1>1. PICK l, t, a, L, num : /\ l = lastMeasure /\ t = instant /\ a = changedAt[p] /\ L = Len(samples)
                           /\ num = (t - l + Period - 1) \div Period
  OBVIOUS
<1>2. /\ l \in Nat /\ t \in Nat /\ Period \in Nat \ {0} /\ a \in Nat
      /\ a <= t /\ l <= t /\ t <= l + Period
  BY <1>1, TraceAssumption DEF TraceTypes
<1>3. (samples = <<>> /\ L = 0) \/ (samples = <<Head(samples)>> /\ L = 1 /\ samples # <<>>)
  BY <1>1, OneSample
<1>4. Charged(samples, p, t, l) = [i \in 1 .. Later(num, L) |-> ChargedAt(samples, p, t, l, num, i)]
  BY ONLY <1>1, ChargedIs
<1>5. CASE t > l
  <2>1. num = 1
    <3>1. PICK x : x = t - l
      OBVIOUS
    <3>2. x \in 1 .. Period
      BY <1>2, <1>5, <3>1
    <3> QED  BY <1>1, <3>1, <3>2, OnePeriod
  <2>2. Later(1, L) = 1
    BY <1>3 DEF Later
  <2>3. l + (1 - 1) * Period = l /\ l + 1 * Period = l + Period
    BY <1>2
  <2>4. ~(l + Period < a) /\ Earlier(t, l + Period) = t
    BY <1>2 DEF Earlier
  <2>5. (IF 1 <= L THEN samples[1] ELSE NewSample(l)) = First
    BY <1>1, <1>3 DEF First
  <2>6. PICK f, h, e : f = First /\ h = Begin(p, l) /\ e = (t - h) * Cost[mode[p]]
    OBVIOUS
  <2>7. Left(p) = [f EXCEPT !.processed[p] = TRUE, !.energy[p] = @ + e]
    BY <1>1, <2>6 DEF Left, LacksSince, Begin
  <2>8. ChargedAt(samples, p, t, l, 1, 1) = [f EXCEPT !.processed[p] = TRUE, !.energy[p] = @ + e]
    <3>1. PICK s, c : /\ s = IF 1 <= L THEN samples[1] ELSE NewSample(l + (1 - 1) * Period)
                      /\ c = IF l + 1 * Period < a THEN 0
                             ELSE (Earlier(t, l + 1 * Period) - Begin(p, l + (1 - 1) * Period)) * Cost[mode[p]]
      OBVIOUS
    <3>2. ChargedAt(samples, p, t, l, 1, 1) = [s EXCEPT !.processed[p] = TRUE, !.energy[p] = @ + c]
      BY ONLY <1>1, <3>1, 1 <= 1 DEF ChargedAt
    <3>3. s = f
      BY ONLY <2>3, <2>5, <2>6, <3>1
    <3>4. c = e
      BY ONLY <2>3, <2>4, <2>6, <3>1
    <3> QED  BY ONLY <3>2, <3>3, <3>4
  <2>9. \A i \in 1 .. 1 : ChargedAt(samples, p, t, l, 1, i) = Left(p)
    BY <2>7, <2>8
  <2>10. [i \in 1 .. 1 |-> ChargedAt(samples, p, t, l, 1, i)] = [i \in 1 .. 1 |-> Left(p)]
    BY <2>9
  <2>11. [i \in 1 .. 1 |-> Left(p)] = <<Left(p)>>
    OBVIOUS
  <2> QED  BY <1>1, <1>4, <1>5, <2>1, <2>2, <2>10, <2>11
<1>6. CASE ~(t > l)
  <2>1. t = l /\ t - l + Period - 1 = Period - 1
    BY <1>2, <1>6
  <2>2. num = 0
    BY <1>1, <1>2, <2>1
  <2>3. Later(0, L) = L
    BY <1>3 DEF Later
  <2>4. \A i \in 1 .. L : ChargedAt(samples, p, t, l, 0, i) = samples[i]
    BY <1>3 DEF ChargedAt
  <2>5. Charged(samples, p, t, l) = [i \in 1 .. L |-> samples[i]]
    BY <1>4, <2>2, <2>3, <2>4
  <2>6. [i \in 1 .. L |-> samples[i]] = samples
    <3>1. CASE samples = <<>> /\ L = 0
      BY <3>1
    <3>2. CASE samples # <<>>
      <4>1. PICK h : h = Head(samples)
        OBVIOUS
      <4>2. samples = <<h>> /\ L = 1
        BY <1>3, <3>2, <4>1
      <4>3. [i \in 1 .. 1 |-> <<h>>[i]] = <<h>>
        OBVIOUS
      <4> QED  BY <4>2, <4>3
    <3> QED  BY <1>3, <3>1, <3>2
  <2> QED  BY <1>1, <1>6, <2>5, <2>6
<1> QED  BY <1>5, <1>6

LEMMA ChangeModeKeeps ==
    ASSUME SamplesInv, NEW p \in Periphs, NEW m \in Modes, ChangeMode(p, m)
    PROVE  SamplesInv'
<1>1. /\ mode' = [mode EXCEPT ![p] = m] /\ changedAt' = [changedAt EXCEPT ![p] = instant]
      /\ UNCHANGED <<instant, lastMeasure, used>>
  BY DEF ChangeMode
<1>2. /\ instant \in Nat /\ lastMeasure \in Nat /\ Period \in Nat \ {0} /\ lastMeasure <= instant
      /\ changedAt[p] \in Nat /\ changedAt[p] <= instant
  BY TraceAssumption DEF SamplesInv, TraceTypes
<1>3. changedAt'[p] = instant /\ LacksSince(p)' = instant
  BY <1>1, <1>2 DEF SamplesInv, TraceTypes, LacksSince, Later
<1>4. \A q \in Periphs : q # p => /\ changedAt'[q] = changedAt[q] /\ mode'[q] = mode[q]
                                 /\ LacksSince(q)' = LacksSince(q)
  BY <1>1 DEF SamplesInv, TraceTypes, LacksSince
<1>5. /\ mode' \in [Periphs -> Modes] /\ changedAt' \in [Periphs -> Nat]
      /\ \A q \in Periphs : changedAt'[q] <= instant
  BY <1>1, <1>2, <1>3, <1>4 DEF SamplesInv, TraceTypes
<1>6. Cost[mode'[p]] * (instant - instant) = 0
  <2>1. mode'[p] \in Modes
    BY <1>5
  <2>2. Cost[mode'[p]] \in Nat
    BY <2>1, TraceAssumption
  <2> QED  BY <1>2, <2>2
<1>7. CASE instant > changedAt[p] /\ instant > lastMeasure
  <2>1. samples' = <<Left(p)>>
    BY <1>7, ListCharged DEF ChangeMode, SamplesInv
  <2>2. PICK f, c, x : f = First /\ c = Cost[mode[p]] /\ x = (instant - LacksSince(p)) * c
    OBVIOUS
  <2>3. f \in SampleType /\ f.stamp = lastMeasure + Period
    BY <2>2, FirstIsSample DEF SamplesInv
  <2>4. c \in Nat /\ instant - LacksSince(p) \in Nat
    BY <1>2, <2>2, TraceAssumption DEF SamplesInv, TraceTypes, LacksSince, Later
  <2>5. x \in Nat
    BY <2>2, <2>4
  <2>6. PICK g : g = [f EXCEPT !.processed[p] = TRUE, !.energy[p] = @ + x]
    OBVIOUS
  <2>7. samples' = <<g>>
    BY <2>1, <2>2, <2>6 DEF Left
  <2>8. /\ g \in SampleType /\ g.stamp = lastMeasure + Period
        /\ g.processed[p] /\ g.energy[p] = f.energy[p] + x
        /\ \A q \in Periphs : q # p => g.processed[q] = f.processed[q] /\ g.energy[q] = f.energy[q]
    <3>1. f.energy \in [Periphs -> Nat] /\ f.processed \in [Periphs -> BOOLEAN] /\ f.stamp \in Nat
      BY <2>3 DEF SampleType
    <3>2. f = [stamp |-> f.stamp, energy |-> f.energy, processed |-> f.processed]
      BY <2>3 DEF SampleType
    <3>3. PICK u, v : u = [f.energy EXCEPT ![p] = @ + x] /\ v = [f.processed EXCEPT ![p] = TRUE]
      OBVIOUS
    <3>4. g = [stamp |-> f.stamp, energy |-> u, processed |-> v]
      BY ONLY <2>6, <3>2, <3>3
    <3>5. /\ u \in [Periphs -> Nat] /\ u[p] = f.energy[p] + x
          /\ \A q \in Periphs : q # p => u[q] = f.energy[q]
      BY ONLY <2>5, <3>1, <3>3, p \in Periphs
    <3>6. /\ v \in [Periphs -> BOOLEAN] /\ v[p]
          /\ \A q \in Periphs : q # p => v[q] = f.processed[q]
      BY ONLY <3>1, <3>3, p \in Periphs
    <3>7. g.stamp = f.stamp /\ g.energy = u /\ g.processed = v
      BY ONLY <3>4
    <3>8. g \in SampleType
      BY ONLY <3>1, <3>4, <3>5, <3>6 DEF SampleType
    <3> QED  BY ONLY <2>3, <3>5, <3>6, <3>7, <3>8
  <2>9. /\ \A q \in Periphs : f.energy[q] = Charge(q)
        /\ \A q \in Periphs : f.processed[q] <=> samples # <<>> /\ Head(samples).processed[q]
    BY <2>2 DEF First, NewSample, Charge
  <2>10. samples' # <<>> /\ Head(samples') = g
    BY <2>7
  <2>11. \A q \in Periphs : Charge(q)' = g.energy[q]
    BY <2>10 DEF Charge
  <2>12. TraceTypes'
    <3>1. \E s \in SampleType : samples' = <<s>> /\ s.stamp = lastMeasure' + Period
      BY <1>1, <2>7, <2>8
    <3> QED  BY <1>1, <1>5, <3>1 DEF SamplesInv, TraceTypes
  <2>13. ASSUME NEW q \in Periphs PROVE ChargedOf(q)'
    <3>1. CASE q = p
      <4>1. used[p] = Charge(p) + (c * (instant - LacksSince(p)))
        BY <2>2 DEF SamplesInv, ChargedOf
      <4>2. c * (instant - LacksSince(p)) = x
        BY <2>2, <2>4
      <4>3. used[p] \in Nat
        BY DEF SamplesInv, TraceTypes
      <4>4. used'[p] = Charge(p)' + (Cost[mode'[p]] * (instant' - LacksSince(p)'))
        <5>1. used[p] = Charge(p)'
          BY <2>8, <2>9, <2>11, <4>1, <4>2
        <5> QED  BY <1>1, <1>3, <1>6, <4>3, <5>1
      <4>5. changedAt'[p] > lastMeasure'
        BY <1>1, <1>3, <1>7
      <4>6. lastMeasure' \in Nat /\ changedAt'[p] \in Nat
        BY <1>1, <1>2, <1>3
      <4> QED  BY <2>8, <2>10, <3>1, <4>4, <4>5, <4>6 DEF ChargedOf
    <3>2. CASE q # p
      <4>1. ChargedOf(q)
        BY DEF SamplesInv
      <4>2. Charge(q)' = Charge(q)
        BY <2>8, <2>9, <2>11, <3>2
      <4>3. g.processed[q] <=> samples # <<>> /\ Head(samples).processed[q]
        BY <2>8, <2>9, <3>2
      <4> QED  BY <1>1, <1>4, <2>10, <3>2, <4>1, <4>2, <4>3 DEF ChargedOf
    <3> QED  BY <3>1, <3>2
  <2> QED  BY <2>12, <2>13 DEF SamplesInv
<1>8. CASE ~(instant > changedAt[p] /\ instant > lastMeasure)
  <2>1. samples' = samples
    <3>1. CASE instant > changedAt[p]
      BY <1>8, <3>1, ListCharged DEF ChangeMode, SamplesInv
    <3>2. CASE ~(instant > changedAt[p])
      BY <3>2 DEF ChangeMode
    <3> QED  BY <3>1, <3>2
  <2>2. \A q \in Periphs : Charge(q)' = Charge(q)
    BY <2>1 DEF Charge
  <2>3. TraceTypes'
    BY <1>1, <1>5, <2>1 DEF SamplesInv, TraceTypes
  <2>4. ASSUME NEW q \in Periphs PROVE ChargedOf(q)'
    <3>1. CASE q = p
      <4>1. LacksSince(p) = instant
        BY <1>2, <1>8 DEF LacksSince, Later
      <4>2. used[p] = Charge(p) + (Cost[mode[p]] * (instant - instant))
        BY <4>1 DEF SamplesInv, ChargedOf
      <4>3. Cost[mode[p]] * (instant - instant) = 0
        BY <1>2, TraceAssumption DEF SamplesInv, TraceTypes
      <4>4. used'[p] = Charge(p)' + (Cost[mode'[p]] * (instant' - LacksSince(p)'))
        BY <1>1, <1>3, <1>6, <2>2, <4>2, <4>3
      <4>5. changedAt'[p] > lastMeasure' <=> changedAt[p] > lastMeasure
        BY <1>1, <1>2, <1>3, <1>8
      <4>6. changedAt'[p] <= lastMeasure' <=> changedAt[p] <= lastMeasure
        BY <1>1, <1>2, <1>3, <4>5
      <4> QED  BY <2>1, <2>2, <3>1, <4>4, <4>5, <4>6 DEF SamplesInv, ChargedOf
    <3>2. CASE q # p
      BY <1>1, <1>4, <2>1, <2>2, <3>2 DEF SamplesInv, ChargedOf
    <3> QED  BY <3>1, <3>2
  <2> QED  BY <2>3, <2>4 DEF SamplesInv
<1> QED  BY <1>7, <1>8

LEMMA TriggerKeeps == ASSUME SamplesInv, Trigger PROVE SamplesInv'
<1>1. /\ instant = lastMeasure + Period /\ lastMeasure' = instant
      /\ used' = [p \in Periphs |-> 0]
      /\ UNCHANGED <<instant, mode, changedAt>>
  BY SampleIsUsed DEF Trigger
<1>2. samples' = <<>>
  BY OneSample DEF Trigger, SamplesInv
<1>3. Period \in Nat \ {0} /\ instant \in Nat
  BY TraceAssumption DEF SamplesInv, TraceTypes
<1>4. TraceTypes'
  BY <1>1, <1>2, <1>3 DEF SamplesInv, TraceTypes
<1>5. ASSUME NEW p \in Periphs PROVE ChargedOf(p)'
  <2>1. changedAt[p] \in Nat /\ changedAt[p] <= instant /\ Cost[mode[p]] \in Nat
    BY TraceAssumption DEF SamplesInv, TraceTypes
  <2>2. LacksSince(p)' = instant /\ Charge(p)' = 0
    BY <1>1, <1>2, <1>3, <2>1 DEF LacksSince, Later, Charge
  <2>3. used'[p] = 0 /\ Cost[mode'[p]] * (instant' - instant) = 0
    BY <1>1, <1>3, <2>1
  <2>4. ~(changedAt'[p] > lastMeasure')
    BY <1>1, <1>3, <2>1
  <2> QED  BY <1>1, <1>2, <2>2, <2>3, <2>4 DEF ChargedOf
<1> QED  BY <1>4, <1>5 DEF SamplesInv

LEMMA TimeKeeps == ASSUME SamplesInv, TimePasses PROVE SamplesInv'
<1>1. /\ instant < lastMeasure + Period /\ instant' = instant + 1
      /\ used' = [p \in Periphs |-> used[p] + Cost[mode[p]]]
      /\ UNCHANGED <<mode, changedAt, samples, lastMeasure>>
  BY DEF TimePasses
<1>2. Period \in Nat \ {0} /\ instant \in Nat /\ lastMeasure \in Nat
  BY TraceAssumption DEF SamplesInv, TraceTypes
<1>3. \A p \in Periphs : Cost[mode[p]] \in Nat /\ used[p] \in Nat /\ changedAt[p] \in Nat /\ changedAt[p] <= instant
  BY TraceAssumption DEF SamplesInv, TraceTypes
<1>4. TraceTypes'
  <2>1. used' \in [Periphs -> Nat] /\ instant' \in Nat /\ instant' <= lastMeasure' + Period /\ lastMeasure' <= instant'
    BY <1>1, <1>2, <1>3 DEF SamplesInv, TraceTypes
  <2>2. \A p \in Periphs : changedAt'[p] <= instant'
    BY <1>1, <1>2, <1>3
  <2> QED  BY <1>1, <2>1, <2>2 DEF SamplesInv, TraceTypes
<1>5. ASSUME NEW p \in Periphs PROVE ChargedOf(p)'
  <2>1. PICK c, s, h : c = Cost[mode[p]] /\ s = LacksSince(p) /\ h = Charge(p)
    OBVIOUS
  <2>2. c \in Nat /\ s \in Nat /\ s <= instant
    BY <1>2, <1>3, <2>1 DEF SamplesInv, TraceTypes, LacksSince, Later
  <2>3. used[p] = h + (c * (instant - s))
    BY <2>1 DEF SamplesInv, ChargedOf
  <2>4. c * ((instant + 1) - s) = c * (instant - s) + c /\ c * (instant - s) \in Nat
    <3>1. PICK d : d = instant - s
      OBVIOUS
    <3>2. d \in Nat /\ (instant + 1) - s = d + 1
      BY <1>2, <2>2, <3>1
    <3>3. c * (d + 1) = c * d + c /\ c * d \in Nat
      BY <2>2, <3>2
    <3> QED  BY <3>1, <3>2, <3>3
  <2>5. used'[p] = used[p] + c
    BY <1>1, <2>1
  <2>6. h \in Int
    <3>1. CASE samples = <<>>
      BY <2>1, <3>1 DEF Charge
    <3>2. CASE samples # <<>>
      BY <2>1, <3>2, OneSample DEF Charge, SamplesInv, SampleType
    <3> QED  BY <3>1, <3>2
  <2>7. used'[p] = h + (c * ((instant + 1) - s))
    BY <2>2, <2>3, <2>4, <2>5, <2>6
  <2>8. LacksSince(p)' = s /\ Charge(p)' = h
    BY <1>1, <2>1 DEF LacksSince, Charge
  <2> QED  BY <1>1, <2>1, <2>7, <2>8 DEF SamplesInv, ChargedOf
<1> QED  BY <1>4, <1>5 DEF SamplesInv

LEMMA SamplesStep == SamplesInv /\ [TraceNext]_traceVars => SamplesInv'
<1> SUFFICES ASSUME SamplesInv, [TraceNext]_traceVars PROVE SamplesInv'
  OBVIOUS
<1>1. CASE \E p \in Periphs, m \in Modes : ChangeMode(p, m)
  BY <1>1, ChangeModeKeeps
<1>2. CASE Trigger
  BY <1>2, TriggerKeeps
<1>3. CASE TimePasses
  BY <1>3, TimeKeeps
<1>4. CASE UNCHANGED <<instant, mode, changedAt, samples, lastMeasure, used>>
  BY <1>4 DEF SamplesInv, TraceTypes, ChargedOf, Charge, LacksSince
<1>5. StartMeasure \/ StopMeasure \/ UNCHANGED traceVars
        => UNCHANGED <<instant, mode, changedAt, samples, lastMeasure, used>>
  BY DEF StartMeasure, StopMeasure, traceVars
<1> QED  BY <1>1, <1>2, <1>3, <1>4, <1>5 DEF TraceNext
-----------------------------------------------------------------------------
(* The rolling average.  The history holds the last samples, the oldest of *)
(* them at index when it is full: the average is that of recent.           *)

\* The place in the history of the j-th of the last samples that end before index i.
Place(i, num, j) == LET k == i + HistorySize - num + j - 1
                  IN  IF k < HistorySize THEN k ELSE k - HistorySize

\* History h, in which sample i is next, holds the samples s.
Holds(h, i, s) ==
    /\ h \in [0 .. HistorySize - 1 -> Nat] /\ i \in 0 .. HistorySize - 1
    /\ s \in Seq(Nat) /\ Len(s) <= HistorySize
    /\ Len(s) < HistorySize => i = Len(s)
    /\ \A j \in 1 .. Len(s) : s[j] = h[Place(i, Len(s), j)]

RollInv ==
    /\ Holds(history, index, recent)
    /\ full \in BOOLEAN
    /\ full <=> Len(recent) >= HistorySize - 1
    /\ recent # <<>> => average = SumFunction(recent) \div Len(recent)

LEMMA AfterLast ==
    ASSUME NEW i \in 0 .. HistorySize - 1
    PROVE  (i + 1) % HistorySize = IF i + 1 = HistorySize THEN 0 ELSE i + 1
<1>1. HistorySize \in Nat \ {0, 1}
  BY TraceAssumption
<1>2. CASE i + 1 = HistorySize
  BY <1>1, <1>2
<1>3. CASE i + 1 # HistorySize
  <2>1. i + 1 \in 0 .. HistorySize - 1
    BY <1>1, <1>3
  <2> QED  BY <1>1, <1>3, <2>1
<1> QED  BY <1>2, <1>3

\* The last samples, at most HistorySize, when x follows s.
NewestOf(s, x) == SubSeq(Append(s, x), Later(1, Len(Append(s, x)) - HistorySize + 1), Len(Append(s, x)))

Longer(r, s, x) ==
    /\ Len(r) = Len(s) + 1 /\ r[Len(s) + 1] = x
    /\ \A j \in 1 .. Len(s) : r[j] = s[j]
Shifted(r, s, x) ==
    /\ Len(r) = Len(s) /\ r[Len(s)] = x
    /\ \A j \in 1 .. Len(s) - 1 : r[j] = s[j + 1]

LEMMA LastSamples ==
    ASSUME NEW s \in Seq(Nat), NEW x \in Nat, Len(s) <= HistorySize, HistorySize \in Nat \ {0, 1}
    PROVE  /\ NewestOf(s, x) \in Seq(Nat)
           /\ Len(s) < HistorySize => Longer(NewestOf(s, x), s, x)
           /\ Len(s) = HistorySize => Shifted(NewestOf(s, x), s, x)
<1>1. PICK t, num : t = Append(s, x) /\ num = Len(s)
  OBVIOUS
<1>2. /\ num \in Nat /\ t \in Seq(Nat) /\ Len(t) = num + 1 /\ t[num + 1] = x
      /\ \A j \in 1 .. num : t[j] = s[j]
  BY <1>1
<1>3. PICK e, d, r : e = Len(t) /\ d = Later(1, e - HistorySize + 1) /\ r = SubSeq(t, d, e)
  OBVIOUS
<1>4. NewestOf(s, x) = r
  BY ONLY <1>1, <1>3 DEF NewestOf
<1>5. e = num + 1
  BY ONLY <1>2, <1>3
<1>6. CASE num < HistorySize
  <2>1. d = 1
    BY <1>2, <1>3, <1>6, <1>5 DEF Later
  <2>2. r = SubSeq(t, 1, num + 1)
    BY ONLY <1>3, <1>5, <2>1
  <2>3. r \in Seq(Nat) /\ Len(r) = num + 1 /\ \A j \in 1 .. num + 1 : r[j] = t[j]
    BY ONLY <1>2, <2>2
  <2>4. r[num + 1] = x /\ \A j \in 1 .. num : r[j] = s[j]
    BY ONLY <1>2, <2>3
  <2>5. num # HistorySize
    BY <1>2, <1>6
  <2>6. Longer(r, s, x)
    BY ONLY <1>1, <2>3, <2>4 DEF Longer
  <2> QED  BY ONLY <1>1, <1>4, <2>3, <2>5, <2>6
<1>7. CASE num = HistorySize
  <2>1. d = 2
    BY <1>2, <1>3, <1>7, <1>5 DEF Later
  <2>2. r = SubSeq(t, 2, num + 1)
    BY ONLY <1>3, <1>5, <2>1
  <2>3. r \in Seq(Nat) /\ Len(r) = num /\ \A j \in 1 .. num : r[j] = t[j + 1]
    <3>1. num \in Nat /\ num + 1 - 2 + 1 = num /\ 2 \in 1 .. num + 1
      BY ONLY <1>7, HistorySize \in Nat \ {0, 1}
    <3>2. t \in Seq(Nat) /\ Len(t) = num + 1
      BY ONLY <1>2
    <3>3. \A j \in 2 .. num + 1 : t[j] \in Nat
      BY ONLY <3>1, <3>2
    <3>4. PICK b, z : b = 2 /\ z = num + 1
      OBVIOUS
    <3>5. b \in Int /\ z \in Int /\ b <= z /\ z - b + 1 = num /\ r = SubSeq(t, b, z)
      BY ONLY <2>2, <3>1, <3>4
    <3>6. \A j \in b .. z : t[j] \in Nat
      BY ONLY <3>3, <3>4
    <3>7. /\ r \in Seq(Nat) /\ Len(r) = z - b + 1
          /\ \A j \in 1 .. z - b + 1 : r[j] = t[b + j - 1]
      BY ONLY <3>5, <3>6, SubSeqProperties
    <3>8. \A j \in 1 .. num : b + j - 1 = j + 1
      BY ONLY <3>1, <3>4
    <3> QED  BY ONLY <3>5, <3>7, <3>8
  <2>4. r[num] = x /\ \A j \in 1 .. num - 1 : r[j] = s[j + 1]
    BY ONLY <1>2, <1>7, <2>3, HistorySize \in Nat \ {0, 1}
  <2>5. ~(num < HistorySize)
    BY <1>2, <1>7
  <2>6. Shifted(r, s, x)
    BY ONLY <1>1, <2>3, <2>4 DEF Shifted
  <2> QED  BY ONLY <1>1, <1>4, <2>3, <2>5, <2>6
<1> QED  BY <1>1, <1>2, <1>6, <1>7

LEMMA PlaceIs ==
    ASSUME NEW H \in Nat \ {0, 1}, H = HistorySize, NEW num \in 0 .. H, NEW i \in 0 .. H - 1,
           NEW j \in 1 .. num, num < H => i = num
    PROVE  /\ num < H => Place(i, num, j) = j - 1
           /\ num = H => Place(i, num, j) = IF i + j - 1 < H THEN i + j - 1 ELSE i + j - 1 - H
<1>1. PICK k : k = i + H - num + j - 1
  OBVIOUS
<1>2. Place(i, num, j) = IF k < H THEN k ELSE k - H
  BY <1>1 DEF Place
<1>3. CASE num < H
  <2>1. k = H + (j - 1)
    BY <1>1, <1>3
  <2> QED  BY <1>2, <1>3, <2>1
<1>4. CASE num = H
  <2>1. k = i + j - 1
    BY <1>1, <1>4
  <2> QED  BY <1>2, <1>4, <2>1
<1> QED  BY <1>3, <1>4

LEMMA HistoryRolls ==
    ASSUME NEW h, NEW i, NEW s, Holds(h, i, s), NEW x \in Nat
    PROVE  /\ Holds([h EXCEPT ![i] = x], (i + 1) % HistorySize, NewestOf(s, x))
           /\ Len(NewestOf(s, x)) = IF Len(s) < HistorySize THEN Len(s) + 1 ELSE HistorySize
<1>1. PICK g, k, r, num, H : /\ g = [h EXCEPT ![i] = x] /\ k = (i + 1) % HistorySize
                           /\ r = NewestOf(s, x) /\ num = Len(s) /\ H = HistorySize
  OBVIOUS
<1>2. H \in Nat \ {0, 1}
  BY <1>1, TraceAssumption
<1>3. /\ h \in [0 .. H - 1 -> Nat] /\ i \in 0 .. H - 1 /\ num \in 0 .. H /\ s \in Seq(Nat)
      /\ (num < H => i = num)
      /\ \A j \in 1 .. num : s[j] = h[Place(i, num, j)]
  BY <1>1, <1>2 DEF Holds
<1>4. /\ g \in [0 .. H - 1 -> Nat] /\ g[i] = x
      /\ \A q \in 0 .. H - 1 : q # i => g[q] = h[q]
  BY ONLY <1>1, <1>2, <1>3, x \in Nat
<1>5. k = (IF i + 1 = H THEN 0 ELSE i + 1) /\ k \in 0 .. H - 1
  BY <1>1, <1>2, <1>3, AfterLast
<1>6. CASE num < H
  <2>1. /\ r \in Seq(Nat) /\ Len(r) = num + 1 /\ r[num + 1] = x /\ \A j \in 1 .. num : r[j] = s[j]
    <3>1. Len(s) <= HistorySize /\ HistorySize \in Nat \ {0, 1} /\ Len(s) < HistorySize
      BY ONLY <1>1, <1>2, <1>3, <1>6
    <3>2. s \in Seq(Nat)
      BY ONLY <1>3
    <3>3. r \in Seq(Nat) /\ Longer(r, s, x)
      BY ONLY <1>1, <3>1, <3>2, x \in Nat, LastSamples
    <3> QED  BY ONLY <1>1, <3>3 DEF Longer
  <2>2. num + 1 <= H /\ (num + 1 < H => k = num + 1)
    BY ONLY <1>2, <1>3, <1>5, <1>6
  <2>3. ASSUME NEW j \in 1 .. num + 1 PROVE r[j] = g[Place(k, num + 1, j)]
    <3>1. Place(k, num + 1, j) = j - 1
      <4>1. CASE num + 1 = H
        <5>1. /\ H = HistorySize /\ num + 1 \in 0 .. H /\ k \in 0 .. H - 1 /\ ~(num + 1 < H)
              /\ k = 0 /\ k + j - 1 = j - 1 /\ j - 1 < H
          BY ONLY <1>1, <1>2, <1>3, <1>5, <1>6, <4>1, j \in 1 .. num + 1
        <5> QED  BY ONLY <1>2, <4>1, <5>1, j \in 1 .. num + 1, PlaceIs
      <4>2. CASE num + 1 < H
        <5>1. H = HistorySize /\ num + 1 \in 0 .. H /\ k \in 0 .. H - 1 /\ k = num + 1
          BY ONLY <1>1, <1>2, <1>3, <1>5, <2>2, <4>2
        <5> QED  BY ONLY <1>2, <4>2, <5>1, j \in 1 .. num + 1, PlaceIs
      <4> QED  BY <1>2, <1>3, <1>6, <4>1, <4>2
    <3>2. CASE j = num + 1
      BY ONLY <1>3, <1>4, <1>6, <2>1, <3>1, <3>2
    <3>3. CASE j # num + 1
      <4>1. j \in 1 .. num /\ j - 1 \in 0 .. H - 1 /\ j - 1 # i
        BY ONLY <1>2, <1>3, <1>6, <3>3, j \in 1 .. num + 1
      <4>2. Place(i, num, j) = j - 1
        <5>1. H = HistorySize /\ num \in 0 .. H /\ i \in 0 .. H - 1 /\ i = num
          BY ONLY <1>1, <1>3, <1>6
        <5> QED  BY ONLY <1>2, <1>6, <4>1, <5>1, PlaceIs
      <4> QED  BY ONLY <1>3, <1>4, <2>1, <3>1, <4>1, <4>2
    <3> QED  BY <3>2, <3>3
  <2>4. Holds(g, k, r)
    BY ONLY <1>1, <1>4, <1>5, <2>1, <2>2, <2>3 DEF Holds
  <2> QED  BY ONLY <1>1, <1>6, <2>1, <2>4
<1>7. CASE num = H
  <2>1. /\ r \in Seq(Nat) /\ Len(r) = H /\ r[H] = x /\ \A j \in 1 .. H - 1 : r[j] = s[j + 1]
    <3>1. Len(s) <= HistorySize /\ HistorySize \in Nat \ {0, 1} /\ Len(s) = HistorySize
      BY ONLY <1>1, <1>2, <1>3, <1>7
    <3>2. s \in Seq(Nat)
      BY ONLY <1>3
    <3>3. r \in Seq(Nat) /\ Shifted(r, s, x)
      BY ONLY <1>1, <3>1, <3>2, x \in Nat, LastSamples
    <3> QED  BY ONLY <1>1, <1>7, <3>3 DEF Shifted
  <2>2. ASSUME NEW j \in 1 .. H PROVE r[j] = g[Place(k, H, j)]
    <3>1. CASE j = H
      <4>1. Place(k, H, j) = i
        <5>1. H = HistorySize /\ H \in 0 .. H /\ ~(H < H) /\ H \in 1 .. H
          BY ONLY <1>1, <1>2
        <5>2. Place(k, H, H) = IF k + H - 1 < H THEN k + H - 1 ELSE k + H - 1 - H
          BY ONLY <1>2, <1>5, <5>1, PlaceIs
        <5>3. (IF k + H - 1 < H THEN k + H - 1 ELSE k + H - 1 - H) = i
          <6>1. CASE i + 1 = H
            BY ONLY <1>2, <1>3, <1>5, <6>1
          <6>2. CASE i + 1 # H
            BY ONLY <1>2, <1>3, <1>5, <6>2
          <6> QED  BY ONLY <6>1, <6>2
        <5> QED  BY ONLY <3>1, <5>2, <5>3
      <4> QED  BY ONLY <1>4, <2>1, <3>1, <4>1
    <3>2. CASE j # H
      <4>1. /\ j \in 1 .. H - 1 /\ j + 1 \in 1 .. num
            /\ Place(k, H, j) = Place(i, num, j + 1)
            /\ Place(k, H, j) \in 0 .. H - 1 /\ Place(k, H, j) # i
        <5>1. j \in 1 .. H - 1 /\ j + 1 \in 1 .. num /\ j + 1 \in 1 .. H /\ i + (j + 1) - 1 = i + j
          BY ONLY <1>2, <1>3, <1>7, <3>2, j \in 1 .. H
        <5>2. H = HistorySize /\ H \in 0 .. H /\ ~(H < H)
          BY ONLY <1>1, <1>2
        <5>3. Place(k, H, j) = IF k + j - 1 < H THEN k + j - 1 ELSE k + j - 1 - H
          BY ONLY <1>2, <1>5, <5>2, j \in 1 .. H, PlaceIs
        <5>4. Place(i, H, j + 1) = IF i + j < H THEN i + j ELSE i + j - H
          <6>1. PICK b : b = j + 1
            OBVIOUS
          <6>2. b \in 1 .. H /\ i + b - 1 = i + j /\ i \in 0 .. H - 1
            BY ONLY <1>3, <5>1, <6>1
          <6>3. Place(i, H, b) = IF i + b - 1 < H THEN i + b - 1 ELSE i + b - 1 - H
            BY ONLY <1>2, <5>2, <6>2, PlaceIs
          <6> QED  BY ONLY <6>1, <6>2, <6>3
        <5>5. Place(k, H, j) = Place(i, H, j + 1)
          <6>1. PICK a, b : a = Place(k, H, j) /\ b = Place(i, H, j + 1)
            OBVIOUS
          <6>2. H \in Nat /\ i \in 0 .. H - 1 /\ j \in 1 .. H - 1
            BY ONLY <1>2, <1>3, <5>1
          <6>3. CASE i + 1 = H
            <7>1. k = 0 /\ a = j - 1 /\ b = i + j - H
              BY ONLY <1>5, <5>3, <5>4, <6>1, <6>2, <6>3
            <7> QED  BY ONLY <6>1, <6>2, <6>3, <7>1
          <6>4. CASE i + 1 # H
            <7>1. k = i + 1 /\ k + j - 1 = i + j
              BY ONLY <1>5, <6>2, <6>4
            <7>2. k + j - 1 - H = i + j - H
              BY ONLY <6>2, <7>1
            <7> QED  BY ONLY <5>3, <5>4, <7>1, <7>2
          <6> QED  BY ONLY <6>3, <6>4
        <5>6. Place(k, H, j) \in 0 .. H - 1 /\ Place(k, H, j) # i
          <6>1. PICK a : a = Place(k, H, j)
            OBVIOUS
          <6>2. a = IF i + j < H THEN i + j ELSE i + j - H
            BY ONLY <5>4, <5>5, <6>1
          <6>3. H \in Nat /\ i \in 0 .. H - 1 /\ j \in 1 .. H - 1
            BY ONLY <1>2, <1>3, <5>1
          <6>4. a \in 0 .. H - 1 /\ a # i
            BY ONLY <6>2, <6>3
          <6> QED  BY ONLY <6>1, <6>4
        <5> QED  BY ONLY <1>7, <5>1, <5>5, <5>6
      <4>2. r[j] = s[j + 1]
        BY ONLY <2>1, <4>1
      <4>3. s[j + 1] = h[Place(k, H, j)]
        BY ONLY <1>3, <4>1
      <4>4. g[Place(k, H, j)] = h[Place(k, H, j)]
        BY ONLY <1>4, <4>1
      <4> QED  BY ONLY <4>2, <4>3, <4>4
    <3> QED  BY <3>1, <3>2
  <2>3. Holds(g, k, r)
    BY ONLY <1>1, <1>2, <1>4, <1>5, <2>1, <2>2 DEF Holds
  <2>4. ~(num < H)
    BY <1>2, <1>7
  <2> QED  BY ONLY <1>1, <2>1, <2>3, <2>4
<1> QED  BY <1>2, <1>3, <1>6, <1>7

LEMMA HistorySum ==
    ASSUME NEW h, NEW i, NEW s, Holds(h, i, s)
    PROVE  SumFunction([q \in 0 .. Len(s) - 1 |-> h[q]]) = SumFunction(s)
<1>1. PICK num, H, g, m : /\ num = Len(s) /\ H = HistorySize /\ g = [q \in 0 .. num - 1 |-> h[q]]
                        /\ m = [j \in 1 .. num |-> Place(i, num, j)]
  OBVIOUS
<1>2. H \in Nat \ {0, 1}
  BY <1>1, TraceAssumption
<1>3. /\ h \in [0 .. H - 1 -> Nat] /\ i \in 0 .. H - 1 /\ num \in 0 .. H /\ s \in Seq(Nat)
      /\ DOMAIN s = 1 .. num /\ (num < H => i = num)
      /\ \A j \in 1 .. num : s[j] = h[Place(i, num, j)] /\ s[j] \in Nat
  BY <1>1, <1>2 DEF Holds
<1>4. ASSUME NEW j \in 1 .. num
      PROVE  /\ m[j] = Place(i, num, j)
             /\ num < H => m[j] = j - 1
             /\ num = H => m[j] = IF i + j - 1 < H THEN i + j - 1 ELSE i + j - 1 - H
  <2>1. m[j] = Place(i, num, j)
    BY <1>1
  <2>2. H = HistorySize /\ num \in 0 .. H /\ i \in 0 .. H - 1
    BY ONLY <1>1, <1>3
  <2>3. num < H => i = num
    BY ONLY <1>3
  <2>4. /\ num < H => Place(i, num, j) = j - 1
        /\ num = H => Place(i, num, j) = IF i + j - 1 < H THEN i + j - 1 ELSE i + j - 1 - H
    BY ONLY <1>2, <2>2, <2>3, j \in 1 .. num, PlaceIs
  <2> QED  BY ONLY <2>1, <2>4
<1>5. ASSUME NEW j \in 1 .. num PROVE m[j] \in 0 .. num - 1
  <2>1. PICK a : a = m[j]
    OBVIOUS
  <2>2. /\ num < H => a = j - 1
        /\ num = H => a = IF i + j - 1 < H THEN i + j - 1 ELSE i + j - 1 - H
    BY ONLY <1>4, <2>1, j \in 1 .. num
  <2>3. H \in Nat /\ num \in 0 .. H /\ i \in 0 .. H - 1
    BY ONLY <1>2, <1>3
  <2> QED  BY ONLY <2>1, <2>2, <2>3, j \in 1 .. num
<1>6. ASSUME NEW a \in 1 .. num, NEW b \in 1 .. num, m[a] = m[b] PROVE a = b
  <2>1. PICK d, e : d = m[a] /\ e = m[b]
    OBVIOUS
  <2>2. /\ num < H => d = a - 1 /\ e = b - 1
        /\ num = H => /\ d = IF i + a - 1 < H THEN i + a - 1 ELSE i + a - 1 - H
                    /\ e = IF i + b - 1 < H THEN i + b - 1 ELSE i + b - 1 - H
    BY ONLY <1>4, <2>1, a \in 1 .. num, b \in 1 .. num
  <2>3. H \in Nat /\ num \in 0 .. H /\ i \in 0 .. H - 1 /\ d = e
    BY ONLY <1>2, <1>3, <1>6, <2>1
  <2> QED  BY ONLY <2>2, <2>3, a \in 1 .. num, b \in 1 .. num
<1>7. \A q \in 0 .. num - 1 : \E j \in 1 .. num : m[j] = q
  <2> SUFFICES ASSUME NEW q \in 0 .. num - 1 PROVE \E j \in 1 .. num : m[j] = q
    OBVIOUS
  <2>1. CASE num < H
    <3>1. q + 1 \in 1 .. num /\ q + 1 - 1 = q
      BY ONLY <1>2, <1>3, q \in 0 .. num - 1
    <3> QED  BY ONLY <1>4, <2>1, <3>1
  <2>2. CASE num = H
    <3>1. PICK j : j = IF q >= i THEN q - i + 1 ELSE q - i + 1 + H
      OBVIOUS
    <3>2. j \in 1 .. num /\ q = IF i + j - 1 < H THEN i + j - 1 ELSE i + j - 1 - H
      BY ONLY <1>2, <1>3, <2>2, <3>1, q \in 0 .. num - 1
    <3> QED  BY ONLY <1>4, <2>2, <3>2
  <2> QED  BY ONLY <1>2, <1>3, <2>1, <2>2
<1>8. {m[j] : j \in 1 .. num} = 0 .. num - 1
  BY ONLY <1>5, <1>7
<1>9. Numbers(s, 1 .. num) /\ IsFiniteSet(1 .. num)
  <2>1. IsFiniteSet(1 .. num)
    BY ONLY <1>3, FS_Interval
  <2> QED  BY ONLY <1>3, <2>1 DEF Numbers
<1>10. Moved(s, 1 .. num, g, m)
  <2>1. \A j \in 1 .. num : g[m[j]] = s[j]
    <3>1. \A q \in 0 .. num - 1 : g[q] = h[q]
      BY <1>1
    <3> QED  BY ONLY <1>3, <1>4, <1>5, <3>1
  <2> QED  BY ONLY <1>6, <2>1 DEF Moved
<1>11. SumOn(s, 1 .. num) = SumOn(g, {m[j] : j \in 1 .. num})
  <2>1. PICK S : S = 1 .. num
    OBVIOUS
  <2>2. SumOn(s, S) = SumOn(g, {m[j] : j \in S})
    <3>1. IsFiniteSet(S) /\ Numbers(s, S) /\ Moved(s, S, g, m)
      BY ONLY <1>9, <1>10, <2>1
    <3> QED  BY ONLY <3>1, SumMoved
  <2> QED  BY ONLY <2>1, <2>2
<1>12. SumFunction(s) = SumOn(s, 1 .. num) /\ SumFunction(g) = SumOn(g, 0 .. num - 1)
  BY <1>1, <1>3 DEF SumFunction, SumOn
<1> QED  BY ONLY <1>1, <1>8, <1>11, <1>12

LEMMA SumUsed ==
    ASSUME SamplesInv
    PROVE  SumFunction(used) \in Nat
<1>1. PICK S : S = Periphs
  OBVIOUS
<1>2. IsFiniteSet(S) /\ Numbers(used, S) /\ DOMAIN used = S
  BY <1>1, TraceAssumption DEF SamplesInv, TraceTypes, Numbers
<1>3. SumOn(used, S) \in Nat
  BY ONLY <1>2, SumIsNumber
<1> QED  BY <1>2, <1>3 DEF SumFunction, SumOn

\* What a trigger adds to the averages: the energy used in the period.
LEMMA Added ==
    ASSUME SamplesInv, Trigger
    PROVE  /\ RollAverage(SumFunction(used)) /\ recent' = NewestOf(recent, SumFunction(used))
           /\ Measure(SumFunction(used))
           /\ section' = IF measure.on THEN Append(section, SumFunction(used)) ELSE section
<1>1. Sample.energy = used
  BY SampleIsUsed DEF Trigger
<1> QED  BY <1>1 DEF Trigger, NewestOf

LEMMA RollKeeps ==
    ASSUME SamplesInv, RollInv, Trigger
    PROVE  RollInv'
<1>1. PICK x, H, num, k : /\ x = SumFunction(used) /\ H = HistorySize /\ num = Len(recent)
                        /\ k = Len(recent')
  OBVIOUS
<1>2. x \in Nat /\ H \in Nat \ {0, 1} /\ num \in 0 .. H
  BY <1>1, SumUsed, TraceAssumption DEF RollInv, Holds
<1>3. RollAverage(x) /\ recent' = NewestOf(recent, x)
  BY <1>1, Added
<1>4. Holds(history', index', recent') /\ k = IF num < H THEN num + 1 ELSE H
  BY <1>1, <1>2, <1>3, HistoryRolls DEF RollAverage, RollInv
<1>5. /\ index \in 0 .. H - 1 /\ (num < H => index = num) /\ full \in BOOLEAN
      /\ (full <=> num >= H - 1)
  BY <1>1 DEF RollInv, Holds
<1>6. index' = (IF index + 1 = H THEN 0 ELSE index + 1) /\ (full' <=> full \/ index' = H - 1)
      /\ full' \in BOOLEAN
  BY <1>1, <1>3, <1>5, AfterLast DEF RollAverage, FullAt
<1>7. full' <=> k >= H - 1
  BY ONLY <1>2, <1>4, <1>5, <1>6
<1>8. k = IF full THEN H ELSE index + 1
  BY ONLY <1>2, <1>4, <1>5
<1>9. average' = SumFunction([i \in 0 .. k - 1 |-> history'[i]]) \div k
  BY ONLY <1>1, <1>3, <1>8 DEF RollAverage
<1>10. SumFunction([i \in 0 .. k - 1 |-> history'[i]]) = SumFunction(recent')
  BY ONLY <1>1, <1>4, HistorySum
<1>11. average' = SumFunction(recent') \div Len(recent')
  BY ONLY <1>1, <1>9, <1>10
<1> QED  BY ONLY <1>1, <1>4, <1>6, <1>7, <1>11 DEF RollInv

-----------------------------------------------------------------------------
(* A measure adds up the samples of its section.                           *)

MeasureInv ==
    /\ section \in Seq(Nat)
    /\ measure \in [on : BOOLEAN, accum : Nat, nbsamp : Nat]
    /\ measure.accum = SumFunction(section) /\ measure.nbsamp = Len(section)

LEMMA SumOfEmpty == SumFunction(<<>>) = 0
<1>1. DOMAIN <<>> = {}
  OBVIOUS
<1>2. SumFunction(<<>>) = SumOn(<<>>, {})
  BY <1>1 DEF SumFunction, SumOn
<1> QED  BY <1>2, SumOfNone

LEMMA MeasureKeeps == ASSUME SamplesInv, MeasureInv, TraceNext PROVE MeasureInv'
<1>1. CASE Trigger
  <2>1. PICK x : x = SumFunction(used)
    OBVIOUS
  <2>2. x \in Nat /\ Measure(x) /\ section' = IF measure.on THEN Append(section, x) ELSE section
    BY <1>1, <2>1, SumUsed, Added
  <2>3. CASE measure.on
    <3>1. PICK s, t : s = section /\ t = section'
      OBVIOUS
    <3>2. s \in Seq(Nat) /\ t = Append(s, x)
      BY <2>2, <2>3, <3>1 DEF MeasureInv
    <3>3. SumFunction(t) = SumFunction(s) + x
      BY ONLY <2>2, <3>2, SumOfAppended
    <3>4. t \in Seq(Nat) /\ Len(t) = Len(s) + 1
      BY ONLY <2>2, <3>2
    <3>5. measure' = [measure EXCEPT !.accum = @ + x, !.nbsamp = @ + 1]
      BY <2>2, <2>3 DEF Measure
    <3>6. /\ measure' \in [on : BOOLEAN, accum : Nat, nbsamp : Nat]
          /\ measure'.accum = measure.accum + x /\ measure'.nbsamp = measure.nbsamp + 1
      <4>1. PICK o, a, num : o = measure.on /\ a = measure.accum /\ num = measure.nbsamp
        OBVIOUS
      <4>2. o \in BOOLEAN /\ a \in Nat /\ num \in Nat /\ measure = [on |-> o, accum |-> a, nbsamp |-> num]
        BY <4>1 DEF MeasureInv
      <4>3. measure' = [on |-> o, accum |-> a + x, nbsamp |-> num + 1]
        BY ONLY <3>5, <4>2
      <4>4. measure' \in [on : BOOLEAN, accum : Nat, nbsamp : Nat]
        BY ONLY <2>2, <4>2, <4>3
      <4> QED  BY <4>1, <4>3, <4>4
    <3> QED  BY <3>1, <3>3, <3>4, <3>6 DEF MeasureInv
  <2>4. CASE ~measure.on
    BY <2>2, <2>4 DEF MeasureInv, Measure
  <2> QED  BY <2>3, <2>4
<1>2. CASE StartMeasure
  <2>1. section' = <<>> /\ measure' = [measure EXCEPT !.on = TRUE, !.accum = 0, !.nbsamp = 0]
    BY <1>2 DEF StartMeasure
  <2>2. /\ measure' \in [on : BOOLEAN, accum : Nat, nbsamp : Nat]
        /\ measure'.accum = 0 /\ measure'.nbsamp = 0
    BY <2>1 DEF MeasureInv
  <2>3. section' \in Seq(Nat) /\ Len(section') = 0 /\ SumFunction(section') = 0
    BY <2>1, SumOfEmpty
  <2> QED  BY <2>2, <2>3 DEF MeasureInv
<1>3. CASE StopMeasure
  BY <1>3 DEF StopMeasure, MeasureInv
<1>4. CASE TimePasses
  BY <1>4 DEF TimePasses, MeasureInv
<1>5. CASE \E p \in Periphs, m \in Modes : ChangeMode(p, m)
  BY <1>5 DEF ChangeMode, MeasureInv
<1> QED  BY <1>1, <1>2, <1>3, <1>4, <1>5 DEF TraceNext

\* Dividing by p and then by num is dividing by their product.
LEMMA TwoDivisions ==
    ASSUME NEW a \in Nat, NEW p \in Nat \ {0}, NEW num \in Nat \ {0}
    PROVE  (a \div p) \div num = a \div (p * num)
<1>1. PICK q, r, u, v, m : /\ q = a \div p /\ r = a % p /\ u = q \div num /\ v = q % num /\ m = p * num
  OBVIOUS
<1>2. q \in Nat /\ r \in 0 .. p - 1 /\ a = p * q + r
  BY <1>1, Divided
<1>3. u \in Nat /\ v \in 0 .. num - 1 /\ q = num * u + v
  BY <1>1, <1>2, Divided
<1>4. m \in Nat \ {0}
  BY <1>1
<1>5. PICK w, z : w = a \div m /\ z = a % m
  OBVIOUS
<1>6. w \in Nat /\ z \in 0 .. m - 1 /\ a = m * w + z
  BY <1>4, <1>5, Divided
<1>7. PICK y : y = p * v + r
  OBVIOUS
<1>8. y \in 0 .. m - 1
  <2>1. p * v \in Nat /\ p * v <= p * (num - 1)
    BY <1>3
  <2>2. p * (num - 1) = m - p
    BY <1>1
  <2> QED  BY <1>2, <1>4, <1>7, <2>1, <2>2
<1>9. a = m * u + y
  <2>1. p * (num * u + v) = m * u + p * v
    BY <1>1, <1>3
  <2> QED  BY <1>2, <1>3, <1>4, <1>7, <2>1
<1>10. u = w
  <2>1. m * u + y = m * w + z
    BY <1>6, <1>9
  <2>2. ASSUME NEW d \in Nat, NEW e \in Nat, d > e PROVE m * d >= m * e + m
    <3>1. PICK f : f = d - e - 1
      OBVIOUS
    <3>2. f \in Nat /\ d = e + 1 + f
      BY <2>2, <3>1
    <3>3. m * d = m * e + m + m * f /\ m * f \in Nat /\ m * e \in Nat
      BY <1>4, <3>2
    <3> QED  BY <1>4, <3>3
  <2>3. m * u \in Nat /\ m * w \in Nat
    BY <1>3, <1>4, <1>6
  <2>4. ~(u > w)
    <3>1. u > w => m * u >= m * w + m
      BY <1>3, <1>6, <2>2
    <3> QED  BY ONLY <1>4, <1>6, <1>8, <2>1, <2>3, <3>1
  <2>5. ~(w > u)
    <3>1. w > u => m * w >= m * u + m
      BY <1>3, <1>6, <2>2
    <3> QED  BY ONLY <1>4, <1>6, <1>8, <2>1, <2>3, <3>1
  <2> QED  BY ONLY <1>3, <1>6, <2>4, <2>5
<1> QED  BY <1>1, <1>5, <1>10

EnergyInv == SamplesInv /\ RollInv /\ MeasureInv

LEMMA EnergyIsKept == ASSUME EnergyInv, [TraceNext]_traceVars PROVE EnergyInv'
<1>1. SamplesInv'
  BY SamplesStep DEF EnergyInv
<1>2. RollInv'
  <2>1. CASE Trigger
    BY <2>1, RollKeeps DEF EnergyInv
  <2>2. CASE UNCHANGED <<history, index, full, average, recent>>
    BY <2>2 DEF EnergyInv, RollInv, Holds
  <2>3. Trigger \/ UNCHANGED <<history, index, full, average, recent>>
    BY DEF TraceNext, ChangeMode, TimePasses, StartMeasure, StopMeasure, traceVars
  <2> QED  BY <2>1, <2>2, <2>3
<1>3. MeasureInv'
  <2>1. CASE TraceNext
    BY <2>1, MeasureKeeps DEF EnergyInv
  <2>2. CASE UNCHANGED traceVars
    BY <2>2 DEF EnergyInv, MeasureInv, traceVars
  <2> QED  BY <2>1, <2>2
<1> QED  BY <1>1, <1>2, <1>3 DEF EnergyInv

LEMMA EnergyFirst == ASSUME TraceInit PROVE EnergyInv
<1>1. SamplesInv
  <2>1. TraceTypes
    BY TraceAssumption DEF TraceInit, TraceTypes
  <2>2. ASSUME NEW p \in Periphs PROVE ChargedOf(p)
    <3>1. Cost[mode[p]] \in Nat
      BY TraceAssumption, <2>1 DEF TraceTypes
    <3>2. LacksSince(p) = 0
      BY DEF TraceInit, LacksSince, Later
    <3>3. Cost[mode[p]] * (0 - 0) = 0
      BY <3>1
    <3> QED  BY <3>2, <3>3 DEF TraceInit, ChargedOf, Charge
  <2> QED  BY <2>1, <2>2 DEF SamplesInv
<1>2. RollInv
  <2>1. HistorySize \in Nat \ {0, 1}
    BY TraceAssumption
  <2>2. history \in [0 .. HistorySize - 1 -> Nat] /\ index = 0 /\ recent = <<>> /\ full = FALSE
    BY DEF TraceInit
  <2>3. recent \in Seq(Nat) /\ Len(recent) = 0 /\ 1 .. 0 = {}
    BY <2>2
  <2>4. Holds(history, index, recent)
    BY ONLY <2>1, <2>2, <2>3 DEF Holds
  <2>5. ~(Len(recent) >= HistorySize - 1)
    BY ONLY <2>1, <2>3
  <2>6. full \in BOOLEAN /\ ~full
    BY ONLY <2>2
  <2>7. ~(recent # <<>>)
    BY ONLY <2>2
  <2> QED  BY ONLY <2>4, <2>5, <2>6, <2>7, Zenon DEF RollInv
<1>3. MeasureInv
  BY SumOfEmpty DEF TraceInit, MeasureInv
<1> QED  BY <1>1, <1>2, <1>3 DEF EnergyInv

LEMMA EnergyFollows == ASSUME EnergyInv PROVE EnergyIsIntegral
<1>1. instant = lastMeasure + Period => Sample.energy = used
  BY SampleIsUsed DEF EnergyInv
<1>2. recent # <<>> => average = SumFunction(recent) \div Len(recent)
  BY DEF EnergyInv, RollInv
<1>3. ASSUME section # <<>> PROVE MeanEnergy = SumFunction(section) \div (Period * Len(section))
  <2>1. PICK a, num : a = measure.accum /\ num = measure.nbsamp
    OBVIOUS
  <2>2. a \in Nat /\ num \in Nat /\ a = SumFunction(section) /\ num = Len(section) /\ num # 0
    BY <1>3, <2>1 DEF EnergyInv, MeasureInv
  <2>3. Period \in Nat \ {0}
    BY TraceAssumption
  <2>4. (a \div Period) \div num = a \div (Period * num)
    BY ONLY <2>2, <2>3, TwoDivisions
  <2> QED  BY <2>1, <2>2, <2>4 DEF MeanEnergy
<1> QED  BY <1>1, <1>2, <1>3 DEF EnergyIsIntegral

(* etrace_if_mode_change, get_sample and roll_average: however the peripherals change    *)
(* their modes, a sample holds what each of them used in its period, the rolling average *)
(* is that of the last samples, and a measure is the mean of all those of its section.   *)
THEOREM EnergyIsCharged == TraceSpec => []EnergyIsIntegral
<1>1. TraceInit => EnergyInv
  BY EnergyFirst
<1>2. EnergyInv /\ [TraceNext]_traceVars => EnergyInv'
  BY EnergyIsKept
<1>3. EnergyInv => EnergyIsIntegral
  BY EnergyFollows
<1> QED  BY <1>1, <1>2, <1>3, PTL DEF TraceSpec
=============================================================================

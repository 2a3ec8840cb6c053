-------------------------- MODULE AicuTimerProofs --------------------------
(* Proofs about the interrupt controller, for every number of outputs and  *)
(* inputs, and about the two timers, for all divisors and periods.         *)
EXTENDS Aicu, Timer, SlTimer, WellFoundedInduction, TLAPS

(* A set of input numbers has a first one, which the controller takes.      *)
LEMMA FirstOf ==
  ASSUME NEW T, T \subseteq Nat, T # {}
  PROVE  \E x \in T : \A y \in T : x <= y
<1>1. PICK x \in T : \A y \in T : ~ (<<y, x>> \in OpToRel(<, Nat))
  BY NatLessThanWellFounded, WFMin
<1>2. \A y \in T : ~ (y < x)
  BY <1>1 DEF OpToRel
<1> QED BY <1>2

(* The inductive invariant.  irq_update_thread returns early while the     *)
(* controller is off, so what it would compute must hold then already.     *)
(* What is owed must survive the runs of the thread that are still due,    *)
(* and the edges of the delta cycle that it may see again.                 *)
Off == ~control => \A o \in Outputs : stat[o] = {} /\ (o \notin stale => ~out[o])

Owing ==
    /\ \A o \in Outputs : owed[o] \cap Down(o) = {}
    /\ due => \A o \in Outputs : owed[o] \subseteq stat[o] \cup Up(o)
    /\ ~control => \A o \in Outputs : owed[o] = {}

IInv == TypeOK /\ CurrentIsPending /\ NoEdgeLost /\ Owing /\ Off

LEMMA LowestIsFirst ==
  ASSUME NEW S, S \subseteq Irqs, S # {}
  PROVE  Lowest(S) \in S /\ \A k \in S : Lowest(S) <= k
<1>1. S \subseteq Nat
  BY DEF Irqs
<1>2. \E j \in S : \A k \in S : j <= k
  BY <1>1, FirstOf
<1> QED BY <1>2 DEF Lowest

LEMMA IrqsAreBits == Irqs \subseteq 0 .. 31
BY AicuAssumption DEF Irqs

LEMMA InitEstablishes == Init => IInv
<1> SUFFICES ASSUME Init PROVE IInv
  OBVIOUS
<1>1. TypeOK
  <2>1. due \in BOOLEAN /\ control \in BOOLEAN
    BY DEF Init
  <2> QED BY <2>1 DEF Init, TypeOK
<1>2. CurrentIsPending /\ NoEdgeLost /\ Owing /\ Off
  BY DEF Init, CurrentIsPending, NoEdgeLost, Owing, Off, Pending
<1> QED BY <1>1, <1>2 DEF IInv

LEMMA PortsPreserve ==
  ASSUME IInv, NEW S \in SUBSET Ports, UpdatePorts(S) PROVE IInv'
<1> USE DEF IInv
<1>1. TypeOK'
  <2>1. owed' \in [Outputs -> SUBSET Irqs]
    BY DEF UpdatePorts, TypeOK
  <2> QED BY <2>1 DEF UpdatePorts, TypeOK, registers
<1>2. CurrentIsPending'
  BY DEF UpdatePorts, CurrentIsPending, Pending, registers
<1>3. \A o \in Outputs : Up(o)' = {j \in Irqs : Wire(o, j) \in S \ port}
                      /\ Down(o)' = {j \in Irqs : Wire(o, j) \in S \cap port}
  BY DEF UpdatePorts, Up, Down, Wire
<1>4. \A o \in Outputs : owed'[o] = IF control THEN (owed[o] \cup Up(o)') \ Down(o)' ELSE owed[o]
  BY <1>3 DEF UpdatePorts
<1>5. \A o \in Outputs : owed[o] \subseteq stat[o]
  BY DEF UpdatePorts, NoEdgeLost
<1>6. NoEdgeLost'
  <2>1. ASSUME S = {} PROVE \A o \in Outputs : Up(o)' = {}
    BY <1>3, <2>1
  <2> QED BY <1>4, <1>5, <2>1 DEF UpdatePorts, NoEdgeLost, registers
<1>7. Owing'
  <2>1. \A o \in Outputs : owed'[o] \cap Down(o)' = {}
    <3>1. ASSUME ~control PROVE \A o \in Outputs : owed'[o] = {}
      BY <1>4, <3>1 DEF Owing
    <3> QED BY <1>4, <3>1
  <2>2. \A o \in Outputs : owed'[o] \subseteq stat[o] \cup Up(o)'
    BY <1>4, <1>5
  <2>3. ~control => \A o \in Outputs : owed'[o] = {}
    BY <1>4 DEF Owing
  <2> QED BY <2>1, <2>2, <2>3 DEF Owing, UpdatePorts, registers
<1>8. Off'
  BY DEF Off, UpdatePorts, registers
<1> QED BY <1>1, <1>2, <1>6, <1>7, <1>8

LEMMA ThreadPreserves ==
  ASSUME IInv, IrqUpdateThread PROVE IInv'
<1> USE DEF IInv
<1>1. \A o \in Outputs : Up(o)' = Up(o) /\ Down(o)' = Down(o)
  BY DEF IrqUpdateThread, hardware, Up, Down, Wire
<1>2. CASE ~control
  <2>1. /\ UNCHANGED <<control, stat, mask, crt, out, stale, owed, port, edge>>
        /\ due' = FALSE
    BY <1>2 DEF IrqUpdateThread, hardware
  <2>2. TypeOK' /\ Off'
    <3>1. due' \in BOOLEAN /\ control' \in BOOLEAN
      BY <2>1 DEF TypeOK
    <3> QED BY <2>1, <3>1 DEF TypeOK, Off
  <2>3. CurrentIsPending'
    BY <1>2, <2>1 DEF CurrentIsPending, Pending, Off
  <2>4. NoEdgeLost' /\ Owing'
    BY <1>1, <1>2, <2>1 DEF NoEdgeLost, Owing
  <2> QED BY <2>2, <2>3, <2>4
<1>3. CASE control
  <2>1. /\ UNCHANGED <<control, mask, owed, port, edge>>
        /\ due' = FALSE /\ due
        /\ stale' = {}
        /\ stat' = [o \in Outputs |-> Collect(o)]
        /\ crt' = [o \in Outputs |-> IF stat'[o] \cap mask[o] = {} THEN crt[o]
                                     ELSE Lowest(stat'[o] \cap mask[o])]
        /\ out' = [o \in Outputs |-> stat'[o] \cap mask[o] # {}]
    BY <1>3 DEF IrqUpdateThread, hardware
  <2>2. stat' \in [Outputs -> SUBSET Irqs]
    BY <2>1 DEF TypeOK, Collect, Up
  <2>3. \A o \in Outputs : Pending(o)' = stat'[o] \cap mask[o] /\ Pending(o)' \subseteq Irqs
    BY <2>1, <2>2 DEF Pending
  <2>4. ASSUME NEW o \in Outputs, Pending(o)' # {}
        PROVE  crt'[o] \in Pending(o)' /\ \A k \in Pending(o)' : crt'[o] <= k
    <3>1. crt'[o] = Lowest(stat'[o] \cap mask[o])
      BY <2>1, <2>3, <2>4
    <3> QED BY <2>3, <2>4, <3>1, LowestIsFirst
  <2>5. TypeOK'
    <3>1. crt' \in [Outputs -> 0 .. 31]
      <4>1. \A o \in Outputs : crt'[o] \in 0 .. 31
        BY <2>1, <2>3, <2>4, IrqsAreBits DEF TypeOK
      <4> QED BY <2>1, <4>1
    <3>2. out' \in [Outputs -> BOOLEAN]
      BY <2>1
    <3>3. due' \in BOOLEAN /\ control' \in BOOLEAN
      BY <2>1 DEF TypeOK
    <3> QED BY <2>1, <2>2, <3>1, <3>2, <3>3 DEF TypeOK
  <2>6. CurrentIsPending'
    BY <2>1, <2>3, <2>4 DEF CurrentIsPending
  <2>7. NoEdgeLost' /\ Owing' /\ Off'
    BY <1>1, <1>3, <2>1 DEF NoEdgeLost, Owing, Off, Collect
  <2> QED BY <2>5, <2>6, <2>7
<1> QED BY <1>2, <1>3

LEMMA CtrlPreserves ==
  ASSUME IInv, NEW s \in BOOLEAN, WriteCtrl(s) PROVE IInv'
<1> USE DEF IInv
<1>1. \A o \in Outputs : Up(o)' = Up(o) /\ Down(o)' = Down(o)
  BY DEF WriteCtrl, hardware, Up, Down, Wire
<1>2. CASE s = control
  <2>1. UNCHANGED <<control, stat, mask, crt, out, stale, owed, port, edge, due>>
    BY <1>2 DEF WriteCtrl, hardware
  <2> QED BY <1>1, <2>1 DEF TypeOK, CurrentIsPending, NoEdgeLost, Owing, Off, Pending
<1>3. CASE s # control
  <2>1. /\ UNCHANGED <<out, port, edge, due>>
        /\ control' = s /\ stale' = Outputs
        /\ \A o \in Outputs : stat'[o] = {} /\ owed'[o] = {}
    BY <1>3 DEF WriteCtrl, hardware
  <2>2. TypeOK'
    BY <1>3 DEF WriteCtrl, hardware, TypeOK
  <2> QED BY <1>1, <2>1, <2>2 DEF CurrentIsPending, NoEdgeLost, Owing, Off
<1> QED BY <1>2, <1>3

\* The accesses of one output's registers leave irq_update_thread due.
LEMMA LocalPreserves ==
  ASSUME IInv, NEW o \in Outputs,
         \/ \E val \in SUBSET Irqs : WriteStat(o, val) \/ WriteMask(o, val)
         \/ ReadAddr(o)
  PROVE  IInv'
<1> USE DEF IInv
<1>1. \A q \in Outputs : Up(q)' = Up(q) /\ Down(q)' = Down(q)
  BY DEF WriteStat, WriteMask, ReadAddr, hardware, Up, Down, Wire
<1>2. /\ due' /\ UNCHANGED <<control, out, stale, crt, port, edge>>
      /\ \E val : /\ stat' = [stat EXCEPT ![o] = @ \ val]
                  /\ owed' = [owed EXCEPT ![o] = @ \ val]
  <2>1. ASSUME NEW val \in SUBSET Irqs, WriteMask(o, val)
        PROVE  stat' = [stat EXCEPT ![o] = @ \ {}] /\ owed' = [owed EXCEPT ![o] = @ \ {}]
    BY <2>1 DEF WriteMask, TypeOK
  <2> QED BY <2>1 DEF WriteStat, WriteMask, ReadAddr, hardware
<1>3. \A q \in Outputs : \E val : stat'[q] = stat[q] \ val /\ owed'[q] = owed[q] \ val
  <2>1. PICK val : /\ stat' = [stat EXCEPT ![o] = @ \ val]
                   /\ owed' = [owed EXCEPT ![o] = @ \ val]
    BY <1>2
  <2> TAKE q \in Outputs
  <2>2. CASE q = o
    BY <2>1, <2>2 DEF TypeOK
  <2>3. CASE q # o
    <3>1. stat'[q] = stat[q] \ {} /\ owed'[q] = owed[q] \ {}
      BY <2>1, <2>3 DEF TypeOK
    <3> QED BY <3>1
  <2> QED BY <2>2, <2>3
<1>4. TypeOK'
  <2>1. mask' \in [Outputs -> SUBSET Irqs]
    BY DEF WriteStat, WriteMask, ReadAddr, TypeOK
  <2>2. stat' \in [Outputs -> SUBSET Irqs] /\ owed' \in [Outputs -> SUBSET Irqs]
    BY <1>2 DEF TypeOK
  <2> QED BY <1>2, <2>1, <2>2 DEF TypeOK
<1>5. CurrentIsPending' /\ NoEdgeLost'
  BY <1>2 DEF CurrentIsPending, NoEdgeLost
<1>6. \A q \in Outputs : owed[q] \subseteq stat[q] \cup Up(q)
  BY DEF NoEdgeLost, Owing, TypeOK
<1>7. Owing'
  BY <1>1, <1>2, <1>3, <1>6 DEF Owing
<1>8. Off'
  BY <1>2, <1>3 DEF Off
<1> QED BY <1>4, <1>5, <1>7, <1>8

LEMMA StepPreserves == IInv /\ [Next]_vars => IInv'
<1> SUFFICES ASSUME IInv, [Next]_vars PROVE IInv'
  OBVIOUS
<1>1. CASE UNCHANGED vars
  BY <1>1 DEF vars, hardware, registers, IInv, TypeOK, CurrentIsPending, NoEdgeLost, Owing, Off,
     Pending, Up, Down, Wire
<1> QED BY <1>1, PortsPreserve, ThreadPreserves, CtrlPreserves, LocalPreserves DEF Next, Access

LEMMA Invariance == Spec => []IInv
BY InitEstablishes, StepPreserves, PTL DEF Spec

(* The masks hold interrupts of the output and the current interrupt fits  *)
(* the 32 bits that (1 << m_crt_irq) addresses.                            *)
THEOREM TypeCorrect == Spec => []TypeOK
BY Invariance, PTL DEF IInv

(* For every number of outputs and inputs, when irq_update_thread is at    *)
(* rest irq_out and m_crt_irq are those of m_stat and m_mask.              *)
THEOREM CurrentIsRight == Spec => []CurrentIsPending
BY Invariance, PTL DEF IInv

(* For every number of outputs and inputs, m_stat keeps every edge that    *)
(* came while the controller was on until it is acknowledged or falls.     *)
THEOREM EdgesAreKept == Spec => []NoEdgeLost
BY Invariance, PTL DEF IInv

-----------------------------------------------------------------------------
(* timer_device.  While software is polite, what it expects follows from where
   timer_thread is: a wait for the period ends when the interrupt is expected, unless
   a new divisor was written, and then ev_wake is notified and no time passes before
   the thread starts a new wait. *)

TimerTypeOK ==
    /\ now \in 0 .. EndOfTime /\ divisor \in Nat /\ divisor_changed \in BOOLEAN
    /\ bOneShot \in BOOLEAN /\ signal \in BOOLEAN
    /\ thread \in {"start", "period", "ended", "raised", "acked"}
    /\ deadline \in Nat /\ zeroTime \in BOOLEAN /\ polite \in BOOLEAN /\ expected \in Nat

Polite ==
    /\ signal <=> thread \in {"raised", "acked"}
    /\ zeroTime => divisor_changed /\ thread \in {"start", "period"}
    /\ divisor_changed => thread \in {"start", "period", "ended"}
    /\ divisor_changed /\ thread # "ended" => zeroTime
    /\ divisor_changed \/ thread \in {"start", "acked"} => expected = After(divisor)
    /\ ~divisor_changed /\ thread = "period" => deadline = expected /\ now < deadline
    /\ ~divisor_changed /\ thread = "ended" => now = expected
    /\ thread = "raised" => deadline = Never

TimerInv == TimerTypeOK /\ (polite => Polite)

\* A wait for the period ends later than now.
LEMMA AfterIsLater ==
    ASSUME TimerTypeOK, NEW n \in Nat
    PROVE  After(n) \in Nat /\ now < After(n)
BY TimerAssumption DEF TimerTypeOK, After, Never

\* At first the thread has not run and nothing is expected.
LEMMA TimerInitially == TimerInit => TimerInv
<1> SUFFICES ASSUME TimerInit PROVE TimerInv
  OBVIOUS
<1>1. now \in 0 .. EndOfTime /\ divisor \in Nat /\ deadline \in Nat /\ expected \in Nat
  BY TimerAssumption DEF TimerInit, Never
<1>3. TimerTypeOK
  BY <1>1, Zenon DEF TimerInit, TimerTypeOK
<1>2. Polite
  BY DEF TimerInit, Polite, After
<1> QED  BY <1>2, <1>3 DEF TimerInv

\* Each write and each step of the thread keeps what is expected with where the thread is.
LEMMA TimerInductive == TimerInv /\ [TimerNext]_timerVars => TimerInv'
<1> SUFFICES ASSUME TimerInv, [TimerNext]_timerVars PROVE TimerInv'
  OBVIOUS
<1> USE TimerAssumption DEF TimerInv, TimerTypeOK
<1>0. /\ After(divisor) \in Nat /\ now < After(divisor)
      /\ Never \in Nat /\ Woken \in {"start", "period", "ended", "raised", "acked"}
  BY AfterIsLater DEF Never, Woken
<1>1. CASE UNCHANGED timerVars
  BY <1>1 DEF timerVars, Polite, After
<1>2. ASSUME NEW v \in Divisors, WriteDivisor(v) PROVE TimerInv'
  <2>1. v \in Nat /\ After(v) \in Nat
    BY AfterIsLater
  <2> QED  BY <1>2, <2>1 DEF WriteDivisor, Polite, After
<1>3. CASE WriteAck
  BY <1>0, <1>3 DEF WriteAck, Woken, Polite, After
<1>4. ASSUME NEW v \in BOOLEAN, WriteOneShot(v) PROVE TimerInv'
  BY <1>4 DEF WriteOneShot, Polite, After
<1>5. CASE StartThread
  BY <1>0, <1>5 DEF StartThread, WaitPeriod, Polite, After
<1>6. CASE EndPeriod
  <2>1. CASE divisor_changed
    BY <1>0, <1>6, <2>1 DEF EndPeriod, PeriodEnds, WaitPeriod, Polite, After
  <2>2. CASE ~divisor_changed
    BY <1>0, <1>6, <2>2 DEF EndPeriod, PeriodEnds, PeriodEnds_Always, Polite, After
  <2> QED  BY <2>1, <2>2
<1>7. CASE EndInterrupt
  BY <1>0, <1>7 DEF EndInterrupt, WaitPeriod, Polite, After
<1>8. CASE DeltaCycle
  BY <1>0, <1>8 DEF DeltaCycle, Runnable, Woken, Polite, After
<1>9. CASE Advance
  <2>1. TimerTypeOK'
    BY <1>0, <1>9 DEF Advance
  <2>2. ASSUME polite PROVE Polite'
    <3>1. thread \in {"period", "raised"} /\ ~zeroTime /\ ~divisor_changed
      BY <1>9, <2>2 DEF Advance, Runnable, Polite
    <3>2. CASE thread = "raised"
      BY <1>9, <2>2, <3>1, <3>2 DEF Advance, Polite, Never, After
    <3>3. CASE thread = "period"
      BY <1>9, <2>2, <3>1, <3>3 DEF Advance, Polite, Woken, After
    <3> QED  BY <3>1, <3>2, <3>3
  <2> QED  BY <1>9, <2>1, <2>2 DEF Advance
<1> QED  BY <1>1, <1>2, <1>3, <1>4, <1>5, <1>6, <1>7, <1>8, <1>9 DEF TimerNext

(* timer_device: each interrupt comes a whole period after the last write of software
   that acknowledges what is raised and changes the period between interrupts. *)
THEOREM TimerIsExact == TimerSpec => InterruptsOnTime
<1> DEFINE OnTime == polite => /\ ~signal /\ signal' => now = expected
                               /\ now' # now /\ ~signal => now # expected
<1>1. TimerInv /\ [TimerNext]_timerVars => [OnTime]_timerVars
  <2> SUFFICES ASSUME TimerInv, TimerNext, polite PROVE OnTime
    BY DEF timerVars
  <2> USE DEF TimerInv, Polite
  <2>1. ASSUME ~signal, signal' PROVE now = expected
    BY <2>1 DEF TimerNext, WriteDivisor, WriteAck, WriteOneShot, StartThread, EndPeriod,
                PeriodEnds, PeriodEnds_Always, EndInterrupt, DeltaCycle, Advance
  <2>2. ASSUME now' # now, ~signal PROVE now # expected
    <3>1. Advance
      BY <2>2 DEF TimerNext, WriteDivisor, WriteAck, WriteOneShot, StartThread, EndPeriod,
                  EndInterrupt, DeltaCycle
    <3>2. thread = "period" /\ ~divisor_changed
      BY <3>1, <2>2 DEF Advance, Runnable, TimerTypeOK
    <3> QED  BY <3>2 DEF TimerTypeOK
  <2> QED  BY <2>1, <2>2
<1> QED  BY <1>1, TimerInitially, TimerInductive, PTL DEF TimerSpec, InterruptsOnTime
-----------------------------------------------------------------------------
(* sl_timer_device.  The counter since the last start and the count at which the period
   ends say the same as the deadline of the thread's wait, although a start moves the
   first and every write the second. *)

SlTimerTypeOK ==
    /\ clock \in 0 .. Horizon /\ m_period \in Nat
    /\ running \in BOOLEAN /\ irq_enabled \in BOOLEAN
    /\ m_last_period \in 0 .. clock /\ m_next_period \in Nat
    /\ m_config_mod \in BOOLEAN
    /\ slThread \in {"start", "waiting", "ready"} /\ wake \in Nat
    /\ m_irq \in BOOLEAN /\ irqOut \in BOOLEAN /\ updating \in BOOLEAN
    /\ began \in Nat /\ exact \in BOOLEAN

\* The instant at which the period ends.
End == m_last_period + m_next_period

Periodic ==
    /\ m_period <= m_next_period
    /\ m_period > 0 =>
         /\ began + m_period <= End
         /\ exact => began + m_period = End /\ clock <= End
         /\ slThread = "waiting" => wake = End \/ (wake = Forever /\ End < clock)
         /\ slThread = "ready" /\ ~m_config_mod => End <= clock

SlTimerInv == SlTimerTypeOK /\ Periodic

\* At first there is no period.
LEMMA SlTimerInitially == SlInit => SlTimerInv
<1> SUFFICES ASSUME SlInit PROVE SlTimerInv
  OBVIOUS
<1>1. /\ clock \in 0 .. Horizon /\ m_period \in Nat /\ m_last_period \in 0 .. clock
      /\ m_next_period \in Nat /\ wake \in Nat /\ began \in Nat
  BY SlTimerAssumption DEF SlInit, Forever
<1>2. SlTimerTypeOK
  BY <1>1, Zenon DEF SlInit, SlTimerTypeOK
<1>3. Periodic
  BY DEF SlInit, Periodic
<1> QED  BY <1>2, <1>3 DEF SlTimerInv

\* A write moves the end of the period and wakes the thread, which sleeps until it.
LEMMA SlTimerInductive == SlTimerInv /\ [SlNext]_slVars => SlTimerInv'
<1> SUFFICES ASSUME SlTimerInv, [SlNext]_slVars PROVE SlTimerInv'
  OBVIOUS
<1> USE SlTimerAssumption DEF SlTimerInv, SlTimerTypeOK, Periodic, End, Forever
<1>1. CASE UNCHANGED slVars
  BY <1>1 DEF slVars
<1>2. ASSUME NEW run \in BOOLEAN, NEW enable \in BOOLEAN, WriteMode(run, enable)
      PROVE  SlTimerInv'
  <2>1. CASE run = running
    BY <1>2, <2>1 DEF WriteMode
  <2>2. CASE run # running
    <3>1. SlTimerTypeOK'
      <4>1. m_last_period' \in 0 .. clock' /\ began' \in Nat
        BY <1>2, <2>2 DEF WriteMode
      <4>3. exact' \in BOOLEAN
        BY <1>2, Zenon DEF WriteMode
      <4>2. slThread' \in {"start", "waiting", "ready"} /\ m_config_mod' \in BOOLEAN
        BY <1>2, <2>2 DEF WriteMode, Reconfigure
      <4> QED  BY <1>2, <4>1, <4>2, <4>3 DEF WriteMode
    <3>2. CASE run
      <4>1. m_last_period' = clock /\ began' = clock /\ ~exact' /\ slThread' # "waiting" /\ m_config_mod'
        BY <1>2, <2>2, <3>2 DEF WriteMode, Reconfigure
      <4> QED  BY <1>2, <3>1, <4>1 DEF WriteMode
    <3>3. CASE ~run
      BY <1>2, <2>2, <3>1, <3>3 DEF WriteMode, Reconfigure
    <3> QED  BY <3>2, <3>3
  <2> QED  BY <2>1, <2>2
<1>3. ASSUME NEW n \in Periods, WritePeriod(n) PROVE SlTimerInv'
  BY <1>3 DEF WritePeriod, Reconfigure, NextPeriod, Elapsed
<1>4. CASE WriteResetIrq
  BY <1>4 DEF WriteResetIrq
<1>5. CASE SlTimerThread
  <2>1. CASE slThread = "start"
    BY <1>5, <2>1 DEF SlTimerThread, Sleep, Elapsed
  <2>2. CASE slThread # "start" /\ m_config_mod
    <3>1. SlTimerTypeOK'
      <4>1. /\ m_irq' \in BOOLEAN /\ updating' \in BOOLEAN /\ m_config_mod' \in BOOLEAN
            /\ exact' \in BOOLEAN
        BY <1>5, <2>2, Zenon DEF SlTimerThread, Serve, ServeChange
      <4>2. wake' \in Nat /\ m_next_period' \in Nat /\ began' \in Nat
        BY <1>5, <2>2 DEF SlTimerThread, Serve, ServeChange, Sleep
      <4> QED  BY <1>5, <4>1, <4>2 DEF SlTimerThread, Sleep
    <3>2. Periodic'
      BY <1>5, <2>2 DEF SlTimerThread, Serve, ServeChange, Sleep, Elapsed
    <3> QED  BY <3>1, <3>2
  <2>3. CASE slThread # "start" /\ ~m_config_mod
    BY <1>5, <2>3 DEF SlTimerThread, Serve, ServePeriod, Sleep, NextPeriod, Elapsed
  <2> QED  BY <2>1, <2>2, <2>3
<1>6. CASE IrqUpdate
  BY <1>6 DEF IrqUpdate
<1>7. CASE Pass
  BY <1>7 DEF Pass
<1> QED  BY <1>1, <1>2, <1>3, <1>4, <1>5, <1>6, <1>7 DEF SlNext

(* sl_timer_device: no interrupt comes before a whole period has passed since the last
   start, write of the period or interrupt, and none comes late but after a start. *)
THEOREM SlTimerIsExact == SlSpec => PeriodsAreWhole
<1> DEFINE Whole == m_period > 0 =>
                      /\ m_irq' /\ ~m_irq => clock >= began + m_period
                      /\ exact /\ clock' # clock => clock < began + m_period
<1>1. SlTimerInv /\ [SlNext]_slVars => [Whole]_slVars
  <2> SUFFICES ASSUME SlTimerInv, SlNext, m_period > 0 PROVE Whole
    BY DEF slVars
  <2> USE DEF SlTimerInv, SlTimerTypeOK, Periodic, End
  <2>1. ASSUME m_irq', ~m_irq PROVE clock >= began + m_period
    <3>1. slThread = "ready" /\ ~m_config_mod
      BY <2>1 DEF SlNext, WriteMode, WritePeriod, WriteResetIrq, SlTimerThread, Serve,
                  ServeChange, ServePeriod, IrqUpdate, Pass
    <3> QED  BY <3>1
  <2>2. ASSUME exact, clock' # clock PROVE clock < began + m_period
    <3>1. slThread = "waiting" /\ wake # clock
      BY <2>2 DEF SlNext, WriteMode, WritePeriod, WriteResetIrq, SlTimerThread, IrqUpdate, Pass
    <3> QED  BY <3>1, <2>2
  <2> QED  BY <2>1, <2>2
<1> QED  BY <1>1, SlTimerInitially, SlTimerInductive, PTL DEF SlSpec, PeriodsAreWhole
============================================================================

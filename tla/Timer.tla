------------------------------- MODULE Timer -------------------------------
(***************************************************************************)
(* timer_device: an interrupt every `divisor' nanoseconds, counted from    *)
(* the acknowledge of the one before.  One event, ev_wake, tells its       *)
(* thread of a new divisor (notified for the next delta cycle) and of an   *)
(* acknowledge (notified at once).  Time advances only when no thread can  *)
(* run and no notification is pending.                                     *)
(***************************************************************************)
EXTENDS Naturals

CONSTANTS
    Divisors,       \* values written to the divisor, other than the acknowledge
    EndOfTime       \* bound: nanoseconds simulated

ASSUME TimerAssumption == Divisors \subseteq Nat /\ EndOfTime \in Nat

VARIABLES
    now,
    divisor, divisor_changed, bOneShot,
    signal,         \* irq
    thread,         \* timer_thread: in one of its two waits, or ready after it
    deadline,       \* end of the wait (ns_period, SC_NS, ev_wake), or Never
    zeroTime,       \* ev_wake is notified for the next delta cycle
    polite,         \* software kept to the rules under which periods are right
    expected        \* when it expects the next interrupt, or Never

timerVars == <<now, divisor, divisor_changed, bOneShot, signal, thread, deadline,
               zeroTime, polite, expected>>

Never == EndOfTime + 1
After(n) == IF n = 0 \/ now + n > EndOfTime THEN Never ELSE now + n

TimerInit ==
    /\ now = 0 /\ divisor = 0 /\ divisor_changed = FALSE /\ bOneShot = FALSE
    /\ signal = FALSE /\ thread = "start" /\ deadline = Never /\ zeroTime = FALSE
    /\ polite = TRUE /\ expected = Never

\* What a process waiting for ev_wake becomes when the event comes.
Woken == CASE thread = "period" -> "ended" [] thread = "raised" -> "acked" [] OTHER -> thread
-----------------------------------------------------------------------------
\* A new period; polite while no interrupt is up and no period ends just now.
WriteDivisor(v) ==
    /\ divisor' = v /\ divisor_changed' = TRUE /\ zeroTime' = TRUE
    /\ polite' = (polite /\ ~signal /\ thread \in {"start", "period"})
    /\ expected' = After(v)
    /\ UNCHANGED <<now, bOneShot, signal, thread, deadline>>

\* 0xFFFFFFFF: the notification replaces the one of a divisor.
WriteAck ==
    /\ zeroTime' = FALSE /\ thread' = Woken
    /\ polite' = (polite /\ signal /\ thread = "raised")
    /\ expected' = After(divisor)
    /\ UNCHANGED <<now, divisor, divisor_changed, bOneShot, signal, deadline>>

WriteOneShot(v) ==
    /\ bOneShot' = v
    /\ UNCHANGED <<now, divisor, divisor_changed, signal, thread, deadline, zeroTime, polite, expected>>

\* The head of the loop.
WaitPeriod == thread' = "period" /\ deadline' = After(divisor)

StartThread ==
    /\ thread = "start" /\ WaitPeriod
    /\ UNCHANGED <<now, divisor, divisor_changed, bOneShot, signal, zeroTime, polite, expected>>

\* The end of the period without the test of divisor_changed.
PeriodEnds_Always ==
    /\ divisor' = IF bOneShot THEN 0 ELSE divisor
    /\ signal' = TRUE /\ thread' = "raised" /\ deadline' = Never
    /\ expected' = Never
    /\ UNCHANGED divisor_changed

\* After the wait for the period: a new one, or the interrupt.
PeriodEnds ==
    IF divisor_changed
      THEN /\ divisor_changed' = FALSE /\ signal' = FALSE
           /\ UNCHANGED <<divisor, expected>>
           /\ WaitPeriod
      ELSE PeriodEnds_Always

EndPeriod ==
    /\ thread = "ended" /\ PeriodEnds
    /\ UNCHANGED <<now, bOneShot, zeroTime, polite>>

EndInterrupt ==
    /\ thread = "acked"
    /\ signal' = FALSE
    /\ UNCHANGED <<now, divisor, divisor_changed, bOneShot, zeroTime, polite, expected>>
    /\ WaitPeriod

Runnable == thread \in {"start", "ended", "acked"}

DeltaCycle ==
    /\ ~Runnable /\ zeroTime
    /\ zeroTime' = FALSE /\ thread' = Woken
    /\ UNCHANGED <<now, divisor, divisor_changed, bOneShot, signal, deadline, polite, expected>>

Advance ==
    /\ ~Runnable /\ ~zeroTime /\ now < EndOfTime
    /\ now' = now + 1
    /\ thread' = IF deadline = now + 1 THEN Woken ELSE thread
    /\ UNCHANGED <<divisor, divisor_changed, bOneShot, signal, deadline, zeroTime, polite, expected>>

TimerNext ==
    \/ \E v \in Divisors : WriteDivisor(v)
    \/ WriteAck
    \/ \E v \in BOOLEAN : WriteOneShot(v)
    \/ StartThread \/ EndPeriod \/ EndInterrupt \/ DeltaCycle \/ Advance

TimerSpec == TimerInit /\ [][TimerNext]_timerVars
-----------------------------------------------------------------------------
(* The divisor and the acknowledge wake the thread through one event, in its two
   waits: software that acknowledges only what is raised, and changes the period only
   between interrupts, gets each one a whole period after its last write, neither
   sooner nor later. *)
InterruptsOnTime ==
    [][ polite =>
          /\ ~signal /\ signal' => now = expected
          /\ now' # now /\ ~signal => now # expected ]_timerVars
============================================================================

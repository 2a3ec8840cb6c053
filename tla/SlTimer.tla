------------------------------ MODULE SlTimer ------------------------------
(***************************************************************************)
(* sl_timer_device: a counter since the last start and the count at which  *)
(* the period ends, kept apart from the deadline its thread sleeps until.  *)
(* A write that changes either sets m_config_mod and wakes the thread; the *)
(* interrupt is m_irq, copied to the output by irq_update_thread.          *)
(*                                                                         *)
(* Time is in ticks of the timer; it advances when no thread can run.      *)
(***************************************************************************)
EXTENDS Naturals

CONSTANTS
    Periods,        \* values written to TIMER_PERIOD
    Horizon         \* bound: ticks simulated

ASSUME SlTimerAssumption == Periods \subseteq Nat /\ Horizon \in Nat

VARIABLES
    clock,          \* sc_time_stamp()
    m_period,
    running, irq_enabled,   \* m_mode
    m_last_period, m_next_period,
    m_config_mod,
    slThread,       \* sl_timer_thread: not started, waiting, or ready to go on
    wake,           \* when its wait ends, or Forever
    m_irq, irqOut,
    updating,       \* ev_irq_update was notified
    began,          \* when the period in progress began
    exact           \* the counter was not restarted since

slVars == <<clock, m_period, running, irq_enabled, m_last_period, m_next_period,
            m_config_mod, slThread, wake, m_irq, irqOut, updating, began, exact>>

Forever == Horizon + 1
Elapsed == clock - m_last_period

SlInit ==
    /\ clock = 0 /\ m_period = 0 /\ running = FALSE /\ irq_enabled = FALSE
    /\ m_last_period = 0 /\ m_next_period = 0 /\ m_config_mod = FALSE
    /\ slThread = "start" /\ wake = Forever
    /\ m_irq = FALSE /\ irqOut = FALSE /\ updating = FALSE
    /\ began = 0 /\ exact = FALSE

-----------------------------------------------------------------------------
\* The thread is told of a change, if it waits.
Reconfigure ==
    /\ m_config_mod' = TRUE
    /\ slThread' = IF slThread = "waiting" THEN "ready" ELSE slThread

\* TIMER_MODE: only the first bit is a change of configuration.
WriteMode(run, enable) ==
    /\ running' = run /\ irq_enabled' = enable
    /\ IF run # running
         THEN Reconfigure
         ELSE UNCHANGED <<m_config_mod, slThread>>
    /\ IF run /\ ~running
         THEN m_last_period' = clock /\ began' = clock /\ exact' = FALSE
         ELSE UNCHANGED <<m_last_period, began, exact>>
    /\ UNCHANGED <<clock, m_period, m_next_period, wake, m_irq, irqOut, updating>>

\* The count at which a period of n that begins now ends.
NextPeriod(n) == Elapsed + n

WritePeriod(n) ==
    /\ m_period' = n /\ m_next_period' = NextPeriod(n)
    /\ Reconfigure
    /\ began' = clock /\ exact' = TRUE
    /\ UNCHANGED <<clock, running, irq_enabled, m_last_period, wake, m_irq, irqOut, updating>>

WriteResetIrq ==
    /\ m_irq' = FALSE /\ updating' = TRUE
    /\ UNCHANGED <<clock, m_period, running, irq_enabled, m_last_period, m_next_period,
                   m_config_mod, slThread, wake, irqOut, began, exact>>

\* sl_timer_thread goes on because of a write ...
ServeChange ==
    /\ m_config_mod' = FALSE /\ m_irq' = FALSE /\ updating' = TRUE
    /\ UNCHANGED <<m_next_period, began, exact>>

\* ... or because the period ended.
ServePeriod ==
    /\ m_irq' = (irq_enabled \/ m_irq) /\ updating' = (irq_enabled \/ updating)
    /\ m_next_period' = NextPeriod(m_period)
    /\ began' = clock /\ exact' = TRUE
    /\ UNCHANGED m_config_mod

\* sl_timer_thread that does not see the write.
Serve_Always == ServePeriod

Serve == IF m_config_mod THEN ServeChange ELSE ServePeriod

\* The next wait; wait_time is unsigned, so a negative one would be for ever.
Sleep ==
    /\ slThread' = "waiting"
    /\ wake' = IF m_period = 0 \/ m_next_period' < Elapsed THEN Forever
               ELSE m_last_period + m_next_period'

SlTimerThread ==
    /\ slThread # "waiting"
    /\ IF slThread = "start"
         THEN UNCHANGED <<m_config_mod, m_irq, updating, m_next_period, began, exact>>
         ELSE Serve
    /\ Sleep
    /\ UNCHANGED <<clock, m_period, running, irq_enabled, m_last_period, irqOut>>

IrqUpdate ==
    /\ updating
    /\ updating' = FALSE /\ irqOut' = m_irq
    /\ UNCHANGED <<clock, m_period, running, irq_enabled, m_last_period, m_next_period,
                   m_config_mod, slThread, wake, m_irq, began, exact>>

\* The wait ends: in this delta cycle if it is of no time ...
Pass ==
    /\ slThread = "waiting" /\ ~updating
    /\ IF wake = clock
         THEN clock' = clock
         ELSE clock < Horizon /\ clock' = clock + 1
    /\ slThread' = IF wake = clock' THEN "ready" ELSE "waiting"
    /\ UNCHANGED <<m_period, running, irq_enabled, m_last_period, m_next_period,
                   m_config_mod, wake, m_irq, irqOut, updating, began, exact>>

SlNext ==
    \/ \E run, enable \in BOOLEAN : WriteMode(run, enable)
    \/ \E n \in Periods : WritePeriod(n)
    \/ WriteResetIrq \/ SlTimerThread \/ IrqUpdate \/ Pass

SlSpec == SlInit /\ [][SlNext]_slVars
-----------------------------------------------------------------------------
(* Start, stop and a new period may come at any time, the instant a period ends
   included: no interrupt comes before a whole period since the last of them and the
   last interrupt, and it does not come later unless the timer was started after its
   period was written. *)
PeriodsAreWhole ==
    [][ m_period > 0 =>
          /\ m_irq' /\ ~m_irq => clock >= began + m_period
          /\ exact /\ clock' # clock => clock < began + m_period ]_slVars
=============================================================================

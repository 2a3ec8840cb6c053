---------------------------- MODULE EnergyTrace ----------------------------
(***************************************************************************)
(* etrace_if: the energy of the peripherals, sample by sample.  A          *)
(* peripheral that changes its mode is charged for the mode it leaves;     *)
(* scope_trigger takes a sample at the end of each period, charges the     *)
(* modes that go on, and feeds the rolling average.                        *)
(*                                                                         *)
(* A mode stands for a mode and a frequency set, Cost for mode_cost.       *)
(***************************************************************************)
EXTENDS Integers, Sequences, SequencesExt

CONSTANTS
    Periphs,
    Cost,           \* energy per time unit of each mode
    Period,         \* sample_period
    HistorySize,    \* MAX_HISTORY
    TraceEnd        \* bound on the time

Modes == DOMAIN Cost

ASSUME TraceAssumption ==
    /\ Cost \in [Modes -> Nat] /\ Period \in Nat \ {0} /\ HistorySize \in Nat \ {0, 1}
    /\ TraceEnd \in Nat /\ IsFiniteSet(Periphs)

VARIABLES
    instant,
    mode,           \* curr_mode and curr_fvset of each peripheral
    changedAt,        \* last_change_stamp
    samples,        \* the list of samples, m_scope->samples_head first
    lastMeasure,    \* last_measure_stamp
    history, index, full,       \* m_history, m_curr_idx, m_full_average
    average,        \* what roll_average returned last
    measure,        \* m_measure_started, m_measure_accum, m_measure_nbsamp
    used,           \* energy of each peripheral since lastMeasure
    recent,         \* the energy of the last samples, at most HistorySize
    section         \* that of the samples taken since the measure started

traceVars == <<instant, mode, changedAt, samples, lastMeasure, history, index, full, average,
               measure, used, recent, section>>

NewSample(last) == [stamp |-> last + Period, energy |-> [p \in Periphs |-> 0],
                    processed |-> [p \in Periphs |-> FALSE]]

TraceInit ==
    /\ instant = 0
    /\ mode \in [Periphs -> Modes] /\ changedAt = [p \in Periphs |-> 0]
    /\ samples = <<>> /\ lastMeasure = 0
    /\ history = [i \in 0 .. HistorySize - 1 |-> 0] /\ index = 0 /\ full = FALSE /\ average = 0
    /\ measure = [on |-> FALSE, accum |-> 0, nbsamp |-> 0]
    /\ used = [p \in Periphs |-> 0] /\ recent = <<>> /\ section = <<>>
-----------------------------------------------------------------------------
Later(a, b) == IF a < b THEN b ELSE a
Earlier(a, b) == IF a < b THEN a ELSE b

\* A charge that begins with the sample although the mode is younger.
Begin_OfSample(p, last) == last
Begin(p, last) == Later(last, changedAt[p])

\* __r_update_samples: the samples of a list that begins at last, a Period apart, charged
\* with the mode of p up to time t.  Those that are not there yet are made; those that
\* end before the mode was set are not charged.
Charged(list, p, t, last) ==
    LET stamp(i) == last + i * Period
        visited == (t - last + Period - 1) \div Period      \* samples that begin before t
        s(i) == IF i <= Len(list) THEN list[i] ELSE NewSample(stamp(i - 1))
        cost(i) == IF stamp(i) < changedAt[p] THEN 0
                   ELSE (Earlier(t, stamp(i)) - Begin(p, stamp(i - 1))) * Cost[mode[p]]
    IN  [i \in 1 .. Later(visited, Len(list)) |->
           IF i <= visited THEN [s(i) EXCEPT !.processed[p] = TRUE, !.energy[p] = @ + cost(i)]
           ELSE list[i]]

\* etrace_if_mode_change with a mode the peripheral has.
ChangeMode(p, m) ==
    /\ samples' = IF instant > changedAt[p] THEN Charged(samples, p, instant, lastMeasure) ELSE samples
    /\ mode' = [mode EXCEPT ![p] = m]
    /\ changedAt' = [changedAt EXCEPT ![p] = instant]
    /\ UNCHANGED <<instant, lastMeasure, history, index, full, average, measure, used, recent, section>>

\* get_sample: the head of the list, charged with the modes that go on.
Sample ==
    LET s == IF samples = <<>> THEN NewSample(lastMeasure) ELSE Head(samples)
        since(p) == instant - changedAt[p]
        rest(p) == IF since(p) < Period THEN Cost[mode[p]] * since(p)
                   ELSE IF s.processed[p] THEN 0 ELSE Cost[mode[p]] * Period
    IN  [s EXCEPT !.energy = [p \in Periphs |-> @[p] + rest(p)]]

FullAt(i) == i = HistorySize - 1

\* roll_average.
RollAverage(new) ==
    /\ history' = [history EXCEPT ![index] = new]
    /\ average' = LET k == IF full THEN HistorySize ELSE index + 1
                  IN  SumFunction([i \in 0 .. k - 1 |-> history'[i]]) \div k
    /\ index' = (index + 1) % HistorySize
    /\ full' = (full \/ FullAt(index'))

Measure(new) ==
    measure' = IF measure.on THEN [measure EXCEPT !.accum = @ + new, !.nbsamp = @ + 1] ELSE measure

\* scope_trigger, one delta cycle after the end of the period.
Trigger ==
    /\ instant = lastMeasure + Period
    /\ Sample.stamp = instant
    /\ samples' = IF samples = <<>> THEN <<>> ELSE Tail(samples)
    /\ lastMeasure' = Sample.stamp
    /\ RollAverage(SumFunction(Sample.energy))
    /\ Measure(SumFunction(Sample.energy))
    /\ section' = IF measure.on THEN Append(section, SumFunction(used)) ELSE section
    /\ used' = [p \in Periphs |-> 0]
    /\ recent' = LET s == Append(recent, SumFunction(used))
                 IN  SubSeq(s, Later(1, Len(s) - HistorySize + 1), Len(s))
    /\ UNCHANGED <<instant, mode, changedAt>>

\* start_measure, from a CPU that writes SET_MEASURE_START: a started measure starts again.
StartMeasure ==
    /\ measure' = [measure EXCEPT !.on = TRUE, !.accum = 0, !.nbsamp = 0]
    /\ section' = <<>>
    /\ UNCHANGED <<instant, mode, changedAt, samples, lastMeasure, history, index, full, average,
                   used, recent>>

\* What stop_measure returns.  It divides by the number of samples: the program ends
\* when there is none yet.
MeanEnergy == (measure.accum \div Period) \div measure.nbsamp

\* stop_measure, from a CPU that reads GET_MEASURE_RES.
StopMeasure ==
    /\ measure.nbsamp > 0
    /\ measure' = [measure EXCEPT !.on = FALSE]
    /\ UNCHANGED <<instant, mode, changedAt, samples, lastMeasure, history, index, full, average,
                   used, recent, section>>

\* Time passes when the sample of this instant is taken.
TimePasses ==
    /\ instant < TraceEnd /\ instant < lastMeasure + Period
    /\ instant' = instant + 1
    /\ used' = [p \in Periphs |-> used[p] + Cost[mode[p]]]
    /\ UNCHANGED <<mode, changedAt, samples, lastMeasure, history, index, full, average, measure, recent, section>>

TraceNext ==
    \/ \E p \in Periphs, m \in Modes : ChangeMode(p, m)
    \/ Trigger \/ TimePasses \/ StartMeasure \/ StopMeasure

TraceSpec == TraceInit /\ [][TraceNext]_traceVars
-----------------------------------------------------------------------------
(* Each sample holds the energy each peripheral used in its period, although modes
   change several times in it, at its first instant or at its last, before or after the
   sample is taken (etrace_if_mode_change, get_sample); and the rolling average is the
   mean of the last samples, as many as there are up to the size of the history
   (roll_average).  A measure adds up the samples that end in its section, all of them
   (start_measure, stop_measure). *)
EnergyIsIntegral ==
    /\ instant = lastMeasure + Period => Sample.energy = used
    /\ recent # <<>> => average = SumFunction(recent) \div Len(recent)
    /\ section # <<>> => MeanEnergy = SumFunction(section) \div (Period * Len(section))
=============================================================================

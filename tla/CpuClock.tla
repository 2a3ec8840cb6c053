------------------------------ MODULE CpuClock ------------------------------
(***************************************************************************)
(* The time and the cycles of the CPUs of a qemu_wrapper.  A CPU gives the *)
(* simulator a number of instruction cycles and sleeps as long as they     *)
(* take at its frequency level; meanwhile other CPUs change that level and *)
(* read its counter, which wakes it to account for the part that has       *)
(* passed (m_ev_sync).  Between slices it accesses the bus, which takes    *)
(* time of its own.                                                        *)
(*                                                                         *)
(* A level is a speed in units of work per tick of the simulated clock,    *)
(* and a cycle is Cycle units of work: arithmetic that is exact where the  *)
(* code has doubles.  A nanosecond is Ns ticks.                            *)
(***************************************************************************)
EXTENDS Integers

CONSTANTS
    ClockCpus,
    Readers,        \* those that read the time and the counters
    Masters,        \* those whose accesses go to the bus
    Speed,          \* m_cpu_fv_percents: the speed of each level
    Cycle, Ns,
    Half,           \* what a half of a counter can hold
    Slices,         \* numbers of cycles the simulator hands over
    ClockEnd,       \* bound on the time
    MaxSyncs        \* bound on the interruptions of a slice

Levels == DOMAIN Speed
Idle == -1          \* the place of m_cpu_nb_fv_levels in the log

ASSUME ClockAssumption ==
    /\ ClockCpus \subseteq 0 .. 255 /\ Readers \subseteq ClockCpus /\ Masters \subseteq ClockCpus
    /\ Speed \in [Levels -> Nat \ {0}] /\ Levels \subseteq Nat
    /\ Cycle \in Nat \ {0} /\ Ns \in Nat \ {0} /\ Half \in Nat \ {0}
    /\ Slices \subseteq Nat \ {0} /\ ClockEnd \in Nat /\ MaxSyncs \in Nat

VARIABLES
    now,
    doing,          \* where each CPU is: "run", "slice", "sync" (notified), "read", "idle", "bus"
    level,          \* m_fv_level
    total,          \* m_no_total_cycles
    n, base, left,  \* ncycles, start_no_cycles and cycles (in work) of a slice
    since, at,      \* ps_start_time (starttime of an access) and start_fv_level
    asked,          \* the CPU whose counter a CPU reads
    high,           \* m_last_no_cycles_high, None when there is none
    got,            \* the half software has read, until it reads the other one
    logged,         \* m_ns_time_at_fv
    spent,          \* ticks at each level since `since`
    work, syncs,    \* work done and interruptions since the slice began
    fresh,          \* the count, or the time, when its first half was read
    sctime,         \* m_last_read_sctime, None when there is none
    half            \* the half of the time that was read first

sleepVars == <<n, base, left, since, at>>
readVars == <<asked, high, got, fresh, sctime, half>>
clockVars == <<now, doing, level, total, sleepVars, readVars, logged, spent, work, syncs>>

None == -1

\* One entry for each CPU.
Each(v) == [c \in ClockCpus |-> v]
NoTime == [l \in Levels |-> 0]

ClockInit ==
    /\ now = 0
    /\ doing = Each("run") /\ level \in {Each(l) : l \in {k \in Levels : k + 1 \notin Levels}}
    /\ total = Each(0) /\ n = Each(0) /\ base = Each(0) /\ left = Each(0)
    /\ since = Each(0) /\ at = level
    /\ asked = [c \in ClockCpus |-> c] /\ high = Each(None) /\ got = Each(0) /\ fresh = Each(0)
    /\ sctime = Each(None) /\ half = Each("low")
    /\ logged = Each([l \in Levels \cup {Idle} |-> 0])
    /\ spent = Each(NoTime) /\ work = Each(0) /\ syncs = Each(0)
-----------------------------------------------------------------------------
\* wait (cycles * m_ns_per_cpu_cycle_max_fv * 100 / start_fv_percent, m_ev_sync): sc_time
\* rounds to the nearest tick.
Until(c) == since[c] + (left[c] + Speed[at[c]] \div 2) \div Speed[at[c]]

Awake(c) == doing[c] = "sync" \/ (doing[c] = "slice" /\ now >= Until(c))

\* Everything that runs at this time has run.
Settled == \A c \in ClockCpus : ~Awake(c)

Sleep(c) ==
    /\ since' = [since EXCEPT ![c] = now]
    /\ at' = [at EXCEPT ![c] = level[c]]
    /\ spent' = [spent EXCEPT ![c] = NoTime]

\* The start of a wait is forgotten when it ends.
Forget(c) ==
    /\ since' = [since EXCEPT ![c] = 0]
    /\ spent' = [spent EXCEPT ![c] = NoTime]
    /\ UNCHANGED at

\* consume_instruction_cycles_with_sync up to its first wait.
Consume(c, k) ==
    /\ doing[c] = "run"
    /\ doing' = [doing EXCEPT ![c] = "slice"]
    /\ n' = [n EXCEPT ![c] = k] /\ base' = [base EXCEPT ![c] = total[c]]
    /\ left' = [left EXCEPT ![c] = k * Cycle]
    /\ Sleep(c)
    /\ work' = [work EXCEPT ![c] = 0] /\ syncs' = [syncs EXCEPT ![c] = 0]
    /\ UNCHANGED <<now, level, total, readVars, logged>>

\* The level that gets the time of a wait, and a CPU that looks at it too late.
LevelOf_Now(c) == level[c]
LevelOf(c) == at[c]

\* The rest of its loop.
Account(c) ==
    LET passed == now - since[c]
        done == passed * Speed[at[c]]
    IN  /\ Awake(c)
        /\ logged' = [logged EXCEPT ![c][LevelOf(c)] = @ + passed \div Ns]
        /\ left' = [left EXCEPT ![c] = @ - done]
        /\ syncs' = [syncs EXCEPT ![c] = @ + 1]
        /\ IF left'[c] >= Cycle
             THEN /\ total' = [total EXCEPT ![c] = @ + done \div Cycle]
                  /\ doing' = [doing EXCEPT ![c] = "slice"]
                  /\ Sleep(c)
             ELSE /\ total' = [total EXCEPT ![c] = base[c] + n[c]]
                  /\ doing' = [doing EXCEPT ![c] = "run"]
                  /\ Forget(c)
        /\ UNCHANGED <<now, level, n, base, readVars, work>>

\* cpu_thread sleeps until an interrupt.
Doze(c) ==
    /\ doing[c] = "run"
    /\ doing' = [doing EXCEPT ![c] = "idle"]
    /\ since' = [since EXCEPT ![c] = now]
    /\ UNCHANGED <<now, level, total, n, base, left, at, readVars, logged, spent, work, syncs>>

Wakeup(c) ==
    /\ doing[c] = "idle"
    /\ doing' = [doing EXCEPT ![c] = "run"]
    /\ logged' = [logged EXCEPT ![c][Idle] = @ + (now - since[c]) \div Ns]
    /\ Forget(c)
    /\ UNCHANGED <<now, level, total, n, base, left, readVars, work, syncs>>

\* systemc_qemu_read_memory, systemc_qemu_write_memory: the CPU waits for a device.
Access(c) ==
    /\ doing[c] = "run"
    /\ doing' = [doing EXCEPT ![c] = "bus"]
    /\ since' = [since EXCEPT ![c] = now]
    /\ UNCHANGED <<now, level, total, n, base, left, at, readVars, logged, spent, work, syncs>>

\* The answer.  The time of the access is logged in ticks, at the level it ends with.
AccessDone(c) ==
    /\ doing[c] = "bus"
    /\ doing' = [doing EXCEPT ![c] = "run"]
    /\ logged' = [logged EXCEPT ![c][level[c]] = @ + (now - since[c])]
    /\ Forget(c)
    /\ UNCHANGED <<now, level, total, n, base, left, readVars, work, syncs>>
-----------------------------------------------------------------------------
\* m_ev_sync.notify (): it only wakes a CPU that waits for it.
Notify(S) == [c \in ClockCpus |-> IF c \in S /\ doing[c] = "slice" THEN "sync" ELSE doing[c]]

\* set_cpu_fv_level that changes the level under a CPU that sleeps.
SetLevel_NoSync(S, l) ==
    /\ level' = [c \in ClockCpus |-> IF c \in S THEN l ELSE level[c]]
    /\ UNCHANGED doing

SetLevel(S, l) ==
    /\ level' = [c \in ClockCpus |-> IF c \in S THEN l ELSE level[c]]
    /\ doing' = Notify({c \in S : level[c] # l})

\* A CPU number and a level in one word, as qemu_drv_chr_ioctl_set_cpux_fv puts them.
CpuxWord(t, l) == t + 256 * l

\* The CPU executes the driver, or a program on the bare machine.
WriteLevel(c) ==
    /\ doing[c] = "run"
    /\ \A t \in ClockCpus : doing[t] = "slice" => syncs[t] < MaxSyncs
    /\ \E l \in Levels :
         \/ SetLevel({c}, l)                            \* SET_SYSTEMC_CRT_CPU_FV_LEVEL
         \/ SetLevel(ClockCpus, l)                      \* SET_SYSTEMC_ALL_FV_LEVEL
         \/ \E w \in {CpuxWord(t, l) : t \in ClockCpus} :
              SetLevel({w % 256}, w \div 256)           \* SET_SYSTEMC_CPUX_FV_LEVEL
    /\ UNCHANGED <<now, total, sleepVars, readVars, logged, spent, work, syncs>>

\* timeout_thread makes all CPUs account for their time before the graph is drawn.
Timeout ==
    /\ \A c \in ClockCpus : doing[c] = "slice" => syncs[c] < MaxSyncs
    /\ doing' = Notify(ClockCpus)
    /\ UNCHANGED <<now, level, total, sleepVars, readVars, logged, spent, work, syncs>>

\* get_no_cycles that trusts the counter as it is.
Synced_No(c) == doing
Synced(c) == Notify({c})

\* A register of the group GET_NO_CYCLES_CPUX, first read: it waits a delta cycle.
ReadCycles(c, t) ==
    /\ doing[c] = "run" /\ high[c] = None /\ sctime[c] = None
    /\ doing[t] = "slice" => syncs[t] < MaxSyncs
    /\ asked' = [asked EXCEPT ![c] = t]
    /\ doing' = [Synced(t) EXCEPT ![c] = "read"]
    /\ UNCHANGED <<now, level, total, sleepVars, high, got, fresh, sctime, half, logged, spent, work, syncs>>

ReadLow(c) ==
    LET v == total[asked[c]]
    IN  /\ doing[c] = "read" /\ Settled
        /\ doing' = [doing EXCEPT ![c] = "run"]
        /\ high' = [high EXCEPT ![c] = v \div Half]
        /\ got' = [got EXCEPT ![c] = v % Half]
        /\ fresh' = [fresh EXCEPT ![c] = v]
        /\ UNCHANGED <<now, level, total, sleepVars, asked, sctime, half, logged, spent, work, syncs>>

HighHalf(c) == high[c]

\* The second read gives the other half.
ReadHigh(c) ==
    /\ doing[c] = "run" /\ high[c] # None
    /\ high' = [high EXCEPT ![c] = None]
    /\ asked' = [asked EXCEPT ![c] = c]
    /\ got' = [got EXCEPT ![c] = 0] /\ fresh' = [fresh EXCEPT ![c] = 0]
    /\ UNCHANGED <<now, doing, level, total, sleepVars, sctime, half, logged, spent, work, syncs>>

Part(h, v) == IF h = "low" THEN v % Half ELSE v \div Half
Other(h) == IF h = "low" THEN "high" ELSE "low"

\* GET_SYSTEMC_TIME_LOW or _HIGH: the first read latches the time in nanoseconds.  Each
\* kind of register has a latch of its own, but software reads one pair at a time.
LatchTime(c, h) ==
    LET t == now \div Ns
    IN  /\ doing[c] = "run" /\ high[c] = None /\ sctime[c] = None
        /\ sctime' = [sctime EXCEPT ![c] = t]
        /\ half' = [half EXCEPT ![c] = h]
        /\ got' = [got EXCEPT ![c] = Part(h, t)] /\ fresh' = [fresh EXCEPT ![c] = t]
        /\ UNCHANGED <<now, doing, level, total, sleepVars, asked, high, logged, spent, work, syncs>>

\* The second read gives the other half of what was latched.
TimeHalf(c) == Part(Other(half[c]), sctime[c])

ReadTime(c) ==
    /\ doing[c] = "run" /\ sctime[c] # None
    /\ sctime' = [sctime EXCEPT ![c] = None]
    /\ half' = [half EXCEPT ![c] = "low"]
    /\ got' = [got EXCEPT ![c] = 0] /\ fresh' = [fresh EXCEPT ![c] = 0]
    /\ UNCHANGED <<now, doing, level, total, sleepVars, asked, high, logged, spent, work, syncs>>

\* Time passes when no CPU has anything to do now.
Tick ==
    /\ now < ClockEnd /\ Settled
    /\ \A c \in ClockCpus : doing[c] \in {"slice", "idle", "bus"}
    /\ now' = now + 1
    /\ spent' = [c \in ClockCpus |->
           IF doing[c] = "slice" THEN [spent[c] EXCEPT ![level[c]] = @ + 1] ELSE spent[c]]
    /\ work' = [c \in ClockCpus |->
           IF doing[c] = "slice" THEN work[c] + Speed[level[c]] ELSE work[c]]
    /\ UNCHANGED <<doing, level, total, sleepVars, readVars, logged, syncs>>

ClockNext ==
    \/ \E c \in ClockCpus :
         \/ \E k \in Slices : Consume(c, k)
         \/ Account(c) \/ Doze(c) \/ Wakeup(c)
         \/ WriteLevel(c)
    \/ \E c \in Readers :
         \/ \E t \in ClockCpus : ReadCycles(c, t)
         \/ ReadLow(c) \/ ReadHigh(c)
         \/ \E h \in {"low", "high"} : LatchTime(c, h)
         \/ ReadTime(c)
    \/ \E c \in Masters : Access(c) \/ AccessDone(c)
    \/ Timeout \/ Tick

ClockSpec == ClockInit /\ [][ClockNext]_clockVars
-----------------------------------------------------------------------------
(* The counter another CPU reads is that of now: the cycles of the slices done and of
   the one going on, whatever its frequency was meanwhile, less what each interruption
   of the slice rounds off; and both halves of a count, or of the time, are of one
   instant although the CPU runs on between the reads (get_no_cycles,
   GET_NO_CYCLES_CPUX, GET_SYSTEMC_TIME_LOW). *)
ReadsNow ==
    \A c \in ClockCpus :
      /\ doing[c] = "read" /\ doing'[c] = "run" =>
           LET t == asked[c]
               done == IF doing[t] = "slice" THEN base[t] * Cycle + work[t] ELSE total[t] * Cycle
           IN  fresh'[c] * Cycle \in done - syncs[t] * (Cycle - 1) .. done
      /\ high[c] # None /\ high'[c] = None => got[c] + Half * HighHalf(c) = fresh[c]
      /\ sctime[c] # None /\ sctime'[c] = None =>
           LET low == IF half[c] = "low" THEN got[c] ELSE TimeHalf(c)
               hi == IF half[c] = "low" THEN TimeHalf(c) ELSE got[c]
           IN  low + Half * hi = fresh[c]

CountIsFresh == [][ReadsNow]_clockVars

(* A slice takes the time of its cycles, up to one, at the frequencies that were set
   while it lasted (consume_instruction_cycles_with_sync, set_cpu_fv_level). *)
WorksItsCycles ==
    \A c \in ClockCpus :
      doing[c] \in {"slice", "sync"} /\ doing'[c] = "run" =>
        work[c] > (n[c] - 1) * Cycle /\ work[c] - n[c] * Cycle < Speed[at[c]]

CyclesTakeTheirTime == [][WorksItsCycles]_clockVars

(* What the log gets, and nothing else ever does: each time a CPU accounts for a part of
   a slice, every level gets the time spent at it, although the level is changed by
   others while the CPU sleeps; the idle place gets the time it slept for an interrupt.
   These are nanoseconds.  An access of the bus is not logged as it should be: it counts
   in ticks, picoseconds in the code, and all at the level that is set when it ends
   (add_time_at_fv, of cpu_logs and of qemu_cpu_wrapper). *)
LogsItsTime ==
    \A c \in ClockCpus : \A l \in Levels \cup {Idle} :
      LET added == logged'[c][l] - logged[c][l]
          wakes(d) == doing[c] = d /\ doing'[c] = "run"
      IN  IF syncs'[c] > syncs[c] /\ l \in Levels THEN added = spent[c][l] \div Ns
          ELSE IF wakes("idle") /\ l = Idle THEN added = (now - since[c]) \div Ns
          ELSE IF wakes("bus") /\ l = level[c] THEN added = now - since[c]
          ELSE added = 0

TimeIsAtItsLevel == [][LogsItsTime]_clockVars
=============================================================================

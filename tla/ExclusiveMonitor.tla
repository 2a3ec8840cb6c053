-------------------------- MODULE ExclusiveMonitor --------------------------
(***************************************************************************)
(* The exclusive list of the platforms' main.cpp, behind the load- and     *)
(* store-exclusive instructions of the CPUs.  energizer and thumper keep   *)
(* one owner per word, the first CPU that loaded it; roger keeps the set   *)
(* of CPUs that loaded it and forgets them all when one of them stores.    *)
(*                                                                         *)
(* The CPUs are external: each repeats load-exclusive, store-exclusive on  *)
(* words it chooses.  A store-exclusive is memory_test_exclusive and, if   *)
(* that grants it, the store and, on energizer and thumper,                *)
(* memory_clear_exclusive; on the platforms of YieldingStores other CPUs   *)
(* may run before the store.                                               *)
(***************************************************************************)
EXTENDS Naturals, FiniteSets, SequencesExt

CONSTANTS
    Cpus,
    Words,          \* addresses & 0xFFFFFFFC
    Platforms,      \* platforms checked: "roger", "energizer", "thumper"
    YieldingStores, \* those where a CPU may run between the test and the store
    MaxStores       \* bound: successful store-exclusives

ASSUME MonitorAssumption ==
    /\ Platforms \subseteq {"roger", "energizer", "thumper"}
    /\ YieldingStores \subseteq Platforms
    /\ MaxStores \in Nat

VARIABLES
    platform,   \* the program that was built: it never changes
    list,       \* mem_exclusive[0 .. no_mem_exclusive - 1]
    version,    \* how often each word was stored to
    cpu         \* each CPU: its instruction, its word, the version it loaded

monitorVars == <<platform, list, version, cpu>>

IsRoger == platform = "roger"
StoreYields == platform \in YieldingStores

MonitorInit == /\ platform \in Platforms
        /\ list = <<>>
        /\ version = [w \in Words |-> 0]
        /\ cpu \in [Cpus -> {[at |-> "idle", word |-> w, seen |-> 0] : w \in Words}]
-----------------------------------------------------------------------------
Find(w) == {i \in DOMAIN list : list[i].addr = w}
First(w) == CHOOSE i \in Find(w) : \A j \in Find(w) : i <= j
Delete(w) == IF Find(w) = {} THEN list ELSE RemoveAt(list, First(w))

\* memory_mark_exclusive of energizer and thumper: the first CPU keeps it.
MarkOwner(c, w) ==
    IF Find(w) = {} THEN Append(list, [addr |-> w, cpus |-> {c}]) ELSE list

\* memory_mark_exclusive of roger.
MarkSharers(c, w) ==
    IF Find(w) = {} THEN Append(list, [addr |-> w, cpus |-> {c}])
    ELSE [list EXCEPT ![First(w)].cpus = @ \cup {c}]

\* memory_test_exclusive that only looks for the address.
Granted_AnyCpu(c, w) == Find(w) # {}

\* memory_test_exclusive returns 0.
Granted(c, w) == Find(w) # {} /\ c \in list[First(w)].cpus

\* What the test leaves: roger deletes the entry when it grants the store.
AfterTest(c, w) == IF IsRoger /\ Granted(c, w) THEN Delete(w) ELSE list

\* memory_clear_exclusive after the store.
AfterStore(w) == IF IsRoger THEN list ELSE Delete(w)
-----------------------------------------------------------------------------
TotalStores == FoldFunction(LAMBDA a, b : a + b, 0, version)

LoadExclusive(c, w) ==
    /\ cpu[c].at = "idle"
    /\ TotalStores < MaxStores
    /\ list' = IF IsRoger THEN MarkSharers(c, w) ELSE MarkOwner(c, w)
    /\ cpu' = [cpu EXCEPT ![c] = [at |-> "linked", word |-> w, seen |-> version[w]]]
    /\ UNCHANGED <<platform, version>>

\* memory_test_exclusive, then the store if nothing else may run before it.
TestExclusive(c) ==
    LET w == cpu[c].word
    IN  /\ cpu[c].at = "linked"
        /\ UNCHANGED platform
        /\ IF ~Granted(c, w)
             THEN /\ cpu' = [cpu EXCEPT ![c].at = "idle"]
                  /\ UNCHANGED <<list, version>>
             ELSE IF StoreYields
             THEN /\ cpu' = [cpu EXCEPT ![c].at = "store"]
                  /\ list' = AfterTest(c, w)
                  /\ UNCHANGED version
             ELSE /\ cpu' = [cpu EXCEPT ![c].at = "idle"]
                  /\ list' = IF IsRoger THEN AfterTest(c, w) ELSE AfterStore(w)
                  /\ version' = [version EXCEPT ![w] = @ + 1]

StoreExclusive(c) ==
    LET w == cpu[c].word
    IN  /\ cpu[c].at = "store"
        /\ UNCHANGED platform
        /\ cpu' = [cpu EXCEPT ![c].at = "idle"]
        /\ list' = AfterStore(w)
        /\ version' = [version EXCEPT ![w] = @ + 1]

CpuStep(c) == (\E w \in Words : LoadExclusive(c, w)) \/ TestExclusive(c) \/ StoreExclusive(c)

MonitorNext == \E c \in Cpus : CpuStep(c)

MonitorSpec == MonitorInit /\ [][MonitorNext]_monitorVars
-----------------------------------------------------------------------------
\* A store-exclusive that succeeds overwrites the value its CPU loaded.
OverwritesWhatItLoaded ==
    \A c \in Cpus :
        /\ cpu[c].at \in {"linked", "store"}
        /\ cpu'[c].at = "idle"
        /\ version'[cpu[c].word] # version[cpu[c].word]
        => cpu[c].seen = version[cpu[c].word]

(* Whatever memory_test_exclusive grants overwrites the value its CPU loaded: no *)
(* update of another CPU is lost.                                                *)
NoLostUpdate == [][OverwritesWhatItLoaded]_monitorVars

=============================================================================

------------------------------ MODULE BusMemory ------------------------------
(***************************************************************************)
(* What the bus promises to the software that runs on the CPUs: a memory   *)
(* with write buffers.  A plain write is posted: it waits behind the       *)
(* earlier writes of the same CPU to the same slave and may be overtaken   *)
(* by anything else.  A read, and a write to an I/O address, starts only   *)
(* when the CPU has no write posted, and is performed atomically between   *)
(* its start and its end.  A written value names its writer and its place  *)
(* n in the program order of that CPU.                                     *)
(***************************************************************************)
EXTENDS Naturals

CONSTANTS Cpus, Addrs,
          SlaveOf(_),          \* the slave that decodes an address
          IoAddrs              \* the addresses accessed with bIO

VARIABLES mem,      \* last write performed at each address
          posted,   \* the writes of each CPU not yet performed
          reading   \* the read of each CPU: its address, its value once known

busVars == <<mem, posted, reading>>

NoRead == [phase |-> "none"]
Asked(a) == [phase |-> "asked", addr |-> a]
Answered(v) == [phase |-> "answered", val |-> v]

Write(a, v) == [addr |-> a, val |-> v]

PostWrite(c, a, v) ==
    /\ reading[c] = NoRead
    /\ a \in IoAddrs => posted[c] = {}
    /\ v.cpu = c /\ \A w \in posted[c] : w.val.n < v.n
    /\ posted' = [posted EXCEPT ![c] = @ \cup {Write(a, v)}]
    /\ UNCHANGED <<mem, reading>>

\* The oldest write of the CPU to one slave is performed.
Perform(c, w) ==
    /\ w \in posted[c]
    /\ \A u \in posted[c] \ {w} : SlaveOf(u.addr) = SlaveOf(w.addr) => w.val.n < u.val.n
    /\ mem' = [mem EXCEPT ![w.addr] = w.val]
    /\ posted' = [posted EXCEPT ![c] = @ \ {w}]
    /\ UNCHANGED reading

AskRead(c, a) ==
    /\ reading[c] = NoRead
    /\ posted[c] = {}
    /\ reading' = [reading EXCEPT ![c] = Asked(a)]
    /\ UNCHANGED <<mem, posted>>

AnswerRead(c) ==
    /\ reading[c].phase = "asked"
    /\ reading' = [reading EXCEPT ![c] = Answered(mem[reading[c].addr])]
    /\ UNCHANGED <<mem, posted>>

EndRead(c) ==
    /\ reading[c].phase = "answered"
    /\ reading' = [reading EXCEPT ![c] = NoRead]
    /\ UNCHANGED <<mem, posted>>

Init(v) == /\ mem = [a \in Addrs |-> v]
           /\ posted = [c \in Cpus |-> {}]
           /\ reading = [c \in Cpus |-> NoRead]

Next(Values) ==
    \E c \in Cpus :
       \/ \E a \in Addrs : AskRead(c, a) \/ \E v \in Values : PostWrite(c, a, v)
       \/ \E w \in posted[c] : Perform(c, w)
       \/ AnswerRead(c)
       \/ EndRead(c)
=============================================================================

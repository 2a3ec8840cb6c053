---------------------------- MODULE NocTransport ----------------------------
(***************************************************************************)
(* The path of a bus access: the CPU thread of qemu_cpu_wrapper and its    *)
(* pool of requests, the master and slave ports of the interconnect with   *)
(* their dispatcher threads, the slave device, and the response thread of  *)
(* master_device.                                                          *)
(*                                                                         *)
(* The four queues of the interconnect are bounded fifos (module MwsrFifo  *)
(* justifies that): a Write is enabled when there is room, a Read when     *)
(* there is an item.  SystemC threads yield only in wait(), so everything  *)
(* a thread does between two waits is one step.                            *)
(***************************************************************************)
EXTENDS Naturals, Sequences, FiniteSets, SequencesExt

CONSTANTS
    Cpus,             \* the masters, one qemu_cpu_wrapper each
    Slaves,           \* the slave devices
    Addrs,            \* word addresses
    SlaveOf(_),       \* the slave an address is mapped to (node<n>.map)
    IoAddrs,          \* the addresses QEMU accesses with bIO = 1
    Posting,          \* the CPUs with m_unblocking_write set: they post writes
    QueueSize,        \* capacity of each queue of the interconnect (8)
    PoolSize,         \* requests of a CPU (100)
    MaxOps            \* bound: accesses a CPU makes

ASSUME TransportAssumption ==
    /\ QueueSize \in Nat \ {0}
    /\ PoolSize \in Nat \ {0}
    /\ MaxOps \in Nat
    /\ Posting \subseteq Cpus
    /\ \A a \in Addrs : SlaveOf(a) \in Slaves

VARIABLES
    cpu,       \* state of each cpu_thread, with the access it is making
    ops,       \* accesses each CPU has started
    free,      \* m_headFree, a stack of transaction ids
    busy,      \* m_headBusy, the requests in use by transaction id
    evEmpty,   \* m_evEmpty was notified for the next delta cycle
    mReq,      \* m_queue_requests of each interconnect_master
    mHeld,     \* the request its dispatcher holds, as a sequence of at most one
    mRsp,      \* m_queue_responses of each interconnect_master
    sReq,      \* m_queue_requests of each interconnect_slave
    sRsp,      \* m_queue_responses of each interconnect_slave
    sHeld,     \* the response its dispatcher holds
    dev,       \* the request thread of each slave device
    mem        \* what the devices store: the last write performed

cpuVars == <<cpu, ops, free, busy, evEmpty>>
nocVars == <<mReq, mHeld, mRsp, sReq, sRsp, sHeld>>
devVars == <<dev, mem>>
vars == <<cpu, ops, free, busy, evEmpty, mReq, mHeld, mRsp, sReq, sRsp, sHeld, dev, mem>>

Tids == 1 .. PoolSize

\* A written value names its writer and its place in the program order.
Values == [cpu : Cpus, n : 1 .. MaxOps]
Nothing == [n |-> 0]          \* initial memory, rcv_data before the response

Accesses == [cmd : {"read", "write"}, addr : Addrs, val : Values \cup {Nothing}]
Request(c, t, o) == [src |-> c, tid |-> t, cmd |-> o.cmd, addr |-> o.addr, val |-> o.val]
Response(r, v) == [src |-> r.src, tid |-> r.tid, val |-> v]

Running == [at |-> "run"]
Draining(o) == [at |-> "drain", op |-> o]
Putting(r) == [at |-> "put", req |-> r]
Waiting(t) == [at |-> "wait", tid |-> t]

Idle == [at |-> "get"]
Serving(r) == [at |-> "serve", req |-> r]
Responding(r) == [at |-> "respond", rsp |-> r]

Room(q) == Len(q) < QueueSize

Init == /\ cpu = [c \in Cpus |-> Running]
        /\ ops = [c \in Cpus |-> 0]
        /\ free = [c \in Cpus |-> [i \in Tids |-> i]]
        /\ busy = [c \in Cpus |-> <<>>]
        /\ evEmpty = [c \in Cpus |-> FALSE]
        /\ mReq = [c \in Cpus |-> <<>>]
        /\ mHeld = [c \in Cpus |-> <<>>]
        /\ mRsp = [c \in Cpus |-> <<>>]
        /\ sReq = [s \in Slaves |-> <<>>]
        /\ sRsp = [s \in Slaves |-> <<>>]
        /\ sHeld = [s \in Slaves |-> <<>>]
        /\ dev = [s \in Slaves |-> Idle]
        /\ mem = [a \in Addrs |-> Nothing]
-----------------------------------------------------------------------------
(***************************************************************************)
(* qemu_wrapper_requests: the pool.                                        *)
(***************************************************************************)

\* FreeRequest without the m_evEmpty notification.
FreeRequest_Silent(c, t) ==
    /\ busy' = [busy EXCEPT ![c] = [u \in DOMAIN @ \ {t} |-> @[u]]]
    /\ free' = [free EXCEPT ![c] = <<t>> \o @]
    /\ UNCHANGED evEmpty

FreeRequest(c, t) ==
    /\ busy' = [busy EXCEPT ![c] = [u \in DOMAIN @ \ {t} |-> @[u]]]
    /\ free' = [free EXCEPT ![c] = <<t>> \o @]
    /\ evEmpty' = [evEmpty EXCEPT ![c] = @ \/ DOMAIN busy[c] = {t}]

WaitEmpty(c, o) == c \in Posting /\ (o.cmd = "read" \/ o.addr \in IoAddrs)

\* Where the thread goes once its request is in the queue.
AfterPut(r) == IF r.src \in Posting /\ r.cmd = "write" THEN Running ELSE Waiting(r.tid)

(***************************************************************************)
(* GetNewRequest takes a request off the free stack, send_req puts it in   *)
(* the master's queue or blocks there.  With an empty stack the program    *)
(* exits (NeverOutOfRequests).                                             *)
(***************************************************************************)
Issue(c, o) ==
    /\ free[c] # <<>>
    /\ LET t == Head(free[c])
           r == Request(c, t, o)
       IN  /\ free' = [free EXCEPT ![c] = Tail(@)]
           /\ busy' = [busy EXCEPT ![c] =
                         [u \in DOMAIN @ \cup {t} |->
                            IF u = t THEN [bWrite |-> o.cmd = "write", bDone |-> FALSE,
                                           rcv |-> Nothing]
                                     ELSE @[u]]]
           /\ IF Room(mReq[c])
              THEN /\ mReq' = [mReq EXCEPT ![c] = Append(@, r)]
                   /\ cpu' = [cpu EXCEPT ![c] = AfterPut(r)]
              ELSE /\ cpu' = [cpu EXCEPT ![c] = Putting(r)]
                   /\ UNCHANGED mReq
    /\ UNCHANGED <<mHeld, mRsp, sReq, sRsp, sHeld, devVars>>

\* The CPU executes a load or a store that reaches the bus.
Access(c, cmd, a) ==
    LET o == [cmd |-> cmd, addr |-> a,
              val |-> IF cmd = "write" THEN [cpu |-> c, n |-> ops[c] + 1] ELSE Nothing]
    IN  /\ cpu[c] = Running
        /\ ops[c] < MaxOps
        /\ ops' = [ops EXCEPT ![c] = @ + 1]
        /\ UNCHANGED evEmpty
        /\ IF WaitEmpty(c, o) /\ DOMAIN busy[c] # {}
           THEN /\ cpu' = [cpu EXCEPT ![c] = Draining(o)]
                /\ UNCHANGED <<free, busy, nocVars, devVars>>
           ELSE Issue(c, o)

\* The delta cycle m_evEmpty was notified for: a draining thread tests the pool again.
FireEmpty(c) ==
    /\ evEmpty[c]
    /\ evEmpty' = [evEmpty EXCEPT ![c] = FALSE]
    /\ UNCHANGED ops
    /\ IF cpu[c].at = "drain" /\ DOMAIN busy[c] = {}
       THEN Issue(c, cpu[c].op)
       ELSE UNCHANGED <<cpu, free, busy, nocVars, devVars>>

\* The thread blocked in put finds room.
FinishPut(c) ==
    /\ cpu[c].at = "put"
    /\ Room(mReq[c])
    /\ mReq' = [mReq EXCEPT ![c] = Append(@, cpu[c].req)]
    /\ cpu' = [cpu EXCEPT ![c] = AfterPut(cpu[c].req)]
    /\ UNCHANGED <<ops, free, busy, evEmpty, mHeld, mRsp, sReq, sRsp, sHeld, devVars>>

\* The thread waiting for evDone finds bDone set, frees the request and returns.
Complete(c) ==
    /\ cpu[c].at = "wait"
    /\ busy[c][cpu[c].tid].bDone
    /\ FreeRequest(c, cpu[c].tid)
    /\ cpu' = [cpu EXCEPT ![c] = Running]
    /\ UNCHANGED <<ops, nocVars, devVars>>

(***************************************************************************)
(* response_thread of master_device and rcv_rsp of qemu_cpu_wrapper.  A    *)
(* response for another master or for an unknown id is dropped.            *)
(***************************************************************************)
ReceiveResponse(c) ==
    /\ mRsp[c] # <<>>
    /\ mRsp' = [mRsp EXCEPT ![c] = Tail(@)]
    /\ LET r == Head(mRsp[c]) IN
       IF r.src # c \/ r.tid \notin DOMAIN busy[c]
       THEN UNCHANGED <<free, busy, evEmpty>>
       ELSE IF c \in Posting /\ busy[c][r.tid].bWrite
       THEN FreeRequest(c, r.tid)
       ELSE /\ busy' = [busy EXCEPT ![c][r.tid].bDone = TRUE, ![c][r.tid].rcv = r.val]
            /\ UNCHANGED <<free, evEmpty>>
    /\ UNCHANGED <<cpu, ops, mReq, mHeld, sReq, sRsp, sHeld, devVars>>
-----------------------------------------------------------------------------
(***************************************************************************)
(* The dispatcher threads of the interconnect: read one item, wait a few   *)
(* nanoseconds, write it to the queue on the other side.                   *)
(***************************************************************************)

TakeRequest(c) ==
    /\ mHeld[c] = <<>> /\ mReq[c] # <<>>
    /\ mHeld' = [mHeld EXCEPT ![c] = <<Head(mReq[c])>>]
    /\ mReq' = [mReq EXCEPT ![c] = Tail(@)]
    /\ UNCHANGED <<cpuVars, mRsp, sReq, sRsp, sHeld, devVars>>

\* A dispatcher that puts a request in front of the waiting ones.
DispatchRequest_Overtaking(c) ==
    /\ mHeld[c] # <<>>
    /\ LET r == Head(mHeld[c])  s == SlaveOf(r.addr) IN
         /\ Room(sReq[s])
         /\ sReq' = [sReq EXCEPT ![s] = <<r>> \o @]
    /\ mHeld' = [mHeld EXCEPT ![c] = <<>>]
    /\ UNCHANGED <<cpuVars, mReq, mRsp, sRsp, sHeld, devVars>>

DispatchRequest(c) ==
    /\ mHeld[c] # <<>>
    /\ LET r == Head(mHeld[c])  s == SlaveOf(r.addr) IN
         /\ Room(sReq[s])
         /\ sReq' = [sReq EXCEPT ![s] = Append(@, r)]
    /\ mHeld' = [mHeld EXCEPT ![c] = <<>>]
    /\ UNCHANGED <<cpuVars, mReq, mRsp, sRsp, sHeld, devVars>>

TakeResponse(s) ==
    /\ sHeld[s] = <<>> /\ sRsp[s] # <<>>
    /\ sHeld' = [sHeld EXCEPT ![s] = <<Head(sRsp[s])>>]
    /\ sRsp' = [sRsp EXCEPT ![s] = Tail(@)]
    /\ UNCHANGED <<cpuVars, mReq, mHeld, mRsp, sReq, devVars>>

DispatchResponse(s) ==
    /\ sHeld[s] # <<>>
    /\ LET r == Head(sHeld[s]) IN
         /\ Room(mRsp[r.src])
         /\ mRsp' = [mRsp EXCEPT ![r.src] = Append(@, r)]
    /\ sHeld' = [sHeld EXCEPT ![s] = <<>>]
    /\ UNCHANGED <<cpuVars, mReq, mHeld, sReq, sRsp, devVars>>
-----------------------------------------------------------------------------
(***************************************************************************)
(* slave_device: the request thread gets a request, the handler waits,     *)
(* accesses the device and calls send_rsp, which may block in put.         *)
(***************************************************************************)

GetRequest(s) ==
    /\ dev[s].at = "get" /\ sReq[s] # <<>>
    /\ dev' = [dev EXCEPT ![s] = Serving(Head(sReq[s]))]
    /\ sReq' = [sReq EXCEPT ![s] = Tail(@)]
    /\ UNCHANGED <<cpuVars, mReq, mHeld, mRsp, sRsp, sHeld, mem>>

\* A device that forgets the response when the queue is full.
Serve_DropWhenFull(s) ==
    /\ dev[s].at = "serve"
    /\ LET r == dev[s].req
           rsp == Response(r, IF r.cmd = "read" THEN mem[r.addr] ELSE Nothing)
       IN  /\ mem' = IF r.cmd = "write" THEN [mem EXCEPT ![r.addr] = r.val] ELSE mem
           /\ dev' = [dev EXCEPT ![s] = Idle]
           /\ sRsp' = IF Room(sRsp[s]) THEN [sRsp EXCEPT ![s] = Append(@, rsp)] ELSE sRsp
    /\ UNCHANGED <<cpuVars, mReq, mHeld, mRsp, sReq, sHeld>>

Serve(s) ==
    /\ dev[s].at = "serve"
    /\ LET r == dev[s].req
           rsp == Response(r, IF r.cmd = "read" THEN mem[r.addr] ELSE Nothing)
       IN  /\ mem' = IF r.cmd = "write" THEN [mem EXCEPT ![r.addr] = r.val] ELSE mem
           /\ IF Room(sRsp[s])
              THEN /\ sRsp' = [sRsp EXCEPT ![s] = Append(@, rsp)]
                   /\ dev' = [dev EXCEPT ![s] = Idle]
              ELSE /\ dev' = [dev EXCEPT ![s] = Responding(rsp)]
                   /\ UNCHANGED sRsp
    /\ UNCHANGED <<cpuVars, mReq, mHeld, mRsp, sReq, sHeld>>

Respond(s) ==
    /\ dev[s].at = "respond"
    /\ Room(sRsp[s])
    /\ sRsp' = [sRsp EXCEPT ![s] = Append(@, dev[s].rsp)]
    /\ dev' = [dev EXCEPT ![s] = Idle]
    /\ UNCHANGED <<cpuVars, mReq, mHeld, mRsp, sReq, sHeld, mem>>
-----------------------------------------------------------------------------
MasterStep(c) == \/ FireEmpty(c) \/ FinishPut(c) \/ Complete(c) \/ ReceiveResponse(c)
                 \/ TakeRequest(c) \/ DispatchRequest(c)

SlaveStep(s) == TakeResponse(s) \/ DispatchResponse(s)
                \/ GetRequest(s) \/ Serve(s) \/ Respond(s)

Next == \/ \E c \in Cpus : \/ \E a \in Addrs, cmd \in {"read", "write"} : Access(c, cmd, a)
                           \/ MasterStep(c)
        \/ \E s \in Slaves : SlaveStep(s)

Spec == Init /\ [][Next]_vars

(***************************************************************************)
(* Every thread that can run is run: the kernel empties its list of ready  *)
(* threads before time advances and every wait is finite.  No CPU has to   *)
(* start an access.                                                        *)
(***************************************************************************)
Fairness ==
    /\ \A c \in Cpus :
          /\ WF_vars(FireEmpty(c)) /\ WF_vars(FinishPut(c)) /\ WF_vars(Complete(c))
          /\ WF_vars(ReceiveResponse(c)) /\ WF_vars(TakeRequest(c))
          /\ WF_vars(DispatchRequest(c))
    /\ \A s \in Slaves :
          /\ WF_vars(TakeResponse(s)) /\ WF_vars(DispatchResponse(s))
          /\ WF_vars(GetRequest(s)) /\ WF_vars(Serve(s)) /\ WF_vars(Respond(s))

FairSpec == Spec /\ Fairness
-----------------------------------------------------------------------------
(***************************************************************************)
(* Properties.                                                             *)
(***************************************************************************)

Requests == [src : Cpus, tid : Tids, cmd : {"read", "write"}, addr : Addrs,
             val : Values \cup {Nothing}]
Responses == [src : Cpus, tid : Tids, val : Values \cup {Nothing}]
PoolEntries == [bWrite : BOOLEAN, bDone : BOOLEAN, rcv : Values \cup {Nothing}]
Threads == {Running} \cup {Draining(o) : o \in Accesses}
           \cup {Putting(r) : r \in Requests} \cup {Waiting(t) : t \in Tids}
Devices == {Idle} \cup {Serving(r) : r \in Requests} \cup {Responding(r) : r \in Responses}

Short(q, n) == \A x \in DOMAIN q : Len(q[x]) <= n

TypeOK ==
    /\ cpu \in [Cpus -> Threads]
    /\ ops \in [Cpus -> 0 .. MaxOps]
    /\ free \in [Cpus -> Seq(Tids)]
    /\ DOMAIN busy = Cpus
    /\ \A c \in Cpus : busy[c] \in [DOMAIN busy[c] -> PoolEntries]
    /\ evEmpty \in [Cpus -> BOOLEAN]
    /\ mReq \in [Cpus -> Seq(Requests)] /\ Short(mReq, QueueSize)
    /\ mHeld \in [Cpus -> Seq(Requests)] /\ Short(mHeld, 1)
    /\ mRsp \in [Cpus -> Seq(Responses)] /\ Short(mRsp, QueueSize)
    /\ sReq \in [Slaves -> Seq(Requests)] /\ Short(sReq, QueueSize)
    /\ sRsp \in [Slaves -> Seq(Responses)] /\ Short(sRsp, QueueSize)
    /\ sHeld \in [Slaves -> Seq(Responses)] /\ Short(sHeld, 1)
    /\ dev \in [Slaves -> Devices]
    /\ mem \in [Addrs -> Values \cup {Nothing}]

(***************************************************************************)
(* Every place between the thread that issued a transaction and the one    *)
(* that receives the response, and the messages it holds.                  *)
(***************************************************************************)
Places == ({"put", "mReq", "mHeld", "mRsp"} \X Cpus) \cup ({"sReq", "serve", "respond", "sRsp", "sHeld"} \X Slaves)

ThreadHolds(c) == IF cpu[c].at = "put" THEN <<cpu[c].req>> ELSE <<>>
DeviceServes(s) == IF dev[s].at = "serve" THEN <<dev[s].req>> ELSE <<>>
DeviceResponds(s) == IF dev[s].at = "respond" THEN <<dev[s].rsp>> ELSE <<>>

Holds(x) ==
    CASE x[1] = "put" -> ThreadHolds(x[2])
      [] x[1] = "mReq" -> mReq[x[2]]
      [] x[1] = "mHeld" -> mHeld[x[2]]
      [] x[1] = "mRsp" -> mRsp[x[2]]
      [] x[1] = "sReq" -> sReq[x[2]]
      [] x[1] = "serve" -> DeviceServes(x[2])
      [] x[1] = "respond" -> DeviceResponds(x[2])
      [] x[1] = "sRsp" -> sRsp[x[2]]
      [] x[1] = "sHeld" -> sHeld[x[2]]

\* The positions of the messages that carry transaction t of CPU c.
Carries(m, c, t) == m.src = c /\ m.tid = t
Carriers(c, t) ==
    UNION {{x} \X {i \in DOMAIN Holds(x) : Carries(Holds(x)[i], c, t)} : x \in Places}

(* Every transaction is somewhere exactly once: a request in use is        *)
(* carried by one message or is done, a free one by none, and the pool     *)
(* neither loses nor duplicates a request.  So a response is never routed  *)
(* to another master, never unknown (rcv_rsp, response_thread print an     *)
(* error and drop it), and an id is not reused while a response to its     *)
(* last use is on the way.                                                 *)
TransactionsConserved ==
    \A c \in Cpus :
      /\ IsInjective(free[c])
      /\ ToSet(free[c]) = Tids \ DOMAIN busy[c]
      /\ \A t \in Tids : Cardinality(Carriers(c, t)) =
                          IF t \in DOMAIN busy[c] /\ ~busy[c][t].bDone THEN 1 ELSE 0
      /\ \A i \in DOMAIN mRsp[c] : mRsp[c][i].src = c

(* GetNewRequest always finds a request in the pool: the queues on the     *)
(* path block a CPU before it has used them all ("no request available     *)
(* for qemu_wrapper_requests::GetNewRequest" exits the simulation).        *)
NeverOutOfRequests ==
    \A c \in Cpus : cpu[c].at \in {"run", "drain"} => free[c] # <<>>

(* Every access returns to the CPU and every posted write is acknowledged: *)
(* the two directions of the bus never wait for each other.                *)
AccessReturns == \A c \in Cpus : cpu[c] # Running ~> cpu[c] = Running
-----------------------------------------------------------------------------
(***************************************************************************)
(* Refinement of BusMemory.  A posted write is a write request that is not *)
(* yet performed; a read is asked when its request leaves the pool and     *)
(* answered when the device serves it.                                     *)
(***************************************************************************)
\* The places between the thread that issues a request and the device that serves it.
RequestPlaces == ({"put", "mReq", "mHeld"} \X Cpus) \cup ({"sReq", "serve"} \X Slaves)

ResponsePlaces == Places \ RequestPlaces

\* The messages at a set of places.
Under(P) == UNION {ToSet(Holds(x)) : x \in P}

RequestsOf(c, cmd) == {r \in Under(RequestPlaces) : r.src = c /\ r.cmd = cmd}

PostedWrites ==
    [c \in Cpus |-> {[addr |-> r.addr, val |-> r.val] : r \in RequestsOf(c, "write")}]

\* The reads of a CPU that it has not returned from.
Reads(c) == {t \in DOMAIN busy[c] : ~busy[c][t].bWrite}

Answers(c, t) == {m \in Under(ResponsePlaces) : Carries(m, c, t)}

\* The value a served read carries: in the pool, or in a response on its way.
AnswerTo(c, t) == IF busy[c][t].bDone THEN busy[c][t].rcv
                  ELSE (CHOOSE m \in Answers(c, t) : TRUE).val

ReadingOf(c) ==
    IF Reads(c) = {} THEN [phase |-> "none"]
    ELSE IF RequestsOf(c, "read") # {}
    THEN [phase |-> "asked", addr |-> (CHOOSE r \in RequestsOf(c, "read") : TRUE).addr]
    ELSE [phase |-> "answered", val |-> AnswerTo(c, CHOOSE t \in Reads(c) : TRUE)]

Memory == INSTANCE BusMemory WITH posted <- PostedWrites,
                                  reading <- [c \in Cpus |-> ReadingOf(c)]

(* The bus, with its queues, posted writes and transaction ids, is the     *)
(* memory with write buffers of BusMemory.                                 *)
RefinesMemory == Memory!Init(Nothing) /\ [][Memory!Next(Values)]_(Memory!busVars)
=============================================================================

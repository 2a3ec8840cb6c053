------------------------- MODULE InterconnectProofs -------------------------
(***************************************************************************)
(* Theorems about the interconnect: the path of the accesses, for all sets *)
(* of CPUs, slaves and addresses and all sizes of the queues and the pool; *)
(* and mwsr_ta_fifo, for every size, set of items and set of writers.      *)
(***************************************************************************)
EXTENDS NocTransport, MwsrFifo, FiniteSetTheorems, SequenceTheorems, TLAPS

-----------------------------------------------------------------------------
(***************************************************************************)
(* Queues that carry messages.                                             *)
(***************************************************************************)
\* Two messages of the same transaction.
SameTransaction(m, n) == m.src = n.src /\ m.tid = n.tid

\* The queues K carry no transaction twice.
Once(K) == \A x, y \in DOMAIN K : \A i \in DOMAIN K[x], j \in DOMAIN K[y] :
              SameTransaction(K[x][i], K[y][j]) => x = y /\ i = j

\* The queues K carry transaction t of CPU c.
On(K, c, t) == \E x \in DOMAIN K : \E i \in DOMAIN K[x] : Carries(K[x][i], c, t)

\* From the queues K to L, the first message of queue x leaves.
Takes(P, K, L, x) == K[x] # <<>> /\ L[x] = Tail(K[x]) /\ \A z \in P : z # x => L[z] = K[z]

\* The first message of queue x leaves and m, of the same transaction, joins queue y.
Transfers(P, K, L, x, y, m) ==
    /\ x # y /\ K[x] # <<>> /\ SameTransaction(m, Head(K[x]))
    /\ L[x] = Tail(K[x]) /\ L[y] = Append(K[y], m)
    /\ \A z \in P : z # x /\ z # y => L[z] = K[z]

\* The message m joins queue x.
Puts(P, K, L, x, m) == L[x] = Append(K[x], m) /\ \A z \in P : z # x => L[z] = K[z]

\* When a message leaves its queue, its transaction is no longer carried, the others are.
LEMMA Leaves ==
  ASSUME NEW P, NEW E, NEW K \in [P -> Seq(E)], NEW L \in [P -> Seq(E)], NEW x \in P,
         Takes(P, K, L, x), Once(K)
  PROVE  /\ Once(L)
         /\ \A c, t : On(L, c, t) <=> On(K, c, t) /\ ~Carries(Head(K[x]), c, t)
<1> USE DEF Takes
<1>1. /\ Len(K[x]) \in Nat \ {0} /\ DOMAIN K[x] = 1 .. Len(K[x]) /\ Head(K[x]) = K[x][1]
      /\ DOMAIN L[x] = 1 .. Len(K[x]) - 1
      /\ \A i \in DOMAIN L[x] : i \in Nat /\ i + 1 \in DOMAIN K[x] /\ i + 1 # 1 /\ L[x][i] = K[x][i + 1]
  <2> HIDE DEF Once
  <2>1. K[x] \in Seq(E) OBVIOUS
  <2>2. Len(K[x]) \in Nat \ {0} /\ DOMAIN K[x] = 1 .. Len(K[x]) /\ Head(K[x]) = K[x][1]
    BY <2>1
  <2>3. /\ DOMAIN L[x] = 1 .. Len(K[x]) - 1
        /\ \A i \in 1 .. Len(K[x]) - 1 : L[x][i] = K[x][i + 1]
    BY <2>1, <2>2
  <2> QED BY <2>2, <2>3
<1>2. DOMAIN K = P /\ DOMAIN L = P OBVIOUS
<1>3. \A i \in DOMAIN K[x] : i # 1 => i - 1 \in DOMAIN L[x] /\ L[x][i - 1] = K[x][i]
  BY <1>1
<1>4. Once(L)
  <2> SUFFICES ASSUME NEW y \in P, NEW z \in P, NEW i \in DOMAIN L[y], NEW j \in DOMAIN L[z],
                      SameTransaction(L[y][i], L[z][j])
               PROVE  y = z /\ i = j
    BY <1>2 DEF Once
  <2>1. CASE y = x /\ z = x
    <3>1. i + 1 \in DOMAIN K[x] /\ L[y][i] = K[x][i + 1] /\ j + 1 \in DOMAIN K[x] /\ L[z][j] = K[x][j + 1]
      BY <1>1, <2>1
    <3>2. i + 1 = j + 1 BY <3>1, <1>2 DEF Once
    <3> QED BY <3>2, <1>1, <2>1
  <2>2. CASE y = x /\ z # x
    <3>1. i + 1 \in DOMAIN K[x] /\ L[y][i] = K[x][i + 1] /\ L[z] = K[z] BY <1>1, <2>2
    <3> QED BY <3>1, <2>2, <1>2 DEF Once
  <2>3. CASE y # x /\ z = x
    <3>1. j + 1 \in DOMAIN K[x] /\ L[z][j] = K[x][j + 1] /\ L[y] = K[y] BY <1>1, <2>3
    <3> QED BY <3>1, <2>3, <1>2 DEF Once
  <2>4. CASE y # x /\ z # x
    <3>1. L[z] = K[z] /\ L[y] = K[y] BY <2>4
    <3> QED BY <3>1, <1>2 DEF Once
  <2> QED BY <2>1, <2>2, <2>3, <2>4
<1>5. ASSUME NEW c, NEW t, On(L, c, t) PROVE On(K, c, t) /\ ~Carries(Head(K[x]), c, t)
  <2>1. PICK y \in P : \E i \in DOMAIN L[y] : Carries(L[y][i], c, t) BY <1>2, <1>5 DEF On
  <2>2. PICK i \in DOMAIN L[y] : Carries(L[y][i], c, t) BY <2>1
  <2>3. \E j \in DOMAIN K[y] : K[y][j] = L[y][i] /\ (y = x => j # 1)
    <3>1. CASE y = x BY <1>1, <3>1
    <3>2. CASE y # x BY <3>2
    <3> QED BY <3>1, <3>2
  <2>4. PICK j \in DOMAIN K[y] : K[y][j] = L[y][i] /\ (y = x => j # 1) BY <2>3
  <2>5. 1 \in DOMAIN K[x] BY <1>1
  <2>6. ~SameTransaction(K[y][j], K[x][1]) BY <2>4, <2>5, <1>2 DEF Once
  <2> QED BY <1>1, <1>2, <2>2, <2>4, <2>6 DEF On, Carries, SameTransaction
<1>6. ASSUME NEW c, NEW t, On(K, c, t), ~Carries(Head(K[x]), c, t) PROVE On(L, c, t)
  <2>1. PICK y \in P : \E i \in DOMAIN K[y] : Carries(K[y][i], c, t) BY <1>2, <1>6 DEF On
  <2>2. PICK i \in DOMAIN K[y] : Carries(K[y][i], c, t) BY <2>1
  <2>3. CASE y = x
    <3>1. i # 1 BY <1>1, <1>6, <2>2, <2>3
    <3> QED BY <1>2, <1>3, <2>2, <2>3, <3>1 DEF On
  <2>4. CASE y # x BY <1>2, <2>2, <2>4 DEF On
  <2> QED BY <2>3, <2>4
<1> QED BY <1>4, <1>5, <1>6

\* A message of a transaction that is not carried may join a queue.
LEMMA Enters ==
  ASSUME NEW P, NEW E, NEW K \in [P -> Seq(E)], NEW L \in [P -> Seq(E)], NEW x \in P, NEW m \in E,
         Puts(P, K, L, x, m), Once(K),
         \A c, t : Carries(m, c, t) => ~On(K, c, t)
  PROVE  /\ Once(L)
         /\ \A c, t : On(L, c, t) <=> On(K, c, t) \/ Carries(m, c, t)
<1> USE DEF Puts
<1>1. PICK n \in Nat : /\ DOMAIN K[x] = 1 .. n /\ DOMAIN L[x] = 1 .. n + 1
                       /\ L[x][n + 1] = m
                       /\ \A i \in 1 .. n : L[x][i] = K[x][i]
  <2>1. K[x] \in Seq(E) OBVIOUS
  <2> QED BY <2>1
<1>2. DOMAIN K = P /\ DOMAIN L = P OBVIOUS
<1>3. \A y \in P : \A i \in DOMAIN L[y] : \/ y = x /\ i = n + 1 /\ L[y][i] = m
                                          \/ i \in DOMAIN K[y] /\ L[y][i] = K[y][i] /\ (y = x => i # n + 1)
  <2> SUFFICES ASSUME NEW y \in P, NEW i \in DOMAIN L[y]
               PROVE  \/ y = x /\ i = n + 1 /\ L[y][i] = m
                      \/ i \in DOMAIN K[y] /\ L[y][i] = K[y][i] /\ (y = x => i # n + 1)
    OBVIOUS
  <2>1. CASE y = x BY <1>1, <2>1
  <2>2. CASE y # x BY <2>2
  <2> QED BY <2>1, <2>2
<1>4. \A y \in P : \A i \in DOMAIN K[y] : i \in DOMAIN L[y] /\ L[y][i] = K[y][i]
  <2> SUFFICES ASSUME NEW y \in P, NEW i \in DOMAIN K[y]
               PROVE  i \in DOMAIN L[y] /\ L[y][i] = K[y][i]
    OBVIOUS
  <2>1. CASE y = x BY <1>1, <2>1
  <2>2. CASE y # x BY <2>2
  <2> QED BY <2>1, <2>2
<1>5. \A y \in P : \A i \in DOMAIN K[y] : ~SameTransaction(K[y][i], m) /\ ~SameTransaction(m, K[y][i])
  BY <1>2 DEF On, Carries, SameTransaction
<1>6. Once(L)
  <2> SUFFICES ASSUME NEW y \in P, NEW z \in P, NEW i \in DOMAIN L[y], NEW j \in DOMAIN L[z],
                      SameTransaction(L[y][i], L[z][j])
               PROVE  y = z /\ i = j
    BY <1>2 DEF Once
  <2>1. CASE i \in DOMAIN K[y] /\ L[y][i] = K[y][i] /\ j \in DOMAIN K[z] /\ L[z][j] = K[z][j]
    BY <2>1, <1>2 DEF Once
  <2> QED BY <1>3, <1>5, <2>1
<1>7. n + 1 \in DOMAIN L[x] BY <1>1
<1>8. \A c, t : On(L, c, t) => On(K, c, t) \/ Carries(m, c, t) BY <1>2, <1>3 DEF On
<1>9. \A c, t : On(K, c, t) \/ Carries(m, c, t) => On(L, c, t) BY <1>1, <1>2, <1>4, <1>7 DEF On
<1> QED BY <1>6, <1>8, <1>9

\* A message that moves from one queue to another changes nothing about what is carried.
LEMMA Moves ==
  ASSUME NEW P, NEW E, NEW K \in [P -> Seq(E)], NEW L \in [P -> Seq(E)], NEW x \in P, NEW y \in P,
         NEW m \in E, Transfers(P, K, L, x, y, m), Once(K)
  PROVE  /\ Once(L)
         /\ \A c, t : On(L, c, t) <=> On(K, c, t)
<1> USE DEF Transfers
<1> DEFINE M == [K EXCEPT ![x] = Tail(K[x])]
<1>1. K[x] \in Seq(E) /\ Tail(K[x]) \in Seq(E) /\ Head(K[x]) = K[x][1] /\ 1 \in DOMAIN K[x] OBVIOUS
<1>2. M \in [P -> Seq(E)] /\ M[x] = Tail(K[x]) /\ \A z \in P : z # x => M[z] = K[z] BY <1>1
<1> HIDE DEF M
<1>3. Once(M) /\ \A c, t : On(M, c, t) <=> On(K, c, t) /\ ~Carries(Head(K[x]), c, t)

  <2>1. Takes(P, K, M, x) BY <1>2 DEF Takes
  <2> QED BY <1>2, <2>1, Leaves
<1>4. \A c, t : Carries(Head(K[x]), c, t) <=> Carries(m, c, t) BY DEF Carries, SameTransaction
<1>5. \A c, t : Carries(m, c, t) => ~On(M, c, t) BY <1>3, <1>4
<1>6. L[y] = Append(M[y], m) /\ \A z \in P : z # y => L[z] = M[z] BY <1>2
<1>7. Once(L) /\ \A c, t : On(L, c, t) <=> On(M, c, t) \/ Carries(m, c, t)
  <2>1. y \in P /\ m \in E /\ L \in [P -> Seq(E)] /\ M \in [P -> Seq(E)] BY <1>2
  <2>2. Puts(P, M, L, y, m) BY <1>6 DEF Puts
  <2>3. Once(M) BY <1>3
  <2> QED BY ONLY <2>1, <2>2, <2>3, <1>5, Enters
<1>8. \A c, t : Carries(Head(K[x]), c, t) => On(K, c, t) BY <1>1 DEF On
<1> QED BY <1>3, <1>4, <1>7, <1>8

(***************************************************************************)
(* The invariant.                                                          *)
(***************************************************************************)
\* What travels on the path.
Messages == Requests \cup Responses
\* The whole path: what each place holds.
Net == [x \in Places |-> Holds(x)]

\* No transaction is carried twice.
CarriedOnce == Once(Net)

\* What is carried is in use and not done.
CarriedInUse ==
    \A c \in Cpus, t \in Tids : On(Net, c, t) <=> t \in DOMAIN busy[c] /\ ~busy[c][t].bDone

\* The stack of free requests has each of them once, and none that is in use.
Pool == \A c \in Cpus : /\ DOMAIN busy[c] \subseteq Tids
                        /\ IsInjective(free[c])
                        /\ ToSet(free[c]) = Tids \ DOMAIN busy[c]

\* The queues of a master hold its own messages.
Home == \A c \in Cpus :
          /\ cpu[c].at = "put" => cpu[c].req.src = c
          /\ \A i \in DOMAIN mReq[c] : mReq[c][i].src = c
          /\ \A i \in DOMAIN mHeld[c] : mHeld[c][i].src = c
          /\ \A i \in DOMAIN mRsp[c] : mRsp[c][i].src = c

\* Transaction t is a write the thread does not wait for.
Posted(c, t) == c \in Posting /\ busy[c][t].bWrite

\* The thread has to see the end of transaction t.
Expects(c, t) == \/ cpu[c].at = "wait" /\ cpu[c].tid = t
                 \/ cpu[c].at = "put" /\ cpu[c].req.tid = t

\* A thread waits for a transaction in use, never for a posted write; what is
\* neither posted nor expected is not in use; what is done is waited for.
AwaitedBy(c) ==
    /\ cpu[c].at = "wait" => cpu[c].tid \in DOMAIN busy[c] /\ ~Posted(c, cpu[c].tid)
    /\ cpu[c].at = "put" => (busy[c][cpu[c].req.tid].bWrite <=> cpu[c].req.cmd = "write")
    /\ \A t \in DOMAIN busy[c] :
          /\ Posted(c, t) \/ Expects(c, t)
          /\ busy[c][t].bDone => cpu[c].at = "wait" /\ cpu[c].tid = t
\* Every thread waits for what it has to.
Awaited == \A c \in Cpus : AwaitedBy(c)

\* The invariant the theorems on the path are by induction on.
NocInv == TypeOK /\ Pool /\ CarriedOnce /\ CarriedInUse /\ Home /\ Awaited

-----------------------------------------------------------------------------
(***************************************************************************)
(* The path of an access as a family of queues, and what each action does  *)
(* to it.                                                                  *)
(***************************************************************************)
\* What a thread holds, by the state it is in.
LEMMA ThreadType ==
  ASSUME cpu \in [Cpus -> Threads], NEW c \in Cpus
  PROVE  /\ cpu[c].at \in {"run", "drain", "put", "wait"}
         /\ cpu[c].at = "run" <=> cpu[c] = Running
         /\ cpu[c].at = "drain" => cpu[c].op \in Accesses
         /\ cpu[c].at = "put" => cpu[c].req \in Requests
         /\ cpu[c].at = "wait" => cpu[c].tid \in Tids
<1> HIDE DEF Accesses, Requests, Tids
<1>1. CASE cpu[c] = Running BY <1>1 DEF Running
<1>2. CASE \E o \in Accesses : cpu[c] = Draining(o) BY <1>2 DEF Draining, Running
<1>3. CASE \E r \in Requests : cpu[c] = Putting(r) BY <1>3 DEF Putting, Running
<1>4. CASE \E t \in Tids : cpu[c] = Waiting(t) BY <1>4 DEF Waiting, Running
<1> QED BY <1>1, <1>2, <1>3, <1>4 DEF Threads

\* What a device holds, by the state it is in.
LEMMA DeviceType ==
  ASSUME dev \in [Slaves -> Devices], NEW s \in Slaves
  PROVE  /\ dev[s].at = "serve" => dev[s].req \in Requests
         /\ dev[s].at = "respond" => dev[s].rsp \in Responses
<1>1. CASE dev[s] = Idle BY <1>1 DEF Idle
<1>2. CASE \E r \in Requests : dev[s] = Serving(r) BY <1>2 DEF Serving
<1>3. CASE \E r \in Responses : dev[s] = Responding(r) BY <1>3 DEF Responding
<1> QED BY <1>1, <1>2, <1>3 DEF Devices

\* A place is at a master or at a slave.
LEMMA PlaceCases ==
  ASSUME NEW x \in Places
  PROVE  \/ \E c \in Cpus : x \in {<<"put", c>>, <<"mReq", c>>, <<"mHeld", c>>, <<"mRsp", c>>}
         \/ \E s \in Slaves : x \in {<<"sReq", s>>, <<"serve", s>>, <<"respond", s>>, <<"sRsp", s>>, <<"sHeld", s>>}
BY DEF Places

\* The path is a family of queues of messages.
NetOfSequences == Net \in [Places -> Seq(Messages)]

\* The types of the variables make the path a family of queues.
LEMMA NetType == TypeOK => NetOfSequences
<1> SUFFICES ASSUME TypeOK PROVE Net \in [Places -> Seq(Messages)] BY DEF NetOfSequences
<1> USE DEF TypeOK
<1>1. \A q \in Seq(Requests) : q \in Seq(Messages) BY DEF Messages
<1>2. \A q \in Seq(Responses) : q \in Seq(Messages) BY DEF Messages
<1>3. \A c \in Cpus : ThreadHolds(c) \in Seq(Messages)
  <2> SUFFICES ASSUME NEW c \in Cpus PROVE ThreadHolds(c) \in Seq(Messages) OBVIOUS
  <2>1. cpu[c].at = "put" => cpu[c].req \in Messages BY ThreadType DEF Messages
  <2> QED BY <2>1 DEF ThreadHolds
<1>4. \A s \in Slaves : DeviceServes(s) \in Seq(Messages) /\ DeviceResponds(s) \in Seq(Messages)
  <2> SUFFICES ASSUME NEW s \in Slaves
               PROVE  DeviceServes(s) \in Seq(Messages) /\ DeviceResponds(s) \in Seq(Messages)
    OBVIOUS
  <2>1. /\ dev[s].at = "serve" => dev[s].req \in Messages
        /\ dev[s].at = "respond" => dev[s].rsp \in Messages
    BY DeviceType DEF Messages
  <2> QED BY <2>1 DEF DeviceServes, DeviceResponds
<1>5. ASSUME NEW x \in Places PROVE Holds(x) \in Seq(Messages)
  <2>1. CASE \E c \in Cpus : x \in {<<"put", c>>, <<"mReq", c>>, <<"mHeld", c>>, <<"mRsp", c>>}
    BY <2>1, <1>1, <1>2, <1>3 DEF Holds
  <2>2. CASE \E s \in Slaves : x \in {<<"sReq", s>>, <<"serve", s>>, <<"respond", s>>, <<"sRsp", s>>, <<"sHeld", s>>}
    BY <2>2, <1>1, <1>2, <1>4 DEF Holds
  <2> QED BY <2>1, <2>2, PlaceCases
<1> QED BY <1>5 DEF Net

\* A place for one message is a queue of at most one.
LEMMA OneMessage ==
  ASSUME NEW m
  PROVE  /\ <<m>> # <<>> /\ Head(<<m>>) = m
         /\ Tail(<<m>>) = <<>> /\ Append(<<>>, m) = <<m>>
OBVIOUS

\* The path at a place, before and after a step.
LEMMA NetAt ==
  ASSUME NEW x \in Places
  PROVE  Net[x] = Holds(x) /\ Net'[x] = Holds(x)'
BY DEF Net

\* What each kind of place holds, before and after a step.
LEMMA HoldsIs ==
  ASSUME NEW n
  PROVE  /\ Holds(<<"put", n>>) = ThreadHolds(n) /\ Holds(<<"mReq", n>>) = mReq[n]
         /\ Holds(<<"mHeld", n>>) = mHeld[n] /\ Holds(<<"mRsp", n>>) = mRsp[n]
         /\ Holds(<<"sReq", n>>) = sReq[n] /\ Holds(<<"serve", n>>) = DeviceServes(n)
         /\ Holds(<<"respond", n>>) = DeviceResponds(n)
         /\ Holds(<<"sRsp", n>>) = sRsp[n] /\ Holds(<<"sHeld", n>>) = sHeld[n]
         /\ Holds(<<"put", n>>)' = ThreadHolds(n)' /\ Holds(<<"mReq", n>>)' = mReq'[n]
         /\ Holds(<<"mHeld", n>>)' = mHeld'[n] /\ Holds(<<"mRsp", n>>)' = mRsp'[n]
         /\ Holds(<<"sReq", n>>)' = sReq'[n] /\ Holds(<<"serve", n>>)' = DeviceServes(n)'
         /\ Holds(<<"respond", n>>)' = DeviceResponds(n)'
         /\ Holds(<<"sRsp", n>>)' = sRsp'[n] /\ Holds(<<"sHeld", n>>)' = sHeld'[n]
BY DEF Holds

\* TakeRequest moves a request to the dispatcher of the master.
LEMMA NetTakeRequest ==
  ASSUME TypeOK, NEW c \in Cpus, TakeRequest(c)
  PROVE  Transfers(Places, Net, Net', <<"mReq", c>>, <<"mHeld", c>>, Head(mReq[c]))
<1> USE DEF TypeOK, TakeRequest, cpuVars, devVars
<1>1. /\ mReq[c] \in Seq(Requests) /\ mReq[c] # <<>>
      /\ mReq'[c] = Tail(mReq[c]) /\ mHeld'[c] = Append(mHeld[c], Head(mReq[c]))
      /\ \A d \in Cpus : d # c => mReq'[d] = mReq[d] /\ mHeld'[d] = mHeld[d]
  OBVIOUS
<1>2. ASSUME NEW z \in Places, z # <<"mReq", c>>, z # <<"mHeld", c>> PROVE Holds(z)' = Holds(z)
  <2>1. CASE \E d \in Cpus : z \in {<<"put", d>>, <<"mReq", d>>, <<"mHeld", d>>, <<"mRsp", d>>}
    BY <1>1, <1>2, <2>1 DEF Holds, ThreadHolds
  <2>2. CASE \E d \in Slaves : z \in {<<"sReq", d>>, <<"serve", d>>, <<"respond", d>>, <<"sRsp", d>>, <<"sHeld", d>>}
    BY <1>1, <1>2, <2>2 DEF Holds, DeviceServes, DeviceResponds
  <2> QED BY <2>1, <2>2, PlaceCases
<1>3. /\ Holds(<<"mReq", c>>) = mReq[c] /\ Holds(<<"mReq", c>>)' = mReq'[c]
      /\ Holds(<<"mHeld", c>>) = mHeld[c] /\ Holds(<<"mHeld", c>>)' = mHeld'[c]
  BY <1>1, HoldsIs
<1>4. <<"mReq", c>> \in Places /\ <<"mHeld", c>> \in Places /\ <<"mReq", c>> # <<"mHeld", c>> BY <1>1 DEF Places
<1>5. /\ mReq[c] # <<>> /\ mReq'[c] = Tail(mReq[c])
      /\ SameTransaction(Head(mReq[c]), Head(mReq[c]))
      /\ mHeld'[c] = Append(mHeld[c], Head(mReq[c]))
  BY <1>1, OneMessage DEF SameTransaction
<1> QED BY ONLY <1>2, <1>3, <1>4, <1>5, NetAt DEF Transfers

\* FinishPut moves the request of a blocked thread to the queue of its master.
LEMMA NetFinishPut ==
  ASSUME TypeOK, NEW c \in Cpus, FinishPut(c)
  PROVE  Transfers(Places, Net, Net', <<"put", c>>, <<"mReq", c>>, cpu[c].req)
<1>0. UNCHANGED <<mHeld, mRsp, sReq, sRsp, sHeld, dev>> BY DEF FinishPut, devVars
<1>1. /\ ThreadHolds(c) = <<cpu[c].req>> /\ ThreadHolds(c)' = <<>>
      /\ mReq'[c] = Append(mReq[c], cpu[c].req)
      /\ \A d \in Cpus : d # c => mReq'[d] = mReq[d] /\ cpu'[d] = cpu[d]
  BY DEF TypeOK, FinishPut, ThreadHolds, AfterPut, Running, Waiting
<1>2. ASSUME NEW z \in Places, z # <<"put", c>>, z # <<"mReq", c>> PROVE Holds(z)' = Holds(z)
  <2>1. CASE \E d \in Cpus : z \in {<<"put", d>>, <<"mReq", d>>, <<"mHeld", d>>, <<"mRsp", d>>}
    BY ONLY <1>0, <1>1, <1>2, <2>1 DEF Holds, ThreadHolds
  <2>2. CASE \E d \in Slaves : z \in {<<"sReq", d>>, <<"serve", d>>, <<"respond", d>>, <<"sRsp", d>>, <<"sHeld", d>>}
    BY ONLY <1>0, <1>1, <1>2, <2>2 DEF Holds, DeviceServes, DeviceResponds
  <2> QED BY <2>1, <2>2, PlaceCases
<1>3. /\ Holds(<<"put", c>>) = <<cpu[c].req>> /\ Holds(<<"put", c>>)' = <<>>
      /\ Holds(<<"mReq", c>>) = mReq[c] /\ Holds(<<"mReq", c>>)' = mReq'[c]
  BY <1>1, HoldsIs
<1>4. <<"put", c>> \in Places /\ <<"mReq", c>> \in Places /\ <<"put", c>> # <<"mReq", c>> BY <1>1 DEF Places
<1>5. /\ <<cpu[c].req>> # <<>> /\ <<>> = Tail(<<cpu[c].req>>)
      /\ SameTransaction(cpu[c].req, Head(<<cpu[c].req>>))
      /\ mReq'[c] = Append(mReq[c], cpu[c].req)
  BY <1>1, OneMessage DEF SameTransaction
<1> QED BY ONLY <1>2, <1>3, <1>4, <1>5, NetAt DEF Transfers

\* DispatchRequest moves a request to the queue of its slave.
LEMMA NetDispatchRequest ==
  ASSUME TypeOK, NEW c \in Cpus, DispatchRequest(c),
         NEW s \in Slaves, s = SlaveOf(Head(mHeld[c]).addr)
  PROVE  Transfers(Places, Net, Net', <<"mHeld", c>>, <<"sReq", s>>, Head(mHeld[c]))
<1> USE DEF TypeOK, DispatchRequest, cpuVars, devVars
<1>c. mHeld[c] \in Seq(Requests) /\ Len(mHeld[c]) <= 1 /\ mHeld[c] # <<>> BY DEF Short
<1>d. Tail(mHeld[c]) = <<>> BY <1>c
<1>1. /\ mHeld[c] # <<>> /\ mHeld'[c] = Tail(mHeld[c])
      /\ sReq'[s] = Append(sReq[s], Head(mHeld[c]))
      /\ \A d \in Cpus : d # c => mHeld'[d] = mHeld[d]
      /\ \A d \in Slaves : d # s => sReq'[d] = sReq[d]
  BY <1>d
<1>2. ASSUME NEW z \in Places, z # <<"mHeld", c>>, z # <<"sReq", s>> PROVE Holds(z)' = Holds(z)
  <2>1. CASE \E d \in Cpus : z \in {<<"put", d>>, <<"mReq", d>>, <<"mHeld", d>>, <<"mRsp", d>>}
    BY <1>1, <1>2, <2>1 DEF Holds, ThreadHolds
  <2>2. CASE \E d \in Slaves : z \in {<<"sReq", d>>, <<"serve", d>>, <<"respond", d>>, <<"sRsp", d>>, <<"sHeld", d>>}
    BY <1>1, <1>2, <2>2 DEF Holds, DeviceServes, DeviceResponds
  <2> QED BY <2>1, <2>2, PlaceCases
<1>3. /\ Holds(<<"mHeld", c>>) = mHeld[c] /\ Holds(<<"mHeld", c>>)' = mHeld'[c]
      /\ Holds(<<"sReq", s>>) = sReq[s] /\ Holds(<<"sReq", s>>)' = sReq'[s]
  BY <1>1, HoldsIs
<1>4. <<"mHeld", c>> \in Places /\ <<"sReq", s>> \in Places /\ <<"mHeld", c>> # <<"sReq", s>> BY <1>1 DEF Places
<1>5. /\ mHeld[c] # <<>> /\ mHeld'[c] = Tail(mHeld[c])
      /\ SameTransaction(Head(mHeld[c]), Head(mHeld[c]))
      /\ sReq'[s] = Append(sReq[s], Head(mHeld[c]))
  BY <1>1, OneMessage DEF SameTransaction
<1> QED BY ONLY <1>2, <1>3, <1>4, <1>5, NetAt DEF Transfers

\* GetRequest moves a request to the device.
LEMMA NetGetRequest ==
  ASSUME TypeOK, NEW s \in Slaves, GetRequest(s)
  PROVE  Transfers(Places, Net, Net', <<"sReq", s>>, <<"serve", s>>, Head(sReq[s]))
<1> USE DEF TypeOK, GetRequest, cpuVars
<1>1. /\ sReq[s] \in Seq(Requests) /\ sReq[s] # <<>> /\ sReq'[s] = Tail(sReq[s])
      /\ DeviceServes(s) = <<>> /\ DeviceServes(s)' = <<Head(sReq[s])>>
      /\ DeviceResponds(s) = <<>> /\ DeviceResponds(s)' = <<>>
      /\ \A d \in Slaves : d # s => sReq'[d] = sReq[d] /\ dev'[d] = dev[d]
  BY DEF DeviceServes, DeviceResponds, Serving
<1>2. ASSUME NEW z \in Places, z # <<"sReq", s>>, z # <<"serve", s>> PROVE Holds(z)' = Holds(z)
  <2>1. CASE \E d \in Cpus : z \in {<<"put", d>>, <<"mReq", d>>, <<"mHeld", d>>, <<"mRsp", d>>}
    BY <1>1, <1>2, <2>1 DEF Holds, ThreadHolds
  <2>2. CASE \E d \in Slaves : z \in {<<"sReq", d>>, <<"serve", d>>, <<"respond", d>>, <<"sRsp", d>>, <<"sHeld", d>>}
    BY <1>1, <1>2, <2>2 DEF Holds, DeviceServes, DeviceResponds
  <2> QED BY <2>1, <2>2, PlaceCases
<1>3. /\ Holds(<<"sReq", s>>) = sReq[s] /\ Holds(<<"sReq", s>>)' = sReq'[s]
      /\ Holds(<<"serve", s>>) = <<>> /\ Holds(<<"serve", s>>)' = <<Head(sReq[s])>>
  BY <1>1, HoldsIs
<1>4. <<"sReq", s>> \in Places /\ <<"serve", s>> \in Places /\ <<"sReq", s>> # <<"serve", s>> BY <1>1 DEF Places
<1>5. /\ sReq[s] # <<>> /\ sReq'[s] = Tail(sReq[s])
      /\ SameTransaction(Head(sReq[s]), Head(sReq[s]))
      /\ <<Head(sReq[s])>> = Append(<<>>, Head(sReq[s]))
  BY <1>1, OneMessage DEF SameTransaction
<1> QED BY ONLY <1>2, <1>3, <1>4, <1>5, NetAt DEF Transfers

\* The response of a device to a request.
Answer(r) == Response(r, IF r.cmd = "read" THEN mem[r.addr] ELSE Nothing)

\* Serve, with room in the queue, puts the response in place of the request.
LEMMA NetServeSent ==
  ASSUME TypeOK, NEW s \in Slaves, Serve(s), Room(sRsp[s])
  PROVE  Transfers(Places, Net, Net', <<"serve", s>>, <<"sRsp", s>>, Answer(dev[s].req))
<1> USE DEF TypeOK, Serve, cpuVars
<1>1. /\ DeviceServes(s) = <<dev[s].req>> /\ DeviceServes(s)' = <<>>
      /\ DeviceResponds(s) = <<>> /\ DeviceResponds(s)' = <<>>
      /\ sRsp'[s] = Append(sRsp[s], Answer(dev[s].req))
      /\ (Answer(dev[s].req)).src = dev[s].req.src /\ (Answer(dev[s].req)).tid = dev[s].req.tid
      /\ \A d \in Slaves : d # s => sRsp'[d] = sRsp[d] /\ dev'[d] = dev[d]
  BY DEF DeviceServes, DeviceResponds, Idle, Response, Answer
<1>2. ASSUME NEW z \in Places, z # <<"serve", s>>, z # <<"sRsp", s>> PROVE Holds(z)' = Holds(z)
  <2>1. CASE \E d \in Cpus : z \in {<<"put", d>>, <<"mReq", d>>, <<"mHeld", d>>, <<"mRsp", d>>}
    BY <1>1, <1>2, <2>1 DEF Holds, ThreadHolds
  <2>2. CASE \E d \in Slaves : z \in {<<"sReq", d>>, <<"serve", d>>, <<"respond", d>>, <<"sRsp", d>>, <<"sHeld", d>>}
    BY <1>1, <1>2, <2>2 DEF Holds, DeviceServes, DeviceResponds
  <2> QED BY <2>1, <2>2, PlaceCases
<1>3. /\ Holds(<<"serve", s>>) = <<dev[s].req>> /\ Holds(<<"serve", s>>)' = <<>>
      /\ Holds(<<"sRsp", s>>) = sRsp[s] /\ Holds(<<"sRsp", s>>)' = sRsp'[s]
  BY <1>1, HoldsIs
<1>4. <<"serve", s>> \in Places /\ <<"sRsp", s>> \in Places /\ <<"serve", s>> # <<"sRsp", s>> BY <1>1 DEF Places
<1>5. /\ <<dev[s].req>> # <<>> /\ <<>> = Tail(<<dev[s].req>>)
      /\ SameTransaction(Answer(dev[s].req), Head(<<dev[s].req>>))
      /\ sRsp'[s] = Append(sRsp[s], Answer(dev[s].req))
  BY <1>1, OneMessage DEF SameTransaction
<1> QED BY ONLY <1>2, <1>3, <1>4, <1>5, NetAt DEF Transfers

\* Serve, with a full queue, keeps the response in place of the request.
LEMMA NetServeBlocked ==
  ASSUME TypeOK, NEW s \in Slaves, Serve(s), ~Room(sRsp[s])
  PROVE  Transfers(Places, Net, Net', <<"serve", s>>, <<"respond", s>>, Answer(dev[s].req))
<1> USE DEF TypeOK, Serve, cpuVars
<1>1. /\ DeviceServes(s) = <<dev[s].req>> /\ DeviceServes(s)' = <<>>
      /\ DeviceResponds(s) = <<>> /\ DeviceResponds(s)' = <<Answer(dev[s].req)>>
      /\ (Answer(dev[s].req)).src = dev[s].req.src /\ (Answer(dev[s].req)).tid = dev[s].req.tid
      /\ \A d \in Slaves : d # s => dev'[d] = dev[d]
  BY DEF DeviceServes, DeviceResponds, Responding, Response, Answer
<1>2. ASSUME NEW z \in Places, z # <<"serve", s>>, z # <<"respond", s>> PROVE Holds(z)' = Holds(z)
  <2>1. CASE \E d \in Cpus : z \in {<<"put", d>>, <<"mReq", d>>, <<"mHeld", d>>, <<"mRsp", d>>}
    BY <1>1, <1>2, <2>1 DEF Holds, ThreadHolds
  <2>2. CASE \E d \in Slaves : z \in {<<"sReq", d>>, <<"serve", d>>, <<"respond", d>>, <<"sRsp", d>>, <<"sHeld", d>>}
    BY <1>1, <1>2, <2>2 DEF Holds, DeviceServes, DeviceResponds
  <2> QED BY <2>1, <2>2, PlaceCases
<1>3. /\ Holds(<<"serve", s>>) = <<dev[s].req>> /\ Holds(<<"serve", s>>)' = <<>>
      /\ Holds(<<"respond", s>>) = <<>> /\ Holds(<<"respond", s>>)' = <<Answer(dev[s].req)>>
  BY <1>1, HoldsIs
<1>4. <<"serve", s>> \in Places /\ <<"respond", s>> \in Places /\ <<"serve", s>> # <<"respond", s>> BY <1>1 DEF Places
<1>5. /\ <<dev[s].req>> # <<>> /\ <<>> = Tail(<<dev[s].req>>)
      /\ SameTransaction(Answer(dev[s].req), Head(<<dev[s].req>>))
      /\ <<Answer(dev[s].req)>> = Append(<<>>, Answer(dev[s].req))
  BY <1>1, OneMessage DEF SameTransaction
<1> QED BY ONLY <1>2, <1>3, <1>4, <1>5, NetAt DEF Transfers

\* Respond moves the response of a blocked device to its queue.
LEMMA NetRespond ==
  ASSUME TypeOK, NEW s \in Slaves, Respond(s)
  PROVE  Transfers(Places, Net, Net', <<"respond", s>>, <<"sRsp", s>>, dev[s].rsp)
<1> USE DEF TypeOK, Respond, cpuVars
<1>1. /\ DeviceResponds(s) = <<dev[s].rsp>> /\ DeviceResponds(s)' = <<>>
      /\ DeviceServes(s) = <<>> /\ DeviceServes(s)' = <<>>
      /\ sRsp'[s] = Append(sRsp[s], dev[s].rsp)
      /\ \A d \in Slaves : d # s => sRsp'[d] = sRsp[d] /\ dev'[d] = dev[d]
  BY DEF DeviceServes, DeviceResponds, Idle
<1>2. ASSUME NEW z \in Places, z # <<"respond", s>>, z # <<"sRsp", s>> PROVE Holds(z)' = Holds(z)
  <2>1. CASE \E d \in Cpus : z \in {<<"put", d>>, <<"mReq", d>>, <<"mHeld", d>>, <<"mRsp", d>>}
    BY <1>1, <1>2, <2>1 DEF Holds, ThreadHolds
  <2>2. CASE \E d \in Slaves : z \in {<<"sReq", d>>, <<"serve", d>>, <<"respond", d>>, <<"sRsp", d>>, <<"sHeld", d>>}
    BY <1>1, <1>2, <2>2 DEF Holds, DeviceServes, DeviceResponds
  <2> QED BY <2>1, <2>2, PlaceCases
<1>3. /\ Holds(<<"respond", s>>) = <<dev[s].rsp>> /\ Holds(<<"respond", s>>)' = <<>>
      /\ Holds(<<"sRsp", s>>) = sRsp[s] /\ Holds(<<"sRsp", s>>)' = sRsp'[s]
  BY <1>1, HoldsIs
<1>4. <<"respond", s>> \in Places /\ <<"sRsp", s>> \in Places /\ <<"respond", s>> # <<"sRsp", s>> BY <1>1 DEF Places
<1>5. /\ <<dev[s].rsp>> # <<>> /\ <<>> = Tail(<<dev[s].rsp>>)
      /\ SameTransaction(dev[s].rsp, Head(<<dev[s].rsp>>))
      /\ sRsp'[s] = Append(sRsp[s], dev[s].rsp)
  BY <1>1, OneMessage DEF SameTransaction
<1> QED BY ONLY <1>2, <1>3, <1>4, <1>5, NetAt DEF Transfers

\* TakeResponse moves a response to the dispatcher of the slave.
LEMMA NetTakeResponse ==
  ASSUME TypeOK, NEW s \in Slaves, TakeResponse(s)
  PROVE  Transfers(Places, Net, Net', <<"sRsp", s>>, <<"sHeld", s>>, Head(sRsp[s]))
<1> USE DEF TypeOK, TakeResponse, cpuVars, devVars
<1>1. /\ sRsp[s] \in Seq(Responses) /\ sRsp[s] # <<>>
      /\ sRsp'[s] = Tail(sRsp[s]) /\ sHeld'[s] = Append(sHeld[s], Head(sRsp[s]))
      /\ \A d \in Slaves : d # s => sRsp'[d] = sRsp[d] /\ sHeld'[d] = sHeld[d]
  OBVIOUS
<1>2. ASSUME NEW z \in Places, z # <<"sRsp", s>>, z # <<"sHeld", s>> PROVE Holds(z)' = Holds(z)
  <2>1. CASE \E d \in Cpus : z \in {<<"put", d>>, <<"mReq", d>>, <<"mHeld", d>>, <<"mRsp", d>>}
    BY <1>1, <1>2, <2>1 DEF Holds, ThreadHolds
  <2>2. CASE \E d \in Slaves : z \in {<<"sReq", d>>, <<"serve", d>>, <<"respond", d>>, <<"sRsp", d>>, <<"sHeld", d>>}
    BY <1>1, <1>2, <2>2 DEF Holds, DeviceServes, DeviceResponds
  <2> QED BY <2>1, <2>2, PlaceCases
<1>3. /\ Holds(<<"sRsp", s>>) = sRsp[s] /\ Holds(<<"sRsp", s>>)' = sRsp'[s]
      /\ Holds(<<"sHeld", s>>) = sHeld[s] /\ Holds(<<"sHeld", s>>)' = sHeld'[s]
  BY <1>1, HoldsIs
<1>4. <<"sRsp", s>> \in Places /\ <<"sHeld", s>> \in Places /\ <<"sRsp", s>> # <<"sHeld", s>> BY <1>1 DEF Places
<1>5. /\ sRsp[s] # <<>> /\ sRsp'[s] = Tail(sRsp[s])
      /\ SameTransaction(Head(sRsp[s]), Head(sRsp[s]))
      /\ sHeld'[s] = Append(sHeld[s], Head(sRsp[s]))
  BY <1>1, OneMessage DEF SameTransaction
<1> QED BY ONLY <1>2, <1>3, <1>4, <1>5, NetAt DEF Transfers

\* DispatchResponse moves a response to the queue of its master.
LEMMA NetDispatchResponse ==
  ASSUME TypeOK, NEW s \in Slaves, DispatchResponse(s),
         NEW c \in Cpus, c = Head(sHeld[s]).src
  PROVE  Transfers(Places, Net, Net', <<"sHeld", s>>, <<"mRsp", c>>, Head(sHeld[s]))
<1> USE DEF TypeOK, DispatchResponse, cpuVars, devVars
<1>c. sHeld[s] \in Seq(Responses) /\ Len(sHeld[s]) <= 1 /\ sHeld[s] # <<>> BY DEF Short
<1>d. Tail(sHeld[s]) = <<>> BY <1>c
<1>1. /\ sHeld[s] # <<>> /\ sHeld'[s] = Tail(sHeld[s])
      /\ mRsp'[c] = Append(mRsp[c], Head(sHeld[s]))
      /\ \A d \in Slaves : d # s => sHeld'[d] = sHeld[d]
      /\ \A d \in Cpus : d # c => mRsp'[d] = mRsp[d]
  BY <1>d
<1>2. ASSUME NEW z \in Places, z # <<"sHeld", s>>, z # <<"mRsp", c>> PROVE Holds(z)' = Holds(z)
  <2>1. CASE \E d \in Cpus : z \in {<<"put", d>>, <<"mReq", d>>, <<"mHeld", d>>, <<"mRsp", d>>}
    BY <1>1, <1>2, <2>1 DEF Holds, ThreadHolds
  <2>2. CASE \E d \in Slaves : z \in {<<"sReq", d>>, <<"serve", d>>, <<"respond", d>>, <<"sRsp", d>>, <<"sHeld", d>>}
    BY <1>1, <1>2, <2>2 DEF Holds, DeviceServes, DeviceResponds
  <2> QED BY <2>1, <2>2, PlaceCases
<1>3. /\ Holds(<<"sHeld", s>>) = sHeld[s] /\ Holds(<<"sHeld", s>>)' = sHeld'[s]
      /\ Holds(<<"mRsp", c>>) = mRsp[c] /\ Holds(<<"mRsp", c>>)' = mRsp'[c]
  BY <1>1, HoldsIs
<1>4. <<"sHeld", s>> \in Places /\ <<"mRsp", c>> \in Places /\ <<"sHeld", s>> # <<"mRsp", c>> BY <1>1 DEF Places
<1>5. /\ sHeld[s] # <<>> /\ sHeld'[s] = Tail(sHeld[s])
      /\ SameTransaction(Head(sHeld[s]), Head(sHeld[s]))
      /\ mRsp'[c] = Append(mRsp[c], Head(sHeld[s]))
  BY <1>1, OneMessage DEF SameTransaction
<1> QED BY ONLY <1>2, <1>3, <1>4, <1>5, NetAt DEF Transfers

\* ReceiveResponse takes a response off the path.
LEMMA NetReceiveResponse ==
  ASSUME TypeOK, NEW c \in Cpus, ReceiveResponse(c)
  PROVE  Takes(Places, Net, Net', <<"mRsp", c>>)
<1> USE DEF TypeOK, ReceiveResponse, devVars
<1>1. /\ mRsp[c] # <<>> /\ mRsp'[c] = Tail(mRsp[c])
      /\ \A d \in Cpus : d # c => mRsp'[d] = mRsp[d]
  OBVIOUS
<1>2. ASSUME NEW z \in Places, z # <<"mRsp", c>> PROVE Holds(z)' = Holds(z)
  <2>1. CASE \E d \in Cpus : z \in {<<"put", d>>, <<"mReq", d>>, <<"mHeld", d>>, <<"mRsp", d>>}
    BY <1>1, <1>2, <2>1 DEF Holds, ThreadHolds
  <2>2. CASE \E d \in Slaves : z \in {<<"sReq", d>>, <<"serve", d>>, <<"respond", d>>, <<"sRsp", d>>, <<"sHeld", d>>}
    BY <1>1, <1>2, <2>2 DEF Holds, DeviceServes, DeviceResponds
  <2> QED BY <2>1, <2>2, PlaceCases
<1>3. /\ Holds(<<"mRsp", c>>) = mRsp[c] /\ Holds(<<"mRsp", c>>)' = mRsp'[c]
  BY <1>1, HoldsIs
<1>4. <<"mRsp", c>> \in Places BY <1>1 DEF Places
<1>5. /\ mRsp[c] # <<>> /\ mRsp'[c] = Tail(mRsp[c])
  BY <1>1, OneMessage DEF SameTransaction
<1> QED BY ONLY <1>2, <1>3, <1>4, <1>5, NetAt DEF Takes

\* Issue, with room in the queue, puts a new request there.
LEMMA NetIssueSent ==
  ASSUME TypeOK, NEW c \in Cpus, NEW o, Issue(c, o), Room(mReq[c]), cpu[c].at # "put"
  PROVE  Puts(Places, Net, Net', <<"mReq", c>>, Request(c, Head(free[c]), o))
<1>0. UNCHANGED <<mHeld, mRsp, sReq, sRsp, sHeld, dev>> BY DEF Issue, devVars
<1>1. /\ mReq'[c] = Append(mReq[c], Request(c, Head(free[c]), o))
      /\ ThreadHolds(c) = <<>> /\ ThreadHolds(c)' = <<>>
      /\ \A d \in Cpus : d # c => mReq'[d] = mReq[d] /\ cpu'[d] = cpu[d]
  BY DEF TypeOK, Issue, ThreadHolds, AfterPut, Running, Waiting
<1>2. ASSUME NEW z \in Places, z # <<"mReq", c>> PROVE Holds(z)' = Holds(z)
  <2>1. CASE \E d \in Cpus : z \in {<<"put", d>>, <<"mReq", d>>, <<"mHeld", d>>, <<"mRsp", d>>}
    BY ONLY <1>0, <1>1, <1>2, <2>1 DEF Holds, ThreadHolds
  <2>2. CASE \E d \in Slaves : z \in {<<"sReq", d>>, <<"serve", d>>, <<"respond", d>>, <<"sRsp", d>>, <<"sHeld", d>>}
    BY ONLY <1>0, <1>1, <1>2, <2>2 DEF Holds, DeviceServes, DeviceResponds
  <2> QED BY <2>1, <2>2, PlaceCases
<1>3. /\ Holds(<<"mReq", c>>) = mReq[c] /\ Holds(<<"mReq", c>>)' = mReq'[c]
  BY <1>1, HoldsIs
<1>4. <<"mReq", c>> \in Places BY <1>1 DEF Places
<1>5. /\ mReq'[c] = Append(mReq[c], Request(c, Head(free[c]), o))
  BY <1>1, OneMessage DEF SameTransaction
<1> QED BY ONLY <1>2, <1>3, <1>4, <1>5, NetAt DEF Puts

\* Issue, with a full queue, leaves the new request with the blocked thread.
LEMMA NetIssueBlocked ==
  ASSUME TypeOK, NEW c \in Cpus, NEW o, Issue(c, o), ~Room(mReq[c]), cpu[c].at # "put"
  PROVE  Puts(Places, Net, Net', <<"put", c>>, Request(c, Head(free[c]), o))
<1>0. UNCHANGED <<mHeld, mRsp, sReq, sRsp, sHeld, dev>> BY DEF Issue, devVars
<1>1. /\ ThreadHolds(c) = <<>> /\ ThreadHolds(c)' = <<Request(c, Head(free[c]), o)>>
      /\ mReq' = mReq /\ \A d \in Cpus : d # c => cpu'[d] = cpu[d]
  BY DEF TypeOK, Issue, ThreadHolds, Putting
<1>2. ASSUME NEW z \in Places, z # <<"put", c>> PROVE Holds(z)' = Holds(z)
  <2>1. CASE \E d \in Cpus : z \in {<<"put", d>>, <<"mReq", d>>, <<"mHeld", d>>, <<"mRsp", d>>}
    BY ONLY <1>0, <1>1, <1>2, <2>1 DEF Holds, ThreadHolds
  <2>2. CASE \E d \in Slaves : z \in {<<"sReq", d>>, <<"serve", d>>, <<"respond", d>>, <<"sRsp", d>>, <<"sHeld", d>>}
    BY ONLY <1>0, <1>1, <1>2, <2>2 DEF Holds, DeviceServes, DeviceResponds
  <2> QED BY <2>1, <2>2, PlaceCases
<1>3. /\ Holds(<<"put", c>>) = <<>> /\ Holds(<<"put", c>>)' = <<Request(c, Head(free[c]), o)>>
  BY <1>1, HoldsIs
<1>4. <<"put", c>> \in Places BY <1>1 DEF Places
<1>5. /\ <<Request(c, Head(free[c]), o)>> = Append(<<>>, Request(c, Head(free[c]), o))
  BY <1>1, OneMessage DEF SameTransaction
<1> QED BY ONLY <1>2, <1>3, <1>4, <1>5, NetAt DEF Puts

-----------------------------------------------------------------------------
(***************************************************************************)
(* Type correctness.                                                       *)
(***************************************************************************)
\* A family of bounded queues, one of them appended to or taken from.
LEMMA Appending ==
  ASSUME NEW I, NEW S, NEW q \in [I -> Seq(S)], NEW r \in [I -> Seq(S)],
         NEW i \in I, NEW m \in S, Short(q, QueueSize), Room(q[i]), Puts(I, q, r, i, m)
  PROVE  Short(r, QueueSize)
<1>1. q[i] \in Seq(S) /\ r[i] = Append(q[i], m) /\ r[i] \in Seq(S) BY DEF Puts
<1>2. Len(r[i]) = Len(q[i]) + 1 /\ Len(q[i]) \in Nat BY <1>1
<1>3. ASSUME NEW j \in I PROVE Len(r[j]) <= QueueSize
  <2>1. CASE j = i BY <1>2, <2>1, TransportAssumption DEF Room
  <2>2. CASE j # i BY <2>2 DEF Short, Puts
  <2> QED BY <2>1, <2>2
<1> QED BY <1>3 DEF Short

\* A family of bounded queues stays one when an item is taken.
LEMMA Taking ==
  ASSUME NEW I, NEW S, NEW n \in Nat, NEW q \in [I -> Seq(S)], NEW r \in [I -> Seq(S)],
         NEW i \in I, Short(q, n), Takes(I, q, r, i)
  PROVE  Short(r, n) /\ Head(q[i]) \in S
<1>1. q[i] \in Seq(S) /\ r[i] = Tail(q[i]) /\ q[i] # <<>> BY DEF Takes
<1>2. Len(r[i]) = Len(q[i]) - 1 /\ Len(q[i]) \in Nat /\ Head(q[i]) \in S
  BY <1>1
<1>3. ASSUME NEW j \in I PROVE Len(r[j]) <= n
  <2>1. CASE j = i BY <1>2, <2>1 DEF Short
  <2>2. CASE j # i BY <2>2 DEF Short, Takes
  <2> QED BY <2>1, <2>2
<1> QED BY <1>2, <1>3 DEF Short

\* The states of a thread.
LEMMA ThreadStates ==
  /\ Running \in Threads
  /\ \A o \in Accesses : Draining(o) \in Threads
  /\ \A r \in Requests : Putting(r) \in Threads
  /\ \A t \in Tids : Waiting(t) \in Threads
BY DEF Threads

\* The states of a device.
LEMMA DeviceStates ==
  /\ Idle \in Devices
  /\ \A r \in Requests : Serving(r) \in Devices
  /\ \A r \in Responses : Responding(r) \in Devices
BY DEF Devices

\* After put a thread is in one of its states.
LEMMA AfterPutType ==
  ASSUME NEW r \in Requests
  PROVE  AfterPut(r) \in Threads
<1>1. r.tid \in Tids BY DEF Requests
<1> QED BY <1>1, ThreadStates DEF AfterPut

\* The types of the pool.
PoolTypes ==
    /\ free \in [Cpus -> Seq(Tids)]
    /\ DOMAIN busy = Cpus
    /\ \A c \in Cpus : busy[c] \in [DOMAIN busy[c] -> PoolEntries]
    /\ evEmpty \in [Cpus -> BOOLEAN]

\* FreeRequest keeps the types of the pool.
LEMMA FreeRequestTypes ==
  ASSUME PoolTypes, NEW c \in Cpus, NEW t \in Tids, FreeRequest(c, t)
  PROVE  PoolTypes'
<1> USE DEF PoolTypes, FreeRequest
<1>1. free' \in [Cpus -> Seq(Tids)]
  <2>1. free[c] \in Seq(Tids) /\ <<t>> \in Seq(Tids) OBVIOUS
  <2>2. <<t>> \o free[c] \in Seq(Tids) BY <2>1
  <2> QED BY <2>2
<1>2. DOMAIN busy' = Cpus OBVIOUS
<1>3. \A d \in Cpus : busy'[d] \in [DOMAIN busy'[d] -> PoolEntries]
  <2> SUFFICES ASSUME NEW d \in Cpus PROVE busy'[d] \in [DOMAIN busy'[d] -> PoolEntries] OBVIOUS
  <2>1. CASE d = c BY <2>1
  <2>2. CASE d # c BY <2>2
  <2> QED BY <2>1, <2>2
<1>4. evEmpty' \in [Cpus -> BOOLEAN] OBVIOUS
<1> QED BY <1>1, <1>2, <1>3, <1>4

\* Issue keeps the types, and its request is one.
LEMMA IssueTypes ==
  ASSUME TypeOK, NEW c \in Cpus, NEW o \in Accesses, Issue(c, o)
  PROVE  /\ Head(free[c]) \in Tids /\ Request(c, Head(free[c]), o) \in Requests
         /\ free' \in [Cpus -> Seq(Tids)] /\ DOMAIN busy' = Cpus
         /\ \A d \in Cpus : busy'[d] \in [DOMAIN busy'[d] -> PoolEntries]
         /\ cpu' \in [Cpus -> Threads]
         /\ mReq' \in [Cpus -> Seq(Requests)] /\ Short(mReq, QueueSize)'
<1> USE DEF TypeOK, Issue
<1>1. free[c] \in Seq(Tids) /\ free[c] # <<>> OBVIOUS
<1>2. Head(free[c]) \in Tids /\ Tail(free[c]) \in Seq(Tids) BY <1>1
<1>3. Request(c, Head(free[c]), o) \in Requests BY <1>2 DEF Request, Requests, Accesses
<1>4. free' \in [Cpus -> Seq(Tids)] BY <1>2
<1>5. DOMAIN busy' = Cpus OBVIOUS
<1>6. ASSUME NEW d \in Cpus PROVE busy'[d] \in [DOMAIN busy'[d] -> PoolEntries]
  <2>1. CASE d = c
    <3>1. [bWrite |-> o.cmd = "write", bDone |-> FALSE, rcv |-> Nothing] \in PoolEntries
      BY DEF PoolEntries
    <3> QED BY <2>1, <3>1
  <2>2. CASE d # c BY <2>2
  <2> QED BY <2>1, <2>2
<1>7. cpu' \in [Cpus -> Threads] BY <1>3, AfterPutType, ThreadStates
<1>8. mReq' \in [Cpus -> Seq(Requests)] /\ Short(mReq, QueueSize)'
  <2>1. CASE Room(mReq[c])
    <3>1. mReq' = [mReq EXCEPT ![c] = Append(@, Request(c, Head(free[c]), o))] BY <2>1
    <3>2. Len(mReq[c]) < QueueSize BY <2>1 DEF Room
    <3>3. Short(mReq', QueueSize) /\ mReq' \in [Cpus -> Seq(Requests)]
      <4>1. /\ mReq \in [Cpus -> Seq(Requests)] /\ Short(mReq, QueueSize)
            /\ Room(mReq[c])
        BY <2>1
      <4>2. Puts(Cpus, mReq, mReq', c, Request(c, Head(free[c]), o)) BY <3>1 DEF Puts
      <4>3. mReq' \in [Cpus -> Seq(Requests)] BY <3>1, <1>3
      <4> QED BY ONLY <1>3, <4>1, <4>2, <4>3, c \in Cpus, Appending
    <3> QED BY <3>3
  <2>2. CASE ~Room(mReq[c]) BY <2>2 DEF Short
  <2> QED BY <2>1, <2>2
<1> QED BY <1>2, <1>3, <1>4, <1>5, <1>6, <1>7, <1>8

\* What each kind of step keeps of the types.
LEMMA TypesKept ==
  ASSUME TypeOK, [Next]_vars
  PROVE  TypeOK'
<1> USE DEF TypeOK
<1>q. QueueSize \in Nat /\ 1 \in Nat BY TransportAssumption
<1>1. ASSUME NEW c \in Cpus, NEW cmd \in {"read", "write"}, NEW a \in Addrs, Access(c, cmd, a)
      PROVE  TypeOK'
  <2> DEFINE o == [cmd |-> cmd, addr |-> a,
                   val |-> IF cmd = "write" THEN [cpu |-> c, n |-> ops[c] + 1] ELSE Nothing]
  <2>1. ops[c] + 1 \in 1 .. MaxOps /\ ops' = [ops EXCEPT ![c] = @ + 1]
    BY <1>1, TransportAssumption DEF Access
  <2>2. o \in Accesses BY <2>1 DEF Accesses, Values
  <2>3. ops' \in [Cpus -> 0 .. MaxOps] BY <2>1, TransportAssumption
  <2>4. CASE WaitEmpty(c, o) /\ DOMAIN busy[c] # {}
    <3>1. cpu' = [cpu EXCEPT ![c] = Draining(o)] /\ UNCHANGED <<free, busy, nocVars, devVars, evEmpty>>
      BY <1>1, <2>4 DEF Access
    <3>2. cpu' \in [Cpus -> Threads] BY <3>1, <2>2, ThreadStates
    <3> QED BY <3>1, <3>2, <2>3 DEF nocVars, devVars, Short
  <2>5. CASE ~(WaitEmpty(c, o) /\ DOMAIN busy[c] # {})
    <3>1. Issue(c, o) /\ UNCHANGED evEmpty BY <1>1, <2>5 DEF Access
    <3> HIDE DEF o
    <3>2. UNCHANGED <<mHeld, mRsp, sReq, sRsp, sHeld, dev, mem>> BY <3>1 DEF Issue, devVars
    <3> QED BY <3>1, <3>2, <2>2, <2>3, IssueTypes DEF Short
  <2> QED BY <2>4, <2>5
<1>2. ASSUME NEW c \in Cpus, FireEmpty(c) PROVE TypeOK'
  <2>1. evEmpty' \in [Cpus -> BOOLEAN] /\ ops' = ops BY <1>2 DEF FireEmpty
  <2>2. CASE cpu[c].at = "drain" /\ DOMAIN busy[c] = {}
    <3>1. cpu[c].op \in Accesses /\ Issue(c, cpu[c].op) BY <1>2, <2>2, ThreadType DEF FireEmpty
    <3>2. UNCHANGED <<mHeld, mRsp, sReq, sRsp, sHeld, dev, mem>> BY <3>1 DEF Issue, devVars
    <3> QED BY <3>1, <3>2, <2>1, IssueTypes DEF Short
  <2>3. CASE ~(cpu[c].at = "drain" /\ DOMAIN busy[c] = {})
    BY <1>2, <2>1, <2>3 DEF FireEmpty, nocVars, devVars, Short
  <2> QED BY <2>2, <2>3
<1>3. ASSUME NEW c \in Cpus, FinishPut(c) PROVE TypeOK'
  <2>1. cpu[c].req \in Requests BY <1>3, ThreadType DEF FinishPut
  <2>2. /\ mReq' = [mReq EXCEPT ![c] = Append(@, cpu[c].req)] /\ Room(mReq[c])
        /\ cpu' = [cpu EXCEPT ![c] = AfterPut(cpu[c].req)]
        /\ UNCHANGED <<ops, free, busy, evEmpty, mHeld, mRsp, sReq, sRsp, sHeld, dev, mem>>
    BY <1>3 DEF FinishPut, devVars
  <2>3. cpu' \in [Cpus -> Threads] BY <2>1, <2>2, AfterPutType
  <2>4. mReq' \in [Cpus -> Seq(Requests)] /\ Short(mReq', QueueSize)
    <3>1. Puts(Cpus, mReq, mReq', c, cpu[c].req) BY <2>2 DEF Puts
    <3>2. mReq' \in [Cpus -> Seq(Requests)] BY <2>1, <2>2
    <3>3. mReq \in [Cpus -> Seq(Requests)] /\ Short(mReq, QueueSize) /\ Room(mReq[c]) BY <2>2
    <3> QED BY ONLY <3>1, <3>2, <3>3, <2>1, c \in Cpus, Appending
  <2> QED BY <2>2, <2>3, <2>4 DEF Short
<1>4. ASSUME NEW c \in Cpus, Complete(c) PROVE TypeOK'
  <2>1. cpu[c].tid \in Tids BY <1>4, ThreadType DEF Complete
  <2>2. FreeRequest(c, cpu[c].tid) /\ cpu' = [cpu EXCEPT ![c] = Running]
        /\ UNCHANGED <<ops, mReq, mHeld, mRsp, sReq, sRsp, sHeld, dev, mem>>
    BY <1>4 DEF Complete, nocVars, devVars
  <2>3. PoolTypes' BY <2>1, <2>2, FreeRequestTypes DEF PoolTypes
  <2>4. cpu' \in [Cpus -> Threads] BY <2>2, ThreadStates
  <2> QED BY <2>2, <2>3, <2>4 DEF PoolTypes, Short
<1>5. ASSUME NEW c \in Cpus, ReceiveResponse(c) PROVE TypeOK'
  <2>1. /\ mRsp[c] # <<>> /\ mRsp' = [mRsp EXCEPT ![c] = Tail(@)]
        /\ UNCHANGED <<cpu, ops, mReq, mHeld, sReq, sRsp, sHeld, dev, mem>>
    BY <1>5 DEF ReceiveResponse, devVars
  <2>2. mRsp' \in [Cpus -> Seq(Responses)] /\ Short(mRsp', QueueSize) /\ Head(mRsp[c]) \in Responses
    <3>1. Takes(Cpus, mRsp, mRsp', c) BY <2>1 DEF Takes
    <3>2. mRsp[c] \in Seq(Responses) /\ Tail(mRsp[c]) \in Seq(Responses) BY <2>1
    <3>3. mRsp' \in [Cpus -> Seq(Responses)] BY <2>1, <3>2
    <3> QED BY <3>1, <3>3, <1>q, Taking
  <2> DEFINE r == Head(mRsp[c])
  <2>3. r.tid \in Tids /\ r.val \in Values \cup {Nothing} BY <2>2 DEF Responses
  <2>4. PoolTypes'
    <3>1. CASE r.src # c \/ r.tid \notin DOMAIN busy[c]
      BY <1>5, <3>1 DEF ReceiveResponse, PoolTypes
    <3>2. CASE ~(r.src # c \/ r.tid \notin DOMAIN busy[c]) /\ c \in Posting /\ busy[c][r.tid].bWrite
      <4>1. FreeRequest(c, r.tid) BY <1>5, <3>2 DEF ReceiveResponse
      <4> QED BY <2>3, <4>1, FreeRequestTypes DEF PoolTypes
    <3>3. CASE ~(r.src # c \/ r.tid \notin DOMAIN busy[c]) /\ ~(c \in Posting /\ busy[c][r.tid].bWrite)
      <4>1. /\ busy' = [busy EXCEPT ![c][r.tid].bDone = TRUE, ![c][r.tid].rcv = r.val]
            /\ UNCHANGED <<free, evEmpty>>
        BY <1>5, <3>3 DEF ReceiveResponse
      <4>2. busy[c] \in [DOMAIN busy[c] -> PoolEntries] /\ r.tid \in DOMAIN busy[c] BY <3>3
      <4>3. busy'[c] = [busy[c] EXCEPT ![r.tid] = [[@ EXCEPT !.bDone = TRUE] EXCEPT !.rcv = r.val]]
        BY <4>1
      <4> DEFINE e == busy[c][r.tid]
      <4>4. [[e EXCEPT !.bDone = TRUE] EXCEPT !.rcv = r.val] \in PoolEntries
        <5>1. e \in PoolEntries BY <4>2
        <5> HIDE DEF e, r
        <5> QED BY ONLY <5>1, <2>3 DEF PoolEntries
      <4>5. busy'[c] \in [DOMAIN busy'[c] -> PoolEntries] BY <4>2, <4>3, <4>4
      <4>6. \A d \in Cpus : d # c => busy'[d] = busy[d] BY <4>1
      <4>7. DOMAIN busy' = Cpus BY <4>1
      <4>8. \A d \in Cpus : busy'[d] \in [DOMAIN busy'[d] -> PoolEntries] BY <4>5, <4>6
      <4> QED BY <4>1, <4>7, <4>8 DEF PoolTypes
    <3> QED BY <3>1, <3>2, <3>3
  <2> QED BY <2>1, <2>2, <2>4 DEF PoolTypes, Short
<1>6. ASSUME NEW c \in Cpus, TakeRequest(c) PROVE TypeOK'
  <2>1. /\ mReq[c] # <<>> /\ mReq' = [mReq EXCEPT ![c] = Tail(@)]
        /\ mHeld' = [mHeld EXCEPT ![c] = <<Head(mReq[c])>>]
        /\ UNCHANGED <<cpu, ops, free, busy, evEmpty, mRsp, sReq, sRsp, sHeld, dev, mem>>
    BY <1>6 DEF TakeRequest, cpuVars, devVars
  <2>2. Takes(Cpus, mReq, mReq', c) BY <2>1 DEF Takes
  <2>3. mReq[c] \in Seq(Requests) /\ Tail(mReq[c]) \in Seq(Requests) BY <2>1
  <2>4. mReq' \in [Cpus -> Seq(Requests)] BY <2>1, <2>3
  <2>5. Short(mReq', QueueSize) /\ Head(mReq[c]) \in Requests BY <2>2, <2>4, <1>q, Taking
  <2>6. mHeld' \in [Cpus -> Seq(Requests)] /\ Short(mHeld', 1) BY <2>1, <2>5 DEF Short
  <2> QED BY <2>1, <2>4, <2>5, <2>6 DEF Short
<1>7. ASSUME NEW c \in Cpus, DispatchRequest(c) PROVE TypeOK'
  <2> DEFINE r == Head(mHeld[c])
             s == SlaveOf(r.addr)
  <2>1. /\ mHeld[c] # <<>> /\ Room(sReq[s])
        /\ sReq' = [sReq EXCEPT ![s] = Append(@, r)]
        /\ mHeld' = [mHeld EXCEPT ![c] = <<>>]
        /\ UNCHANGED <<cpu, ops, free, busy, evEmpty, mReq, mRsp, sRsp, sHeld, dev, mem>>
    BY <1>7 DEF DispatchRequest, cpuVars, devVars
  <2>2. r \in Requests BY <2>1
  <2>3. s \in Slaves BY <2>2, TransportAssumption DEF Requests
  <2> HIDE DEF r, s
  <2>4. Puts(Slaves, sReq, sReq', s, r) BY <2>1, <2>3 DEF Puts
  <2>5. sReq' \in [Slaves -> Seq(Requests)]
    <3>1. sReq[s] \in Seq(Requests) BY <2>3
    <3>2. Append(sReq[s], r) \in Seq(Requests) BY <2>2, <3>1
    <3> QED BY <2>1, <3>2
  <2>6. sReq \in [Slaves -> Seq(Requests)] /\ Short(sReq, QueueSize) /\ Room(sReq[s]) BY <2>1
  <2>7. Short(sReq', QueueSize) BY ONLY <2>2, <2>3, <2>4, <2>5, <2>6, Appending
  <2>8. mHeld' \in [Cpus -> Seq(Requests)] /\ Short(mHeld', 1) BY <2>1 DEF Short
  <2> QED BY <2>1, <2>5, <2>7, <2>8 DEF Short
<1>8. ASSUME NEW s \in Slaves, TakeResponse(s) PROVE TypeOK'
  <2>1. /\ sRsp[s] # <<>> /\ sRsp' = [sRsp EXCEPT ![s] = Tail(@)]
        /\ sHeld' = [sHeld EXCEPT ![s] = <<Head(sRsp[s])>>]
        /\ UNCHANGED <<cpu, ops, free, busy, evEmpty, mReq, mHeld, mRsp, sReq, dev, mem>>
    BY <1>8 DEF TakeResponse, cpuVars, devVars
  <2>2. Takes(Slaves, sRsp, sRsp', s) BY <2>1 DEF Takes
  <2>3. sRsp[s] \in Seq(Responses) /\ Tail(sRsp[s]) \in Seq(Responses) BY <2>1
  <2>4. sRsp' \in [Slaves -> Seq(Responses)] BY <2>1, <2>3
  <2>5. Short(sRsp', QueueSize) /\ Head(sRsp[s]) \in Responses BY <2>2, <2>4, <1>q, Taking
  <2>6. sHeld' \in [Slaves -> Seq(Responses)] /\ Short(sHeld', 1) BY <2>1, <2>5 DEF Short
  <2> QED BY <2>1, <2>4, <2>5, <2>6 DEF Short
<1>9. ASSUME NEW s \in Slaves, DispatchResponse(s) PROVE TypeOK'
  <2> DEFINE r == Head(sHeld[s])
             c == r.src
  <2>1. /\ sHeld[s] # <<>> /\ Room(mRsp[c])
        /\ mRsp' = [mRsp EXCEPT ![c] = Append(@, r)]
        /\ sHeld' = [sHeld EXCEPT ![s] = <<>>]
        /\ UNCHANGED <<cpu, ops, free, busy, evEmpty, mReq, mHeld, sReq, sRsp, dev, mem>>
    BY <1>9 DEF DispatchResponse, cpuVars, devVars
  <2>2. r \in Responses BY <2>1
  <2>3. c \in Cpus BY <2>2 DEF Responses
  <2> HIDE DEF r, c
  <2>4. Puts(Cpus, mRsp, mRsp', c, r) BY <2>1, <2>3 DEF Puts
  <2>5. mRsp' \in [Cpus -> Seq(Responses)]
    <3>1. mRsp[c] \in Seq(Responses) BY <2>3
    <3>2. Append(mRsp[c], r) \in Seq(Responses) BY <2>2, <3>1
    <3> QED BY <2>1, <3>2
  <2>6. mRsp \in [Cpus -> Seq(Responses)] /\ Short(mRsp, QueueSize) /\ Room(mRsp[c]) BY <2>1
  <2>7. Short(mRsp', QueueSize) BY ONLY <2>2, <2>3, <2>4, <2>5, <2>6, Appending
  <2>8. sHeld' \in [Slaves -> Seq(Responses)] /\ Short(sHeld', 1) BY <2>1 DEF Short
  <2> QED BY <2>1, <2>5, <2>7, <2>8 DEF Short
<1>10. ASSUME NEW s \in Slaves, GetRequest(s) PROVE TypeOK'
  <2>1. /\ sReq[s] # <<>> /\ sReq' = [sReq EXCEPT ![s] = Tail(@)]
        /\ dev' = [dev EXCEPT ![s] = Serving(Head(sReq[s]))]
        /\ UNCHANGED <<cpu, ops, free, busy, evEmpty, mReq, mHeld, mRsp, sRsp, sHeld, mem>>
    BY <1>10 DEF GetRequest, cpuVars
  <2>2. Takes(Slaves, sReq, sReq', s) BY <2>1 DEF Takes
  <2>3. sReq[s] \in Seq(Requests) /\ Tail(sReq[s]) \in Seq(Requests) BY <2>1
  <2>4. sReq' \in [Slaves -> Seq(Requests)] BY <2>1, <2>3
  <2>5. Short(sReq', QueueSize) /\ Head(sReq[s]) \in Requests BY <2>2, <2>4, <1>q, Taking
  <2>6. dev' \in [Slaves -> Devices] BY <2>1, <2>5, DeviceStates
  <2> QED BY <2>1, <2>4, <2>5, <2>6 DEF Short
<1>11. ASSUME NEW s \in Slaves, Serve(s) PROVE TypeOK'
  <2> DEFINE r == dev[s].req
  <2>1. /\ mem' = IF r.cmd = "write" THEN [mem EXCEPT ![r.addr] = r.val] ELSE mem
        /\ UNCHANGED <<cpu, ops, free, busy, evEmpty, mReq, mHeld, mRsp, sReq, sHeld>>
    BY <1>11 DEF Serve, cpuVars
  <2>2. r \in Requests BY <1>11, DeviceType DEF Serve
  <2>3. r.src \in Cpus /\ r.tid \in Tids /\ r.addr \in Addrs /\ r.val \in Values \cup {Nothing}
    BY <2>2 DEF Requests
  <2>4. Answer(r) \in Responses
    <3>1. mem[r.addr] \in Values \cup {Nothing} BY <2>3
    <3> QED BY <2>3, <3>1 DEF Answer, Response, Responses
  <2>5. mem' \in [Addrs -> Values \cup {Nothing}] BY <2>1, <2>3
  <2>6. CASE Room(sRsp[s])
    <3>1. sRsp' = [sRsp EXCEPT ![s] = Append(@, Answer(r))] /\ dev' = [dev EXCEPT ![s] = Idle]
      BY <1>11, <2>6 DEF Serve, Answer
    <3> HIDE DEF r
    <3>2. Puts(Slaves, sRsp, sRsp', s, Answer(r)) BY <3>1 DEF Puts
    <3>3. sRsp' \in [Slaves -> Seq(Responses)] BY <2>4, <3>1
    <3>4. sRsp \in [Slaves -> Seq(Responses)] /\ Short(sRsp, QueueSize) BY <2>6
    <3>5. Short(sRsp', QueueSize) BY ONLY <2>4, <2>6, <3>2, <3>3, <3>4, s \in Slaves, Appending
    <3>6. dev' \in [Slaves -> Devices] BY <3>1, DeviceStates
    <3> QED BY <2>1, <2>5, <3>3, <3>5, <3>6 DEF Short
  <2>7. CASE ~Room(sRsp[s])
    <3>1. sRsp' = sRsp /\ dev' = [dev EXCEPT ![s] = Responding(Answer(r))]
      BY <1>11, <2>7 DEF Serve, Answer
    <3> HIDE DEF r
    <3>2. dev' \in [Slaves -> Devices] BY <2>4, <3>1, DeviceStates
    <3> QED BY <2>1, <2>5, <3>1, <3>2 DEF Short
  <2> QED BY <2>6, <2>7
<1>12. ASSUME NEW s \in Slaves, Respond(s) PROVE TypeOK'
  <2> DEFINE r == dev[s].rsp
  <2>1. /\ Room(sRsp[s]) /\ sRsp' = [sRsp EXCEPT ![s] = Append(@, r)]
        /\ dev' = [dev EXCEPT ![s] = Idle]
        /\ UNCHANGED <<cpu, ops, free, busy, evEmpty, mReq, mHeld, mRsp, sReq, sHeld, mem>>
    BY <1>12 DEF Respond, cpuVars
  <2>2. r \in Responses BY <1>12, DeviceType DEF Respond
  <2> HIDE DEF r
  <2>3. Puts(Slaves, sRsp, sRsp', s, r) BY <2>1 DEF Puts
  <2>4. sRsp' \in [Slaves -> Seq(Responses)] BY <2>1, <2>2
  <2>5. sRsp \in [Slaves -> Seq(Responses)] /\ Short(sRsp, QueueSize) /\ Room(sRsp[s]) BY <2>1
  <2>6. Short(sRsp', QueueSize) BY ONLY <2>2, <2>3, <2>4, <2>5, s \in Slaves, Appending
  <2>7. dev' \in [Slaves -> Devices] BY <2>1, DeviceStates
  <2> QED BY <2>1, <2>4, <2>6, <2>7 DEF Short
<1>13. CASE UNCHANGED vars BY <1>13 DEF vars, Short
<1> QED
  BY <1>1, <1>2, <1>3, <1>4, <1>5, <1>6, <1>7, <1>8, <1>9, <1>10, <1>11, <1>12, <1>13
  DEF Next, MasterStep, SlaveStep

-----------------------------------------------------------------------------
(***************************************************************************)
(* The pool and the path.                                                  *)
(***************************************************************************)
\* Taking the top of a stack without duplicates.
LEMMA Popped ==
  ASSUME NEW S, NEW q \in Seq(S), q # <<>>, IsInjective(q)
  PROVE  /\ IsInjective(Tail(q)) /\ ToSet(Tail(q)) = ToSet(q) \ {Head(q)}
         /\ Head(q) \in ToSet(q) /\ Head(q) \in S
<1>1. /\ Len(q) \in Nat \ {0} /\ DOMAIN q = 1 .. Len(q) /\ Head(q) = q[1] /\ q[1] \in S
      /\ DOMAIN Tail(q) = 1 .. Len(q) - 1
      /\ \A i \in 1 .. Len(q) - 1 : Tail(q)[i] = q[i + 1]
  OBVIOUS
<1>2. IsInjective(Tail(q)) BY <1>1 DEF IsInjective
<1>3. ASSUME NEW e PROVE e \in ToSet(Tail(q)) <=> e \in ToSet(q) \ {Head(q)}
  <2>1. ASSUME e \in ToSet(Tail(q)) PROVE e \in ToSet(q) \ {Head(q)}
    <3>1. PICK i \in 1 .. Len(q) - 1 : e = q[i + 1] BY <1>1, <2>1 DEF ToSet
    <3>2. i + 1 \in DOMAIN q /\ i + 1 # 1 /\ 1 \in DOMAIN q BY <1>1
    <3> QED BY <1>1, <3>1, <3>2 DEF ToSet, IsInjective
  <2>2. ASSUME e \in ToSet(q) \ {Head(q)} PROVE e \in ToSet(Tail(q))
    <3>1. PICK i \in DOMAIN q : e = q[i] BY <2>2 DEF ToSet
    <3>2. i # 1 BY <1>1, <2>2, <3>1
    <3>3. i - 1 \in 1 .. Len(q) - 1 /\ q[(i - 1) + 1] = e BY <1>1, <3>1, <3>2
    <3>4. Tail(q)[i - 1] = e BY <1>1, <3>3
    <3> QED BY <1>1, <3>3, <3>4 DEF ToSet
  <2> QED BY <2>1, <2>2
<1>4. ToSet(Tail(q)) = ToSet(q) \ {Head(q)} BY ONLY <1>3
<1>5. Head(q) \in ToSet(q) BY <1>1 DEF ToSet
<1> QED BY <1>1, <1>2, <1>4, <1>5

\* Putting a new item on a stack without duplicates.
LEMMA Pushed ==
  ASSUME NEW S, NEW q \in Seq(S), NEW e \in S, IsInjective(q), e \notin ToSet(q)
  PROVE  IsInjective(<<e>> \o q) /\ ToSet(<<e>> \o q) = ToSet(q) \cup {e}
<1> DEFINE p == <<e>> \o q
<1>1. /\ Len(q) \in Nat /\ DOMAIN q = 1 .. Len(q)
      /\ DOMAIN p = 1 .. Len(q) + 1 /\ p[1] = e
      /\ \A i \in 2 .. Len(q) + 1 : p[i] = q[i - 1]
  OBVIOUS
<1> HIDE DEF p
<1>2. ASSUME NEW i \in DOMAIN p PROVE (i = 1 /\ p[i] = e) \/ (i - 1 \in DOMAIN q /\ p[i] = q[i - 1])
  <2>1. CASE i = 1
    <3>1. p[i] = e BY <1>1, <2>1
    <3> QED BY <2>1, <3>1
  <2>2. CASE i # 1
    <3>1. i \in 2 .. Len(q) + 1 /\ i - 1 \in 1 .. Len(q) BY <1>1, <2>2
    <3> QED BY <1>1, <3>1
  <2> QED BY <2>1, <2>2
<1>3. \A i \in DOMAIN q : i + 1 \in DOMAIN p /\ p[i + 1] = q[i] /\ q[i] # e BY <1>1 DEF ToSet
<1>4. IsInjective(p)
  <2> SUFFICES ASSUME NEW i \in DOMAIN p, NEW j \in DOMAIN p, p[i] = p[j] PROVE i = j
    BY DEF IsInjective
  <2>1. i \in Int /\ j \in Int BY <1>1
  <2>2. i - 1 \in DOMAIN q /\ j - 1 \in DOMAIN q /\ q[i - 1] = q[j - 1] => i - 1 = j - 1
    BY DEF IsInjective
  <2> QED BY <1>2, <1>3, <2>1, <2>2
<1>5. ToSet(p) = ToSet(q) \cup {e}
  <2>1. 1 \in DOMAIN p BY <1>1
  <2> QED BY <1>1, <1>2, <1>3, <2>1 DEF ToSet
<1> QED BY <1>4, <1>5 DEF p

\* A message that moves along the path keeps the pool and what is carried.
LEMMA FlowKept ==
  ASSUME TypeOK, TypeOK', Pool, CarriedOnce, CarriedInUse, UNCHANGED <<free, busy>>,
         NEW x \in Places, NEW y \in Places, NEW m \in Messages,
         Transfers(Places, Net, Net', x, y, m)
  PROVE  Pool' /\ CarriedOnce' /\ CarriedInUse'
<1>1. Net \in [Places -> Seq(Messages)] BY NetType DEF NetOfSequences
<1>2. NetOfSequences' BY NetType, PTL
<1>3. Once(Net') /\ \A c, t : On(Net', c, t) <=> On(Net, c, t)
  BY <1>1, <1>2, Moves DEF CarriedOnce, NetOfSequences
<1>4. CarriedOnce' BY <1>3 DEF CarriedOnce
<1>5. CarriedInUse' BY <1>3 DEF CarriedInUse
<1>6. Pool' BY DEF Pool
<1> QED BY <1>4, <1>5, <1>6

\* So does a step that leaves the path and the pool alone.
LEMMA RestKept ==
  ASSUME Pool, CarriedOnce, CarriedInUse, UNCHANGED <<free, busy>>, Net' = Net
  PROVE  Pool' /\ CarriedOnce' /\ CarriedInUse'
BY DEF Pool, CarriedOnce, CarriedInUse

\* What is carried is in use, and carried in the places it is at only.
LEMMA HeldIsInUse ==
  ASSUME CarriedInUse, NEW x \in Places, NEW i \in DOMAIN Holds(x),
         Holds(x)[i].src \in Cpus, Holds(x)[i].tid \in Tids
  PROVE  /\ Holds(x)[i].tid \in DOMAIN busy[Holds(x)[i].src]
         /\ ~busy[Holds(x)[i].src][Holds(x)[i].tid].bDone
<1>1. Net[x] = Holds(x) /\ DOMAIN Net = Places BY DEF Net
<1>2. On(Net, Holds(x)[i].src, Holds(x)[i].tid) BY <1>1 DEF On, Carries
<1> QED BY <1>2 DEF CarriedInUse

\* Two messages of one transaction are at the same place of the same queue.
LEMMA HeldOnce ==
  ASSUME CarriedOnce, NEW x \in Places, NEW i \in DOMAIN Holds(x),
         NEW y \in Places, NEW j \in DOMAIN Holds(y),
         SameTransaction(Holds(x)[i], Holds(y)[j])
  PROVE  x = y /\ i = j
<1>1. Net[x] = Holds(x) /\ Net[y] = Holds(y) /\ DOMAIN Net = Places BY DEF Net
<1> QED BY <1>1 DEF CarriedOnce, Once

-----------------------------------------------------------------------------
(***************************************************************************)
(* Each action keeps the invariant.                                        *)
(***************************************************************************)
\* The places of a master.
LEMMA MastersInPlace ==
  ASSUME NEW c \in Cpus
  PROVE  /\ <<"put", c>> \in Places /\ <<"mReq", c>> \in Places
         /\ <<"mHeld", c>> \in Places /\ <<"mRsp", c>> \in Places
BY DEF Places

\* The places of a slave.
LEMMA SlavesInPlace ==
  ASSUME NEW s \in Slaves
  PROVE  /\ <<"sReq", s>> \in Places /\ <<"serve", s>> \in Places /\ <<"respond", s>> \in Places
         /\ <<"sRsp", s>> \in Places /\ <<"sHeld", s>> \in Places
BY DEF Places

\* What a thread waits for depends on the threads and the pool only.
LEMMA ProcessesKept ==
  ASSUME Awaited, UNCHANGED <<cpu, busy>>
  PROVE  Awaited'
BY DEF Awaited, AwaitedBy, Posted, Expects

\* A request on its way through the dispatcher of its master.
LEMMA TakeRequestKeeps ==
  ASSUME NocInv, TypeOK', NEW c \in Cpus, TakeRequest(c)
  PROVE  NocInv'
<1>1. /\ mReq[c] # <<>> /\ mReq' = [mReq EXCEPT ![c] = Tail(@)]
      /\ mHeld' = [mHeld EXCEPT ![c] = <<Head(mReq[c])>>]
      /\ UNCHANGED <<cpu, free, busy, mRsp>>
  BY DEF TakeRequest, cpuVars, devVars
<1>2. mReq[c] \in Seq(Requests) /\ mReq \in [Cpus -> Seq(Requests)] /\ mHeld \in [Cpus -> Seq(Requests)]
  BY DEF NocInv, TypeOK
<1>3. /\ Head(mReq[c]) \in Requests /\ Head(mReq[c]) = mReq[c][1] /\ 1 \in DOMAIN mReq[c]
      /\ \A i \in DOMAIN Tail(mReq[c]) : i + 1 \in DOMAIN mReq[c] /\ Tail(mReq[c])[i] = mReq[c][i + 1]
  BY <1>1, <1>2
<1>4. Head(mReq[c]) \in Messages BY <1>3 DEF Messages
<1>5. Pool' /\ CarriedOnce' /\ CarriedInUse'
  <2>1. Transfers(Places, Net, Net', <<"mReq", c>>, <<"mHeld", c>>, Head(mReq[c]))
    BY NetTakeRequest DEF NocInv
  <2> QED BY <1>1, <1>4, <2>1, FlowKept, MastersInPlace DEF NocInv
<1>6. Home'
  <2>1. \A d \in Cpus : \A i \in DOMAIN mReq'[d] : mReq'[d][i].src = d
    BY <1>1, <1>2, <1>3 DEF NocInv, Home
  <2>2. \A d \in Cpus : \A i \in DOMAIN mHeld'[d] : mHeld'[d][i].src = d
    BY <1>1, <1>2, <1>3 DEF NocInv, Home
  <2> QED BY <1>1, <2>1, <2>2 DEF NocInv, Home
<1>7. Awaited' BY <1>1, ProcessesKept DEF NocInv
<1> QED BY <1>5, <1>6, <1>7 DEF NocInv

\* A request that goes to the slave its address is mapped to.
LEMMA DispatchRequestKeeps ==
  ASSUME NocInv, TypeOK', NEW c \in Cpus, DispatchRequest(c)
  PROVE  NocInv'
<1>1. /\ mHeld[c] # <<>> /\ mHeld' = [mHeld EXCEPT ![c] = <<>>]
      /\ UNCHANGED <<cpu, free, busy, mReq, mRsp>>
  BY DEF DispatchRequest, cpuVars, devVars
<1>2. mHeld \in [Cpus -> Seq(Requests)] BY DEF NocInv, TypeOK
<1>3. Head(mHeld[c]) \in Requests BY <1>1, <1>2
<1>4. PICK s \in Slaves : s = SlaveOf(Head(mHeld[c]).addr) BY <1>3, TransportAssumption DEF Requests
<1>5. Pool' /\ CarriedOnce' /\ CarriedInUse'
  <2>1. Transfers(Places, Net, Net', <<"mHeld", c>>, <<"sReq", s>>, Head(mHeld[c]))
    BY <1>4, NetDispatchRequest DEF NocInv
  <2>2. Head(mHeld[c]) \in Messages BY <1>3 DEF Messages
  <2> QED BY <1>1, <2>1, <2>2, FlowKept, MastersInPlace, SlavesInPlace DEF NocInv
<1>6. Home' BY <1>1, <1>2 DEF NocInv, Home
<1>7. Awaited' BY <1>1, ProcessesKept DEF NocInv
<1> QED BY <1>5, <1>6, <1>7 DEF NocInv

\* A slave's step that moves message m from place x to place y.
LEMMA SlaveKeeps ==
  ASSUME NocInv, TypeOK', NEW x \in Places, NEW y \in Places, NEW m \in Messages,
         Transfers(Places, Net, Net', x, y, m),
         UNCHANGED <<cpu, free, busy, mReq, mHeld, mRsp>>
  PROVE  NocInv'
<1>1. Pool' /\ CarriedOnce' /\ CarriedInUse' BY FlowKept DEF NocInv
<1>2. Home' BY DEF NocInv, Home
<1>3. Awaited' BY ProcessesKept DEF NocInv
<1> QED BY <1>1, <1>2, <1>3 DEF NocInv

\* A request that its device takes.
LEMMA GetRequestKeeps ==
  ASSUME NocInv, TypeOK', NEW s \in Slaves, GetRequest(s)
  PROVE  NocInv'
<1>1. sReq[s] # <<>> /\ UNCHANGED <<cpu, free, busy, mReq, mHeld, mRsp>> BY DEF GetRequest, cpuVars
<1>2. sReq[s] \in Seq(Requests) BY DEF NocInv, TypeOK
<1>3. Head(sReq[s]) \in Messages BY <1>1, <1>2 DEF Messages
<1>4. Transfers(Places, Net, Net', <<"sReq", s>>, <<"serve", s>>, Head(sReq[s]))
  BY NetGetRequest DEF NocInv
<1> QED BY <1>1, <1>3, <1>4, SlaveKeeps, SlavesInPlace

\* The response of a device is a response.
LEMMA AnswerType ==
  ASSUME TypeOK, NEW r \in Requests
  PROVE  Answer(r) \in Responses
<1>1. mem[r.addr] \in Values \cup {Nothing} BY DEF TypeOK, Requests
<1> QED BY <1>1 DEF Answer, Response, Requests, Responses

\* A device that performs the access and answers.
LEMMA ServeKeeps ==
  ASSUME NocInv, TypeOK', NEW s \in Slaves, Serve(s)
  PROVE  NocInv'
<1>1. UNCHANGED <<cpu, free, busy, mReq, mHeld, mRsp>> BY DEF Serve, cpuVars
<1>2. dev[s].req \in Requests BY DeviceType DEF NocInv, TypeOK, Serve
<1>3. Answer(dev[s].req) \in Messages BY <1>2, AnswerType DEF NocInv, Messages
<1>4. \/ Transfers(Places, Net, Net', <<"serve", s>>, <<"sRsp", s>>, Answer(dev[s].req))
      \/ Transfers(Places, Net, Net', <<"serve", s>>, <<"respond", s>>, Answer(dev[s].req))
  BY NetServeSent, NetServeBlocked DEF NocInv
<1> QED BY <1>1, <1>3, <1>4, SlaveKeeps, SlavesInPlace

\* A device that was blocked with its response.
LEMMA RespondKeeps ==
  ASSUME NocInv, TypeOK', NEW s \in Slaves, Respond(s)
  PROVE  NocInv'
<1>1. UNCHANGED <<cpu, free, busy, mReq, mHeld, mRsp>> BY DEF Respond, cpuVars
<1>2. dev[s].rsp \in Responses BY DeviceType DEF NocInv, TypeOK, Respond
<1>3. dev[s].rsp \in Messages BY <1>2 DEF Messages
<1>4. Transfers(Places, Net, Net', <<"respond", s>>, <<"sRsp", s>>, dev[s].rsp)
  BY NetRespond DEF NocInv
<1> QED BY <1>1, <1>3, <1>4, SlaveKeeps, SlavesInPlace

\* A response on its way through the dispatcher of its slave.
LEMMA TakeResponseKeeps ==
  ASSUME NocInv, TypeOK', NEW s \in Slaves, TakeResponse(s)
  PROVE  NocInv'
<1>1. sRsp[s] # <<>> /\ UNCHANGED <<cpu, free, busy, mReq, mHeld, mRsp>> BY DEF TakeResponse, cpuVars
<1>2. sRsp[s] \in Seq(Responses) BY DEF NocInv, TypeOK
<1>3. Head(sRsp[s]) \in Messages BY <1>1, <1>2 DEF Messages
<1>4. Transfers(Places, Net, Net', <<"sRsp", s>>, <<"sHeld", s>>, Head(sRsp[s]))
  BY NetTakeResponse DEF NocInv
<1> QED BY <1>1, <1>3, <1>4, SlaveKeeps, SlavesInPlace

\* A response that goes to the master it names.
LEMMA DispatchResponseKeeps ==
  ASSUME NocInv, TypeOK', NEW s \in Slaves, DispatchResponse(s)
  PROVE  NocInv'
<1>1. /\ sHeld[s] # <<>>
      /\ mRsp' = [mRsp EXCEPT ![Head(sHeld[s]).src] = Append(@, Head(sHeld[s]))]
      /\ UNCHANGED <<cpu, free, busy, mReq, mHeld>>
  BY DEF DispatchResponse, cpuVars, devVars
<1>2. sHeld[s] \in Seq(Responses) /\ mRsp \in [Cpus -> Seq(Responses)] BY DEF NocInv, TypeOK
<1>3. Head(sHeld[s]) \in Responses BY <1>1, <1>2
<1>4. PICK c \in Cpus : c = Head(sHeld[s]).src BY <1>3 DEF Responses
<1>5. Pool' /\ CarriedOnce' /\ CarriedInUse'
  <2>1. Transfers(Places, Net, Net', <<"sHeld", s>>, <<"mRsp", c>>, Head(sHeld[s]))
    BY <1>4, NetDispatchResponse DEF NocInv
  <2>2. Head(sHeld[s]) \in Messages BY <1>3 DEF Messages
  <2> QED BY <1>1, <2>1, <2>2, FlowKept, MastersInPlace, SlavesInPlace DEF NocInv
<1>6. \A d \in Cpus : \A i \in DOMAIN mRsp'[d] : mRsp'[d][i].src = d
  <2> SUFFICES ASSUME NEW d \in Cpus, NEW i \in DOMAIN mRsp'[d] PROVE mRsp'[d][i].src = d OBVIOUS
  <2>1. CASE d = c
    <3>1. mRsp[c] \in Seq(Responses) /\ mRsp'[c] = Append(mRsp[c], Head(sHeld[s]))
      BY <1>1, <1>2, <1>4
    <3>2. (i \in DOMAIN mRsp[c] /\ mRsp'[c][i] = mRsp[c][i]) \/ mRsp'[c][i] = Head(sHeld[s])
      BY <2>1, <3>1
    <3> QED BY <1>4, <2>1, <3>2 DEF NocInv, Home
  <2>2. CASE d # c BY <1>1, <1>2, <1>4, <2>2 DEF NocInv, Home
  <2> QED BY <2>1, <2>2
<1>7. Home' BY <1>1, <1>6 DEF NocInv, Home
<1>8. Awaited' BY <1>1, ProcessesKept DEF NocInv
<1> QED BY <1>5, <1>7, <1>8 DEF NocInv

\* A thread that was blocked with its request.
LEMMA FinishPutKeeps ==
  ASSUME NocInv, TypeOK', NEW c \in Cpus, FinishPut(c), NEW r, r = cpu[c].req
  PROVE  NocInv'
<1>1. /\ cpu[c].at = "put" /\ cpu' = [cpu EXCEPT ![c] = AfterPut(r)]
      /\ mReq' = [mReq EXCEPT ![c] = Append(@, r)]
      /\ UNCHANGED <<free, busy, mHeld, mRsp>>
  BY DEF FinishPut, devVars
<1>2. /\ r \in Requests /\ cpu \in [Cpus -> Threads] /\ mReq \in [Cpus -> Seq(Requests)]
  BY <1>1, ThreadType DEF NocInv, TypeOK
<1>3. r \in Messages /\ r.tid \in Tids /\ r.cmd \in {"read", "write"} BY <1>2 DEF Messages, Requests
<1>4. r.src = c BY <1>1 DEF NocInv, Home
<1>5. Pool' /\ CarriedOnce' /\ CarriedInUse'
  <2>1. Transfers(Places, Net, Net', <<"put", c>>, <<"mReq", c>>, r) BY NetFinishPut DEF NocInv
  <2> QED BY <1>1, <1>3, <2>1, FlowKept, MastersInPlace DEF NocInv
<1>6. r.tid \in DOMAIN busy[c]
  <2>1. Holds(<<"put", c>>) = <<r>> BY <1>1, HoldsIs DEF ThreadHolds
  <2>2. 1 \in DOMAIN Holds(<<"put", c>>) /\ Holds(<<"put", c>>)[1] = r BY <2>1
  <2> QED BY <1>3, <1>4, <2>2, HeldIsInUse, MastersInPlace DEF NocInv
<1>7. \A d \in Cpus : \A i \in DOMAIN mReq'[d] : mReq'[d][i].src = d
  <2> SUFFICES ASSUME NEW d \in Cpus, NEW i \in DOMAIN mReq'[d] PROVE mReq'[d][i].src = d OBVIOUS
  <2>1. CASE d = c
    <3>1. mReq[c] \in Seq(Requests) /\ mReq'[c] = Append(mReq[c], r) BY <1>1, <1>2
    <3>2. (i \in DOMAIN mReq[c] /\ mReq'[c][i] = mReq[c][i]) \/ mReq'[c][i] = r
      BY <2>1, <3>1
    <3> QED BY <1>4, <2>1, <3>2 DEF NocInv, Home
  <2>2. CASE d # c BY <1>1, <1>2, <2>2 DEF NocInv, Home
  <2> QED BY <2>1, <2>2
<1>8. cpu'[c] = AfterPut(r) /\ \A d \in Cpus : d # c => cpu'[d] = cpu[d] BY <1>1, <1>2
<1>9. AfterPut(r) = IF c \in Posting /\ r.cmd = "write" THEN Running ELSE Waiting(r.tid)
  BY <1>4 DEF AfterPut
<1>10. cpu'[c].at # "put" BY <1>8, <1>9 DEF Running, Waiting
<1>11. Home' BY <1>1, <1>7, <1>8, <1>10 DEF NocInv, Home
<1>13. \A t : Posted(c, t)' <=> Posted(c, t) BY <1>1 DEF Posted
<1>14. /\ (busy[c][r.tid].bWrite <=> r.cmd = "write")
       /\ \A t \in DOMAIN busy[c] : ~busy[c][t].bDone /\ (Posted(c, t) \/ t = r.tid)
  BY <1>1 DEF NocInv, Awaited, AwaitedBy, Expects
<1>15. AwaitedBy(c)'
  <2>1. CASE c \in Posting /\ r.cmd = "write"
    <3>1. cpu'[c].at = "run" BY <1>8, <1>9, <2>1 DEF Running
    <3>2. Posted(c, r.tid) BY <1>14, <2>1 DEF Posted
    <3> QED BY <1>1, <1>13, <1>14, <3>1, <3>2 DEF AwaitedBy
  <2>2. CASE ~(c \in Posting /\ r.cmd = "write")
    <3>1. cpu'[c].at = "wait" /\ cpu'[c].tid = r.tid BY <1>8, <1>9, <2>2 DEF Waiting
    <3>2. ~Posted(c, r.tid)' BY <1>13, <1>14, <2>2 DEF Posted
    <3>3. Expects(c, r.tid)' BY <3>1 DEF Expects
    <3>4. (cpu[c].tid \in DOMAIN busy[c] /\ ~Posted(c, cpu[c].tid))'
      BY <1>1, <1>6, <3>1, <3>2 DEF Posted
    <3> QED BY <1>1, <1>13, <1>14, <3>1, <3>3, <3>4 DEF AwaitedBy
  <2> QED BY <2>1, <2>2
<1>16. \A d \in Cpus : d # c => AwaitedBy(d)'
  BY <1>8, <1>1 DEF NocInv, Awaited, AwaitedBy, Posted, Expects
<1>17. Awaited' BY <1>15, <1>16 DEF Awaited
<1> QED BY <1>5, <1>11, <1>17 DEF NocInv

\* A new transaction of a thread that has none to wait for.
LEMMA IssueKeeps ==
  ASSUME NocInv, TypeOK', NEW c \in Cpus, NEW o \in Accesses, Issue(c, o),
         cpu[c].at \in {"run", "drain"}, NEW t, t = Head(free[c]), NEW r, r = Request(c, t, o)
  PROVE  NocInv'
<1>1. /\ free[c] # <<>> /\ free' = [free EXCEPT ![c] = Tail(@)]
      /\ busy' = [busy EXCEPT ![c] =
                     [u \in DOMAIN @ \cup {t} |->
                        IF u = t THEN [bWrite |-> o.cmd = "write", bDone |-> FALSE,
                                       rcv |-> Nothing]
                                 ELSE @[u]]]
      /\ UNCHANGED <<mHeld, mRsp>>
  BY DEF Issue
<1>2. /\ cpu \in [Cpus -> Threads] /\ free \in [Cpus -> Seq(Tids)] /\ DOMAIN busy = Cpus
      /\ mReq \in [Cpus -> Seq(Requests)]
  BY DEF NocInv, TypeOK
<1>3. /\ t \in Tids /\ IsInjective(Tail(free[c])) /\ ToSet(Tail(free[c])) = ToSet(free[c]) \ {t}
      /\ t \in ToSet(free[c])
  BY <1>1, <1>2, Popped DEF NocInv, Pool
<1>4. t \notin DOMAIN busy[c] BY <1>3 DEF NocInv, Pool
<1>5. r \in Requests /\ r.src = c /\ r.tid = t /\ r.cmd = o.cmd /\ o.cmd \in {"read", "write"}
  BY <1>3 DEF Request, Requests, Accesses
<1>6. r \in Messages BY <1>5 DEF Messages
<1>7. \/ /\ Puts(Places, Net, Net', <<"mReq", c>>, r)
         /\ mReq' = [mReq EXCEPT ![c] = Append(@, r)]
         /\ cpu' = [cpu EXCEPT ![c] = AfterPut(r)]
      \/ /\ Puts(Places, Net, Net', <<"put", c>>, r)
         /\ mReq' = mReq
         /\ cpu' = [cpu EXCEPT ![c] = Putting(r)]
  BY NetIssueSent, NetIssueBlocked DEF NocInv, Issue
<1>8. /\ DOMAIN busy'[c] = DOMAIN busy[c] \cup {t} /\ ~busy'[c][t].bDone
      /\ \A u \in DOMAIN busy[c] : busy'[c][u] = busy[c][u]
      /\ \A d \in Cpus : d # c => busy'[d] = busy[d] /\ free'[d] = free[d]
      /\ free'[c] = Tail(free[c])
  BY <1>1, <1>2, <1>4
<1>9. busy'[c][t].bWrite <=> o.cmd = "write" BY <1>1, <1>2, <1>4
<1>10. Pool' BY <1>3, <1>8 DEF NocInv, Pool
<1>11. Once(Net') /\ \A d, u : On(Net', d, u) <=> On(Net, d, u) \/ Carries(r, d, u)
  <2>1. Net \in [Places -> Seq(Messages)] BY NetType DEF NocInv, NetOfSequences
  <2>2. NetOfSequences' BY NetType, PTL
  <2>3. \A d, u : Carries(r, d, u) => ~On(Net, d, u)
    BY <1>3, <1>4, <1>5 DEF Carries, NocInv, CarriedInUse
  <2>4. Once(Net) BY DEF NocInv, CarriedOnce
  <2>5. Net' \in [Places -> Seq(Messages)] BY <2>2 DEF NetOfSequences
  <2>6. PICK x \in Places : Puts(Places, Net, Net', x, r) BY <1>7, MastersInPlace
  <2>7. /\ Once(Net')
        /\ \A d, u : On(Net', d, u) <=> On(Net, d, u) \/ Carries(r, d, u)
    BY ONLY <1>6, <2>1, <2>3, <2>4, <2>5, <2>6, Enters
  <2> QED BY <2>7
<1>12. CarriedOnce' BY <1>11 DEF CarriedOnce
<1>13. CarriedInUse'
  <2> SUFFICES ASSUME NEW d \in Cpus, NEW u \in Tids
               PROVE  On(Net', d, u) <=> u \in DOMAIN busy'[d] /\ ~busy'[d][u].bDone
    BY DEF CarriedInUse
  <2>1. Carries(r, d, u) <=> d = c /\ u = t BY <1>5 DEF Carries
  <2>2. On(Net, d, u) <=> u \in DOMAIN busy[d] /\ ~busy[d][u].bDone BY DEF NocInv, CarriedInUse
  <2>3. CASE d = c /\ u = t BY <1>8, <1>11, <2>1, <2>3
  <2>4. CASE ~(d = c /\ u = t) BY <1>8, <1>11, <2>1, <2>2, <2>4
  <2> QED BY <2>3, <2>4
<1>14. \A d \in Cpus : \A i \in DOMAIN mReq'[d] : mReq'[d][i].src = d
  <2> SUFFICES ASSUME NEW d \in Cpus, NEW i \in DOMAIN mReq'[d] PROVE mReq'[d][i].src = d OBVIOUS
  <2>1. CASE d = c /\ mReq' = [mReq EXCEPT ![c] = Append(@, r)]
    <3>1. mReq[c] \in Seq(Requests) /\ mReq'[c] = Append(mReq[c], r) BY <1>2, <2>1
    <3>2. (i \in DOMAIN mReq[c] /\ mReq'[c][i] = mReq[c][i]) \/ mReq'[c][i] = r
      BY <2>1, <3>1
    <3> QED BY <1>5, <2>1, <3>2 DEF NocInv, Home
  <2>2. CASE d # c \/ mReq' = mReq
    <3>1. mReq'[d] = mReq[d] BY <1>2, <1>7, <2>2
    <3> QED BY <3>1 DEF NocInv, Home
  <2> QED BY <1>7, <2>1, <2>2
<1>15. /\ cpu'[c] = AfterPut(r) \/ cpu'[c] = Putting(r)
       /\ \A d \in Cpus : d # c => cpu'[d] = cpu[d]
  BY <1>2, <1>7
<1>16. cpu'[c].at = "put" => cpu'[c].req = r
  BY <1>15 DEF AfterPut, Putting, Running, Waiting
<1>17. Home' BY <1>1, <1>5, <1>14, <1>15, <1>16 DEF NocInv, Home
<1>18. \A d \in Cpus : d # c => AwaitedBy(d)'
  BY <1>8, <1>15 DEF NocInv, Awaited, AwaitedBy, Posted, Expects
<1>19. \A u \in DOMAIN busy[c] : Posted(c, u)' /\ ~busy'[c][u].bDone
  <2>1. \A u \in DOMAIN busy[c] : Posted(c, u) /\ ~busy[c][u].bDone
    BY DEF NocInv, Awaited, AwaitedBy, Expects
  <2> QED BY <1>8, <2>1 DEF Posted
<1>20. /\ cpu'[c].at = "wait" => cpu'[c].tid = t /\ ~Posted(c, t)'
       /\ cpu'[c].at = "put" => cpu'[c].req = r /\ Expects(c, t)'
       /\ Posted(c, t)' \/ Expects(c, t)'
  <2>1. Posted(c, t)' <=> c \in Posting /\ o.cmd = "write" BY <1>9 DEF Posted
  <2>2. CASE cpu'[c] = Putting(r) BY <1>5, <2>2 DEF Putting, Expects
  <2>3. CASE cpu'[c] = AfterPut(r) /\ c \in Posting /\ o.cmd = "write"
    <3>1. cpu'[c].at = "run" BY <1>5, <2>3 DEF AfterPut, Running
    <3> QED BY <2>1, <2>3, <3>1
  <2>4. CASE cpu'[c] = AfterPut(r) /\ ~(c \in Posting /\ o.cmd = "write")
    <3>1. cpu'[c].at = "wait" /\ cpu'[c].tid = t BY <1>5, <2>4 DEF AfterPut, Waiting
    <3> QED BY <2>1, <2>4, <3>1 DEF Expects
  <2> QED BY <1>15, <2>2, <2>3, <2>4
<1>21. AwaitedBy(c)'
  <2>1. (cpu[c].at = "wait" => cpu[c].tid \in DOMAIN busy[c] /\ ~Posted(c, cpu[c].tid))'
    BY <1>8, <1>20 DEF Posted
  <2>2. (cpu[c].at = "put" => (busy[c][cpu[c].req.tid].bWrite <=> cpu[c].req.cmd = "write"))'
    BY <1>5, <1>9, <1>20
  <2>3. \A u \in DOMAIN busy'[c] : (Posted(c, u)' \/ Expects(c, u)') /\ ~busy'[c][u].bDone
    BY <1>8, <1>19, <1>20
  <2> QED BY <2>1, <2>2, <2>3 DEF AwaitedBy
<1>22. Awaited' BY <1>18, <1>21 DEF Awaited
<1> QED BY <1>10, <1>12, <1>13, <1>17, <1>22 DEF NocInv

\* A thread that begins or ends to wait holds no message.
LEMMA NetSame ==
  ASSUME TypeOK, UNCHANGED <<mReq, mHeld, mRsp, sReq, sRsp, sHeld, dev>>,
         \A d \in Cpus : ThreadHolds(d)' = ThreadHolds(d)
  PROVE  Net' = Net
<1>1. ASSUME NEW z \in Places PROVE Holds(z)' = Holds(z)
  <2>1. CASE \E d \in Cpus : z \in {<<"put", d>>, <<"mReq", d>>, <<"mHeld", d>>, <<"mRsp", d>>}
    BY <2>1 DEF Holds
  <2>2. CASE \E d \in Slaves : z \in {<<"sReq", d>>, <<"serve", d>>, <<"respond", d>>, <<"sRsp", d>>, <<"sHeld", d>>}
    BY <2>2 DEF Holds, DeviceServes, DeviceResponds
  <2> QED BY <2>1, <2>2, PlaceCases
<1> QED BY <1>1 DEF Net

\* Transaction t of CPU c returns to the pool.
LEMMA Freed ==
  ASSUME NocInv, NEW c \in Cpus, NEW t \in DOMAIN busy[c], FreeRequest(c, t)
  PROVE  /\ Pool'
         /\ DOMAIN busy'[c] = DOMAIN busy[c] \ {t}
         /\ \A u \in DOMAIN busy[c] \ {t} : busy'[c][u] = busy[c][u]
         /\ \A d \in Cpus : d # c => busy'[d] = busy[d]
<1>1. free \in [Cpus -> Seq(Tids)] /\ DOMAIN busy = Cpus BY DEF NocInv, TypeOK
<1>2. /\ DOMAIN busy'[c] = DOMAIN busy[c] \ {t}
      /\ \A u \in DOMAIN busy[c] \ {t} : busy'[c][u] = busy[c][u]
      /\ \A d \in Cpus : d # c => busy'[d] = busy[d] /\ free'[d] = free[d]
      /\ free'[c] = <<t>> \o free[c]
  BY <1>1 DEF FreeRequest
<1>3. t \in Tids /\ IsInjective(free[c]) /\ t \notin ToSet(free[c]) BY DEF NocInv, Pool
<1>4. free[c] \in Seq(Tids) BY <1>1
<1>5. IsInjective(<<t>> \o free[c]) /\ ToSet(<<t>> \o free[c]) = ToSet(free[c]) \cup {t}
  BY <1>3, <1>4, Pushed
<1>6. Pool' BY <1>2, <1>3, <1>5 DEF NocInv, Pool
<1> QED BY <1>2, <1>6

\* A thread that sees its access done and frees the request.
LEMMA CompleteKeeps ==
  ASSUME NocInv, TypeOK', NEW c \in Cpus, Complete(c), NEW t, t = cpu[c].tid
  PROVE  NocInv'
<1>1. /\ cpu[c].at = "wait" /\ busy[c][t].bDone /\ FreeRequest(c, t)
      /\ cpu' = [cpu EXCEPT ![c] = Running]
      /\ UNCHANGED <<mReq, mHeld, mRsp, sReq, sRsp, sHeld, dev>>
  BY DEF Complete, nocVars, devVars
<1>2. cpu \in [Cpus -> Threads] BY DEF NocInv, TypeOK
<1>3. t \in DOMAIN busy[c] BY <1>1 DEF NocInv, Awaited, AwaitedBy
<1>4. /\ Pool' /\ DOMAIN busy'[c] = DOMAIN busy[c] \ {t}
      /\ \A u \in DOMAIN busy[c] \ {t} : busy'[c][u] = busy[c][u]
      /\ \A d \in Cpus : d # c => busy'[d] = busy[d]
  BY <1>1, <1>3, Freed
<1>5. cpu'[c].at = "run" /\ \A d \in Cpus : d # c => cpu'[d] = cpu[d] BY <1>1, <1>2 DEF Running
<1>6. Net' = Net
  <2>1. \A d \in Cpus : ThreadHolds(d)' = ThreadHolds(d) BY <1>1, <1>5 DEF ThreadHolds
  <2> QED BY <1>1, <2>1, NetSame DEF NocInv
<1>7. CarriedOnce' BY <1>6 DEF NocInv, CarriedOnce
<1>8. CarriedInUse'
  <2> SUFFICES ASSUME NEW d \in Cpus, NEW u \in Tids
               PROVE  On(Net, d, u) <=> u \in DOMAIN busy'[d] /\ ~busy'[d][u].bDone
    BY <1>6 DEF CarriedInUse
  <2>1. On(Net, d, u) <=> u \in DOMAIN busy[d] /\ ~busy[d][u].bDone BY DEF NocInv, CarriedInUse
  <2>2. CASE d = c /\ u = t BY <1>1, <1>4, <2>1, <2>2
  <2>3. CASE ~(d = c /\ u = t) BY <1>4, <2>1, <2>3
  <2> QED BY <2>2, <2>3
<1>9. Home' BY <1>1, <1>5 DEF NocInv, Home
<1>10. \A d \in Cpus : d # c => AwaitedBy(d)'
  BY <1>4, <1>5 DEF NocInv, Awaited, AwaitedBy, Posted, Expects
<1>11. AwaitedBy(c)'
  <2>1. \A u \in DOMAIN busy[c] : u # t => Posted(c, u) /\ ~busy[c][u].bDone
    BY <1>1 DEF NocInv, Awaited, AwaitedBy, Expects
  <2>2. \A u \in DOMAIN busy'[c] : Posted(c, u)' /\ ~busy'[c][u].bDone BY <1>4, <2>1 DEF Posted
  <2> QED BY <1>5, <2>2 DEF AwaitedBy
<1>12. Awaited' BY <1>10, <1>11 DEF Awaited
<1> QED BY <1>4, <1>7, <1>8, <1>9, <1>12 DEF NocInv

\* A response that frees a posted write, or ends the access its thread waits for.
LEMMA ReceiveResponseKeeps ==
  ASSUME NocInv, TypeOK', NEW c \in Cpus, ReceiveResponse(c), NEW r, r = Head(mRsp[c])
  PROVE  NocInv'
<1>1. /\ mRsp[c] # <<>> /\ mRsp' = [mRsp EXCEPT ![c] = Tail(@)]
      /\ UNCHANGED <<cpu, mReq, mHeld>>
  BY DEF ReceiveResponse, devVars
<1>2. mRsp \in [Cpus -> Seq(Responses)] /\ mRsp[c] \in Seq(Responses) /\ DOMAIN busy = Cpus
  BY DEF NocInv, TypeOK
<1>3. /\ r \in Responses /\ r = mRsp[c][1] /\ 1 \in DOMAIN mRsp[c]
      /\ \A i \in DOMAIN Tail(mRsp[c]) : i + 1 \in DOMAIN mRsp[c] /\ Tail(mRsp[c])[i] = mRsp[c][i + 1]
  BY <1>1, <1>2
<1>4. r.src = c /\ r.tid \in Tids BY <1>3 DEF NocInv, Home, Responses
<1>5. 1 \in DOMAIN Holds(<<"mRsp", c>>) /\ Holds(<<"mRsp", c>>)[1] = r BY <1>3, HoldsIs
<1>6. r.tid \in DOMAIN busy[c] /\ ~busy[c][r.tid].bDone
  BY <1>4, <1>5, HeldIsInUse, MastersInPlace DEF NocInv
<1>7. Once(Net') /\ \A d, u : On(Net', d, u) <=> On(Net, d, u) /\ ~Carries(r, d, u)
  <2>1. Net \in [Places -> Seq(Messages)] BY NetType DEF NocInv, NetOfSequences
  <2>2. NetOfSequences' BY NetType, PTL
  <2>3. Net' \in [Places -> Seq(Messages)] BY <2>2 DEF NetOfSequences
  <2>4. Once(Net) BY DEF NocInv, CarriedOnce
  <2>5. Takes(Places, Net, Net', <<"mRsp", c>>) BY NetReceiveResponse DEF NocInv
  <2>6. Net[<<"mRsp", c>>] = mRsp[c] BY MastersInPlace, HoldsIs DEF Net
  <2>7. /\ Once(Net')
        /\ \A d, u : On(Net', d, u) <=> On(Net, d, u) /\ ~Carries(Head(Net[<<"mRsp", c>>]), d, u)
    BY ONLY <2>1, <2>3, <2>4, <2>5, c \in Cpus, MastersInPlace, Leaves
  <2> QED BY <2>6, <2>7
<1>8. cpu[c].at = "put" => cpu[c].req.tid # r.tid
  <2> SUFFICES ASSUME cpu[c].at = "put", cpu[c].req.tid = r.tid PROVE FALSE OBVIOUS
  <2>1. Holds(<<"put", c>>) = <<cpu[c].req>> BY HoldsIs DEF ThreadHolds
  <2>2. 1 \in DOMAIN Holds(<<"put", c>>) /\ Holds(<<"put", c>>)[1] = cpu[c].req BY <2>1
  <2>3. cpu[c].req.src = c BY DEF NocInv, Home
  <2>4. SameTransaction(Holds(<<"put", c>>)[1], Holds(<<"mRsp", c>>)[1])
    BY <1>4, <1>5, <2>2, <2>3 DEF SameTransaction
  <2>5. <<"put", c>> = <<"mRsp", c>>
    BY <1>5, <2>2, <2>4, HeldOnce, MastersInPlace DEF NocInv
  <2> QED BY <2>5
<1>9. CarriedOnce' BY <1>7 DEF CarriedOnce
<1>10. Home'
  <2>1. \A d \in Cpus : \A i \in DOMAIN mRsp'[d] : mRsp'[d][i].src = d
    BY <1>1, <1>2, <1>3 DEF NocInv, Home
  <2> QED BY <1>1, <2>1 DEF NocInv, Home
<1>11. ASSUME NEW d \in Cpus, NEW u \in Tids
       PROVE  On(Net', d, u) <=> u \in DOMAIN busy[d] /\ ~busy[d][u].bDone /\ ~(d = c /\ u = r.tid)
  BY <1>4, <1>7 DEF Carries, NocInv, CarriedInUse
<1>12. CASE Posted(c, r.tid)
  <2>1. FreeRequest(c, r.tid) BY <1>4, <1>6, <1>12 DEF ReceiveResponse, Posted
  <2>2. /\ Pool' /\ DOMAIN busy'[c] = DOMAIN busy[c] \ {r.tid}
        /\ \A u \in DOMAIN busy[c] \ {r.tid} : busy'[c][u] = busy[c][u]
        /\ \A d \in Cpus : d # c => busy'[d] = busy[d]
    BY <1>6, <2>1, Freed
  <2>3. CarriedInUse'
    <3> SUFFICES ASSUME NEW d \in Cpus, NEW u \in Tids
                 PROVE  On(Net', d, u) <=> u \in DOMAIN busy'[d] /\ ~busy'[d][u].bDone
      BY DEF CarriedInUse
    <3>1. CASE d = c /\ u = r.tid BY <1>11, <2>2, <3>1
    <3>2. CASE ~(d = c /\ u = r.tid) BY <1>11, <2>2, <3>2
    <3> QED BY <3>1, <3>2
  <2>4. \A d \in Cpus : d # c => AwaitedBy(d)'
    BY <1>1, <2>2 DEF NocInv, Awaited, AwaitedBy, Posted, Expects
  <2>5. AwaitedBy(c)'
    <3>1. AwaitedBy(c) BY DEF NocInv, Awaited
    <3>2. cpu[c].at = "wait" => cpu[c].tid # r.tid /\ cpu[c].tid \in DOMAIN busy'[c]
      BY <1>12, <2>2, <3>1 DEF AwaitedBy
    <3>3. cpu[c].at = "put" => cpu[c].req.tid \in DOMAIN busy[c]
      <4> SUFFICES ASSUME cpu[c].at = "put" PROVE cpu[c].req.tid \in DOMAIN busy[c] OBVIOUS
      <4>1. Holds(<<"put", c>>) = <<cpu[c].req>> BY HoldsIs DEF ThreadHolds
      <4>2. 1 \in DOMAIN Holds(<<"put", c>>) /\ Holds(<<"put", c>>)[1] = cpu[c].req BY <4>1
      <4>3. cpu[c].req \in Requests BY ThreadType DEF NocInv, TypeOK
      <4>4. cpu[c].req.src = c /\ cpu[c].req.tid \in Tids BY <4>3 DEF NocInv, Home, Requests
      <4> QED BY <4>2, <4>4, HeldIsInUse, MastersInPlace DEF NocInv
    <3> QED BY <1>1, <1>8, <2>2, <3>1, <3>2, <3>3 DEF AwaitedBy, Posted, Expects
  <2>6. Awaited' BY <2>4, <2>5 DEF Awaited
  <2> QED BY <1>9, <1>10, <2>2, <2>3, <2>6 DEF NocInv
<1>13. CASE ~Posted(c, r.tid)
  <2>1. /\ busy' = [busy EXCEPT ![c][r.tid].bDone = TRUE, ![c][r.tid].rcv = r.val]
        /\ free' = free
    BY <1>4, <1>6, <1>13 DEF ReceiveResponse, Posted
  <2>2. busy[c] \in [DOMAIN busy[c] -> PoolEntries] BY DEF NocInv, TypeOK
  <2>3. /\ DOMAIN busy'[c] = DOMAIN busy[c]
        /\ \A u \in DOMAIN busy[c] : u # r.tid => busy'[c][u] = busy[c][u]
        /\ \A d \in Cpus : d # c => busy'[d] = busy[d]
    BY <1>2, <2>1
  <2>4. busy'[c][r.tid].bDone /\ (busy'[c][r.tid].bWrite <=> busy[c][r.tid].bWrite)
    <3>1. busy[c][r.tid] \in PoolEntries BY <1>6, <2>2
    <3>2. busy'[c][r.tid] = [[busy[c][r.tid] EXCEPT !.bDone = TRUE] EXCEPT !.rcv = r.val]
      BY <1>2, <1>6, <2>1
    <3> QED BY <3>1, <3>2 DEF PoolEntries
  <2>5. Pool'
    BY <2>1, <2>3 DEF NocInv, Pool
  <2>6. CarriedInUse'
    <3> SUFFICES ASSUME NEW d \in Cpus, NEW u \in Tids
                 PROVE  On(Net', d, u) <=> u \in DOMAIN busy'[d] /\ ~busy'[d][u].bDone
      BY DEF CarriedInUse
    <3>1. CASE d = c /\ u = r.tid BY <1>11, <2>4, <3>1
    <3>2. CASE ~(d = c /\ u = r.tid) BY <1>11, <2>3, <3>2
    <3> QED BY <3>1, <3>2
  <2>7. \A d \in Cpus : d # c => AwaitedBy(d)'
    BY <1>1, <2>3 DEF NocInv, Awaited, AwaitedBy, Posted, Expects
  <2>8. AwaitedBy(c)'
    <3>1. AwaitedBy(c) BY DEF NocInv, Awaited
    <3>2. cpu[c].at = "wait" /\ cpu[c].tid = r.tid
      BY <1>6, <1>8, <1>13, <3>1 DEF AwaitedBy, Expects
    <3>3. \A u \in DOMAIN busy[c] : Posted(c, u)' <=> Posted(c, u)
      BY <2>3, <2>4 DEF Posted
    <3>4. \A u \in DOMAIN busy[c] : u # r.tid => ~busy'[c][u].bDone
      BY <2>3, <3>1, <3>2 DEF AwaitedBy
    <3>5. (cpu[c].tid \in DOMAIN busy[c] /\ ~Posted(c, cpu[c].tid))'
      BY <1>1, <1>6, <1>13, <2>3, <2>4, <3>2 DEF Posted
    <3>6. \A u \in DOMAIN busy[c] : (Posted(c, u) \/ Expects(c, u))'
      BY <1>1, <3>1, <3>3 DEF AwaitedBy, Expects
    <3> QED BY <1>1, <2>3, <3>2, <3>4, <3>5, <3>6 DEF AwaitedBy
  <2>9. Awaited' BY <2>7, <2>8 DEF Awaited
  <2> QED BY <1>9, <1>10, <2>5, <2>6, <2>9 DEF NocInv
<1> QED BY <1>12, <1>13

\* An access of a CPU, which may have to wait for the pool to be empty.
LEMMA AccessKeeps ==
  ASSUME NocInv, TypeOK', NEW c \in Cpus, NEW cmd \in {"read", "write"}, NEW a \in Addrs,
         Access(c, cmd, a)
  PROVE  NocInv'
<1> DEFINE o == [cmd |-> cmd, addr |-> a,
                 val |-> IF cmd = "write" THEN [cpu |-> c, n |-> ops[c] + 1] ELSE Nothing]
<1>1. cpu[c] = Running /\ cpu[c].at = "run" BY DEF Access, Running
<1>2. cpu \in [Cpus -> Threads] /\ ops[c] \in 0 .. MaxOps /\ ops[c] < MaxOps /\ MaxOps \in Nat
  BY TransportAssumption DEF NocInv, TypeOK, Access
<1>3. ops[c] + 1 \in 1 .. MaxOps BY <1>2
<1>4. o \in Accesses BY <1>3 DEF Accesses, Values
<1>5. CASE WaitEmpty(c, o) /\ DOMAIN busy[c] # {}
  <2>1. cpu' = [cpu EXCEPT ![c] = Draining(o)] /\ UNCHANGED <<free, busy, nocVars, devVars>>
    BY <1>5 DEF Access
  <2>2. cpu'[c].at = "drain" /\ \A d \in Cpus : d # c => cpu'[d] = cpu[d]
    BY <1>2, <2>1 DEF Draining
  <2>3. Net' = Net
    <3>1. \A d \in Cpus : ThreadHolds(d)' = ThreadHolds(d) BY <1>1, <2>2 DEF ThreadHolds
    <3> QED BY <2>1, <3>1, NetSame DEF NocInv, nocVars, devVars
  <2>4. Pool' /\ CarriedOnce' /\ CarriedInUse' BY <2>1, <2>3, RestKept DEF NocInv
  <2>5. Home' BY <2>1, <2>2 DEF NocInv, Home, nocVars
  <2>6. \A d \in Cpus : d # c => AwaitedBy(d)'
    BY <2>1, <2>2 DEF NocInv, Awaited, AwaitedBy, Posted, Expects
  <2>7. AwaitedBy(c)' BY <1>1, <2>1, <2>2 DEF NocInv, Awaited, AwaitedBy, Posted, Expects
  <2>8. Awaited' BY <2>6, <2>7 DEF Awaited
  <2> QED BY <2>4, <2>5, <2>8 DEF NocInv
<1>6. CASE ~(WaitEmpty(c, o) /\ DOMAIN busy[c] # {})
  <2>1. Issue(c, o) BY <1>6 DEF Access
  <2> HIDE DEF o
  <2> QED BY <1>1, <1>4, <2>1, IssueKeeps
<1> QED BY <1>5, <1>6

\* A thread that is woken because the pool was empty.
LEMMA FireEmptyKeeps ==
  ASSUME NocInv, TypeOK', NEW c \in Cpus, FireEmpty(c)
  PROVE  NocInv'
<1>1. CASE cpu[c].at = "drain" /\ DOMAIN busy[c] = {}
  <2>1. cpu[c].op \in Accesses BY <1>1, ThreadType DEF NocInv, TypeOK
  <2>2. Issue(c, cpu[c].op) BY <1>1 DEF FireEmpty
  <2> QED BY <1>1, <2>1, <2>2, IssueKeeps
<1>2. CASE ~(cpu[c].at = "drain" /\ DOMAIN busy[c] = {})
  <2>1. UNCHANGED <<cpu, free, busy, mReq, mHeld, mRsp, sReq, sRsp, sHeld, dev>>
    BY <1>2 DEF FireEmpty, nocVars, devVars
  <2>2. Net' = Net BY <2>1, NetSame DEF NocInv, ThreadHolds
  <2>3. Pool' /\ CarriedOnce' /\ CarriedInUse' BY <2>1, <2>2, RestKept DEF NocInv
  <2>4. Home' BY <2>1 DEF NocInv, Home
  <2>5. Awaited' BY <2>1, ProcessesKept DEF NocInv
  <2> QED BY <2>3, <2>4, <2>5 DEF NocInv
<1> QED BY <1>1, <1>2

\* The invariant holds when the program starts.
LEMMA NocInit == Init => NocInv
<1> SUFFICES ASSUME Init PROVE NocInv OBVIOUS
<1> USE DEF Init
<1>1. TypeOK
  <2>1. Running \in Threads /\ Idle \in Devices BY ThreadStates, DeviceStates
  <2>2. cpu \in [Cpus -> Threads] /\ dev \in [Slaves -> Devices] BY <2>1
  <2>3. free \in [Cpus -> Seq(Tids)]
    <3>1. [i \in Tids |-> i] \in Seq(Tids) BY TransportAssumption DEF Tids
    <3> QED BY <3>1
  <2>4. DOMAIN busy = Cpus /\ \A c \in Cpus : busy[c] \in [DOMAIN busy[c] -> PoolEntries] OBVIOUS
  <2>5. /\ mReq \in [Cpus -> Seq(Requests)] /\ mHeld \in [Cpus -> Seq(Requests)]
        /\ mRsp \in [Cpus -> Seq(Responses)] /\ sReq \in [Slaves -> Seq(Requests)]
        /\ sRsp \in [Slaves -> Seq(Responses)] /\ sHeld \in [Slaves -> Seq(Responses)]
    OBVIOUS
  <2>6. /\ Short(mReq, QueueSize) /\ Short(mHeld, 1) /\ Short(mRsp, QueueSize)
        /\ Short(sReq, QueueSize) /\ Short(sRsp, QueueSize) /\ Short(sHeld, 1)
    BY TransportAssumption DEF Short
  <2>7. ops \in [Cpus -> 0 .. MaxOps] BY TransportAssumption
  <2> QED BY <2>2, <2>3, <2>4, <2>5, <2>6, <2>7 DEF TypeOK
<1>2. ASSUME NEW x \in Places PROVE Net[x] = <<>>
  <2>1. CASE \E d \in Cpus : x \in {<<"put", d>>, <<"mReq", d>>, <<"mHeld", d>>, <<"mRsp", d>>}
    BY <2>1 DEF Net, Holds, ThreadHolds, Running
  <2>2. CASE \E d \in Slaves : x \in {<<"sReq", d>>, <<"serve", d>>, <<"respond", d>>, <<"sRsp", d>>, <<"sHeld", d>>}
    BY <2>2 DEF Net, Holds, DeviceServes, DeviceResponds, Idle
  <2> QED BY <2>1, <2>2, PlaceCases
<1>3. DOMAIN Net = Places BY DEF Net
<1>4. \A x \in DOMAIN Net : DOMAIN Net[x] = {} BY <1>2, <1>3
<1>5. CarriedOnce BY <1>4 DEF CarriedOnce, Once
<1>6. CarriedInUse BY <1>4 DEF CarriedInUse, On
<1>7. Pool
  <2> SUFFICES ASSUME NEW c \in Cpus
               PROVE  /\ DOMAIN busy[c] \subseteq Tids /\ IsInjective(free[c])
                      /\ ToSet(free[c]) = Tids \ DOMAIN busy[c]
    BY DEF Pool
  <2>1. DOMAIN busy[c] = {} /\ free[c] = [i \in Tids |-> i] OBVIOUS
  <2> QED BY <2>1 DEF IsInjective, ToSet
<1>8. Home BY DEF Home, Running
<1>9. Awaited BY DEF Awaited, AwaitedBy, Running
<1> QED BY <1>1, <1>5, <1>6, <1>7, <1>8, <1>9 DEF NocInv

\* Every step keeps the invariant.
LEMMA NocStep == NocInv /\ [Next]_vars => NocInv'
<1> SUFFICES ASSUME NocInv, [Next]_vars PROVE NocInv' OBVIOUS
<1>1. TypeOK' BY TypesKept DEF NocInv
<1>2. ASSUME NEW c \in Cpus, NEW cmd \in {"read", "write"}, NEW a \in Addrs, Access(c, cmd, a)
      PROVE  NocInv'
  BY <1>1, <1>2, AccessKeeps
<1>3. ASSUME NEW c \in Cpus, MasterStep(c) PROVE NocInv'
  BY <1>1, <1>3, FireEmptyKeeps, FinishPutKeeps, CompleteKeeps, ReceiveResponseKeeps,
     TakeRequestKeeps, DispatchRequestKeeps DEF MasterStep
<1>4. ASSUME NEW s \in Slaves, SlaveStep(s) PROVE NocInv'
  BY <1>1, <1>4, TakeResponseKeeps, DispatchResponseKeeps, GetRequestKeeps, ServeKeeps,
     RespondKeeps DEF SlaveStep
<1>5. CASE UNCHANGED vars
  <2>1. UNCHANGED <<cpu, free, busy, mReq, mHeld, mRsp, sReq, sRsp, sHeld, dev>> BY <1>5 DEF vars
  <2>2. Net' = Net BY <2>1, NetSame DEF NocInv, ThreadHolds
  <2>3. Pool' /\ CarriedOnce' /\ CarriedInUse' BY <2>1, <2>2, RestKept DEF NocInv
  <2>4. Home' BY <2>1 DEF NocInv, Home
  <2>5. Awaited' BY <2>1, ProcessesKept DEF NocInv
  <2> QED BY <1>1, <2>3, <2>4, <2>5 DEF NocInv
<1> QED BY <1>2, <1>3, <1>4, <1>5 DEF Next

\* The positions of a transaction's messages: none, or one.
LEMMA CountCarriers ==
  ASSUME NocInv, NEW c \in Cpus, NEW t \in Tids
  PROVE  Cardinality(Carriers(c, t)) = IF t \in DOMAIN busy[c] /\ ~busy[c][t].bDone THEN 1 ELSE 0
<1>1. DOMAIN Net = Places /\ \A x \in Places : Net[x] = Holds(x) BY DEF Net
<1>2. On(Net, c, t) <=> \E x \in Places : \E i \in DOMAIN Holds(x) : Carries(Holds(x)[i], c, t)
  BY <1>1 DEF On
<1>3. \A p : p \in Carriers(c, t) <=>
             \E x \in Places : \E i \in DOMAIN Holds(x) : p = <<x, i>> /\ Carries(Holds(x)[i], c, t)
  BY DEF Carriers
<1>4. CASE On(Net, c, t)
  <2>1. PICK x \in Places : \E i \in DOMAIN Holds(x) : Carries(Holds(x)[i], c, t) BY <1>2, <1>4
  <2>2. PICK i \in DOMAIN Holds(x) : Carries(Holds(x)[i], c, t) BY <2>1
  <2>3. ASSUME NEW y \in Places, NEW j \in DOMAIN Holds(y), Carries(Holds(y)[j], c, t)
        PROVE  y = x /\ j = i
    <3>1. SameTransaction(Holds(x)[i], Holds(y)[j]) BY <2>2, <2>3 DEF Carries, SameTransaction
    <3> QED BY <3>1, HeldOnce DEF NocInv
  <2>4. \A p : p \in Carriers(c, t) <=> p = <<x, i>> BY <1>3, <2>2, <2>3
  <2>5. Carriers(c, t) = {<<x, i>>} BY <2>4
  <2>6. Cardinality(Carriers(c, t)) = 1 BY <2>5, FS_Singleton
  <2> QED BY <1>4, <2>6 DEF NocInv, CarriedInUse
<1>5. CASE ~On(Net, c, t)
  <2>1. Carriers(c, t) = {} BY <1>2, <1>3, <1>5
  <2>2. Cardinality(Carriers(c, t)) = 0 BY <2>1, FS_EmptySet
  <2> QED BY <1>5, <2>2 DEF NocInv, CarriedInUse
<1> QED BY <1>4, <1>5

\* The invariant implies the property.
LEMMA NocInvImplies == NocInv => TransactionsConserved
<1> SUFFICES ASSUME NocInv, NEW c \in Cpus
             PROVE  /\ IsInjective(free[c])
                    /\ ToSet(free[c]) = Tids \ DOMAIN busy[c]
                    /\ \A t \in Tids : Cardinality(Carriers(c, t)) =
                                         IF t \in DOMAIN busy[c] /\ ~busy[c][t].bDone THEN 1 ELSE 0
                    /\ \A i \in DOMAIN mRsp[c] : mRsp[c][i].src = c
  BY DEF TransactionsConserved
<1>1. \A t \in Tids : Cardinality(Carriers(c, t)) =
                        IF t \in DOMAIN busy[c] /\ ~busy[c][t].bDone THEN 1 ELSE 0
  BY CountCarriers
<1> QED BY <1>1 DEF NocInv, Pool, Home

\* So it holds always.
LEMMA NocInvariance == Spec => []NocInv
BY NocInit, NocStep, PTL DEF Spec

(* Every thread and device is in one of its states, and no queue holds     *)
(* more than its size.                                                     *)
THEOREM TypesOfPath == Spec => []TypeOK
<1>1. NocInv => TypeOK BY DEF NocInv
<1> QED BY <1>1, NocInvariance, PTL

(* Every transaction is carried by one message or is done, the pool neither *)
(* loses nor duplicates a request, and a response never goes to another    *)
(* master: rcv_rsp and response_thread never meet a response they drop.    *)
THEOREM NothingIsLost == Spec => []TransactionsConserved
BY NocInvariance, NocInvImplies, PTL

-----------------------------------------------------------------------------
(***************************************************************************)
(* The pool is large enough.                                               *)
(***************************************************************************)
\* The slaves that some address is mapped to that is not one of an input or output.
Memories == {SlaveOf(a) : a \in Addrs \ IoAddrs}

\* A message at place x is at a slave that is no memory, or on the way to one.
Outside(x, m) == \/ x[1] \in {"sReq", "serve", "respond", "sRsp", "sHeld"} /\ x[2] \notin Memories
                 \/ x[1] \in {"put", "mReq", "mHeld"} /\ SlaveOf(m.addr) \notin Memories

\* The queues K carry transaction t of CPU c at such a place.
OnOutside(K, c, t) ==
    \E x \in DOMAIN K : \E i \in DOMAIN K[x] : Carries(K[x][i], c, t) /\ Outside(x, K[x][i])

\* Of each CPU there is at most one such message.
OneOutside == \A c \in Cpus, t, u \in Tids : OnOutside(Net, c, t) /\ OnOutside(Net, c, u) => t = u

\* What is outside is on the path.
LEMMA OutsideOnNet ==
  ASSUME NEW K, NEW c, NEW t, OnOutside(K, c, t)
  PROVE  On(K, c, t)
BY DEF OnOutside, On

\* A message that moves is outside only if it was.
LEMMA OutsideTransfers ==
  ASSUME NEW P, NEW E, NEW K \in [P -> Seq(E)], NEW L \in [P -> Seq(E)], NEW x \in P, NEW y \in P,
         NEW m \in E, Transfers(P, K, L, x, y, m), Outside(y, m) => Outside(x, Head(K[x])),
         NEW c, NEW t, OnOutside(L, c, t)
  PROVE  OnOutside(K, c, t)
<1> USE DEF Transfers
<1>1. DOMAIN K = P /\ DOMAIN L = P OBVIOUS
<1>2. PICK z \in P : \E i \in DOMAIN L[z] : Carries(L[z][i], c, t) /\ Outside(z, L[z][i])
  BY <1>1 DEF OnOutside
<1>3. PICK i \in DOMAIN L[z] : Carries(L[z][i], c, t) /\ Outside(z, L[z][i]) BY <1>2
<1>4. K[x] \in Seq(E) /\ K[y] \in Seq(E) /\ 1 \in DOMAIN K[x] /\ Head(K[x]) = K[x][1] OBVIOUS
<1>5. CASE z = x
  <2>1. i + 1 \in DOMAIN K[x] /\ L[z][i] = K[x][i + 1] BY <1>4, <1>5
  <2> QED BY <1>1, <1>3, <1>5, <2>1 DEF OnOutside
<1>6. CASE z = y
  <2>1. (i \in DOMAIN K[y] /\ L[z][i] = K[y][i]) \/ L[z][i] = m
    <3>1. K[y] \in Seq(E) /\ L[y] = Append(K[y], m) /\ i \in DOMAIN L[y] BY <1>6
    <3>2. (i \in DOMAIN K[y] /\ L[y][i] = K[y][i]) \/ L[y][i] = m BY ONLY <3>1
    <3> QED BY <3>2, <1>6
  <2>2. CASE i \in DOMAIN K[y] /\ L[z][i] = K[y][i] BY <1>1, <1>3, <1>6, <2>2 DEF OnOutside
  <2>3. CASE L[z][i] = m
    <3>1. Carries(K[x][1], c, t) BY <1>3, <1>4, <2>3 DEF Carries, SameTransaction
    <3>2. Outside(x, K[x][1]) BY <1>3, <1>4, <1>6, <2>3
    <3> QED BY <1>1, <1>4, <3>1, <3>2 DEF OnOutside
  <2> QED BY <2>1, <2>2, <2>3
<1>7. CASE z # x /\ z # y BY <1>1, <1>3, <1>7 DEF OnOutside
<1> QED BY <1>5, <1>6, <1>7

\* A message that is taken makes no other one outside.
LEMMA OutsideTakes ==
  ASSUME NEW P, NEW E, NEW K \in [P -> Seq(E)], NEW L \in [P -> Seq(E)], NEW x \in P,
         Takes(P, K, L, x), NEW c, NEW t, OnOutside(L, c, t)
  PROVE  OnOutside(K, c, t)
<1> USE DEF Takes
<1>1. DOMAIN K = P /\ DOMAIN L = P OBVIOUS
<1>2. PICK z \in P : \E i \in DOMAIN L[z] : Carries(L[z][i], c, t) /\ Outside(z, L[z][i])
  BY <1>1 DEF OnOutside
<1>3. PICK i \in DOMAIN L[z] : Carries(L[z][i], c, t) /\ Outside(z, L[z][i]) BY <1>2
<1>4. K[x] \in Seq(E) OBVIOUS
<1>5. CASE z = x
  <2>1. i + 1 \in DOMAIN K[x] /\ L[z][i] = K[x][i + 1] BY <1>4, <1>5
  <2> QED BY <1>1, <1>3, <1>5, <2>1 DEF OnOutside
<1>6. CASE z # x BY <1>1, <1>3, <1>6 DEF OnOutside
<1> QED BY <1>5, <1>6

\* A message that joins the path makes no other one outside.
LEMMA OutsidePuts ==
  ASSUME NEW P, NEW E, NEW K \in [P -> Seq(E)], NEW L \in [P -> Seq(E)], NEW x \in P, NEW m \in E,
         Puts(P, K, L, x, m), NEW c, NEW t, OnOutside(L, c, t)
  PROVE  OnOutside(K, c, t) \/ (Carries(m, c, t) /\ Outside(x, m))
<1> USE DEF Puts
<1>1. DOMAIN K = P /\ DOMAIN L = P OBVIOUS
<1>2. PICK z \in P : \E i \in DOMAIN L[z] : Carries(L[z][i], c, t) /\ Outside(z, L[z][i])
  BY <1>1 DEF OnOutside
<1>3. PICK i \in DOMAIN L[z] : Carries(L[z][i], c, t) /\ Outside(z, L[z][i]) BY <1>2
<1>4. K[x] \in Seq(E) OBVIOUS
<1>5. CASE z = x
  <2>1. (i \in DOMAIN K[x] /\ L[z][i] = K[x][i]) \/ L[z][i] = m BY <1>4, <1>5
  <2> QED BY <1>1, <1>3, <1>5, <2>1 DEF OnOutside
<1>6. CASE z # x BY <1>1, <1>3, <1>6 DEF OnOutside
<1> QED BY <1>5, <1>6

\* A step that moves a message keeps the invariant, unless it takes it outside.
LEMMA OutsideMoved ==
  ASSUME NocInv, NocInv', OneOutside, NEW x \in Places, NEW y \in Places, NEW m \in Messages,
         Transfers(Places, Net, Net', x, y, m), Outside(y, m) => Outside(x, Head(Net[x]))
  PROVE  OneOutside'
<1>1. Net \in [Places -> Seq(Messages)] BY NetType DEF NocInv, NetOfSequences
<1>2. NetOfSequences' BY NetType, PTL DEF NocInv
<1>3. Net' \in [Places -> Seq(Messages)] BY <1>2 DEF NetOfSequences
<1>4. \A c, t : OnOutside(Net', c, t) => OnOutside(Net, c, t) BY <1>1, <1>3, OutsideTransfers
<1> QED BY <1>4 DEF OneOutside

\* A step that leaves the path alone keeps it.
LEMMA OutsideSame ==
  ASSUME OneOutside, Net' = Net
  PROVE  OneOutside'
BY DEF OneOutside

\* A thread that starts an access to a slave that is no memory has an empty pool.
LEMMA OutsideIssued ==
  ASSUME NocInv, NocInv', OneOutside, NEW c \in Cpus, NEW o \in Accesses, Issue(c, o),
         cpu[c].at \in {"run", "drain"}, ~WaitEmpty(c, o) \/ DOMAIN busy[c] = {},
         NEW t, t = Head(free[c]), NEW r, r = Request(c, t, o)
  PROVE  OneOutside'
<1>1. r.src = c /\ r.tid = t /\ r.addr = o.addr /\ r \in Requests /\ o.addr \in Addrs /\ t \in Tids
      /\ o.cmd \in {"read", "write"}
  BY IssueTypes DEF NocInv, Request, Accesses
<1>2. r \in Messages BY <1>1 DEF Messages
<1>3. PICK x \in {<<"mReq", c>>, <<"put", c>>} : Puts(Places, Net, Net', x, r)
  BY NetIssueSent, NetIssueBlocked DEF NocInv
<1>4. x \in Places BY MastersInPlace
<1>5. Net \in [Places -> Seq(Messages)] BY NetType DEF NocInv, NetOfSequences
<1>6. NetOfSequences' BY NetType, PTL DEF NocInv
<1>7. Net' \in [Places -> Seq(Messages)] BY <1>6 DEF NetOfSequences
<1>8. \A d, u : OnOutside(Net', d, u) => OnOutside(Net, d, u) \/ (Carries(r, d, u) /\ Outside(x, r))
  BY ONLY <1>2, <1>3, <1>4, <1>5, <1>7, OutsidePuts
<1>9. CASE ~Outside(x, r) BY <1>8, <1>9 DEF OneOutside
<1>10. CASE Outside(x, r)
  <2>1. SlaveOf(o.addr) \notin Memories BY <1>1, <1>10 DEF Outside
  <2>2. o.addr \in IoAddrs BY <1>1, <2>1 DEF Memories
  <2>3. DOMAIN busy[c] = {}
    <3>1. CASE c \in Posting BY <2>2, <3>1 DEF WaitEmpty
    <3>2. CASE c \notin Posting BY <3>2 DEF NocInv, Awaited, AwaitedBy, Posted, Expects
    <3> QED BY <3>1, <3>2
  <2>4. \A u \in Tids : ~OnOutside(Net, c, u) BY <2>3, OutsideOnNet DEF NocInv, CarriedInUse
  <2>5. \A u : Carries(r, c, u) => u = t BY <1>1 DEF Carries
  <2>6. \A d, u : Carries(r, d, u) => d = c BY <1>1 DEF Carries
  <2> QED BY <1>8, <2>4, <2>5, <2>6 DEF OneOutside
<1> QED BY <1>9, <1>10

\* The path is empty when the program starts.
LEMMA OneOutsideInit == Init => OneOutside
<1> SUFFICES ASSUME Init PROVE OneOutside OBVIOUS
<1>1. \A c \in Cpus, t \in Tids : ~On(Net, c, t) BY NocInit DEF NocInv, CarriedInUse, Init
<1> QED BY <1>1, OutsideOnNet DEF OneOutside

\* Requests: a request is outside before it is dispatched iff it is outside after.
LEMMA OneOutsideRequests ==
  ASSUME NocInv, NocInv', OneOutside, NEW c \in Cpus
  PROVE  /\ TakeRequest(c) => OneOutside'
         /\ FinishPut(c) => OneOutside'
         /\ DispatchRequest(c) => OneOutside'
<1> DEFINE P == <<"put", c>>  Q == <<"mReq", c>>  H == <<"mHeld", c>>
<1>1. P \in Places /\ Q \in Places /\ H \in Places BY MastersInPlace
<1>2. ASSUME TakeRequest(c) PROVE OneOutside'
  <2>1. mReq[c] # <<>> /\ mReq[c] \in Seq(Requests) BY <1>2 DEF TakeRequest, NocInv, TypeOK
  <2>2. PICK m \in Messages : m = Head(mReq[c]) BY <2>1 DEF Messages
  <2>3. Transfers(Places, Net, Net', Q, H, m) BY <1>2, <2>2, NetTakeRequest DEF NocInv
  <2>4. Head(Net[Q]) = m BY <1>1, <2>2, NetAt, HoldsIs
  <2>5. Outside(H, m) => Outside(Q, Head(Net[Q])) BY <2>4 DEF Outside
  <2> QED BY ONLY NocInv, NocInv', OneOutside, <1>1, <2>2, <2>3, <2>5, OutsideMoved
<1>3. ASSUME FinishPut(c) PROVE OneOutside'
  <2>1. cpu[c].at = "put" BY <1>3 DEF FinishPut
  <2>2. PICK m \in Messages : m = cpu[c].req BY <2>1, ThreadType DEF Messages, NocInv, TypeOK
  <2>3. Transfers(Places, Net, Net', P, Q, m) BY <1>3, <2>2, NetFinishPut DEF NocInv
  <2>4. Net[P] = <<m>> BY <1>1, <2>1, <2>2, NetAt, HoldsIs DEF ThreadHolds
  <2>5. Outside(Q, m) => Outside(P, Head(Net[P])) BY <2>4 DEF Outside
  <2> QED BY ONLY NocInv, NocInv', OneOutside, <1>1, <2>2, <2>3, <2>5, OutsideMoved
<1>4. ASSUME DispatchRequest(c) PROVE OneOutside'
  <2>1. mHeld[c] # <<>> /\ mHeld[c] \in Seq(Requests) BY <1>4 DEF DispatchRequest, NocInv, TypeOK
  <2>2. PICK m \in Requests : m = Head(mHeld[c]) BY <2>1
  <2>3. PICK s \in Slaves : s = SlaveOf(m.addr) BY <2>2, TransportAssumption DEF Requests
  <2>4. Transfers(Places, Net, Net', H, <<"sReq", s>>, m) BY <1>4, <2>2, <2>3, NetDispatchRequest DEF NocInv
  <2>5. Head(Net[H]) = m BY <1>1, <2>2, NetAt, HoldsIs
  <2>6. Outside(<<"sReq", s>>, m) => Outside(H, Head(Net[H])) BY <2>3, <2>5 DEF Outside
  <2>7. <<"sReq", s>> \in Places /\ m \in Messages BY <2>2, SlavesInPlace DEF Messages
  <2> QED BY ONLY NocInv, NocInv', OneOutside, <1>1, <2>4, <2>6, <2>7, OutsideMoved
<1> QED BY <1>2, <1>3, <1>4

\* At a slave a message stays where it is outside or not; on the way back it is no longer.
LEMMA OneOutsideSlave ==
  ASSUME NocInv, NocInv', OneOutside, NEW s \in Slaves, SlaveStep(s)
  PROVE  OneOutside'
<1> DEFINE Q == <<"sReq", s>>  S == <<"serve", s>>  R == <<"respond", s>>
           P == <<"sRsp", s>>  H == <<"sHeld", s>>
<1>1. Q \in Places /\ S \in Places /\ R \in Places /\ P \in Places /\ H \in Places BY SlavesInPlace
<1>2. \A x, y \in {Q, S, R, P, H} : \A m, n : Outside(y, m) => Outside(x, n) BY DEF Outside
<1>3. ASSUME NEW x \in {Q, S, R, P, H}, NEW y \in {Q, S, R, P, H}, NEW m \in Messages,
             Transfers(Places, Net, Net', x, y, m)
      PROVE  OneOutside'
  <2>1. x \in Places /\ y \in Places BY <1>1
  <2>2. Outside(y, m) => Outside(x, Head(Net[x])) BY <1>2
  <2> QED BY ONLY NocInv, NocInv', OneOutside, <1>3, <2>1, <2>2, OutsideMoved
<1>4. CASE TakeResponse(s)
  <2>1. sRsp[s] # <<>> /\ sRsp[s] \in Seq(Responses) BY <1>4 DEF TakeResponse, NocInv, TypeOK
  <2>2. Head(sRsp[s]) \in Messages BY <2>1 DEF Messages
  <2>3. Transfers(Places, Net, Net', P, H, Head(sRsp[s])) BY <1>4, NetTakeResponse DEF NocInv
  <2> QED BY <1>3, <2>2, <2>3
<1>5. CASE DispatchResponse(s)
  <2>1. sHeld[s] # <<>> /\ sHeld[s] \in Seq(Responses) BY <1>5 DEF DispatchResponse, NocInv, TypeOK
  <2>2. PICK m \in Responses : m = Head(sHeld[s]) BY <2>1
  <2>3. PICK c \in Cpus : c = m.src BY <2>2 DEF Responses
  <2>4. Transfers(Places, Net, Net', H, <<"mRsp", c>>, m) BY <1>5, <2>2, <2>3, NetDispatchResponse DEF NocInv
  <2>5. ~Outside(<<"mRsp", c>>, m) BY DEF Outside
  <2>6. <<"mRsp", c>> \in Places /\ m \in Messages BY <2>2, MastersInPlace DEF Messages
  <2> QED BY ONLY NocInv, NocInv', OneOutside, <1>1, <2>4, <2>5, <2>6, OutsideMoved
<1>6. CASE GetRequest(s)
  <2>1. sReq[s] # <<>> /\ sReq[s] \in Seq(Requests) BY <1>6 DEF GetRequest, NocInv, TypeOK
  <2>2. Head(sReq[s]) \in Messages BY <2>1 DEF Messages
  <2>3. Transfers(Places, Net, Net', Q, S, Head(sReq[s])) BY <1>6, NetGetRequest DEF NocInv
  <2> QED BY <1>3, <2>2, <2>3
<1>7. CASE Serve(s)
  <2>1. Answer(dev[s].req) \in Messages
    <3>1. dev[s].req \in Requests BY <1>7, DeviceType DEF Serve, NocInv, TypeOK
    <3> QED BY <3>1, AnswerType DEF NocInv, Messages
  <2>2. CASE Room(sRsp[s])
    <3>1. Transfers(Places, Net, Net', S, P, Answer(dev[s].req)) BY <1>7, <2>2, NetServeSent DEF NocInv
    <3> QED BY <1>3, <2>1, <3>1
  <2>3. CASE ~Room(sRsp[s])
    <3>1. Transfers(Places, Net, Net', S, R, Answer(dev[s].req)) BY <1>7, <2>3, NetServeBlocked DEF NocInv
    <3> QED BY <1>3, <2>1, <3>1
  <2> QED BY <2>2, <2>3
<1>8. CASE Respond(s)
  <2>1. dev[s].rsp \in Messages BY <1>8, DeviceType DEF Respond, NocInv, TypeOK, Messages
  <2>2. Transfers(Places, Net, Net', R, P, dev[s].rsp) BY <1>8, NetRespond DEF NocInv
  <2> QED BY <1>3, <2>1, <2>2
<1> QED BY <1>4, <1>5, <1>6, <1>7, <1>8 DEF SlaveStep

\* An access to a slave that is no memory waits for the pool to be empty.
LEMMA OneOutsideAccess ==
  ASSUME NocInv, NocInv', OneOutside, NEW c \in Cpus, NEW cmd \in {"read", "write"}, NEW a \in Addrs,
         Access(c, cmd, a)
  PROVE  OneOutside'
<1> DEFINE o == [cmd |-> cmd, addr |-> a,
                 val |-> IF cmd = "write" THEN [cpu |-> c, n |-> ops[c] + 1] ELSE Nothing]
<1>1. cpu[c] = Running /\ cpu[c].at = "run" BY DEF Access, Running
<1>2. ops[c] \in 0 .. MaxOps /\ ops[c] < MaxOps /\ MaxOps \in Nat
  BY TransportAssumption DEF NocInv, TypeOK, Access
<1>3. ops[c] + 1 \in 1 .. MaxOps BY <1>2
<1>4. o \in Accesses BY <1>3 DEF Accesses, Values
<1>5. CASE WaitEmpty(c, o) /\ DOMAIN busy[c] # {}
  <2>1. cpu' = [cpu EXCEPT ![c] = Draining(o)] /\ UNCHANGED <<free, busy, nocVars, devVars>>
    BY <1>5 DEF Access
  <2>2. \A d \in Cpus : ThreadHolds(d)' = ThreadHolds(d)
    BY <1>1, <2>1 DEF ThreadHolds, Draining, NocInv, TypeOK
  <2>3. Net' = Net BY <2>1, <2>2, NetSame DEF NocInv, nocVars, devVars
  <2> QED BY <2>3, OutsideSame
<1>6. CASE ~(WaitEmpty(c, o) /\ DOMAIN busy[c] # {})
  <2>1. Issue(c, o) BY <1>6 DEF Access
  <2>2. ~WaitEmpty(c, o) \/ DOMAIN busy[c] = {} BY <1>6
  <2> HIDE DEF o
  <2> QED BY <1>1, <1>4, <2>1, <2>2, OutsideIssued
<1> QED BY <1>5, <1>6

\* So does one that was waiting, and the other steps of a thread take nothing outside.
LEMMA OneOutsideMaster ==
  ASSUME NocInv, NocInv', OneOutside, NEW c \in Cpus
  PROVE  /\ FireEmpty(c) => OneOutside'
         /\ Complete(c) => OneOutside'
         /\ ReceiveResponse(c) => OneOutside'
<1>1. ASSUME FireEmpty(c) PROVE OneOutside'
  <2>1. CASE cpu[c].at = "drain" /\ DOMAIN busy[c] = {}
    <3>1. cpu[c].op \in Accesses BY <2>1, ThreadType DEF NocInv, TypeOK
    <3>2. Issue(c, cpu[c].op) BY <1>1, <2>1 DEF FireEmpty
    <3> QED BY <2>1, <3>1, <3>2, OutsideIssued
  <2>2. CASE ~(cpu[c].at = "drain" /\ DOMAIN busy[c] = {})
    <3>1. UNCHANGED <<cpu, mReq, mHeld, mRsp, sReq, sRsp, sHeld, dev>>
      BY <1>1, <2>2 DEF FireEmpty, nocVars, devVars
    <3>2. Net' = Net BY <3>1, NetSame DEF NocInv, ThreadHolds
    <3> QED BY <3>2, OutsideSame
  <2> QED BY <2>1, <2>2
<1>2. ASSUME Complete(c) PROVE OneOutside'
  <2>1. /\ cpu[c].at = "wait" /\ cpu' = [cpu EXCEPT ![c] = Running]
        /\ UNCHANGED <<mReq, mHeld, mRsp, sReq, sRsp, sHeld, dev>>
    BY <1>2 DEF Complete, nocVars, devVars
  <2>2. \A d \in Cpus : ThreadHolds(d)' = ThreadHolds(d)
    BY <2>1 DEF ThreadHolds, Running, NocInv, TypeOK
  <2>3. Net' = Net BY <2>1, <2>2, NetSame DEF NocInv
  <2> QED BY <2>3, OutsideSame
<1>3. ASSUME ReceiveResponse(c) PROVE OneOutside'
  <2>1. Takes(Places, Net, Net', <<"mRsp", c>>) BY <1>3, NetReceiveResponse DEF NocInv
  <2>2. Net \in [Places -> Seq(Messages)] BY NetType DEF NocInv, NetOfSequences
  <2>3. NetOfSequences' BY NetType, PTL DEF NocInv
  <2>4. Net' \in [Places -> Seq(Messages)] BY <2>3 DEF NetOfSequences
  <2>5. <<"mRsp", c>> \in Places BY MastersInPlace
  <2>6. \A d, u : OnOutside(Net', d, u) => OnOutside(Net, d, u)
    BY ONLY <2>1, <2>2, <2>4, <2>5, OutsideTakes
  <2> QED BY <2>6 DEF OneOutside
<1> QED BY <1>1, <1>2, <1>3

\* Every step keeps the invariant.
LEMMA OneOutsideStep == NocInv /\ NocInv' /\ OneOutside /\ [Next]_vars => OneOutside'
<1> SUFFICES ASSUME NocInv, NocInv', OneOutside, [Next]_vars PROVE OneOutside' OBVIOUS
<1>1. ASSUME NEW c \in Cpus, NEW cmd \in {"read", "write"}, NEW a \in Addrs, Access(c, cmd, a)
      PROVE  OneOutside'
  BY <1>1, OneOutsideAccess
<1>2. ASSUME NEW c \in Cpus, MasterStep(c) PROVE OneOutside'
  BY <1>2, OneOutsideMaster, OneOutsideRequests DEF MasterStep
<1>3. ASSUME NEW s \in Slaves, SlaveStep(s) PROVE OneOutside'
  BY <1>3, OneOutsideSlave
<1>4. CASE UNCHANGED vars
  <2>1. UNCHANGED <<cpu, mReq, mHeld, mRsp, sReq, sRsp, sHeld, dev>> BY <1>4 DEF vars
  <2>2. Net' = Net BY <2>1, NetSame DEF NocInv, ThreadHolds
  <2> QED BY <2>2, OutsideSame
<1> QED BY <1>1, <1>2, <1>3, <1>4 DEF Next

\* So it holds always.
LEMMA OneOutsideInvariance == Spec => []OneOutside
<1>1. NocInv /\ NocInv' /\ OneOutside /\ [Next]_vars => OneOutside' BY OneOutsideStep
<1> QED BY <1>1, NocInvariance, OneOutsideInit, PTL DEF Spec

\* The slot of the message that may be at a slave that is no memory.
OutsideSlot == <<<<"outside", "outside">>, 1>>

\* The slots of the path for the messages of CPU c: an item of a queue, a dispatcher, a
\* device, and one for whatever is at a slave that is no memory.
QueueSlots(c) == (({"mReq", "mRsp"} \X {c}) \X (1 .. QueueSize))
                 \cup (({"sReq", "sRsp"} \X Memories) \X (1 .. QueueSize))
\* The slots of the dispatchers and the devices.
HeldSlots(c) == (({"mHeld"} \X {c}) \X {1}) \cup (({"sHeld", "dev"} \X Memories) \X {1})
\* All the slots.
Slots(c) == QueueSlots(c) \cup HeldSlots(c) \cup (IF Slaves \subseteq Memories THEN {} ELSE {OutsideSlot})

\* How many messages of a CPU the path holds: a bound on the size of the pool.
PathCapacity == 2 * QueueSize + 1 + Cardinality(Memories) * (2 * QueueSize + 2)
                + (IF Slaves \subseteq Memories THEN 0 ELSE 1)

\* The kinds of places at a slave.
SlaveKinds == {"sReq", "serve", "respond", "sRsp", "sHeld"}
\* The slot of message i of place x.
SlotOf(x, i) == IF x[1] \in SlaveKinds /\ x[2] \notin Memories THEN OutsideSlot
                ELSE IF x[1] \in {"serve", "respond"} THEN <<<<"dev", x[2]>>, 1>>
                ELSE <<x, i>>

\* Message i of place x carries transaction t of CPU c.
At(x, i, c, t) == i \in DOMAIN Holds(x) /\ Carries(Holds(x)[i], c, t)

\* A union has at most as many elements as its two parts.
LEMMA CardinalityOfUnion ==
  ASSUME NEW S, NEW T, IsFiniteSet(S), IsFiniteSet(T)
  PROVE  /\ IsFiniteSet(S \cup T)
         /\ Cardinality(S) \in Nat /\ Cardinality(T) \in Nat /\ Cardinality(S \cup T) \in Nat
         /\ Cardinality(S \cup T) <= Cardinality(S) + Cardinality(T)
<1>1. IsFiniteSet(S \cap T)
  <2>1. S \cap T \in SUBSET S OBVIOUS
  <2> QED BY ONLY <2>1, FS_Subset, IsFiniteSet(S)
<1>2. /\ IsFiniteSet(S \cup T)
      /\ Cardinality(S \cup T) = Cardinality(S) + Cardinality(T) - Cardinality(S \cap T)
  BY FS_Union
<1>3. /\ Cardinality(S) \in Nat /\ Cardinality(T) \in Nat
      /\ Cardinality(S \cup T) \in Nat /\ Cardinality(S \cap T) \in Nat
  BY <1>1, <1>2, FS_CardinalityType
<1> QED BY <1>2, <1>3

\* A pair has two elements.
LEMMA CardinalityOfPair ==
  ASSUME NEW a, NEW b, a # b
  PROVE  IsFiniteSet({a, b}) /\ Cardinality({a, b}) = 2
<1>1. IsFiniteSet({a}) /\ Cardinality({a}) = 1 BY FS_Singleton
<1>2. {a} \cup {b} = {a, b} OBVIOUS
<1>3. b \notin {a} OBVIOUS
<1>4. IsFiniteSet({a} \cup {b}) /\ Cardinality({a} \cup {b}) = Cardinality({a}) + 1
  BY ONLY <1>1, <1>3, FS_AddElement
<1> QED BY <1>1, <1>2, <1>4

\* There are at most PathCapacity slots.
LEMMA CountSlots ==
  ASSUME IsFiniteSet(Slaves), NEW c
  PROVE  /\ IsFiniteSet(Slots(c)) /\ PathCapacity \in Nat
         /\ Cardinality(Slots(c)) <= PathCapacity
<1> DEFINE Q == 1 .. QueueSize  M == Cardinality(Memories)
<1>1. IsFiniteSet(Q) /\ Cardinality(Q) = QueueSize /\ QueueSize \in Nat
  <2>1. QueueSize \in Nat /\ QueueSize >= 1 BY TransportAssumption
  <2>2. IsFiniteSet(Q) /\ Cardinality(Q) = IF 1 > QueueSize THEN 0 ELSE QueueSize - 1 + 1
    BY <2>1, FS_Interval
  <2> QED BY <2>1, <2>2
<1>2. IsFiniteSet(Memories) /\ M \in Nat
  <2>1. Memories \in SUBSET Slaves BY TransportAssumption DEF Memories
  <2> QED BY <2>1, FS_Subset, FS_CardinalityType
<1>3. /\ \A x : IsFiniteSet({x}) /\ Cardinality({x}) = 1
      /\ IsFiniteSet({"mReq", "mRsp"}) /\ Cardinality({"mReq", "mRsp"}) = 2
      /\ IsFiniteSet({"sReq", "sRsp"}) /\ Cardinality({"sReq", "sRsp"}) = 2
      /\ IsFiniteSet({"sHeld", "dev"}) /\ Cardinality({"sHeld", "dev"}) = 2
  BY FS_Singleton, CardinalityOfPair
<1> HIDE DEF Q, M
<1> DEFINE A == ({"mReq", "mRsp"} \X {c}) \X Q
           B == ({"sReq", "sRsp"} \X Memories) \X Q
           C == ({"mHeld"} \X {c}) \X {1}
           D == ({"sHeld", "dev"} \X Memories) \X {1}
           E == IF Slaves \subseteq Memories THEN {} ELSE {OutsideSlot}
           e == IF Slaves \subseteq Memories THEN 0 ELSE 1
<1>4. IsFiniteSet(A) /\ Cardinality(A) = 2 * QueueSize
  <2>1. IsFiniteSet({"mReq", "mRsp"} \X {c}) /\ Cardinality({"mReq", "mRsp"} \X {c}) = 2 * 1
    <3>1. /\ IsFiniteSet({c}) /\ Cardinality({c}) = 1
          /\ IsFiniteSet({"mReq", "mRsp"}) /\ Cardinality({"mReq", "mRsp"}) = 2
      BY <1>3
    <3> QED BY ONLY <3>1, FS_Product
  <2>2. IsFiniteSet(A) /\ Cardinality(A) = (2 * 1) * QueueSize BY <1>1, <2>1, FS_Product
  <2> QED BY <1>1, <2>2
<1>5. IsFiniteSet(B) /\ Cardinality(B) = (2 * M) * QueueSize
  <2>1. IsFiniteSet({"sReq", "sRsp"} \X Memories) /\ Cardinality({"sReq", "sRsp"} \X Memories) = 2 * M
    BY <1>2, <1>3, FS_Product DEF M
  <2> QED BY <1>1, <2>1, FS_Product
<1>6. IsFiniteSet(C) /\ Cardinality(C) = 1
  <2>1. IsFiniteSet({"mHeld"} \X {c}) /\ Cardinality({"mHeld"} \X {c}) = 1 * 1
    <3>1. /\ IsFiniteSet({c}) /\ Cardinality({c}) = 1
          /\ IsFiniteSet({"mHeld"}) /\ Cardinality({"mHeld"}) = 1
      BY <1>3
    <3> QED BY ONLY <3>1, FS_Product
  <2>2. IsFiniteSet({1}) /\ Cardinality({1}) = 1 BY <1>3
  <2>3. IsFiniteSet(C) /\ Cardinality(C) = (1 * 1) * 1 BY ONLY <2>1, <2>2, FS_Product
  <2> QED BY <2>3
<1>7. IsFiniteSet(D) /\ Cardinality(D) = (2 * M) * 1
  <2>1. IsFiniteSet({"sHeld", "dev"} \X Memories) /\ Cardinality({"sHeld", "dev"} \X Memories) = 2 * M
    BY <1>2, <1>3, FS_Product DEF M
  <2>2. IsFiniteSet({1}) /\ Cardinality({1}) = 1 BY <1>3
  <2> QED BY ONLY <2>1, <2>2, FS_Product
<1>8. IsFiniteSet(E) /\ Cardinality(E) = e /\ e \in Nat
  <2>1. IsFiniteSet({}) /\ Cardinality({}) = 0 BY FS_EmptySet
  <2> QED BY <1>3, <2>1
<1>9. Slots(c) = ((A \cup B) \cup (C \cup D)) \cup E BY DEF Slots, QueueSlots, HeldSlots, Q
<1>10. PathCapacity = 2 * QueueSize + 1 + M * (2 * QueueSize + 2) + e BY DEF PathCapacity, M
<1> HIDE DEF A, B, C, D, E, e
<1>11. /\ IsFiniteSet(A \cup B) /\ Cardinality(A \cup B) \in Nat
       /\ Cardinality(A \cup B) <= 2 * QueueSize + (2 * M) * QueueSize
  BY <1>4, <1>5, CardinalityOfUnion
<1>12. IsFiniteSet(C \cup D) /\ Cardinality(C \cup D) \in Nat /\ Cardinality(C \cup D) <= 1 + (2 * M) * 1
  BY <1>6, <1>7, CardinalityOfUnion
<1>13. /\ IsFiniteSet((A \cup B) \cup (C \cup D)) /\ Cardinality((A \cup B) \cup (C \cup D)) \in Nat
       /\ Cardinality((A \cup B) \cup (C \cup D)) <= Cardinality(A \cup B) + Cardinality(C \cup D)
  BY <1>11, <1>12, CardinalityOfUnion
<1>14. /\ IsFiniteSet(Slots(c)) /\ Cardinality(Slots(c)) \in Nat
       /\ Cardinality(Slots(c)) <= Cardinality((A \cup B) \cup (C \cup D)) + e
  BY <1>8, <1>9, <1>13, CardinalityOfUnion
<1>15. (2 * M) * QueueSize \in Nat /\ M * (2 * QueueSize + 2) = (2 * M) * QueueSize + (2 * M) * 1
  BY <1>1, <1>2
<1> HIDE DEF PathCapacity
<1>16. PathCapacity \in Nat BY <1>1, <1>2, <1>8, <1>10, <1>15
<1>17. Cardinality(Slots(c)) <= (2 * QueueSize + (2 * M) * QueueSize) + (1 + (2 * M) * 1) + e
  BY <1>1, <1>2, <1>8, <1>11, <1>12, <1>13, <1>14, <1>15
<1>18. PathCapacity = (2 * QueueSize + (2 * M) * QueueSize) + (1 + (2 * M) * 1) + e
  BY <1>1, <1>2, <1>8, <1>10, <1>15
<1> QED BY <1>14, <1>16, <1>17, <1>18

\* A message of a CPU that is not blocked in put has a slot.
LEMMA HasSlot ==
  ASSUME NocInv, NEW c \in Cpus, cpu[c].at # "put", NEW x \in Places, NEW i, NEW t, At(x, i, c, t)
  PROVE  SlotOf(x, i) \in Slots(c)
<1> USE DEF At
<1>1. CASE \E d \in Cpus : x \in {<<"put", d>>, <<"mReq", d>>, <<"mHeld", d>>, <<"mRsp", d>>}
  <2>1. PICK d \in Cpus : x \in {<<"put", d>>, <<"mReq", d>>, <<"mHeld", d>>, <<"mRsp", d>>} BY <1>1
  <2>2. Holds(x)[i].src = c BY DEF Carries
  <2>3. SlotOf(x, i) = <<x, i>> BY <2>1 DEF SlotOf, SlaveKinds
  <2>4. CASE x = <<"put", d>>
    <3>1. i \in DOMAIN ThreadHolds(d) /\ ThreadHolds(d)[i].src = c BY <2>2, <2>4, HoldsIs
    <3>2. cpu[d].at = "put" /\ i = 1 /\ ThreadHolds(d)[1] = cpu[d].req BY <3>1 DEF ThreadHolds
    <3>3. cpu[d].req.src = d BY <3>2 DEF NocInv, Home
    <3> QED BY <3>1, <3>2, <3>3
  <2>5. CASE x = <<"mReq", d>>
    <3>1. i \in DOMAIN mReq[d] /\ mReq[d][i].src = c BY <2>2, <2>5, HoldsIs
    <3>2. d = c BY <3>1 DEF NocInv, Home
    <3>3. mReq[d] \in Seq(Requests) /\ Len(mReq[d]) <= QueueSize BY DEF NocInv, TypeOK, Short
    <3>4. i \in 1 .. QueueSize BY <3>1, <3>3, TransportAssumption
    <3> QED BY <2>3, <2>5, <3>2, <3>4 DEF Slots, QueueSlots
  <2>6. CASE x = <<"mHeld", d>>
    <3>1. i \in DOMAIN mHeld[d] /\ mHeld[d][i].src = c BY <2>2, <2>6, HoldsIs
    <3>2. d = c BY <3>1 DEF NocInv, Home
    <3>3. mHeld[d] \in Seq(Requests) /\ Len(mHeld[d]) <= 1 BY DEF NocInv, TypeOK, Short
    <3>4. i = 1 BY <3>1, <3>3
    <3> QED BY <2>3, <2>6, <3>2, <3>4 DEF Slots, HeldSlots
  <2>7. CASE x = <<"mRsp", d>>
    <3>1. i \in DOMAIN mRsp[d] /\ mRsp[d][i].src = c BY <2>2, <2>7, HoldsIs
    <3>2. d = c BY <3>1 DEF NocInv, Home
    <3>3. mRsp[d] \in Seq(Responses) /\ Len(mRsp[d]) <= QueueSize BY DEF NocInv, TypeOK, Short
    <3>4. i \in 1 .. QueueSize BY <3>1, <3>3, TransportAssumption
    <3> QED BY <2>3, <2>7, <3>2, <3>4 DEF Slots, QueueSlots
  <2> QED BY <2>1, <2>4, <2>5, <2>6, <2>7
<1>2. CASE \E s \in Slaves : x \in {<<"sReq", s>>, <<"serve", s>>, <<"respond", s>>, <<"sRsp", s>>, <<"sHeld", s>>}
  <2>1. PICK s \in Slaves : x \in {<<"sReq", s>>, <<"serve", s>>, <<"respond", s>>, <<"sRsp", s>>, <<"sHeld", s>>}
    BY <1>2
  <2>2. CASE s \notin Memories BY <2>1, <2>2 DEF SlotOf, SlaveKinds, Slots
  <2>3. CASE s \in Memories /\ x \in {<<"serve", s>>, <<"respond", s>>}
    BY <2>3 DEF SlotOf, SlaveKinds, Slots, HeldSlots
  <2>4. CASE s \in Memories /\ x = <<"sHeld", s>>
    <3>1. sHeld[s] \in Seq(Responses) /\ Len(sHeld[s]) <= 1 BY DEF NocInv, TypeOK, Short
    <3>2. i \in DOMAIN sHeld[s] BY <2>4, HoldsIs
    <3>3. i = 1 BY <3>1, <3>2
    <3> QED BY <2>4, <3>3 DEF SlotOf, SlaveKinds, Slots, HeldSlots
  <2>5. CASE s \in Memories /\ x = <<"sReq", s>>
    <3>1. sReq[s] \in Seq(Requests) /\ Len(sReq[s]) <= QueueSize BY DEF NocInv, TypeOK, Short
    <3>2. i \in DOMAIN sReq[s] BY <2>5, HoldsIs
    <3>3. i \in 1 .. QueueSize BY <3>1, <3>2, TransportAssumption
    <3> QED BY <2>5, <3>3 DEF SlotOf, SlaveKinds, Slots, QueueSlots
  <2>6. CASE s \in Memories /\ x = <<"sRsp", s>>
    <3>1. sRsp[s] \in Seq(Responses) /\ Len(sRsp[s]) <= QueueSize BY DEF NocInv, TypeOK, Short
    <3>2. i \in DOMAIN sRsp[s] BY <2>6, HoldsIs
    <3>3. i \in 1 .. QueueSize BY <3>1, <3>2, TransportAssumption
    <3> QED BY <2>6, <3>3 DEF SlotOf, SlaveKinds, Slots, QueueSlots
  <2> QED BY <2>1, <2>2, <2>3, <2>4, <2>5, <2>6
<1> QED BY <1>1, <1>2, PlaceCases

\* What a device holds is one message.
LEMMA OneAtDevice ==
  ASSUME NEW s, NEW x \in {<<"serve", s>>, <<"respond", s>>}, NEW y \in {<<"serve", s>>, <<"respond", s>>},
         NEW i \in DOMAIN Holds(x), NEW j \in DOMAIN Holds(y)
  PROVE  x = y /\ i = j
<1>1. ASSUME NEW z \in {<<"serve", s>>, <<"respond", s>>}, NEW k \in DOMAIN Holds(z)
      PROVE  k = 1 /\ z = <<dev[s].at, s>>
  <2>1. CASE z = <<"serve", s>>
    <3>1. k \in DOMAIN DeviceServes(s) BY <1>1, <2>1, HoldsIs
    <3>2. dev[s].at = "serve" /\ k = 1 BY <3>1 DEF DeviceServes
    <3> QED BY <2>1, <3>2
  <2>2. CASE z = <<"respond", s>>
    <3>1. k \in DOMAIN DeviceResponds(s) BY <1>1, <2>2, HoldsIs
    <3>2. dev[s].at = "respond" /\ k = 1 BY <3>1 DEF DeviceResponds
    <3> QED BY <2>2, <3>2
  <2> QED BY <1>1, <2>1, <2>2
<1> QED BY <1>1

\* A slot has one message of a CPU.
LEMMA OneInSlot ==
  ASSUME OneOutside, NEW c \in Cpus, NEW x \in Places, NEW y \in Places, NEW i, NEW j,
         NEW t \in Tids, NEW u \in Tids, At(x, i, c, t), At(y, j, c, u), SlotOf(x, i) = SlotOf(y, j)
  PROVE  t = u
<1> USE DEF At
<1>1. SlotOf(x, i) \in {OutsideSlot, <<<<"dev", x[2]>>, 1>>, <<x, i>>} BY DEF SlotOf
<1>2. x[1] # "outside" /\ x[1] # "dev" /\ y[1] # "outside" /\ y[1] # "dev" BY PlaceCases
<1>3. CASE SlotOf(x, i) = OutsideSlot
  <2>1. (x[1] \in SlaveKinds /\ x[2] \notin Memories) /\ (y[1] \in SlaveKinds /\ y[2] \notin Memories)
    BY <1>2, <1>3 DEF SlotOf, OutsideSlot
  <2>2. Outside(x, Holds(x)[i]) /\ Outside(y, Holds(y)[j]) BY <2>1 DEF Outside, SlaveKinds
  <2>3. DOMAIN Net = Places /\ Net[x] = Holds(x) /\ Net[y] = Holds(y) BY DEF Net
  <2>4. OnOutside(Net, c, t) /\ OnOutside(Net, c, u) BY <2>2, <2>3 DEF OnOutside
  <2> QED BY <2>4 DEF OneOutside
<1>4. CASE SlotOf(x, i) # OutsideSlot /\ x[1] \in {"serve", "respond"}
  <2>1. SlotOf(x, i) = <<<<"dev", x[2]>>, 1>> BY <1>4 DEF SlotOf
  <2>2. y[1] \in {"serve", "respond"} /\ SlotOf(y, j) = <<<<"dev", y[2]>>, 1>> BY <1>2, <1>4, <2>1 DEF SlotOf
  <2>3. y[2] = x[2]
    <3>1. <<<<"dev", x[2]>>, 1>> = <<<<"dev", y[2]>>, 1>> BY <2>1, <2>2
    <3> QED BY ONLY <3>1
  <2>4. x \in {<<"serve", x[2]>>, <<"respond", x[2]>>} /\ y \in {<<"serve", x[2]>>, <<"respond", x[2]>>}
    BY <1>4, <2>2, <2>3, PlaceCases
  <2>5. x = y /\ i = j BY <2>4, OneAtDevice
  <2> QED BY <2>5 DEF Carries
<1>5. CASE SlotOf(x, i) # OutsideSlot /\ x[1] \notin {"serve", "respond"}
  <2>1. SlotOf(x, i) = <<x, i>> BY <1>5 DEF SlotOf
  <2>2. SlotOf(y, j) = <<y, j>> BY <1>2, <1>5, <2>1 DEF SlotOf
  <2>3. <<x, i>> = <<y, j>> BY <2>1, <2>2
  <2>4. x = y /\ i = j BY ONLY <2>3
  <2> QED BY <2>4 DEF Carries
<1> QED BY <1>3, <1>4, <1>5

\* A CPU without a free request would have two messages in one slot.
LEMMA PoolIsEnough ==
  ASSUME NocInv, OneOutside, IsFiniteSet(Slaves), PoolSize > PathCapacity
  PROVE  NeverOutOfRequests
<1> SUFFICES ASSUME NEW c \in Cpus, cpu[c].at \in {"run", "drain"}, free[c] = <<>> PROVE FALSE
  BY DEF NeverOutOfRequests
<1>1. \A t \in Tids : t \in DOMAIN busy[c]
  <2>1. ToSet(free[c]) = {} BY DEF ToSet
  <2> QED BY <2>1 DEF NocInv, Pool
<1>2. \A t \in Tids : ~busy[c][t].bDone BY <1>1 DEF NocInv, Awaited, AwaitedBy
<1>3. \A t \in Tids : On(Net, c, t) BY <1>1, <1>2 DEF NocInv, CarriedInUse
<1>4. \A t \in Tids : \E s \in Slots(c) : \E x \in Places : \E i \in DOMAIN Holds(x) : At(x, i, c, t) /\ s = SlotOf(x, i)
  <2> SUFFICES ASSUME NEW t \in Tids
               PROVE  \E s \in Slots(c) : \E x \in Places : \E i \in DOMAIN Holds(x) : At(x, i, c, t) /\ s = SlotOf(x, i)
    OBVIOUS
  <2>1. DOMAIN Net = Places /\ \A x \in Places : Net[x] = Holds(x) BY DEF Net
  <2>2. PICK x \in Places : \E i \in DOMAIN Holds(x) : Carries(Holds(x)[i], c, t) BY <1>3, <2>1 DEF On
  <2>3. PICK i \in DOMAIN Holds(x) : Carries(Holds(x)[i], c, t) BY <2>2
  <2>4. At(x, i, c, t) BY <2>3 DEF At
  <2>5. SlotOf(x, i) \in Slots(c) BY <2>4, HasSlot
  <2> QED BY <2>4, <2>5
<1> DEFINE f == [t \in Tids |-> CHOOSE s \in Slots(c) :
                                   \E x \in Places : \E i \in DOMAIN Holds(x) : At(x, i, c, t) /\ s = SlotOf(x, i)]
<1>5. \A t \in Tids : /\ f[t] \in Slots(c)
                      /\ \E x \in Places : \E i \in DOMAIN Holds(x) : At(x, i, c, t) /\ f[t] = SlotOf(x, i)
  BY <1>4
<1>6. f \in [Tids -> Slots(c)] BY <1>5
<1> HIDE DEF f
<1>7. /\ IsFiniteSet(Slots(c)) /\ Cardinality(Slots(c)) <= PathCapacity /\ PathCapacity \in Nat
      /\ Cardinality(Slots(c)) \in Nat
  BY CountSlots, FS_CardinalityType
<1>8. IsFiniteSet(Tids) /\ Cardinality(Tids) = PoolSize
  <2>1. PoolSize \in Nat /\ PoolSize >= 1 BY TransportAssumption
  <2>2. IsFiniteSet(1 .. PoolSize) /\ Cardinality(1 .. PoolSize) = IF 1 > PoolSize THEN 0 ELSE PoolSize - 1 + 1
    BY <2>1, FS_Interval
  <2> QED BY <2>1, <2>2 DEF Tids
<1>9. Cardinality(Slots(c)) < Cardinality(Tids) BY <1>7, <1>8, TransportAssumption
<1>10. \E t, u \in Tids : t # u /\ f[t] = f[u]
  BY ONLY <1>6, <1>7, <1>8, <1>9, FS_PigeonHole
<1> QED BY <1>5, <1>10, OneInSlot

(* With more requests than the path holds messages of a CPU, GetNewRequest *)
(* finds one: the simulation never exits with "no request available".      *)
THEOREM PoolSuffices ==
  ASSUME IsFiniteSet(Slaves), PoolSize > PathCapacity
  PROVE  Spec => []NeverOutOfRequests
<1>1. NocInv /\ OneOutside => NeverOutOfRequests BY PoolIsEnough
<1> QED BY <1>1, NocInvariance, OneOutsideInvariance, PTL
-----------------------------------------------------------------------------
(***************************************************************************)
(* mwsr_ta_fifo.                                                           *)
(***************************************************************************)
(* The slots between the two indices hold items, never an unwritten one.   *)
StoredSlotsAreItems == \A i \in 1 .. Count : m_data[Slot(i)] \in Items

(* A writer that is inside Write has an item to store.                     *)
PendingItems == \A w \in Writers : writer[w] # "idle" => pending[w] \in Items

(* The invariant the proofs are by induction on.                           *)
RingInv == FifoTypeOK /\ StoredSlotsAreItems /\ PendingItems /\ NoLostWakeup

(* The index arithmetic of Read and Write: (i + 1) % m_size steps to the   *)
(* next slot and wraps after the last one.                                 *)
LEMMA NextIndex ==
  ASSUME NEW i \in 0 .. Size
  PROVE  (i + 1) % m_size = IF i = Size THEN 0 ELSE i + 1
<1>1. CASE i = Size
  <2>1. (i + 1) % (i + 1) = 0
    BY SizeAssumption
  <2>2. QED
    BY <1>1, <2>1 DEF m_size
<1>2. CASE i # Size
  <2>1. i + 1 \in 0 .. Size
    BY <1>2, SizeAssumption
  <2>2. (i + 1) % (Size + 1) = i + 1
    BY <2>1, SizeAssumption
  <2>3. QED
    BY <1>2, <2>2 DEF m_size
<1>3. QED
  BY <1>1, <1>2

-----------------------------------------------------------------------------
(* Storing adds one item, in the slot after the stored ones.               *)
LEMMA StoreExtends ==
  ASSUME FifoTypeOK, NEW w, NEW p, Store(w, p)
  PROVE  /\ Count < Size
         /\ Count' = Count + 1
         /\ Slot(Count + 1) = m_idxWrite
         /\ \A i \in Nat : Slot(i)' = Slot(i)
         /\ \A i \in 1 .. Count : Slot(i) \in 0 .. Size /\ Slot(i) # m_idxWrite
<1>1. (m_idxWrite + 1) % m_size = IF m_idxWrite = Size THEN 0 ELSE m_idxWrite + 1
  BY NextIndex DEF FifoTypeOK
<1>2. /\ m_idxRead' = m_idxRead
      /\ m_idxWrite' = IF m_idxWrite = Size THEN 0 ELSE m_idxWrite + 1
      /\ m_idxRead # m_idxWrite'
      /\ m_idxRead \in 0 .. Size /\ m_idxWrite \in 0 .. Size
  BY <1>1 DEF FifoTypeOK, Store, IsFull
<1>3. Count < Size /\ Count' = Count + 1 /\ Slot(Count + 1) = m_idxWrite
  BY <1>2, SizeAssumption DEF Count, Slot, m_size
<1>4. \A i \in Nat : Slot(i)' = Slot(i)
  BY <1>2 DEF Slot, m_size
<1>5. \A i \in 1 .. Count : Slot(i) \in 0 .. Size /\ Slot(i) # m_idxWrite
  BY <1>2, SizeAssumption DEF Count, Slot, m_size
<1>6. QED
  BY <1>3, <1>4, <1>5

(* Taking removes the first item and shifts the others by one place.       *)
LEMMA TakeShifts ==
  ASSUME FifoTypeOK, Take
  PROVE  /\ Count > 0
         /\ Count' = Count - 1
         /\ Slot(1) = m_idxRead
         /\ \A i \in 1 .. Count : Slot(i)' = Slot(i + 1)
<1>1. (m_idxRead + 1) % m_size = IF m_idxRead = Size THEN 0 ELSE m_idxRead + 1
  BY NextIndex DEF FifoTypeOK
<1>2. /\ m_idxWrite' = m_idxWrite
      /\ m_idxRead' = IF m_idxRead = Size THEN 0 ELSE m_idxRead + 1
      /\ m_idxRead # m_idxWrite
      /\ m_idxRead \in 0 .. Size /\ m_idxWrite \in 0 .. Size
  BY <1>1 DEF FifoTypeOK, Take, IsEmpty
<1>3. Count > 0 /\ Count' = Count - 1 /\ Slot(1) = m_idxRead
  BY <1>2, SizeAssumption DEF Count, Slot, m_size
<1>4. \A i \in 1 .. Count : Slot(i)' = Slot(i + 1)
  BY <1>2, SizeAssumption DEF Count, Slot, m_size
<1>5. QED
  BY <1>3, <1>4

(* The ring holds between none and Size items.                             *)
LEMMA CountType ==
  ASSUME FifoTypeOK
  PROVE  Count \in 0 .. Size /\ (Count = 0 <=> IsEmpty)
BY SizeAssumption DEF FifoTypeOK, Count, m_size, IsEmpty

(* A step of FifoNext is a block, a store, or a take by some thread.           *)
LEMMA NextCases ==
  ASSUME PendingItems, FifoNext
  PROVE  \/ \E w \in Writers, p \in Items : WaitCanWrite(w, p) \/ Store(w, p)
         \/ WaitCanRead
         \/ Take
BY DEF PendingItems, FifoNext, ResumeWrite, Write, Read, ResumeRead, TryWrite, TryRead

(* RingInv holds along every behaviour: the indices stay in the ring, the  *)
(* slots between them hold items and nobody waits without a reason.        *)
THEOREM RingInvariance == FifoSpec => []RingInv
<1>1. FifoInit => RingInv
  BY SizeAssumption DEF FifoInit, RingInv, FifoTypeOK, StoredSlotsAreItems, PendingItems,
     NoLostWakeup, ThreadState, Count
<1>2. RingInv /\ [FifoNext]_ringVars => RingInv'
  <2> SUFFICES ASSUME RingInv, [FifoNext]_ringVars
               PROVE  RingInv'
    OBVIOUS
  <2>1. ASSUME NEW w \in Writers, NEW p \in Items, WaitCanWrite(w, p)
        PROVE  RingInv'
    BY <2>1 DEF WaitCanWrite, ring, RingInv, FifoTypeOK, ThreadState, PendingItems,
       StoredSlotsAreItems, Count, Slot, NoLostWakeup, IsFull, IsEmpty, m_size
  <2>2. ASSUME NEW w \in Writers, NEW p \in Items, Store(w, p)
        PROVE  RingInv'
    <3>1. (m_idxWrite + 1) % m_size = IF m_idxWrite = Size THEN 0 ELSE m_idxWrite + 1
      BY NextIndex DEF RingInv, FifoTypeOK
    <3>2. FifoTypeOK'
      BY <2>2, <3>1, SizeAssumption DEF Store, RingInv, FifoTypeOK, ThreadState, Notified
    <3>3. StoredSlotsAreItems'
      <4>1. /\ Count \in Nat /\ Count' = Count + 1
            /\ Slot(Count + 1) = m_idxWrite
            /\ \A i \in Nat : Slot(i)' = Slot(i)
            /\ \A i \in 1 .. Count : Slot(i) \in 0 .. Size /\ Slot(i) # m_idxWrite
        BY <2>2, StoreExtends, CountType, SizeAssumption DEF RingInv
      <4>2. /\ m_data' = [m_data EXCEPT ![m_idxWrite] = p]
            /\ m_data \in [0 .. Size -> Items \cup {NoItem}] /\ m_idxWrite \in 0 .. Size
        BY <2>2 DEF Store, RingInv, FifoTypeOK
      <4>3. SUFFICES ASSUME NEW i \in 1 .. Count + 1
                     PROVE  m_data'[Slot(i)] \in Items
        BY <4>1 DEF StoredSlotsAreItems
      <4>4. CASE i = Count + 1
        BY <4>1, <4>2, <4>4
      <4>5. CASE i \in 1 .. Count
        BY <4>1, <4>2, <4>5 DEF RingInv, StoredSlotsAreItems
      <4>6. QED
        BY <4>1, <4>4, <4>5
    <3>4. PendingItems'
      BY <2>2 DEF Store, RingInv, PendingItems, FifoTypeOK
    <3>5. NoLostWakeup'
      BY <2>2 DEF Store, RingInv, NoLostWakeup, Notified, FifoTypeOK
    <3>6. QED
      BY <3>2, <3>3, <3>4, <3>5 DEF RingInv
  <2>3. ASSUME WaitCanRead
        PROVE  RingInv'
    BY <2>3 DEF WaitCanRead, ring, RingInv, FifoTypeOK, ThreadState, PendingItems,
       StoredSlotsAreItems, Count, Slot, NoLostWakeup, IsFull, IsEmpty, m_size
  <2>4. ASSUME Take
        PROVE  RingInv'
    <3>1. (m_idxRead + 1) % m_size = IF m_idxRead = Size THEN 0 ELSE m_idxRead + 1
      BY NextIndex DEF RingInv, FifoTypeOK
    <3>2. FifoTypeOK'
      BY <2>4, <3>1, SizeAssumption DEF Take, RingInv, FifoTypeOK, ThreadState, Notified
    <3>3. StoredSlotsAreItems'
      BY <2>4, TakeShifts, CountType DEF RingInv, StoredSlotsAreItems, Take
    <3>4. PendingItems'
      BY <2>4 DEF Take, RingInv, PendingItems, Notified, FifoTypeOK
    <3>5. NoLostWakeup'
      BY <2>4 DEF Take, RingInv, NoLostWakeup, Notified, FifoTypeOK
    <3>6. QED
      BY <3>2, <3>3, <3>4, <3>5 DEF RingInv
  <2>5. CASE UNCHANGED ringVars
    BY <2>5 DEF ringVars, RingInv, FifoTypeOK, StoredSlotsAreItems, Count, Slot, PendingItems,
       NoLostWakeup, IsFull, IsEmpty, m_size
  <2>6. QED
    BY <2>1, <2>2, <2>3, <2>4, <2>5, NextCases DEF RingInv
<1>3. QED
  BY <1>1, <1>2, PTL DEF FifoSpec

(* The ring never leaves its type: in particular both indices stay within  *)
(* the m_size slots the constructor allocated.                             *)
THEOREM TypesOfRing == FifoSpec => []FifoTypeOK
BY RingInvariance, PTL DEF RingInv

(* No thread sleeps on an event whose condition already holds.             *)
THEOREM WakeupsAreNotLost == FifoSpec => []NoLostWakeup
BY RingInvariance, PTL DEF RingInv
-----------------------------------------------------------------------------
(* The stored items as a sequence.                                         *)
LEMMA ContentType ==
  FifoTypeOK /\ StoredSlotsAreItems =>
    Content \in Seq(Items) /\ Len(Content) = Count /\ DOMAIN Content = 1 .. Count
<1> SUFFICES ASSUME FifoTypeOK, StoredSlotsAreItems
             PROVE  Content \in Seq(Items) /\ Len(Content) = Count /\ DOMAIN Content = 1 .. Count
  OBVIOUS
<1>1. Count \in Nat
  BY CountType, SizeAssumption
<1>2. Content \in [1 .. Count -> Items]
  BY <1>1 DEF Content, StoredSlotsAreItems
<1>3. Content \in Seq(Items)
  BY <1>1, <1>2
<1>4. QED
  BY <1>1, <1>2, <1>3

(* A store appends to the content.                                         *)
LEMMA StoreIsPut ==
  ASSUME RingInv, NEW w \in Writers, NEW p \in Items, Store(w, p), RingInv'
  PROVE  Fifo!Put(p)
<1>1. /\ Count \in Nat /\ Count < Size /\ Count' = Count + 1
      /\ Slot(Count + 1) = m_idxWrite
      /\ \A i \in Nat : Slot(i)' = Slot(i)
      /\ \A i \in 1 .. Count : Slot(i) \in 0 .. Size /\ Slot(i) # m_idxWrite
  BY StoreExtends, CountType, SizeAssumption DEF RingInv
<1>2. /\ Content \in Seq(Items) /\ Len(Content) = Count /\ DOMAIN Content = 1 .. Count
      /\ Content' \in Seq(Items) /\ Len(Content') = Count' /\ DOMAIN Content' = 1 .. Count'
  <2>1. (Content \in Seq(Items) /\ Len(Content) = Count /\ DOMAIN Content = 1 .. Count)'
    BY ContentType, PTL DEF RingInv
  <2>2. QED
    BY <2>1, ContentType DEF RingInv
<1>3. /\ m_data' = [m_data EXCEPT ![m_idxWrite] = p] /\ out' = out
      /\ m_data \in [0 .. Size -> Items \cup {NoItem}] /\ m_idxWrite \in 0 .. Size
  BY DEF Store, RingInv, FifoTypeOK
<1>4. Append(Content, p) \in Seq(Items) /\ Len(Append(Content, p)) = Count + 1
  BY <1>2
<1>5. \A i \in 1 .. Count + 1 : Content'[i] = Append(Content, p)[i]
  <2> SUFFICES ASSUME NEW i \in 1 .. Count + 1
               PROVE  Content'[i] = Append(Content, p)[i]
    OBVIOUS
  <2>1. Content'[i] = m_data'[Slot(i)]
    BY <1>1 DEF Content
  <2>2. CASE i = Count + 1
    <3>1. Append(Content, p)[i] = p
      BY <1>2, <2>2
    <3>2. m_data'[Slot(i)] = p
      BY <1>1, <1>3, <2>2
    <3>3. QED
      BY <2>1, <3>1, <3>2
  <2>3. CASE i \in 1 .. Count
    <3>1. Append(Content, p)[i] = Content[i]
      BY <1>2, <2>3
    <3>2. Content[i] = m_data[Slot(i)]
      BY <2>3 DEF Content
    <3>3. m_data'[Slot(i)] = m_data[Slot(i)]
      BY <1>1, <1>3, <2>3
    <3>4. QED
      BY <2>1, <3>1, <3>2, <3>3
  <2>4. i = Count + 1 \/ i \in 1 .. Count
    BY <1>1
  <2>5. QED
    BY <2>2, <2>3, <2>4
<1>6. Content' = Append(Content, p)
  BY <1>1, <1>2, <1>4, <1>5
<1>7. QED
  BY <1>1, <1>2, <1>3, <1>6 DEF Fifo!Put

(* A take delivers the head of the content.                                *)
LEMMA TakeIsGet ==
  ASSUME RingInv, Take, RingInv'
  PROVE  Fifo!Get
<1>1. /\ Count \in Nat /\ Count > 0 /\ Count' = Count - 1
      /\ Slot(1) = m_idxRead
      /\ \A i \in 1 .. Count : Slot(i)' = Slot(i + 1)
  BY TakeShifts, CountType, SizeAssumption DEF RingInv
<1>2. /\ Content \in Seq(Items) /\ Len(Content) = Count /\ DOMAIN Content = 1 .. Count
      /\ Content' \in Seq(Items) /\ Len(Content') = Count' /\ DOMAIN Content' = 1 .. Count'
  <2>1. (Content \in Seq(Items) /\ Len(Content) = Count /\ DOMAIN Content = 1 .. Count)'
    BY ContentType, PTL DEF RingInv
  <2>2. QED
    BY <2>1, ContentType DEF RingInv
<1>3. m_data' = m_data /\ out' = m_data[m_idxRead]
  BY DEF Take
<1>4. Content # <<>>
  BY <1>1, <1>2
<1>5. out' = Head(Content)
  <2>1. Content[1] = m_data[Slot(1)]
    BY <1>1 DEF Content
  <2>2. QED
    BY <1>1, <1>2, <1>3, <2>1
<1>6. Tail(Content) \in Seq(Items) /\ Len(Tail(Content)) = Count - 1
  BY <1>2, <1>4
<1>7. \A i \in 1 .. Count - 1 : Content'[i] = Tail(Content)[i]
  <2> SUFFICES ASSUME NEW i \in 1 .. Count - 1
               PROVE  Content'[i] = Tail(Content)[i]
    OBVIOUS
  <2>1. Content'[i] = m_data[Slot(i)']
    BY <1>1, <1>3 DEF Content
  <2>2. Tail(Content)[i] = Content[i + 1]
    BY <1>1, <1>2, <1>4
  <2>3. Content[i + 1] = m_data[Slot(i + 1)]
    BY <1>1 DEF Content
  <2>4. Slot(i)' = Slot(i + 1)
    BY <1>1
  <2>5. QED
    BY <2>1, <2>2, <2>3, <2>4
<1>8. Content' = Tail(Content)
  BY <1>1, <1>2, <1>6, <1>7
<1>9. QED
  BY <1>4, <1>5, <1>8 DEF Fifo!Get

(* mwsr_ta_fifo implements a bounded fifo of the size it was given: with   *)
(* several writers, waits and wakeups in any order, no item is lost,       *)
(* duplicated or overtaken.                                                *)
THEOREM RingIsFifo == FifoSpec => RefinesFifo
<1>1. FifoInit => Fifo!Init
  <2> SUFFICES ASSUME FifoInit PROVE Fifo!Init
    OBVIOUS
  <2>1. Count = 0 /\ out = NoItem
    BY SizeAssumption DEF FifoInit, Count
  <2>2. Content = <<>>
    BY <2>1 DEF Content
  <2>3. QED
    BY <2>1, <2>2 DEF Fifo!Init
<1>2. RingInv /\ RingInv' /\ [FifoNext]_ringVars => [Fifo!Next]_(Fifo!fifoVars)
  <2> SUFFICES ASSUME RingInv, RingInv', [FifoNext]_ringVars
               PROVE  [Fifo!Next]_(Fifo!fifoVars)
    OBVIOUS
  <2>1. ASSUME NEW w \in Writers, NEW p \in Items, WaitCanWrite(w, p)
        PROVE  UNCHANGED Fifo!fifoVars
    BY <2>1 DEF WaitCanWrite, ring, Fifo!fifoVars, Content, Count, Slot, m_size
  <2>2. ASSUME NEW w \in Writers, NEW p \in Items, Store(w, p)
        PROVE  Fifo!Next
    BY <2>2, StoreIsPut DEF Fifo!Next
  <2>3. ASSUME WaitCanRead
        PROVE  UNCHANGED Fifo!fifoVars
    BY <2>3 DEF WaitCanRead, ring, Fifo!fifoVars, Content, Count, Slot, m_size
  <2>4. ASSUME Take
        PROVE  Fifo!Next
    BY <2>4, TakeIsGet DEF Fifo!Next
  <2>5. CASE UNCHANGED ringVars
    BY <2>5 DEF ringVars, Fifo!fifoVars, Content, Count, Slot, m_size
  <2>6. QED
    BY <2>1, <2>2, <2>3, <2>4, <2>5, NextCases DEF RingInv
<1>3. QED
  BY <1>1, <1>2, RingInvariance, PTL DEF FifoSpec, RefinesFifo, Fifo!Spec

-----------------------------------------------------------------------------
(***************************************************************************)
(* The bus implements the memory with write buffers of BusMemory.          *)
(***************************************************************************)
\* How far a place is from the thread that issues requests.
Stage(x) == CASE x[1] = "put" -> 0 [] x[1] = "mReq" -> 1 [] x[1] = "mHeld" -> 2
              [] x[1] = "sReq" -> 3 [] x[1] = "serve" -> 4

\* Position i of place x is nearer to the device than position j of place y.
Nearer(x, i, y, j) == Stage(x) > Stage(y) \/ (x = y /\ i < j)

\* Two writes whose order the bus keeps.
Ordered(m, n) == /\ m.src = n.src /\ SlaveOf(m.addr) = SlaveOf(n.addr)
                 /\ m.cmd = "write" /\ n.cmd = "write"

\* The writes of a CPU to a slave are on the path in program order.
InOrder(K) ==
    \A x, y \in RequestPlaces : \A i \in DOMAIN K[x], j \in DOMAIN K[y] :
       Ordered(K[x][i], K[y][j]) /\ Nearer(x, i, y, j) => K[x][i].val.n < K[y][j].val.n

\* A request at a master is its own, one at a slave is for it.
Belongs(x, m) == IF x[1] \in {"sReq", "serve"} THEN SlaveOf(m.addr) = x[2] ELSE m.src = x[2]
WhereItBelongs(K) == \A x \in RequestPlaces : \A i \in DOMAIN K[x] : Belongs(x, K[x][i])

\* A write of CPU c carries a value of that CPU, among those it has written.
NumberedBy(c, m) == m.cmd = "write" => m.val \in Values /\ m.val.cpu = c /\ m.val.n <= ops[c]
Numbered == /\ \A m \in Under(RequestPlaces) : NumberedBy(m.src, m)
            /\ \A c \in Cpus : cpu[c].at = "drain" => NumberedBy(c, cpu[c].op)

\* The pool remembers which requests are writes.
Kinds == \A m \in Under(RequestPlaces) : busy[m.src][m.tid].bWrite <=> (m.cmd = "write")

\* The invariant the refinement is by induction on, with NocInv.
PathInv == InOrder(Net) /\ WhereItBelongs(Net) /\ Numbered /\ Kinds
-----------------------------------------------------------------------------
(***************************************************************************)
(* What the places hold, as sets of messages.                              *)
(***************************************************************************)
\* The messages in the queues K at the places P.
Contents(K, P) == UNION {ToSet(K[x]) : x \in P}

\* Families of queues of messages E at the places Q.
Queues(Q, E) == [Q -> Seq(E)]

\* The places P are among Q.
Within(P, Q) == P \subseteq Q

\* A message is in a queue at some position.
LEMMA InContents ==
  ASSUME NEW K, NEW P, NEW m
  PROVE  m \in Contents(K, P) <=> \E x \in P : \E i \in DOMAIN K[x] : m = K[x][i]
BY DEF Contents, ToSet

\* The positions of a queue and of its tail.
LEMMA TailAt ==
  ASSUME NEW E, NEW q \in Seq(E), q # <<>>
  PROVE  /\ Head(q) = q[1] /\ 1 \in DOMAIN q /\ DOMAIN q \subseteq Nat
         /\ \A i \in DOMAIN q : i # 1 => i > 1
         /\ \A i \in DOMAIN Tail(q) : i \in Nat /\ i + 1 \in DOMAIN q /\ i + 1 # 1 /\ Tail(q)[i] = q[i + 1]
         /\ \A i \in DOMAIN q : i # 1 => i - 1 \in DOMAIN Tail(q) /\ Tail(q)[i - 1] = q[i]
<1>1. /\ Len(q) \in Nat \ {0} /\ DOMAIN q = 1 .. Len(q) /\ Head(q) = q[1]
      /\ DOMAIN Tail(q) = 1 .. Len(q) - 1
      /\ \A i \in 1 .. Len(q) - 1 : Tail(q)[i] = q[i + 1]
  OBVIOUS
<1>2. \A i \in DOMAIN q : i # 1 => i - 1 \in 1 .. Len(q) - 1 /\ (i - 1) + 1 = i BY <1>1
<1> QED BY <1>1, <1>2

\* The queue r is q with the message m behind, at position n.
Longer(q, m, r) ==
    \E n \in Nat :
       /\ \A i \in DOMAIN q : i \in Nat /\ i < n /\ i \in DOMAIN r /\ r[i] = q[i]
       /\ \A i \in DOMAIN r : i = n \/ (i \in DOMAIN q /\ r[i] = q[i])
       /\ n \in DOMAIN r /\ r[n] = m

\* So is a queue that was appended to.
LEMMA AppendAt ==
  ASSUME NEW E, NEW q \in Seq(E), NEW m
  PROVE  Longer(q, m, Append(q, m))
<1> DEFINE r == Append(q, m)
<1>1. /\ Len(q) \in Nat /\ DOMAIN q = 1 .. Len(q)
      /\ DOMAIN r = 1 .. Len(q) + 1
      /\ \A i \in 1 .. Len(q) : r[i] = q[i]
      /\ r[Len(q) + 1] = m
  OBVIOUS
<1> HIDE DEF r
<1>2. Len(q) + 1 \in Nat BY <1>1
<1>3. \A i \in DOMAIN q : i \in Nat /\ i < Len(q) + 1 /\ i \in DOMAIN r /\ r[i] = q[i] BY <1>1
<1>4. \A i \in DOMAIN r : i = Len(q) + 1 \/ (i \in DOMAIN q /\ r[i] = q[i]) BY <1>1
<1>5. Longer(q, m, r) BY <1>1, <1>2, <1>3, <1>4 DEF Longer
<1> QED BY <1>5 DEF r

\* The first message of queue x leaves.
LEMMA ContentsTakes ==
  ASSUME NEW Q, NEW E, NEW K \in Queues(Q, E), NEW L \in Queues(Q, E), NEW x \in Q,
         Takes(Q, K, L, x), Once(K), NEW P, Within(P, Q)
  PROVE  /\ x \in P => Head(K[x]) \in Contents(K, P)
         /\ \A e : e \in Contents(L, P) <=> e \in Contents(K, P) /\ ~(x \in P /\ e = Head(K[x]))
<1> USE DEF Takes, Within, Queues
<1>1. CASE x \notin P BY <1>1 DEF Contents
<1>2. CASE x \in P
  <2>1. /\ K[x] \in Seq(E) /\ K[x] # <<>> /\ L[x] = Tail(K[x]) OBVIOUS
  <2> DEFINE h == Head(K[x])
  <2>2. /\ h = K[x][1] /\ 1 \in DOMAIN K[x]
        /\ \A i \in DOMAIN L[x] : i + 1 \in DOMAIN K[x] /\ i + 1 # 1 /\ L[x][i] = K[x][i + 1]
        /\ \A i \in DOMAIN K[x] : i # 1 => i - 1 \in DOMAIN L[x] /\ L[x][i - 1] = K[x][i]
    BY <2>1, TailAt
  <2> HIDE DEF h
  <2>3. h \in Contents(K, P) BY <1>2, <2>2, InContents
  <2>4. ASSUME NEW y \in P, NEW i \in DOMAIN K[y], K[y][i] = h PROVE y = x /\ i = 1
    <3>1. DOMAIN K = Q /\ y \in Q OBVIOUS
    <3>2. SameTransaction(K[y][i], K[x][1]) BY <2>2, <2>4 DEF SameTransaction
    <3> QED BY ONLY <2>2, <3>1, <3>2, i \in DOMAIN K[y], x \in Q, Once(K) DEF Once
  <2>5. ASSUME NEW m \in Contents(L, P) PROVE m \in Contents(K, P) /\ m # h
    <3>1. PICK y \in P : \E i \in DOMAIN L[y] : m = L[y][i] BY InContents
    <3>2. PICK i \in DOMAIN L[y] : m = L[y][i] BY <3>1
    <3>3. PICK j \in DOMAIN K[y] : m = K[y][j] /\ ~(y = x /\ j = 1)
      <4>1. CASE y = x BY <2>2, <3>2, <4>1
      <4>2. CASE y # x BY <3>2, <4>2
      <4> QED BY <4>1, <4>2
    <3> QED BY <2>4, <3>3, InContents
  <2>6. ASSUME NEW m \in Contents(K, P), m # h PROVE m \in Contents(L, P)
    <3>1. PICK y \in P : \E i \in DOMAIN K[y] : m = K[y][i] BY InContents
    <3>2. PICK i \in DOMAIN K[y] : m = K[y][i] BY <3>1
    <3>3. \E j \in DOMAIN L[y] : m = L[y][j]
      <4>1. CASE y = x BY <2>2, <2>6, <3>2, <4>1
      <4>2. CASE y # x BY <3>2, <4>2
      <4> QED BY <4>1, <4>2
    <3> QED BY <3>3, InContents
  <2> QED BY <1>2, <2>3, <2>5, <2>6 DEF h
<1> QED BY <1>1, <1>2

\* The message m joins queue x.
LEMMA ContentsPuts ==
  ASSUME NEW Q, NEW E, NEW K \in Queues(Q, E), NEW L \in Queues(Q, E), NEW x \in Q, NEW m \in E,
         NEW P, Within(P, Q), Puts(Q, K, L, x, m)
  PROVE  \A e : e \in Contents(L, P) <=> e \in Contents(K, P) \/ (x \in P /\ e = m)
<1> USE DEF Puts, Within, Queues
<1>1. CASE x \notin P BY <1>1 DEF Contents
<1>2. CASE x \in P
  <2>1. K[x] \in Seq(E) /\ L[x] = Append(K[x], m) OBVIOUS
  <2>2. PICK n \in Nat :
         /\ \A i \in DOMAIN K[x] : i \in Nat /\ i < n /\ i \in DOMAIN L[x] /\ L[x][i] = K[x][i]
         /\ \A i \in DOMAIN L[x] : i = n \/ (i \in DOMAIN K[x] /\ L[x][i] = K[x][i])
         /\ n \in DOMAIN L[x] /\ L[x][n] = m
    <3>1. Longer(K[x], m, Append(K[x], m)) BY <2>1, AppendAt
    <3> QED BY ONLY <2>1, <3>1 DEF Longer
  <2>3. ASSUME NEW e \in Contents(L, P) PROVE e \in Contents(K, P) \cup {m}
    <3>1. PICK y \in P : \E i \in DOMAIN L[y] : e = L[y][i] BY InContents
    <3>2. PICK i \in DOMAIN L[y] : e = L[y][i] BY <3>1
    <3>3. e = m \/ \E j \in DOMAIN K[y] : e = K[y][j]
      <4>1. CASE y = x BY <2>2, <3>2, <4>1
      <4>2. CASE y # x BY <3>2, <4>2
      <4> QED BY <4>1, <4>2
    <3> QED BY <3>3, InContents
  <2>4. ASSUME NEW e \in Contents(K, P) PROVE e \in Contents(L, P)
    <3>1. PICK y \in P : \E i \in DOMAIN K[y] : e = K[y][i] BY InContents
    <3>2. PICK i \in DOMAIN K[y] : e = K[y][i] BY <3>1
    <3>3. \E j \in DOMAIN L[y] : e = L[y][j]
      <4>1. CASE y = x BY <2>2, <3>2, <4>1
      <4>2. CASE y # x BY <3>2, <4>2
      <4> QED BY <4>1, <4>2
    <3> QED BY <3>3, InContents
  <2>5. m \in Contents(L, P) BY <1>2, <2>2, InContents
  <2> QED BY <1>2, <2>3, <2>4, <2>5
<1> QED BY <1>1, <1>2

\* The first message of queue x leaves and m, of the same transaction, joins queue y.
LEMMA ContentsTransfers ==
  ASSUME NEW Q, NEW E, NEW K \in Queues(Q, E), NEW L \in Queues(Q, E), NEW x \in Q, NEW y \in Q,
         NEW m \in E, Transfers(Q, K, L, x, y, m), Once(K), NEW P, Within(P, Q)
  PROVE  /\ x \in P => Head(K[x]) \in Contents(K, P)
         /\ \A e : e \in Contents(L, P) <=> \/ e \in Contents(K, P) /\ ~(x \in P /\ e = Head(K[x]))
                                            \/ y \in P /\ e = m
<1> USE DEF Transfers
<1> DEFINE M == [K EXCEPT ![x] = Tail(K[x])]
<1>1. K[x] \in Seq(E) /\ Tail(K[x]) \in Seq(E) BY DEF Queues
<1>2. M \in Queues(Q, E) /\ M[x] = Tail(K[x]) /\ \A z \in Q : z # x => M[z] = K[z] BY <1>1 DEF Queues
<1> HIDE DEF M
<1>3. Takes(Q, K, M, x) BY <1>2 DEF Takes
<1>4. L[y] = Append(M[y], m) /\ \A z \in Q : z # y => L[z] = M[z] BY <1>2 DEF Queues
<1>5. Puts(Q, M, L, y, m) BY <1>4 DEF Puts
<1>6. /\ x \in P => Head(K[x]) \in Contents(K, P)
      /\ \A e : e \in Contents(M, P) <=> e \in Contents(K, P) /\ ~(x \in P /\ e = Head(K[x]))
  <2>1. K \in Queues(Q, E) /\ M \in Queues(Q, E) /\ x \in Q /\ Within(P, Q) /\ Once(K) BY <1>2
  <2> QED BY ONLY <2>1, <1>3, ContentsTakes
<1>7. \A e : e \in Contents(L, P) <=> e \in Contents(M, P) \/ (y \in P /\ e = m)
  <2>1. L \in Queues(Q, E) /\ M \in Queues(Q, E) /\ y \in Q /\ m \in E /\ Within(P, Q) BY <1>2
  <2>2. ASSUME NEW e PROVE e \in Contents(L, P) <=> e \in Contents(M, P) \/ (y \in P /\ e = m)
    BY ONLY <2>1, <1>5, ContentsPuts
  <2> QED BY ONLY <2>2
<1> QED BY ONLY <1>6, <1>7
-----------------------------------------------------------------------------
(***************************************************************************)
(* The order of the writes.                                                *)
(***************************************************************************)
\* The stages are those of a place that holds requests.
LEMMA StageOf ==
  ASSUME NEW x \in RequestPlaces
  PROVE  /\ Stage(x) \in 0 .. 4 /\ x \in Places
         /\ x[1] = "put" <=> Stage(x) = 0
         /\ x[1] = "mReq" <=> Stage(x) = 1
         /\ x[1] = "mHeld" <=> Stage(x) = 2
         /\ x[1] = "sReq" <=> Stage(x) = 3
         /\ x[1] = "serve" <=> Stage(x) = 4
         /\ x = <<x[1], x[2]>>
BY DEF RequestPlaces, Places, Stage

\* Two requests of one CPU to one slave in queues of one stage are in one queue.
LEMMA SameStage ==
  ASSUME NEW x \in RequestPlaces, NEW y \in RequestPlaces, NEW m, NEW n,
         Belongs(x, m), Belongs(y, n), Ordered(m, n), Stage(x) = Stage(y)
  PROVE  x = y
<1>1. x[1] = y[1] /\ x = <<x[1], x[2]>> /\ y = <<y[1], y[2]>> BY StageOf
<1>2. x[2] = y[2] BY <1>1 DEF Belongs, Ordered
<1> QED BY <1>1, <1>2

\* A request that moves one stage nearer to the device overtakes none it must not.
LEMMA OrderMoves ==
  ASSUME NEW K \in Queues(Places, Messages), NEW L \in Queues(Places, Messages),
         NEW x \in RequestPlaces, NEW y \in RequestPlaces, NEW m \in Messages, m = Head(K[x]),
         Transfers(Places, K, L, x, y, m), Belongs(y, m), Stage(y) = Stage(x) + 1,
         WhereItBelongs(K), InOrder(K)
  PROVE  WhereItBelongs(L) /\ InOrder(L)
<1>1. /\ x \in Places /\ y \in Places /\ K[x] \in Seq(Messages) /\ K[y] \in Seq(Messages)
      /\ x # y /\ K[x] # <<>> /\ L[x] = Tail(K[x]) /\ L[y] = Append(K[y], m)
      /\ \A z \in RequestPlaces : z # x /\ z # y => L[z] = K[z]
  BY StageOf DEF Transfers, Queues
<1>2. /\ m = K[x][1] /\ 1 \in DOMAIN K[x]
      /\ \A i \in DOMAIN L[x] : i \in Nat /\ i + 1 \in DOMAIN K[x] /\ i + 1 # 1 /\ L[x][i] = K[x][i + 1]
      /\ \A i \in DOMAIN K[x] : i \in Nat /\ (i # 1 => i > 1)
  BY <1>1, TailAt
<1>3. PICK k \in Nat :
         /\ \A i \in DOMAIN K[y] : i \in Nat /\ i < k /\ i \in DOMAIN L[y] /\ L[y][i] = K[y][i]
         /\ \A i \in DOMAIN L[y] : i = k \/ (i \in DOMAIN K[y] /\ L[y][i] = K[y][i])
         /\ k \in DOMAIN L[y] /\ L[y][k] = m
  <2>1. K[y] \in Seq(Messages) /\ L[y] = Append(K[y], m) BY <1>1
  <2>2. Longer(K[y], m, Append(K[y], m)) BY <2>1, AppendAt
  <2> QED BY ONLY <2>1, <2>2 DEF Longer
<1> DEFINE Moved(z, i) == z = y /\ i = k
           From(z, i) == IF z = x THEN i + 1 ELSE i
<1>4. ASSUME NEW z \in RequestPlaces, NEW i \in DOMAIN L[z], ~Moved(z, i)
      PROVE  /\ From(z, i) \in DOMAIN K[z] /\ L[z][i] = K[z][From(z, i)]
             /\ z = x => From(z, i) > 1 /\ i \in Nat
             /\ z = y => i \in Nat /\ i < k
  BY <1>1, <1>2, <1>3, <1>4
<1>5. WhereItBelongs(L)
  <2> SUFFICES ASSUME NEW z \in RequestPlaces, NEW i \in DOMAIN L[z] PROVE Belongs(z, L[z][i])
    BY DEF WhereItBelongs
  <2>1. CASE Moved(z, i) BY <1>3, <2>1
  <2>2. CASE ~Moved(z, i) BY <1>4, <2>2 DEF WhereItBelongs
  <2> QED BY <2>1, <2>2
<1>6. InOrder(L)
  <2> SUFFICES ASSUME NEW u \in RequestPlaces, NEW w \in RequestPlaces,
                      NEW i \in DOMAIN L[u], NEW j \in DOMAIN L[w],
                      Ordered(L[u][i], L[w][j]), Nearer(u, i, w, j)
               PROVE  L[u][i].val.n < L[w][j].val.n
    BY DEF InOrder
  <2>0. /\ Stage(u) \in 0 .. 4 /\ Stage(w) \in 0 .. 4 /\ Stage(x) \in 0 .. 4 /\ Stage(y) \in 0 .. 4
    BY StageOf
  <2>1. Belongs(u, L[u][i]) /\ Belongs(w, L[w][j]) BY <1>5 DEF WhereItBelongs
  <2>2. CASE Moved(u, i) /\ Moved(w, j) BY <2>0, <2>2 DEF Nearer
  <2>3. CASE Moved(u, i) /\ ~Moved(w, j)
    <3>1. Stage(y) > Stage(w) BY <1>4, <2>3 DEF Nearer
    <3>2. L[u][i] = K[x][1] /\ Belongs(x, K[x][1]) BY <1>2, <1>3, <2>3 DEF WhereItBelongs
    <3>3. Nearer(x, 1, w, From(w, j))
      <4>1. CASE Stage(w) = Stage(x)
        <5>1. x = w BY <2>1, <3>2, <4>1, SameStage
        <5> QED BY <1>4, <2>3, <5>1 DEF Nearer
      <4>2. CASE Stage(w) # Stage(x) BY <2>0, <3>1, <4>2 DEF Nearer
      <4> QED BY <4>1, <4>2
    <3> QED BY <1>2, <1>4, <2>3, <3>2, <3>3 DEF InOrder
  <2>4. CASE ~Moved(u, i) /\ Moved(w, j)
    <3>1. L[w][j] = K[x][1] BY <1>2, <1>3, <2>4
    <3>2. Nearer(u, From(u, i), x, 1)
      <4>1. CASE u = w BY <1>4, <2>0, <2>4, <4>1 DEF Nearer
      <4>2. CASE u # w BY <2>0, <2>4, <4>2 DEF Nearer
      <4> QED BY <4>1, <4>2
    <3> QED BY <1>2, <1>4, <2>4, <3>1, <3>2 DEF InOrder
  <2>5. CASE ~Moved(u, i) /\ ~Moved(w, j)
    <3>1. Nearer(u, From(u, i), w, From(w, j))
      <4>1. CASE u = w /\ u = x BY <1>4, <2>5, <4>1 DEF Nearer
      <4>2. CASE ~(u = w /\ u = x) BY <4>2 DEF Nearer
      <4> QED BY <4>1, <4>2
    <3> QED BY <1>4, <2>5, <3>1 DEF InOrder
  <2> QED BY <2>2, <2>3, <2>4, <2>5
<1> QED BY <1>5, <1>6

\* Of the places that hold requests, the first message leaves place x, if that is one of them.
Leaving(K, L, x) ==
    \A z \in RequestPlaces : IF z = x THEN K[z] # <<>> /\ L[z] = Tail(K[z]) ELSE L[z] = K[z]

\* The others keep their order.
LEMMA OrderLeaves ==
  ASSUME NEW K \in Queues(Places, Messages), NEW L \in Queues(Places, Messages), NEW x \in Places,
         Leaving(K, L, x), WhereItBelongs(K), InOrder(K)
  PROVE  WhereItBelongs(L) /\ InOrder(L)
<1> DEFINE From(z, i) == IF z = x THEN i + 1 ELSE i
<1>1. ASSUME NEW z \in RequestPlaces, NEW i \in DOMAIN L[z]
      PROVE  From(z, i) \in DOMAIN K[z] /\ L[z][i] = K[z][From(z, i)] /\ (z = x => i \in Nat)
  <2>1. K[z] \in Seq(Messages) BY StageOf DEF Queues
  <2>2. CASE z = x
    <3>1. K[z] # <<>> /\ L[z] = Tail(K[z]) BY <2>2 DEF Leaving
    <3> QED BY <2>1, <2>2, <3>1, TailAt
  <2>3. CASE z # x BY <2>3 DEF Leaving
  <2> QED BY <2>2, <2>3
<1>2. WhereItBelongs(L) BY <1>1 DEF WhereItBelongs
<1>3. InOrder(L)
  <2> SUFFICES ASSUME NEW u \in RequestPlaces, NEW w \in RequestPlaces,
                      NEW i \in DOMAIN L[u], NEW j \in DOMAIN L[w],
                      Ordered(L[u][i], L[w][j]), Nearer(u, i, w, j)
               PROVE  L[u][i].val.n < L[w][j].val.n
    BY DEF InOrder
  <2>1. Nearer(u, From(u, i), w, From(w, j))
    <3>1. CASE u = w /\ u = x BY <1>1, <3>1 DEF Nearer
    <3>2. CASE ~(u = w /\ u = x) BY <3>2 DEF Nearer
    <3> QED BY <3>1, <3>2
  <2> QED BY <1>1, <2>1 DEF InOrder
<1> QED BY <1>2, <1>3

\* A request later than those of its CPU to its slave may join, behind them.
LEMMA OrderJoins ==
  ASSUME NEW K \in Queues(Places, Messages), NEW L \in Queues(Places, Messages),
         NEW x \in RequestPlaces, NEW m \in Messages, Puts(Places, K, L, x, m), Belongs(x, m),
         \A z \in RequestPlaces : \A i \in DOMAIN K[z] :
            /\ Ordered(m, K[z][i]) => Stage(x) <= Stage(z)
            /\ Ordered(K[z][i], m) => K[z][i].val.n < m.val.n,
         WhereItBelongs(K), InOrder(K)
  PROVE  WhereItBelongs(L) /\ InOrder(L)
<1>1. /\ x \in Places /\ K[x] \in Seq(Messages) /\ L[x] = Append(K[x], m)
      /\ \A z \in RequestPlaces : z # x => L[z] = K[z]
  BY StageOf DEF Puts, Queues
<1>2. PICK k \in Nat :
         /\ \A i \in DOMAIN K[x] : i \in Nat /\ i < k /\ i \in DOMAIN L[x] /\ L[x][i] = K[x][i]
         /\ \A i \in DOMAIN L[x] : i = k \/ (i \in DOMAIN K[x] /\ L[x][i] = K[x][i])
         /\ k \in DOMAIN L[x] /\ L[x][k] = m
  <2>1. K[x] \in Seq(Messages) /\ L[x] = Append(K[x], m) BY <1>1
  <2>2. Longer(K[x], m, Append(K[x], m)) BY <2>1, AppendAt
  <2> QED BY ONLY <2>1, <2>2 DEF Longer
<1> DEFINE New(z, i) == z = x /\ i = k
<1>3. ASSUME NEW z \in RequestPlaces, NEW i \in DOMAIN L[z], ~New(z, i)
      PROVE  i \in DOMAIN K[z] /\ L[z][i] = K[z][i] /\ (z = x => i \in Nat /\ i < k)
  BY <1>1, <1>2, <1>3
<1>4. WhereItBelongs(L)
  <2> SUFFICES ASSUME NEW z \in RequestPlaces, NEW i \in DOMAIN L[z] PROVE Belongs(z, L[z][i])
    BY DEF WhereItBelongs
  <2>1. CASE New(z, i) BY <1>2, <2>1
  <2>2. CASE ~New(z, i) BY <1>3, <2>2 DEF WhereItBelongs
  <2> QED BY <2>1, <2>2
<1>5. InOrder(L)
  <2> SUFFICES ASSUME NEW u \in RequestPlaces, NEW w \in RequestPlaces,
                      NEW i \in DOMAIN L[u], NEW j \in DOMAIN L[w],
                      Ordered(L[u][i], L[w][j]), Nearer(u, i, w, j)
               PROVE  L[u][i].val.n < L[w][j].val.n
    BY DEF InOrder
  <2>0. Stage(u) \in 0 .. 4 /\ Stage(w) \in 0 .. 4 /\ Stage(x) \in 0 .. 4 BY StageOf
  <2>1. CASE New(u, i) /\ New(w, j) BY <2>0, <2>1 DEF Nearer
  <2>2. CASE New(u, i) /\ ~New(w, j)
    <3>1. Ordered(m, K[w][j]) /\ j \in DOMAIN K[w] BY <1>2, <1>3, <2>2
    <3>2. Stage(x) <= Stage(w) BY <3>1
    <3>3. x = w /\ k < j BY <2>0, <2>2, <3>2 DEF Nearer
    <3> QED BY <1>3, <2>2, <3>3
  <2>3. CASE ~New(u, i) /\ New(w, j) BY <1>2, <1>3, <2>3
  <2>4. CASE ~New(u, i) /\ ~New(w, j) BY <1>3, <2>4 DEF InOrder
  <2> QED BY <2>1, <2>2, <2>3, <2>4
<1> QED BY <1>4, <1>5
-----------------------------------------------------------------------------
(***************************************************************************)
(* Requests and responses under way.                                       *)
(***************************************************************************)
\* A place holds requests or responses.
LEMMA PlaceKinds ==
  /\ RequestPlaces \subseteq Places /\ ResponsePlaces \subseteq Places
  /\ \A x \in Places : x \in RequestPlaces \/ x \in ResponsePlaces
  /\ \A x \in RequestPlaces : x \notin ResponsePlaces
  /\ \A c \in Cpus : /\ <<"put", c>> \in RequestPlaces /\ <<"mReq", c>> \in RequestPlaces
                     /\ <<"mHeld", c>> \in RequestPlaces /\ <<"mRsp", c>> \in ResponsePlaces
  /\ \A s \in Slaves : /\ <<"sReq", s>> \in RequestPlaces /\ <<"serve", s>> \in RequestPlaces
                       /\ <<"respond", s>> \in ResponsePlaces
                       /\ <<"sRsp", s>> \in ResponsePlaces /\ <<"sHeld", s>> \in ResponsePlaces
BY DEF Places, RequestPlaces, ResponsePlaces

\* The messages at places, before and after a step.
LEMMA UnderIs ==
  ASSUME NEW P, P \subseteq Places
  PROVE  Under(P) = Contents(Net, P) /\ Under(P)' = Contents(Net', P)
<1>1. \A x \in P : Net[x] = Holds(x) /\ Net'[x] = Holds(x)' BY NetAt
<1> QED BY <1>1 DEF Under, Contents

\* A message at a place is at a position of its queue.
LEMMA InUnder ==
  ASSUME NEW P, NEW m \in Under(P)
  PROVE  \E x \in P : \E i \in DOMAIN Holds(x) : m = Holds(x)[i]
BY DEF Under, ToSet

\* What a place for requests holds are requests.
LEMMA UnderTypes ==
  ASSUME TypeOK
  PROVE  Under(RequestPlaces) \subseteq Requests /\ Under(ResponsePlaces) \subseteq Responses
<1>1. ASSUME NEW x \in RequestPlaces PROVE Holds(x) \in Seq(Requests)
  <2>1. \A c \in Cpus : ThreadHolds(c) \in Seq(Requests) BY ThreadType DEF ThreadHolds, TypeOK
  <2>2. \A s \in Slaves : DeviceServes(s) \in Seq(Requests) BY DeviceType DEF DeviceServes, TypeOK
  <2>3. \/ \E c \in Cpus : x \in {<<"put", c>>, <<"mReq", c>>, <<"mHeld", c>>}
        \/ \E s \in Slaves : x \in {<<"sReq", s>>, <<"serve", s>>}
    BY DEF RequestPlaces
  <2>4. CASE \E c \in Cpus : x \in {<<"put", c>>, <<"mReq", c>>, <<"mHeld", c>>}
    BY <2>1, <2>4 DEF TypeOK, Holds
  <2>5. CASE \E s \in Slaves : x \in {<<"sReq", s>>, <<"serve", s>>}
    BY <2>2, <2>5 DEF TypeOK, Holds
  <2> QED BY <2>3, <2>4, <2>5
<1>2. ASSUME NEW x \in ResponsePlaces PROVE Holds(x) \in Seq(Responses)
  <2>1. \A s \in Slaves : DeviceResponds(s) \in Seq(Responses)
    BY DeviceType DEF DeviceResponds, TypeOK
  <2>2. \/ \E c \in Cpus : x = <<"mRsp", c>>
        \/ \E s \in Slaves : x \in {<<"respond", s>>, <<"sRsp", s>>, <<"sHeld", s>>}
    BY DEF RequestPlaces, ResponsePlaces, Places
  <2>3. CASE \E c \in Cpus : x = <<"mRsp", c>> BY <2>3 DEF TypeOK, Holds
  <2>4. CASE \E s \in Slaves : x \in {<<"respond", s>>, <<"sRsp", s>>, <<"sHeld", s>>}
    BY <2>1, <2>4 DEF TypeOK, Holds
  <2> QED BY <2>2, <2>3, <2>4
<1>3. ASSUME NEW m \in Under(RequestPlaces) PROVE m \in Requests
  <2>1. PICK x \in RequestPlaces : \E i \in DOMAIN Holds(x) : m = Holds(x)[i] BY InUnder
  <2> QED BY <1>1, <2>1
<1>4. ASSUME NEW m \in Under(ResponsePlaces) PROVE m \in Responses
  <2>1. PICK x \in ResponsePlaces : \E i \in DOMAIN Holds(x) : m = Holds(x)[i] BY InUnder
  <2> QED BY <1>2, <2>1
<1> QED BY <1>3, <1>4

\* A message under way is of a transaction in use.
LEMMA UnderInUse ==
  ASSUME NocInv, NEW m \in Under(Places)
  PROVE  /\ m.src \in Cpus /\ m.tid \in Tids /\ m.tid \in DOMAIN busy[m.src]
         /\ ~busy[m.src][m.tid].bDone
<1>1. PICK x \in Places : \E i \in DOMAIN Holds(x) : m = Holds(x)[i] BY InUnder
<1>2. PICK i \in DOMAIN Holds(x) : m = Holds(x)[i] BY <1>1
<1>3. x \in RequestPlaces \/ x \in ResponsePlaces BY PlaceKinds
<1>4. m \in Under(RequestPlaces) \/ m \in Under(ResponsePlaces) BY <1>2, <1>3 DEF Under, ToSet
<1>5. m \in Requests \/ m \in Responses BY <1>4, UnderTypes DEF NocInv
<1>6. m.src \in Cpus /\ m.tid \in Tids BY <1>5 DEF Requests, Responses
<1> QED BY <1>2, <1>6, HeldIsInUse DEF NocInv

\* Two messages of one transaction are the same one.
LEMMA UnderOnce ==
  ASSUME NocInv, NEW P, NEW Q, P \subseteq Places, Q \subseteq Places,
         NEW m \in Under(P), NEW n \in Under(Q), SameTransaction(m, n)
  PROVE  m = n /\ \E x \in P : x \in Q
<1>1. PICK x \in P : \E i \in DOMAIN Holds(x) : m = Holds(x)[i] BY InUnder
<1>2. PICK i \in DOMAIN Holds(x) : m = Holds(x)[i] BY <1>1
<1>3. PICK y \in Q : \E j \in DOMAIN Holds(y) : n = Holds(y)[j] BY InUnder
<1>4. PICK j \in DOMAIN Holds(y) : n = Holds(y)[j] BY <1>3
<1>5. x \in Places /\ y \in Places OBVIOUS
<1>6. x = y /\ i = j BY <1>2, <1>4, <1>5, HeldOnce DEF NocInv
<1> QED BY <1>2, <1>4, <1>6

\* A transaction in use and not done has a message under way.
LEMMA UnderAll ==
  ASSUME NocInv, NEW c \in Cpus, NEW t \in DOMAIN busy[c], ~busy[c][t].bDone
  PROVE  \E m : Carries(m, c, t) /\ (m \in Under(RequestPlaces) \/ m \in Under(ResponsePlaces))
<1>1. t \in Tids BY DEF NocInv, Pool
<1>2. On(Net, c, t) BY <1>1 DEF NocInv, CarriedInUse
<1>3. DOMAIN Net = Places BY DEF Net
<1>4. PICK x \in Places : \E i \in DOMAIN Net[x] : Carries(Net[x][i], c, t) BY <1>2, <1>3 DEF On
<1>5. PICK i \in DOMAIN Net[x] : Carries(Net[x][i], c, t) BY <1>4
<1>6. Net[x] = Holds(x) BY DEF Net
<1>7. x \in RequestPlaces \/ x \in ResponsePlaces BY PlaceKinds
<1> QED BY <1>5, <1>6, <1>7 DEF Under, ToSet

\* The path as queues of messages, in a state.
NetQueues == Net \in Queues(Places, Messages)

\* It is one in every state the invariant holds in.
LEMMA NetIsQueues == NocInv => NetQueues
BY NetType DEF NocInv, NetOfSequences, NetQueues, Queues

\* What a message that moves does to the messages at two kinds of places.
LEMMA UnderMoved ==
  ASSUME NocInv, NocInv', NEW x \in Places, NEW y \in Places, NEW m \in Messages,
         Transfers(Places, Net, Net', x, y, m), NEW P, P \subseteq Places
  PROVE  /\ x \in P => Head(Net[x]) \in Under(P)
         /\ \A e : e \in Under(P)' <=> \/ e \in Under(P) /\ ~(x \in P /\ e = Head(Net[x]))
                                       \/ y \in P /\ e = m
<1>1. NetQueues /\ NetQueues' BY NetIsQueues, PTL
<1>2. Net \in Queues(Places, Messages) /\ Net' \in Queues(Places, Messages) BY <1>1 DEF NetQueues
<1>3. Within(P, Places) /\ Once(Net) BY DEF Within, NocInv, CarriedOnce
<1>4. /\ x \in P => Head(Net[x]) \in Contents(Net, P)
      /\ \A e : e \in Contents(Net', P) <=> \/ e \in Contents(Net, P) /\ ~(x \in P /\ e = Head(Net[x]))
                                            \/ y \in P /\ e = m
  BY ONLY Transfers(Places, Net, Net', x, y, m), x \in Places, y \in Places, m \in Messages,
          <1>2, <1>3, ContentsTransfers
<1> QED BY ONLY <1>4, UnderIs, P \subseteq Places

\* What a message that is taken does.
LEMMA UnderTaken ==
  ASSUME NocInv, NocInv', NEW x \in Places, Takes(Places, Net, Net', x), NEW P, P \subseteq Places
  PROVE  /\ x \in P => Head(Net[x]) \in Under(P)
         /\ \A e : e \in Under(P)' <=> e \in Under(P) /\ ~(x \in P /\ e = Head(Net[x]))
<1>1. NetQueues /\ NetQueues' BY NetIsQueues, PTL
<1>2. Net \in Queues(Places, Messages) /\ Net' \in Queues(Places, Messages) BY <1>1 DEF NetQueues
<1>3. Within(P, Places) /\ Once(Net) BY DEF Within, NocInv, CarriedOnce
<1>4. /\ x \in P => Head(Net[x]) \in Contents(Net, P)
      /\ \A e : e \in Contents(Net', P) <=> e \in Contents(Net, P) /\ ~(x \in P /\ e = Head(Net[x]))
  BY ONLY Takes(Places, Net, Net', x), x \in Places, <1>2, <1>3, ContentsTakes
<1> QED BY ONLY <1>4, UnderIs, P \subseteq Places

\* What a message that joins does.
LEMMA UnderPut ==
  ASSUME NocInv, NocInv', NEW x \in Places, NEW m \in Messages, Puts(Places, Net, Net', x, m),
         NEW P, P \subseteq Places
  PROVE  \A e : e \in Under(P)' <=> e \in Under(P) \/ (x \in P /\ e = m)
<1>1. NetQueues /\ NetQueues' BY NetIsQueues, PTL
<1>2. Net \in Queues(Places, Messages) /\ Net' \in Queues(Places, Messages) BY <1>1 DEF NetQueues
<1>3. Within(P, Places) BY DEF Within
<1>4. \A e : e \in Contents(Net', P) <=> e \in Contents(Net, P) \/ (x \in P /\ e = m)
  BY ONLY Puts(Places, Net, Net', x, m), x \in Places, m \in Messages, <1>2, <1>3, ContentsPuts
<1> QED BY ONLY <1>4, UnderIs, P \subseteq Places
-----------------------------------------------------------------------------
(***************************************************************************)
(* What the steps are to the memory.                                       *)
(***************************************************************************)
\* A thread has at most one read, and none while it runs.
LEMMA ReadsAwaited ==
  ASSUME NocInv, NEW c \in Cpus
  PROVE  /\ \A t, u \in Reads(c) : t = u
         /\ cpu[c].at \in {"run", "drain"} => Reads(c) = {}
BY DEF NocInv, Awaited, AwaitedBy, Posted, Expects, Reads

\* The request of a read is alone, and not answered.
LEMMA ReadRequest ==
  ASSUME NocInv, Kinds, NEW c \in Cpus, NEW m \in RequestsOf(c, "read")
  PROVE  /\ m.tid \in Reads(c) /\ RequestsOf(c, "read") = {m}
         /\ Answers(c, m.tid) = {}
<1>1. m \in Under(RequestPlaces) /\ m.src = c /\ m.cmd = "read" BY DEF RequestsOf
<1>2. Under(RequestPlaces) \subseteq Under(Places) BY PlaceKinds DEF Under
<1>3. m.tid \in DOMAIN busy[c] BY <1>1, <1>2, UnderInUse
<1>4. m.tid \in Reads(c) BY <1>1, <1>3 DEF Kinds, Reads
<1>5. ASSUME NEW n \in RequestsOf(c, "read") PROVE n = m
  <2>1. n \in Under(RequestPlaces) /\ n.src = c /\ n.cmd = "read" BY DEF RequestsOf
  <2>2. n.tid \in DOMAIN busy[c] BY <1>2, <2>1, UnderInUse
  <2>3. n.tid \in Reads(c) BY <2>1, <2>2 DEF Kinds, Reads
  <2>4. SameTransaction(n, m) BY <1>1, <1>4, <2>1, <2>3, ReadsAwaited DEF SameTransaction
  <2> QED BY <1>1, <2>1, <2>4, PlaceKinds, UnderOnce
<1>6. ASSUME NEW n \in Answers(c, m.tid) PROVE FALSE
  <2>1. n \in Under(ResponsePlaces) /\ SameTransaction(m, n)
    BY <1>1 DEF Answers, Carries, SameTransaction
  <2>2. \E x \in RequestPlaces : x \in ResponsePlaces BY <1>1, <2>1, PlaceKinds, UnderOnce
  <2> QED BY <2>2, PlaceKinds
<1> QED BY <1>4, <1>5, <1>6

\* A step that leaves the requests, the responses and the pool of a CPU alone
\* leaves its writes and its read alone.
LEMMA OneSame ==
  ASSUME NEW c \in Cpus, busy'[c] = busy[c],
         \A e : e.src = c => /\ e \in Under(RequestPlaces)' <=> e \in Under(RequestPlaces)
                             /\ e \in Under(ResponsePlaces)' <=> e \in Under(ResponsePlaces)
  PROVE  RequestsOf(c, "write")' = RequestsOf(c, "write") /\ ReadingOf(c)' = ReadingOf(c)
<1>1. RequestsOf(c, "write")' = RequestsOf(c, "write") BY DEF RequestsOf
<1>2. RequestsOf(c, "read")' = RequestsOf(c, "read") BY DEF RequestsOf
<1>3. Reads(c)' = Reads(c) BY DEF Reads
<1>4. \A t : Answers(c, t)' = Answers(c, t) BY DEF Answers, Carries
<1>5. ASSUME NEW t PROVE AnswerTo(c, t)' = AnswerTo(c, t)
  <2>1. Answers(c, t)' = Answers(c, t) BY <1>4
  <2> QED BY <2>1 DEF AnswerTo
<1> QED BY <1>1, <1>2, <1>3, <1>5 DEF ReadingOf

\* If it does so for every CPU and leaves the devices alone, it is no step of the memory.
LEMMA BusStutters ==
  ASSUME mem' = mem,
         \A c \in Cpus : RequestsOf(c, "write")' = RequestsOf(c, "write") /\ ReadingOf(c)' = ReadingOf(c)
  PROVE  UNCHANGED Memory!busVars
<1>1. PostedWrites' = PostedWrites BY DEF PostedWrites
<1> QED BY <1>1 DEF Memory!busVars

\* So does a step that leaves all messages and the pool alone.
LEMMA AllSame ==
  ASSUME UNCHANGED <<busy, mem>>,
         \A e : /\ e \in Under(RequestPlaces)' <=> e \in Under(RequestPlaces)
                /\ e \in Under(ResponsePlaces)' <=> e \in Under(ResponsePlaces)
  PROVE  UNCHANGED Memory!busVars
<1>1. \A c \in Cpus : busy'[c] = busy[c] OBVIOUS
<1>2. \A c \in Cpus : RequestsOf(c, "write")' = RequestsOf(c, "write") /\ ReadingOf(c)' = ReadingOf(c)
  BY <1>1, OneSame
<1> QED BY <1>2, BusStutters

\* Draining threads keep the access they hold.
DrainsKept == \A c \in Cpus : cpu'[c].at = "drain" => cpu'[c] = cpu[c]

\* The pool remembers of each request under way what it did.
KindsKept == \A m \in Under(RequestPlaces) : busy'[m.src][m.tid].bWrite <=> busy[m.src][m.tid].bWrite

\* The values of the requests stay numbered when none is issued.
LEMMA NumbersKept ==
  ASSUME Numbered, Kinds, \A e : e \in Under(RequestPlaces)' => e \in Under(RequestPlaces),
         ops' = ops, DrainsKept, KindsKept
  PROVE  Numbered' /\ Kinds'
<1>1. Numbered' BY DEF Numbered, NumberedBy, DrainsKept
<1>2. Kinds' BY DEF Kinds, KindsKept
<1> QED BY <1>1, <1>2

\* A step that moves a request nearer to its device.
LEMMA RequestMoves ==
  ASSUME NocInv, NocInv', PathInv, NEW x \in RequestPlaces, NEW y \in RequestPlaces,
         NEW m \in Messages, m = Head(Net[x]), Transfers(Places, Net, Net', x, y, m),
         Belongs(y, m), Stage(y) = Stage(x) + 1, UNCHANGED <<ops, busy, mem>>, DrainsKept
  PROVE  PathInv' /\ UNCHANGED Memory!busVars
<1>1. NetQueues /\ NetQueues' BY NetIsQueues, PTL
<1>2. Net \in Queues(Places, Messages) /\ Net' \in Queues(Places, Messages) BY <1>1 DEF NetQueues
<1>3. WhereItBelongs(Net') /\ InOrder(Net') BY <1>2, OrderMoves DEF PathInv
<1>4. x \in Places /\ y \in Places /\ x \notin ResponsePlaces /\ y \notin ResponsePlaces BY PlaceKinds
<1>5. /\ Head(Net[x]) \in Under(RequestPlaces)
      /\ \A e : e \in Under(RequestPlaces)' <=> \/ e \in Under(RequestPlaces) /\ e # m
                                                \/ e = m
  BY <1>4, PlaceKinds, UnderMoved
<1>6. \A e : e \in Under(RequestPlaces)' <=> e \in Under(RequestPlaces) BY ONLY <1>5, m = Head(Net[x])
<1>7. \A e : e \in Under(ResponsePlaces)' <=> e \in Under(ResponsePlaces)
  BY <1>4, PlaceKinds, UnderMoved
<1>8. Numbered' /\ Kinds' BY <1>6, NumbersKept DEF PathInv, KindsKept
<1>9. UNCHANGED Memory!busVars BY <1>6, <1>7, AllSame
<1> QED BY <1>3, <1>8, <1>9 DEF PathInv

\* A step that moves a response.
LEMMA ResponseMoves ==
  ASSUME NocInv, NocInv', PathInv, NEW x \in ResponsePlaces, NEW y \in ResponsePlaces,
         NEW m \in Messages, m = Head(Net[x]), Transfers(Places, Net, Net', x, y, m),
         UNCHANGED <<ops, busy, mem>>, DrainsKept
  PROVE  PathInv' /\ UNCHANGED Memory!busVars
<1>1. NetQueues /\ NetQueues' BY NetIsQueues, PTL
<1>2. Net \in Queues(Places, Messages) /\ Net' \in Queues(Places, Messages) BY <1>1 DEF NetQueues
<1>3. x \in Places /\ y \in Places /\ x \notin RequestPlaces /\ y \notin RequestPlaces
  BY PlaceKinds
<1>4. Leaving(Net, Net', x) BY <1>3, PlaceKinds DEF Transfers, Leaving
<1>5. WhereItBelongs(Net') /\ InOrder(Net') BY <1>2, <1>3, <1>4, OrderLeaves DEF PathInv
<1>6. \A e : e \in Under(RequestPlaces)' <=> e \in Under(RequestPlaces)
  BY <1>3, PlaceKinds, UnderMoved
<1>7. /\ Head(Net[x]) \in Under(ResponsePlaces)
      /\ \A e : e \in Under(ResponsePlaces)' <=> \/ e \in Under(ResponsePlaces) /\ e # m
                                                 \/ e = m
  BY <1>3, PlaceKinds, UnderMoved
<1>8. \A e : e \in Under(ResponsePlaces)' <=> e \in Under(ResponsePlaces)
  BY ONLY <1>7, m = Head(Net[x])
<1>9. Numbered' /\ Kinds' BY <1>6, NumbersKept DEF PathInv, KindsKept
<1>10. UNCHANGED Memory!busVars BY <1>6, <1>8, AllSame
<1> QED BY <1>5, <1>9, <1>10 DEF PathInv

\* The steps of a request to its device.
LEMMA RequestStepsRefine ==
  ASSUME NocInv, NocInv', PathInv
  PROVE  /\ \A c \in Cpus : TakeRequest(c) \/ FinishPut(c) \/ DispatchRequest(c)
                            => PathInv' /\ UNCHANGED Memory!busVars
         /\ \A s \in Slaves : GetRequest(s) => PathInv' /\ UNCHANGED Memory!busVars
<1>1. ASSUME NEW c \in Cpus, TakeRequest(c) PROVE PathInv' /\ UNCHANGED Memory!busVars
  <2>1. /\ mReq[c] # <<>> /\ mReq[c] \in Seq(Requests) /\ UNCHANGED <<cpu, ops, busy, mem>>
    BY <1>1 DEF TakeRequest, cpuVars, devVars, NocInv, TypeOK
  <2>2. PICK m \in Messages : m = Head(mReq[c]) BY <2>1 DEF Messages
  <2>3. Transfers(Places, Net, Net', <<"mReq", c>>, <<"mHeld", c>>, m)
    BY <1>1, <2>2, NetTakeRequest DEF NocInv
  <2>4. Net[<<"mReq", c>>] = mReq[c] BY MastersInPlace, NetAt, HoldsIs
  <2>5. m.src = c
    <3>1. m = mReq[c][1] /\ 1 \in DOMAIN mReq[c] BY <2>1, <2>2
    <3> QED BY <3>1 DEF NocInv, Home
  <2>6. Belongs(<<"mHeld", c>>, m) BY <2>5 DEF Belongs
  <2>7. Stage(<<"mHeld", c>>) = Stage(<<"mReq", c>>) + 1 BY DEF Stage
  <2>8. DrainsKept BY <2>1 DEF DrainsKept
  <2> QED BY <2>1, <2>2, <2>3, <2>4, <2>6, <2>7, <2>8, PlaceKinds, RequestMoves
<1>2. ASSUME NEW c \in Cpus, FinishPut(c) PROVE PathInv' /\ UNCHANGED Memory!busVars
  <2>1. /\ cpu[c].at = "put" /\ UNCHANGED <<ops, busy, mem>>
        /\ cpu' = [cpu EXCEPT ![c] = AfterPut(cpu[c].req)] /\ cpu \in [Cpus -> Threads]
    BY <1>2 DEF FinishPut, devVars, NocInv, TypeOK
  <2>2. PICK m \in Messages : m = cpu[c].req BY <2>1, ThreadType DEF Messages
  <2>3. Transfers(Places, Net, Net', <<"put", c>>, <<"mReq", c>>, m)
    BY <1>2, <2>2, NetFinishPut DEF NocInv
  <2>4. m = Head(Net[<<"put", c>>])
    <3>1. ThreadHolds(c) = <<m>> BY <2>1, <2>2 DEF ThreadHolds
    <3>2. Net[<<"put", c>>] = <<m>> BY <3>1, MastersInPlace, NetAt, HoldsIs
    <3> QED BY <3>2, OneMessage
  <2>5. Belongs(<<"mReq", c>>, m) BY <2>1, <2>2 DEF Belongs, NocInv, Home
  <2>6. Stage(<<"mReq", c>>) = Stage(<<"put", c>>) + 1 BY DEF Stage
  <2>7. DrainsKept BY <2>1 DEF DrainsKept, AfterPut, Running, Waiting
  <2> QED BY <2>1, <2>2, <2>3, <2>4, <2>5, <2>6, <2>7, PlaceKinds, RequestMoves
<1>3. ASSUME NEW c \in Cpus, DispatchRequest(c) PROVE PathInv' /\ UNCHANGED Memory!busVars
  <2>1. /\ mHeld[c] # <<>> /\ mHeld[c] \in Seq(Requests) /\ UNCHANGED <<cpu, ops, busy, mem>>
    BY <1>3 DEF DispatchRequest, cpuVars, devVars, NocInv, TypeOK
  <2>2. PICK m \in Requests : m = Head(mHeld[c]) BY <2>1
  <2>3. PICK s \in Slaves : s = SlaveOf(m.addr) BY <2>2, TransportAssumption DEF Requests
  <2>4. Transfers(Places, Net, Net', <<"mHeld", c>>, <<"sReq", s>>, m)
    BY <1>3, <2>2, <2>3, NetDispatchRequest DEF NocInv
  <2>5. Net[<<"mHeld", c>>] = mHeld[c] BY MastersInPlace, NetAt, HoldsIs
  <2>6. Belongs(<<"sReq", s>>, m) BY <2>3 DEF Belongs
  <2>7. Stage(<<"sReq", s>>) = Stage(<<"mHeld", c>>) + 1 BY DEF Stage
  <2>8. DrainsKept BY <2>1 DEF DrainsKept
  <2>9. m \in Messages BY <2>2 DEF Messages
  <2> QED BY <2>1, <2>2, <2>4, <2>5, <2>6, <2>7, <2>8, <2>9, PlaceKinds, RequestMoves
<1>4. ASSUME NEW s \in Slaves, GetRequest(s) PROVE PathInv' /\ UNCHANGED Memory!busVars
  <2>1. /\ sReq[s] # <<>> /\ sReq[s] \in Seq(Requests) /\ UNCHANGED <<cpu, ops, busy, mem>>
    BY <1>4 DEF GetRequest, cpuVars, NocInv, TypeOK
  <2>2. PICK m \in Messages : m = Head(sReq[s]) BY <2>1 DEF Messages
  <2>3. Transfers(Places, Net, Net', <<"sReq", s>>, <<"serve", s>>, m)
    BY <1>4, <2>2, NetGetRequest DEF NocInv
  <2>4. Net[<<"sReq", s>>] = sReq[s] BY SlavesInPlace, NetAt, HoldsIs
  <2>5. Belongs(<<"serve", s>>, m)
    <3>1. m = sReq[s][1] /\ 1 \in DOMAIN sReq[s] BY <2>1, <2>2
    <3>2. Belongs(<<"sReq", s>>, m) BY <2>4, <3>1, PlaceKinds DEF PathInv, WhereItBelongs
    <3> QED BY <3>2 DEF Belongs
  <2>6. Stage(<<"serve", s>>) = Stage(<<"sReq", s>>) + 1 BY DEF Stage
  <2>7. DrainsKept BY <2>1 DEF DrainsKept
  <2> QED BY <2>1, <2>2, <2>3, <2>4, <2>5, <2>6, <2>7, PlaceKinds, RequestMoves
<1> QED BY <1>1, <1>2, <1>3, <1>4

\* The steps of a response on its way to its master.
LEMMA ResponseStepsRefine ==
  ASSUME NocInv, NocInv', PathInv, NEW s \in Slaves,
         Respond(s) \/ TakeResponse(s) \/ DispatchResponse(s)
  PROVE  PathInv' /\ UNCHANGED Memory!busVars
<1>1. UNCHANGED <<cpu, ops, busy, mem>> BY DEF Respond, TakeResponse, DispatchResponse, cpuVars, devVars
<1>2. DrainsKept BY <1>1 DEF DrainsKept
<1>3. CASE Respond(s)
  <2>1. dev[s].at = "respond" /\ dev \in [Slaves -> Devices] BY <1>3 DEF Respond, NocInv, TypeOK
  <2>2. PICK m \in Messages : m = dev[s].rsp BY <2>1, DeviceType DEF Messages
  <2>3. Transfers(Places, Net, Net', <<"respond", s>>, <<"sRsp", s>>, m)
    BY <1>3, <2>2, NetRespond DEF NocInv
  <2>4. m = Head(Net[<<"respond", s>>])
    <3>1. DeviceResponds(s) = <<m>> BY <2>1, <2>2 DEF DeviceResponds
    <3>2. Net[<<"respond", s>>] = <<m>> BY <3>1, SlavesInPlace, NetAt, HoldsIs
    <3> QED BY <3>2, OneMessage
  <2> QED BY <1>1, <1>2, <2>2, <2>3, <2>4, PlaceKinds, ResponseMoves
<1>4. CASE TakeResponse(s)
  <2>1. sRsp[s] # <<>> /\ sRsp[s] \in Seq(Responses) BY <1>4 DEF TakeResponse, NocInv, TypeOK
  <2>2. PICK m \in Messages : m = Head(sRsp[s]) BY <2>1 DEF Messages
  <2>3. Transfers(Places, Net, Net', <<"sRsp", s>>, <<"sHeld", s>>, m)
    BY <1>4, <2>2, NetTakeResponse DEF NocInv
  <2>4. m = Head(Net[<<"sRsp", s>>]) BY <2>2, SlavesInPlace, NetAt, HoldsIs
  <2> QED BY <1>1, <1>2, <2>2, <2>3, <2>4, PlaceKinds, ResponseMoves
<1>5. CASE DispatchResponse(s)
  <2>1. sHeld[s] # <<>> /\ sHeld[s] \in Seq(Responses) BY <1>5 DEF DispatchResponse, NocInv, TypeOK
  <2>2. PICK m \in Responses : m = Head(sHeld[s]) BY <2>1
  <2>3. PICK c \in Cpus : c = m.src BY <2>2 DEF Responses
  <2>4. Transfers(Places, Net, Net', <<"sHeld", s>>, <<"mRsp", c>>, m)
    BY <1>5, <2>2, <2>3, NetDispatchResponse DEF NocInv
  <2>5. m = Head(Net[<<"sHeld", s>>]) BY <2>2, SlavesInPlace, NetAt, HoldsIs
  <2>6. m \in Messages BY <2>2 DEF Messages
  <2> QED BY <1>1, <1>2, <2>4, <2>5, <2>6, PlaceKinds, ResponseMoves
<1> QED BY <1>3, <1>4, <1>5

\* A read that stays where it is.
LEMMA ReadSame ==
  ASSUME NEW c \in Cpus, Reads(c)' = Reads(c), RequestsOf(c, "read")' = RequestsOf(c, "read"),
         \A t \in Reads(c) : AnswerTo(c, t)' = AnswerTo(c, t)
  PROVE  ReadingOf(c)' = ReadingOf(c)
<1>1. CASE Reads(c) = {} BY <1>1 DEF ReadingOf
<1>2. CASE Reads(c) # {}
  <2>1. PICK t : t = CHOOSE u \in Reads(c) : TRUE OBVIOUS
  <2>2. t \in Reads(c) BY <1>2, <2>1
  <2>3. AnswerTo(c, t)' = AnswerTo(c, t) BY <2>2
  <2>4. (CHOOSE u \in Reads(c)' : TRUE) = t BY <2>1
  <2> QED BY <1>2, <2>1, <2>3, <2>4 DEF ReadingOf
<1> QED BY <1>1, <1>2

\* A step that concerns one CPU leaves the writes and the read of the others.
LEMMA OthersSame ==
  ASSUME NEW c \in Cpus, NEW m, m.src = c, NEW n, n.src = c,
         \A d \in Cpus : d # c => busy'[d] = busy[d],
         \A e : e \in Under(RequestPlaces)' /\ e # m <=> e \in Under(RequestPlaces) /\ e # m,
         \A e : e \in Under(ResponsePlaces)' /\ e # n <=> e \in Under(ResponsePlaces) /\ e # n
  PROVE  \A d \in Cpus : d # c => /\ RequestsOf(d, "write")' = RequestsOf(d, "write")
                                  /\ ReadingOf(d)' = ReadingOf(d)
<1> SUFFICES ASSUME NEW d \in Cpus, d # c
             PROVE  RequestsOf(d, "write")' = RequestsOf(d, "write") /\ ReadingOf(d)' = ReadingOf(d)
  OBVIOUS
<1>1. \A e : e.src = d => /\ e \in Under(RequestPlaces)' <=> e \in Under(RequestPlaces)
                          /\ e \in Under(ResponsePlaces)' <=> e \in Under(ResponsePlaces)
  <2> SUFFICES ASSUME NEW e, e.src = d
               PROVE  /\ e \in Under(RequestPlaces)' <=> e \in Under(RequestPlaces)
                      /\ e \in Under(ResponsePlaces)' <=> e \in Under(ResponsePlaces)
    OBVIOUS
  <2>1. e # m /\ e # n OBVIOUS
  <2> QED BY <2>1
<1>2. busy'[d] = busy[d] OBVIOUS
<1> QED BY ONLY <1>1, <1>2, d \in Cpus, OneSame

\* The write of a request.
WriteOf(r) == [addr |-> r.addr, val |-> r.val]

\* A request being served is the oldest of its CPU to its slave.
LEMMA ServedIsOldest ==
  ASSUME NocInv, PathInv, NEW s \in Slaves, NEW r \in Requests, Net[<<"serve", s>>] = <<r>>,
         r.cmd = "write", NEW q \in RequestsOf(r.src, "write"), q # r,
         SlaveOf(q.addr) = SlaveOf(r.addr)
  PROVE  r.val.n < q.val.n /\ r.val # q.val
<1>1. q \in Under(RequestPlaces) /\ q.src = r.src /\ q.cmd = "write" BY DEF RequestsOf
<1>2. PICK z \in RequestPlaces : \E j \in DOMAIN Holds(z) : q = Holds(z)[j] BY <1>1, InUnder
<1>3. PICK j \in DOMAIN Holds(z) : q = Holds(z)[j] BY <1>2
<1>4. z \in Places /\ Net[z] = Holds(z) BY <1>2, PlaceKinds, NetAt
<1> DEFINE x == <<"serve", s>>
<1>5. x \in RequestPlaces /\ Stage(x) = 4 /\ Stage(z) \in 0 .. 4 BY StageOf, PlaceKinds DEF Stage
<1>6. 1 \in DOMAIN Net[x] /\ Net[x][1] = r /\ \A i \in DOMAIN Net[x] : i = 1 OBVIOUS
<1> HIDE DEF x
<1>7. Ordered(r, q) /\ Ordered(Net[x][1], Net[z][j]) BY <1>1, <1>3, <1>4, <1>6 DEF Ordered
<1>8. Belongs(x, r) /\ Belongs(z, q) BY <1>3, <1>4, <1>5, <1>6 DEF PathInv, WhereItBelongs
<1>9. Stage(z) # 4
  <2>1. CASE Stage(z) = 4
    <3>1. x = z BY <1>5, <1>7, <1>8, <2>1, SameStage
    <3> QED BY <1>3, <1>4, <1>6, <3>1
  <2> QED BY <2>1
<1>10. Nearer(x, 1, z, j) BY <1>5, <1>9 DEF Nearer
<1>11. r.val.n < q.val.n BY <1>3, <1>4, <1>5, <1>6, <1>7, <1>10 DEF PathInv, InOrder
<1>12. q.val \in Values BY <1>1 DEF PathInv, Numbered, NumberedBy
<1>13. q.val.n \in Nat BY <1>12 DEF Values
<1> QED BY <1>11, <1>13

\* The device performs a write or answers a read.
LEMMA ServeRefines ==
  ASSUME NocInv, NocInv', PathInv, NEW s \in Slaves, Serve(s)
  PROVE  PathInv' /\ Memory!Next(Values)
<1> DEFINE x == <<"serve", s>>
<1>0. PICK r \in Requests : dev[s].at = "serve" /\ r = dev[s].req BY DeviceType DEF Serve, NocInv, TypeOK
<1>1. /\ dev[s].at = "serve" /\ UNCHANGED <<cpu, ops, busy>>
      /\ mem' = IF r.cmd = "write" THEN [mem EXCEPT ![r.addr] = r.val] ELSE mem
  BY <1>0 DEF Serve, cpuVars
<1>2. PICK a \in Messages : a = Answer(r) BY AnswerType DEF NocInv, Messages
<1>6. PICK y \in {<<"sRsp", s>>, <<"respond", s>>} : Transfers(Places, Net, Net', x, y, a)
  BY <1>0, <1>2, NetServeSent, NetServeBlocked DEF NocInv
<1>3. x \in RequestPlaces /\ y \in ResponsePlaces /\ x \in Places /\ y \in Places
      /\ x \notin ResponsePlaces /\ y \notin RequestPlaces
  BY PlaceKinds
<1>4. Net[x] = <<r>>
  <2>1. DeviceServes(s) = <<r>> BY <1>0 DEF DeviceServes
  <2> QED BY <2>1, SlavesInPlace, NetAt, HoldsIs
<1>5. Head(Net[x]) = r BY <1>4, OneMessage
<1>7. a.src = r.src /\ a.tid = r.tid /\ (r.cmd = "read" => a.val = mem[r.addr])
  BY <1>2 DEF Answer, Response
<1>8. r \in Under(RequestPlaces) /\ r.cmd \in {"read", "write"} /\ r.addr \in Addrs
  <2>1. r \in Under(RequestPlaces) BY <1>6, <1>3, <1>5, PlaceKinds, UnderMoved
  <2> QED BY <2>1 DEF Requests
<1>17. PICK c \in Cpus : c = r.src BY DEF Requests
<1> HIDE DEF x
<1>9. \A e : e \in Under(RequestPlaces)' <=> e \in Under(RequestPlaces) /\ e # r
  BY <1>3, <1>5, <1>6, PlaceKinds, UnderMoved
<1>10. \A e : e \in Under(ResponsePlaces)' <=> e \in Under(ResponsePlaces) \/ e = a
  BY <1>3, <1>6, PlaceKinds, UnderMoved
<1>11. PathInv'
  <2>1. NetQueues /\ NetQueues' BY NetIsQueues, PTL
  <2>2. Net \in Queues(Places, Messages) /\ Net' \in Queues(Places, Messages)
    BY <2>1 DEF NetQueues
  <2>3. Leaving(Net, Net', x) BY <1>6, <1>3, PlaceKinds DEF Transfers, Leaving
  <2>4. WhereItBelongs(Net') /\ InOrder(Net') BY <1>3, <2>2, <2>3, OrderLeaves DEF PathInv
  <2>5. Numbered' /\ Kinds' BY <1>1, <1>9, NumbersKept DEF PathInv, KindsKept, DrainsKept
  <2> QED BY <2>4, <2>5 DEF PathInv
<1>12. \A d \in Cpus : d # c => /\ RequestsOf(d, "write")' = RequestsOf(d, "write")
                                /\ ReadingOf(d)' = ReadingOf(d)
  <2>1. \A d \in Cpus : d # c => busy'[d] = busy[d] BY <1>1
  <2> QED BY <1>7, <1>8, <1>17, <1>9, <1>10, <2>1, OthersSame
<1>13. Reads(c)' = Reads(c) BY <1>1 DEF Reads
<1>14. r.tid \in DOMAIN busy[c] /\ ~busy[c][r.tid].bDone
  <2>1. r \in Under(Places) BY <1>8, PlaceKinds DEF Under
  <2> QED BY <1>17, <2>1, UnderInUse
<1>15. CASE r.cmd = "write"
  <2>0. PICK w : w = WriteOf(r) OBVIOUS
  <2>1. r \in RequestsOf(c, "write") BY <1>8, <1>17, <1>15 DEF RequestsOf
  <2>2. w \in PostedWrites[c] BY <2>0, <1>8, <1>17, <2>1 DEF PostedWrites, WriteOf
  <2>3. w.addr = r.addr /\ w.val = r.val BY <2>0 DEF WriteOf
  <2>4. ASSUME NEW q \in RequestsOf(c, "write"), q # r
        PROVE  WriteOf(q) # w /\ (SlaveOf(q.addr) = SlaveOf(r.addr) => w.val.n < q.val.n)
    <3>1. CASE SlaveOf(q.addr) = SlaveOf(r.addr)
      <4>1. r.val.n < q.val.n /\ r.val # q.val
        BY <1>1, <1>4, <1>15, <1>17, <2>4, <3>1, ServedIsOldest DEF x
      <4> QED BY <2>3, <4>1 DEF WriteOf
    <3>2. CASE SlaveOf(q.addr) # SlaveOf(r.addr) BY <2>3, <3>2 DEF WriteOf
    <3> QED BY <3>1, <3>2
  <2>5. \A u \in PostedWrites[c] : \E q \in RequestsOf(c, "write") : u = WriteOf(q)
    BY <1>8, <1>17 DEF PostedWrites, WriteOf
  <2>6. \A u \in PostedWrites[c] \ {w} : SlaveOf(u.addr) = SlaveOf(w.addr) => w.val.n < u.val.n
    <3> SUFFICES ASSUME NEW u \in PostedWrites[c], u # w, SlaveOf(u.addr) = SlaveOf(w.addr)
                 PROVE  w.val.n < u.val.n
      OBVIOUS
    <3>1. PICK q \in RequestsOf(c, "write") : u = WriteOf(q) BY <2>5
    <3>2. q # r /\ u.addr = q.addr /\ u.val = q.val BY <2>0, <3>1 DEF WriteOf
    <3> QED BY <2>0, <2>3, <2>4, <3>1, <3>2
  <2>7. RequestsOf(c, "write")' = RequestsOf(c, "write") \ {r} BY <1>8, <1>9, <1>17 DEF RequestsOf
  <2>8. PostedWrites' = [PostedWrites EXCEPT ![c] = @ \ {w}]
    <3>1. PostedWrites'[c] = PostedWrites[c] \ {w}
      <4>1. PostedWrites'[c] = {WriteOf(q) : q \in RequestsOf(c, "write") \ {r}}
        BY <1>8, <1>17, <2>7 DEF PostedWrites, WriteOf
      <4>2. PostedWrites[c] = {WriteOf(q) : q \in RequestsOf(c, "write")}
        BY <1>8, <1>17 DEF PostedWrites, WriteOf
      <4>3. w = WriteOf(r) BY <2>0
      <4> QED BY <2>4, <4>1, <4>2, <4>3
    <3>2. \A d \in Cpus : d # c => PostedWrites'[d] = PostedWrites[d] BY <1>12 DEF PostedWrites
    <3>3. PostedWrites' = [d \in Cpus |-> PostedWrites'[d]] BY DEF PostedWrites
    <3>4. PostedWrites = [d \in Cpus |-> PostedWrites[d]] BY DEF PostedWrites
    <3> QED BY <3>1, <3>2, <3>3, <3>4
  <2>9. ReadingOf(c)' = ReadingOf(c)
    <3>1. RequestsOf(c, "read")' = RequestsOf(c, "read") BY <1>9, <1>15, <1>17 DEF RequestsOf
    <3>2. r.tid \notin Reads(c) BY <1>8, <1>17, <1>14, <1>15 DEF PathInv, Kinds, Reads
    <3>3. ASSUME NEW t \in Reads(c) PROVE AnswerTo(c, t)' = AnswerTo(c, t)
      <4>1. t # r.tid BY <3>2
      <4>2. Answers(c, t)' = Answers(c, t) BY <1>7, <1>17, <1>10, <4>1 DEF Answers, Carries
      <4> QED BY <1>1, <4>2 DEF AnswerTo
    <3> QED BY <1>8, <1>17, <1>13, <3>1, <3>3, ReadSame
  <2>10. [d \in Cpus |-> ReadingOf(d)]' = [d \in Cpus |-> ReadingOf(d)] BY <1>12, <2>9
  <2>11. mem' = [mem EXCEPT ![w.addr] = w.val] BY <1>1, <1>15, <2>3
  <2>12. Memory!Perform(c, w) BY <2>2, <2>6, <2>8, <2>10, <2>11 DEF Memory!Perform
  <2> QED BY <1>8, <1>17, <1>11, <2>2, <2>12 DEF Memory!Next
<1>16. CASE r.cmd = "read"
  <2>1. r \in RequestsOf(c, "read") BY <1>8, <1>17, <1>16 DEF RequestsOf
  <2>2. r.tid \in Reads(c) /\ RequestsOf(c, "read") = {r} /\ Answers(c, r.tid) = {}
    BY <1>8, <1>17, <2>1, ReadRequest DEF PathInv
  <2>3. ReadingOf(c) = Memory!Asked(r.addr) BY <2>2 DEF ReadingOf, Memory!Asked
  <2>4. RequestsOf(c, "read")' = {} BY <1>9, <1>17, <2>2 DEF RequestsOf
  <2>5. Answers(c, r.tid)' = {a} BY <1>7, <1>17, <1>10, <2>2 DEF Answers, Carries
  <2>6. AnswerTo(c, r.tid)' = mem[r.addr] BY <1>1, <1>7, <1>14, <1>16, <2>5 DEF AnswerTo
  <2>7. \A t \in Reads(c) : t = r.tid BY <1>8, <1>17, <2>2, ReadsAwaited
  <2>8. Reads(c)' = {r.tid} BY <1>13, <2>2, <2>7
  <2>9. ReadingOf(c)' = Memory!Answered(mem[r.addr])
    BY <2>4, <2>6, <2>8 DEF ReadingOf, Memory!Answered
  <2>10. RequestsOf(c, "write")' = RequestsOf(c, "write") BY <1>9, <1>16, <1>17 DEF RequestsOf
  <2>11. PostedWrites' = PostedWrites BY <1>12, <2>10 DEF PostedWrites
  <2>12. [d \in Cpus |-> ReadingOf(d)]' =
           [[d \in Cpus |-> ReadingOf(d)] EXCEPT ![c] = Memory!Answered(mem[r.addr])]
    BY <1>12, <2>9
  <2>13. mem' = mem BY <1>1, <1>16
  <2>14. (Memory!Asked(r.addr)).phase = "asked" /\ (Memory!Asked(r.addr)).addr = r.addr
    BY DEF Memory!Asked
  <2>15. Memory!AnswerRead(c) BY <1>8, <1>17, <2>3, <2>11, <2>12, <2>13, <2>14 DEF Memory!AnswerRead
  <2> QED BY <1>8, <1>17, <1>11, <2>15 DEF Memory!Next
<1> QED BY <1>8, <1>17, <1>15, <1>16

\* A master that receives a response: the answer of a read moves to the pool.
LEMMA ReceiveRefines ==
  ASSUME NocInv, NocInv', PathInv, NEW c \in Cpus, ReceiveResponse(c)
  PROVE  PathInv' /\ UNCHANGED Memory!busVars
<1> DEFINE x == <<"mRsp", c>>
<1>1. /\ mRsp[c] # <<>> /\ mRsp[c] \in Seq(Responses) /\ UNCHANGED <<cpu, ops, mem>>
      /\ DOMAIN busy = Cpus /\ busy[c] \in [DOMAIN busy[c] -> PoolEntries]
  BY DEF ReceiveResponse, devVars, NocInv, TypeOK
<1>2. PICK m \in Responses : m = Head(mRsp[c]) BY <1>1
<1>3. Takes(Places, Net, Net', x) BY NetReceiveResponse DEF NocInv
<1>4. x \in Places /\ x \in ResponsePlaces /\ x \notin RequestPlaces BY PlaceKinds
<1>5. Head(Net[x]) = m BY <1>2, MastersInPlace, NetAt, HoldsIs
<1>6. m.src = c
  <2>1. m = mRsp[c][1] /\ 1 \in DOMAIN mRsp[c] BY <1>1, <1>2
  <2> QED BY <2>1 DEF NocInv, Home
<1> HIDE DEF x
<1>7. /\ m \in Under(ResponsePlaces)
      /\ \A e : e \in Under(ResponsePlaces)' <=> e \in Under(ResponsePlaces) /\ e # m
  BY <1>3, <1>4, <1>5, PlaceKinds, UnderTaken
<1>8. \A e : e \in Under(RequestPlaces)' <=> e \in Under(RequestPlaces)
  BY <1>3, <1>4, PlaceKinds, UnderTaken
<1>9. m.tid \in DOMAIN busy[c] /\ ~busy[c][m.tid].bDone
  <2>1. m \in Under(Places) BY <1>7, PlaceKinds DEF Under
  <2> QED BY <1>6, <2>1, UnderInUse
<1>10. ASSUME NEW q \in Under(RequestPlaces) PROVE ~SameTransaction(q, m)
  <2>1. CASE SameTransaction(q, m)
    <3>1. \E z \in RequestPlaces : z \in ResponsePlaces BY <1>7, <2>1, PlaceKinds, UnderOnce
    <3> QED BY <3>1, PlaceKinds
  <2> QED BY <2>1
<1>11. /\ \A d \in Cpus : d # c => busy'[d] = busy[d]
       /\ \A u \in DOMAIN busy[c] : u # m.tid => u \in DOMAIN busy'[c] /\ busy'[c][u] = busy[c][u]
       /\ DOMAIN busy'[c] \subseteq DOMAIN busy[c]
       /\ \/ m.tid \notin DOMAIN busy'[c] /\ busy[c][m.tid].bWrite
          \/ /\ m.tid \in DOMAIN busy'[c] /\ busy'[c][m.tid].bDone
             /\ busy'[c][m.tid].bWrite = busy[c][m.tid].bWrite /\ busy'[c][m.tid].rcv = m.val
  <2>1. CASE c \in Posting /\ busy[c][m.tid].bWrite
    <3>1. FreeRequest(c, m.tid) BY <1>2, <1>6, <1>9, <2>1 DEF ReceiveResponse
    <3> QED BY <1>9, <2>1, <3>1, Freed
  <2>2. CASE ~(c \in Posting /\ busy[c][m.tid].bWrite)
    <3>1. busy' = [busy EXCEPT ![c][m.tid].bDone = TRUE, ![c][m.tid].rcv = m.val]
      BY <1>2, <1>6, <1>9, <2>2 DEF ReceiveResponse
    <3>2. busy[c][m.tid] \in PoolEntries BY <1>1, <1>9
    <3> QED BY <1>1, <1>9, <3>1, <3>2 DEF PoolEntries
  <2> QED BY <2>1, <2>2
<1>12. PathInv'
  <2>1. NetQueues /\ NetQueues' BY NetIsQueues, PTL
  <2>2. Net \in Queues(Places, Messages) /\ Net' \in Queues(Places, Messages)
    BY <2>1 DEF NetQueues
  <2>3. Leaving(Net, Net', x) BY <1>3, <1>4, PlaceKinds DEF Takes, Leaving
  <2>4. WhereItBelongs(Net') /\ InOrder(Net') BY <1>4, <2>2, <2>3, OrderLeaves DEF PathInv
  <2>5. KindsKept
    <3> SUFFICES ASSUME NEW q \in Under(RequestPlaces)
                 PROVE  busy'[q.src][q.tid].bWrite <=> busy[q.src][q.tid].bWrite
      BY DEF KindsKept
    <3>1. q \in Under(Places) BY PlaceKinds DEF Under
    <3>2. q.src \in Cpus /\ q.tid \in DOMAIN busy[q.src] BY <3>1, UnderInUse
    <3>3. ~(q.src = c /\ q.tid = m.tid) BY <1>6, <1>10 DEF SameTransaction
    <3> QED BY <1>11, <3>2, <3>3
  <2>6. Numbered' /\ Kinds' BY <1>1, <1>8, <2>5, NumbersKept DEF PathInv, DrainsKept
  <2> QED BY <2>4, <2>6 DEF PathInv
<1>13. \A d \in Cpus : d # c => /\ RequestsOf(d, "write")' = RequestsOf(d, "write")
                                /\ ReadingOf(d)' = ReadingOf(d)
  BY <1>6, <1>7, <1>8, <1>11, OthersSame
<1>14. RequestsOf(c, "write")' = RequestsOf(c, "write") /\ RequestsOf(c, "read")' = RequestsOf(c, "read")
  BY <1>8 DEF RequestsOf
<1>15. Reads(c)' = Reads(c)
  <2>1. \A u : u \in DOMAIN busy'[c] /\ ~busy'[c][u].bWrite <=> u \in DOMAIN busy[c] /\ ~busy[c][u].bWrite
    BY <1>9, <1>11
  <2> QED BY <2>1 DEF Reads
<1>16. ASSUME NEW t \in Reads(c) PROVE AnswerTo(c, t)' = AnswerTo(c, t)
  <2>1. t \in DOMAIN busy[c] /\ ~busy[c][t].bWrite BY DEF Reads
  <2>2. CASE t # m.tid
    <3>1. Answers(c, t)' = Answers(c, t) BY <1>7, <2>2 DEF Answers, Carries
    <3> QED BY <1>11, <2>1, <2>2, <3>1 DEF AnswerTo
  <2>3. CASE t = m.tid
    <3>1. \A e \in Answers(c, t) : e = m
      <4> SUFFICES ASSUME NEW e \in Answers(c, t) PROVE e = m OBVIOUS
      <4>1. e \in Under(ResponsePlaces) /\ SameTransaction(e, m)
        BY <1>6, <2>3 DEF Answers, Carries, SameTransaction
      <4> QED BY <1>7, <4>1, PlaceKinds, UnderOnce
    <3>2. m \in Answers(c, t) BY <1>6, <1>7, <2>3 DEF Answers, Carries
    <3>3. Answers(c, t) = {m} BY <3>1, <3>2
    <3>4. AnswerTo(c, t) = m.val BY <1>9, <2>3, <3>3 DEF AnswerTo
    <3>5. AnswerTo(c, t)' = m.val BY <1>11, <2>1, <2>3 DEF AnswerTo
    <3> QED BY <3>4, <3>5
  <2> QED BY <2>2, <2>3
<1>17. ReadingOf(c)' = ReadingOf(c) BY <1>14, <1>15, <1>16, ReadSame
<1>18. \A d \in Cpus : /\ RequestsOf(d, "write")' = RequestsOf(d, "write")
                       /\ ReadingOf(d)' = ReadingOf(d)
  BY <1>13, <1>14, <1>17
<1>19. UNCHANGED Memory!busVars BY <1>1, <1>18, BusStutters
<1> QED BY <1>12, <1>19

\* A thread that returns from its access ends a read, or nothing the memory knows.
LEMMA CompleteRefines ==
  ASSUME NocInv, NocInv', PathInv, NEW c \in Cpus, Complete(c)
  PROVE  PathInv' /\ (Memory!Next(Values) \/ UNCHANGED Memory!busVars)
<1>1. PICK t : t = cpu[c].tid OBVIOUS
<1>2. /\ cpu[c].at = "wait" /\ busy[c][t].bDone /\ FreeRequest(c, t)
      /\ cpu' = [cpu EXCEPT ![c] = Running]
      /\ UNCHANGED <<ops, mReq, mHeld, mRsp, sReq, sRsp, sHeld, dev, mem>>
  BY <1>1 DEF Complete, nocVars, devVars
<1>3. cpu \in [Cpus -> Threads] BY DEF NocInv, TypeOK
<1>4. t \in DOMAIN busy[c] BY <1>1, <1>2 DEF NocInv, Awaited, AwaitedBy
<1>5. /\ DOMAIN busy'[c] = DOMAIN busy[c] \ {t}
      /\ \A u \in DOMAIN busy[c] \ {t} : busy'[c][u] = busy[c][u]
      /\ \A d \in Cpus : d # c => busy'[d] = busy[d]
  BY <1>2, <1>4, Freed
<1>6. cpu'[c].at = "run" /\ \A d \in Cpus : d # c => cpu'[d] = cpu[d] BY <1>2, <1>3 DEF Running
<1>7. Net' = Net
  <2>1. \A d \in Cpus : ThreadHolds(d)' = ThreadHolds(d) BY <1>2, <1>6 DEF ThreadHolds
  <2> QED BY <1>2, <2>1, NetSame DEF NocInv
<1>8. /\ Under(RequestPlaces)' = Under(RequestPlaces) /\ Under(ResponsePlaces)' = Under(ResponsePlaces)
  BY <1>7, PlaceKinds, UnderIs
<1>9. ASSUME NEW q \in Under(RequestPlaces) \cup Under(ResponsePlaces)
      PROVE  q.src \in Cpus /\ q.tid \in DOMAIN busy[q.src] /\ ~(q.src = c /\ q.tid = t)
  <2>1. q \in Under(Places) BY PlaceKinds DEF Under
  <2>2. q.src \in Cpus /\ q.tid \in DOMAIN busy[q.src] /\ ~busy[q.src][q.tid].bDone
    BY <2>1, UnderInUse
  <2> QED BY <1>2, <2>2
<1>10. PathInv'
  <2>1. KindsKept BY <1>5, <1>9 DEF KindsKept
  <2>2. DrainsKept BY <1>6 DEF DrainsKept
  <2>3. Numbered' /\ Kinds' BY <1>2, <1>8, <2>1, <2>2, NumbersKept DEF PathInv
  <2> QED BY <1>7, <2>3 DEF PathInv
<1>11. \A cmd, d : RequestsOf(d, cmd)' = RequestsOf(d, cmd) BY <1>8 DEF RequestsOf
<1>12. \A u, d : Answers(d, u)' = Answers(d, u) BY <1>8 DEF Answers
<1>13. \A d \in Cpus : d # c => ReadingOf(d)' = ReadingOf(d)
  <2> SUFFICES ASSUME NEW d \in Cpus, d # c PROVE ReadingOf(d)' = ReadingOf(d) OBVIOUS
  <2>1. busy'[d] = busy[d] BY <1>5
  <2>2. \A e : e.src = d => /\ e \in Under(RequestPlaces)' <=> e \in Under(RequestPlaces)
                            /\ e \in Under(ResponsePlaces)' <=> e \in Under(ResponsePlaces)
    BY <1>8
  <2> QED BY ONLY <2>1, <2>2, d \in Cpus, OneSame
<1>14. mem' = mem /\ PostedWrites' = PostedWrites BY <1>2, <1>11 DEF PostedWrites
<1>15. CASE t \in Reads(c)
  <2>1. \A u \in Reads(c) : u = t BY <1>15, ReadsAwaited
  <2>2. RequestsOf(c, "read") = {}
    <3> SUFFICES ASSUME NEW q \in RequestsOf(c, "read") PROVE FALSE OBVIOUS
    <3>1. q.tid \in Reads(c) BY ReadRequest DEF PathInv
    <3>2. q \in Under(RequestPlaces) /\ q.src = c BY DEF RequestsOf
    <3> QED BY <1>9, <2>1, <3>1, <3>2
  <2>3. ReadingOf(c).phase = "answered" BY <1>15, <2>2 DEF ReadingOf
  <2>4. Reads(c)' = {} BY <1>5, <2>1 DEF Reads
  <2>5. ReadingOf(c)' = Memory!NoRead BY <2>4 DEF ReadingOf, Memory!NoRead
  <2>6. [d \in Cpus |-> ReadingOf(d)]' = [[d \in Cpus |-> ReadingOf(d)] EXCEPT ![c] = Memory!NoRead]
    BY <1>13, <2>5
  <2>7. Memory!EndRead(c) BY <1>14, <2>3, <2>6 DEF Memory!EndRead
  <2> QED BY <1>10, <2>7 DEF Memory!Next
<1>16. CASE t \notin Reads(c)
  <2>1. Reads(c)' = Reads(c) BY <1>5, <1>16 DEF Reads
  <2>2. ASSUME NEW u \in Reads(c) PROVE AnswerTo(c, u)' = AnswerTo(c, u)
    <3>1. u \in DOMAIN busy[c] \ {t} BY <1>16 DEF Reads
    <3>2. busy'[c][u] = busy[c][u] BY <1>5, <3>1
    <3>3. Answers(c, u)' = Answers(c, u) BY <1>12
    <3> QED BY ONLY <3>2, <3>3 DEF AnswerTo
  <2>3. ReadingOf(c)' = ReadingOf(c) BY <1>11, <2>1, <2>2, ReadSame
  <2>4. \A d \in Cpus : /\ RequestsOf(d, "write")' = RequestsOf(d, "write")
                        /\ ReadingOf(d)' = ReadingOf(d)
    BY <1>11, <1>13, <2>3
  <2>5. UNCHANGED Memory!busVars BY <1>14, <2>4, BusStutters
  <2> QED BY <1>10, <2>5
<1> QED BY <1>15, <1>16

\* A new access: the memory is asked for a read, or given a write to post.
LEMMA IssueRefines ==
  ASSUME NocInv, NocInv', PathInv, NEW c \in Cpus, NEW o \in Accesses, Issue(c, o),
         cpu[c].at \in {"run", "drain"}, ~WaitEmpty(c, o) \/ DOMAIN busy[c] = {},
         \A d \in Cpus : ops[d] <= ops'[d],
         o.cmd = "write" => /\ o.val \in Values /\ o.val.cpu = c /\ o.val.n <= ops'[c]
                            /\ \A q \in RequestsOf(c, "write") : q.val.n < o.val.n
  PROVE  PathInv' /\ Memory!Next(Values)
<1>1. PICK t : t = Head(free[c]) OBVIOUS
<1>2. PICK r \in Requests : r = Request(c, t, o) BY <1>1, IssueTypes DEF NocInv
<1>3. /\ r.src = c /\ r.tid = t /\ r.cmd = o.cmd /\ r.addr = o.addr /\ r.val = o.val
      /\ o.cmd \in {"read", "write"} /\ o.addr \in Addrs /\ r \in Messages
  BY <1>2 DEF Request, Accesses, Messages
<1>4. t \notin DOMAIN busy[c] /\ DOMAIN busy = Cpus /\ cpu \in [Cpus -> Threads] /\ mem' = mem
  <2>1. free[c] # <<>> /\ free[c] \in Seq(Tids) /\ DOMAIN busy = Cpus
        /\ cpu \in [Cpus -> Threads] /\ mem' = mem
    BY DEF Issue, devVars, NocInv, TypeOK
  <2>2. t \in ToSet(free[c]) BY <1>1, <2>1 DEF ToSet
  <2> QED BY <2>1, <2>2 DEF NocInv, Pool
<1>5. /\ DOMAIN busy'[c] = DOMAIN busy[c] \cup {t}
      /\ busy'[c][t].bWrite <=> o.cmd = "write"
      /\ ~busy'[c][t].bDone
      /\ \A u \in DOMAIN busy[c] : busy'[c][u] = busy[c][u]
      /\ \A d \in Cpus : d # c => busy'[d] = busy[d]
  BY <1>1, <1>4 DEF Issue
<1>6. PICK x \in {<<"mReq", c>>, <<"put", c>>} : Puts(Places, Net, Net', x, r)
  BY <1>1, <1>2, NetIssueSent, NetIssueBlocked DEF NocInv
<1>7. /\ x \in Places /\ x \in RequestPlaces /\ x \notin ResponsePlaces
      /\ Stage(x) \in {0, 1} /\ Belongs(x, r)
  <2>1. CASE x = <<"mReq", c>>
    <3>1. x[1] = "mReq" /\ x[2] = c BY <2>1
    <3> QED BY <1>3, <2>1, <3>1, PlaceKinds DEF Stage, Belongs
  <2>2. CASE x = <<"put", c>>
    <3>1. x[1] = "put" /\ x[2] = c BY <2>2
    <3> QED BY <1>3, <2>2, <3>1, PlaceKinds DEF Stage, Belongs
  <2> QED BY <2>1, <2>2
<1>8. \A e : e \in Under(RequestPlaces)' <=> e \in Under(RequestPlaces) \/ e = r
  BY <1>3, <1>6, <1>7, PlaceKinds, UnderPut
<1>9. \A e : e \in Under(ResponsePlaces)' <=> e \in Under(ResponsePlaces)
  BY <1>3, <1>6, <1>7, PlaceKinds, UnderPut
<1>10. ASSUME NEW q \in Under(RequestPlaces)
       PROVE  /\ q.src \in Cpus /\ q.tid \in DOMAIN busy[q.src]
              /\ q.tid \in DOMAIN busy'[q.src] /\ busy'[q.src][q.tid] = busy[q.src][q.tid]
  <2>1. q \in Under(Places) BY PlaceKinds DEF Under
  <2>2. q.src \in Cpus /\ q.tid \in DOMAIN busy[q.src] BY <2>1, UnderInUse
  <2> QED BY <1>5, <2>2
<1>11. WhereItBelongs(Net') /\ InOrder(Net')
  <2>1. NetQueues /\ NetQueues' BY NetIsQueues, PTL
  <2>2. Net \in Queues(Places, Messages) /\ Net' \in Queues(Places, Messages)
    BY <2>1 DEF NetQueues
  <2>3. ASSUME NEW z \in RequestPlaces, NEW i \in DOMAIN Net[z]
        PROVE  /\ Ordered(r, Net[z][i]) => Stage(x) <= Stage(z)
               /\ Ordered(Net[z][i], r) => Net[z][i].val.n < r.val.n
    <3>1. Net[z] = Holds(z) /\ Stage(z) \in 0 .. 4 BY PlaceKinds, NetAt, StageOf
    <3>2. Net[z][i] \in Under(RequestPlaces) BY <3>1 DEF Under, ToSet
    <3>3. ASSUME Ordered(r, Net[z][i]) PROVE Stage(z) # 0
      <4>1. CASE Stage(z) = 0
        <5>1. z[1] = "put" /\ z = <<z[1], z[2]>> BY <4>1, StageOf
        <5>2. Net[z][i].src = c BY <1>3, <3>3 DEF Ordered
        <5>3. Belongs(z, Net[z][i]) BY DEF PathInv, WhereItBelongs
        <5>4. z = <<"put", c>> BY <5>1, <5>2, <5>3 DEF Belongs
        <5>5. Holds(<<"put", c>>) = ThreadHolds(c) BY HoldsIs
        <5>6. ThreadHolds(c) = <<>> BY DEF ThreadHolds
        <5> QED BY <3>1, <5>4, <5>5, <5>6
      <4> QED BY <4>1
    <3>4. Ordered(Net[z][i], r) => Net[z][i].val.n < r.val.n
      BY <1>3, <3>2 DEF Ordered, RequestsOf
    <3> QED BY <1>7, <3>1, <3>3, <3>4
  <2> QED BY <1>3, <1>6, <1>7, <2>2, <2>3, OrderJoins DEF PathInv
<1>12. Numbered'
  <2>1. ASSUME NEW d \in Cpus, NEW e, NumberedBy(d, e) PROVE NumberedBy(d, e)'
    <3>1. ops[d] \in Nat /\ ops'[d] \in Nat BY TransportAssumption DEF NocInv, TypeOK
    <3> QED BY <2>1, <3>1 DEF NumberedBy, Values
  <2>2. ASSUME NEW q \in Under(RequestPlaces)' PROVE NumberedBy(q.src, q)'
    <3>1. CASE q = r BY <1>3, <3>1 DEF NumberedBy
    <3>2. CASE q # r
      <4>1. q \in Under(RequestPlaces) BY <1>8, <3>2
      <4>2. q.src \in Cpus /\ NumberedBy(q.src, q) BY <1>10, <4>1 DEF PathInv, Numbered
      <4> QED BY <2>1, <4>2
    <3> QED BY <3>1, <3>2
  <2>3. ASSUME NEW d \in Cpus, cpu'[d].at = "drain" PROVE NumberedBy(d, cpu[d].op)'
    <3>1. cpu'[c].at # "drain"
      BY <1>1, <1>2, <1>4 DEF Issue, AfterPut, Putting, Running, Waiting
    <3>2. cpu'[d] = cpu[d] BY <1>4, <2>3, <3>1 DEF Issue
    <3>3. PICK p : p = cpu[d].op OBVIOUS
    <3>4. NumberedBy(d, p) BY <2>3, <3>2, <3>3 DEF PathInv, Numbered
    <3>5. NumberedBy(d, p)' BY <2>1, <3>4
    <3> QED BY <3>2, <3>3, <3>5 DEF NumberedBy
  <2> QED BY <2>2, <2>3 DEF Numbered
<1>13. Kinds'
  <2>1. ASSUME NEW q \in Under(RequestPlaces)'
        PROVE  busy'[q.src][q.tid].bWrite <=> (q.cmd = "write")
    <3>1. CASE q = r BY <1>3, <1>5, <3>1
    <3>2. CASE q # r
      <4>1. q \in Under(RequestPlaces) BY <1>8, <3>2
      <4> QED BY <1>10, <4>1 DEF PathInv, Kinds
    <3> QED BY <3>1, <3>2
  <2> QED BY <2>1 DEF Kinds
<1>14. PathInv' BY <1>11, <1>12, <1>13 DEF PathInv
<1>15. \A d \in Cpus : d # c => /\ RequestsOf(d, "write")' = RequestsOf(d, "write")
                                /\ ReadingOf(d)' = ReadingOf(d)
  BY <1>3, <1>5, <1>8, <1>9, OthersSame
<1>16. Reads(c) = {} /\ ReadingOf(c) = Memory!NoRead
  BY ReadsAwaited DEF ReadingOf, Memory!NoRead
<1>17. ASSUME o.cmd = "read" \/ o.addr \in IoAddrs
       PROVE  DOMAIN busy[c] = {} /\ PostedWrites[c] = {}
  <2>1. DOMAIN busy[c] = {}
    <3>1. CASE c \in Posting BY <1>17, <3>1 DEF WaitEmpty
    <3>2. CASE c \notin Posting BY <3>2 DEF NocInv, Awaited, AwaitedBy, Posted, Expects
    <3> QED BY <3>1, <3>2
  <2>2. RequestsOf(c, "write") = {} BY <1>10, <2>1 DEF RequestsOf
  <2> QED BY <2>1, <2>2 DEF PostedWrites
<1>18. CASE o.cmd = "read"
  <2>1. DOMAIN busy[c] = {} /\ PostedWrites[c] = {} BY <1>17, <1>18
  <2>2. Reads(c)' = {t} BY <1>5, <1>18, <2>1 DEF Reads
  <2>3. \A q \in Under(RequestPlaces) : q.src # c BY <1>10, <2>1
  <2>4. RequestsOf(c, "read")' = {r} BY <1>3, <1>8, <1>18, <2>3 DEF RequestsOf
  <2>5. ReadingOf(c)' = Memory!Asked(o.addr)
    BY <1>3, <2>2, <2>4 DEF ReadingOf, Memory!Asked
  <2>6. RequestsOf(c, "write")' = RequestsOf(c, "write")
    BY <1>3, <1>8, <1>18 DEF RequestsOf
  <2>7. PostedWrites' = PostedWrites BY <1>15, <2>6 DEF PostedWrites
  <2>8. [d \in Cpus |-> ReadingOf(d)]' =
          [[d \in Cpus |-> ReadingOf(d)] EXCEPT ![c] = Memory!Asked(o.addr)]
    BY <1>15, <2>5
  <2>9. Memory!AskRead(c, o.addr) BY <1>4, <1>16, <2>1, <2>7, <2>8 DEF Memory!AskRead
  <2> QED BY <1>3, <1>14, <2>9 DEF Memory!Next
<1>19. CASE o.cmd = "write"
  <2>1. Reads(c)' = {} BY <1>5, <1>16, <1>19 DEF Reads
  <2>2. ReadingOf(c)' = ReadingOf(c) BY <1>16, <2>1 DEF ReadingOf
  <2>3. [d \in Cpus |-> ReadingOf(d)]' = [d \in Cpus |-> ReadingOf(d)] BY <1>15, <2>2
  <2>4. RequestsOf(c, "write")' = RequestsOf(c, "write") \cup {r}
    BY <1>3, <1>8, <1>19 DEF RequestsOf
  <2>5. PostedWrites' = [PostedWrites EXCEPT ![c] = @ \cup {Memory!Write(o.addr, o.val)}]
    <3>1. PostedWrites'[c] = PostedWrites[c] \cup {Memory!Write(o.addr, o.val)}
      BY <1>3, <2>4 DEF PostedWrites, Memory!Write
    <3>2. \A d \in Cpus : d # c => PostedWrites'[d] = PostedWrites[d] BY <1>15 DEF PostedWrites
    <3>3. PostedWrites' = [d \in Cpus |-> PostedWrites'[d]] BY DEF PostedWrites
    <3>4. PostedWrites = [d \in Cpus |-> PostedWrites[d]] BY DEF PostedWrites
    <3> QED BY <3>1, <3>2, <3>3, <3>4
  <2>6. \A w \in PostedWrites[c] : w.val.n < o.val.n
    <3> SUFFICES ASSUME NEW w \in PostedWrites[c] PROVE w.val.n < o.val.n OBVIOUS
    <3>1. PICK q \in RequestsOf(c, "write") : w.val = q.val BY DEF PostedWrites
    <3> QED BY <1>19, <3>1
  <2>7. Memory!PostWrite(c, o.addr, o.val)
    BY <1>4, <1>16, <1>17, <1>19, <2>3, <2>5, <2>6 DEF Memory!PostWrite
  <2> QED BY <1>3, <1>14, <1>19, <2>7 DEF Memory!Next
<1> QED BY <1>3, <1>18, <1>19

\* A step that leaves the path, the pool and the devices alone.
LEMMA RestRefines ==
  ASSUME NocInv, NocInv', PathInv, Net' = Net, UNCHANGED <<busy, mem>>,
         \A d \in Cpus : ops[d] <= ops'[d],
         \A d \in Cpus : cpu'[d].at = "drain" => cpu'[d] = cpu[d] \/ NumberedBy(d, cpu[d].op)'
  PROVE  PathInv' /\ UNCHANGED Memory!busVars
<1>1. Under(RequestPlaces)' = Under(RequestPlaces) /\ Under(ResponsePlaces)' = Under(ResponsePlaces)
  BY PlaceKinds, UnderIs
<1>2. ASSUME NEW d \in Cpus, NEW e, NumberedBy(d, e) PROVE NumberedBy(d, e)'
  <2>1. ops[d] \in Nat /\ ops'[d] \in Nat BY TransportAssumption DEF NocInv, TypeOK
  <2> QED BY <1>2, <2>1 DEF NumberedBy, Values
<1>3. Numbered'
  <2>1. ASSUME NEW q \in Under(RequestPlaces)' PROVE NumberedBy(q.src, q)'
    <3>1. q \in Under(RequestPlaces) /\ q \in Under(Places) BY <1>1, PlaceKinds DEF Under
    <3>2. q.src \in Cpus BY <3>1, UnderInUse
    <3> QED BY <1>2, <3>1, <3>2 DEF PathInv, Numbered
  <2>2. ASSUME NEW d \in Cpus, cpu'[d].at = "drain" PROVE NumberedBy(d, cpu[d].op)'
    <3>1. CASE cpu'[d] = cpu[d]
      <4>1. PICK p : p = cpu[d].op OBVIOUS
      <4>2. NumberedBy(d, p) BY <2>2, <3>1, <4>1 DEF PathInv, Numbered
      <4>3. NumberedBy(d, p)' BY <1>2, <4>2
      <4> QED BY <3>1, <4>1, <4>3 DEF NumberedBy
    <3> QED BY <2>2, <3>1
  <2> QED BY <2>1, <2>2 DEF Numbered
<1>4. Kinds' BY <1>1 DEF PathInv, Kinds
<1>5. PathInv' BY <1>3, <1>4 DEF PathInv
<1>6. UNCHANGED Memory!busVars BY <1>1, AllSame
<1> QED BY <1>5, <1>6

\* A load or a store of a CPU.
LEMMA AccessRefines ==
  ASSUME NocInv, NocInv', PathInv, NEW c \in Cpus, NEW cmd \in {"read", "write"}, NEW a \in Addrs,
         Access(c, cmd, a)
  PROVE  PathInv' /\ (Memory!Next(Values) \/ UNCHANGED Memory!busVars)
<1>1. cpu[c] = Running /\ cpu[c].at = "run" BY DEF Access, Running
<1>2. /\ cpu \in [Cpus -> Threads] /\ ops \in [Cpus -> 0 .. MaxOps] /\ MaxOps \in Nat
      /\ ops[c] \in 0 .. MaxOps /\ ops[c] < MaxOps /\ ops' = [ops EXCEPT ![c] = @ + 1]
  BY TransportAssumption DEF NocInv, TypeOK, Access
<1>3. PICK o : o = [cmd |-> cmd, addr |-> a,
                    val |-> IF cmd = "write" THEN [cpu |-> c, n |-> ops[c] + 1] ELSE Nothing]
  OBVIOUS
<1>4. o \in Accesses /\ ops[c] + 1 \in 1 .. MaxOps BY <1>2, <1>3 DEF Accesses, Values
<1>5. ops'[c] = ops[c] + 1 /\ \A d \in Cpus : ops[d] <= ops'[d] BY <1>2
<1>6. o.cmd = "write" => /\ o.val \in Values /\ o.val.cpu = c /\ o.val.n <= ops'[c]
                         /\ o.val.n = ops[c] + 1
  BY <1>3, <1>4, <1>5 DEF Values
<1>7. CASE WaitEmpty(c, o) /\ DOMAIN busy[c] # {}
  <2>1. cpu' = [cpu EXCEPT ![c] = Draining(o)] /\ UNCHANGED <<free, busy, nocVars, devVars>>
    BY <1>3, <1>7 DEF Access
  <2>2. cpu'[c].at = "drain" /\ cpu'[c].op = o /\ \A d \in Cpus : d # c => cpu'[d] = cpu[d]
    BY <1>2, <2>1 DEF Draining
  <2>3. \A d \in Cpus : ThreadHolds(d)' = ThreadHolds(d) BY <1>1, <2>2 DEF ThreadHolds
  <2>4. Net' = Net BY <2>1, <2>3, NetSame DEF NocInv, nocVars, devVars
  <2>5. NumberedBy(c, cpu[c].op)' BY <1>6, <2>2 DEF NumberedBy
  <2> QED BY <1>5, <2>1, <2>2, <2>4, <2>5, RestRefines DEF devVars
<1>8. CASE ~(WaitEmpty(c, o) /\ DOMAIN busy[c] # {})
  <2>1. Issue(c, o) BY <1>3, <1>8 DEF Access
  <2>2. ASSUME o.cmd = "write", NEW q \in RequestsOf(c, "write") PROVE q.val.n < o.val.n
    <3>1. q \in Under(RequestPlaces) /\ q.src = c /\ q.cmd = "write" BY DEF RequestsOf
    <3>2. q.val \in Values /\ q.val.n <= ops[c] BY <3>1 DEF PathInv, Numbered, NumberedBy
    <3> QED BY <1>2, <1>6, <2>2, <3>2 DEF Values
  <2> QED BY <1>1, <1>4, <1>5, <1>6, <1>8, <2>1, <2>2, IssueRefines
<1> QED BY <1>7, <1>8

\* A thread that was draining its pool.
LEMMA FireEmptyRefines ==
  ASSUME NocInv, NocInv', PathInv, NEW c \in Cpus, FireEmpty(c)
  PROVE  PathInv' /\ (Memory!Next(Values) \/ UNCHANGED Memory!busVars)
<1>1. \A d \in Cpus : ops[d] <= ops'[d]
  <2>1. ops' = ops /\ \A d \in Cpus : ops[d] \in Nat
    BY TransportAssumption DEF FireEmpty, NocInv, TypeOK
  <2> QED BY <2>1
<1>2. CASE cpu[c].at = "drain" /\ DOMAIN busy[c] = {}
  <2>1. PICK o \in Accesses : o = cpu[c].op BY <1>2, ThreadType DEF NocInv, TypeOK
  <2>2. Issue(c, o) /\ ops' = ops BY <1>2, <2>1 DEF FireEmpty
  <2>3. NumberedBy(c, o) BY <1>2, <2>1 DEF PathInv, Numbered
  <2>4. RequestsOf(c, "write") = {}
    <3> SUFFICES ASSUME NEW q \in RequestsOf(c, "write") PROVE FALSE OBVIOUS
    <3>1. q \in Under(Places) /\ q.src = c BY PlaceKinds DEF RequestsOf, Under
    <3> QED BY <1>2, <3>1, UnderInUse
  <2>5. o.cmd = "write" => o.val \in Values /\ o.val.cpu = c /\ o.val.n <= ops'[c]
    BY <2>2, <2>3 DEF NumberedBy
  <2> QED BY <1>1, <1>2, <2>2, <2>4, <2>5, IssueRefines
<1>3. CASE ~(cpu[c].at = "drain" /\ DOMAIN busy[c] = {})
  <2>1. UNCHANGED <<cpu, busy, mReq, mHeld, mRsp, sReq, sRsp, sHeld, dev, mem>>
    BY <1>3 DEF FireEmpty, nocVars, devVars
  <2>2. Net' = Net BY <2>1, NetSame DEF NocInv, ThreadHolds
  <2> QED BY <1>1, <2>1, <2>2, RestRefines
<1> QED BY <1>2, <1>3

\* The path is empty when the program starts, and the memory is as it was.
LEMMA PathInit == Init => PathInv /\ Memory!Init(Nothing)
<1> SUFFICES ASSUME Init PROVE PathInv /\ Memory!Init(Nothing) OBVIOUS
<1>1. NocInv BY NocInit
<1>2. \A q : q \notin Under(Places) BY <1>1, UnderInUse DEF Init
<1>3. \A q : q \notin Under(RequestPlaces) BY <1>2, PlaceKinds DEF Under
<1>4. ASSUME NEW x \in RequestPlaces PROVE DOMAIN Net[x] = {}
  <2> SUFFICES ASSUME NEW i \in DOMAIN Net[x] PROVE FALSE OBVIOUS
  <2>1. Net[x] = Holds(x) BY PlaceKinds, NetAt
  <2>2. Net[x][i] \in Under(RequestPlaces) BY <2>1 DEF Under, ToSet
  <2> QED BY <1>3, <2>2
<1>5. InOrder(Net) /\ WhereItBelongs(Net) BY <1>4 DEF InOrder, WhereItBelongs
<1>6. Numbered /\ Kinds BY <1>3 DEF Numbered, Kinds, Init, Running
<1>7. \A c \in Cpus : PostedWrites[c] = {} /\ Reads(c) = {}
  BY <1>3 DEF PostedWrites, RequestsOf, Reads, Init
<1>8. \A c \in Cpus : ReadingOf(c) = Memory!NoRead BY <1>7 DEF ReadingOf, Memory!NoRead
<1>9. PostedWrites = [c \in Cpus |-> PostedWrites[c]] BY DEF PostedWrites
<1>10. Memory!Init(Nothing) BY <1>7, <1>8, <1>9 DEF Memory!Init, Init
<1> QED BY <1>5, <1>6, <1>10 DEF PathInv

\* A step of the memory.
MemoryStep == [Memory!Next(Values)]_(Memory!busVars)

\* Every step keeps the invariant and is a step of the memory or none.
LEMMA PathStep == NocInv /\ NocInv' /\ PathInv /\ [Next]_vars => PathInv' /\ MemoryStep
<1> SUFFICES ASSUME NocInv, NocInv', PathInv, [Next]_vars
             PROVE  PathInv' /\ (Memory!Next(Values) \/ UNCHANGED Memory!busVars)
  BY DEF MemoryStep
<1>1. ASSUME NEW c \in Cpus, NEW cmd \in {"read", "write"}, NEW a \in Addrs, Access(c, cmd, a)
      PROVE  PathInv' /\ (Memory!Next(Values) \/ UNCHANGED Memory!busVars)
  BY <1>1, AccessRefines
<1>2. ASSUME NEW c \in Cpus, MasterStep(c)
      PROVE  PathInv' /\ (Memory!Next(Values) \/ UNCHANGED Memory!busVars)
  BY <1>2, FireEmptyRefines, CompleteRefines, ReceiveRefines, RequestStepsRefine DEF MasterStep
<1>3. ASSUME NEW s \in Slaves, SlaveStep(s)
      PROVE  PathInv' /\ (Memory!Next(Values) \/ UNCHANGED Memory!busVars)
  BY <1>3, ServeRefines, ResponseStepsRefine, RequestStepsRefine DEF SlaveStep
<1>4. CASE UNCHANGED vars
  <2>1. UNCHANGED <<cpu, ops, busy, mReq, mHeld, mRsp, sReq, sRsp, sHeld, dev, mem>>
    BY <1>4 DEF vars
  <2>2. Net' = Net BY <2>1, NetSame DEF NocInv, ThreadHolds
  <2>3. \A d \in Cpus : ops[d] <= ops'[d]
    <3>1. \A d \in Cpus : ops[d] \in Nat BY TransportAssumption DEF NocInv, TypeOK
    <3> QED BY <2>1, <3>1
  <2> QED BY <2>1, <2>2, <2>3, RestRefines
<1> QED BY <1>1, <1>2, <1>3, <1>4 DEF Next

(* The bus, with its queues, its pools of requests and its posted writes,  *)
(* implements the memory with write buffers of BusMemory: the writes of a  *)
(* CPU to one slave are performed in program order, and a read returns     *)
(* what the device holds at one moment between its start and its end, with *)
(* no write of that CPU still posted.                                      *)
THEOREM BusIsMemory == Spec => RefinesMemory
<1>1. Init => PathInv /\ Memory!Init(Nothing) BY PathInit
<1>2. NocInv /\ NocInv' /\ PathInv /\ [Next]_vars
        => PathInv' /\ [Memory!Next(Values)]_(Memory!busVars)
  BY PathStep DEF MemoryStep
<1>3. Spec => Memory!Init(Nothing) /\ [][Memory!Next(Values)]_(Memory!busVars)
  BY <1>1, <1>2, NocInvariance, PTL DEF Spec
<1> QED BY <1>3 DEF RefinesMemory
=============================================================================

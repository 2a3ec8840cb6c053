---------------------------- MODULE MemoryProofs ----------------------------
(***************************************************************************)
(* About memories and what CPUs exchange through them: a memory device     *)
(* implements an array of bytes, for every size of the memory, every set   *)
(* of words and any number of accesses; exclusive accesses lose no update, *)
(* for any number of CPUs, words and stores; mailboxes lose no message,    *)
(* for any number of senders and mailboxes; and the ways to a memory lead  *)
(* to the same byte with the map of each platform.                         *)
(***************************************************************************)
EXTENDS MemDevice, AddressMap, ExclusiveMonitor, Mailbox, SequenceTheorems, TLAPS

(* An access within a line enables the lanes of its own bytes: byte b of   *)
(* the memory is in the enabled part of the line exactly when the access   *)
(* names it.  What master_device::send_req computes with % 8 and << ofs.   *)
LEMMA LanesOfBytes ==
    ASSUME NEW x \in Access, NEW b \in Int
    PROVE  /\ b - LineOf(x[1]) \in Enabled(x[1], x[2])
                  <=> b \in x[1] .. x[1] + x[2] - 1
           /\ LineOf(x[1]) \in Int
           /\ x[1] % 8 \in Lane
           /\ x[1] + x[2] <= Size
  <1> DEFINE a == x[1]
             n == x[2]
             o == a % 8
  <1>1. a \in 0 .. Size - 1 /\ n \in Widths /\ o + n <= 8
    BY DEF Access
  <1>2. Size \in Nat
    BY LinesAssumption DEF Size
  <1>3. a \in Nat /\ n \in Nat \ {0} /\ o \in 0 .. 7
    BY <1>1, <1>2 DEF Widths
  <1>4. LineOf(a) = a - o /\ Enabled(a, n) = (o .. o + n - 1) \cap (0 .. 7)
    BY DEF LineOf, Enabled, Lane
  <1>5. a + n <= Size
    BY <1>1, <1>2, LinesAssumption DEF Size, Widths
  <1> HIDE DEF a, n, o
  <1>6. b - LineOf(a) \in Enabled(a, n) <=> b \in a .. a + n - 1
    BY <1>1, <1>3, <1>4
  <1>7. LineOf(a) \in Int
    BY <1>3, <1>4
  <1> QED
    BY <1>3, <1>5, <1>6, <1>7 DEF a, n, o, Lane

(* The first enabled lane is the lane of the access's first byte: what     *)
(* response_thread finds by shifting the mask.                             *)
LEMMA FirstLaneIsOffset ==
    ASSUME NEW x \in Access
    PROVE  FirstLane(Enabled(x[1], x[2])) = x[1] % 8
  <1> DEFINE o == x[1] % 8
             n == x[2]
  <1>1. n \in Widths /\ o + n <= 8
    BY DEF Access
  <1>2. o \in 0 .. 7
    BY LanesOfBytes DEF Lane
  <1>3. Enabled(x[1], x[2]) = o .. o + n - 1
    <2> HIDE DEF o, n
    <2>1. (o .. o + n - 1) \cap (0 .. 7) = o .. o + n - 1
      BY <1>1, <1>2 DEF Widths
    <2> QED
      BY <2>1 DEF Enabled, Lane, o, n
  <1> HIDE DEF o, n
  <1>4. Min(o .. o + n - 1) = o
    BY <1>1, <1>2 DEF Min, Widths
  <1> QED
    BY <1>3, <1>4 DEF FirstLane, o

(* The switch statements of the two devices know the mask of every aligned *)
(* access.                                                                 *)
LEMMA AlignedIsKnown ==
    ASSUME NEW x \in Access, Bytes!Aligned(x[1], x[2])
    PROVE  Known(Enabled(x[1], x[2]))
  <1> DEFINE a == x[1]
             n == x[2]
             o == a % 8
             k == o \div n
  <1>1. n \in Widths /\ o + n <= 8 /\ a % n = 0 /\ a \in Nat
    BY LinesAssumption DEF Access, Bytes!Aligned, Size
  <1>2. o \in 0 .. 7
    BY LanesOfBytes DEF Lane
  <1>2b. (n = 2 => o % 2 = 0) /\ (n = 4 => o % 4 = 0)
    <2>1. a % 2 = 0 => (a % 8) % 2 = 0
      BY <1>1
    <2>2. a % 4 = 0 => (a % 8) % 4 = 0
      BY <1>1
    <2> QED
      BY <1>1, <2>1, <2>2
  <1>3. k \in 0 .. 7 /\ o = n * k
    <2> HIDE DEF o
    <2>1. CASE n = 1
      BY <2>1, <1>2
    <2>2. CASE n = 2
      BY <2>2, <1>2, <1>2b
    <2>3. CASE n = 4
      BY <2>3, <1>2, <1>2b
    <2> QED BY <2>1, <2>2, <2>3, <1>1 DEF Widths
  <1>4. Enabled(a, n) = o .. o + n - 1
    <2> HIDE DEF o, n
    <2>1. (o .. o + n - 1) \cap (0 .. 7) = o .. o + n - 1
      BY <1>1, <1>2 DEF Widths
    <2> QED
      BY <2>1 DEF Enabled, Lane, o, n
  <1> HIDE DEF o, k
  <1> QED
    BY <1>1, <1>3, <1>4 DEF Known

(* A write stores the bytes it names or is refused. *)
LEMMA WriteImplements ==
    ASSUME NEW x \in Access, NEW w \in Word, Write(x[1], x[2], w)
    PROVE  \/ Bytes!Write(x[1], x[2], w)
           \/ Bytes!Refuse("write", x[1], x[2])
  <1> DEFINE a == x[1]
             n == x[2]
             be == Enabled(a, n)
  <1>1. CASE WriteServed(be)
    <2>1. mem' = StoreLanes(LineOf(a), be, Wdata(a, n, w))
          /\ answer' = Answer("write", a, n, FALSE, <<>>)
      BY <1>1 DEF Write
    <2>2. ASSUME NEW b \in 0 .. Size - 1
          PROVE  mem'[b] = IF b \in a .. a + n - 1 THEN w[b - a] ELSE mem[b]
      <3> DEFINE l == b - LineOf(a)
      <3>1. b \in Int /\ a \in Int
        BY LinesAssumption DEF Size, Access
      <3>2. mem'[b] = IF l \in be THEN Wdata(a, n, w)[l] ELSE mem[b]
        BY <2>1 DEF StoreLanes
      <3>3. l \in be <=> b \in a .. a + n - 1
        BY <3>1, LanesOfBytes
      <3>4. CASE l \in be
        <4>1. l \in Lane
          BY <3>4 DEF Enabled
        <4>2. a % 8 \in Int /\ n \in Int
          BY LanesOfBytes DEF Access, Widths, Lane
        <4>3. l - (a % 8) = b - a
          BY <3>1, <4>2 DEF LineOf
        <4>4. l - (a % 8) \in 0 .. n - 1
          BY <3>1, <3>3, <3>4, <4>2, <4>3
        <4>5. Wdata(a, n, w)[l] = w[b - a]
          BY <4>1, <4>3, <4>4 DEF Wdata
        <4> QED
          BY <3>2, <3>3, <3>4, <4>5
      <3>5. CASE l \notin be
        BY <3>2, <3>3, <3>5
      <3> QED
        BY <3>4, <3>5
    <2>3. mem' = [b \in 0 .. Size - 1 |->
                     IF b \in a .. a + n - 1 THEN w[b - a] ELSE mem[b]]
      BY <2>1, <2>2 DEF StoreLanes
    <2>4. Meaning' = Bytes!Answer("write", a, n, FALSE, <<>>)
      BY <2>1 DEF Meaning, Answer, Bytes!Answer
    <2> QED
      BY <2>3, <2>4 DEF Bytes!Write
  <1>2. CASE ~WriteServed(be)
    <2>1. UNCHANGED mem /\ answer' = Answer("write", a, n, TRUE, <<>>)
      BY <1>2 DEF Write
    <2>2. ~Bytes!Aligned(a, n)
      BY <1>2, AlignedIsKnown DEF WriteServed
    <2> QED
      BY <2>1, <2>2 DEF Bytes!Refuse, Meaning, Answer, Bytes!Answer
  <1> QED
    BY <1>1, <1>2

(* A read answers with the bytes it names or is refused. *)
LEMMA ReadImplements ==
    ASSUME NEW x \in Access, Read(x[1], x[2])
    PROVE  \/ Bytes!Read(x[1], x[2])
           \/ Bytes!Refuse("read", x[1], x[2])
  <1> DEFINE a == x[1]
             n == x[2]
             be == Enabled(a, n)
  <1>1. CASE ReadServed(be)
    <2>1. /\ rdata' = LoadLanes(LineOf(a), be)
          /\ answer' = Answer("read", a, n, FALSE,
                              [i \in 0 .. n - 1 |-> rdata'[FirstLane(be) + i]])
          /\ UNCHANGED mem
      BY <1>1 DEF Read
    <2>2. ASSUME NEW i \in 0 .. n - 1
          PROVE  rdata'[FirstLane(be) + i] = mem[a + i]
      <3> DEFINE l == (a % 8) + i
      <3>1. a \in Int /\ n \in Int /\ i \in Int /\ a % 8 \in 0 .. 7 /\ a + i \in Int
        BY LinesAssumption, LanesOfBytes DEF Size, Access, Widths, Lane
      <3>2. FirstLane(be) + i = l
        BY FirstLaneIsOffset
      <3>3. l = (a + i) - LineOf(a) /\ LineOf(a) + l = a + i
        BY <3>1 DEF LineOf
      <3>4. a + i \in a .. a + n - 1
        BY <3>1
      <3>5. l \in be
        BY <3>1, <3>3, <3>4, LanesOfBytes
      <3>6. l \in Lane
        BY <3>5 DEF Enabled
      <3> QED
        BY <2>1, <3>2, <3>3, <3>5, <3>6 DEF LoadLanes
    <2>3. answer' = Answer("read", a, n, FALSE, [i \in 0 .. n - 1 |-> mem[a + i]])
      BY <2>1, <2>2
    <2>4. Meaning' = Bytes!Answer("read", a, n, FALSE, [i \in 0 .. n - 1 |-> mem[a + i]])
      BY <2>3 DEF Meaning, Answer, Bytes!Answer
    <2> QED
      BY <2>1, <2>4, Zenon DEF Bytes!Read
  <1>2. CASE ~ReadServed(be)
    <2>1. UNCHANGED mem
          /\ answer' = Answer("read", a, n, TRUE,
                              [i \in 0 .. n - 1 |-> rdata'[FirstLane(be) + i]])
      BY <1>2 DEF Read
    <2>2. ~Bytes!Aligned(a, n)
      BY <1>2, AlignedIsKnown DEF ReadServed
    <2> QED
      BY <2>1, <2>2 DEF Bytes!Refuse, Meaning, Answer, Bytes!Answer
  <1> QED
    BY <1>1, <1>2

(* mem_device and sram_device are arrays of bytes, whatever their size:    *)
(* an access that is not refused reads or writes exactly its own bytes,    *)
(* and an aligned access is not refused.                                   *)
THEOREM ArrayOfBytes == Spec => IsByteArray
  <1>1. Init => Bytes!Init
    BY DEF Init, Bytes!Init, Bytes!Nothing, Meaning, Answer, Bytes!Answer
  <1>2. ASSUME [Next]_vars
        PROVE  [Bytes!Next]_<<mem, Meaning>>
    <2>1. CASE Next
      <3>1. PICK x \in Access : \/ \E w \in Word : Write(x[1], x[2], w)
                                \/ Read(x[1], x[2])
        BY <2>1 DEF Next
      <3>2. x[1] \in 0 .. Size - 1 /\ x[2] \in Bytes!Widths /\ x[1] + x[2] <= Size
        BY LanesOfBytes DEF Access, Widths, Bytes!Widths
      <3>3. CASE \E w \in Word : Write(x[1], x[2], w)
        BY <3>2, <3>3, WriteImplements, Zenon DEF Bytes!Next
      <3>4. CASE Read(x[1], x[2])
        BY <3>2, <3>4, ReadImplements, Zenon DEF Bytes!Next
      <3> QED
        BY <3>1, <3>3, <3>4
    <2>2. CASE UNCHANGED vars
      BY <2>2 DEF vars, Meaning
    <2> QED
      BY <1>2, <2>1, <2>2
  <1> QED
    BY <1>1, <1>2, PTL DEF Spec, IsByteArray, Bytes!Spec
-----------------------------------------------------------------------------
(* The exclusive list.                                                     *)

Entry == [addr : Words, cpus : SUBSET Cpus]

MonitorTypes ==
    /\ platform \in Platforms
    /\ list \in Seq(Entry)
    /\ version \in [Words -> Nat]
    /\ cpu \in [Cpus -> [at : {"idle", "linked", "store"}, word : Words, seen : Nat]]

\* A word has one entry, and who is in it has loaded the word and seen its last store.
EntriesAreFresh ==
    /\ \A i, j \in DOMAIN list : list[i].addr = list[j].addr => i = j
    /\ \A i \in DOMAIN list : \A c \in list[i].cpus :
         /\ cpu[c].at \in {"linked", "store"}
         /\ cpu[c].word = list[i].addr
         /\ cpu[c].seen = version[list[i].addr]

\* A CPU between its test and its store is the only one in the entry.
StorersAreAlone ==
    /\ ~IsRoger => \A i \in DOMAIN list : \A c, d \in list[i].cpus : c = d
    /\ \A c \in Cpus : cpu[c].at = "store" =>
         ~IsRoger /\ \E i \in Find(cpu[c].word) : c \in list[i].cpus

MonitorInv == MonitorTypes /\ EntriesAreFresh /\ StorersAreAlone

LEMMA EntryOf ==
  ASSUME MonitorInv, NEW i \in DOMAIN list
  PROVE  /\ list[i] \in Entry /\ list[i].addr \in Words /\ list[i].cpus \subseteq Cpus
         /\ list[i] = [addr |-> list[i].addr, cpus |-> list[i].cpus]
<1>1. list[i] \in Entry BY DEF MonitorInv, MonitorTypes
<1> QED BY <1>1 DEF Entry

LEMMA FirstIsFind ==
  ASSUME NEW w, MonitorInv, Find(w) # {}
  PROVE  /\ First(w) \in Find(w) /\ Find(w) = {First(w)}
         /\ First(w) \in 1 .. Len(list) /\ list[First(w)].addr = w
<1>1. \A i, j \in Find(w) : i = j BY DEF MonitorInv, EntriesAreFresh, Find
<1>2. \E i \in Find(w) : \A j \in Find(w) : i <= j
  <2>1. PICK i \in Find(w) : TRUE OBVIOUS
  <2>2. i \in Nat BY DEF Find, MonitorInv, MonitorTypes
  <2> QED BY <1>1, <2>1, <2>2
<1>3. First(w) \in Find(w) BY <1>2 DEF First
<1> QED BY <1>1, <1>3 DEF Find, MonitorInv, MonitorTypes

LEMMA RemoveAtProperties ==
  ASSUME NEW S, NEW s \in Seq(S), NEW k \in 1 .. Len(s)
  PROVE  /\ RemoveAt(s, k) \in Seq(S)
         /\ Len(RemoveAt(s, k)) = Len(s) - 1
         /\ \A j \in 1 .. Len(s) - 1 : RemoveAt(s, k)[j] = IF j < k THEN s[j] ELSE s[j + 1]
<1> DEFINE p == SubSeq(s, 1, k - 1)
           q == SubSeq(s, k + 1, Len(s))
<1>1. /\ p \in Seq(S) /\ Len(p) = k - 1
      /\ \A j \in 1 .. k - 1 : p[j] = s[j]
  <2>1. \A i \in 1 .. k - 1 : s[i] \in S OBVIOUS
  <2> QED BY <2>1, SubSeqProperties
<1>2. /\ q \in Seq(S) /\ Len(q) = Len(s) - k
      /\ \A j \in 1 .. Len(s) - k : q[j] = s[k + j]
  <2>1. \A i \in k + 1 .. Len(s) : s[i] \in S OBVIOUS
  <2> QED BY <2>1, SubSeqProperties
<1>3. RemoveAt(s, k) = p \o q BY DEF RemoveAt
<1> HIDE DEF p, q
<1>4. p \o q \in Seq(S) /\ Len(p \o q) = Len(s) - 1
  <2>1. p \o q \in Seq(S) /\ Len(p \o q) = Len(p) + Len(q) BY <1>1, <1>2, ConcatProperties
  <2> QED BY <1>1, <1>2, <2>1
<1>5. ASSUME NEW j \in 1 .. Len(s) - 1
      PROVE  (p \o q)[j] = IF j < k THEN s[j] ELSE s[j + 1]
  BY <1>1, <1>2, ConcatProperties
<1> QED BY <1>3, <1>4, <1>5

LEMMA DeleteIsRight ==
  ASSUME NEW w, MonitorInv, Find(w) # {}
  PROVE  /\ Delete(w) \in Seq(Entry)
         /\ \A j \in DOMAIN Delete(w) : \E i \in DOMAIN list :
              Delete(w)[j] = list[i] /\ list[i].addr # w
         /\ \A i \in DOMAIN list : list[i].addr # w =>
              \E j \in DOMAIN Delete(w) : Delete(w)[j] = list[i]
         /\ \A i, j \in DOMAIN Delete(w) : Delete(w)[i].addr = Delete(w)[j].addr => i = j
<1> DEFINE k == First(w)
           r == RemoveAt(list, k)
           n == Len(list)
<1>1. /\ k \in 1 .. n /\ list[k].addr = w /\ n \in Nat /\ list \in Seq(Entry)
      /\ \A i, j \in 1 .. n : list[i].addr = list[j].addr => i = j
  BY FirstIsFind DEF MonitorInv, MonitorTypes, EntriesAreFresh
<1>2. Delete(w) = r BY DEF Delete
<1>3. /\ r \in Seq(Entry) /\ Len(r) = n - 1
      /\ \A j \in 1 .. n - 1 : r[j] = IF j < k THEN list[j] ELSE list[j + 1]
  BY <1>1, RemoveAtProperties
<1> HIDE DEF r, k, n
<1>4. DOMAIN r = 1 .. n - 1 /\ DOMAIN list = 1 .. n BY <1>1, <1>3 DEF n
<1>5. \A j \in 1 .. n - 1 : \E i \in 1 .. n : r[j] = list[i] /\ list[i].addr # w
  <2> TAKE j \in 1 .. n - 1
  <2>1. CASE j < k
    <3>1. j \in 1 .. n /\ j # k BY <1>1, <2>1
    <3> QED BY <1>1, <1>3, <2>1, <3>1
  <2>2. CASE ~ (j < k)
    <3>1. j + 1 \in 1 .. n /\ j + 1 # k BY <1>1, <2>2
    <3> QED BY <1>1, <1>3, <2>2, <3>1
  <2> QED BY <2>1, <2>2
<1>6. \A i \in 1 .. n : list[i].addr # w => \E j \in 1 .. n - 1 : r[j] = list[i]
  <2> TAKE i \in 1 .. n
  <2> HAVE list[i].addr # w
  <2>1. i # k BY <1>1
  <2>2. CASE i < k
    <3>1. i \in 1 .. n - 1 BY <1>1, <2>2
    <3> QED BY <1>3, <2>2, <3>1
  <2>3. CASE k < i
    <3>1. i - 1 \in 1 .. n - 1 /\ ~ (i - 1 < k) /\ (i - 1) + 1 = i BY <1>1, <2>3
    <3> QED BY <1>3, <3>1
  <2> QED BY <1>1, <2>1, <2>2, <2>3
<1>7. \A i, j \in 1 .. n - 1 : r[i].addr = r[j].addr => i = j
  <2> TAKE i, j \in 1 .. n - 1
  <2> HAVE r[i].addr = r[j].addr
  <2> DEFINE up(x) == IF x < k THEN x ELSE x + 1
  <2>1. up(i) \in 1 .. n /\ up(j) \in 1 .. n BY <1>1
  <2>2. r[i] = list[up(i)] /\ r[j] = list[up(j)] BY <1>3
  <2>3. up(i) = up(j) BY <1>1, <2>1, <2>2
  <2> QED BY <1>1, <2>3
<1>8. DOMAIN Delete(w) = 1 .. n - 1 /\ Delete(w) \in Seq(Entry) BY <1>2, <1>3, <1>4
<1> QED BY <1>2, <1>4, <1>5, <1>6, <1>7, <1>8, ZenonT(40)

\* Whoever is granted the store has seen the last one.
LEMMA GrantedIsFresh ==
  ASSUME MonitorInv, NEW c \in Cpus, NEW w, Granted(c, w)
  PROVE  /\ Find(w) # {} /\ cpu[c].word = w /\ cpu[c].seen = version[w]
         /\ w \in Words /\ cpu[c].at \in {"linked", "store"}
<1>1. Find(w) # {} /\ c \in list[First(w)].cpus BY DEF Granted
<1>2. First(w) \in DOMAIN list /\ list[First(w)].addr = w
  BY <1>1, FirstIsFind DEF MonitorInv, MonitorTypes
<1>3. list[First(w)].addr \in Words BY <1>2, EntryOf
<1> QED BY <1>1, <1>2, <1>3 DEF MonitorInv, EntriesAreFresh

\* A store that is granted forgets the entry of its word.
LEMMA GrantedStoreKeeps ==
  ASSUME MonitorInv, NEW c \in Cpus, NEW w, w = cpu[c].word, Granted(c, w),
         UNCHANGED platform, list' = Delete(w),
         cpu' = [cpu EXCEPT ![c].at = "idle"], version' = [version EXCEPT ![w] = @ + 1]
  PROVE  MonitorInv'
<1>1. /\ Find(w) # {} /\ cpu[c].seen = version[w] /\ w \in Words
  BY GrantedIsFresh
<1>2. /\ list' \in Seq(Entry)
      /\ \A j \in DOMAIN list' : \E i \in DOMAIN list : list'[j] = list[i] /\ list[i].addr # w
      /\ \A i \in DOMAIN list : list[i].addr # w => \E j \in DOMAIN list' : list'[j] = list[i]
      /\ \A i, j \in DOMAIN list' : list'[i].addr = list'[j].addr => i = j
  BY <1>1, DeleteIsRight
<1>3. MonitorTypes'
  <2>1. version' \in [Words -> Nat] BY <1>1 DEF MonitorInv, MonitorTypes
  <2>2. cpu' \in [Cpus -> [at : {"idle", "linked", "store"}, word : Words, seen : Nat]]
    BY DEF MonitorInv, MonitorTypes
  <2> QED BY <1>2, <2>1, <2>2 DEF MonitorInv, MonitorTypes
<1>4. \A d \in Cpus : d # c => cpu'[d] = cpu[d]
  BY DEF MonitorInv, MonitorTypes
<1>5. cpu'[c].at = "idle" BY DEF MonitorInv, MonitorTypes
<1>6. ASSUME NEW j \in DOMAIN list', NEW d \in list'[j].cpus
      PROVE  /\ cpu'[d].at \in {"linked", "store"} /\ cpu'[d].word = list'[j].addr
             /\ cpu'[d].seen = version'[list'[j].addr]
  <2>1. PICK i \in DOMAIN list : list'[j] = list[i] /\ list[i].addr # w BY <1>2
  <2>2. list[i] \in Entry BY <2>1 DEF MonitorInv, MonitorTypes
  <2>3. d \in Cpus /\ list[i].addr \in Words BY <2>1, <2>2 DEF Entry
  <2>4. /\ cpu[d].at \in {"linked", "store"} /\ cpu[d].word = list[i].addr
        /\ cpu[d].seen = version[list[i].addr]
    BY <2>1 DEF MonitorInv, EntriesAreFresh
  <2>5. d # c BY <2>1, <2>4
  <2>6. version'[list[i].addr] = version[list[i].addr] BY <2>1, <2>3 DEF MonitorInv, MonitorTypes
  <2> QED BY <1>4, <2>1, <2>3, <2>4, <2>5, <2>6
<1>7. EntriesAreFresh' BY <1>2, <1>6 DEF EntriesAreFresh
<1>8. ~IsRoger' => \A j \in DOMAIN list' : \A d, e \in list'[j].cpus : d = e
  BY <1>2 DEF MonitorInv, StorersAreAlone, IsRoger
<1>9. ASSUME NEW d \in Cpus, cpu'[d].at = "store"
      PROVE  ~IsRoger' /\ \E j \in Find(cpu[d].word)' : d \in list'[j].cpus
  <2>1. d # c /\ cpu'[d] = cpu[d] BY <1>4, <1>5, <1>9
  <2>2. ~IsRoger /\ \E i \in Find(cpu[d].word) : d \in list[i].cpus
    BY <1>9, <2>1 DEF MonitorInv, StorersAreAlone
  <2>3. PICK i \in DOMAIN list : list[i].addr = cpu[d].word /\ d \in list[i].cpus
    BY <2>2 DEF Find
  <2>4. list[i].addr # w
    <3>1. First(w) \in DOMAIN list /\ list[First(w)].addr = w /\ c \in list[First(w)].cpus
      BY <1>1, FirstIsFind DEF Find, Granted
    <3>2. i = First(w) => FALSE BY <2>1, <2>2, <2>3, <3>1 DEF MonitorInv, StorersAreAlone
    <3> QED BY <2>3, <3>1, <3>2 DEF MonitorInv, EntriesAreFresh
  <2>5. PICK j \in DOMAIN list' : list'[j] = list[i] BY <1>2, <2>4
  <2>6. j \in Find(cpu[d].word)' BY <2>1, <2>3, <2>5 DEF Find
  <2> QED BY <2>2, <2>3, <2>5, <2>6 DEF IsRoger
<1>10. StorersAreAlone' BY <1>8, <1>9 DEF StorersAreAlone
<1> QED BY <1>3, <1>7, <1>10 DEF MonitorInv

LEMMA LoadExclusiveKeeps ==
  ASSUME MonitorInv, NEW c \in Cpus, NEW w \in Words, LoadExclusive(c, w)
  PROVE  MonitorInv'
<1>1. /\ cpu[c].at = "idle" /\ UNCHANGED <<platform, version>>
      /\ cpu' = [cpu EXCEPT ![c] = [at |-> "linked", word |-> w, seen |-> version[w]]]
      /\ cpu \in [Cpus -> [at : {"idle", "linked", "store"}, word : Words, seen : Nat]]
      /\ version[w] \in Nat /\ list \in Seq(Entry)
  BY DEF LoadExclusive, MonitorInv, MonitorTypes
<1>2. cpu'[c] = [at |-> "linked", word |-> w, seen |-> version[w]]
      /\ \A d \in Cpus : d # c => cpu'[d] = cpu[d]
  BY <1>1
<1>3. \A i \in DOMAIN list : c \notin list[i].cpus
  BY <1>1 DEF MonitorInv, EntriesAreFresh
<1>4. \A i \in DOMAIN list : list[i].addr \in Words /\ list[i].cpus \subseteq Cpus
  BY EntryOf
<1>5. \A d \in Cpus : cpu'[d].at = "store" => d # c /\ cpu'[d] = cpu[d] /\ ~IsRoger
         /\ \E i \in DOMAIN list : list[i].addr = cpu[d].word /\ d \in list[i].cpus
  BY <1>2 DEF MonitorInv, StorersAreAlone, Find
<1>6. CASE Find(w) = {}
  <2>1. list' = Append(list, [addr |-> w, cpus |-> {c}])
    BY <1>6 DEF LoadExclusive, MarkOwner, MarkSharers
  <2>2. [addr |-> w, cpus |-> {c}] \in Entry BY DEF Entry
  <2>3. /\ list' \in Seq(Entry) /\ DOMAIN list = 1 .. Len(list) /\ Len(list) \in Nat
        /\ DOMAIN list' = 1 .. Len(list) + 1
        /\ \A i \in DOMAIN list : i \in DOMAIN list' /\ list'[i] = list[i]
        /\ list'[Len(list) + 1] = [addr |-> w, cpus |-> {c}]
    BY <1>1, <2>1, <2>2
  <2>4. \A i \in DOMAIN list' : i \in DOMAIN list \/ i = Len(list) + 1 BY <2>3
  <2>5. MonitorTypes' BY <1>1, <2>3 DEF MonitorInv, MonitorTypes
  <2>6. \A i \in DOMAIN list : list[i].addr # w BY <1>6 DEF Find
  <2>7. \A i, j \in DOMAIN list' : list'[i].addr = list'[j].addr => i = j
    BY <2>3, <2>4, <2>6 DEF MonitorInv, EntriesAreFresh
  <2>8. ASSUME NEW i \in DOMAIN list', NEW d \in list'[i].cpus
        PROVE  /\ cpu'[d].at \in {"linked", "store"} /\ cpu'[d].word = list'[i].addr
               /\ cpu'[d].seen = version'[list'[i].addr]
    <3>1. CASE i \in DOMAIN list
      BY <1>1, <1>2, <1>3, <1>4, <2>3, <3>1 DEF MonitorInv, EntriesAreFresh
    <3>2. CASE i = Len(list) + 1
      <4>1. d = c /\ list'[i].addr = w BY <2>3, <3>2
      <4> QED BY <1>1, <1>2, <4>1
    <3> QED BY <2>4, <3>1, <3>2
  <2>9. EntriesAreFresh' BY <2>7, <2>8 DEF EntriesAreFresh
  <2>10. StorersAreAlone'
    <3>1. ~IsRoger' => \A i \in DOMAIN list' : \A d, e \in list'[i].cpus : d = e
      BY <1>1, <2>3, <2>4 DEF MonitorInv, StorersAreAlone, IsRoger
    <3>2. \A d \in Cpus : cpu'[d].at = "store" =>
            ~IsRoger' /\ \E i \in Find(cpu[d].word)' : d \in list'[i].cpus
      BY <1>1, <1>5, <2>3 DEF IsRoger, Find
    <3> QED BY <3>1, <3>2 DEF StorersAreAlone
  <2> QED BY <2>5, <2>9, <2>10 DEF MonitorInv
<1>7. CASE Find(w) # {} /\ ~IsRoger
  <2>1. list' = list BY <1>7 DEF LoadExclusive, MarkOwner
  <2>2. MonitorTypes' BY <1>1, <2>1 DEF MonitorInv, MonitorTypes
  <2>3. EntriesAreFresh'
    BY <1>1, <1>2, <1>3, <1>4, <2>1 DEF MonitorInv, EntriesAreFresh
  <2>4. StorersAreAlone'
    BY <1>1, <1>5, <2>1 DEF MonitorInv, StorersAreAlone, IsRoger, Find
  <2> QED BY <2>2, <2>3, <2>4 DEF MonitorInv
<1>8. CASE Find(w) # {} /\ IsRoger
  <2> DEFINE k == First(w)
  <2>1. list' = [list EXCEPT ![k].cpus = @ \cup {c}] BY <1>8 DEF LoadExclusive, MarkSharers
  <2>2. k \in DOMAIN list /\ list[k].addr = w
    BY <1>8, FirstIsFind DEF MonitorInv, MonitorTypes
  <2> HIDE DEF k
  <2>3. /\ DOMAIN list' = DOMAIN list
        /\ list'[k].addr = w /\ list'[k].cpus = list[k].cpus \cup {c}
        /\ \A i \in DOMAIN list : i # k => list'[i] = list[i]
    <3>1. list[k] = [addr |-> list[k].addr, cpus |-> list[k].cpus] BY <2>2, EntryOf
    <3>2. list'[k] = [list[k] EXCEPT !.cpus = @ \cup {c}] BY <1>1, <2>1, <2>2
    <3>3. list'[k] = [addr |-> list[k].addr, cpus |-> list[k].cpus \cup {c}] BY <3>1, <3>2
    <3> QED BY <1>1, <2>1, <2>2, <3>3
  <2>4. list' \in Seq(Entry)
    <3>1. [list[k] EXCEPT !.cpus = @ \cup {c}] \in Entry BY <2>2, EntryOf DEF Entry
    <3>2. list' = [list EXCEPT ![k] = [list[k] EXCEPT !.cpus = @ \cup {c}]] BY <2>1
    <3> QED BY <1>1, <2>2, <3>1, <3>2
  <2>5. MonitorTypes' BY <1>1, <2>4 DEF MonitorInv, MonitorTypes
  <2>6. EntriesAreFresh'
    <3>1. \A i, j \in DOMAIN list' : list'[i].addr = list'[j].addr => i = j
      BY <2>2, <2>3 DEF MonitorInv, EntriesAreFresh
    <3>2. ASSUME NEW i \in DOMAIN list', NEW d \in list'[i].cpus
          PROVE  /\ cpu'[d].at \in {"linked", "store"} /\ cpu'[d].word = list'[i].addr
                 /\ cpu'[d].seen = version'[list'[i].addr]
      <4>1. list'[i].addr = list[i].addr /\ (d \in list[i].cpus \/ (d = c /\ i = k))
        BY <2>2, <2>3
      <4>2. CASE d \in list[i].cpus
        BY <1>1, <1>2, <1>3, <1>4, <2>3, <4>1, <4>2 DEF MonitorInv, EntriesAreFresh
      <4>3. CASE d = c /\ i = k BY <1>1, <1>2, <2>2, <4>1, <4>3
      <4> QED BY <4>1, <4>2, <4>3
    <3> QED BY <3>1, <3>2 DEF EntriesAreFresh
  <2>7. StorersAreAlone' BY <1>1, <1>5, <1>8 DEF StorersAreAlone, IsRoger
  <2> QED BY <2>5, <2>6, <2>7 DEF MonitorInv
<1> QED BY <1>6, <1>7, <1>8

LEMMA TestExclusiveKeeps ==
  ASSUME "roger" \notin YieldingStores, MonitorInv, NEW c \in Cpus, TestExclusive(c)
  PROVE  MonitorInv'
<1> DEFINE w == cpu[c].word
<1>1. cpu[c].at = "linked" /\ UNCHANGED platform BY DEF TestExclusive
<1>2. cpu \in [Cpus -> [at : {"idle", "linked", "store"}, word : Words, seen : Nat]]
  BY DEF MonitorInv, MonitorTypes
<1>3. ASSUME NEW i \in DOMAIN list, c \in list[i].cpus PROVE Granted(c, w) /\ i = First(w)
  <2>1. i \in Find(w) BY <1>3 DEF MonitorInv, EntriesAreFresh, Find
  <2>2. i = First(w) BY <2>1, FirstIsFind
  <2> QED BY <1>3, <2>1, <2>2 DEF Granted
<1>4. CASE Granted(c, w) /\ ~StoreYields
  <2>1. /\ cpu' = [cpu EXCEPT ![c].at = "idle"] /\ list' = Delete(w)
        /\ version' = [version EXCEPT ![w] = @ + 1]
    BY <1>4 DEF TestExclusive, AfterTest, AfterStore
  <2> QED BY <1>1, <1>4, <2>1, GrantedStoreKeeps
<1>5. CASE Granted(c, w) /\ StoreYields
  <2>1. ~IsRoger BY <1>5 DEF StoreYields, IsRoger
  <2>2. cpu' = [cpu EXCEPT ![c].at = "store"] /\ UNCHANGED <<list, version>>
    BY <1>5, <2>1 DEF TestExclusive, AfterTest
  <2>3. /\ cpu'[c] = [cpu[c] EXCEPT !.at = "store"] /\ cpu'[c].at = "store"
        /\ cpu'[c].word = cpu[c].word /\ cpu'[c].seen = cpu[c].seen
        /\ \A d \in Cpus : d # c => cpu'[d] = cpu[d]
    BY <1>2, <2>2
  <2>4. MonitorTypes' BY <1>1, <1>2, <2>2 DEF MonitorInv, MonitorTypes
  <2>5. EntriesAreFresh'
    BY <1>1, <2>2, <2>3, EntryOf DEF MonitorInv, EntriesAreFresh
  <2>6. First(w) \in Find(w) /\ c \in list[First(w)].cpus
    BY <1>5, FirstIsFind DEF Granted
  <2>7. StorersAreAlone'
    BY <1>1, <2>1, <2>2, <2>3, <2>6 DEF MonitorInv, StorersAreAlone, IsRoger, Find
  <2> QED BY <2>4, <2>5, <2>7 DEF MonitorInv
<1>6. CASE ~Granted(c, w)
  <2>1. cpu' = [cpu EXCEPT ![c].at = "idle"] /\ UNCHANGED <<list, version>>
    BY <1>6 DEF TestExclusive
  <2>2. cpu'[c].at = "idle" /\ \A d \in Cpus : d # c => cpu'[d] = cpu[d] BY <1>2, <2>1
  <2>3. \A i \in DOMAIN list : c \notin list[i].cpus BY <1>3, <1>6
  <2>4. MonitorTypes' BY <1>1, <1>2, <2>1 DEF MonitorInv, MonitorTypes
  <2>5. EntriesAreFresh'
    BY <1>1, <2>1, <2>2, <2>3, EntryOf DEF MonitorInv, EntriesAreFresh
  <2>6. StorersAreAlone'
    BY <1>1, <2>1, <2>2 DEF MonitorInv, StorersAreAlone, IsRoger, Find
  <2> QED BY <2>4, <2>5, <2>6 DEF MonitorInv
<1> QED BY <1>4, <1>5, <1>6

LEMMA StorerIsGranted ==
  ASSUME MonitorInv, NEW c \in Cpus, cpu[c].at = "store"
  PROVE  Granted(c, cpu[c].word) /\ ~IsRoger
<1>1. PICK i \in Find(cpu[c].word) : c \in list[i].cpus /\ ~IsRoger
  BY DEF MonitorInv, StorersAreAlone
<1>2. i = First(cpu[c].word) BY <1>1, FirstIsFind
<1> QED BY <1>1, <1>2 DEF Granted

LEMMA MonitorStepKeeps ==
  ASSUME "roger" \notin YieldingStores, MonitorInv, [MonitorNext]_monitorVars
  PROVE  MonitorInv'
<1>1. CASE MonitorNext
  <2>1. PICK c \in Cpus : CpuStep(c) BY <1>1 DEF MonitorNext
  <2>2. CASE \E w \in Words : LoadExclusive(c, w) BY <2>2, LoadExclusiveKeeps
  <2>3. CASE TestExclusive(c) BY <2>3, TestExclusiveKeeps
  <2>4. CASE StoreExclusive(c)
    <3>1. cpu[c].at = "store" /\ list' = AfterStore(cpu[c].word) BY <2>4 DEF StoreExclusive
    <3>2. Granted(c, cpu[c].word) /\ ~IsRoger BY <3>1, StorerIsGranted
    <3>3. list' = Delete(cpu[c].word) BY <3>1, <3>2 DEF AfterStore
    <3> QED BY <2>4, <3>2, <3>3, GrantedStoreKeeps DEF StoreExclusive
  <2> QED BY <2>1, <2>2, <2>3, <2>4 DEF CpuStep
<1>2. CASE UNCHANGED monitorVars
  BY <1>2 DEF monitorVars, MonitorInv, MonitorTypes, EntriesAreFresh, StorersAreAlone, IsRoger, Find
<1> QED BY <1>1, <1>2

LEMMA MonitorStarts == MonitorInit => MonitorInv
<1> SUFFICES ASSUME MonitorInit PROVE MonitorInv OBVIOUS
<1>1. list = <<>> /\ list \in Seq(Entry) /\ DOMAIN list = {} BY DEF MonitorInit
<1>2. \A c \in Cpus : /\ cpu[c].at = "idle"
                      /\ cpu[c] \in [at : {"idle", "linked", "store"}, word : Words, seen : Nat]
  BY DEF MonitorInit
<1>3. MonitorTypes BY <1>1, <1>2 DEF MonitorInit, MonitorTypes
<1> QED BY <1>1, <1>2, <1>3 DEF MonitorInv, EntriesAreFresh, StorersAreAlone

(* A store-exclusive only succeeds on the value its CPU loaded, on every platform, for
   any number of CPUs, words and stores, if no CPU runs between the test and the store
   on roger (memory_mark_exclusive, memory_test_exclusive, memory_clear_exclusive). *)
THEOREM UpdatesAreKept ==
  ASSUME "roger" \notin YieldingStores
  PROVE  MonitorSpec => NoLostUpdate
<1>1. MonitorInv /\ [MonitorNext]_monitorVars => [OverwritesWhatItLoaded]_monitorVars
  <2> SUFFICES ASSUME MonitorInv, MonitorNext, NEW c \in Cpus,
                      cpu[c].at \in {"linked", "store"}, cpu'[c].at = "idle",
                      version'[cpu[c].word] # version[cpu[c].word]
               PROVE  cpu[c].seen = version[cpu[c].word]
    BY DEF OverwritesWhatItLoaded
  <2>1. PICK d \in Cpus : CpuStep(d) BY DEF MonitorNext
  <2>2. ~ \E w \in Words : LoadExclusive(d, w) BY <2>1 DEF LoadExclusive
  <2>3. TestExclusive(d) \/ StoreExclusive(d) BY <2>1, <2>2 DEF CpuStep
  <2>4. cpu \in [Cpus -> [at : {"idle", "linked", "store"}, word : Words, seen : Nat]]
    BY DEF MonitorInv, MonitorTypes
  <2>5. d = c BY <2>3, <2>4 DEF TestExclusive, StoreExclusive
  <2>6. Granted(c, cpu[c].word)
    BY <2>3, <2>5, StorerIsGranted DEF TestExclusive, StoreExclusive
  <2> QED BY <2>6, GrantedIsFresh
<1>2. MonitorInv /\ [MonitorNext]_monitorVars => MonitorInv' BY MonitorStepKeeps
<1> QED BY <1>1, <1>2, MonitorStarts, PTL DEF MonitorSpec, NoLostUpdate
-----------------------------------------------------------------------------
(* The mailbox.  Whoever holds the lock of a mailbox is its only sender, finds it
   empty once it has polled, and fills it register by register; between the command
   and the reset nobody writes.  The invariant says so of every sender and every box. *)
Messages == {None} \cup (Senders \X Nat)
Values == Messages \cup {Clear, New}
Holding == {"polling", "data", "reserved", "command", "unlocking"}

MailTypes ==
    /\ sem \in [Boxes -> 0 .. 2]
    /\ regs \in [Boxes -> [0 .. 3 -> Values]]
    /\ irq \in [Boxes -> BOOLEAN]
    /\ at \in [Senders -> Holding \cup {"booting", "off", "idle"}]
    /\ to \in [Senders -> Boxes]
    /\ msg \in [Senders -> Messages] /\ sent \in [Senders -> Nat]
    /\ reader \in [Boxes -> Seq(Values)]
    /\ posted \in [Boxes -> Seq(Messages)]
    /\ received \in [Boxes -> Seq(Seq(Values))]

\* The lock of sem_device keeps senders apart, also the one that takes it by a write.
OneHolder ==
    /\ \A s \in Senders : at[s] \in Holding => sem[to[s]] # 0
    /\ \A s, t \in Senders :
          at[s] \in Holding /\ at[t] \in Holding /\ to[s] = to[t] => s = t
    /\ at[Boot] = "booting" => \A b \in Boxes : sem[b] = 0
    /\ at[Boot] = "booting" => \A s \in Senders \ {Boot} : at[s] = "off"
    /\ \A s \in Senders \ {Boot} : at[s] # "booting"

\* What a sender that has polled has written so far.
Filled ==
    \A s \in Senders :
        /\ at[s] \in {"data", "reserved", "command"} => regs[to[s]][RESET] = Clear
        /\ at[s] \in {"reserved", "command"} => regs[to[s]][DATA] = msg[s]
        /\ at[s] = "command" => regs[to[s]][RESERVED] = msg[s]

LastPosted(b) == posted[b][Len(posted[b])]

\* A mailbox that is new holds the last message posted, and its reader has read only that.
BoxHolds(b) ==
    /\ regs[b][RESET] \in {Clear, New}
    /\ irq[b] <=> regs[b][RESET] = New
    /\ regs[b][RESET] = New =>
          /\ Len(posted[b]) > 0
          /\ \A r \in 0 .. 2 : regs[b][r] = LastPosted(b)
    /\ Len(reader[b]) \in 0 .. 3
    /\ Len(reader[b]) > 0 => regs[b][RESET] = New
    /\ \A i \in 1 .. Len(reader[b]) : reader[b][i] = LastPosted(b)

BoxArrives(b) ==
    /\ \A i \in DOMAIN received[b] :
          /\ i \in DOMAIN posted[b]
          /\ received[b][i] = [r \in 1 .. 3 |-> posted[b][i]]
    /\ Len(posted[b]) = Len(received[b]) + (IF regs[b][RESET] = New THEN 1 ELSE 0)

MailInv ==
    /\ MailTypes
    /\ OneHolder
    /\ Filled
    /\ \A b \in Boxes : BoxHolds(b) /\ BoxArrives(b)

\* Offsets and byte enables find the register again.
LEMMA RegisterIsFound ==
  ASSUME NEW b \in Nat, NEW r \in 0 .. 3
  PROVE  Box(Register(b, r)) = b /\ Local(Register(b, r)) = r
<1>1. Register(b, r) = 16 * b + 4 * r BY DEF Register, SPAN
<1>2. Index(Register(b, r)) = 4 * b + r BY <1>1 DEF Index
<1> QED BY <1>2 DEF Box, Local, SPAN

LEMMA BoxWriteIs ==
  ASSUME NEW b \in Boxes, NEW r \in 0 .. 3, NEW v, MailTypes, BoxWrite(Register(b, r), v)
  PROVE  /\ regs' = [c \in Boxes |-> regs'[c]] /\ irq' = [c \in Boxes |-> irq'[c]]
         /\ \A c \in Boxes \ {b} : regs'[c] = regs[c] /\ irq'[c] = irq[c]
         /\ r = COMM => /\ regs'[b] = [regs[b] EXCEPT ![COMM] = v, ![RESET] = New]
                        /\ irq'[b] = TRUE
         /\ r = RESET => /\ regs'[b] = [regs[b] EXCEPT ![RESET] = Clear]
                         /\ irq'[b] = FALSE
         /\ r \in {DATA, RESERVED} => /\ regs'[b] = [regs[b] EXCEPT ![r] = v]
                                      /\ irq'[b] = irq[b]
<1>1. Box(Register(b, r)) = b /\ Local(Register(b, r)) = r
  BY RegisterIsFound, MailboxAssumption
<1>2. /\ DOMAIN regs = Boxes /\ regs = [c \in Boxes |-> regs[c]]
      /\ DOMAIN irq = Boxes /\ irq = [c \in Boxes |-> irq[c]]
  BY DEF MailTypes
<1>3. irq' = [irq EXCEPT ![b] = IF r = COMM THEN TRUE ELSE IF r = RESET THEN FALSE ELSE @]
  BY <1>1 DEF BoxWrite
<1>4. regs' = [regs EXCEPT ![b] =
          CASE r = COMM  -> [@ EXCEPT ![COMM] = v, ![RESET] = New]
            [] r = RESET -> [@ EXCEPT ![RESET] = Clear]
            [] OTHER     -> [@ EXCEPT ![r] = v]]
  BY <1>1 DEF BoxWrite
<1>5. CASE r = COMM
  <2>1. COMM # RESET /\ r \notin {DATA, RESERVED} BY <1>5 DEF COMM, RESET, DATA, RESERVED
  <2>2. irq' = [irq EXCEPT ![b] = TRUE] BY <1>3, <1>5
  <2>3. regs' = [regs EXCEPT ![b] = [regs[b] EXCEPT ![COMM] = v, ![RESET] = New]]
    BY <1>2, <1>4, <1>5, <2>1
  <2> QED BY <1>2, <1>5, <2>1, <2>2, <2>3
<1>6. CASE r = RESET
  <2>1. COMM # RESET /\ r \notin {DATA, RESERVED} BY <1>6 DEF COMM, RESET, DATA, RESERVED
  <2>2. irq' = [irq EXCEPT ![b] = FALSE] BY <1>3, <1>6, <2>1
  <2>3. regs' = [regs EXCEPT ![b] = [regs[b] EXCEPT ![RESET] = Clear]]
    BY <1>2, <1>4, <1>6, <2>1
  <2> QED BY <1>2, <1>6, <2>1, <2>2, <2>3
<1>7. CASE r \in {DATA, RESERVED}
  <2>1. r # COMM /\ r # RESET BY <1>7 DEF COMM, RESET, DATA, RESERVED
  <2>2. irq' = [irq EXCEPT ![b] = irq[b]] BY <1>2, <1>3, <2>1
  <2>3. regs' = [regs EXCEPT ![b] = [regs[b] EXCEPT ![r] = v]] BY <1>2, <1>4, <2>1
  <2> QED BY <1>2, <2>1, <2>2, <2>3
<1>8. r = COMM \/ r = RESET \/ r \in {DATA, RESERVED} BY DEF COMM, RESET, DATA, RESERVED
<1> QED BY <1>5, <1>6, <1>7, <1>8

LEMMA MailStarts == MailInit => MailInv
<1> SUFFICES ASSUME MailInit PROVE MailInv OBVIOUS
<1>1. MailTypes
  BY DEF MailInit, MailTypes, Messages, Values, Holding
<1>2. OneHolder BY MailboxAssumption DEF MailInit, OneHolder, Holding
<1>3. Filled BY DEF MailInit, Filled
<1>4. \A b \in Boxes : BoxHolds(b) /\ BoxArrives(b)
  BY DEF MailInit, BoxHolds, BoxArrives, RESET, Clear, New
<1> QED BY <1>1, <1>2, <1>3, <1>4 DEF MailInv

\* The steps of a sender that only touch the lock.
LEMMA LockStepKeeps ==
  ASSUME MailInv, NEW s \in Senders, Reserve(s) \/ Lock(s) \/ Poll(s) \/ Unlock(s)
  PROVE  MailInv'
<1> USE MailboxAssumption DEF MailInv
<1>1. UNCHANGED <<regs, irq, reader, posted, received>>
  BY DEF Reserve, Lock, Poll, Unlock, device
<1>2. \A b \in Boxes : BoxHolds(b)' /\ BoxArrives(b)'
  <2> TAKE b \in Boxes
  <2>1. BoxHolds(b) /\ BoxArrives(b) OBVIOUS
  <2>2. BoxHolds(b)' BY <1>1, <2>1 DEF BoxHolds, LastPosted
  <2>3. BoxArrives(b)' BY <1>1, <2>1 DEF BoxArrives
  <2> QED BY <2>2, <2>3
<1>3. CASE Reserve(s)
  <2>1. s = Boot /\ sem' = [sem EXCEPT ![to[s]] = 1] /\ to' = to /\ msg' = msg /\ sent' = sent
    BY <1>3 DEF Reserve, SemWrite, OneHolder, MailTypes
  <2>2. at' = [t \in Senders |-> IF t = s THEN "polling" ELSE "idle"] BY <1>3 DEF Reserve
  <2>3. MailTypes' BY <1>1, <2>1, <2>2 DEF MailTypes, Holding
  <2>4. OneHolder' BY <2>1, <2>2 DEF OneHolder, Holding, MailTypes
  <2>5. Filled' BY <2>2 DEF Filled
  <2> QED BY <1>2, <2>3, <2>4, <2>5
<1>4. CASE Lock(s)
  <2>1. at[s] = "idle" /\ UNCHANGED <<to, msg, sent>> BY <1>4 DEF Lock
  <2>2. CASE sem[to[s]] = 0
    <3>1. sem' = [sem EXCEPT ![to[s]] = 1] /\ at' = [at EXCEPT ![s] = "polling"]
      BY <1>4, <2>2 DEF Lock, SemRead, SemTaken, Step, MailTypes
    <3>2. MailTypes' BY <1>1, <2>1, <3>1 DEF MailTypes, Holding
    <3>3. OneHolder' BY <2>1, <2>2, <3>1 DEF OneHolder, Holding, MailTypes
    <3>4. Filled' BY <1>1, <2>1, <3>1 DEF Filled, MailTypes
    <3> QED BY <1>2, <3>2, <3>3, <3>4
  <2>3. CASE sem[to[s]] # 0
    <3>1. sem' = sem /\ at' = at
      BY <1>4, <2>1, <2>3 DEF Lock, SemRead, SemTaken, Step, MailTypes
    <3> QED BY <1>1, <1>2, <2>1, <3>1 DEF MailTypes, OneHolder, Filled
  <2> QED BY <2>2, <2>3
<1>5. CASE Poll(s)
  <2>1. at[s] = "polling" /\ at' = [at EXCEPT ![s] = "data"] /\ UNCHANGED <<sem, to, sent>>
        /\ msg' = [msg EXCEPT ![s] = <<s, sent[s]>>]
    BY <1>5 DEF Poll, Step, device
  <2>2. to[s] \in Boxes /\ to[s] \in Nat BY DEF MailTypes
  <2>3. regs[to[s]][RESET] = Clear
    BY <1>5, <2>2, RegisterIsFound DEF Poll, BoxRead, RESET
  <2>4. <<s, sent[s]>> \in Messages BY DEF MailTypes, Messages
  <2>5. MailTypes' BY <1>1, <2>1, <2>4 DEF MailTypes, Holding
  <2>6. OneHolder' BY <2>1 DEF OneHolder, Holding, MailTypes
  <2>7. Filled' BY <1>1, <2>1, <2>3 DEF Filled, MailTypes
  <2> QED BY <1>2, <2>5, <2>6, <2>7
<1>6. CASE Unlock(s)
  <2>1. at[s] = "unlocking" /\ at' = [at EXCEPT ![s] = "idle"] /\ msg' = msg
        /\ sem' = [sem EXCEPT ![to[s]] = 0] /\ sent' = [sent EXCEPT ![s] = @ + 1]
    BY <1>6 DEF Unlock, SemWrite, Step, MailTypes
  <2>2. PICK b \in Boxes : to' = [to EXCEPT ![s] = b] BY <1>6 DEF Unlock
  <2>3. MailTypes' BY <1>1, <2>1, <2>2 DEF MailTypes, Holding
  <2>4. OneHolder' BY <2>1, <2>2 DEF OneHolder, Holding, MailTypes
  <2>5. Filled' BY <1>1, <2>1, <2>2 DEF Filled, MailTypes
  <2> QED BY <1>2, <2>3, <2>4, <2>5
<1> QED BY <1>3, <1>4, <1>5, <1>6

LEMMA SendUseKeeps ==
  ASSUME MailInv, NEW s \in Senders, NEW b \in Boxes, b = to[s], SendUse(s)
  PROVE  MailInv'
<1>1. /\ b \in Boxes /\ at[s] \in {"data", "reserved", "command"} /\ regs[b][RESET] = Clear
      /\ MailTypes /\ OneHolder /\ Filled /\ msg[s] \in Messages
      /\ DOMAIN regs[b] = 0 .. 3
  BY DEF MailInv, MailTypes, Filled, SendUse
<1>2. UNCHANGED <<sem, to, msg, sent, reader, received>> BY DEF SendUse
<1>3. PICK r \in 0 .. 3 :
        /\ r = CASE at[s] = "data" -> DATA [] at[s] = "reserved" -> RESERVED [] OTHER -> COMM
        /\ BoxWrite(Register(b, r), msg[s])
  BY DEF SendUse, DATA, RESERVED, COMM
<1>4. /\ \A c \in Boxes \ {b} : regs'[c] = regs[c] /\ irq'[c] = irq[c]
      /\ regs' = [c \in Boxes |-> regs'[c]] /\ irq' = [c \in Boxes |-> irq'[c]]
      /\ r = COMM => /\ regs'[b] = [regs[b] EXCEPT ![COMM] = msg[s], ![RESET] = New]
                     /\ irq'[b] = TRUE
      /\ r \in {DATA, RESERVED} => /\ regs'[b] = [regs[b] EXCEPT ![r] = msg[s]]
                                   /\ irq'[b] = irq[b]
  <2>1. MailTypes /\ BoxWrite(Register(b, r), msg[s]) BY <1>1, <1>3
  <2> QED BY ONLY <2>1, BoxWriteIs, b \in Boxes, r \in 0 .. 3
<1>5. at' = [at EXCEPT ![s] = CASE at[s] = "data" -> "reserved" [] at[s] = "reserved" -> "command"
                                 [] OTHER -> "unlocking"]
  BY DEF SendUse, Step
<1>6. posted' = [posted EXCEPT ![b] = IF at[s] = "command" THEN Append(@, msg[s]) ELSE @]
  BY DEF SendUse
<1>7. to' = to /\ b = to[s] /\ at'[s] \in Holding /\ at[s] \in Holding
      /\ \A t \in Senders \ {s} : at'[t] = at[t]
  BY <1>1, <1>2, <1>5 DEF Holding, MailTypes
<1>8. OneHolder' BY MailboxAssumption, <1>1, <1>2, <1>7 DEF OneHolder, Holding
<1>9. \A t \in Senders \ {s} : at[t] \in Holding => to[t] # b /\ regs'[to[t]] = regs[to[t]]
  BY <1>1, <1>4, <1>7 DEF OneHolder, MailTypes
<1>10. \A c \in Boxes \ {b} : BoxHolds(c)' /\ BoxArrives(c)'
  <2> TAKE c \in Boxes \ {b}
  <2>1. BoxHolds(c) /\ BoxArrives(c) BY DEF MailInv
  <2>2. regs'[c] = regs[c] /\ irq'[c] = irq[c] /\ posted'[c] = posted[c]
    BY <1>1, <1>4, <1>6 DEF MailTypes
  <2>3. BoxHolds(c)' BY <1>2, <2>1, <2>2 DEF BoxHolds, LastPosted
  <2>4. received'[c] = received[c] /\ posted'[c] = posted[c] /\ regs'[c] = regs[c]
    BY <1>2, <2>2
  <2>5. BoxArrives(c)' BY ONLY <2>1, <2>4 DEF BoxArrives
  <2> QED BY <2>3, <2>5
<1>11. BoxHolds(b) /\ BoxArrives(b) BY <1>1 DEF MailInv
<1>12. \A t \in Senders \ {s} :
          /\ at'[t] \in {"data", "reserved", "command"} => regs'[to[t]][RESET] = Clear
          /\ at'[t] \in {"reserved", "command"} => regs'[to[t]][DATA] = msg[t]
          /\ at'[t] = "command" => regs'[to[t]][RESERVED] = msg[t]
  <2> TAKE t \in Senders \ {s}
  <2>1. CASE at[t] \in {"data", "reserved", "command"}
    <3>1. regs'[to[t]] = regs[to[t]] BY <1>9, <2>1 DEF Holding
    <3> QED BY <1>1, <1>7, <3>1 DEF Filled
  <2>2. CASE at[t] \notin {"data", "reserved", "command"} BY <1>7, <2>2
  <2> QED BY <2>1, <2>2
<1>13. CASE r = COMM
  <2>1. at[s] = "command" /\ at'[s] = "unlocking"
    BY <1>1, <1>3, <1>5, <1>13 DEF COMM, DATA, RESERVED, MailTypes
  <2>2. posted[b] \in Seq(Messages) /\ posted'[b] = Append(posted[b], msg[s])
        /\ DOMAIN posted' = Boxes
    BY <1>1, <1>6, <2>1 DEF MailTypes
  <2>3. regs'[b][DATA] = msg[s] /\ regs'[b][RESERVED] = msg[s]
    BY <1>1, <1>4, <1>7, <1>13, <2>1 DEF Filled, COMM, DATA, RESERVED, RESET
  <2>4. regs'[b][COMM] = msg[s] /\ regs'[b][RESET] = New /\ irq'[b] = TRUE
    BY <1>1, <1>4, <1>13 DEF COMM, RESET
  <2>5. MailTypes'
    <3>1. regs'[b] \in [0 .. 3 -> Values]
      <4>1. regs[b] \in [0 .. 3 -> Values] /\ msg[s] \in Values /\ New \in Values
        BY <1>1 DEF MailTypes, Values
      <4>2. regs'[b] = [regs[b] EXCEPT ![COMM] = msg[s], ![RESET] = New] BY <1>4, <1>13
      <4> QED BY <4>1, <4>2
    <3>2. regs' \in [Boxes -> [0 .. 3 -> Values]]
      <4>1. \A c \in Boxes : regs'[c] \in [0 .. 3 -> Values] BY <1>4, <3>1, <1>1 DEF MailTypes
      <4> QED BY <1>4, <4>1
    <3>3. irq' \in [Boxes -> BOOLEAN] BY <1>1, <1>4, <2>4 DEF MailTypes
    <3>4. posted' \in [Boxes -> Seq(Messages)]
      <4>1. posted' = [posted EXCEPT ![b] = Append(posted[b], msg[s])] BY <1>6, <2>1, <1>1 DEF MailTypes
      <4>2. Append(posted[b], msg[s]) \in Seq(Messages) BY <1>1, <2>2
      <4> QED BY <1>1, <4>1, <4>2 DEF MailTypes
    <3> QED BY <1>1, <1>2, <1>5, <3>2, <3>3, <3>4 DEF MailTypes, Holding
  <2>6. Filled' BY <1>2, <1>12, <2>1 DEF Filled
  <2>7. Len(posted'[b]) = Len(posted[b]) + 1 /\ posted'[b][Len(posted[b]) + 1] = msg[s]
        /\ \A i \in DOMAIN posted[b] : i \in DOMAIN posted'[b] /\ posted'[b][i] = posted[b][i]
    BY <1>1, <2>2
  <2>8. BoxHolds(b)'
    <3>1. Len(reader[b]) = 0 BY <1>1, <1>11 DEF BoxHolds, Clear, New
    <3>2. \A q \in 0 .. 2 : regs'[b][q] = msg[s] BY <2>3, <2>4 DEF COMM, DATA, RESERVED
    <3>3. LastPosted(b)' = msg[s] /\ Len(posted[b]) \in Nat BY <2>2, <2>7 DEF LastPosted
    <3> QED BY <1>2, <2>4, <2>7, <3>1, <3>2, <3>3 DEF BoxHolds
  <2>9. BoxArrives(b)'
    <3>1. Len(posted[b]) = Len(received[b]) /\ received'[b] = received[b]
      BY <1>1, <1>2, <1>11 DEF BoxArrives, Clear, New
    <3>2. \A i \in DOMAIN received[b] :
            i \in DOMAIN posted[b] /\ received[b][i] = [q \in 1 .. 3 |-> posted[b][i]]
      BY <1>11 DEF BoxArrives
    <3>3. \A i \in DOMAIN received[b] :
            i \in DOMAIN posted'[b] /\ received[b][i] = [q \in 1 .. 3 |-> posted'[b][i]]
      BY <2>7, <3>2
    <3> QED BY <2>4, <2>7, <3>1, <3>3 DEF BoxArrives
  <2> QED BY <1>8, <1>10, <2>5, <2>6, <2>8, <2>9 DEF MailInv
<1>14. CASE r \in {DATA, RESERVED}
  <2>1. /\ at[s] = "data" => r = DATA /\ at'[s] = "reserved"
        /\ at[s] = "reserved" => r = RESERVED /\ at'[s] = "command"
        /\ at[s] # "command"
    BY <1>1, <1>3, <1>5, <1>14 DEF COMM, DATA, RESERVED, MailTypes
  <2>2. posted' = posted BY <1>1, <1>6, <2>1 DEF MailTypes
  <2>3. regs'[b] = [regs[b] EXCEPT ![r] = msg[s]] /\ irq'[b] = irq[b] BY <1>4, <1>14
  <2>4. regs'[b][RESET] = Clear BY <1>1, <1>14, <2>3 DEF DATA, RESERVED, RESET
  <2>5. MailTypes'
    <3>1. regs'[b] \in [0 .. 3 -> Values] BY <1>1, <2>3 DEF MailTypes, Values
    <3>2. regs' \in [Boxes -> [0 .. 3 -> Values]]
      <4>1. \A c \in Boxes : regs'[c] \in [0 .. 3 -> Values] BY <1>4, <3>1, <1>1 DEF MailTypes
      <4> QED BY <1>4, <4>1
    <3>3. irq' = irq BY <1>1, <1>4, <2>3 DEF MailTypes
    <3> QED BY <1>1, <1>2, <1>5, <2>2, <3>2, <3>3 DEF MailTypes, Holding
  <2>6. Filled'
    <3>1. at'[s] \in {"reserved", "command"} => regs'[b][DATA] = msg[s]
      BY <1>1, <1>7, <2>1, <2>3 DEF Filled, DATA, RESERVED
    <3>2. at'[s] = "command" => regs'[b][RESERVED] = msg[s]
      BY <1>1, <2>1, <2>3 DEF DATA, RESERVED
    <3> QED BY <1>2, <1>7, <1>12, <2>1, <2>4, <3>1, <3>2 DEF Filled
  <2>7. BoxHolds(b)' BY <1>1, <1>2, <1>11, <2>2, <2>3, <2>4 DEF BoxHolds, LastPosted, Clear, New
  <2>8. BoxArrives(b)' BY <1>1, <1>2, <1>11, <2>2, <2>4 DEF BoxArrives, Clear, New
  <2> QED BY <1>8, <1>10, <2>5, <2>6, <2>7, <2>8 DEF MailInv
<1> QED BY <1>3, <1>13, <1>14

LEMMA ReceiveKeeps ==
  ASSUME MailInv, NEW b \in Boxes, Receive(b)
  PROVE  MailInv'
<1>1. /\ UNCHANGED <<sem, regs, irq, at, to, msg, sent, posted, received>>
      /\ Len(reader[b]) < 3 /\ irq[b]
  BY DEF Receive, device, sender
<1>2. MailTypes /\ BoxHolds(b) /\ reader[b] \in Seq(Values) /\ irq[b] \in BOOLEAN
  BY DEF MailInv, MailTypes
<1>3. Len(reader[b]) \in 0 .. 2
  <2>1. Len(reader[b]) \in Nat BY <1>2
  <2>2. Len(reader[b]) < 3 BY DEF Receive
  <2>3. \A n \in Nat : n < 3 => n \in 0 .. 2 OBVIOUS
  <2> QED BY ONLY <2>1, <2>2, <2>3
<1>4. BoxRead(Register(b, Len(reader[b]))) = regs[b][Len(reader[b])]
  <2>1. b \in Nat BY MailboxAssumption
  <2>2. Len(reader[b]) \in 0 .. 3 BY <1>3
  <2> QED BY <2>1, <2>2, RegisterIsFound DEF BoxRead
<1>5. reader' = [reader EXCEPT ![b] = Append(reader[b], regs[b][Len(reader[b])])]
  BY <1>2, <1>4 DEF Receive, MailTypes
<1>6. regs[b][RESET] = New /\ regs[b][Len(reader[b])] = LastPosted(b)
  <2>1. regs[b][RESET] = New BY <1>1, <1>2 DEF BoxHolds
  <2>2. \A r \in 0 .. 2 : regs[b][r] = LastPosted(b) BY <1>2, <2>1 DEF BoxHolds
  <2> QED BY <1>3, <2>1, <2>2
<1>7. regs[b][Len(reader[b])] \in Values
  <2>1. regs[b] \in [0 .. 3 -> Values] BY <1>2 DEF MailTypes
  <2>2. \A n \in 0 .. 2 : regs[b][n] \in Values BY <2>1
  <2> QED BY <1>3, <2>2
<1>8. reader'[b] = Append(reader[b], LastPosted(b)) /\ reader'[b] \in Seq(Values)
      /\ \A c \in Boxes \ {b} : reader'[c] = reader[c]
  BY <1>2, <1>5, <1>6, <1>7 DEF MailTypes
<1>9. MailTypes' BY <1>1, <1>2, <1>5, <1>8 DEF MailTypes
<1>10. OneHolder' /\ Filled'
  <2>1. OneHolder' BY <1>1 DEF MailInv, OneHolder
  <2>2. Filled' BY <1>1 DEF MailInv, Filled
  <2> QED BY <2>1, <2>2
<1>11. \A c \in Boxes : BoxArrives(c)'
  <2> TAKE c \in Boxes
  <2>1. BoxArrives(c) BY DEF MailInv
  <2> QED BY <1>1, <2>1 DEF BoxArrives
<1>12. BoxHolds(b)'
  <2>1. LastPosted(b)' = LastPosted(b) BY <1>1 DEF LastPosted
  <2>2. Len(reader'[b]) = Len(reader[b]) + 1 BY <1>2, <1>7, <1>6, <1>8
  <2>3. \A i \in 1 .. Len(reader'[b]) : reader'[b][i] = LastPosted(b)
    BY <1>2, <1>6, <1>7, <1>8, <2>2 DEF BoxHolds
  <2> QED BY <1>1, <1>2, <1>3, <1>6, <2>1, <2>2, <2>3 DEF BoxHolds
<1>13. \A c \in Boxes \ {b} : BoxHolds(c)'
  <2> TAKE c \in Boxes \ {b}
  <2>1. BoxHolds(c) BY DEF MailInv
  <2> QED BY <1>1, <1>8, <2>1 DEF BoxHolds, LastPosted
<1> QED BY <1>9, <1>10, <1>11, <1>12, <1>13 DEF MailInv

LEMMA ResetKeeps ==
  ASSUME MailInv, NEW b \in Boxes, Reset(b)
  PROVE  MailInv'
<1>1. UNCHANGED <<sem, at, to, msg, sent, posted>> /\ Len(reader[b]) = 3
  BY DEF Reset, sender
<1>2. MailTypes /\ BoxHolds(b) /\ BoxArrives(b) /\ reader[b] \in Seq(Values)
      /\ posted[b] \in Seq(Messages) /\ received[b] \in Seq(Seq(Values))
  BY DEF MailInv, MailTypes
<1>3. BoxWrite(Register(b, RESET), None) /\ RESET \in 0 .. 3 BY DEF Reset, RESET
<1>4. /\ \A c \in Boxes \ {b} : regs'[c] = regs[c] /\ irq'[c] = irq[c]
      /\ regs' = [c \in Boxes |-> regs'[c]] /\ irq' = [c \in Boxes |-> irq'[c]]
      /\ regs'[b] = [regs[b] EXCEPT ![RESET] = Clear]
      /\ irq'[b] = FALSE
  BY ONLY <1>2, <1>3, BoxWriteIs, b \in Boxes
<1>5. received' = [received EXCEPT ![b] = Append(received[b], reader[b])]
      /\ reader' = [reader EXCEPT ![b] = <<>>]
  BY <1>2 DEF Reset, MailTypes
<1>6. regs[b][RESET] = New BY <1>1, <1>2 DEF BoxHolds
<1>7. regs'[b][RESET] = Clear /\ Clear # New BY <1>2, <1>4 DEF MailTypes, RESET, Clear, New
<1>8. MailTypes'
  <2>1. regs'[b] \in [0 .. 3 -> Values]
    <3>1. regs[b] \in [0 .. 3 -> Values] /\ Clear \in Values BY <1>2 DEF MailTypes, Values
    <3> QED BY <1>4, <3>1
  <2>2. \A c \in Boxes : regs'[c] \in [0 .. 3 -> Values] BY <1>2, <1>4, <2>1 DEF MailTypes
  <2>3. regs' \in [Boxes -> [0 .. 3 -> Values]] BY <1>4, <2>2
  <2>4. irq' \in [Boxes -> BOOLEAN] BY <1>2, <1>4 DEF MailTypes
  <2>5. Append(received[b], reader[b]) \in Seq(Seq(Values)) BY <1>2
  <2>6. received' \in [Boxes -> Seq(Seq(Values))] BY <1>2, <1>5, <2>5 DEF MailTypes
  <2>7. reader' \in [Boxes -> Seq(Values)] BY <1>2, <1>5 DEF MailTypes
  <2> QED BY <1>1, <1>2, <2>3, <2>4, <2>6, <2>7 DEF MailTypes
<1>9. OneHolder' BY <1>1 DEF MailInv, OneHolder
<1>10. Filled'
  <2>1. \A s \in Senders : at[s] \in {"data", "reserved", "command"} =>
            to[s] # b /\ regs'[to[s]] = regs[to[s]]
    BY <1>2, <1>4, <1>6 DEF MailInv, Filled, MailTypes, Clear, New
  <2> QED BY <1>1, <2>1 DEF MailInv, Filled
<1>11. \A c \in Boxes \ {b} : BoxHolds(c)' /\ BoxArrives(c)'
  <2> TAKE c \in Boxes \ {b}
  <2>1. BoxHolds(c) /\ BoxArrives(c) BY DEF MailInv
  <2>2. regs'[c] = regs[c] /\ irq'[c] = irq[c] /\ reader'[c] = reader[c]
        /\ received'[c] = received[c]
    BY <1>2, <1>4, <1>5 DEF MailTypes
  <2>3. BoxHolds(c)' BY <1>1, <2>1, <2>2 DEF BoxHolds, LastPosted
  <2>4. BoxArrives(c)' BY <1>1, <2>1, <2>2 DEF BoxArrives
  <2> QED BY <2>3, <2>4
<1>12. BoxHolds(b)'
  <2>1. reader'[b] = <<>> BY <1>2, <1>5 DEF MailTypes
  <2> QED BY <1>4, <1>7, <2>1 DEF BoxHolds
<1>13. BoxArrives(b)'
  <2>1. received'[b] = Append(received[b], reader[b]) BY <1>2, <1>5 DEF MailTypes
  <2>2. Len(posted[b]) = Len(received[b]) + 1 BY <1>2, <1>6 DEF BoxArrives
  <2>3. reader[b] = [q \in 1 .. 3 |-> LastPosted(b)] BY <1>1, <1>2, SMTT(30) DEF BoxHolds
  <2>4. Len(received'[b]) = Len(received[b]) + 1 /\ Len(received[b]) \in Nat
        /\ received'[b][Len(received[b]) + 1] = reader[b]
        /\ DOMAIN received'[b] = 1 .. Len(received[b]) + 1
        /\ DOMAIN received[b] = 1 .. Len(received[b])
        /\ \A i \in 1 .. Len(received[b]) : received'[b][i] = received[b][i]
    BY <1>2, <2>1
  <2>5. DOMAIN posted[b] = 1 .. Len(received[b]) + 1 BY <1>2, <2>2
  <2>6. \A i \in 1 .. Len(received[b]) : received[b][i] = [q \in 1 .. 3 |-> posted[b][i]]
    BY <1>2, <2>4 DEF BoxArrives
  <2>7. \A i \in 1 .. Len(received[b]) + 1 : received'[b][i] = [q \in 1 .. 3 |-> posted[b][i]]
    <3> TAKE i \in 1 .. Len(received[b]) + 1
    <3>1. CASE i \in 1 .. Len(received[b]) BY <2>4, <2>6, <3>1
    <3>2. CASE i = Len(received[b]) + 1 BY <2>2, <2>3, <2>4, <3>2 DEF LastPosted
    <3> QED BY <2>4, <3>1, <3>2
  <2> QED BY <1>1, <1>7, <2>2, <2>4, <2>5, <2>7 DEF BoxArrives
<1> QED BY <1>8, <1>9, <1>10, <1>11, <1>12, <1>13 DEF MailInv

LEMMA MailStepKeeps ==
  ASSUME MailInv, [MailNext]_mailVars
  PROVE  MailInv'
<1>1. CASE MailNext
  <2>1. CASE \E s \in Senders : Reserve(s) \/ Lock(s) \/ Poll(s) \/ Unlock(s)
    BY <2>1, LockStepKeeps
  <2>2. CASE \E s \in Senders : SendUse(s)
    <3>1. PICK s \in Senders : SendUse(s) BY <2>2
    <3>2. to[s] \in Boxes BY DEF MailInv, MailTypes
    <3> QED BY <3>1, <3>2, SendUseKeeps
  <2>3. CASE \E b \in Boxes : Receive(b) BY <2>3, ReceiveKeeps
  <2>4. CASE \E b \in Boxes : Reset(b) BY <2>4, ResetKeeps
  <2> QED BY <1>1, <2>1, <2>2, <2>3, <2>4 DEF MailNext
<1>2. CASE UNCHANGED mailVars
  BY <1>2 DEF mailVars, device, sender, MailInv, MailTypes, OneHolder, Filled, BoxHolds,
              BoxArrives, LastPosted
<1> QED BY <1>1, <1>2

(* Messages are received whole, in their order, once, for any number of senders,
   mailboxes and messages: sl_mailbox_device has no flow control, the lock of sem_device
   and the poll of the status before ecmgr_drv_chr_ioctl_send_use supply it. *)
THEOREM MessagesAreWhole == MailSpec => []MessagesArrive
<1>1. MailInv => MessagesArrive BY DEF MailInv, BoxArrives, MessagesArrive
<1>2. MailInv /\ [MailNext]_mailVars => MailInv' BY MailStepKeeps
<1> QED BY <1>1, <1>2, MailStarts, PTL DEF MailSpec
-----------------------------------------------------------------------------
(* The maps of the platforms.  Whichever window of its map takes it, the   *)
(* address of a memory leads to one place; the map file of roger reaches   *)
(* one more address of the memory through a window of its own.             *)

\* The place of an address of a memory.
Where(a) == IF a < 12 THEN <<"ram", a>> ELSE <<"sram", a - 12>>
Reached == (0 .. 4) \cup (12 .. 13)
Target(a, i) == <<table[i].slave, Inside(a, i)>>

LEMMA Searched ==
    ASSUME NEW a \in Address
    PROVE  /\ Dispatch(a) = {i \in DOMAIN table : /\ InWindow(a, table[i])
                                                  /\ \A j \in 1 .. i - 1 : ~InWindow(a, table[j])}
           /\ BackDoor(a) = {i \in DOMAIN table : /\ InWindowOrEnd(a, table[i])
                                                  /\ \A j \in 1 .. i - 1 : ~InWindowOrEnd(a, table[j])}
BY DEF Dispatch, BackDoor, Search

\* A window of the table: what an access through it reaches.
Leads(i, b, e, o, s) ==
    /\ \A a \in Address : InWindow(a, table[i]) <=> a >= b /\ a < e
    /\ \A a \in Address : InWindowOrEnd(a, table[i]) <=> a >= b /\ a <= e
    /\ \A a \in Address : Target(a, i) = <<s, a - b + o>>
    /\ table[i].slave = s

LEMMA WindowLeads ==
    ASSUME NEW i, NEW b \in 0 .. 20, NEW e \in 0 .. 20, NEW o \in 0 .. 4, NEW s,
           table[i] = Window(b, e, o, s)
    PROVE  Leads(i, b, e, o, s)
BY DEF Leads, Window, InWindow, InWindowOrEnd, Target, Inside

\* The windows of the memories are the first ones of each map.
LEMMA RamLeads ==
    ASSUME NEW a \in 0 .. 4, NEW e, Leads(1, 0, e, 0, "ram") PROVE Target(a, 1) = Where(a)
<1>1. a \in Address
  BY DEF Address
<1>2. Target(a, 1) = <<"ram", a - 0 + 0>>
  BY ONLY <1>1, Leads(1, 0, e, 0, "ram") DEF Leads
<1>3. Where(a) = <<"ram", a>> /\ a - 0 + 0 = a
  BY DEF Where
<1> QED  BY ONLY <1>2, <1>3

LEMMA SramLeads ==
    ASSUME NEW a \in 12 .. 13, Leads(2, 12, 14, 0, "sram") PROVE Target(a, 2) = Where(a)
<1>1. a \in Address
  BY DEF Address
<1>2. Target(a, 2) = <<"sram", a - 12 + 0>>
  BY ONLY <1>1, Leads(2, 12, 14, 0, "sram") DEF Leads
<1>3. Where(a) = <<"sram", a - 12>> /\ a - 12 + 0 = a - 12
  BY DEF Where
<1> QED  BY ONLY <1>2, <1>3

\* What the proofs use of a table.
OnePlace(a) ==
    /\ IsMemory(a) => a \in Reached /\ Dispatch(a) # {}
    /\ IsMemory(a) => \A i \in Dispatch(a) \cup BackDoor(a) : Target(a, i) = Where(a)

LEMMA RogerMaps == ASSUME table = Roger, NEW a \in Address PROVE OnePlace(a)
<1>1. DOMAIN table = 1 .. 8
  BY DEF Roger
<1>2. /\ Leads(1, 0, 4, 0, "ram") /\ Leads(2, 12, 14, 0, "sram") /\ Leads(3, 8, 10, 0, "fb")
      /\ Leads(4, 14, 16, 0, "tty") /\ Leads(5, 16, 17, 0, "block") /\ Leads(6, 6, 8, 0, "timer")
      /\ Leads(7, 10, 12, 0, "dbf") /\ Leads(8, 4, 5, 4, "ram")
  <2>1. /\ table[1] = Window(0, 4, 0, "ram") /\ table[2] = Window(12, 14, 0, "sram")
        /\ table[3] = Window(8, 10, 0, "fb") /\ table[4] = Window(14, 16, 0, "tty")
        /\ table[5] = Window(16, 17, 0, "block") /\ table[6] = Window(6, 8, 0, "timer")
        /\ table[7] = Window(10, 12, 0, "dbf") /\ table[8] = Window(4, 5, 4, "ram")
    BY DEF Roger
  <2>2. Leads(1, 0, 4, 0, "ram")
    BY ONLY <2>1, WindowLeads
  <2>3. Leads(2, 12, 14, 0, "sram")
    BY ONLY <2>1, WindowLeads
  <2>4. Leads(3, 8, 10, 0, "fb")
    BY ONLY <2>1, WindowLeads
  <2>5. Leads(4, 14, 16, 0, "tty")
    BY ONLY <2>1, WindowLeads
  <2>6. Leads(5, 16, 17, 0, "block")
    BY ONLY <2>1, WindowLeads
  <2>7. Leads(6, 6, 8, 0, "timer")
    BY ONLY <2>1, WindowLeads
  <2>8. Leads(7, 10, 12, 0, "dbf")
    BY ONLY <2>1, WindowLeads
  <2>9. Leads(8, 4, 5, 4, "ram")
    BY ONLY <2>1, WindowLeads
  <2> QED  BY ONLY <2>2, <2>3, <2>4, <2>5, <2>6, <2>7, <2>8, <2>9
<1>3. a \in 0 .. 19
  BY DEF Address
<1>4. ASSUME IsMemory(a) PROVE a \in Reached
  <2>1. PICK i \in 1 .. 8 : InWindow(a, table[i]) /\ table[i].slave \in {"ram", "sram"}
    BY <1>1, <1>4, Searched DEF IsMemory, Memories
  <2>2. i \in {1, 2, 8}
    <3>1. i \notin {3, 4, 5, 6, 7}
      BY <1>2, <2>1 DEF Leads
    <3> QED  BY <2>1, <3>1
  <2>3. a \in 0 .. 3 \/ a \in 12 .. 13 \/ a = 4
    BY <1>2, <1>3, <2>1, <2>2 DEF Leads
  <2> QED  BY <2>3 DEF Reached
<1>5. ASSUME IsMemory(a), NEW i \in Dispatch(a) PROVE Target(a, i) = Where(a)
  <2>1. /\ i \in 1 .. 8 /\ InWindow(a, table[i])
    BY <1>1, <1>5, Searched
  <2>2. a \in 0 .. 3 \/ a = 4 \/ a \in 12 .. 13
    BY <1>4, <1>5 DEF Reached
  <2>3. CASE a \in 0 .. 3
    <3>1. i = 1
      BY <1>2, <2>1, <2>3 DEF Leads
    <3> QED  BY <1>2, <2>3, <3>1, RamLeads
  <2>4. CASE a = 4
    <3>1. i = 8
      BY <1>2, <2>1, <2>4 DEF Leads
    <3>2. Target(a, 8) = <<"ram", a - 4 + 4>>
      <4>1. Leads(8, 4, 5, 4, "ram")
        BY ONLY <1>2
      <4> QED  BY ONLY <4>1, a \in Address DEF Leads
    <3> QED  BY <2>4, <3>1, <3>2 DEF Where
  <2>5. CASE a \in 12 .. 13
    <3>1. i = 2
      BY <1>2, <2>1, <2>5 DEF Leads
    <3> QED  BY <1>2, <2>5, <3>1, SramLeads
  <2> QED  BY <2>2, <2>3, <2>4, <2>5
<1>6. ASSUME IsMemory(a), NEW i \in BackDoor(a) PROVE Target(a, i) = Where(a)
  <2>1. /\ i \in 1 .. 8 /\ InWindowOrEnd(a, table[i])
        /\ \A j \in 1 .. i - 1 : ~InWindowOrEnd(a, table[j])
    BY <1>1, <1>6, Searched
  <2>2. a \in 0 .. 4 \/ a \in 12 .. 13
    BY <1>4, <1>6 DEF Reached
  <2>3. CASE a \in 0 .. 4
    <3>1. InWindowOrEnd(a, table[1])
      BY <1>2, <2>3 DEF Leads
    <3>2. i = 1
      BY <2>1, <3>1
    <3> QED  BY <1>2, <2>3, <3>2, RamLeads
  <2>4. CASE a \in 12 .. 13
    <3>1. InWindowOrEnd(a, table[2]) /\ ~InWindowOrEnd(a, table[1])
      BY <1>2, <2>4 DEF Leads
    <3>2. i = 2
      BY <2>1, <3>1
    <3> QED  BY <1>2, <2>4, <3>2, SramLeads
  <2> QED  BY <2>2, <2>3, <2>4
<1>7. IsMemory(a) => Dispatch(a) # {}
  BY DEF IsMemory
<1> QED  BY <1>4, <1>5, <1>6, <1>7 DEF OnePlace

LEMMA EnergizerMaps == ASSUME table = Energizer, NEW a \in Address PROVE OnePlace(a)
<1>1. DOMAIN table = 1 .. 7
  BY DEF Energizer
<1>2. /\ Leads(1, 0, 5, 0, "ram") /\ Leads(2, 12, 14, 0, "sram") /\ Leads(3, 8, 10, 0, "fb")
      /\ Leads(4, 14, 16, 0, "tty") /\ Leads(5, 16, 17, 0, "block") /\ Leads(6, 10, 12, 0, "dbf")
      /\ Leads(7, 6, 8, 0, "timer")
  <2>1. /\ table[1] = Window(0, 5, 0, "ram") /\ table[2] = Window(12, 14, 0, "sram")
        /\ table[3] = Window(8, 10, 0, "fb") /\ table[4] = Window(14, 16, 0, "tty")
        /\ table[5] = Window(16, 17, 0, "block") /\ table[6] = Window(10, 12, 0, "dbf")
        /\ table[7] = Window(6, 8, 0, "timer")
    BY DEF Energizer
  <2>2. Leads(1, 0, 5, 0, "ram")
    BY ONLY <2>1, WindowLeads
  <2>3. Leads(2, 12, 14, 0, "sram")
    BY ONLY <2>1, WindowLeads
  <2>4. Leads(3, 8, 10, 0, "fb")
    BY ONLY <2>1, WindowLeads
  <2>5. Leads(4, 14, 16, 0, "tty")
    BY ONLY <2>1, WindowLeads
  <2>6. Leads(5, 16, 17, 0, "block")
    BY ONLY <2>1, WindowLeads
  <2>7. Leads(6, 10, 12, 0, "dbf")
    BY ONLY <2>1, WindowLeads
  <2>8. Leads(7, 6, 8, 0, "timer")
    BY ONLY <2>1, WindowLeads
  <2> QED  BY ONLY <2>2, <2>3, <2>4, <2>5, <2>6, <2>7, <2>8
<1>3. a \in 0 .. 19
  BY DEF Address
<1>4. ASSUME IsMemory(a) PROVE a \in Reached
  <2>1. PICK i \in 1 .. 7 : InWindow(a, table[i]) /\ table[i].slave \in {"ram", "sram"}
    BY <1>1, <1>4, Searched DEF IsMemory, Memories
  <2>2. i \in {1, 2}
    <3>1. i \notin {3, 4, 5, 6, 7}
      BY <1>2, <2>1 DEF Leads
    <3> QED  BY <2>1, <3>1
  <2>3. a \in 0 .. 4 \/ a \in 12 .. 13
    BY <1>2, <1>3, <2>1, <2>2 DEF Leads
  <2> QED  BY <2>3 DEF Reached
<1>5. ASSUME IsMemory(a), NEW i \in Dispatch(a) \cup BackDoor(a) PROVE Target(a, i) = Where(a)
  <2>1. /\ i \in 1 .. 7 /\ (InWindow(a, table[i]) \/ InWindowOrEnd(a, table[i]))
        /\ \/ \A j \in 1 .. i - 1 : ~InWindow(a, table[j])
           \/ \A j \in 1 .. i - 1 : ~InWindowOrEnd(a, table[j])
    BY <1>1, <1>5, Searched
  <2>2. a \in 0 .. 4 \/ a \in 12 .. 13
    BY <1>4, <1>5 DEF Reached
  <2>3. CASE a \in 0 .. 4
    <3>1. InWindow(a, table[1]) /\ InWindowOrEnd(a, table[1])
      BY <1>2, <2>3 DEF Leads
    <3>2. 1 \notin 1 .. i - 1
      BY ONLY <2>1, <3>1
    <3>3. i = 1
      BY ONLY <2>1, <3>2
    <3> QED  BY <1>2, <2>3, <3>3, RamLeads
  <2>4. CASE a \in 12 .. 13
    <3>1. /\ InWindow(a, table[2]) /\ InWindowOrEnd(a, table[2])
          /\ ~InWindow(a, table[1]) /\ ~InWindowOrEnd(a, table[1])
      BY <1>2, <2>4 DEF Leads
    <3>2. 2 \notin 1 .. i - 1
      BY ONLY <2>1, <3>1
    <3>3. i # 1
      BY ONLY <2>1, <3>1
    <3>4. i = 2
      BY ONLY <2>1, <3>2, <3>3
    <3> QED  BY <1>2, <2>4, <3>4, SramLeads
  <2> QED  BY <2>2, <2>3, <2>4
<1>6. IsMemory(a) => Dispatch(a) # {}
  BY DEF IsMemory
<1> QED  BY <1>4, <1>5, <1>6 DEF OnePlace

LEMMA ThumperMaps == ASSUME table = Thumper, NEW a \in Address PROVE OnePlace(a)
<1>1. DOMAIN table = 1 .. 4
  BY DEF Thumper
<1>2. /\ Leads(1, 0, 4, 0, "ram") /\ Leads(2, 6, 8, 0, "tty") /\ Leads(3, 10, 11, 0, "timer")
      /\ Leads(4, 11, 12, 0, "timer")
  <2>1. /\ table[1] = Window(0, 4, 0, "ram") /\ table[2] = Window(6, 8, 0, "tty")
        /\ table[3] = Window(10, 11, 0, "timer") /\ table[4] = Window(11, 12, 0, "timer")
    BY DEF Thumper
  <2>2. Leads(1, 0, 4, 0, "ram")
    BY ONLY <2>1, WindowLeads
  <2>3. Leads(2, 6, 8, 0, "tty")
    BY ONLY <2>1, WindowLeads
  <2>4. Leads(3, 10, 11, 0, "timer")
    BY ONLY <2>1, WindowLeads
  <2>5. Leads(4, 11, 12, 0, "timer")
    BY ONLY <2>1, WindowLeads
  <2> QED  BY ONLY <2>2, <2>3, <2>4, <2>5
<1>3. a \in 0 .. 19
  BY DEF Address
<1>4. ASSUME IsMemory(a) PROVE a \in 0 .. 3
  <2>1. PICK i \in 1 .. 4 : InWindow(a, table[i]) /\ table[i].slave \in {"ram", "sram"}
    BY <1>1, <1>4, Searched DEF IsMemory, Memories
  <2>2. i = 1
    <3>1. i \notin {2, 3, 4}
      BY <1>2, <2>1 DEF Leads
    <3> QED  BY <2>1, <3>1
  <2> QED  BY <1>2, <1>3, <2>1, <2>2 DEF Leads
<1>5. ASSUME IsMemory(a), NEW i \in Dispatch(a) \cup BackDoor(a) PROVE Target(a, i) = Where(a)
  <2>1. /\ i \in 1 .. 4
        /\ \/ \A j \in 1 .. i - 1 : ~InWindow(a, table[j])
           \/ \A j \in 1 .. i - 1 : ~InWindowOrEnd(a, table[j])
    BY <1>1, <1>5, Searched
  <2>2. a \in 0 .. 3
    BY <1>4, <1>5
  <2>3. InWindow(a, table[1]) /\ InWindowOrEnd(a, table[1])
    BY <1>2, <2>2 DEF Leads
  <2>4. i = 1
    BY <2>1, <2>3
  <2> QED  BY <1>2, <2>2, <2>4, RamLeads
<1>6. IsMemory(a) => Dispatch(a) # {}
  BY DEF IsMemory
<1>7. IsMemory(a) => a \in Reached
  BY <1>4 DEF Reached
<1> QED  BY <1>5, <1>6, <1>7 DEF OnePlace
-----------------------------------------------------------------------------
(* The accesses.  The last one that wrote is remembered in `told`: writing *)
(* the same value again changes nothing.                                   *)

MapInv ==
    /\ table \in {Roger, Energizer, Thumper}
    /\ \E v : cell = [x \in Memories \X Offsets |-> v[x]]
    /\ told.op = "write" => /\ told.addr \in Address /\ IsMemory(told.addr)
                            /\ cell[Where(told.addr)] = told.value

LEMMA MapsLead == ASSUME MapInv, NEW a \in Address PROVE OnePlace(a)
BY RogerMaps, EnergizerMaps, ThumperMaps DEF MapInv

LEMMA ByteIs == ASSUME MapInv, NEW a \in Address, IsMemory(a) PROVE Byte(a) = cell[Where(a)]
<1>1. OnePlace(a)
  BY MapsLead
<1>2. PICK i : i = CHOOSE j \in Dispatch(a) : TRUE
  OBVIOUS
<1>3. i \in Dispatch(a)
  BY <1>1, <1>2 DEF OnePlace
<1>4. Byte(a) = cell[Target(a, i)]
  BY <1>2 DEF Byte, Target
<1> QED  BY <1>1, <1>3, <1>4 DEF OnePlace

LEMMA Apart ==
    ASSUME NEW a \in Reached, NEW b \in Reached
    PROVE  /\ Where(a) = Where(b) => a = b
           /\ Where(a) \in Memories \X Offsets
<1>1. CASE a \in 0 .. 4 /\ b \in 0 .. 4
  BY <1>1 DEF Where, Memories, Offsets
<1>2. CASE a \in 0 .. 4 /\ b \in 12 .. 13
  BY <1>2 DEF Where, Memories, Offsets
<1>3. CASE a \in 12 .. 13 /\ b \in 0 .. 4
  BY <1>3 DEF Where, Memories, Offsets
<1>4. CASE a \in 12 .. 13 /\ b \in 12 .. 13
  BY <1>4 DEF Where, Memories, Offsets
<1> QED  BY <1>1, <1>2, <1>3, <1>4 DEF Reached

\* What an access is: one byte of a memory is written, or read.
Wrote(b, v) == cell' = [cell EXCEPT ![Where(b)] = v] /\ told' = Told("write", b, v)
Saw(b) == UNCHANGED cell /\ told' = Told("read", b, cell[Where(b)])

LEMMA Accesses ==
    ASSUME MapInv, MapNext
    PROVE  /\ UNCHANGED table
           /\ \E b \in Address : IsMemory(b) /\ ((\E v : Wrote(b, v)) \/ Saw(b))
<1>1. UNCHANGED table
  BY DEF MapNext
<1>2. CASE \E b \in Address : IsMemory(b) /\ (ByBus(b) \/ ByPointer(b))
  <2>1. PICK b \in Address : IsMemory(b) /\ (ByBus(b) \/ ByPointer(b))
    BY <1>2
  <2>2. PICK i \in Dispatch(b) \cup BackDoor(b) : (\E v : Store(i, b, v)) \/ Load(i, b)
    BY <2>1 DEF ByBus, ByPointer
  <2>3. Target(b, i) = Where(b)
    BY <2>1, <2>2, MapsLead DEF OnePlace
  <2>4. (\E v : Wrote(b, v)) \/ Saw(b)
    BY <2>2, <2>3 DEF Store, Load, Wrote, Saw, Target
  <2> QED  BY <1>1, <2>1, <2>4
<1>3. CASE \E o \in Offsets : IsMemory(o) /\ LoadImage(o)
  <2>1. PICK o \in Offsets : IsMemory(o) /\ LoadImage(o)
    BY <1>3
  <2>2. o \in Address /\ Where(o) = <<"ram", o>>
    BY DEF Offsets, Address, Where
  <2>3. Wrote(o, 3)
    BY <2>1, <2>2 DEF LoadImage, Wrote
  <2> QED  BY <1>1, <2>1, <2>2, <2>3
<1> QED  BY <1>2, <1>3 DEF MapNext


\* What an access does to each address of a memory.
ByteKept ==
    \A a \in Address : IsMemory(a) =>
      /\ Byte(a)' = IF told' # told /\ told'.op = "write" /\ told'.addr = a
                    THEN told'.value ELSE Byte(a)
      /\ told'.op = "read" /\ told'.addr = a => told'.value = Byte(a)

LEMMA AccessIsRight ==
    ASSUME MapInv, MapNext, NEW a \in Address, IsMemory(a)
    PROVE  /\ Byte(a)' = IF told' # told /\ told'.op = "write" /\ told'.addr = a
                         THEN told'.value ELSE Byte(a)
           /\ told'.op = "read" /\ told'.addr = a => told'.value = Byte(a)
<1>1. PICK b \in Address : IsMemory(b) /\ ((\E v : Wrote(b, v)) \/ Saw(b))
  BY Accesses
<1>2. UNCHANGED table
  BY Accesses
<1>3. a \in Reached /\ b \in Reached
  BY <1>1, MapsLead DEF OnePlace
<1>4. Byte(a) = cell[Where(a)]
  BY ByteIs
<1>5. Byte(a)' = cell'[Where(a)]
  <2>1. PICK i : i = CHOOSE j \in Dispatch(a) : TRUE
    OBVIOUS
  <2>2. Dispatch(a)' = Dispatch(a) /\ Target(a, i)' = Target(a, i)
    BY <1>2 DEF Dispatch, Search, Target, Inside
  <2>3. i \in Dispatch(a)
    BY <2>1, MapsLead DEF OnePlace
  <2>4. Byte(a)' = cell'[Target(a, i)']
    BY <2>1, <2>2, <1>2 DEF Byte, Target
  <2>5. Target(a, i) = Where(a)
    BY <2>3, MapsLead DEF OnePlace
  <2> QED  BY <2>2, <2>4, <2>5
<1>6. CASE Saw(b)
  <2>1. told'.op = "read" /\ told'.addr = b /\ told'.value = cell[Where(b)] /\ cell' = cell
    BY <1>6 DEF Saw, Told
  <2> QED  BY <1>4, <1>5, <2>1
<1>7. CASE \E v : Wrote(b, v)
  <2>1. PICK v : Wrote(b, v)
    BY <1>7
  <2>2. told'.op = "write" /\ told'.addr = b /\ told'.value = v
    BY <2>1 DEF Wrote, Told
  <2>3. CASE a = b
    <3>1. cell'[Where(b)] = v
      <4>1. Where(b) \in Memories \X Offsets
        BY <1>3, Apart
      <4> QED  BY <2>1, <4>1 DEF Wrote, MapInv
    <3>2. told' = told => cell[Where(b)] = v
      BY <2>2 DEF MapInv
    <3> QED  BY <1>4, <1>5, <2>2, <2>3, <3>1, <3>2
  <2>4. CASE a # b
    <3>1. Where(a) # Where(b)
      BY <1>3, <2>4, Apart
    <3>2. cell'[Where(a)] = cell[Where(a)]
      <4>1. Where(a) \in Memories \X Offsets
        BY <1>3, Apart
      <4> QED  BY <2>1, <3>1, <4>1 DEF Wrote, MapInv
    <3> QED  BY <1>4, <1>5, <2>2, <2>4, <3>2
  <2> QED  BY <2>3, <2>4
<1> QED  BY <1>1, <1>6, <1>7

LEMMA MapInvKept == ASSUME MapInv, [MapNext]_mapVars PROVE MapInv'
<1>1. CASE MapNext
  <2>1. PICK b \in Address : IsMemory(b) /\ ((\E v : Wrote(b, v)) \/ Saw(b))
    BY <1>1, Accesses
  <2>2. UNCHANGED table
    BY <1>1, Accesses
  <2>3. PICK u : cell = [x \in Memories \X Offsets |-> u[x]]
    BY DEF MapInv
  <2>4. IsMemory(b)'
    BY <2>1, <2>2 DEF IsMemory, Dispatch, Search
  <2>5. CASE Saw(b)
    <3>1. told'.op = "read" /\ cell' = cell
      BY <2>5 DEF Saw, Told
    <3> QED  BY <2>2, <2>3, <3>1 DEF MapInv
  <2>6. CASE \E v : Wrote(b, v)
    <3>1. PICK v : Wrote(b, v)
      BY <2>6
    <3>2. told'.addr = b /\ told'.value = v
      BY <3>1 DEF Wrote, Told
    <3>3. Where(b) \in Memories \X Offsets
      BY <2>1, MapsLead, Apart DEF OnePlace
    <3>4. PICK w : w = cell'
      OBVIOUS
    <3>5. w = [x \in Memories \X Offsets |-> IF x = Where(b) THEN v ELSE u[x]]
      BY <2>3, <3>1, <3>3, <3>4 DEF Wrote
    <3>6. cell' = [x \in Memories \X Offsets |-> w[x]] /\ cell'[Where(b)] = v
      BY <3>3, <3>4, <3>5
    <3>7. Where(told'.addr) = Where(b)
      BY <3>2
    <3>8. \E f : cell' = [x \in Memories \X Offsets |-> f[x]]
      BY <3>6
    <3> QED  BY <2>2, <2>4, <3>2, <3>6, <3>8 DEF MapInv
  <2> QED  BY <2>1, <2>5, <2>6
<1>2. CASE UNCHANGED mapVars
  BY <1>2 DEF mapVars, MapInv, IsMemory, Dispatch, Search
<1> QED  BY <1>1, <1>2

(* dispatch_requests_thread, get_slave_id_for_mem_addr, systemc_get_mem_addr: with the map
   of each platform and any number of accesses, over the bus, by pointer or by the images
   it loads, a read returns what was last written at its address. *)
THEOREM MemoryIsOne == MapSpec => OneMemory
<1>1. MapInit => MapInv
  <2> SUFFICES ASSUME MapInit PROVE MapInv
    OBVIOUS
  <2>1. PICK v : v = cell
    OBVIOUS
  <2>2. cell = [x \in Memories \X Offsets |-> 0] /\ told.op = "none"
    BY DEF MapInit, Told
  <2>3. cell = [x \in Memories \X Offsets |-> v[x]]
    BY <2>1, <2>2
  <2> QED  BY <2>2, <2>3 DEF MapInit, MapInv
<1>2. MapInv /\ [MapNext]_mapVars => MapInv'
  BY MapInvKept
<1>3. MapInv /\ MapNext => ByteKept
  BY AccessIsRight DEF ByteKept
<1>4. MapInv /\ [MapNext]_mapVars => [ByteKept]_mapVars
  BY <1>3
<1> QED  BY <1>1, <1>2, <1>4, PTL DEF MapSpec, OneMemory, ByteKept
=============================================================================

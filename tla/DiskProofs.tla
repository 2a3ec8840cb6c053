----------------------------- MODULE DiskProofs -----------------------------
(***************************************************************************)
(* That the disk moves whole blocks: for every size of word, block, disk   *)
(* and memory, for every sequence of register accesses and every failure   *)
(* of the bus.                                                             *)
(***************************************************************************)
EXTENDS HostDisk, FiniteSetTheorems, SequenceTheorems, TLAPS

Moving == {"words", "bytes", "load"}

\* The blocks counted by c fit in memory behind each buffer.
Fits(c) == c \in Nat /\ \A b \in Buffers \cup {0} : b + c * BlockSize <= MemBytes

\* Bytes an operation reads from the disk.
There(j) == Lowest(j.count * BlockSize, Highest(0, diskSize - j.lba * BlockSize))

\* Software and the interrupt: what the status says of the thread.
StatusIsTrue ==
    /\ op \in Ops
    /\ pc \in Moving \cup {"waiting", "ready"}
    /\ pc \in Moving => status = "busy"
    /\ pc = "ready" => status = "idle"
    /\ irq => status \in Done
    /\ irq \in BOOLEAN /\ irqen \in BOOLEAN /\ irqDue \in BOOLEAN
    /\ ~irqDue => line = irq

TypeOK ==
    /\ lba \in Lbas \cup {0} /\ buffer \in Buffers \cup {0}
    /\ Fits(count) /\ Fits(job.count)
    /\ job = [lba |-> job.lba, count |-> job.count, buffer |-> job.buffer]
    /\ job.lba \in Nat /\ job.buffer \in Buffers \cup {0}
    /\ diskSize \in Nat
    /\ DOMAIN disk = 0 .. DiskBytes - 1
    /\ DOMAIN mem = 0 .. MemBytes - 1

\* A read that moves its data: what is on the disk, what is in memory.
Reading ==
    pc \in {"words", "bytes"} =>
      /\ op = "read"
      /\ size = There(job) /\ addr = job.buffer
      /\ offset \in 0 .. size - 1
      /\ pc = "words" => offset + Word <= size
      /\ \A i \in 0 .. size - 1 : data[i] = disk[job.lba * BlockSize + i]
      /\ \A i \in 0 .. offset - 1 : mem[addr + i] = data[i]
      /\ touched \/ count = size \div BlockSize

\* A write that loads its data.
Loading ==
    pc = "load" =>
      /\ op \in {"write", "name"}
      /\ size = job.count * BlockSize /\ addr = job.buffer
      /\ offset \in 0 .. size - 1
      /\ \A i \in 0 .. offset - 1 : data[i] = mem[addr + i]
      /\ touched \/ lba = job.lba

DiskInv == TypeOK /\ StatusIsTrue /\ Reading /\ Loading
-----------------------------------------------------------------------------
LEMMA Products ==
  ASSUME NEW a \in Nat, NEW b \in Nat
  PROVE  /\ a * b \in Nat
         /\ \A c \in Nat : c <= a => c * b <= a * b
         /\ a = 0 => a * b = 0
OBVIOUS

\* Blocks counted by the division of a number of bytes.
LEMMA Blocks ==
  ASSUME NEW n \in Nat, NEW c \in Nat, n <= c * BlockSize
  PROVE  n \div BlockSize \in Nat /\ n \div BlockSize <= c
<1> DEFINE B == BlockSize
<1>1. B \in Nat \ {0} BY BlockAssumption
<1> HIDE DEF B
<1>2. n \div B \in Nat /\ (n <= c * B => n \div B <= c) BY <1>1
<1> QED BY <1>2 DEF B

LEMMA FitsLess ==
  ASSUME NEW c, NEW d \in Nat, Fits(c), d <= c
  PROVE  Fits(d)
<1>1. BlockSize \in Nat /\ MemBytes \in Nat /\ Buffers \subseteq Nat BY BlockAssumption
<1>2. c \in Nat /\ d * BlockSize <= c * BlockSize /\ d * BlockSize \in Nat /\ c * BlockSize \in Nat
  BY <1>1, Products DEF Fits
<1> QED BY <1>1, <1>2 DEF Fits

\* What software writes to m_count fits.
LEMMA FitsWritten ==
  ASSUME NEW c \in Counts \cup {0}
  PROVE  Fits(c)
<1>1. c \in Nat /\ BlockSize \in Nat /\ Word \in Nat /\ MemBytes \in Nat /\ Buffers \subseteq Nat
  BY BlockAssumption
<1>2. c * BlockSize \in Nat BY <1>1
<1>3. \A b \in Buffers \cup {0} : b + c * BlockSize + Word <= MemBytes BY BlockAssumption
<1> QED BY <1>1, <1>2, <1>3 DEF Fits

LEMMA ThereFits ==
  ASSUME NEW j, NEW d \in Nat, Fits(j.count), j.lba \in Nat
  PROVE  LET n == Lowest(j.count * BlockSize, Highest(0, d - j.lba * BlockSize))
         IN  n \in Nat /\ n <= j.count * BlockSize
<1>1. BlockSize \in Nat BY BlockAssumption
<1>2. j.count * BlockSize \in Nat /\ j.lba * BlockSize \in Nat BY <1>1, Products DEF Fits
<1> QED BY <1>2 DEF Lowest, Highest
-----------------------------------------------------------------------------
LEMMA Starts == Init => DiskInv
<1> SUFFICES ASSUME Init PROVE DiskInv OBVIOUS
<1>1. Fits(0) BY FitsWritten
<1>2. TypeOK BY <1>1, BlockAssumption DEF Init, TypeOK
<1>3. StatusIsTrue BY DEF Init, StatusIsTrue, Moving, Ops
<1>4. Reading /\ Loading BY DEF Init, Reading, Loading
<1> QED BY <1>2, <1>3, <1>4 DEF DiskInv

\* Software writes registers at any time; what it changes of an operation that moves
\* data is not used again, and it is noted.
LEMMA SetupKeeps ==
  ASSUME DiskInv, NEW l \in Lbas \cup {0, lba}, NEW c \in Counts \cup {0, count},
         NEW b \in Buffers \cup {0, buffer}, WriteSetup(l, c, b)
  PROVE  DiskInv' /\ UNCHANGED status
<1> USE DEF DiskInv, WriteSetup, locals, store
<1>1. Fits(c)
  <2>1. c \in Counts \cup {0} \/ c = count OBVIOUS
  <2> QED BY <2>1, FitsWritten DEF TypeOK
<1>2. TypeOK'
  <2>1. Fits(count)' /\ Fits(job.count)' BY <1>1 DEF TypeOK, Fits
  <2> QED BY <2>1 DEF TypeOK
<1>3. StatusIsTrue' BY DEF StatusIsTrue, Moving, Done
<1>4. Reading' BY DEF Reading, StatusIsTrue, There, Lowest, Highest
<1>5. Loading' BY DEF Loading, StatusIsTrue
<1> QED BY <1>2, <1>3, <1>4, <1>5

LEMMA AccessKeeps ==
  ASSUME DiskInv, Access
  PROVE  DiskInv' /\ status' \notin Done \ {status}
<1>1. CASE \E l \in Lbas : WriteSetup(l, count, buffer) BY <1>1, SetupKeeps
<1>2. CASE \E c \in Counts : WriteSetup(lba, c, buffer) BY <1>2, SetupKeeps
<1>3. CASE \E b \in Buffers : WriteSetup(lba, count, b) BY <1>3, SetupKeeps
<1>4. CASE \E v \in Ops : WriteOp(v)
  <2> PICK v \in Ops : WriteOp(v) BY <1>4
  <2> USE DEF DiskInv, WriteOp, locals, store
  <2>1. TypeOK' BY DEF TypeOK, Fits
  <2>2. StatusIsTrue' BY DEF StatusIsTrue, Moving
  <2>3. Reading' /\ Loading' BY DEF Reading, Loading, StatusIsTrue, Moving
  <2> QED BY <2>1, <2>2, <2>3
<1>5. CASE \E v \in BOOLEAN : WriteIrqEnable(v)
  <2> PICK v \in BOOLEAN : WriteIrqEnable(v) BY <1>5
  <2> USE DEF DiskInv, WriteIrqEnable, Others, locals, store
  <2>1. TypeOK' BY DEF TypeOK, Fits
  <2>2. StatusIsTrue' BY DEF StatusIsTrue
  <2>3. Reading' /\ Loading' BY DEF Reading, Loading, There, Lowest, Highest
  <2> QED BY <2>1, <2>2, <2>3
<1>6. CASE ReadStatus
  <2> USE <1>6 DEF DiskInv, ReadStatus, Others, locals, store
  <2>1. TypeOK' BY DEF TypeOK, Fits
  <2>2. StatusIsTrue' BY DEF StatusIsTrue
  <2>3. Reading' /\ Loading' BY DEF Reading, Loading, There, Lowest, Highest
  <2> QED BY <2>1, <2>2, <2>3 DEF Done
<1> QED BY <1>1, <1>2, <1>3, <1>4, <1>5, <1>6 DEF Access

LEMMA IrqUpdateKeeps ==
  ASSUME DiskInv, IrqUpdate
  PROVE  DiskInv' /\ UNCHANGED status
<1> USE DEF DiskInv, IrqUpdate, regs, locals, store
<1>1. TypeOK' BY DEF TypeOK, Fits
<1>2. StatusIsTrue' BY DEF StatusIsTrue
<1>3. Reading' /\ Loading' BY DEF Reading, Loading, There, Lowest, Highest
<1> QED BY <1>1, <1>2, <1>3

LEMMA StartNoopKeeps ==
  ASSUME DiskInv, StartNoop
  PROVE  DiskInv' /\ UNCHANGED status
<1> USE DEF DiskInv, StartNoop, regs, locals, store
<1>1. TypeOK' BY DEF TypeOK, Fits
<1>2. StatusIsTrue' BY DEF StatusIsTrue, Moving
<1>3. Reading' /\ Loading' BY DEF Reading, Loading
<1> QED BY <1>1, <1>2, <1>3
LEMMA StartReadKeeps ==
  ASSUME DiskInv, StartRead
  PROVE  DiskInv' /\ DeliversRead /\ status' # "writeOk"
<1> USE DEF DiskInv, store
<1> DEFINE n == Lowest(count * BlockSize, Highest(0, diskSize - lba * BlockSize))
           j == [lba |-> lba, count |-> count, buffer |-> buffer]
<1>0. BlockSize \in Nat \ {0} /\ Lbas \subseteq Nat /\ Buffers \subseteq Nat /\ Word \in Nat \ {0}
  BY BlockAssumption
<1>1. /\ j.lba = lba /\ j.count = count /\ j.buffer = buffer
      /\ lba \in Nat /\ buffer \in Buffers \cup {0} /\ Fits(count)
      /\ diskSize \in Nat
  BY <1>0 DEF TypeOK
<1>2. n \in Nat /\ n <= count * BlockSize
  BY <1>1, ThereFits
<1>3. n \div BlockSize \in Nat /\ n \div BlockSize <= count
  BY <1>1, <1>2, Blocks DEF Fits
<1>4. Fits(n \div BlockSize) BY <1>1, <1>3, FitsLess
<1>5. /\ job' = j /\ ~touched' /\ There(job)' = n
      /\ UNCHANGED <<lba, buffer, irqen, line, disk, diskSize, mem, isOpen>>
  BY <1>1 DEF StartRead, There
<1>6. CASE ~isOpen
  <2>1. /\ op' = "noop" /\ status' = "readError" /\ pc' = "waiting" /\ count' = 0
        /\ UNCHANGED <<irq, irqDue>>
    BY <1>6 DEF StartRead, EndError
  <2>2. Fits(0) BY FitsWritten
  <2>3. TypeOK' BY <1>1, <1>5, <2>1, <2>2 DEF TypeOK, Fits
  <2>4. pc = "ready" BY DEF StartRead
  <2>5. StatusIsTrue' BY <1>5, <2>1, <2>4 DEF StatusIsTrue, Moving, Ops, Done
  <2> QED BY <2>1, <2>3, <2>5 DEF Reading, Loading, DeliversRead
<1>7. CASE isOpen
  <2>1. /\ count' = n \div BlockSize /\ size' = n /\ offset' = 0 /\ addr' = buffer
        /\ data' = DiskPart(lba * BlockSize, n)
        /\ IF n = 0 THEN EndOk("readOk")
           ELSE /\ status' = "busy" /\ Go(IF n < Word THEN "bytes" ELSE "words")
    BY <1>7 DEF StartRead
  <2> HIDE DEF n, j
  <2>2. TypeOK' BY <1>1, <1>4, <1>5, <2>1 DEF TypeOK, Fits, j
  <2>3. pc = "ready" /\ op = "read" BY DEF StartRead
  <2>4. CASE n = 0
    <3>1. op' = "noop" /\ status' = "readOk" /\ pc' = "waiting"
          /\ irq' = (irq \/ irqen) /\ irqDue' = (irqDue \/ irqen)
      BY <2>1, <2>4 DEF EndOk
    <3>2. StatusIsTrue' BY <1>5, <2>3, <3>1 DEF StatusIsTrue, Moving, Ops, Done
    <3>3. DeliversRead
      <4>1. LET m == Lowest(job'.count * BlockSize, Highest(0, diskSize - job'.lba * BlockSize))
            IN  m = n
        BY <1>1, <1>5 DEF n
      <4> QED BY <4>1, <2>1, <2>4 DEF DeliversRead
    <3> QED BY <2>2, <3>1, <3>2, <3>3 DEF Reading, Loading
  <2>5. CASE n # 0
    <3>1. op' = op /\ status' = "busy" /\ irq' = irq /\ irqDue' = irqDue
          /\ pc' = IF n < Word THEN "bytes" ELSE "words"
      BY <2>1, <2>5 DEF Go
    <3>2. StatusIsTrue' BY <1>5, <2>3, <3>1 DEF StatusIsTrue, Moving, Ops, Done
    <3>3. \A i \in 0 .. n - 1 : data'[i] = disk[lba * BlockSize + i]
      BY <2>1 DEF DiskPart
    <3>4. Reading'
      BY <1>0, <1>1, <1>2, <1>5, <2>1, <2>3, <2>5, <3>1, <3>3 DEF Reading
    <3> QED BY <2>2, <3>1, <3>2, <3>4 DEF Loading, DeliversRead
  <2> QED BY <2>4, <2>5
<1> QED BY <1>6, <1>7
\* One bus access of a read: it stores its bytes or leaves memory alone.
LEMMA StoredBytes ==
  ASSUME TypeOK, Reading, pc \in {"words", "bytes"},
         NEW k \in Nat, Stored(k), offset + k <= size
  PROVE  /\ DOMAIN mem' = DOMAIN mem
         /\ \A i \in 0 .. offset + k - 1 : mem'[addr + i] = data[i]
<1>1. /\ BlockSize \in Nat \ {0} /\ MemBytes \in Nat /\ Buffers \subseteq Nat
  BY BlockAssumption
<1>2. /\ offset \in Nat /\ addr \in Nat /\ size \in Nat /\ addr + size <= MemBytes
      /\ \A i \in 0 .. offset - 1 : mem[addr + i] = data[i]
  <2>1. addr = job.buffer /\ addr \in Buffers \cup {0} BY DEF TypeOK, Reading
  <2>2. /\ There(job) \in Nat /\ There(job) <= job.count * BlockSize
    BY ThereFits DEF TypeOK, There
  <2>3. job.count \in Nat /\ addr + job.count * BlockSize <= MemBytes
    BY <2>1 DEF TypeOK, Fits
  <2>4. job.count * BlockSize \in Nat BY <1>1, <2>3
  <2>5. size = There(job) /\ offset \in 0 .. size - 1 BY DEF Reading
  <2> DEFINE p == job.count * BlockSize
  <2>6a. p \in Nat /\ addr + p <= MemBytes BY <2>3, <2>4
  <2>6b. size \in Nat /\ size <= p BY <2>2, <2>5
  <2>6c. addr \in Nat
    <3>1. Buffers \cup {0} \subseteq Nat BY <1>1
    <3>2. addr \in Buffers \cup {0} BY <2>1
    <3> QED BY <3>1, <3>2
  <2> HIDE DEF p
  <2>7. addr + size <= MemBytes /\ offset \in Nat BY <1>1, <2>5, <2>6a, <2>6b, <2>6c
  <2> QED BY <2>6b, <2>6c, <2>7 DEF Reading
<1>3. mem' = [a \in 0 .. MemBytes - 1 |->
                IF a \in addr + offset .. addr + offset + k - 1 THEN data[a - addr] ELSE mem[a]]
  BY DEF Stored, TypeOK
<1>4. ASSUME NEW i \in 0 .. offset + k - 1 PROVE mem'[addr + i] = data[i]
  <2>1. addr + i \in 0 .. MemBytes - 1 BY <1>1, <1>2
  <2>2. (addr + i) - addr = i /\ i \in Int BY <1>2
  <2>3. CASE i < offset
    <3>1. ~ (addr + i \in addr + offset .. addr + offset + k - 1) /\ i \in 0 .. offset - 1 BY <1>2, <2>3
    <3> QED BY <1>2, <1>3, <2>1, <3>1
  <2>4. CASE offset <= i
    <3>1. addr + i \in addr + offset .. addr + offset + k - 1 BY <1>2, <2>4
    <3> QED BY <1>3, <2>1, <2>2, <3>1
  <2> QED BY <1>2, <2>2, <2>3, <2>4
<1> QED BY <1>3, <1>4 DEF TypeOK

\* A read ends well when all its bytes are in memory.
LEMMA ReadEnds ==
  ASSUME DiskInv, pc \in {"words", "bytes"}, UNCHANGED <<count, disk, diskSize, job, touched>>,
         \A i \in 0 .. size - 1 : mem'[addr + i] = data[i]
  PROVE  DeliversRead
<1>1. /\ size = There(job) /\ addr = job.buffer
      /\ \A i \in 0 .. size - 1 : data[i] = disk[job.lba * BlockSize + i]
      /\ touched \/ count = size \div BlockSize
  BY DEF DiskInv, Reading
<1>2. \A i \in 0 .. size - 1 : mem'[addr + i] = disk[job.lba * BlockSize + i] BY <1>1
<1> HIDE DEF DiskInv
<1> QED BY <1>1, <1>2, Zenon DEF DeliversRead, There
\* A read stays as it is but for memory, the place in it and m_status, m_op, pc.
LEMMA ReadStepTypes ==
  ASSUME DiskInv, Fits(count)', DOMAIN mem' = DOMAIN mem,
         UNCHANGED <<lba, buffer, irqen, size, addr, data, isOpen, disk, diskSize, line, job, touched>>
  PROVE  TypeOK'
BY DEF DiskInv, TypeOK, Fits

LEMMA EndKeeps ==
  ASSUME StatusIsTrue, UNCHANGED <<irqen, line>>, pc \in Moving,
         \/ EndOk("readOk") \/ EndOk("writeOk")
         \/ EndError("readError") \/ EndError("writeError") \/ EndError("writeOk")
  PROVE  StatusIsTrue' /\ pc' = "waiting"
<1>1. op' = "noop" /\ pc' = "waiting" BY DEF EndOk, EndError
<1>2. irq = FALSE /\ irq \in BOOLEAN BY DEF StatusIsTrue, Done
<1>3. CASE EndOk("readOk") \/ EndOk("writeOk")
  <2>1. status' \in Done BY <1>3 DEF EndOk, Done
  <2>2. irq' = (irq \/ irqen) /\ irqDue' = (irqDue \/ irqen) BY <1>3, Zenon DEF EndOk
  <2> QED BY <1>1, <2>1, <2>2 DEF StatusIsTrue, Moving, Ops
<1>4. CASE EndError("readError") \/ EndError("writeError") \/ EndError("writeOk")
  <2>1. UNCHANGED <<irq, irqDue>> BY <1>4 DEF EndError
  <2> QED BY <1>1, <1>2, <2>1 DEF StatusIsTrue, Moving, Ops
<1> QED BY <1>3, <1>4

LEMMA GoKeeps ==
  ASSUME StatusIsTrue, UNCHANGED <<irqen, line, status>>, pc \in Moving,
         NEW p \in Moving, Go(p)
  PROVE  StatusIsTrue' /\ pc' = p /\ UNCHANGED <<op, status>>
BY DEF StatusIsTrue, Go, Moving

LEMMA WriteWordKeeps ==
  ASSUME DiskInv, NEW ok \in BOOLEAN, WriteWord(ok)
  PROVE  DiskInv' /\ DeliversRead /\ status' # "writeOk"
<1>1. /\ pc = "words" /\ pc \in Moving /\ StatusIsTrue /\ status = "busy"
      /\ UNCHANGED <<lba, count, buffer, irqen, size, addr, data, isOpen, disk, diskSize, line, job, touched>>
  BY DEF WriteWord, Moving, DiskInv, StatusIsTrue
<1>2. Word \in Nat \ {0} /\ offset \in 0 .. size - 1 /\ offset + Word <= size /\ size \in Int
  <2>1. There(job) \in Nat BY ThereFits DEF DiskInv, TypeOK, There
  <2> QED BY <1>1, <2>1, BlockAssumption DEF DiskInv, Reading
<1>3. /\ DOMAIN mem' = DOMAIN mem /\ offset' \in Nat /\ offset' <= size
      /\ \A i \in 0 .. offset' - 1 : mem'[addr + i] = data[i]
      /\ ~ok => offset' = offset
  <2>1. CASE ok
    <3>1. Stored(Word) /\ offset' = offset + Word BY <2>1 DEF WriteWord
    <3>2. /\ DOMAIN mem' = DOMAIN mem
          /\ \A i \in 0 .. offset + Word - 1 : mem'[addr + i] = data[i]
      BY <1>1, <1>2, <3>1, StoredBytes DEF DiskInv
    <3> QED BY <1>2, <2>1, <3>1, <3>2
  <2>2. CASE ~ok
    <3>1. UNCHANGED <<mem, offset>> BY <2>2 DEF WriteWord
    <3>2. \A i \in 0 .. offset - 1 : mem[addr + i] = data[i] BY <1>1 DEF DiskInv, Reading
    <3> QED BY <1>2, <3>1, <3>2
  <2> QED BY <2>1, <2>2
<1>4. TypeOK'
  <2>1. Fits(count)' BY <1>1 DEF DiskInv, TypeOK, Fits
  <2> QED BY <1>1, <1>3, <2>1, ReadStepTypes
<1>5. CASE offset' = size
  <2>1. EndOk("readOk") BY <1>5 DEF WriteWord
  <2>2. StatusIsTrue' /\ pc' = "waiting" BY <1>1, <2>1, EndKeeps
  <2>3. DeliversRead BY <1>1, <1>3, <1>5, ReadEnds
  <2>4. status' = "readOk" BY <2>1 DEF EndOk
  <2> QED BY <1>4, <2>2, <2>3, <2>4 DEF DiskInv, Reading, Loading
<1>6. CASE offset' # size
  <2> DEFINE p == IF ok /\ offset' + Word <= size THEN "words" ELSE "bytes"
  <2>1. Go(p) /\ UNCHANGED status BY <1>6 DEF WriteWord
  <2>2. p \in Moving BY DEF Moving
  <2>3. StatusIsTrue' /\ pc' = p /\ UNCHANGED <<op, status>> BY <1>1, <2>1, <2>2, GoKeeps
  <2>4. There(job)' = There(job) BY <1>1 DEF There
  <2>5. offset' \in 0 .. size - 1 BY <1>2, <1>3, <1>6
  <2>6. pc' \in {"words", "bytes"} /\ (pc' = "words" => offset' + Word <= size) BY <2>3
  <2>7. Reading' BY <1>1, <1>3, <2>3, <2>4, <2>5, <2>6 DEF DiskInv, Reading
  <2> QED BY <1>1, <1>4, <2>3, <2>6, <2>7 DEF DiskInv, Loading, DeliversRead
<1> QED BY <1>5, <1>6

LEMMA WriteByteKeeps ==
  ASSUME DiskInv, NEW ok \in BOOLEAN, WriteByte(ok)
  PROVE  DiskInv' /\ DeliversRead /\ status' # "writeOk"
<1>1. /\ pc = "bytes" /\ pc \in Moving /\ StatusIsTrue /\ status = "busy"
      /\ UNCHANGED <<lba, buffer, irqen, size, addr, data, isOpen, disk, diskSize, line, job, touched>>
  BY DEF WriteByte, Moving, DiskInv, StatusIsTrue
<1>2. /\ offset \in 0 .. size - 1 /\ size \in Nat
      /\ size <= job.count * BlockSize /\ Fits(job.count)
  <2>1. There(job) \in Nat /\ There(job) <= job.count * BlockSize
    BY ThereFits DEF DiskInv, TypeOK, There
  <2> QED BY <1>1, <2>1 DEF DiskInv, TypeOK, Reading
<1>3. CASE ok
  <2>1. Stored(1) /\ offset' = offset + 1 /\ UNCHANGED count BY <1>3 DEF WriteByte
  <2>2. /\ DOMAIN mem' = DOMAIN mem
        /\ \A i \in 0 .. offset + 1 - 1 : mem'[addr + i] = data[i]
    BY <1>1, <1>2, <2>1, StoredBytes DEF DiskInv
  <2>3. TypeOK'
    <3>1. Fits(count)' BY <2>1 DEF DiskInv, TypeOK, Fits
    <3> QED BY <1>1, <2>2, <3>1, ReadStepTypes
  <2>4. CASE offset' = size
    <3>1. EndOk("readOk") BY <1>3, <2>4 DEF WriteByte
    <3>2. StatusIsTrue' /\ pc' = "waiting" BY <1>1, <3>1, EndKeeps
    <3>3. DeliversRead BY <1>1, <1>2, <2>1, <2>2, <2>4, ReadEnds
    <3>4. status' = "readOk" BY <3>1 DEF EndOk
    <3> QED BY <2>3, <3>2, <3>3, <3>4 DEF DiskInv, Reading, Loading
  <2>5. CASE offset' # size
    <3>1. Go("bytes") /\ UNCHANGED status BY <1>3, <2>5 DEF WriteByte
    <3>2. "bytes" \in Moving BY DEF Moving
    <3>3. StatusIsTrue' /\ pc' = "bytes" /\ UNCHANGED <<op, status>> BY <1>1, <3>1, <3>2, GoKeeps
    <3>4. There(job)' = There(job) BY <1>1 DEF There
    <3>5. Reading' BY <1>1, <1>2, <2>1, <2>2, <2>5, <3>3, <3>4 DEF DiskInv, Reading
    <3> QED BY <1>1, <2>3, <3>3, <3>5 DEF DiskInv, Loading, DeliversRead
  <2> QED BY <2>4, <2>5
<1>4. CASE ~ok
  <2>1. UNCHANGED <<mem, offset>> /\ count' = offset \div BlockSize /\ EndError("readError")
    BY <1>4 DEF WriteByte
  <2>2. Fits(count')
    <3> DEFINE p == job.count * BlockSize
    <3>1. p \in Nat BY <1>2, BlockAssumption, Products DEF Fits
    <3> HIDE DEF p
    <3>2. offset \in Nat /\ offset <= p BY <1>2, <3>1 DEF p
    <3>3. offset \div BlockSize \in Nat /\ offset \div BlockSize <= job.count
      BY <1>2, <3>2, Blocks DEF p, Fits
    <3> QED BY <1>2, <2>1, <3>3, FitsLess
  <2>3. TypeOK'
    <3>1. Fits(count)' BY <2>2 DEF Fits
    <3> QED BY <1>1, <2>1, <3>1, ReadStepTypes
  <2>4. StatusIsTrue' /\ pc' = "waiting" BY <1>1, <2>1, EndKeeps
  <2>5. status' = "readError" BY <2>1 DEF EndError
  <2> QED BY <2>3, <2>4, <2>5 DEF DiskInv, Reading, Loading, DeliversRead
<1> QED BY <1>3, <1>4

\* A write that has its data stores it on the disk.
LEMMA StoreKeeps ==
  ASSUME DiskInv, pc \in Moving \cup {"ready"}, status # "writeOk", StoreToDisk,
         size' = size, job' = job, lba' = lba, touched' = touched,
         size = job.count * BlockSize, touched \/ lba = job.lba,
         \A i \in 0 .. size - 1 : data'[i] = mem[job.buffer + i]
  PROVE  StoresWrite /\ DOMAIN disk' = DOMAIN disk /\ diskSize' \in Nat
<1>0. BlockSize \in Nat \ {0} BY BlockAssumption
<1>1. size \in Nat /\ lba \in Nat /\ lba * BlockSize \in Nat /\ diskSize \in Nat
  <2>1. lba \in Lbas \cup {0} /\ job.count \in Nat /\ diskSize \in Nat BY DEF DiskInv, TypeOK, Fits
  <2>2. Lbas \cup {0} \subseteq Nat BY BlockAssumption
  <2>3. lba \in Nat BY <2>1, <2>2
  <2> QED BY <1>0, <2>1, <2>3, Products
<1>2. CASE isOpen
  <2> DEFINE from == lba * BlockSize
  <2>1. /\ disk' = [i \in DOMAIN disk |->
                       IF i \in from .. from + size - 1 THEN data'[i - from] ELSE disk[i]]
        /\ diskSize' = IF size = 0 THEN diskSize ELSE Highest(diskSize, from + size)
    BY <1>2 DEF StoreToDisk
  <2>2. ASSUME ~touched PROVE \A i \in DOMAIN disk : disk'[i] =
            IF i \in from .. from + size - 1 THEN mem[job.buffer + i - from] ELSE disk[i]
    <3> TAKE i \in DOMAIN disk
    <3>1. i \in Int BY DEF DiskInv, TypeOK
    <3>2. CASE i \in from .. from + size - 1
      <4> HIDE DEF from
      <4>1. from \in Nat BY <1>1 DEF from
      <4>2. i - from \in 0 .. size - 1 BY <1>1, <3>1, <3>2, <4>1
      <4>3. job.buffer \in Int BY BlockAssumption DEF DiskInv, TypeOK
      <4>4. job.buffer + (i - from) = job.buffer + i - from BY <3>1, <4>1, <4>3
      <4> QED BY <2>1, <3>2, <4>2, <4>4
    <3> QED BY <2>1, <3>2
  <2>3. diskSize' \in Nat
    <3> HIDE DEF from
    <3>1. from \in Nat BY <1>1 DEF from
    <3> QED BY <1>1, <2>1, <3>1 DEF Highest
  <2>4. StoresWrite
    <3>1. CASE ~touched
      <4>1. lba = job.lba BY <3>1
      <4> QED BY <2>2, <3>1, <4>1 DEF StoresWrite
    <3> QED BY <3>1 DEF StoresWrite
  <2> QED BY <2>1, <2>3, <2>4
<1>3. CASE ~isOpen
  BY <1>1, <1>3 DEF StoreToDisk, StoresWrite
<1> QED BY <1>2, <1>3

LEMMA StartLoadKeeps ==
  ASSUME DiskInv, StartLoad
  PROVE  DiskInv' /\ StoresWrite /\ status' # "readOk"
<1> DEFINE j == [lba |-> lba, count |-> count, buffer |-> buffer]
<1>0. /\ BlockSize \in Nat \ {0} /\ Lbas \subseteq Nat /\ Buffers \subseteq Nat
  BY BlockAssumption
<1>1. /\ pc = "ready" /\ op \in {"write", "name"} /\ status = "idle" /\ ~irq /\ StatusIsTrue
      /\ size' = count * BlockSize /\ offset' = 0 /\ addr' = buffer
      /\ job' = j /\ ~touched'
      /\ UNCHANGED <<lba, count, buffer, irqen, mem, line, disk, diskSize>>
  <2>1. UNCHANGED <<disk, diskSize>> BY DEF StartLoad, OpenFile
  <2> QED BY <2>1 DEF StartLoad, DiskInv, StatusIsTrue, Done
<1>2. count * BlockSize \in Nat /\ Fits(count)
  <2>1. Fits(count) /\ count \in Nat BY DEF DiskInv, TypeOK, Fits
  <2> QED BY <1>0, <2>1, Products
<1>3. TypeOK'
  <2>1. Fits(count)' /\ Fits(job.count)' BY <1>1, <1>2 DEF Fits
  <2>2. lba \in Nat BY <1>0 DEF DiskInv, TypeOK
  <2> QED BY <1>1, <2>1, <2>2 DEF DiskInv, TypeOK
<1>4. CASE size' = 0
  <2>1. \/ EndError("writeError") \/ EndError("writeOk") \/ EndOk("writeOk")
    BY <1>4 DEF StartLoad, OpenFile
  <2>2. pc' = "waiting" /\ op' = "noop" /\ status' \in {"writeOk", "writeError"}
    BY <2>1 DEF EndOk, EndError
  <2>3. StatusIsTrue'
    <3>1. CASE EndOk("writeOk")
      <4>1. irq' = (irq \/ irqen) /\ irqDue' = (irqDue \/ irqen) /\ status' = "writeOk"
        BY <3>1, Zenon DEF EndOk
      <4> QED BY <1>1, <2>2, <4>1 DEF StatusIsTrue, Moving, Ops, Done
    <3>2. CASE EndError("writeError") \/ EndError("writeOk")
      <4>1. UNCHANGED <<irq, irqDue>> BY <3>2 DEF EndError
      <4> QED BY <1>1, <2>2, <4>1 DEF StatusIsTrue, Moving, Ops, Done
    <3> QED BY <2>1, <3>1, <3>2
  <2>4. StoresWrite
    <3> DEFINE n == job'.count * BlockSize
               from == job'.lba * BlockSize
    <3>1. n = 0 /\ from \in Nat BY <1>0, <1>1, <1>4, Products DEF DiskInv, TypeOK
    <3> HIDE DEF n, from
    <3>2. \A i \in DOMAIN disk : ~ (i \in from .. from + n - 1) BY <3>1
    <3>3. \A i \in DOMAIN disk : disk'[i] = disk[i] BY <1>1
    <3> QED BY <3>2, <3>3 DEF StoresWrite, n, from
  <2> QED BY <1>3, <2>2, <2>3, <2>4 DEF DiskInv, Reading, Loading
<1>5. CASE size' # 0
  <2>1. status' = "busy" /\ Go("load") BY <1>5 DEF StartLoad
  <2>2. pc' = "load" /\ UNCHANGED <<op, irq, irqDue>> BY <2>1 DEF Go
  <2>3. StatusIsTrue' BY <1>1, <2>1, <2>2 DEF StatusIsTrue, Moving, Ops, Done
  <2>4. Loading' BY <1>1, <1>2, <1>5, <2>2 DEF Loading
  <2> QED BY <1>3, <2>1, <2>2, <2>3, <2>4 DEF DiskInv, Reading, StoresWrite
<1> QED BY <1>4, <1>5

LEMMA LoadWordKeeps ==
  ASSUME DiskInv, NEW ok \in BOOLEAN, LoadWord(ok)
  PROVE  DiskInv' /\ StoresWrite /\ status' # "readOk"
<1>1. /\ pc = "load" /\ pc \in Moving /\ StatusIsTrue /\ status = "busy" /\ op \in {"write", "name"}
      /\ ret' = ok
      /\ UNCHANGED <<lba, count, buffer, irqen, size, addr, mem, line, job, touched>>
  BY DEF LoadWord, Moving, DiskInv, StatusIsTrue, Loading
<1>2. /\ size = job.count * BlockSize /\ addr = job.buffer /\ addr \in Int
      /\ offset \in 0 .. size - 1 /\ size \in Nat
      /\ \A i \in 0 .. offset - 1 : data[i] = mem[addr + i]
      /\ touched \/ lba = job.lba
  <2>1. job.count \in Nat /\ BlockSize \in Nat /\ job.buffer \in Int
    BY BlockAssumption DEF DiskInv, TypeOK, Fits
  <2>2. job.count * BlockSize \in Nat BY <2>1, Products
  <2> QED BY <1>1, <2>1, <2>2 DEF DiskInv, Loading
<1>3. CASE ~ok
  <2>1. EndError("writeError") /\ UNCHANGED <<disk, diskSize>>
    BY <1>1, <1>3 DEF LoadWord, AfterLoad
  <2>2. TypeOK' BY <1>1, <2>1 DEF DiskInv, TypeOK, Fits
  <2>3. StatusIsTrue' /\ pc' = "waiting" BY <1>1, <2>1, EndKeeps
  <2>4. status' = "writeError" BY <2>1 DEF EndError
  <2> QED BY <2>2, <2>3, <2>4 DEF DiskInv, Reading, Loading, StoresWrite
<1>4. CASE ok
  <2>1. /\ offset' = offset + Word
        /\ data' = [i \in 0 .. offset' - 1 |-> IF i < offset THEN data[i] ELSE mem[addr + i]]
        /\ Word \in Nat \ {0}
    BY <1>4, BlockAssumption DEF LoadWord
  <2>2. \A i \in 0 .. offset' - 1 : data'[i] = mem[addr + i] BY <1>2, <2>1
  <2>3. CASE offset' < size
    <3>1. Go("load") /\ UNCHANGED <<status, isOpen, disk, diskSize>> BY <1>4, <2>3 DEF LoadWord
    <3>2. "load" \in Moving BY DEF Moving
    <3>3. StatusIsTrue' /\ pc' = "load" /\ UNCHANGED <<op, status>> BY <1>1, <3>1, <3>2, GoKeeps
    <3>4. TypeOK' BY <1>1, <3>1 DEF DiskInv, TypeOK, Fits
    <3>5. Loading' BY <1>1, <1>2, <2>1, <2>2, <2>3, <3>3 DEF Loading
    <3> QED BY <1>1, <3>3, <3>4, <3>5 DEF DiskInv, Reading, StoresWrite
  <2>4. CASE ~ (offset' < size)
    <3>1. IF op = "write" THEN StoreToDisk ELSE OpenFile
      BY <1>1, <1>4, <2>4 DEF LoadWord, AfterLoad
    <3>2. \A i \in 0 .. size - 1 : data'[i] = mem[addr + i] BY <1>2, <2>1, <2>2, <2>4
    <3>3. CASE op = "write"
      <4>1. StoreToDisk BY <3>1, <3>3
      <4>2. StoresWrite /\ DOMAIN disk' = DOMAIN disk /\ diskSize' \in Nat
        BY <1>1, <1>2, <3>2, <4>1, StoreKeeps
      <4>3. EndOk("writeOk") BY <4>1 DEF StoreToDisk
      <4>4. StatusIsTrue' /\ pc' = "waiting" BY <1>1, <4>3, EndKeeps
      <4>5. TypeOK' BY <1>1, <4>2 DEF DiskInv, TypeOK, Fits
      <4>6. status' = "writeOk" BY <4>3 DEF EndOk
      <4> QED BY <4>2, <4>4, <4>5, <4>6 DEF DiskInv, Reading, Loading
    <3>4. CASE op = "name"
      <4>1. OpenFile BY <3>1, <3>4
      <4>2. (EndError("writeOk") \/ EndError("writeError")) /\ UNCHANGED <<disk, diskSize>>
        BY <4>1 DEF OpenFile
      <4>3. StatusIsTrue' /\ pc' = "waiting" BY <1>1, <4>2, EndKeeps
      <4>4. TypeOK' BY <1>1, <4>2 DEF DiskInv, TypeOK, Fits
      <4>5. status' # "readOk" BY <4>2 DEF EndError
      <4> QED BY <3>4, <4>3, <4>4, <4>5 DEF DiskInv, Reading, Loading, StoresWrite
    <3> QED BY <1>1, <3>3, <3>4
  <2> QED BY <2>3, <2>4
<1> QED BY <1>3, <1>4
-----------------------------------------------------------------------------
LEMMA NextKeeps ==
  ASSUME DiskInv, [Next]_vars
  PROVE  DiskInv' /\ (UNCHANGED vars \/ (DeliversRead /\ StoresWrite))
<1>1. CASE Access
  BY <1>1, AccessKeeps DEF DeliversRead, StoresWrite, Done
<1>2. CASE IrqUpdate
  BY <1>2, IrqUpdateKeeps DEF DeliversRead, StoresWrite
<1>3. CASE ControlThread
  <2>1. CASE StartNoop BY <2>1, StartNoopKeeps DEF DeliversRead, StoresWrite
  <2>2. CASE StartRead BY <2>2, StartReadKeeps DEF StoresWrite
  <2>3. CASE StartLoad BY <2>3, StartLoadKeeps DEF DeliversRead
  <2>4. ASSUME NEW ok \in BOOLEAN, WriteWord(ok) \/ WriteByte(ok) \/ LoadWord(ok)
        PROVE  DiskInv' /\ DeliversRead /\ StoresWrite
    <3>1. CASE WriteWord(ok) BY <3>1, WriteWordKeeps DEF StoresWrite
    <3>2. CASE WriteByte(ok) BY <3>2, WriteByteKeeps DEF StoresWrite
    <3>3. CASE LoadWord(ok) BY <3>3, LoadWordKeeps DEF DeliversRead
    <3> QED BY <2>4, <3>1, <3>2, <3>3
  <2> QED BY <1>3, <2>1, <2>2, <2>3, <2>4 DEF ControlThread
<1>4. CASE UNCHANGED vars
  <2>1. TypeOK' BY <1>4 DEF DiskInv, TypeOK, Fits, vars, regs, locals, store
  <2>2. StatusIsTrue' BY <1>4 DEF DiskInv, StatusIsTrue, vars, regs
  <2>3. Reading' /\ Loading'
    BY <1>4 DEF DiskInv, Reading, Loading, There, vars, regs, locals, store
  <2> QED BY <1>4, <2>1, <2>2, <2>3 DEF DiskInv
<1> QED BY <1>1, <1>2, <1>3, <1>4 DEF Next

LEMMA Invariant == Spec => []DiskInv
<1>1. DiskInv /\ [Next]_vars => DiskInv' BY NextKeeps
<1> QED BY <1>1, Starts, PTL DEF Spec

(* The interrupt line of a disk is only high, once the threads have settled, when an
   operation has succeeded and its status has not been read (irq_update_thread,
   BLOCK_DEVICE_STATUS). *)
THEOREM DiskInterrupts == Spec => []InterruptMeansDone
<1>1. DiskInv => InterruptMeansDone BY DEF DiskInv, StatusIsTrue, InterruptMeansDone
<1> QED BY <1>1, Invariant, PTL

(* Reads and writes that report success have moved exactly the blocks asked for, for
   every size of word, block and disk, however many bus accesses fail (control_thread). *)
THEOREM BlocksArrive == Spec => TransfersAreWhole
<1>1. DiskInv /\ [Next]_vars => [DeliversRead /\ StoresWrite]_vars BY NextKeeps
<1> QED BY <1>1, Invariant, PTL DEF Spec, TransfersAreWhole
-----------------------------------------------------------------------------
(* The driver.                                                             *)

\* What the status may say at the end of a call.
Ends(w) == IF w = "read" THEN {"readOk", "readError"} ELSE {"writeOk", "writeError"}

\* Descriptors, the state of the driver and the file it has open.
DriverState ==
    /\ loff \in [Descriptors -> Nat \cup {Closed}]
    /\ who \in Descriptors
    /\ at \in {"none", "buffer", "lba", "count", "op", "poll"}
    /\ StateIsRight /\ state \in 0 .. 3
    /\ state = 2 => isOpen
    /\ ~touched

\* The call in progress: who makes it, and its bytes.
CallInv ==
    at # "none" =>
      /\ loff[who] \in Lbas /\ length \in Counts
      /\ what \in {"read", "write", "name"}
      /\ state = IF what = "name" THEN 1 ELSE 3
      /\ what = "write" => /\ user = [i \in 1 .. length |-> user[i]]
                           /\ \A a \in 0 .. length - 1 : mem[a] = user[a + 1]

\* The device: it rests between calls, has the registers of the call when it starts and
\* moves what the call asked for.
DeviceInv ==
    /\ at # "poll" => pc = "waiting" /\ status = "idle"
    /\ at \in {"lba", "count", "op", "poll"} => buffer = 0
    /\ at \in {"count", "op", "poll"} /\ what # "name" => lba = loff[who]
    /\ at = "op" => count = length
    /\ at = "poll" =>
         /\ pc = "ready" => op = what /\ count = length
         /\ pc \in Moving => /\ op = what
                             /\ job = [lba |-> lba, count |-> length, buffer |-> 0]
         /\ pc = "waiting" => status \in Ends(what)
         /\ what = "name" /\ status = "writeOk" => isOpen
         /\ status = "readOk" =>
              /\ count = Lowest(length, Highest(0, diskSize - lba))
              /\ \A i \in 0 .. count - 1 : mem[i] = disk[lba + i]

\* Nothing was ever written behind the end of the file.
EndOfDisk ==
    /\ diskSize <= DiskBytes
    /\ \A i \in diskSize .. DiskBytes - 1 : disk[i] = Hole

HostInv == DiskInv /\ DriverState /\ CallInv /\ DeviceInv /\ EndOfDisk
\* The driver writes memory only when the device rests.
LEMMA MemoryKeeps ==
  ASSUME DiskInv, pc = "waiting", DOMAIN mem' = DOMAIN mem,
         UNCHANGED <<regs, pc, locals, isOpen, disk, diskSize, line, irqDue, job, touched, started>>
  PROVE  DiskInv'
<1>1. TypeOK' BY DEF DiskInv, TypeOK, Fits, regs, locals
<1>2. StatusIsTrue' BY DEF DiskInv, StatusIsTrue, regs
<1>3. Reading' /\ Loading' BY DEF Reading, Loading
<1> QED BY <1>1, <1>2, <1>3 DEF DiskInv

LEMMA StillKeeps == ASSUME DiskInv, UNCHANGED vars PROVE DiskInv'
BY NextKeeps

LEMMA HeldIsFinite == DriverState => IsFiniteSet(Held) /\ Cardinality(Held) \in Nat
<1>1. Held \subseteq Descriptors BY DEF Held
<1> QED BY <1>1, HostAssumption, FS_Subset, FS_CardinalityType

LEMMA HostStarts == HostInit => HostInv /\ Programs!FileInit
<1> SUFFICES ASSUME HostInit PROVE HostInv /\ Programs!FileInit OBVIOUS
<1>1. DiskInv BY Starts DEF HostInit
<1>2. loff = [d \in Descriptors |-> Closed] /\ at = "none" BY DEF HostInit
<1>3. Held = {} BY <1>2 DEF Held
<1>4. DriverState
  <2>1. StateIsRight BY <1>3, FS_EmptySet DEF HostInit, StateIsRight
  <2> QED BY <2>1 DEF HostInit, Init, DriverState
<1>5. CallInv /\ DeviceInv BY <1>2 DEF HostInit, Init, CallInv, DeviceInv
<1>6. EndOfDisk BY BlockAssumption DEF HostInit, Init, EndOfDisk
<1>7. Programs!FileInit
  <2>1. \A d \in Descriptors : Position(d) = 0 BY <1>2 DEF Position
  <2> QED BY <2>1 DEF Programs!FileInit, HostInit
<1> QED BY <1>1, <1>4, <1>5, <1>6, <1>7 DEF HostInv

LEMMA OpenKeeps ==
  ASSUME HostInv, NEW d \in Descriptors, Open(d)
  PROVE  HostInv' /\ Programs!Call
<1>1. /\ at = "none" /\ at' = "none" /\ loff[d] = Closed /\ state # 1
      /\ loff \in [Descriptors -> Nat \cup {Closed}]
      /\ loff' = [loff EXCEPT ![d] = 0]
      /\ DOMAIN mem' = DOMAIN mem
      /\ UNCHANGED <<regs, pc, locals, isOpen, disk, diskSize, line, irqDue, job, touched, started>>
      /\ UNCHANGED <<who, what, length, user, given>>
  BY DEF HostInv, DriverState, Open, Idle
<1>2. DiskInv' BY <1>1, MemoryKeeps DEF HostInv, DeviceInv
<1>3. DriverState'
  <2>1. d \notin Held /\ Held' = Held \cup {d}
    BY <1>1 DEF Held, Closed
  <2>2. Cardinality(Held') = Cardinality(Held) + 1
    BY <2>1, HeldIsFinite, FS_AddElement DEF HostInv
  <2>3. openCount' = Cardinality(Held')
    BY <2>2 DEF HostInv, DriverState, StateIsRight, Open
  <2>4. state' \in {1, 3} /\ (state' = 3 => isOpen)
    BY DEF HostInv, DriverState, StateIsRight, Open
  <2>5. StateIsRight' BY <1>1, <2>1, <2>3, <2>4 DEF StateIsRight
  <2> QED BY <1>1, <2>4, <2>5 DEF HostInv, DriverState
<1>4. CallInv' /\ DeviceInv' /\ EndOfDisk'
  BY <1>1 DEF HostInv, CallInv, DeviceInv, EndOfDisk, regs, Hole
<1>5. Programs!Call
  <2>1. \A e \in Descriptors : Position(e)' = Position(e)
    BY <1>1 DEF Position, WriteDone, Closed
  <2>2. Contents' = Contents BY <1>1 DEF Contents
  <2> QED BY <1>1, <2>1, <2>2 DEF Programs!Call
<1> QED BY <1>2, <1>3, <1>4, <1>5 DEF HostInv

\* A new position of one descriptor, between calls, is a seek of the abstract file.
LEMMA SeekImplements ==
  ASSUME DriverState, NEW d \in Descriptors, NEW q \in Nat \cup {Closed},
         at = "none", at' = "none", loff' = [loff EXCEPT ![d] = q],
         UNCHANGED <<disk, diskSize, length, user, given>>
  PROVE  Programs!Seek(d)
<1> DEFINE p == [e \in Descriptors |-> Position(e)]
<1>1. ~WriteDone /\ ~WriteDone' BY DEF WriteDone
<1>2. \A e \in Descriptors : Position(e)' = IF e = d THEN (IF q = Closed THEN 0 ELSE q) ELSE Position(e)
  BY <1>1 DEF Position, DriverState
<1>3. p' = [p EXCEPT ![d] = p'[d]] /\ p'[d] \in Nat
  <2>1. p' = [e \in Descriptors |-> IF e = d THEN (IF q = Closed THEN 0 ELSE q) ELSE Position(e)]
    BY <1>2, Zenon
  <2>2. p = [e \in Descriptors |-> Position(e)] OBVIOUS
  <2> HIDE DEF p
  <2> QED BY <2>1, <2>2
<1>4. Contents' = Contents BY DEF Contents
<1> HIDE DEF p
<1> QED BY <1>3, <1>4, Zenon DEF Programs!Seek, p

LEMMA ReleaseKeeps ==
  ASSUME HostInv, NEW d \in Descriptors, Release(d)
  PROVE  HostInv' /\ Programs!Seek(d)
<1>1. /\ at = "none" /\ at' = "none" /\ loff[d] # Closed
      /\ loff \in [Descriptors -> Nat \cup {Closed}]
      /\ loff' = [loff EXCEPT ![d] = Closed]
      /\ UNCHANGED vars
      /\ UNCHANGED <<who, what, length, user, given>>
  BY DEF HostInv, DriverState, Release, Idle
<1>2. DiskInv' BY <1>1, StillKeeps DEF HostInv
<1>3. DriverState'
  <2>1. d \in Held /\ Held' = Held \ {d} BY <1>1 DEF Held, Closed
  <2>2. Cardinality(Held') = Cardinality(Held) - 1
    BY <2>1, HeldIsFinite, FS_RemoveElement DEF HostInv
  <2>3. openCount' = Cardinality(Held')
    BY <2>2 DEF HostInv, DriverState, StateIsRight, Release
  <2>4. openCount = 1 <=> Held' = {}
    <3>1. openCount = 1 <=> Cardinality(Held') = 0
      BY <2>2, HeldIsFinite DEF HostInv, DriverState, StateIsRight
    <3>2. IsFiniteSet(Held') BY <2>1, HeldIsFinite, FS_RemoveElement DEF HostInv
    <3> QED BY <3>1, <3>2, FS_EmptySet
  <2>5. /\ state' = CASE state = 1 -> 0 [] state = 3 /\ openCount = 1 -> 2 [] OTHER -> state
        /\ state \in 0 .. 3 /\ state # 2 /\ (state = 3 => isOpen)
    BY <2>1 DEF HostInv, DriverState, StateIsRight, Release
  <2>6. /\ state' \in 0 .. 3 /\ (state' \in {2, 3} => isOpen)
        /\ (state' = 2 => Held' = {}) /\ (state' \in {1, 3} => Held' # {})
    BY <2>4, <2>5
  <2>7. isOpen' = isOpen /\ touched' = touched BY <1>1 DEF vars, store
  <2>8. StateIsRight' BY <2>3, <2>6, <2>7 DEF StateIsRight
  <2> QED BY <1>1, <2>6, <2>7, <2>8 DEF HostInv, DriverState
<1>4. CallInv' /\ DeviceInv' /\ EndOfDisk'
  BY <1>1 DEF HostInv, CallInv, DeviceInv, EndOfDisk, vars, regs, store, Hole
<1>5. Programs!Seek(d)
  BY <1>1, SeekImplements DEF HostInv, vars, store
<1> QED BY <1>2, <1>3, <1>4, <1>5 DEF HostInv

LEMMA SeekKeeps ==
  ASSUME HostInv, NEW d \in Descriptors, Seek(d)
  PROVE  HostInv' /\ Programs!Seek(d)
<1>1. PICK q \in Positions \cup {diskSize} : loff' = [loff EXCEPT ![d] = q] BY DEF Seek
<1>2. q \in Nat /\ q # Closed
  BY HostAssumption DEF HostInv, DiskInv, TypeOK, Closed
<1>3. /\ at = "none" /\ at' = "none" /\ loff[d] # Closed
      /\ loff \in [Descriptors -> Nat \cup {Closed}]
      /\ UNCHANGED vars /\ UNCHANGED <<state, openCount, who, what, length, user, given>>
  BY DEF HostInv, DriverState, Seek, Idle
<1>4. DiskInv' BY <1>3, StillKeeps DEF HostInv
<1>5. DriverState'
  <2>1. Held' = Held BY <1>1, <1>2, <1>3 DEF Held
  <2> QED BY <1>1, <1>2, <1>3, <2>1 DEF HostInv, DriverState, StateIsRight, vars, store
<1>6. CallInv' /\ DeviceInv' /\ EndOfDisk'
  BY <1>3 DEF HostInv, CallInv, DeviceInv, EndOfDisk, vars, regs, store, Hole
<1>7. Programs!Seek(d)
  BY <1>1, <1>2, <1>3, SeekImplements DEF HostInv, vars, store
<1> QED BY <1>4, <1>5, <1>6, <1>7 DEF HostInv

\* What programs do not see: a step that neither ends a write nor moves a descriptor.
LEMMA UnseenIsCall ==
  ASSUME ~WriteDone, ~WriteDone', UNCHANGED <<loff, disk, diskSize, given>>
  PROVE  Programs!Call
<1>1. \A e \in Descriptors : Position(e)' = Position(e) BY DEF Position
<1>2. Contents' = Contents BY DEF Contents
<1> QED BY <1>1, <1>2 DEF Programs!Call

LEMMA BeginNameKeeps ==
  ASSUME HostInv, NEW d \in Descriptors, BeginName(d)
  PROVE  HostInv' /\ Programs!Call
<1>1. /\ at = "none" /\ at' = "buffer" /\ loff[d] # Closed /\ loff[d] \in Lbas
      /\ who' = d /\ what' = "name" /\ length' = Word /\ state' = 1
      /\ DOMAIN mem' = DOMAIN mem
      /\ UNCHANGED <<openCount, loff, given>>
      /\ UNCHANGED <<regs, pc, locals, isOpen, disk, diskSize, line, irqDue, job, touched, started>>
  BY DEF BeginName, Begin
<1>2. pc = "waiting" /\ status = "idle" BY <1>1 DEF HostInv, DeviceInv
<1>3. DiskInv' BY <1>1, <1>2, MemoryKeeps DEF HostInv
<1>4. DriverState'
  <2>1. Held' = Held /\ d \in Held BY <1>1 DEF Held
  <2>2. StateIsRight' BY <1>1, <2>1 DEF HostInv, DriverState, StateIsRight
  <2> QED BY <1>1, <2>2 DEF HostInv, DriverState
<1>5. CallInv' BY <1>1, HostAssumption DEF CallInv
<1>6. DeviceInv' BY <1>1, <1>2 DEF DeviceInv, regs
<1>7. EndOfDisk' BY <1>1 DEF HostInv, EndOfDisk, Hole
<1>8. Programs!Call BY <1>1, UnseenIsCall DEF WriteDone
<1> QED BY <1>3, <1>4, <1>5, <1>6, <1>7, <1>8 DEF HostInv

LEMMA RequestFits ==
  ASSUME NEW n \in Sizes
  PROVE  Lowest(n, BufferSize) \in Counts /\ Lowest(n, BufferSize) \in Nat
BY HostAssumption DEF Lowest

LEMMA BeginReadKeeps ==
  ASSUME HostInv, NEW d \in Descriptors, NEW n \in Sizes, BeginRead(d, n)
  PROVE  HostInv' /\ Programs!Call
<1>1. /\ at = "none" /\ at' = "buffer" /\ loff[d] # Closed /\ loff[d] \in Lbas
      /\ who' = d /\ what' = "read" /\ length' = Lowest(n, BufferSize) /\ state = 3 /\ state' = 3
      /\ UNCHANGED <<openCount, loff, given>> /\ UNCHANGED vars
  BY DEF BeginRead, Begin
<1>2. pc = "waiting" /\ status = "idle" BY <1>1 DEF HostInv, DeviceInv
<1>3. DiskInv' BY <1>1, StillKeeps DEF HostInv
<1>4. DriverState'
  <2>1. Held' = Held BY <1>1 DEF Held
  <2> QED BY <1>1, <2>1 DEF HostInv, DriverState, StateIsRight, vars, store
<1>5. CallInv' BY <1>1, RequestFits DEF CallInv
<1>6. DeviceInv' BY <1>1, <1>2 DEF DeviceInv, vars, regs
<1>7. EndOfDisk' BY <1>1 DEF HostInv, EndOfDisk, Hole, vars, store
<1>8. Programs!Call BY <1>1, UnseenIsCall DEF WriteDone, vars, store
<1> QED BY <1>3, <1>4, <1>5, <1>6, <1>7, <1>8 DEF HostInv

LEMMA BeginWriteKeeps ==
  ASSUME HostInv, NEW d \in Descriptors, NEW n \in Sizes, BeginWrite(d, n)
  PROVE  HostInv' /\ Programs!Call
<1> DEFINE k == Lowest(n, BufferSize)
<1>1. /\ at = "none" /\ at' = "buffer" /\ loff[d] # Closed /\ loff[d] \in Lbas
      /\ who' = d /\ what' = "write" /\ length' = k /\ state = 3
      /\ user' = [i \in 1 .. k |-> <<"user", started, i>>]
      /\ mem' = [a \in DOMAIN mem |-> IF a < k THEN user'[a + 1] ELSE mem[a]]
      /\ UNCHANGED <<openCount, loff, given>>
      /\ UNCHANGED <<regs, pc, locals, isOpen, disk, diskSize, line, irqDue, job, touched, started, state>>
  BY DEF BeginWrite, Begin
<1>2. pc = "waiting" /\ status = "idle" BY <1>1 DEF HostInv, DeviceInv
<1>3. DiskInv' BY <1>1, <1>2, MemoryKeeps DEF HostInv
<1>4. DriverState'
  <2>1. Held' = Held BY <1>1 DEF Held
  <2> QED BY <1>1, <2>1 DEF HostInv, DriverState, StateIsRight
<1>5. CallInv'
  <2>1. k \in Counts /\ k \in Nat BY RequestFits
  <2> HIDE DEF k
  <2>2. MemBytes \in Nat /\ k <= MemBytes /\ DOMAIN mem = 0 .. MemBytes - 1
    <3>1. Fits(k) BY <2>1, FitsWritten
    <3>2. k * BlockSize = k /\ MemBytes \in Nat BY <2>1, HostAssumption, BlockAssumption
    <3>3. 0 + k * BlockSize <= MemBytes BY <3>1 DEF Fits
    <3>4. k <= MemBytes BY <2>1, <3>2, <3>3
    <3> QED BY <3>2, <3>4 DEF HostInv, DiskInv, TypeOK
  <2>3. \A a \in 0 .. k - 1 : mem'[a] = user'[a + 1] BY <1>1, <2>1, <2>2
  <2>4. user' = [i \in 1 .. k |-> user'[i]] BY <1>1
  <2> QED BY <1>1, <2>1, <2>3, <2>4 DEF CallInv
<1>6. DeviceInv' BY <1>1, <1>2 DEF DeviceInv, regs
<1>7. EndOfDisk' BY <1>1 DEF HostInv, EndOfDisk, Hole
<1>8. Programs!Call BY <1>1, UnseenIsCall DEF WriteDone
<1> QED BY <1>3, <1>4, <1>5, <1>6, <1>7, <1>8 DEF HostInv

LEMMA SetUpKeeps ==
  ASSUME HostInv, SetUp
  PROVE  HostInv' /\ Programs!Call
<1>1. /\ at \in {"buffer", "lba", "count", "op"} /\ pc = "waiting" /\ status = "idle"
      /\ what \in {"read", "write", "name"} /\ loff[who] \in Lbas /\ length \in Counts
      /\ ~touched /\ DiskInv
      /\ UNCHANGED <<state, openCount, loff, who, what, length, user, given>>
  BY DEF SetUp, Then, HostInv, DriverState, CallInv, DeviceInv
<1>2. /\ UNCHANGED <<status, disk, diskSize, mem, isOpen>> /\ ~touched'
      /\ at = "op" <=> at' = "poll"
      /\ DiskInv'
  <2>1. CASE at = "buffer" /\ WriteSetup(lba, count, 0) /\ at' # "poll"
    BY <1>1, <2>1, SetupKeeps DEF WriteSetup, store
  <2>2. CASE at = "lba" /\ WriteSetup(loff[who], count, buffer) /\ at' = "count"
    BY <1>1, <2>2, SetupKeeps DEF WriteSetup, store
  <2>3. CASE at = "count" /\ WriteSetup(lba, length, buffer) /\ at' = "op"
    BY <1>1, <2>3, SetupKeeps DEF WriteSetup, store
  <2>4. CASE at = "op" /\ WriteOp(what) /\ at' = "poll"
    <3>1. Access BY <1>1, <2>4 DEF Access, Ops
    <3> QED BY <1>1, <2>4, <3>1, AccessKeeps DEF WriteOp, store, HostInv
  <2> QED BY <2>1, <2>2, <2>3, <2>4 DEF SetUp, Then
<1>3. DriverState'
  <2>1. Held' = Held BY <1>1 DEF Held
  <2>2. at' \in {"lba", "count", "op", "poll"} BY DEF SetUp, Then
  <2> QED BY <1>1, <1>2, <2>1, <2>2 DEF HostInv, DriverState, StateIsRight
<1>4. CallInv' BY <1>1, <1>2 DEF HostInv, CallInv
<1>5. DeviceInv'
  <2>1. CASE at = "buffer" /\ WriteSetup(lba, count, 0) /\ at' = IF what = "name" THEN "count" ELSE "lba"
    BY <1>1, <2>1 DEF WriteSetup, DeviceInv
  <2>2. CASE at = "lba" /\ WriteSetup(loff[who], count, buffer) /\ at' = "count"
    BY <1>1, <2>2 DEF WriteSetup, DeviceInv, HostInv
  <2>3. CASE at = "count" /\ WriteSetup(lba, length, buffer) /\ at' = "op"
    BY <1>1, <2>3 DEF WriteSetup, DeviceInv, HostInv
  <2>4. CASE at = "op" /\ WriteOp(what) /\ at' = "poll"
    BY <1>1, <2>4 DEF WriteOp, DeviceInv, HostInv, Moving
  <2> QED BY <2>1, <2>2, <2>3, <2>4 DEF SetUp, Then
<1>6. EndOfDisk' BY <1>2 DEF HostInv, EndOfDisk, Hole
<1>7. Programs!Call
  BY <1>1, <1>2, UnseenIsCall DEF WriteDone
<1> QED BY <1>2, <1>3, <1>4, <1>5, <1>6, <1>7 DEF HostInv

\* What a read gives is the part of the file behind the position.
LEMMA ReadIsPart ==
  ASSUME DiskInv, NEW p \in Nat, NEW k \in Nat, NEW n,
         n = Lowest(k, Highest(0, diskSize - p)),
         \A i \in 0 .. n - 1 : mem[i] = disk[p + i]
  PROVE  /\ n \in Nat
         /\ [i \in 1 .. n |-> mem[i - 1]]
              = SubSeq(Contents, p + 1, Programs!Smaller(p + k, Len(Contents)))
         /\ Len([i \in 1 .. n |-> mem[i - 1]]) = n
<1>1. diskSize \in Nat BY DEF DiskInv, TypeOK
<1>2. n \in Nat BY <1>1 DEF Lowest, Highest
<1>3. Len(Contents) = diskSize BY <1>1 DEF Contents
<1> DEFINE e == Programs!Smaller(p + k, Len(Contents))
<1>4. e \in Nat /\ (e - p = n \/ (e <= p /\ n = 0))
  BY <1>1, <1>2, <1>3 DEF Programs!Smaller, Lowest, Highest
<1> HIDE DEF e
<1>5. SubSeq(Contents, p + 1, e) = [i \in 1 .. n |-> Contents[i + p]]
  <2> DEFINE S == {Contents[i] : i \in p + 1 .. e}
             s == SubSeq(Contents, p + 1, e)
  <2>1. /\ s \in Seq(S) /\ Len(s) = IF p + 1 <= e THEN e - (p + 1) + 1 ELSE 0
        /\ \A i \in 1 .. e - (p + 1) + 1 : s[i] = Contents[p + 1 + i - 1]
    <3>1. p + 1 \in Int /\ e \in Int BY <1>4
    <3>2. \A i \in p + 1 .. e : Contents[i] \in S OBVIOUS
    <3> HIDE DEF S
    <3> QED BY <3>1, <3>2, SubSeqProperties
  <2> HIDE DEF s, S
  <2>2. s \in [1 .. Len(s) -> S] BY <2>1
  <2>3. Len(s) = n BY <1>2, <1>4, <2>1
  <2>4. \A i \in 1 .. n : s[i] = Contents[i + p]
    <3> TAKE i \in 1 .. n
    <3>1. i \in 1 .. e - (p + 1) + 1 BY <1>2, <1>4
    <3>2. p + 1 + i - 1 = i + p BY <1>2
    <3> QED BY <2>1, <3>1, <3>2
  <2> QED BY <2>2, <2>3, <2>4 DEF s
<1>6. \A i \in 1 .. n : Contents[i + p] = mem[i - 1]
  <2> TAKE i \in 1 .. n
  <2>1. i + p \in 1 .. diskSize BY <1>1, <1>2, <1>3, <1>4 DEF Programs!Smaller, e
  <2>2. Contents[i + p] = disk[i + p - 1] BY <2>1 DEF Contents
  <2>3. i - 1 \in 0 .. n - 1 /\ p + (i - 1) = i + p - 1 BY <1>2
  <2> QED BY <2>2, <2>3
<1>7. [i \in 1 .. n |-> mem[i - 1]] = [i \in 1 .. n |-> Contents[i + p]] BY <1>6
<1>8. Len([i \in 1 .. n |-> mem[i - 1]]) = n BY <1>2
<1> QED BY <1>2, <1>5, <1>7, <1>8 DEF e

\* The end of a call: a read gives its bytes, a write has given its own before.
LEMMA PollKeeps ==
  ASSUME HostInv, Poll
  PROVE  HostInv' /\ (Programs!Call \/ Programs!Read(who))
<1>1. /\ at = "poll" /\ at' = "none" /\ ReadStatus /\ pc = "waiting" /\ status' = "idle" /\ pc' = pc
      /\ UNCHANGED <<mem, disk, diskSize, isOpen, touched, openCount, who, what, length, user>>
      /\ DiskInv
  BY DEF Poll, ReadStatus, Others, store, HostInv, DiskInv, StatusIsTrue, Moving
<1>2. /\ who \in Descriptors /\ loff \in [Descriptors -> Nat \cup {Closed}]
      /\ loff[who] \in Nat /\ loff[who] # Closed /\ loff[who] + 0 = loff[who]
      /\ length \in Nat /\ count \in Nat /\ what \in {"read", "write", "name"}
      /\ state = IF what = "name" THEN 1 ELSE 3
      /\ (what # "name" => lba = loff[who])
      /\ status \in Ends(what)
  <2>1. /\ loff[who] \in Lbas /\ length \in Counts /\ what \in {"read", "write", "name"}
        /\ state = IF what = "name" THEN 1 ELSE 3
    BY <1>1 DEF HostInv, CallInv
  <2>2. Lbas \subseteq Nat /\ Counts \subseteq Nat BY BlockAssumption
  <2>3. who \in Descriptors /\ loff \in [Descriptors -> Nat \cup {Closed}] /\ count \in Nat
    BY <1>1 DEF HostInv, DriverState, DiskInv, TypeOK, Fits
  <2>4. (what # "name" => lba = loff[who]) /\ status \in Ends(what)
    BY <1>1 DEF HostInv, DeviceInv
  <2> QED BY <2>1, <2>2, <2>3, <2>4 DEF Closed
<1>3. DiskInv' BY <1>1, AccessKeeps DEF Access
<1>4. CallInv' /\ DeviceInv' /\ EndOfDisk'
  BY <1>1 DEF HostInv, CallInv, DeviceInv, EndOfDisk, Hole
<1>5. CASE status # Success
  <2>1. state' = (IF what = "name" THEN state ELSE 0) /\ UNCHANGED <<loff, given>> BY <1>5 DEF Poll
  <2>2. Held' = Held BY <2>1 DEF Held
  <2>3. StateIsRight' BY <1>1, <1>2, <2>1, <2>2 DEF HostInv, DriverState, StateIsRight
  <2>4. DriverState' BY <1>1, <1>2, <2>1, <2>3 DEF HostInv, DriverState
  <2>5. ~WriteDone /\ ~WriteDone' BY <1>1, <1>5 DEF WriteDone, Success
  <2>6. Programs!Call BY <1>1, <2>1, <2>5, UnseenIsCall
  <2> QED BY <1>3, <1>4, <2>4, <2>6 DEF HostInv
<1>6. CASE status = Success
  <2> DEFINE n == IF what = "name" THEN 0 ELSE Returned(count)
  <2>1. /\ state' = 3 /\ loff' = [loff EXCEPT ![who] = @ + n]
        /\ given' = IF what = "read" THEN [i \in 1 .. n |-> mem[i - 1]] ELSE given
    BY <1>6 DEF Poll
  <2>2. n = (IF what = "name" THEN 0 ELSE IF what = "read" THEN count ELSE length) /\ n \in Nat
    BY <1>2 DEF Returned
  <2> HIDE DEF n
  <2>3. Held' = Held /\ who \in Held BY <1>2, <2>1, <2>2 DEF Held, Closed
  <2>4. isOpen
    BY <1>1, <1>2, <1>6 DEF Success, HostInv, DriverState, StateIsRight, DeviceInv
  <2>5. StateIsRight' BY <1>1, <2>1, <2>3, <2>4 DEF HostInv, DriverState, StateIsRight
  <2>6. DriverState'
    <3>1. loff' \in [Descriptors -> Nat \cup {Closed}] BY <1>2, <2>1, <2>2
    <3> QED BY <1>1, <1>2, <2>1, <2>4, <2>5, <3>1 DEF HostInv, DriverState
  <2>7. Contents' = Contents /\ ~WriteDone' BY <1>1 DEF Contents, WriteDone
  <2>8. CASE what = "read"
    <3> DEFINE p == [e \in Descriptors |-> Position(e)]
    <3>1. status = "readOk" /\ n = count BY <1>6, <2>2, <2>8 DEF Success
    <3>2. /\ n = Lowest(length, Highest(0, diskSize - loff[who]))
          /\ \A i \in 0 .. n - 1 : mem[i] = disk[loff[who] + i]
      BY <1>1, <1>2, <2>8, <3>1 DEF HostInv, DeviceInv
    <3>3. /\ given' = SubSeq(Contents, loff[who] + 1, Programs!Smaller(loff[who] + length, Len(Contents)))
          /\ Len(given') = n
      BY <1>1, <1>2, <2>1, <2>8, <3>2, ReadIsPart
    <3>4. \A e \in Descriptors : Position(e) = (IF loff[e] = Closed THEN 0 ELSE loff[e])
      BY <2>8 DEF Position, WriteDone
    <3>5. p[who] = loff[who] BY <1>2, <3>4
    <3>6. p' = [p EXCEPT ![who] = @ + Len(given')]
      <4>1. \A e \in Descriptors : Position(e)' = (IF loff'[e] = Closed THEN 0 ELSE loff'[e])
        BY <2>7 DEF Position
      <4>2. \A e \in Descriptors : Position(e)' = IF e = who THEN loff[who] + n ELSE Position(e)
        BY <1>2, <2>1, <2>2, <3>4, <4>1 DEF Closed
      <4>3. p' = [e \in Descriptors |-> IF e = who THEN loff[who] + n ELSE Position(e)]
        BY <4>2, Zenon
      <4>4. p = [e \in Descriptors |-> Position(e)] OBVIOUS
      <4> HIDE DEF p
      <4> QED BY <3>3, <3>5, <4>3, <4>4
    <3> HIDE DEF p
    <3>7. Programs!Read(who) BY <1>1, <2>7, <3>3, <3>5, <3>6, Zenon DEF Programs!Read, p
    <3> QED BY <1>3, <1>4, <2>6, <3>7 DEF HostInv
  <2>9. CASE what # "read"
    <3>1. status = "writeOk" /\ given' = given BY <1>6, <2>1, <2>9 DEF Success
    <3>2. \A e \in Descriptors : Position(e)' = Position(e)
      <4>1. \A e \in Descriptors : Position(e)' = (IF loff'[e] = Closed THEN 0 ELSE loff'[e])
        BY <2>7 DEF Position
      <4>2. CASE what = "write"
        BY <1>1, <1>2, <2>1, <2>2, <3>1, <4>1, <4>2 DEF Position, WriteDone, Closed
      <4>3. CASE what = "name"
        BY <1>1, <1>2, <2>1, <2>2, <3>1, <4>1, <4>3 DEF Position, WriteDone, Closed
      <4> QED BY <1>2, <2>9, <4>2, <4>3
    <3>3. Programs!Call BY <2>7, <3>1, <3>2 DEF Programs!Call
    <3> QED BY <1>3, <1>4, <2>6, <3>3 DEF HostInv
  <2> QED BY <2>8, <2>9
<1> QED BY <1>5, <1>6

\* Blocks of one byte.
LEMMA BytesAreBlocks == \A x \in Int : x * BlockSize = x /\ x \div BlockSize = x
BY HostAssumption

\* What a step of the device leaves alone of driver and call.
LEMMA DeviceLeaves ==
  ASSUME HostInv, UNCHANGED driverVars, ~touched', pc # "waiting" \/ UNCHANGED <<isOpen, mem>>,
         what # "name" => isOpen' = isOpen, what = "write" => mem' = mem
  PROVE  DriverState' /\ CallInv'
<1>1. pc # "waiting" => at = "poll" BY DEF HostInv, DeviceInv
<1>2. state \in {2, 3} => isOpen'
  <2>1. CASE pc = "waiting" BY <2>1 DEF HostInv, DriverState, StateIsRight
  <2>2. CASE pc # "waiting"
    BY <1>1, <2>2 DEF HostInv, DriverState, StateIsRight, CallInv
  <2> QED BY <2>1, <2>2
<1>3. Held' = Held BY DEF Held, driverVars
<1>4. StateIsRight' BY <1>2, <1>3 DEF HostInv, DriverState, StateIsRight, driverVars
<1>5. DriverState' BY <1>2, <1>4 DEF HostInv, DriverState, driverVars
<1>6. CallInv' BY DEF HostInv, CallInv, driverVars
<1> QED BY <1>5, <1>6

LEMMA IrqUpdateHost ==
  ASSUME HostInv, IrqUpdate, UNCHANGED driverVars
  PROVE  HostInv' /\ Programs!Call
<1>1. /\ DiskInv' /\ ~touched'
      /\ UNCHANGED <<op, status, lba, count, buffer, pc, isOpen, disk, diskSize, mem, job>>
  BY IrqUpdateKeeps DEF HostInv, DriverState, IrqUpdate, regs, store
<1>2. DriverState' /\ CallInv' BY <1>1, DeviceLeaves
<1>3. DeviceInv' /\ EndOfDisk'
  BY <1>1 DEF HostInv, DeviceInv, EndOfDisk, driverVars, Hole
<1>4. Programs!Call
  <2>1. \A e \in Descriptors : Position(e)' = Position(e)
    BY <1>1 DEF Position, WriteDone, driverVars
  <2>2. Contents' = Contents BY <1>1 DEF Contents
  <2> QED BY <2>1, <2>2 DEF Programs!Call, driverVars
<1> QED BY <1>1, <1>2, <1>3, <1>4 DEF HostInv

LEMMA InCall ==
  ASSUME HostInv, pc # "waiting"
  PROVE  /\ at = "poll" /\ op = what /\ what \in {"read", "write", "name"} /\ DiskInv
         /\ lba \in Nat /\ diskSize \in Nat /\ length \in Nat /\ buffer = 0 /\ ~touched
         /\ (what # "name" => lba = loff[who] /\ lba \in Lbas /\ isOpen)
         /\ length \in Counts
         /\ status \in {"busy", "idle"}
         /\ pc \in Moving => job = [lba |-> lba, count |-> length, buffer |-> 0]
         /\ pc = "ready" => count = length
<1>1. at = "poll" BY DEF HostInv, DeviceInv
<1>2. /\ (pc \in Moving \/ pc = "ready") /\ status \in {"busy", "idle"}
      /\ lba \in Lbas \cup {0} /\ diskSize \in Nat /\ DiskInv
  BY DEF HostInv, DiskInv, StatusIsTrue, TypeOK
<1>3. Lbas \subseteq Nat /\ Counts \subseteq Nat BY BlockAssumption
<1>4. /\ length \in Counts /\ loff[who] \in Lbas /\ what \in {"read", "write", "name"}
      /\ state = IF what = "name" THEN 1 ELSE 3
  BY <1>1 DEF HostInv, CallInv
<1>5. what # "name" => isOpen BY <1>4 DEF HostInv, DriverState, StateIsRight
<1>6. ~touched BY DEF HostInv, DriverState
<1>7. status \in {"busy", "idle"} BY <1>2 DEF DiskInv, StatusIsTrue
<1> QED BY <1>1, <1>2, <1>3, <1>4, <1>5, <1>6, <1>7 DEF HostInv, DeviceInv

\* A step of a read.
LEMMA ReadHost ==
  ASSUME HostInv, UNCHANGED driverVars, pc # "waiting", what = "read",
         DiskInv', DeliversRead, ~touched', pc' # "ready",
         UNCHANGED <<lba, buffer, isOpen, disk, diskSize>>,
         job' = [lba |-> lba, count |-> length, buffer |-> 0],
         pc' = "waiting" => status' \in {"readOk", "readError"},
         pc' # "waiting" => status' = "busy" /\ op' = op
  PROVE  HostInv' /\ Programs!Call
<1>1. /\ at = "poll" /\ op = what /\ lba \in Nat /\ diskSize \in Nat /\ length \in Nat /\ buffer = 0
      /\ lba = loff[who] /\ status \in {"busy", "idle"}
  BY InCall
<1>2. DriverState' /\ CallInv' BY DeviceLeaves
<1>3. ASSUME status' = "readOk"
      PROVE  /\ count' = Lowest(length, Highest(0, diskSize - lba))
             /\ \A i \in 0 .. count' - 1 : mem'[i] = disk[lba + i]
  <2> DEFINE n == Lowest(length, Highest(0, diskSize - lba))
  <2>1. /\ job'.lba * BlockSize = lba /\ job'.count * BlockSize = length /\ job'.buffer = 0
    BY <1>1, BytesAreBlocks
  <2>2. n \in Nat /\ n \div BlockSize = n
    <3>1. n \in Nat BY <1>1 DEF Lowest, Highest
    <3> QED BY <3>1, BytesAreBlocks
  <2>3. Lowest(job'.count * BlockSize, Highest(0, diskSize - job'.lba * BlockSize)) = n BY <2>1
  <2> HIDE DEF n
  <2>4. status # "readOk" BY <1>1
  <2>5. /\ touched' \/ count' = n \div BlockSize
        /\ \A i \in 0 .. n - 1 : mem'[job'.buffer + i] = disk[lba + i]
    BY <1>3, <2>1, <2>3, <2>4 DEF DeliversRead
  <2>6. \A i \in 0 .. n - 1 : job'.buffer + i = i BY <2>1, <2>2
  <2>7. count' = n /\ \A i \in 0 .. n - 1 : mem'[i] = disk[lba + i] BY <2>2, <2>5, <2>6
  <2> QED BY <2>7 DEF n
<1>4. DeviceInv'
  <2>1. pc' \in Moving \cup {"waiting"} BY DEF DiskInv, StatusIsTrue
  <2>2. status' # "writeOk" BY <2>1
  <2> QED BY <1>1, <1>3, <2>1, <2>2 DEF DeviceInv, driverVars, Ends, Moving
<1>5. EndOfDisk' BY DEF HostInv, EndOfDisk, Hole
<1>6. Programs!Call
  BY UnseenIsCall DEF WriteDone, driverVars
<1> QED BY <1>2, <1>4, <1>5, <1>6 DEF HostInv

LEMMA StartReadHost ==
  ASSUME HostInv, StartRead, UNCHANGED driverVars
  PROVE  HostInv' /\ Programs!Call
<1>1. pc = "ready" /\ op = "read" BY DEF StartRead
<1>2. what = "read" /\ count = length /\ buffer = 0 /\ isOpen BY <1>1, InCall
<1>3. DiskInv' /\ DeliversRead BY StartReadKeeps DEF HostInv
<1>4. /\ ~touched' /\ UNCHANGED <<lba, buffer, isOpen, disk, diskSize>>
      /\ job' = [lba |-> lba, count |-> length, buffer |-> 0]
  BY <1>2 DEF StartRead, store
<1>5. \/ EndOk("readOk") \/ (status' = "busy" /\ (Go("bytes") \/ Go("words")))
  BY <1>2 DEF StartRead
<1>6. /\ pc' # "ready" /\ (pc' = "waiting" => status' = "readOk")
      /\ (pc' # "waiting" => status' = "busy" /\ op' = op)
  BY <1>5 DEF EndOk, Go
<1> QED BY <1>1, <1>2, <1>3, <1>4, <1>6, ReadHost

LEMMA WriteMemoryHost ==
  ASSUME HostInv, NEW ok \in BOOLEAN, WriteWord(ok) \/ WriteByte(ok), UNCHANGED driverVars
  PROVE  HostInv' /\ Programs!Call
<1>1. pc \in {"words", "bytes"} BY DEF WriteWord, WriteByte
<1>2. op = "read" /\ status = "busy"
  BY <1>1 DEF HostInv, DiskInv, Reading, StatusIsTrue, Moving
<1>3. /\ what = "read" /\ ~touched /\ buffer = 0
      /\ job = [lba |-> lba, count |-> length, buffer |-> 0]
  BY <1>1, <1>2, InCall DEF Moving
<1>4. DiskInv' /\ DeliversRead BY WriteWordKeeps, WriteByteKeeps DEF HostInv
<1>5. UNCHANGED <<lba, buffer, isOpen, disk, diskSize, job, touched>> BY DEF WriteWord, WriteByte
<1>6. \/ EndOk("readOk") \/ EndError("readError")
      \/ UNCHANGED status /\ (Go("bytes") \/ Go("words"))
  BY DEF WriteWord, WriteByte
<1>7. /\ pc' # "ready" /\ (pc' = "waiting" => status' \in {"readOk", "readError"})
      /\ (pc' # "waiting" => status' = "busy" /\ op' = op)
  BY <1>2, <1>6 DEF EndOk, EndError, Go
<1> QED BY <1>1, <1>3, <1>4, <1>5, <1>7, ReadHost

\* A step of a write or of a name that does not end a write well.
LEMMA LoadHost ==
  ASSUME HostInv, UNCHANGED driverVars, pc # "waiting", what \in {"write", "name"},
         DiskInv', ~touched', pc' # "ready",
         UNCHANGED <<lba, buffer, disk, diskSize, mem>>, what = "write" => isOpen' = isOpen,
         job' = [lba |-> lba, count |-> length, buffer |-> 0],
         pc' = "waiting" => status' = "writeError" \/ (status' = "writeOk" /\ what = "name" /\ isOpen'),
         pc' # "waiting" => status' = "busy" /\ op' = op
  PROVE  HostInv' /\ Programs!Call
<1>1. /\ at = "poll" /\ op = what /\ buffer = 0 /\ status \in {"busy", "idle"}
      /\ what # "name" => lba = loff[who]
  BY InCall
<1>2. DriverState' /\ CallInv' BY DeviceLeaves
<1>3. DeviceInv'
  <2>1. pc' \in Moving \cup {"waiting"} BY DEF DiskInv, StatusIsTrue
  <2> QED BY <1>1, <2>1 DEF DeviceInv, driverVars, Ends, Moving
<1>4. EndOfDisk' BY DEF HostInv, EndOfDisk, Hole
<1>5. Programs!Call
  <2>1. status' # "writeOk" \/ what = "name" BY DEF DiskInv, StatusIsTrue, Moving
  <2> QED BY <1>1, <2>1, UnseenIsCall DEF WriteDone, driverVars
<1> QED BY <1>2, <1>3, <1>4, <1>5 DEF HostInv

\* The end of a write is the write of the abstract file.
LEMMA StoreHost ==
  ASSUME HostInv, UNCHANGED driverVars, pc # "waiting", what = "write",
         DiskInv', ~touched', StoresWrite, pc' = "waiting", status' = "writeOk",
         UNCHANGED <<lba, buffer, isOpen, mem>>,
         job' = [lba |-> lba, count |-> length, buffer |-> 0],
         diskSize' = IF length = 0 THEN diskSize ELSE Highest(diskSize, lba + length)
  PROVE  HostInv' /\ Programs!Write(who)
<1> DEFINE p == lba
           k == length
<1>1. /\ at = "poll" /\ op = what /\ p \in Nat /\ diskSize \in Nat /\ k \in Nat /\ buffer = 0
      /\ p = loff[who] /\ p \in Lbas /\ k \in Counts /\ isOpen /\ status \in {"busy", "idle"}
  BY InCall
<1>2. DriverState' /\ CallInv' BY DeviceLeaves
<1>3. DeviceInv' BY <1>1 DEF DeviceInv, driverVars, Ends, Moving
<1>4. p + k <= DiskBytes /\ DiskBytes \in Int
  <2>1. (p + k) * BlockSize <= DiskBytes BY <1>1, BlockAssumption
  <2>2. p + k \in Int BY <1>1
  <2>3. (p + k) * BlockSize = p + k BY <2>2, BytesAreBlocks
  <2> QED BY <2>1, <2>3, BlockAssumption
<1>5. /\ user = [i \in 1 .. k |-> user[i]] /\ Len(user) = k
      /\ \A a \in 0 .. k - 1 : mem[a] = user[a + 1]
  <2>1. Len([i \in 1 .. k |-> user[i]]) = k BY <1>1
  <2> QED BY <1>1, <2>1 DEF HostInv, CallInv
<1>6. /\ DOMAIN disk = 0 .. DiskBytes - 1 /\ DOMAIN disk' = 0 .. DiskBytes - 1
      /\ diskSize <= DiskBytes
      /\ \A i \in diskSize .. DiskBytes - 1 : disk[i] = Hole
  BY DEF HostInv, EndOfDisk, DiskInv, TypeOK
<1>7. \A i \in 0 .. DiskBytes - 1 :
         disk'[i] = IF i \in p .. p + k - 1 THEN user[i - p + 1] ELSE disk[i]
  <2> TAKE i \in 0 .. DiskBytes - 1
  <2>1. job'.lba * BlockSize = p /\ job'.count * BlockSize = k /\ job'.buffer = 0
    BY <1>1, BytesAreBlocks
  <2>2. disk'[i] = IF i \in p .. p + k - 1 THEN mem[0 + i - p] ELSE disk[i]
    BY <1>1, <1>6, <2>1 DEF StoresWrite
  <2>3. i \in p .. p + k - 1 => 0 + i - p = i - p /\ i - p \in 0 .. k - 1 BY <1>1
  <2> QED BY <1>5, <2>2, <2>3
<1> HIDE DEF p, k
<1>8. diskSize' = (IF k = 0 THEN diskSize ELSE IF diskSize < p + k THEN p + k ELSE diskSize)
  BY DEF Highest, p, k
<1>9. diskSize' \in Nat /\ diskSize' <= DiskBytes /\ diskSize <= diskSize'
  BY <1>1, <1>4, <1>6, <1>8
<1>10. EndOfDisk'
  <2>1. ASSUME NEW i \in diskSize' .. DiskBytes - 1 PROVE disk'[i] = Hole
    <3>1. i \in diskSize .. DiskBytes - 1 /\ i \in 0 .. DiskBytes - 1 /\ ~ (i \in p .. p + k - 1)
      BY <1>1, <1>4, <1>8, <1>9
    <3> QED BY <1>6, <1>7, <3>1
  <2> QED BY <1>9, <2>1 DEF EndOfDisk, Hole
<1>11. Programs!Write(who)
  <2> DEFINE end == p + Len(user)
             n == IF user = <<>> \/ end < Len(Contents) THEN Len(Contents) ELSE end
             q == [e \in Descriptors |-> Position(e)]
  <2>1. Len(Contents) = diskSize BY <1>1 DEF Contents
  <2>2. user = <<>> <=> k = 0 BY <1>1, <1>5
  <2>3. n = diskSize' BY <1>1, <1>5, <1>8, <2>1, <2>2
  <2>4. \A i \in 1 .. n : disk'[i - 1] = IF i > p /\ i <= end THEN user[i - p]
                                        ELSE IF i <= Len(Contents) THEN Contents[i] ELSE Hole
    <3> TAKE i \in 1 .. n
    <3>1. i - 1 \in 0 .. DiskBytes - 1 /\ i \in Nat BY <1>4, <1>9, <2>3
    <3>2. CASE i > p /\ i <= end
      <4>1. i - 1 \in p .. p + k - 1 /\ i - 1 - p + 1 = i - p BY <1>1, <1>5, <3>1, <3>2
      <4> QED BY <1>7, <3>1, <3>2, <4>1
    <3>3. CASE ~ (i > p /\ i <= end)
      <4>1. ~ (i - 1 \in p .. p + k - 1) BY <1>1, <1>5, <3>1, <3>3
      <4>2. disk'[i - 1] = disk[i - 1] BY <1>7, <3>1, <4>1
      <4>3. CASE i <= diskSize
        <5>1. Contents[i] = disk[i - 1] BY <1>1, <3>1, <4>3 DEF Contents
        <5> QED BY <2>1, <3>3, <4>2, <4>3, <5>1
      <4>4. CASE ~ (i <= diskSize)
        <5>1. i - 1 \in diskSize .. DiskBytes - 1 BY <1>1, <3>1, <4>4
        <5> QED BY <1>6, <2>1, <3>3, <4>2, <4>4, <5>1
      <4> QED BY <4>3, <4>4
    <3> QED BY <3>2, <3>3
  <2>5. Contents' = [i \in 1 .. n |-> IF i > p /\ i <= end THEN user[i - p]
                                      ELSE IF i <= Len(Contents) THEN Contents[i] ELSE Hole]
    <3>1. Contents' = [i \in 1 .. n |-> disk'[i - 1]] BY <2>3 DEF Contents
    <3> HIDE DEF n, end
    <3> QED BY <2>4, <3>1
  <2>6. who \in Descriptors /\ loff[who] # Closed /\ loff' = loff /\ who' = who
    BY <1>1 DEF HostInv, DriverState, driverVars, Closed
  <2>7. \A e \in Descriptors : Position(e)' = IF e = who THEN end ELSE Position(e)
    <3>1. ~WriteDone BY <1>1 DEF WriteDone
    <3>2. WriteDone' BY <1>1 DEF WriteDone, driverVars
    <3>3. Position(who)' = end
      BY <1>1, <1>5, <2>6, <3>2 DEF Position, driverVars, k
    <3> QED BY <2>6, <3>1, <3>2, <3>3 DEF Position
  <2>8. q[who] = p BY <1>1, <2>6 DEF Position, WriteDone
  <2>9. q' = [q EXCEPT ![who] = end]
    <3>1. q' = [e \in Descriptors |-> IF e = who THEN end ELSE Position(e)] BY <2>7, Zenon
    <3>2. q = [e \in Descriptors |-> Position(e)] OBVIOUS
    <3> HIDE DEF q, end
    <3> QED BY <3>1, <3>2
  <2> HIDE DEF q
  <2>10. UNCHANGED <<length, user, given>> BY DEF driverVars
  <2>11. \A x : x = p =>
           LET last == x + Len(user)
               m == IF user = <<>> \/ last < Len(Contents) THEN Len(Contents) ELSE last
           IN  /\ Contents' = [i \in 1 .. m |->
                     IF i > x /\ i <= last THEN user[i - x]
                     ELSE IF i <= Len(Contents) THEN Contents[i] ELSE Hole]
               /\ q' = [q EXCEPT ![who] = last]
    BY <2>5, <2>9, Zenon
  <2>12. LET last == q[who] + Len(user)
             m == IF user = <<>> \/ last < Len(Contents) THEN Len(Contents) ELSE last
         IN  /\ Contents' = [i \in 1 .. m |->
                   IF i > q[who] /\ i <= last THEN user[i - q[who]]
                   ELSE IF i <= Len(Contents) THEN Contents[i] ELSE Hole]
             /\ q' = [q EXCEPT ![who] = last]
    BY <2>8, <2>11, Zenon
  <2> QED BY <2>10, <2>12, Zenon DEF Programs!Write, q
<1> QED BY <1>2, <1>3, <1>10, <1>11 DEF HostInv

LEMMA StartLoadHost ==
  ASSUME HostInv, StartLoad, UNCHANGED driverVars
  PROVE  HostInv' /\ (Programs!Call \/ Programs!Write(who))
<1>1. pc = "ready" /\ op \in {"write", "name"} BY DEF StartLoad
<1>2. /\ what = op /\ count = length /\ buffer = 0 /\ length \in Nat
      /\ what = "write" => isOpen
  BY <1>1, InCall
<1>3. DiskInv' /\ StoresWrite BY StartLoadKeeps DEF HostInv
<1>4. /\ ~touched' /\ UNCHANGED <<lba, count, buffer, mem>>
      /\ job' = [lba |-> lba, count |-> length, buffer |-> 0]
      /\ UNCHANGED <<disk, diskSize>>
  BY <1>2 DEF StartLoad, OpenFile
<1>5. CASE op = "write" /\ EndOk("writeOk") /\ length = 0 /\ UNCHANGED isOpen
  <2>1. pc' = "waiting" /\ status' = "writeOk" BY <1>5 DEF EndOk
  <2> QED BY <1>1, <1>2, <1>3, <1>4, <1>5, <2>1, StoreHost
<1>6. CASE OpenFile /\ op = "name"
  <2>1. /\ pc' = "waiting"
        /\ status' = "writeError" \/ (status' = "writeOk" /\ isOpen')
    BY <1>6 DEF OpenFile, EndError
  <2> QED BY <1>1, <1>2, <1>3, <1>4, <1>6, <2>1, LoadHost
<1>7. CASE EndError("writeError") /\ UNCHANGED isOpen
  <2>1. pc' = "waiting" /\ status' = "writeError" BY <1>7 DEF EndError
  <2> QED BY <1>1, <1>2, <1>3, <1>4, <1>7, <2>1, LoadHost
<1>8. CASE status' = "busy" /\ Go("load") /\ UNCHANGED isOpen
  <2>1. pc' = "load" /\ op' = op BY <1>8 DEF Go
  <2> QED BY <1>1, <1>2, <1>3, <1>4, <1>8, <2>1, LoadHost
<1> QED
  <2>1. size' = count * BlockSize /\ count * BlockSize = length
    BY <1>2, BytesAreBlocks DEF StartLoad
  <2> QED BY <1>1, <1>5, <1>6, <1>7, <1>8, <2>1 DEF StartLoad

LEMMA LoadWordHost ==
  ASSUME HostInv, NEW ok \in BOOLEAN, LoadWord(ok), UNCHANGED driverVars
  PROVE  HostInv' /\ (Programs!Call \/ Programs!Write(who))
<1>1. pc = "load" BY DEF LoadWord
<1>2. op \in {"write", "name"} /\ status = "busy" /\ size = job.count * BlockSize
  BY <1>1 DEF HostInv, DiskInv, Loading, StatusIsTrue, Moving
<1>3. /\ what = op /\ buffer = 0 /\ length \in Nat /\ ~touched
      /\ job = [lba |-> lba, count |-> length, buffer |-> 0]
      /\ what = "write" => isOpen
  BY <1>1, InCall DEF Moving
<1>4. DiskInv' /\ StoresWrite BY LoadWordKeeps DEF HostInv
<1>5. ret' = ok /\ UNCHANGED <<lba, count, buffer, mem, job, touched, size>> BY DEF LoadWord
<1>6. CASE ok /\ offset' < size
  <2>1. Go("load") /\ UNCHANGED <<status, isOpen, disk, diskSize>> BY <1>6 DEF LoadWord
  <2>2. pc' = "load" /\ op' = op BY <2>1 DEF Go
  <2> QED BY <1>1, <1>2, <1>3, <1>4, <1>5, <2>1, <2>2, LoadHost
<1>7. CASE ~ (ok /\ offset' < size)
  <2>1. AfterLoad BY <1>7 DEF LoadWord
  <2>2. CASE ~ret'
    <3>1. EndError("writeError") /\ UNCHANGED <<isOpen, disk, diskSize>> BY <2>1, <2>2 DEF AfterLoad
    <3>2. pc' = "waiting" /\ status' = "writeError" BY <3>1 DEF EndError
    <3> QED BY <1>1, <1>2, <1>3, <1>4, <1>5, <3>1, <3>2, LoadHost
  <2>3. CASE ret' /\ op = "write"
    <3>1. StoreToDisk BY <2>1, <2>3 DEF AfterLoad
    <3>2. pc' = "waiting" /\ status' = "writeOk" /\ UNCHANGED isOpen
      BY <3>1 DEF StoreToDisk, EndOk
    <3>3. lba * BlockSize = lba /\ size = length
      <4>1. lba \in Int /\ job.count = length BY <1>1, <1>3, InCall
      <4> QED BY <1>2, <1>3, <4>1, BytesAreBlocks
    <3>4. diskSize' = IF length = 0 THEN diskSize ELSE Highest(diskSize, lba + length)
      BY <1>3, <2>3, <3>1, <3>3 DEF StoreToDisk
    <3> QED BY <1>1, <1>3, <1>4, <1>5, <2>3, <3>2, <3>4, StoreHost
  <2>4. CASE ret' /\ op = "name"
    <3>1. OpenFile BY <2>1, <2>4 DEF AfterLoad
    <3>2. /\ pc' = "waiting" /\ UNCHANGED <<disk, diskSize>>
          /\ status' = "writeError" \/ (status' = "writeOk" /\ isOpen')
      BY <3>1 DEF OpenFile, EndError
    <3> QED BY <1>1, <1>3, <1>4, <1>5, <2>4, <3>2, LoadHost
  <2> QED BY <1>2, <2>2, <2>3, <2>4
<1> QED BY <1>6, <1>7
-----------------------------------------------------------------------------
LEMMA HostNextKeeps ==
  ASSUME HostInv, [HostNext]_hostVars
  PROVE  HostInv' /\ [Programs!FileNext]_(Programs!fileVars)
<1>1. CASE \E d \in Descriptors : Open(d)
  BY <1>1, OpenKeeps DEF Programs!FileNext
<1>2. CASE \E d \in Descriptors : Release(d) \/ Seek(d)
  BY <1>2, ReleaseKeeps, SeekKeeps DEF Programs!FileNext
<1>3. CASE \E d \in Descriptors : BeginName(d) \/ \E n \in Sizes : BeginRead(d, n) \/ BeginWrite(d, n)
  BY <1>3, BeginNameKeeps, BeginReadKeeps, BeginWriteKeeps DEF Programs!FileNext
<1>4. CASE SetUp BY <1>4, SetUpKeeps DEF Programs!FileNext
<1>5. who \in Descriptors BY DEF HostInv, DriverState
<1>6. CASE Poll BY <1>5, <1>6, PollKeeps DEF Programs!FileNext
<1>7. CASE HostDevice
  <2>1. UNCHANGED driverVars BY <1>7 DEF HostDevice
  <2>2. CASE IrqUpdate BY <2>1, <2>2, IrqUpdateHost DEF Programs!FileNext
  <2>3. ~StartNoop
    <3>1. pc = "ready" => op # "noop" BY InCall
    <3> QED BY <3>1 DEF StartNoop
  <2>4. CASE StartRead BY <2>1, <2>4, StartReadHost DEF Programs!FileNext
  <2>5. CASE StartLoad BY <1>5, <2>1, <2>5, StartLoadHost DEF Programs!FileNext
  <2>6. ASSUME NEW ok \in BOOLEAN, WriteWord(ok) \/ WriteByte(ok)
        PROVE  HostInv' /\ Programs!FileNext
    BY <2>1, <2>6, WriteMemoryHost DEF Programs!FileNext
  <2>7. ASSUME NEW ok \in BOOLEAN, LoadWord(ok)
        PROVE  HostInv' /\ Programs!FileNext
    BY <1>5, <2>1, <2>7, LoadWordHost DEF Programs!FileNext
  <2> QED BY <1>7, <2>2, <2>3, <2>4, <2>5, <2>6, <2>7 DEF HostDevice, ControlThread
<1>8. CASE UNCHANGED hostVars
  <2>1. UNCHANGED vars /\ UNCHANGED driverVars BY <1>8 DEF hostVars
  <2>2. DiskInv' BY <2>1, StillKeeps DEF HostInv
  <2>3. UNCHANGED <<op, status, lba, count, buffer, pc, isOpen, disk, diskSize, mem, job, touched>>
    BY <2>1 DEF vars, regs, store
  <2>4. DriverState' /\ CallInv' BY <2>1, <2>3, DeviceLeaves DEF HostInv, DriverState
  <2>5. DeviceInv' /\ EndOfDisk' BY <2>1, <2>3 DEF HostInv, DeviceInv, EndOfDisk, driverVars, Hole
  <2>6. UNCHANGED Programs!fileVars
    <3>1. \A e \in Descriptors : Position(e)' = Position(e)
      BY <2>1, <2>3 DEF Position, WriteDone, driverVars
    <3>2. Contents' = Contents BY <2>3 DEF Contents
    <3> QED BY <2>1, <3>1, <3>2 DEF Programs!fileVars, driverVars
  <2> QED BY <2>2, <2>4, <2>5, <2>6 DEF HostInv
<1> QED BY <1>1, <1>2, <1>3, <1>4, <1>6, <1>7, <1>8 DEF HostNext

LEMMA HostInvariant == HostSpec => []HostInv
<1>1. HostInv /\ [HostNext]_hostVars => HostInv' BY HostNextKeeps
<1> QED BY <1>1, HostStarts, PTL DEF HostSpec

(* The driver counts its descriptors and never reads or writes a file that is not open,
   whatever fails, for any number of descriptors (rabbitsha_chr_open, _release,
   _ioctl_open). *)
THEOREM DriverIsRight == HostSpec => []StateIsRight
<1>1. HostInv => StateIsRight BY DEF HostInv, DriverState
<1> QED BY <1>1, HostInvariant, PTL

(* The driver over the device is a file of bytes with a position for each descriptor, for
   files, requests and buffers of any size and every failure of the bus
   (rabbitsha_chr_read, rabbitsha_chr_write, control_thread). *)
THEOREM DiskIsFile == HostSpec => RefinesFile
<1>1. HostInv /\ [HostNext]_hostVars => [Programs!FileNext]_(Programs!fileVars)
  BY HostNextKeeps
<1> QED BY <1>1, HostStarts, HostInvariant, PTL DEF HostSpec, RefinesFile, Programs!FileSpec
=============================================================================

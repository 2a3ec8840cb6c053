---------------------------- MODULE SlBlockDevice ----------------------------
(***************************************************************************)
(* sl_block_device: a disk on the bus.  The slave half holds the registers *)
(* that software writes, control_thread executes the operation in m_op and *)
(* the master half moves the data, one bus access after the other, while   *)
(* software goes on accessing the registers.                               *)
(*                                                                         *)
(* Disk and memory are functions from byte positions to bytes.  A bus      *)
(* access may fail at any time.  Opening a file keeps the one disk of the  *)
(* model.                                                                  *)
(***************************************************************************)
EXTENDS Integers

CONSTANTS
    Word,           \* bytes of a bus access (4 in the code)
    BlockSize,      \* m_block_size
    DiskBytes,      \* bound: bytes of the disk that can be written
    DiskSize,       \* initial size of the disk
    MemBytes,       \* bound: bytes of memory
    Lbas, Counts, Buffers,      \* values software writes to the registers
    MaxOps          \* bound: operations started

ASSUME BlockAssumption ==
    /\ Word \in Nat \ {0} /\ BlockSize \in Nat \ {0}
    /\ DiskBytes \in Nat /\ DiskSize \in 0 .. DiskBytes /\ MemBytes \in Nat /\ MaxOps \in Nat
    /\ Lbas \subseteq Nat /\ Counts \subseteq Nat /\ Buffers \subseteq Nat
    /\ \A l \in Lbas \cup {0}, c \in Counts \cup {0}, b \in Buffers \cup {0} :
         (l + c) * BlockSize <= DiskBytes /\ b + c * BlockSize + Word <= MemBytes

VARIABLES
    op, status, lba, count, buffer, irqen, irq,     \* m_cs_regs
    pc,         \* where control_thread is
    offset, size, addr, ret, data,                  \* its locals
    isOpen,     \* m_fd is a file
    disk, diskSize, mem,
    line,       \* the irq port
    irqDue,     \* irq_update_thread is ready to run
    job,        \* the registers when the operation started
    touched,    \* software wrote lba, count or buffer since
    started     \* operations started

regs == <<op, status, lba, count, buffer, irqen, irq>>
locals == <<offset, size, addr, ret, data>>
store == <<isOpen, disk, diskSize, mem>>
vars == <<regs, pc, locals, store, line, irqDue, job, touched, started>>

Ops == {"noop", "read", "write", "name"}
Done == {"readOk", "writeOk"}
Hole == <<"zero", 0>>

Init ==
    /\ op = "noop" /\ status = "idle" /\ irqen = FALSE /\ irq = FALSE
    /\ lba = 0 /\ count = 0 /\ buffer = 0
    /\ pc = "waiting"
    /\ offset = 0 /\ size = 0 /\ addr = 0 /\ data = <<>>
    /\ ret \in BOOLEAN                      \* func_ret is not initialised
    /\ isOpen \in BOOLEAN
    /\ disk = [i \in 0 .. DiskBytes - 1 |-> IF i < DiskSize THEN <<"disk", i>> ELSE Hole]
    /\ diskSize = DiskSize
    /\ mem = [a \in 0 .. MemBytes - 1 |-> <<"mem", a>>]
    /\ line = FALSE /\ irqDue = FALSE
    /\ job = [lba |-> 0, count |-> 0, buffer |-> 0]
    /\ touched = FALSE
    /\ started = 0
-----------------------------------------------------------------------------
(* Register accesses of the slave half.                                    *)

Others == UNCHANGED <<pc, locals, store, line, job, touched, started>>

WriteSetup(l, c, b) ==
    /\ lba' = l /\ count' = c /\ buffer' = b
    /\ touched' = (pc \notin {"waiting", "ready"})
    /\ UNCHANGED <<op, status, irqen, irq, irqDue>>
    /\ UNCHANGED <<pc, locals, store, line, job, started>>

\* BLOCK_DEVICE_OP: refused unless the last status was read.
WriteOp(v) ==
    /\ status = "idle"
    /\ op' = v
    /\ pc' = IF pc = "waiting" THEN "ready" ELSE pc
    /\ UNCHANGED <<status, lba, count, buffer, irqen, irq, irqDue>>
    /\ UNCHANGED <<locals, store, line, job, touched, started>>

WriteIrqEnable(v) ==
    /\ irqen' = v
    /\ irqDue' = TRUE
    /\ UNCHANGED <<op, status, lba, count, buffer, irq>> /\ Others

\* BLOCK_DEVICE_STATUS that forgets to lower the interrupt.
ReadStatus_KeepIrq ==
    /\ status # "busy"
    /\ status' = "idle"
    /\ irqDue' = TRUE
    /\ UNCHANGED <<op, lba, count, buffer, irqen, irq>> /\ Others

\* BLOCK_DEVICE_STATUS: acknowledges the end of an operation.
ReadStatus ==
    /\ status # "busy"
    /\ status' = "idle" /\ irq' = FALSE
    /\ irqDue' = TRUE
    /\ UNCHANGED <<op, lba, count, buffer, irqen>> /\ Others

Access == \/ \E l \in Lbas : WriteSetup(l, count, buffer)
          \/ \E c \in Counts : WriteSetup(lba, c, buffer)
          \/ \E b \in Buffers : WriteSetup(lba, count, b)
          \/ \E v \in Ops : WriteOp(v)
          \/ \E v \in BOOLEAN : WriteIrqEnable(v)
          \/ ReadStatus

IrqUpdate ==
    /\ irqDue
    /\ irqDue' = FALSE
    /\ line' = irq
    /\ UNCHANGED <<regs, pc, locals, store, job, touched, started>>
-----------------------------------------------------------------------------
(* control_thread.                                                         *)

Lowest(a, b) == IF a < b THEN a ELSE b
Highest(a, b) == IF a < b THEN b ELSE a

\* An error path that forgets m_status.
EndError_StaysBusy(s) ==
    /\ op' = "noop" /\ status' = status /\ pc' = "waiting"
    /\ UNCHANGED <<irq, irqDue>>

\* The operation ends and the thread waits for ev_op_start again.
EndError(s) ==
    /\ op' = "noop" /\ status' = s /\ pc' = "waiting"
    /\ UNCHANGED <<irq, irqDue>>

EndOk(s) ==
    /\ op' = "noop" /\ status' = s /\ pc' = "waiting"
    /\ irq' = (irq \/ irqen)
    /\ irqDue' = (irqDue \/ irqen)

Go(p) == pc' = p /\ UNCHANGED <<op, irq, irqDue>>

\* Byte i of the disk, read through the transfer buffer.
DiskPart(from, n) == [i \in 0 .. n - 1 |-> disk[from + i]]

StartNoop ==
    /\ pc = "ready" /\ op = "noop"
    /\ pc' = "waiting"
    /\ UNCHANGED <<regs, locals, store, line, irqDue, job, touched, started>>

\* BLOCK_DEVICE_READ up to its first bus access.
StartRead ==
    /\ pc = "ready" /\ op = "read" /\ started < MaxOps
    /\ started' = started + 1
    /\ job' = [lba |-> lba, count |-> count, buffer |-> buffer]
    /\ touched' = FALSE
    /\ LET n == Lowest(count * BlockSize, Highest(0, diskSize - lba * BlockSize))
       IN  IF ~isOpen
             THEN /\ EndError("readError")
                  /\ count' = 0
                  /\ ret' = TRUE
                  /\ UNCHANGED <<offset, size, addr, data>>
             ELSE /\ count' = n \div BlockSize
                  /\ size' = n /\ offset' = 0 /\ addr' = buffer
                  /\ data' = DiskPart(lba * BlockSize, n)
                  /\ ret' = (n # 0)
                  /\ IF n = 0 THEN EndOk("readOk")
                     ELSE /\ status' = "busy"
                          /\ Go(IF n < Word THEN "bytes" ELSE "words")
    /\ UNCHANGED <<lba, buffer, irqen, store, line>>

\* One cmd_write of n bytes: when it fails nothing is stored.
Stored(n) == mem' = [a \in DOMAIN mem |->
    IF a \in addr + offset .. addr + offset + n - 1 THEN data[a - addr] ELSE mem[a]]

\* A failed word ends the first loop, and the second one starts where it was.
WriteWord(ok) ==
    /\ pc = "words"
    /\ ret' = ok
    /\ IF ok THEN Stored(Word) /\ offset' = offset + Word ELSE UNCHANGED <<mem, offset>>
    /\ LET more == offset' + Word <= size
       IN  IF offset' = size
             THEN EndOk("readOk")
             ELSE Go(IF ok /\ more THEN "words" ELSE "bytes") /\ UNCHANGED status
    /\ UNCHANGED <<lba, count, buffer, irqen, size, addr, data, isOpen, disk, diskSize, line, job, touched, started>>

\* WriteByte that reports success whatever the bus answered.
WriteByte_NoCheck(ok) ==
    /\ pc = "bytes"
    /\ ret' = ok
    /\ IF ok THEN Stored(1) ELSE UNCHANGED mem
    /\ offset' = offset + 1
    /\ IF offset' = size
         THEN EndOk("readOk")
         ELSE Go("bytes") /\ UNCHANGED status
    /\ UNCHANGED <<lba, count, buffer, irqen, size, addr, data, isOpen, disk, diskSize, line, job, touched, started>>

\* The second loop of BLOCK_DEVICE_READ.
WriteByte(ok) ==
    /\ pc = "bytes"
    /\ ret' = ok
    /\ IF ok
         THEN /\ Stored(1) /\ offset' = offset + 1
              /\ IF offset' = size THEN EndOk("readOk") ELSE Go("bytes") /\ UNCHANGED status
              /\ UNCHANGED count
         ELSE /\ UNCHANGED <<mem, offset>>
              /\ count' = offset \div BlockSize
              /\ EndError("readError")
    /\ UNCHANGED <<lba, buffer, irqen, size, addr, data, isOpen, disk, diskSize, line, job, touched, started>>

\* BLOCK_DEVICE_WRITE once its data is loaded: ::write is not checked.
StoreToDisk ==
    /\ IF isOpen
         THEN LET from == lba * BlockSize
              IN  /\ disk' = [i \in DOMAIN disk |->
                       IF i \in from .. from + size - 1 THEN data'[i - from] ELSE disk[i]]
                  /\ diskSize' = IF size = 0 THEN diskSize ELSE Highest(diskSize, from + size)
         ELSE UNCHANGED <<disk, diskSize>>
    /\ UNCHANGED isOpen
    /\ EndOk("writeOk")

\* BLOCK_DEVICE_FILE_NAME once the name is loaded.
OpenFile ==
    /\ isOpen' \in BOOLEAN
    /\ IF isOpen' THEN EndError("writeOk") ELSE EndError("writeError")
    /\ UNCHANGED <<disk, diskSize>>

\* What follows the loading loop of both operations.
AfterLoad ==
    IF ~ret' THEN EndError("writeError") /\ UNCHANGED <<isOpen, disk, diskSize>>
    ELSE IF op = "write" THEN StoreToDisk ELSE OpenFile

\* BLOCK_DEVICE_WRITE and BLOCK_DEVICE_FILE_NAME up to their first bus access.
\* With nothing to load func_ret is what an earlier operation left.
StartLoad ==
    /\ pc = "ready" /\ op \in {"write", "name"} /\ started < MaxOps
    /\ started' = started + 1
    /\ job' = [lba |-> lba, count |-> count, buffer |-> buffer]
    /\ touched' = FALSE
    /\ size' = count * BlockSize /\ offset' = 0 /\ addr' = buffer
    /\ data' = <<>> /\ ret' = ret
    /\ IF size' = 0
         THEN IF ~ret THEN EndError("writeError") /\ UNCHANGED <<isOpen, disk, diskSize>>
              ELSE IF op = "write"
                THEN EndOk("writeOk") /\ UNCHANGED <<isOpen, disk, diskSize>>
                ELSE OpenFile
         ELSE status' = "busy" /\ Go("load") /\ UNCHANGED <<isOpen, disk, diskSize>>
    /\ UNCHANGED <<lba, count, buffer, irqen, mem, line>>

\* One cmd_read of the loops of BLOCK_DEVICE_WRITE and BLOCK_DEVICE_FILE_NAME.
LoadWord(ok) ==
    /\ pc = "load"
    /\ ret' = ok
    /\ IF ok
         THEN /\ offset' = offset + Word
              /\ data' = [i \in 0 .. offset' - 1 |-> IF i < offset THEN data[i] ELSE mem[addr + i]]
         ELSE UNCHANGED <<offset, data>>
    /\ IF ok /\ offset' < size
         THEN Go("load") /\ UNCHANGED <<status, isOpen, disk, diskSize>>
         ELSE AfterLoad
    /\ UNCHANGED <<lba, count, buffer, irqen, size, addr, mem, line, job, touched, started>>

ControlThread ==
    \/ StartNoop
    \/ StartRead
    \/ StartLoad
    \/ \E ok \in BOOLEAN : WriteWord(ok) \/ WriteByte(ok) \/ LoadWord(ok)

Next == Access \/ IrqUpdate \/ ControlThread

Spec == Init /\ [][Next]_vars

\* The bus answers every access and notified threads run.
FairSpec == Spec /\ WF_vars(IrqUpdate) /\ WF_vars(ControlThread)
-----------------------------------------------------------------------------
(* The interrupt line, at rest, is only high between the end of a          *)
(* successful operation and the read of its status.                        *)
InterruptMeansDone == ~irqDue => (line => status \in Done)

\* A read puts the blocks of the disk at the buffer of the operation, all of them or
\* those the disk still has, and counts them if the registers are left alone.
DeliversRead ==
    status' = "readOk" /\ status # "readOk" =>
      LET from == job'.lba * BlockSize
          n    == Lowest(job'.count * BlockSize, Highest(0, diskSize - from))
      IN  /\ touched' \/ count' = n \div BlockSize
          /\ \A i \in 0 .. n - 1 : mem'[job'.buffer + i] = disk[from + i]

\* A write of an open file puts the blocks of the buffer at the address of the
\* operation.  Software must leave the registers alone: m_lba is only read when the
\* data is there.
StoresWrite ==
    status' = "writeOk" /\ status # "writeOk" /\ op = "write" /\ isOpen /\ ~touched' =>
      LET from == job'.lba * BlockSize
          n    == job'.count * BlockSize
      IN  \A i \in DOMAIN disk : disk'[i] =
            IF i \in from .. from + n - 1 THEN mem[job'.buffer + i - from] ELSE disk[i]

(* A read that ends well has put the blocks of the disk at the buffer of the operation
   and counts them; a write that ends well on an open file has stored the blocks of its
   buffer and no others, if software leaves the registers alone.  Words fail in the
   middle and are retried byte by byte, and after a read software may already prepare
   its next command (BLOCK_DEVICE_READ, BLOCK_DEVICE_WRITE). *)
TransfersAreWhole == [][DeliversRead /\ StoresWrite]_vars

(* Every operation ends, with a success or an error.                       *)
OperationsEnd == (status = "busy") ~> (status # "busy")
=============================================================================

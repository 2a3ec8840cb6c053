------------------------------ MODULE HostDisk ------------------------------
(***************************************************************************)
(* rabbitsha, the Linux driver of the disk of roger, over SlBlockDevice    *)
(* with blocks of one byte: a file of the host as a file of the guest.     *)
(* The driver polls the status and uses no interrupt; each register access *)
(* is a step, and between two of them the device goes on.                  *)
(*                                                                         *)
(* All descriptors share one device and its one buffer, at the beginning   *)
(* of memory, with no lock: the model is of programs that call one at a    *)
(* time.                                                                   *)
(***************************************************************************)
EXTENDS SlBlockDevice, Sequences, FiniteSets

CONSTANTS
    Descriptors,
    BufferSize,     \* BLOCK_DEVICE_DRV_BUF_SIZE
    Sizes,          \* bytes a program reads or writes in one call
    Positions       \* positions it seeks

ASSUME HostAssumption ==
    /\ IsFiniteSet(Descriptors) /\ BlockSize = 1
    /\ BufferSize \in Nat /\ Sizes \subseteq Nat /\ Positions \subseteq Nat
    /\ 0 .. BufferSize \subseteq Counts /\ Word \in Counts

VARIABLES
    state,          \* device->state, 0 to 3
    openCount,      \* device->open_count
    loff,           \* position of each descriptor, or Closed
    at,             \* the call in progress: its next access to the device
    who, what, length,      \* its descriptor, command and size
    user,           \* the bytes it writes
    given           \* what the last read gave to its caller

driverVars == <<state, openCount, loff, at, who, what, length, user, given>>
hostVars == <<vars, driverVars>>

Closed == -1
Held == {d \in Descriptors : loff[d] # Closed}

HostInit ==
    /\ Init
    /\ state = 0 /\ openCount = 0 /\ loff = [d \in Descriptors |-> Closed]
    /\ at = "none" /\ who \in Descriptors /\ what = "noop" /\ length = 0
    /\ user = <<>> /\ given = <<>>
-----------------------------------------------------------------------------
Idle == at = "none" /\ UNCHANGED <<at, who, what, length, user, given>>

\* rabbitsha_chr_open.
Open(d) ==
    /\ Idle /\ loff[d] = Closed
    /\ state # 1                                            \* -ENXIO
    /\ state' = IF state = 0 THEN 1 ELSE 3
    /\ openCount' = openCount + 1
    /\ loff' = [loff EXCEPT ![d] = 0]
    /\ mem' = IF state = 0 THEN [mem EXCEPT ![0] = Hole] ELSE mem
    /\ UNCHANGED <<regs, pc, locals, isOpen, disk, diskSize, line, irqDue, job, touched, started>>

\* rabbitsha_chr_release that takes each descriptor for the last one.
Release_Any(d) ==
    /\ Idle /\ loff[d] # Closed
    /\ openCount' = openCount - 1 /\ loff' = [loff EXCEPT ![d] = Closed]
    /\ state' = CASE state = 1 -> 0 [] state = 3 -> 2 [] OTHER -> state
    /\ UNCHANGED vars

\* rabbitsha_chr_release.
Release(d) ==
    /\ Idle /\ loff[d] # Closed
    /\ openCount' = openCount - 1 /\ loff' = [loff EXCEPT ![d] = Closed]
    /\ state' = CASE state = 1 -> 0
                  [] state = 3 /\ openCount = 1 -> 2
                  [] OTHER -> state
    /\ UNCHANGED vars

\* rabbitsha_chr_llseek, from the start or the end.
Seek(d) ==
    /\ Idle /\ loff[d] # Closed /\ state # 1
    /\ \E p \in Positions \cup {diskSize} : loff' = [loff EXCEPT ![d] = p]
    /\ UNCHANGED <<vars, state, openCount>>
-----------------------------------------------------------------------------
Begin(d, w, n) ==
    /\ at = "none" /\ loff[d] # Closed
    /\ loff[d] \in Lbas                                     \* bound
    /\ who' = d /\ what' = w /\ length' = n
    /\ UNCHANGED <<openCount, loff, given>>

\* rabbitsha_chr_ioctl_open up to the first register: the name of n - 1 letters.
BeginName(d) ==
    /\ ~(state = 3 /\ openCount > 1)                        \* -EBUSY
    /\ Begin(d, "name", Word)
    /\ at' = "buffer" /\ state' = 1 /\ user' = <<>>
    /\ mem' = [mem EXCEPT ![0] = <<"name", d>>]
    /\ UNCHANGED <<regs, pc, locals, isOpen, disk, diskSize, line, irqDue, job, touched, started>>

\* rabbitsha_chr_read and rabbitsha_chr_write up to the first register.
BeginRead(d, n) ==
    /\ state = 3
    /\ Begin(d, "read", Lowest(n, BufferSize))
    /\ at' = "buffer" /\ user' = <<>>
    /\ UNCHANGED <<vars, state>>

BeginWrite(d, n) ==
    /\ state = 3
    /\ Begin(d, "write", Lowest(n, BufferSize))
    /\ at' = "buffer"
    /\ user' = [i \in 1 .. length' |-> <<"user", started, i>>]
    /\ mem' = [a \in DOMAIN mem |-> IF a < length' THEN user'[a + 1] ELSE mem[a]]
    /\ UNCHANGED <<regs, pc, locals, isOpen, disk, diskSize, line, irqDue, job, touched, started, state>>

Then(l) == at' = l /\ UNCHANGED <<state, openCount, loff, who, what, length, user, given>>

\* The registers, one after the other; a name has no position.
SetUp ==
    \/ /\ at = "buffer" /\ WriteSetup(lba, count, 0)
       /\ Then(IF what = "name" THEN "count" ELSE "lba")
    \/ at = "lba" /\ WriteSetup(loff[who], count, buffer) /\ Then("count")
    \/ at = "count" /\ WriteSetup(lba, length, buffer) /\ Then("op")
    \/ at = "op" /\ WriteOp(what) /\ Then("poll")

Success == CASE what = "read" -> "readOk" [] OTHER -> "writeOk"

\* What a read of n bytes returns, and a driver that returns what was asked for.
Returned_Asked(n) == length
Returned(n) == IF what = "read" THEN n ELSE length

\* The status is no longer BLOCK_DEVICE_BUSY; the thread of the device ran at once
\* when it was given the command.
Poll ==
    /\ at = "poll" /\ pc # "ready" /\ ReadStatus
    /\ at' = "none"
    /\ IF status # Success
         THEN /\ state' = IF what = "name" THEN state ELSE 0
              /\ UNCHANGED <<loff, given>>
         ELSE LET n == IF what = "name" THEN 0 ELSE Returned(count)
              IN  /\ state' = 3
                  /\ loff' = [loff EXCEPT ![who] = @ + n]
                  /\ given' = IF what = "read" THEN [i \in 1 .. n |-> mem[i - 1]] ELSE given
    /\ UNCHANGED <<openCount, who, what, length, user>>

HostDevice == (IrqUpdate \/ ControlThread) /\ UNCHANGED driverVars

HostNext ==
    \/ \E d \in Descriptors :
         \/ Open(d) \/ Release(d) \/ Seek(d)
         \/ /\ started < MaxOps
            /\ \/ BeginName(d)
               \/ \E n \in Sizes : BeginRead(d, n) \/ BeginWrite(d, n)
    \/ SetUp \/ Poll \/ HostDevice

HostSpec == HostInit /\ [][HostNext]_hostVars
-----------------------------------------------------------------------------
(* Programs close, fail and name files while others hold descriptors: the driver
   talks to the disk only while a descriptor is open, a file it left for the next one
   is held by none, and a file that could not be opened is never read or written. *)
StateIsRight ==
    /\ openCount = Cardinality(Held)
    /\ state \in {1, 3} => Held # {}
    /\ state = 2 => Held = {}
    /\ state = 3 => isOpen

\* A write is done when the device has stored it; its position moves when it returns.
WriteDone == at = "poll" /\ what = "write" /\ status = "writeOk"

\* What programs see: the bytes of the file and the position of each descriptor.
Contents == [i \in 1 .. diskSize |-> disk[i - 1]]
Position(d) == IF loff[d] = Closed THEN 0
               ELSE IF WriteDone /\ d = who THEN loff[d] + length ELSE loff[d]

Programs == INSTANCE ByteFile WITH
    Zero <- Hole, file <- Contents, pos <- [d \in Descriptors |-> Position(d)],
    asked <- length, given <- user, answer <- given

(* Bus accesses fail and are retried, reads stop at the end of the file, requests are
   cut to the buffer: through every descriptor programs see one file of bytes
   (rabbitsha_chr_read, rabbitsha_chr_write over control_thread). *)
RefinesFile == Programs!FileSpec
=============================================================================

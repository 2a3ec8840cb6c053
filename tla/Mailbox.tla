------------------------------- MODULE Mailbox -------------------------------
(***************************************************************************)
(* Messages between CPUs: sl_mailbox_device and its sender, the driver     *)
(* ecmgr_drv, with a register of sem_device as the lock between senders.   *)
(*                                                                         *)
(* The device has no flow control: ecmgr_drv_chr_ioctl_send_use writes     *)
(* three registers, whatever they hold.  The senders take the lock and     *)
(* wait for the status before; they and the receiver are external.         *)
(***************************************************************************)
EXTENDS Naturals, Sequences

CONSTANTS
    Senders,        \* CPUs that send
    Boot,           \* the one that starts first and holds the lock until it sent
    Boxes,          \* mailboxes, 0 .. m_nb_mailbox - 1
    MaxMessages     \* bound: messages of one sender

ASSUME MailboxAssumption ==
    /\ Boot \in Senders /\ Boxes \subseteq Nat /\ MaxMessages \in Nat

COMM == 0
DATA == 1
RESERVED == 2
RESET == 3
SPAN == 4
Clear == "clear"  New == "new"
None == <<>>

VARIABLES
    sem,            \* of each mailbox: the register of sem_device
    regs,           \* of each mailbox: m_command, m_data, m_reserved, m_status
    irq,            \* of each mailbox: its output
    at, to, msg, sent,  \* of each sender: its next step, mailbox, message, their number
    reader,         \* of each mailbox: what its receiver has read of the message
    posted, received    \* of each mailbox: messages announced, messages received

device == <<sem, regs, irq>>
sender == <<at, to, msg, sent>>
mailVars == <<device, sender, reader, posted, received>>

MailInit ==
    /\ sem = [b \in Boxes |-> 0]
    /\ regs = [b \in Boxes |-> [r \in 0 .. 3 |-> IF r = RESET THEN Clear ELSE None]]
    /\ irq = [b \in Boxes |-> FALSE]
    /\ at = [s \in Senders |-> IF s = Boot THEN "booting" ELSE "off"]
    /\ to \in [Senders -> Boxes]
    /\ msg = [s \in Senders |-> None] /\ sent = [s \in Senders |-> 0]
    /\ reader = [b \in Boxes |-> <<>>]
    /\ posted = [b \in Boxes |-> <<>>] /\ received = [b \in Boxes |-> <<>>]
-----------------------------------------------------------------------------
(* sem_device: a word access.                                              *)

\* A read that gives the lock to whoever asks.
SemRead_NoLock(b) == UNCHANGED sem

\* The word reads 0 to the CPU that takes the lock.
SemRead(b) == sem' = [sem EXCEPT ![b] = IF @ = 0 THEN 1 ELSE @]
SemTaken(b) == sem[b] # 0

\* A write of 1 to a lock that is held makes it 2; a second one exits.
SemWrite(b, v) ==
    /\ ~(v = 1 /\ sem[b] = 2)
    /\ sem' = [sem EXCEPT ![b] = IF v = 1 /\ @ = 1 THEN 2 ELSE v]
-----------------------------------------------------------------------------
(* sl_mailbox_device: the register is found from the offset of the 8 bytes *)
(* that are accessed and the half that is enabled.                         *)
Register(b, r) == 4 * (SPAN * b + r)
Index(addr) == LET ofs == addr - (addr % 8) IN ofs \div 4 + (IF addr % 8 >= 4 THEN 1 ELSE 0)
Box(addr) == Index(addr) \div SPAN
Local(addr) == Index(addr) % SPAN

BoxWrite(addr, v) ==
    LET b == Box(addr)
        r == Local(addr)
    IN  /\ regs' = [regs EXCEPT ![b] =
              CASE r = COMM  -> [@ EXCEPT ![COMM] = v, ![RESET] = New]
                [] r = RESET -> [@ EXCEPT ![RESET] = Clear]
                [] OTHER     -> [@ EXCEPT ![r] = v]]
        /\ irq' = [irq EXCEPT ![b] = IF r = COMM THEN TRUE ELSE IF r = RESET THEN FALSE ELSE @]

BoxRead(addr) == regs[Box(addr)][Local(addr)]
-----------------------------------------------------------------------------
Step(s, l) == at' = [at EXCEPT ![s] = l]

\* The first CPU takes the lock of its mailbox by a write, then starts the others.
Reserve(s) ==
    /\ at[s] = "booting"
    /\ SemWrite(to[s], 1)
    /\ at' = [t \in Senders |-> IF t = s THEN "polling" ELSE "idle"]
    /\ UNCHANGED <<regs, irq, to, msg, sent, reader, posted, received>>

\* Test and set.
Lock(s) ==
    /\ at[s] = "idle" /\ sent[s] < MaxMessages
    /\ SemRead(to[s])
    /\ Step(s, IF SemTaken(to[s]) THEN "idle" ELSE "polling")
    /\ UNCHANGED <<regs, irq, to, msg, sent, reader, posted, received>>

\* The last message was taken.
Poll(s) ==
    /\ at[s] = "polling" /\ BoxRead(Register(to[s], RESET)) = Clear
    /\ msg' = [msg EXCEPT ![s] = <<s, sent[s]>>]
    /\ Step(s, "data")
    /\ UNCHANGED <<device, to, sent, reader, posted, received>>

\* ecmgr_drv_chr_ioctl_send_use: the data, the use, the command.
SendUse(s) ==
    /\ at[s] \in {"data", "reserved", "command"}
    /\ BoxWrite(Register(to[s], CASE at[s] = "data" -> DATA [] at[s] = "reserved" -> RESERVED
                                 [] OTHER -> COMM), msg[s])
    /\ Step(s, CASE at[s] = "data" -> "reserved" [] at[s] = "reserved" -> "command" [] OTHER -> "unlocking")
    /\ posted' = [posted EXCEPT ![to[s]] = IF at[s] = "command" THEN Append(@, msg[s]) ELSE @]
    /\ UNCHANGED <<sem, to, msg, sent, reader, received>>

\* The lock is given up, and the next message goes to any mailbox.
Unlock(s) ==
    /\ at[s] = "unlocking"
    /\ SemWrite(to[s], 0)
    /\ sent' = [sent EXCEPT ![s] = @ + 1]
    /\ \E b \in Boxes : to' = [to EXCEPT ![s] = b]
    /\ Step(s, "idle")
    /\ UNCHANGED <<regs, irq, msg, reader, posted, received>>

\* The interrupt handler of the receiver reads one register after the other ...
Receive(b) ==
    /\ irq[b] /\ Len(reader[b]) < 3
    /\ reader' = [reader EXCEPT ![b] = Append(@, BoxRead(Register(b, Len(@))))]
    /\ UNCHANGED <<device, sender, posted, received>>

\* ... and resets the mailbox.
Reset(b) ==
    /\ Len(reader[b]) = 3
    /\ BoxWrite(Register(b, RESET), None)
    /\ received' = [received EXCEPT ![b] = Append(@, reader[b])]
    /\ reader' = [reader EXCEPT ![b] = <<>>]
    /\ UNCHANGED <<sem, sender, posted>>

MailNext ==
    \/ \E s \in Senders : Reserve(s) \/ Lock(s) \/ Poll(s) \/ SendUse(s) \/ Unlock(s)
    \/ \E b \in Boxes : Receive(b) \/ Reset(b)

MailSpec == MailInit /\ [][MailNext]_mailVars
-----------------------------------------------------------------------------
(* Senders and the receiver interleave between any two accesses, and a message
   is three registers: each mailbox gives the messages that were announced, whole,
   in their order, none twice and none overwritten. *)
MessagesArrive ==
    \A b \in Boxes :
        /\ \A i \in DOMAIN received[b] :
              /\ i \in DOMAIN posted[b]
              /\ received[b][i] = [r \in 1 .. 3 |-> posted[b][i]]
        /\ Len(posted[b]) = Len(received[b]) + (IF regs[b][RESET] = New THEN 1 ELSE 0)
==============================================================================

------------------------------ MODULE MwsrFifo ------------------------------
(***************************************************************************)
(* mwsr_ta_fifo: the multiple-writer, single-reader ring buffer that every *)
(* link of the interconnect is made of.  Threads are SystemC threads: they *)
(* run one at a time and yield only in wait().  sc_event::notify() with no *)
(* argument makes the threads that wait on the event at that moment ready; *)
(* a thread that is not waiting never learns of it.                        *)
(*                                                                         *)
(* A thread is "idle" outside the fifo, "waiting" in wait(), and "ready"   *)
(* once notified, until the scheduler runs it and it tests the condition   *)
(* of its while loop again.                                                *)
(***************************************************************************)
EXTENDS Naturals, Sequences

CONSTANTS Items,     \* the values the queue carries
          NoItem,    \* an unwritten slot, the reader's unassigned variable
          Writers,   \* the threads that call Write
          Size       \* the constructor's argument

ASSUME SizeAssumption == Size \in Nat \ {0}
ASSUME NoItemAssumption == NoItem \notin Items

VARIABLES m_data,      \* the ring: Size + 1 slots
          m_idxRead, m_idxWrite,
          reader,      \* state of the reading thread
          writer,      \* state of each writing thread
          pending,     \* the argument of each writer's call of Write
          out          \* what Read last returned to the reading thread

ring == <<m_data, m_idxRead, m_idxWrite>>
ringVars == <<m_data, m_idxRead, m_idxWrite, reader, writer, pending, out>>

ThreadState == {"idle", "waiting", "ready"}

m_size == Size + 1

IsEmpty == m_idxRead = m_idxWrite

\* A full test that leaves no spare slot: full looks like empty.
IsFull_NoSpareSlot == m_idxRead = m_idxWrite /\ m_data[m_idxWrite] # NoItem

IsFull == m_idxRead = (m_idxWrite + 1) % m_size

\* The thread states after notify(): whoever waits becomes ready.
Notified(state) == IF state = "waiting" THEN "ready" ELSE state

FifoInit == /\ m_data = [i \in 0 .. Size |-> NoItem]
        /\ m_idxRead = 0
        /\ m_idxWrite = 0
        /\ reader = "idle"
        /\ writer = [w \in Writers |-> "idle"]
        /\ pending = [w \in Writers |-> NoItem]
        /\ out = NoItem
-----------------------------------------------------------------------------
(***************************************************************************)
(* Write.  TryWrite is one turn of "while (IsFull ()) wait (canWrite)" and *)
(* what follows the loop.                                                  *)
(***************************************************************************)

WaitCanWrite(w, p) ==
    /\ IsFull
    /\ writer' = [writer EXCEPT ![w] = "waiting"]
    /\ pending' = [pending EXCEPT ![w] = p]
    /\ UNCHANGED <<ring, reader, out>>

Store(w, p) ==
    /\ ~IsFull
    /\ m_data' = [m_data EXCEPT ![m_idxWrite] = p]
    /\ m_idxWrite' = (m_idxWrite + 1) % m_size
    /\ reader' = Notified(reader)
    /\ writer' = [writer EXCEPT ![w] = "idle"]
    /\ pending' = [pending EXCEPT ![w] = NoItem]
    /\ UNCHANGED <<m_idxRead, out>>

TryWrite(w, p) == WaitCanWrite(w, p) \/ Store(w, p)

\* A thread calls Write with item p.
Write(w, p) == writer[w] = "idle" /\ TryWrite(w, p)

\* A notified writer is scheduled.
ResumeWrite(w) == writer[w] = "ready" /\ TryWrite(w, pending[w])
-----------------------------------------------------------------------------
(***************************************************************************)
(* Read.  The callers copy the slot Read returns a reference to before     *)
(* they yield, so the copy is part of the step.                            *)
(***************************************************************************)

WaitCanRead ==
    /\ IsEmpty
    /\ reader' = "waiting"
    /\ UNCHANGED <<ring, writer, pending, out>>

\* Take that does not notify canWrite.
Take_Silent ==
    /\ ~IsEmpty
    /\ out' = m_data[m_idxRead]
    /\ m_idxRead' = (m_idxRead + 1) % m_size
    /\ reader' = "idle"
    /\ UNCHANGED <<m_data, m_idxWrite, writer, pending>>

Take ==
    /\ ~IsEmpty
    /\ out' = m_data[m_idxRead]
    /\ m_idxRead' = (m_idxRead + 1) % m_size
    /\ writer' = [w \in Writers |-> Notified(writer[w])]
    /\ reader' = "idle"
    /\ UNCHANGED <<m_data, m_idxWrite, pending>>

TryRead == WaitCanRead \/ Take

Read == reader = "idle" /\ TryRead

ResumeRead == reader = "ready" /\ TryRead
-----------------------------------------------------------------------------
FifoNext == \/ \E w \in Writers : ResumeWrite(w) \/ \E p \in Items : Write(w, p)
        \/ Read
        \/ ResumeRead

FifoSpec == FifoInit /\ [][FifoNext]_ringVars

(***************************************************************************)
(* Every reader is a thread that loops on Read, and the SystemC scheduler  *)
(* runs every ready thread before time advances.  Nothing obliges a thread *)
(* to call Write, and no fairness among ready writers is assumed.          *)
(***************************************************************************)
FifoFairness == /\ WF_ringVars(Read)
            /\ WF_ringVars(ResumeRead)
            /\ WF_ringVars(\E w \in Writers : ResumeWrite(w))

-----------------------------------------------------------------------------
(***************************************************************************)
(* The queue the ring stores: Count items, the i-th of them in Slot(i).    *)
(***************************************************************************)
Count == IF m_idxRead <= m_idxWrite THEN m_idxWrite - m_idxRead
                                    ELSE m_idxWrite + m_size - m_idxRead

Slot(i) == IF m_idxRead + i - 1 <= Size THEN m_idxRead + i - 1
                                        ELSE m_idxRead + i - 1 - m_size

Content == [i \in 1 .. Count |-> m_data[Slot(i)]]

Fifo == INSTANCE BoundedFifo WITH queue <- Content, Capacity <- Size

(* The ring with its waiting threads is a bounded fifo: a Write or Read    *)
(* that returns is a Put or Get, one that waits is a stutter.              *)
RefinesFifo == Fifo!Spec

FifoTypeOK ==
    /\ m_data \in [0 .. Size -> Items \cup {NoItem}]
    /\ m_idxRead \in 0 .. Size
    /\ m_idxWrite \in 0 .. Size
    /\ reader \in ThreadState
    /\ writer \in [Writers -> ThreadState]
    /\ pending \in [Writers -> Items \cup {NoItem}]
    /\ out \in Items \cup {NoItem}

(* No wakeup is lost although notify() is not remembered: the reader waits *)
(* only while the ring is empty, a writer waits only while it is full      *)
(* (Read and Write of mwsr_ta_fifo.cpp).                                   *)
NoLostWakeup ==
    /\ reader = "waiting" => IsEmpty
    /\ (\E w \in Writers : writer[w] = "waiting") => IsFull

=============================================================================

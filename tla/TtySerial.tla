----------------------------- MODULE TtySerial -----------------------------
(* tty_serial_device: the console.  read_thread takes characters from the  *)
(* terminal's pipe into a ring, waiting on evRead while the ring is full;  *)
(* software takes them out through register 0; irq_update_thread copies    *)
(* "something to read and enabled" to the interrupt line.                  *)
(*                                                                         *)
(* The characters are numbered in the order in which they are typed.  Of   *)
(* the interrupt masks only the bit TTY_INT_READ is kept, the only one the *)
(* device sets.  The output direction, a write to a pipe, is left out.     *)
EXTENDS Integers, Sequences

CONSTANTS BufSize,    \* READ_BUF_SIZE
          MaxTyped    \* bound: characters typed

ASSUME BufSizeAssumption == BufSize \in Nat \ {0}
ASSUME MaxTypedAssumption == MaxTyped \in Nat

VARIABLES typed,            \* characters typed so far
          pipe,             \* those still in the terminal's pipe
          reader,           \* read_thread: "polling", "full" (in wait(evRead)), "woken"
          ch,               \* its local, meaningful unless polling
          buf, pos, count,  \* state.read_buf, read_pos, read_count
          level, enabled,   \* the TTY_INT_READ bits of int_level and int_enabled
          line,             \* irq_line
          irqDue,           \* irq_update was notified, irq_update_thread is ready
          readDue,          \* evRead.notify(0, SC_NS) waits for the end of the delta
          taken             \* the characters software has read

input == <<typed, pipe>>
ring == <<buf, pos, count>>
vars == <<input, reader, ch, ring, level, enabled, line, irqDue, readDue, taken>>

Init == /\ typed = 0 /\ pipe = <<>>
        /\ reader = "polling" /\ ch = 0
        /\ buf = [i \in 0 .. BufSize - 1 |-> 0] /\ pos = 0 /\ count = 0
        /\ level = FALSE /\ enabled = FALSE /\ line = FALSE
        /\ irqDue = FALSE /\ readDue = FALSE
        /\ taken = <<>>

(* The user types a character. *)
Type == /\ typed < MaxTyped
        /\ typed' = typed + 1
        /\ pipe' = Append(pipe, typed')
        /\ UNCHANGED <<reader, ch, ring, level, enabled, line, irqDue, readDue, taken>>

(* The end of read_thread's round: c goes behind the characters in the ring. *)
Store(c) == /\ buf' = [buf EXCEPT ![(pos + count) % BufSize] = c]
            /\ count' = count + 1
            /\ level' = TRUE
            /\ irqDue' = TRUE
            /\ reader' = "polling"
            /\ UNCHANGED <<pos, enabled, line, readDue, taken>>

(* A slip: the ring takes one more character than it has room for. *)
Full_OneMore == count = BufSize + 1

Full == count = BufSize

WaitForRoom == /\ reader' = "full"
               /\ UNCHANGED <<ring, level, enabled, line, irqDue, readDue, taken>>

(* read_thread wakes from its 10 us and finds a character in the pipe. *)
Poll == /\ reader = "polling" /\ pipe # <<>>
        /\ ch' = Head(pipe) /\ pipe' = Tail(pipe)
        /\ IF Full THEN WaitForRoom ELSE Store(ch')
        /\ UNCHANGED typed

(* read_thread, woken by evRead, looks at the ring again. *)
Retry == /\ reader = "woken"
         /\ IF Full THEN WaitForRoom ELSE Store(ch)
         /\ UNCHANGED <<input, ch>>

(* evRead.notify(0, SC_NS): waiting threads wake at the end of the delta. *)
NotifyRead == readDue' = TRUE /\ UNCHANGED reader

(* The end of the delta cycle: the event reaches a thread that waits for it. *)
DeliverRead == /\ readDue
               /\ readDue' = FALSE
               /\ reader' = IF reader = "full" THEN "woken" ELSE reader
               /\ UNCHANGED <<input, ch, ring, level, enabled, line, irqDue, taken>>

(* A slip: the level falls when one character is left. *)
Lower_Early(n) == n <= 1

(* The read level falls with the last character. *)
Lower(n) == n = 0

(* Software reads register 0.  An empty ring answers with an old character, *)
(* which software knows from the register "can read".                       *)
ReadChar == /\ count > 0
            /\ taken' = Append(taken, buf[pos])
            /\ count' = count - 1
            /\ pos' = IF pos + 1 = BufSize THEN 0 ELSE pos + 1
            /\ level' = (level /\ ~Lower(count'))
            /\ irqDue' = (irqDue \/ Lower(count'))
            /\ NotifyRead
            /\ UNCHANGED <<input, ch, buf, enabled, line>>

(* Software writes register 1.  A second write of the value it holds is left *)
(* out: it only has irq_update_thread set the line again.                    *)
SetEnabled == /\ enabled' = ~enabled
              /\ irqDue' = TRUE
              /\ UNCHANGED <<input, reader, ch, ring, level, line, readDue, taken>>

Active == level /\ enabled

IrqUpdate == /\ irqDue
             /\ line' = Active
             /\ irqDue' = FALSE
             /\ UNCHANGED <<input, reader, ch, ring, level, enabled, readDue, taken>>

Next == Type \/ Poll \/ Retry \/ DeliverRead \/ ReadChar \/ SetEnabled \/ IrqUpdate

Spec == Init /\ [][Next]_vars

(* The two threads of the device run when they can, the kernel ends every   *)
(* delta cycle, and an interrupt handler reads while the line is up.        *)
Fairness == /\ WF_vars(Poll) /\ WF_vars(Retry) /\ WF_vars(DeliverRead) /\ WF_vars(IrqUpdate)
            /\ WF_vars(line /\ ReadChar)

FairSpec == Spec /\ Fairness
----------------------------------------------------------------------------
TypeOK == /\ typed \in 0 .. MaxTyped /\ pipe \in Seq(1 .. MaxTyped)
          /\ reader \in {"polling", "full", "woken"} /\ ch \in 0 .. MaxTyped
          /\ buf \in [0 .. BufSize - 1 -> 0 .. MaxTyped]
          /\ pos \in 0 .. BufSize - 1 /\ count \in 0 .. BufSize
          /\ level \in BOOLEAN /\ enabled \in BOOLEAN /\ line \in BOOLEAN
          /\ irqDue \in BOOLEAN /\ readDue \in BOOLEAN
          /\ taken \in Seq(0 .. MaxTyped)

(* What the ring holds, the oldest character first. *)
Contents == [i \in 1 .. count |-> buf[(pos + i - 1) % BufSize]]

Held == IF reader = "polling" THEN <<>> ELSE <<ch>>

(* No character is lost, doubled or overtaken between the terminal and the *)
(* software, wherever the full ring stops read_thread: what was read, the  *)
(* ring, the character in hand and the pipe are the typed characters.      *)
InputInOrder == taken \o Contents \o Held \o pipe = [i \in 1 .. typed |-> i]

(* The level register says whether there is a character, and the line says  *)
(* what the registers say whenever irq_update_thread has nothing left to do: *)
(* no change of the ring or of the mask goes unannounced.                    *)
LineIsRight == /\ level = (count > 0)
               /\ irqDue \/ line = (count > 0 /\ enabled)

(* read_thread waits only for a full ring, or its event is on the way: the  *)
(* character taken between its test and its wait is not forgotten.          *)
NoLostWakeup == reader = "full" => count = BufSize \/ readDue

(* Interrupt-driven input works: if the interrupt stays enabled, every      *)
(* character that was typed is read.                                        *)
InputIsRead == (<>[]enabled) => \A n \in 1 .. MaxTyped : (typed >= n ~> Len(taken) >= n)
============================================================================

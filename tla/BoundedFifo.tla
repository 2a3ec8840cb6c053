----------------------------- MODULE BoundedFifo -----------------------------
(***************************************************************************)
(* What a mwsr_ta_fifo promises to the threads that use it: a queue of at  *)
(* most Capacity items.  An item that was put is delivered once, to the    *)
(* reader, after the items put before it and before those put after it.    *)
(* "out" is the item the last get delivered.                               *)
(***************************************************************************)
EXTENDS Naturals, Sequences

CONSTANTS Items,     \* the values a queue carries (requests or responses)
          NoItem,    \* the reader's variable before its first get
          Capacity   \* the size given to the constructor

VARIABLES queue, out

fifoVars == <<queue, out>>

Init == /\ queue = <<>>
        /\ out = NoItem

Put(p) == /\ Len(queue) < Capacity
          /\ queue' = Append(queue, p)
          /\ UNCHANGED out

Get == /\ queue # <<>>
       /\ out' = Head(queue)
       /\ queue' = Tail(queue)

Next == Get \/ \E p \in Items : Put(p)

Spec == Init /\ [][Next]_fifoVars
=============================================================================

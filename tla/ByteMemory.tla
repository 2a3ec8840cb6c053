---------------------------- MODULE ByteMemory ----------------------------
(* What a memory device promises the processors: it is an array of bytes.  *)
(* An access either is refused, which leaves the array alone, or reads or  *)
(* writes exactly the bytes it names; an aligned access is never refused.  *)
EXTENDS Integers

CONSTANTS Size,     \* bytes of the memory
          Word      \* the words a processor writes: functions on 0..3

VARIABLES bytes,    \* the array
          answer    \* the last access and what it was answered

Widths == {1, 2, 4}

Answer(o, a, n, e, d) == [op |-> o, addr |-> a, size |-> n, err |-> e, data |-> d]

Nothing == Answer("none", 0, 1, FALSE, <<>>)

Aligned(a, n) == a % n = 0

Init == /\ bytes = [b \in 0 .. Size - 1 |-> 0]
        /\ answer = Nothing

Write(a, n, w) ==
    /\ bytes' = [b \in 0 .. Size - 1 |->
                    IF b \in a .. a + n - 1 THEN w[b - a] ELSE bytes[b]]
    /\ answer' = Answer("write", a, n, FALSE, <<>>)

Read(a, n) ==
    /\ answer' = Answer("read", a, n, FALSE, [i \in 0 .. n - 1 |-> bytes[a + i]])
    /\ UNCHANGED bytes

Refuse(o, a, n) ==
    /\ ~Aligned(a, n)
    /\ answer' = Answer(o, a, n, TRUE, <<>>)
    /\ UNCHANGED bytes

Next == \E a \in 0 .. Size - 1, n \in Widths :
            /\ a + n <= Size
            /\ \/ \E w \in Word : Write(a, n, w)
               \/ Read(a, n)
               \/ \E o \in {"read", "write"} : Refuse(o, a, n)

Spec == Init /\ [][Next]_<<bytes, answer>>
============================================================================

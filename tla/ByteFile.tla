------------------------------ MODULE ByteFile ------------------------------
(***************************************************************************)
(* A file of bytes and the descriptors it is read and written through: the *)
(* promise of the disk driver to user programs.                            *)
(***************************************************************************)
EXTENDS Naturals, Sequences

CONSTANTS
    Descriptors,
    Zero            \* what a hole in the file reads as

VARIABLES
    file,           \* its bytes
    pos,            \* position of each descriptor
    asked, given,   \* the call in progress: how many bytes it reads, the bytes it writes
    answer          \* what the last read returned

fileVars == <<file, pos, asked, given, answer>>

FileInit == pos = [d \in Descriptors |-> 0] /\ answer = <<>>

Call == UNCHANGED <<file, pos, answer>>

Seek(d) ==
    /\ pos' = [pos EXCEPT ![d] = pos'[d]] /\ pos'[d] \in Nat
    /\ UNCHANGED <<file, asked, given, answer>>

Smaller(a, b) == IF a < b THEN a ELSE b

\* As many bytes as there are.
Read(d) ==
    /\ answer' = SubSeq(file, pos[d] + 1, Smaller(pos[d] + asked, Len(file)))
    /\ pos' = [pos EXCEPT ![d] = @ + Len(answer')]
    /\ UNCHANGED <<file, given>>

\* All the bytes, after a hole if the file is shorter.
Write(d) ==
    LET end == pos[d] + Len(given)
        n == IF given = <<>> \/ end < Len(file) THEN Len(file) ELSE end
    IN  /\ file' = [i \in 1 .. n |->
              IF i > pos[d] /\ i <= end THEN given[i - pos[d]]
              ELSE IF i <= Len(file) THEN file[i] ELSE Zero]
        /\ pos' = [pos EXCEPT ![d] = end]
        /\ UNCHANGED <<asked, given, answer>>

FileNext == Call \/ \E d \in Descriptors : Seek(d) \/ Read(d) \/ Write(d)

FileSpec == FileInit /\ [][FileNext]_fileVars
=============================================================================

----------------------------- MODULE MemDevice -----------------------------
(* The bytes of an access on their way from a processor to a memory and    *)
(* back: master_device::send_req turns (address, size) into an 8-byte line *)
(* and a byte-enable mask, mem_device or sram_device serves the lanes of   *)
(* the mask, and response_thread finds the first enabled lane of the       *)
(* answer again.  A mask is the set of its lanes.                          *)
(*                                                                         *)
(* An access is one step: request_thread serves one request at a time (the *)
(* interleavings of the transport are in NocTransport).  No access crosses *)
(* an 8-byte line: the instruction set simulator splits those before they  *)
(* reach the bus.  Bursts (plen > 1), which answer with a host address,    *)
(* are left out.                                                           *)
EXTENDS Integers, FiniteSetsExt

CONSTANTS Lines,    \* lines of eight bytes of the memory
          Word,     \* words a processor writes: functions on 0..3
          MaxOps    \* bound on the number of accesses

ASSUME LinesAssumption == Lines \in Nat \ {0}
ASSUME MaxOpsAssumption == MaxOps \in Nat

VARIABLES sram,     \* a sram_device, else a mem_device: it never changes
          mem,      \* the device's array
          rdata,    \* m_rsp.rdata: the data lanes of the response, never cleared
          answer,   \* the last access and what the processor was given for it
          ops       \* accesses so far

vars == <<sram, mem, rdata, answer, ops>>

Size == 8 * Lines
Lane == 0 .. 7
Widths == {1, 2, 4}

(* The accesses that stay within a line. *)
Access == {x \in (0 .. Size - 1) \X Widths : (x[1] % 8) + x[2] <= 8}

LineOf(a) == a - (a % 8)

(* s_operation_mask_be[nbytes] << ofs, in eight bits. *)
Enabled(a, n) == ((a % 8) .. (a % 8) + n - 1) \cap Lane

(* A slip: the dword mask of the upper half is missing from the switch. *)
Known_NoUpperDword(be) ==
    \E n \in Widths, k \in 0 .. 7 :
        n * k < 4 /\ be = (n * k) .. (n * k) + n - 1

(* The masks the switch statements name, the qword mask apart: no request *)
(* of a processor enables all eight lanes.                                *)
Known(be) == \E n \in Widths, k \in 0 .. 7 : be = (n * k) .. (n * k) + n - 1

(* mem_device::write takes any run of lanes, sram_device::write only the   *)
(* known ones.                                                             *)
WriteServed(be) == ~sram \/ Known(be)
ReadServed(be) == Known(be)

(* response_thread: the first enabled lane, and as many bytes as the *)
(* processor asked for from there.                                   *)
FirstLane(be) == Min(be)

Answer(o, a, n, e, d) == [op |-> o, addr |-> a, size |-> n, err |-> e, data |-> d]

Init == /\ sram \in BOOLEAN
        /\ mem = [b \in 0 .. Size - 1 |-> 0]
        /\ rdata = [l \in Lane |-> 0]
        /\ answer = Answer("none", 0, 1, FALSE, <<>>)
        /\ ops = 0

(* req.wdata: the bytes of w from lane ofs on. *)
Wdata(a, n, w) == [l \in Lane |-> IF l - (a % 8) \in 0 .. n - 1 THEN w[l - (a % 8)] ELSE 0]

(* The device stores every enabled lane at its place in the line. *)
StoreLanes(base, be, d) ==
    [b \in 0 .. Size - 1 |-> IF b - base \in be THEN d[b - base] ELSE mem[b]]

Write(a, n, w) ==
    LET be == Enabled(a, n)
    IN /\ IF WriteServed(be)
          THEN mem' = StoreLanes(LineOf(a), be, Wdata(a, n, w))
          ELSE UNCHANGED mem
       /\ answer' = Answer("write", a, n, ~WriteServed(be), <<>>)
       /\ UNCHANGED rdata

(* The device fills the enabled lanes of the response and leaves the others; *)
(* a refused read answers with the bytes already there.                      *)
LoadLanes(base, be) == [l \in Lane |-> IF l \in be THEN mem[base + l] ELSE rdata[l]]

Read(a, n) ==
    LET be == Enabled(a, n)
    IN /\ IF ReadServed(be)
          THEN rdata' = LoadLanes(LineOf(a), be)
          ELSE UNCHANGED rdata
       /\ answer' = Answer("read", a, n, ~ReadServed(be),
                           [i \in 0 .. n - 1 |-> rdata'[FirstLane(be) + i]])
       /\ UNCHANGED mem

Next == /\ ops < MaxOps
        /\ ops' = ops + 1
        /\ UNCHANGED sram
        /\ \E x \in Access :
              \/ \E w \in Word : Write(x[1], x[2], w)
              \/ Read(x[1], x[2])

Spec == Init /\ [][Next]_vars
----------------------------------------------------------------------------
(* The data that come with an error stand for nothing: they are what the *)
(* last read left.                                                       *)
Meaning == IF answer.err THEN [answer EXCEPT !.data = <<>>] ELSE answer

Bytes == INSTANCE ByteMemory WITH bytes <- mem, answer <- Meaning

(* A memory device is an array of bytes: every access reads or writes      *)
(* exactly the bytes it names, whatever lines, masks and lanes it travels  *)
(* on and whatever the accesses before it left in the response buffer, and *)
(* no aligned access is refused.                                           *)
IsByteArray == Bytes!Spec
============================================================================

------------------------------ MODULE DbfImage ------------------------------
(***************************************************************************)
(* What the deblocking filter does to the picture.  Each slice thread      *)
(* filters a range of macroblocks in place, in one memory that all of them *)
(* share; filtering an edge reads and writes the macroblocks on both sides *)
(* of it.  Then the picture is sent, four pixels at a time, from the       *)
(* blocks of 512 bytes it is kept in to a plain image in memory.           *)
(*                                                                         *)
(* A macroblock is the sequence of the passes that touched it: the         *)
(* vertical ("v") and the horizontal ("h") edges of a macroblock.  The     *)
(* planes are filtered one after the other by the same rules; which pixels *)
(* of an edge change, and how, is in DbfFilter.                            *)
(***************************************************************************)
EXTENDS Integers, Sequences, FiniteSetsExt

CONSTANTS
    PicWidthInMbs, PicHeightInMbs,  \* given by the format in REG_GLO_CTRL
    SliceIds,        \* 0 .. N_SLICE_THREADS - 1
    Destinations    \* values of REG_SRAM_ADDRESS, multiples of 4

ASSUME DbfImageAssumption ==
    /\ PicWidthInMbs \in Nat \ {0} /\ PicHeightInMbs \in Nat \ {0}
    /\ PicWidthInMbs * PicHeightInMbs * 512 <= 212992      \* REG_GLO_VER, 0x34000
    /\ \A d \in Destinations : d \in Nat /\ d % 4 = 0
    /\ Max(SliceIds) \in Nat /\ SliceIds = 0 .. Max(SliceIds)

Mbs == 0 .. PicWidthInMbs * PicHeightInMbs - 1

VARIABLES
    sliceRegs,      \* of each slice: REG_SLI_OFFSET, REG_SLI_LGTOFF and REG_SLI_LENGTH
    stage,          \* of each slice: "set", "cleared", "filtered"
    picture,        \* of each macroblock: what happened to it
    adr_dest, b8alg, bIncrementAddress,
    packets,        \* packets sent of the picture, or Idle
    packet          \* the last one: the word of memory and the register it came from

Idle == -1
imageVars == <<sliceRegs, stage, picture, adr_dest, b8alg, bIncrementAddress, packets, packet>>
-----------------------------------------------------------------------------
(* The slices: consecutive ranges, twelve bits of offset and of length.    *)

\* What software writes for macroblocks lo to hi - 1.
Encode(lo, hi) == <<lo % 256, (lo \div 256) + (16 * ((hi - lo) % 16)), (hi - lo) \div 16>>
Partitions ==
    LET n == PicWidthInMbs * PicHeightInMbs
        last == Max(SliceIds)
    IN  {[t \in SliceIds |-> Encode(c[t], c[t + 1])] :
           c \in {d \in [0 .. last + 1 -> 0 .. n] :
                    d[0] = 0 /\ d[last + 1] = n /\ \A t \in SliceIds : d[t] <= d[t + 1]}}

\* get_Offset, get_sliceLength.
Offset(t) == (sliceRegs[t][2] % 16) * 256 + sliceRegs[t][1]
SliceLength(t) == (sliceRegs[t][3] * 16) + (sliceRegs[t][2] \div 16)
Slice(t) == Offset(t) .. Offset(t) + SliceLength(t) - 1

DbfImageInit ==
    /\ sliceRegs \in Partitions
    /\ stage = [t \in SliceIds |-> "set"]
    /\ picture = [b \in Mbs |-> <<>>]
    /\ adr_dest = 0 /\ b8alg = FALSE /\ bIncrementAddress = FALSE
    /\ packets = Idle /\ packet = <<0, 0>>

\* REG_SLI_CLEAR: clear_slice; software then writes the pixels and their parameters.
ClearSlice(t) ==
    /\ stage[t] = "set" /\ packets = Idle
    /\ stage' = [stage EXCEPT ![t] = "cleared"]
    /\ picture' = [b \in Mbs |-> IF b \in Slice(t) THEN <<>> ELSE picture[b]]
    /\ UNCHANGED <<sliceRegs, adr_dest, b8alg, bIncrementAddress, packets, packet>>
-----------------------------------------------------------------------------
(* filter_slice.                                                           *)
Column(b) == b % PicWidthInMbs
Row(b) == b \div PicWidthInMbs

\* The left edge of the picture and of the first macroblock.
SkipVertical(t, b) == Column(b) = 0 \/ (Column(b) = Column(Offset(t)) /\ Row(b) = Row(Offset(t)))

\* The top edges of a slice that begins with a row.
SkipHorizontal_Rows(t, b) == Row(b) <= Row(Offset(t))

\* The top edges of a slice: its first row goes on in the next.
SkipHorizontal(t, b) ==
    IF Column(b) < Column(Offset(t)) THEN Row(b) <= Row(Offset(t)) + 1 ELSE Row(b) <= Row(Offset(t))

Touch(pic, S, pass) == [b \in Mbs |-> IF b \in S THEN Append(pic[b], pass) ELSE pic[b]]

FilterMb(pic, t, b) ==
    LET v == IF SkipVertical(t, b) THEN pic ELSE Touch(pic, {b - 1, b}, <<"v", b>>)
    IN  IF SkipHorizontal(t, b) THEN v ELSE Touch(v, {b - PicWidthInMbs, b}, <<"h", b>>)

FilterSlice(t) ==
    LET filtered[n \in 0 .. SliceLength(t)] ==
          IF n = 0 THEN picture ELSE FilterMb(filtered[n - 1], t, Offset(t) + n - 1)
    IN  /\ stage[t] = "cleared"
        /\ stage' = [stage EXCEPT ![t] = "filtered"]
        /\ picture' = filtered[SliceLength(t)]
        /\ UNCHANGED <<sliceRegs, adr_dest, b8alg, bIncrementAddress, packets, packet>>
-----------------------------------------------------------------------------
(* master_request.  In loops of k, l, y and x: rows of macroblocks, lines, *)
(* macroblocks of the row, words of the line.                              *)
LumaPackets == PicHeightInMbs * 16 * PicWidthInMbs * 4
ChromaPackets == PicHeightInMbs * 8 * PicWidthInMbs * 2
Packets == LumaPackets + 2 * ChromaPackets

\* The register of the n-th packet of a plane, block after block.
PlaneRegister_ByBlock(base, n, words, lines) ==
    base + (n \div (words * lines)) * 512 + 4 * (n % (words * lines))

\* ... in the order of the loops; a macroblock has `lines' lines of `words' words.
PlaneRegister(base, n, words, lines) ==
    LET x == n % words
        y == (n \div words) % PicWidthInMbs
        l == (n \div (words * PicWidthInMbs)) % lines
        k == n \div (words * PicWidthInMbs * lines)
    IN  base + ((k * PicWidthInMbs) * 512) + (l * 4) * words + y * 512 + 4 * x

PacketRegister(n) ==
    CASE n < LumaPackets -> PlaneRegister(0, n, 4, 16)
      [] n >= LumaPackets /\ n < LumaPackets + ChromaPackets ->
           PlaneRegister(256, n - LumaPackets, 2, 8)
      [] OTHER -> PlaneRegister(256 + 64, n - LumaPackets - ChromaPackets, 2, 8)

\* REG_FRA_SRAM, written when every slice was filtered.
StartSend(d, inc) ==
    /\ packets = Idle /\ \A t \in SliceIds : stage[t] = "filtered"
    /\ adr_dest' = d /\ b8alg' = (d % 8 = 0) /\ bIncrementAddress' = inc
    /\ packets' = 0
    /\ UNCHANGED <<sliceRegs, stage, picture, packet>>

\* SEND_PACK.  A device writes the half of the eight bytes at req.address that req.be
\* selects; req.address is made a multiple of 8 only if it is incremented.
RequestAddress == IF bIncrementAddress THEN adr_dest - (adr_dest % 8) ELSE adr_dest

SendPack ==
    /\ packet' = <<RequestAddress + (IF b8alg THEN 0 ELSE 4), PacketRegister(packets)>>
    /\ adr_dest' = IF bIncrementAddress THEN adr_dest + 4 ELSE adr_dest
    /\ b8alg' = IF bIncrementAddress THEN ~b8alg ELSE b8alg

MasterRequest ==
    /\ packets \in 0 .. Packets - 1
    /\ SendPack
    /\ packets' = packets + 1
    /\ UNCHANGED <<sliceRegs, stage, picture, bIncrementAddress>>

\* The next picture, in other slices.
NextPicture(regs) ==
    /\ packets = Packets /\ packets' = Idle
    /\ sliceRegs' = regs /\ stage' = [t \in SliceIds |-> "set"]
    /\ UNCHANGED <<picture, adr_dest, b8alg, bIncrementAddress, packet>>

DbfImageNext ==
    \/ \E t \in SliceIds : ClearSlice(t) \/ FilterSlice(t)
    \/ \E d \in Destinations, inc \in BOOLEAN : StartSend(d, inc)
    \/ MasterRequest
    \/ \E regs \in Partitions : NextPicture(regs)

DbfImageSpec == DbfImageInit /\ [][DbfImageNext]_imageVars
-----------------------------------------------------------------------------
Opt(c, e) == IF c THEN <<e>> ELSE <<>>

\* What happens to macroblock b of a slice S that is filtered alone.
Alone(S, b) ==
    LET left(a) == a \in S /\ a - 1 \in S /\ Column(a) # 0
        above(a) == a \in S /\ a - PicWidthInMbs \in S
    IN  Opt(left(b), <<"v", b>>) \o Opt(above(b), <<"h", b>>) \o
        Opt(left(b + 1), <<"v", b + 1>>) \o Opt(above(b + PicWidthInMbs), <<"h", b + PicWidthInMbs>>)

(* The slice threads finish in any order, and a slice may be cleared and written
   while others are filtered: a slice is the same as if it were filtered alone, and
   its edges are all filtered but those it has with other slices. *)
SlicesAreApart ==
    \A t \in SliceIds : \A b \in Slice(t) :
        packets = Idle =>
            /\ stage[t] = "cleared" => picture[b] = <<>>
            /\ stage[t] = "filtered" => picture[b] = Alone(Slice(t), b)

\* The address get_L_pixel and set_L_pixel, get_C_pixel and set_C_pixel use.
PixelRegister(plane, x, y) ==
    LET size == IF plane = 0 THEN 16 ELSE 8
    IN  512 * ((y \div size) * PicWidthInMbs + (x \div size)) + (y % size) * size + (x % size) +
        (IF plane = 0 THEN 0 ELSE 256 + 64 * (plane - 1))

\* The first pixel of the n-th word of a plane, line by line.
Raster(plane, n) ==
    LET words == (IF plane = 0 THEN 4 ELSE 2) * PicWidthInMbs
    IN  PixelRegister(plane, 4 * (n % words), n \div words)

(* The copy walks the blocks in four loops and toggles between the halves of the bus:
   memory gets the pixels the filter wrote, line by line and plane by plane.  If the
   address is incremented they go to consecutive words, from any word on.  If not, they
   go to one word: the one software named if its address is a multiple of 8, and the
   word after it otherwise, because SEND_PACK selects the upper half of the eight bytes
   at the address, which it does not align in that case. *)
SendsRaster ==
    packets' = packets + 1 /\ packets # Idle =>
        /\ adr_dest % 4 = 0
        /\ packet'[1] = adr_dest + (IF bIncrementAddress THEN 0 ELSE adr_dest % 8)
        /\ adr_dest' = adr_dest + (IF bIncrementAddress THEN 4 ELSE 0)
        /\ packet'[2] = CASE packets < LumaPackets -> Raster(0, packets)
                          [] packets >= LumaPackets /\ packets < LumaPackets + ChromaPackets ->
                               Raster(1, packets - LumaPackets)
                          [] OTHER -> Raster(2, packets - LumaPackets - ChromaPackets)

CopyIsRaster == [][SendsRaster]_imageVars
=============================================================================

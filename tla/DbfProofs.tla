----------------------------- MODULE DbfProofs -----------------------------
(***************************************************************************)
(* The deblocking filter.  Its arithmetic stays in the range of the        *)
(* samples, for all samples, parameters, quantizers and offsets.  Its copy *)
(* of the picture is line by line and its slices do not disturb each       *)
(* other, for all pictures and slices.  Its ports answer every request     *)
(* once and in order, for all masks and lengths of the queue.  Its driver, *)
(* for any number of slices and while nobody is killed: the interrupt says *)
(* what is pending, and what a process finds in its descriptor is the end  *)
(* of its own job.                                                         *)
(***************************************************************************)
EXTENDS DbfDriver, DbfImage, DbfFilter, DbfPorts, FiniteSetTheorems, SequenceTheorems, TLAPS

-----------------------------------------------------------------------------
(* The arithmetic.  The averages of samples are samples; a weak filter     *)
(* moves the second sample towards an average and not past it, because tc0 *)
(* is not negative.                                                        *)

Side == [0 .. 3 -> Bytes]

\* The samples are those of a line, bytes.
Line == p \in Side /\ q \in Side

\* No entry of tc0_t is negative.
LEMMA TableOfNaturals == \A b \in 1 .. 3, i \in 1 .. 36 : tc0_t[b][i] \in Nat
<1>1. tc0_t \in [1 .. 3 -> [1 .. 36 -> Nat]]
  BY DEF tc0_t
<1> QED  BY <1>1

\* An index computed from a quantizer and an offset is one of the tables.
LEMMA IndexInTable ==
    ASSUME NEW qp \in Int, NEW o \in Int
    PROVE  TableIndex(qp, o) \in 0 .. 51
BY DEF TableIndex, CustomClip

\* So the limits of an edge have a tc0 that is not negative.
LEMMA LimitsAreNatural ==
    ASSUME NEW bS, NEW t \in EdgeLimits(bS)
    PROVE  t.tc0 \in Nat
<1>0. PICK qpQ \in Quantizers, qpP \in Quantizers, oA \in SliceOffsets, oB \in SliceOffsets,
            signed \in SignedChar :
        t = Limits(TableIndex(AverageQP(qpQ, qpP), oA), TableIndex(AverageQP(qpQ, qpP), oB), bS, signed)
  BY DEF EdgeLimits
<1> DEFINE a == TableIndex(AverageQP(qpQ, qpP), oA)
<1> DEFINE b == TableIndex(AverageQP(qpQ, qpP), oB)
<1>1. t = Limits(a, b, bS, signed) /\ a \in 0 .. 51
  <2>1. qpQ \in Int /\ qpP \in Int /\ oA \in Int
    BY DbfFilterAssumption DEF Bytes
  <2>2. AverageQP(qpQ, qpP) \in Int
    BY <2>1 DEF AverageQP
  <2> QED  BY <1>0, <2>1, <2>2, IndexInTable
<1> HIDE DEF a, b
<1>2. CASE bS \in 1 .. 3 /\ a >= 16
  <2>1. t.tc0 = tc0_t[bS][a - 15]
    BY <1>1, <1>2 DEF Limits
  <2>2. a - 15 \in 1 .. 36
    BY <1>1, <1>2
  <2> QED  BY <2>1, <2>2, <1>2, TableOfNaturals
<1>3. CASE ~(bS \in 1 .. 3 /\ a >= 16)
  BY <1>1, <1>3 DEF Limits
<1> QED  BY <1>2, <1>3

\* A sample moved towards an average of bytes, by so much at most, is a byte.
LEMMA BetweenIsByte ==
    ASSUME NEW n \in 0 .. 255, NEW x \in 0 .. 510, NEW k \in Nat
    PROVE  n + CustomClip((x - n * 2) \div 2, -k, k) \in Bytes
<1> DEFINE d == (x - n * 2) \div 2
<1>1. d \in Int /\ 0 <= n + d /\ n + d <= 255
  OBVIOUS
<1> SUFFICES n + CustomClip(d, -k, k) \in Bytes
  OBVIOUS
<1> HIDE DEF d
<1>2. CASE d < -k
  BY <1>1, <1>2 DEF CustomClip, Bytes
<1>3. CASE ~(d < -k) /\ d > k
  BY <1>1, <1>3 DEF CustomClip, Bytes
<1>4. CASE ~(d < -k) /\ ~(d > k)
  BY <1>1, <1>4 DEF CustomClip, Bytes
<1> QED  BY <1>2, <1>3, <1>4

\* So is the second sample of a weakly filtered side.
LEMMA SecondIsByte ==
    ASSUME NEW near \in Side, NEW far \in Side, NEW t, t.tc0 \in Nat
    PROVE  Second(near, far, t) \in Bytes
<1>1. PICK a \in 0 .. 255, b \in 0 .. 255, c \in 0 .. 255, e \in 0 .. 255 :
        near[0] = a /\ near[1] = b /\ near[2] = c /\ far[0] = e
  <2>1. near[0] \in 0 .. 255 /\ near[1] \in 0 .. 255 /\ near[2] \in 0 .. 255 /\ far[0] \in 0 .. 255
    BY DEF Side, Bytes
  <2> QED  BY <2>1, Zenon
<1>2. PICK x : x = c + (a + e + 1) \div 2
  OBVIOUS
<1>20. x \in 0 .. 510
  <2>1. PICK h : h = (a + e + 1) \div 2
    OBVIOUS
  <2>2. h \in 0 .. 255
    BY ONLY <2>1, a \in 0 .. 255, e \in 0 .. 255
  <2> QED  BY ONLY <1>2, <2>1, <2>2, c \in 0 .. 255
<1>3. b + CustomClip((x - b * 2) \div 2, -t.tc0, t.tc0) \in Bytes
  BY <1>20, BetweenIsByte
<1> QED  BY <1>1, <1>2, <1>3 DEF Second

\* bS of 1 to 3.
LEMMA WeakKeepsSide ==
    ASSUME NEW near \in Side, NEW far \in Side, NEW t, t.tc0 \in Nat, NEW d \in Int,
           NEW luma \in BOOLEAN
    PROVE  Weak(near, far, d, t, luma) \in Side
<1>0. near[0] + d \in Int
  BY DEF Side, Bytes
<1>1. Clip(near[0] + d) \in Bytes
  BY <1>0 DEF Clip, CustomClip, Bytes
<1>2. Second(near, far, t) \in Bytes
  BY SecondIsByte
<1> QED  BY <1>1, <1>2 DEF Weak, Side

\* bS of 4: each new sample is a rounded average.
LEMMA StrongKeepsSide ==
    ASSUME NEW near \in Side, NEW far \in Side, NEW t, NEW luma \in BOOLEAN
    PROVE  Strong(near, far, t, luma) \in Side
<1>0. PICK a, b, c, d, e, f :
        /\ near[0] = a /\ near[1] = b /\ near[2] = c /\ near[3] = d
        /\ far[0] = e /\ far[1] = f
  OBVIOUS
<1>1. /\ near[0] = a /\ near[1] = b /\ near[2] = c /\ near[3] = d
      /\ far[0] = e /\ far[1] = f
      /\ a \in 0 .. 255 /\ b \in 0 .. 255 /\ c \in 0 .. 255
      /\ d \in 0 .. 255 /\ e \in 0 .. 255 /\ f \in 0 .. 255
  BY <1>0 DEF Side, Bytes
<1>2. /\ (c + 2 * b + 2 * a + 2 * e + f + 4) \div 8 \in Bytes
      /\ (c + b + a + e + 2) \div 4 \in Bytes
      /\ (2 * d + 3 * c + b + a + e + 4) \div 8 \in Bytes
      /\ (2 * b + a + f + 2) \div 4 \in Bytes
  BY ONLY <1>1 DEF Bytes
<1> QED  BY <1>1, <1>2 DEF Strong, Side

\* How far the sample at the edge moves is a number.
LEMMA DeltaIsNumber ==
    ASSUME Line, NEW t, t.tc0 \in Nat, NEW luma \in BOOLEAN
    PROVE  Delta(t, luma) \in Int
<1>1. p[0] \in Int /\ p[1] \in Int /\ q[0] \in Int /\ q[1] \in Int
  BY DEF Line, Side, Bytes
<1> DEFINE tc == IF luma
              THEN t.tc0 + (IF Dist(p[2], p[0]) < t.beta THEN 1 ELSE 0)
                         + (IF Dist(q[2], q[0]) < t.beta THEN 1 ELSE 0)
              ELSE t.tc0 + 1
<1>2. tc \in Int
  OBVIOUS
<1> DEFINE e == ((q[0] - p[0]) * 4 + (p[1] - q[1]) + 4) \div 8
<1>3. e \in Int
  BY <1>1
<1> HIDE DEF tc, e
<1>4. CustomClip(e, -tc, tc) \in Int
  BY <1>2, <1>3 DEF CustomClip
<1> QED  BY <1>4 DEF Delta, tc, e

\* Filtering an edge leaves bytes, so that the next edge starts with bytes.
LEMMA FilterKeepsLine == Line /\ [FilterNext]_filterVars => Line'
<1> SUFFICES ASSUME Line, [FilterNext]_filterVars PROVE Line'
  OBVIOUS
<1>1. CASE UNCHANGED filterVars
  BY <1>1 DEF filterVars, Line
<1>2. ASSUME NEW bS \in Strengths, NEW luma \in BOOLEAN, NEW t \in EdgeLimits(bS),
             FilterBlock(bS, t, luma)
      PROVE  Line'
  <2>1. t.tc0 \in Nat
    BY LimitsAreNatural
  <2>2. CASE UNCHANGED filterVars
    BY <2>2 DEF filterVars, Line
  <2>3. CASE /\ p' = Weak(p, q, Delta(t, luma), t, luma)
             /\ q' = Weak(q, p, -Delta(t, luma), t, luma)
    <3>1. Delta(t, luma) \in Int /\ -Delta(t, luma) \in Int
      BY <2>1, DeltaIsNumber
    <3> QED  BY <2>1, <2>3, <3>1, WeakKeepsSide DEF Line
  <2>4. CASE p' = Strong(p, q, t, luma) /\ q' = Strong(q, p, t, luma)
    BY <2>4, StrongKeepsSide DEF Line
  <2> QED  BY <1>2, <2>2, <2>3, <2>4 DEF FilterBlock
<1> QED  BY <1>1, <1>2 DEF FilterNext

(* However often lines of bytes are filtered, with any parameters: no sample that
   filter_vertical or filter_horizontal stores into an unsigned char is out of its
   range. *)
THEOREM SamplesStayBytes == FilterSpec => []NoSampleWraps
<1>1. FilterInit => Line
  BY DbfFilterAssumption DEF FilterInit, Line, Side
<1>2. Line => NoSampleWraps
  BY DEF Line, NoSampleWraps, Side, Bytes
<1> QED  BY <1>1, <1>2, FilterKeepsLine, PTL DEF FilterSpec
-----------------------------------------------------------------------------
(* The copy.  The four loops of master_request and the coordinates of a    *)
(* pixel take the number of a word apart in the same way.                  *)

\* What division computes, and that nothing else does.
LEMMA Quotient ==
    ASSUME NEW a \in Nat, NEW b \in Nat \ {0}
    PROVE  /\ a \div b \in Nat /\ a % b \in 0 .. b - 1
           /\ a = b * (a \div b) + (a % b)
OBVIOUS

\* The division of b * v + r.
LEMMA OneQuotient ==
    ASSUME NEW b \in Nat \ {0}, NEW v \in Nat, NEW r \in 0 .. b - 1
    PROVE  (b * v + r) \div b = v /\ (b * v + r) % b = r
<1> DEFINE a == b * v + r
<1>1. b * v \in Nat
  OBVIOUS
<1>2. a \in Nat
  BY <1>1
<1> DEFINE u == a \div b
<1> DEFINE m == a % b
<1>3. u \in Nat /\ m \in 0 .. b - 1 /\ a = b * u + m
  BY <1>2, Quotient
<1>4. a = b * v + r
  OBVIOUS
<1> SUFFICES u = v /\ m = r
  OBVIOUS
<1> HIDE DEF a, u, m
<1>5. ~(u < v)
  <2> SUFFICES ASSUME u < v PROVE FALSE
    OBVIOUS
  <2>1. b * v >= b * (u + 1) /\ b * (u + 1) = b * u + b /\ b * u \in Nat
    BY <1>3
  <2> QED  BY <1>1, <1>3, <1>4, <2>1
<1>6. ~(v < u)
  <2> SUFFICES ASSUME v < u PROVE FALSE
    OBVIOUS
  <2>1. b * u >= b * (v + 1) /\ b * (v + 1) = b * v + b /\ b * u \in Nat
    BY <1>3
  <2> QED  BY <1>1, <1>3, <1>4, <2>1
<1>7. u = v
  BY <1>3, <1>5, <1>6
<1> QED  BY <1>1, <1>3, <1>4, <1>7

\* The loops of master_request split n into k, l, y and x; the coordinates of a pixel
\* split it the same way.
SameSplit(n, w, W) ==
    /\ n \div (w * W * (4 * w)) \in Nat /\ (n \div (w * W)) % (4 * w) \in Nat
    /\ (n \div w) % W \in Nat /\ n % w \in Nat
    /\ (n \div (w * W)) \div (4 * w) = n \div (w * W * (4 * w))
    /\ (4 * (n % (w * W))) \div (4 * w) = (n \div w) % W
    /\ (4 * (n % (w * W))) % (4 * w) = 4 * (n % w)

LEMMA SameWord ==
    ASSUME NEW W \in Nat \ {0}, NEW w \in {2, 4}, NEW n \in Nat
    PROVE  SameSplit(n, w, W)
<1> DEFINE q1 == n \div w
           x == n % w
           q2 == q1 \div W
           y == q1 % W
           k == q2 \div (4 * w)
           l == q2 % (4 * w)
<1>1. q1 \in Nat /\ x \in 0 .. w - 1 /\ n = w * q1 + x
  <2>1. w \in Nat \ {0}
    OBVIOUS
  <2> QED  BY <2>1, Quotient
<1> HIDE DEF q1, x
<1>2. q2 \in Nat /\ y \in 0 .. W - 1 /\ q1 = W * q2 + y
  BY <1>1, Quotient
<1> HIDE DEF q2, y
<1>3. k \in Nat /\ l \in 0 .. 4 * w - 1 /\ q2 = (4 * w) * k + l
  <2>1. 4 * w \in Nat \ {0}
    OBVIOUS
  <2> QED  BY <1>2, <2>1, Quotient
<1> HIDE DEF k, l
<1> DEFINE c == w * W
           r == w * y + x
<1>4. c \in Nat \ {0} /\ r \in 0 .. c - 1
  <2>1. W >= 1 /\ w >= 1 /\ y <= W - 1 /\ x <= w - 1
    BY <1>1, <1>2
  <2>2. CASE w = 2
    BY <1>1, <1>2, <2>1, <2>2
  <2>3. CASE w = 4
    BY <1>1, <1>2, <2>1, <2>3
  <2> QED  BY <2>2, <2>3
<1>5. n = c * q2 + r
  <2>1. w * (W * q2 + y) = (w * W) * q2 + w * y
    <3>1. CASE w = 2
      BY <1>2, <3>1
    <3>2. CASE w = 4
      BY <1>2, <3>2
    <3> QED  BY <3>1, <3>2
  <2> QED  BY <1>1, <1>2, <2>1
<1>6. n \div c = q2 /\ n % c = r
  <2> HIDE DEF c, r
  <2> QED  BY <1>2, <1>4, <1>5, OneQuotient
<1>7. n \div (c * (4 * w)) = k
  <2> DEFINE d == 4 * w
  <2>1. d \in Nat \ {0} /\ l \in 0 .. d - 1
    BY <1>3
  <2> HIDE DEF c, r, d
  <2>2. c * l \in Nat /\ c * l <= c * (d - 1) /\ c * (d - 1) = c * d - c /\ c * d \in Nat
    BY <1>4, <2>1
  <2>3. c * d \in Nat \ {0} /\ c * l + r \in 0 .. c * d - 1
    BY <1>4, <2>1, <2>2
  <2>4. c * (d * k + l) = (c * d) * k + c * l
    BY <1>3, <1>4, <2>1
  <2>5. n = (c * d) * k + (c * l + r)
    BY <1>3, <1>4, <1>5, <2>2, <2>3, <2>4 DEF d
  <2>6. n \div (c * d) = k
    BY <1>3, <2>3, <2>5, OneQuotient
  <2> QED  BY <2>6 DEF d
<1>8. (4 * r) \div (4 * w) = y /\ (4 * r) % (4 * w) = 4 * x
  <2>1. 4 * r = (4 * w) * y + 4 * x
    <3>1. CASE w = 2
      BY <1>1, <1>2, <3>1
    <3>2. CASE w = 4
      BY <1>1, <1>2, <3>2
    <3> QED  BY <3>1, <3>2
  <2>2. 4 * w \in Nat \ {0} /\ 4 * x \in 0 .. 4 * w - 1
    BY <1>1
  <2> DEFINE d == 4 * w
             z == 4 * x
  <2> HIDE DEF r, d, z
  <2>3. (d * y + z) \div d = y /\ (d * y + z) % d = z
    <3>1. d \in Nat \ {0} /\ z \in 0 .. d - 1
      BY <2>2 DEF d, z
    <3> QED  BY <1>2, <3>1, OneQuotient
  <2>4. 4 * r = d * y + z
    BY <2>1 DEF d, z
  <2> QED  BY <2>3, <2>4 DEF d, z
<1>9. x \in Nat /\ y \in Nat /\ k \in Nat /\ l \in Nat
  BY <1>1, <1>2, <1>3
<1> HIDE DEF r
<1> QED  BY <1>6, <1>7, <1>8, <1>9 DEF c, k, l, y, q2, q1, x, SameSplit

\* The register of a word of a plane is that of its first pixel.
LEMMA RegisterIsRaster ==
    ASSUME NEW n \in Nat
    PROVE  /\ PlaneRegister(0, n, 4, 16) = Raster(0, n)
           /\ PlaneRegister(256, n, 2, 8) = Raster(1, n)
           /\ PlaneRegister(256 + 64, n, 2, 8) = Raster(2, n)
<1> DEFINE W == PicWidthInMbs
<1>1. W \in Nat \ {0}
  BY DbfImageAssumption
<1> HIDE DEF W
<1>2. ASSUME NEW w \in {2, 4}, NEW plane \in 0 .. 2, NEW base \in Nat,
             w = IF plane = 0 THEN 4 ELSE 2,
             base = IF plane = 0 THEN 0 ELSE 256 + 64 * (plane - 1)
      PROVE  PlaneRegister(base, n, w, 4 * w) = Raster(plane, n)
  <2>0. SameSplit(n, w, W)
    BY <1>1, SameWord
  <2> DEFINE k == n \div (w * W * (4 * w))
             l == (n \div (w * W)) % (4 * w)
             y == (n \div w) % W
             x == n % w
             px == 4 * (n % (w * W))
             py == n \div (w * W)
  <2>1. /\ k \in Nat /\ l \in Nat /\ y \in Nat /\ x \in Nat
        /\ py \div (4 * w) = k /\ py % (4 * w) = l
        /\ px \div (4 * w) = y /\ px % (4 * w) = 4 * x
    BY <2>0 DEF SameSplit
  <2>2. PlaneRegister(base, n, w, 4 * w) = base + ((k * W) * 512) + (l * 4) * w + y * 512 + 4 * x
    BY DEF PlaneRegister, W
  <2>3. Raster(plane, n) = 512 * ((py \div (4 * w)) * W + (px \div (4 * w)))
                           + (py % (4 * w)) * (4 * w) + (px % (4 * w)) + base
    BY <1>2 DEF Raster, PixelRegister, W
  <2> HIDE DEF k, l, y, x, px, py
  <2>4. 512 * (k * W + y) = (k * W) * 512 + y * 512
    BY <1>1, <2>1
  <2>5. l * (4 * w) = (l * 4) * w
    BY <2>1
  <2> QED  BY <1>1, <2>1, <2>2, <2>3, <2>4, <2>5
<1>3. PlaneRegister(0, n, 4, 16) = Raster(0, n)
  BY <1>2
<1>4. PlaneRegister(256, n, 2, 8) = Raster(1, n)
  BY <1>2
<1>5. PlaneRegister(256 + 64, n, 2, 8) = Raster(2, n)
  BY <1>2
<1> QED  BY <1>3, <1>4, <1>5

\* The packets of the planes.
LEMMA PacketCounts ==
    LumaPackets \in Nat /\ ChromaPackets \in Nat /\ Packets = LumaPackets + 2 * ChromaPackets
<1>1. PicHeightInMbs * 16 \in Nat /\ PicHeightInMbs * 8 \in Nat /\ PicWidthInMbs \in Nat
  BY DbfImageAssumption
<1>2. PicHeightInMbs * 16 * PicWidthInMbs \in Nat /\ PicHeightInMbs * 8 * PicWidthInMbs \in Nat
  BY <1>1
<1> QED  BY <1>2 DEF LumaPackets, ChromaPackets, Packets

\* The half of the bus is that of the word the copy has reached.
SendInv ==
    /\ packets \in {Idle} \cup (0 .. Packets)
    /\ adr_dest \in Nat /\ adr_dest % 4 = 0
    /\ b8alg \in BOOLEAN /\ bIncrementAddress \in BOOLEAN
    /\ packets # Idle => (b8alg <=> adr_dest % 8 = 0)

\* Every step keeps it.
LEMMA SendKept ==
    ASSUME SendInv, [DbfImageNext]_imageVars
    PROVE  SendInv'
<1> USE DEF SendInv
<1>1. ASSUME NEW t \in SliceIds, ClearSlice(t) \/ FilterSlice(t) PROVE SendInv'
  BY <1>1 DEF ClearSlice, FilterSlice
<1>2. ASSUME NEW d \in Destinations, NEW inc \in BOOLEAN, StartSend(d, inc) PROVE SendInv'
  <2>1. adr_dest' = d /\ d \in Nat /\ d % 4 = 0
    BY <1>2, DbfImageAssumption DEF StartSend
  <2>2. packets' \in 0 .. Packets
    BY <1>2, PacketCounts DEF StartSend
  <2>3. bIncrementAddress' \in BOOLEAN /\ b8alg' \in BOOLEAN /\ (b8alg' <=> d % 8 = 0)
    BY <1>2 DEF StartSend
  <2> QED  BY <2>1, <2>2, <2>3
<1>3. CASE MasterRequest
  <2>1. packets' \in 0 .. Packets
    BY <1>3, PacketCounts DEF MasterRequest
  <2>2. adr_dest' \in Nat /\ adr_dest' % 4 = 0
    BY <1>3 DEF MasterRequest, SendPack
  <2>3. bIncrementAddress' = bIncrementAddress /\ (b8alg <=> adr_dest % 8 = 0)
    BY <1>3 DEF MasterRequest, Idle
  <2>4. b8alg' \in BOOLEAN /\ (b8alg' <=> adr_dest' % 8 = 0)
    <3>1. CASE bIncrementAddress
      <4>1. (adr_dest + 4) % 8 = 0 <=> ~(adr_dest % 8 = 0)
        OBVIOUS
      <4> QED  BY <1>3, <2>3, <3>1, <4>1 DEF MasterRequest, SendPack
    <3>2. CASE ~bIncrementAddress
      BY <1>3, <2>3, <3>2 DEF MasterRequest, SendPack
    <3> QED  BY <3>1, <3>2
  <2> QED  BY <2>1, <2>2, <2>3, <2>4
<1>4. ASSUME NEW regs \in Partitions, NextPicture(regs) PROVE SendInv'
  BY <1>4 DEF NextPicture
<1>5. CASE UNCHANGED imageVars
  BY <1>5 DEF imageVars
<1> QED  BY <1>1, <1>2, <1>3, <1>4, <1>5 DEF DbfImageNext

\* So each packet takes the next word of the picture, and to the next word of memory if
\* the address is incremented.
LEMMA EachWordIsRaster ==
    ASSUME SendInv, [DbfImageNext]_imageVars
    PROVE  SendsRaster
<1> SUFFICES ASSUME packets' = packets + 1, packets # Idle
             PROVE  /\ adr_dest % 4 = 0
                    /\ packet'[1] = adr_dest + (IF bIncrementAddress THEN 0 ELSE adr_dest % 8)
                    /\ adr_dest' = adr_dest + (IF bIncrementAddress THEN 4 ELSE 0)
                    /\ packet'[2] = CASE packets < LumaPackets -> Raster(0, packets)
                                      [] packets >= LumaPackets /\ packets < LumaPackets + ChromaPackets ->
                                           Raster(1, packets - LumaPackets)
                                      [] OTHER -> Raster(2, packets - LumaPackets - ChromaPackets)
  BY DEF SendsRaster
<1>1. packets \in 0 .. Packets
  BY DEF SendInv
<1>2. MasterRequest
  <2>1. packets' # packets /\ packets' # Idle
    BY <1>1, PacketCounts DEF Idle
  <2> QED  BY <2>1 DEF DbfImageNext, ClearSlice, FilterSlice, StartSend, NextPicture, imageVars
<1>3. /\ packet' = <<RequestAddress + (IF b8alg THEN 0 ELSE 4), PacketRegister(packets)>>
      /\ adr_dest' = IF bIncrementAddress THEN adr_dest + 4 ELSE adr_dest
  BY <1>2 DEF MasterRequest, SendPack
<1>4. adr_dest \in Nat /\ adr_dest % 4 = 0 /\ (b8alg <=> adr_dest % 8 = 0)
  BY DEF SendInv
<1>5. packet'[1] = adr_dest + (IF bIncrementAddress THEN 0 ELSE adr_dest % 8)
  <2>1. adr_dest % 8 = 0 \/ adr_dest % 8 = 4
    BY <1>4
  <2>2. RequestAddress + (IF b8alg THEN 0 ELSE 4)
          = adr_dest + (IF bIncrementAddress THEN 0 ELSE adr_dest % 8)
    BY <1>4, <2>1 DEF RequestAddress
  <2> QED  BY <1>3, <2>2
<1>6. packet'[2] = PacketRegister(packets)
  BY <1>3
<1>7. adr_dest' = adr_dest + (IF bIncrementAddress THEN 4 ELSE 0)
  BY <1>3, <1>4
<1>8. CASE packets < LumaPackets
  <2>1. PacketRegister(packets) = Raster(0, packets)
    BY <1>1, <1>8, PacketCounts, RegisterIsRaster DEF PacketRegister
  <2>2. ~(packets >= LumaPackets)
    BY <1>1, <1>8, PacketCounts
  <2> QED  BY <1>4, <1>5, <1>6, <1>7, <1>8, <2>1, <2>2
<1>9. CASE packets >= LumaPackets /\ packets < LumaPackets + ChromaPackets
  <2>1. packets - LumaPackets \in Nat /\ ~(packets < LumaPackets)
    BY <1>1, <1>9, PacketCounts
  <2>2. PacketRegister(packets) = Raster(1, packets - LumaPackets)
    BY <1>1, <1>9, <2>1, PacketCounts, RegisterIsRaster DEF PacketRegister
  <2> QED  BY <1>4, <1>5, <1>6, <1>7, <1>9, <2>1, <2>2
<1>10. CASE packets >= LumaPackets + ChromaPackets
  <2>1. /\ packets - LumaPackets - ChromaPackets \in Nat
        /\ ~(packets < LumaPackets) /\ ~(packets < LumaPackets + ChromaPackets)
    BY <1>1, <1>10, PacketCounts
  <2>2. PacketRegister(packets) = Raster(2, packets - LumaPackets - ChromaPackets)
    BY <1>1, <1>10, <2>1, PacketCounts, RegisterIsRaster DEF PacketRegister
  <2> QED  BY <1>4, <1>5, <1>6, <1>7, <2>1, <2>2
<1> QED  BY <1>1, <1>8, <1>9, <1>10, PacketCounts

\* master_request: memory gets the pixels line by line and plane by plane, for every
\* size of picture; to consecutive words from every word on, or, if the address is not
\* incremented, all to one word, which is the one after that of REG_SRAM_ADDRESS if its
\* address is not a multiple of 8.
THEOREM CopyOfPicture == DbfImageSpec => CopyIsRaster
<1>1. DbfImageInit => SendInv
  <2> SUFFICES ASSUME DbfImageInit PROVE SendInv
    OBVIOUS
  <2>1. packets = Idle /\ adr_dest \in Nat /\ adr_dest % 4 = 0
    BY DEF DbfImageInit
  <2>2. b8alg \in BOOLEAN /\ bIncrementAddress \in BOOLEAN
    BY Zenon DEF DbfImageInit
  <2> QED  BY <2>1, <2>2 DEF SendInv
<1>2. SendInv /\ [DbfImageNext]_imageVars => SendInv'
  BY SendKept
<1>3. SendInv /\ [DbfImageNext]_imageVars => SendsRaster
  BY EachWordIsRaster
<1> QED  BY <1>1, <1>2, <1>3, PTL DEF DbfImageSpec, CopyIsRaster
-----------------------------------------------------------------------------
(* Induction on numbers, as sets of numbers: every set of them has a least *)
(* one.                                                                    *)

LEMMA LeastNumber ==
    ASSUME NEW T, T \subseteq Nat, T # {}
    PROVE  \E x \in T : \A y \in T : x <= y
<1>1. PICK R : R = {ss \in Nat \X Nat : ss[1] < ss[2]}
  OBVIOUS
<1>2. IsWellFoundedOn(R, Nat)
  BY <1>1, NatLessThanWellFounded DEF OpToRel
<1>3. PICK x \in T : \A y \in T : <<y, x>> \notin R
  BY <1>2, WFMin
<1>4. ASSUME NEW y \in T PROVE x <= y
  <2>1. x \in Nat /\ y \in Nat
    OBVIOUS
  <2>2. ~(y < x)
    BY <1>1, <1>3, <2>1
  <2> QED  BY <2>1, <2>2
<1> QED  BY <1>4

\* Induction, for a set of numbers.
LEMMA AllNumbers ==
    ASSUME NEW m \in Nat, NEW P, 0 \in P, \A n \in Nat : n < m /\ n \in P => n + 1 \in P
    PROVE  \A n \in 0 .. m : n \in P
<1> SUFFICES ASSUME NEW z \in 0 .. m, z \notin P PROVE FALSE
  OBVIOUS
<1>1. PICK T : T = {n \in 0 .. m : n \notin P}
  OBVIOUS
<1>2. T \subseteq Nat /\ T # {}
  BY <1>1
<1>3. PICK x \in T : \A y \in T : x <= y
  BY <1>2, LeastNumber
<1>4. x \in 0 .. m /\ x \notin P /\ x # 0
  BY <1>1, <1>3
<1>5. x - 1 \in 0 .. m /\ x - 1 \in Nat /\ x - 1 < m
  BY <1>4
<1>6. x - 1 \in P
  BY <1>1, <1>3, <1>5
<1>7. (x - 1) + 1 \in P
  BY <1>5, <1>6
<1> QED  BY <1>4, <1>7

-----------------------------------------------------------------------------
(* The slices.  Each is a range of macroblocks, and the ranges are apart;  *)
(* the passes over a macroblock are a set, whose elements always come in   *)
(* the same order; filter_slice adds to it, macroblock after macroblock.   *)

PicMbs == PicWidthInMbs * PicHeightInMbs
LastSlice == Max(SliceIds)

\* The registers of a slice hold its bounds: twelve bits each are enough.
Holds(r, lo, hi) == (r[2] % 16) * 256 + r[1] = lo /\ (r[3] * 16) + (r[2] \div 16) = hi - lo

LEMMA Decoding ==
    ASSUME NEW lo \in 0 .. 416, NEW hi \in 0 .. 416, lo <= hi
    PROVE  Holds(Encode(lo, hi), lo, hi)
<1>0. PICK r : r = Encode(lo, hi)
  OBVIOUS
<1>1. PICK l : l = hi - lo
  OBVIOUS
<1>2. l \in 0 .. 416
  BY <1>1
<1>3. r = <<lo % 256, (lo \div 256) + (16 * (l % 16)), l \div 16>>
  BY <1>0, <1>1 DEF Encode
<1>4. PICK h, m : h = lo \div 256 /\ m = l % 16
  OBVIOUS
<1>5. h \in 0 .. 15 /\ m \in 0 .. 15
  BY <1>2, <1>4
<1>6. (h + 16 * m) % 16 = h /\ (h + 16 * m) \div 16 = m
  BY <1>5
<1>7. r[1] = lo % 256 /\ r[2] = h + 16 * m /\ r[3] = l \div 16
  BY <1>3, <1>4
<1>8. h * 256 + (lo % 256) = lo /\ ((l \div 16) * 16) + m = l
  BY <1>2, <1>4
<1> QED  BY <1>0, <1>1, <1>6, <1>7, <1>8 DEF Holds

\* The bounds of the slices.
Cuts(c) ==
    /\ c \in [0 .. LastSlice + 1 -> 0 .. PicMbs]
    /\ \A t \in SliceIds : c[t] <= c[t + 1]

LEMMA CutsOfRegisters ==
    ASSUME sliceRegs \in Partitions
    PROVE  \E c : Cuts(c) /\ \A t \in SliceIds : Offset(t) = c[t] /\ SliceLength(t) = c[t + 1] - c[t]
<1>1. LastSlice \in Nat /\ SliceIds = 0 .. LastSlice /\ PicMbs \in Nat /\ PicMbs <= 416
  <2>1. PicMbs \in Nat
    BY DbfImageAssumption DEF PicMbs
  <2>2. PicMbs * 512 <= 212992
    BY DbfImageAssumption DEF PicMbs
  <2>3. PicMbs <= 416
    BY <2>1, <2>2
  <2> QED  BY <2>1, <2>3, DbfImageAssumption DEF LastSlice
<1>2. PICK c : /\ c \in [0 .. LastSlice + 1 -> 0 .. PicMbs]
               /\ \A t \in SliceIds : c[t] <= c[t + 1]
               /\ sliceRegs = [t \in SliceIds |-> Encode(c[t], c[t + 1])]
  BY DEF Partitions, LastSlice, PicMbs
<1>3. ASSUME NEW t \in SliceIds
      PROVE  Offset(t) = c[t] /\ SliceLength(t) = c[t + 1] - c[t]
  <2>1. c[t] \in 0 .. 416 /\ c[t + 1] \in 0 .. 416 /\ c[t] <= c[t + 1]
    <3>1. t \in 0 .. LastSlice + 1 /\ t + 1 \in 0 .. LastSlice + 1
      BY <1>1
    <3>2. c[t] \in 0 .. PicMbs /\ c[t + 1] \in 0 .. PicMbs
      BY <1>2, <3>1
    <3>3. PICK x, y : x = c[t] /\ y = c[t + 1]
      OBVIOUS
    <3>4. x <= y
      BY <1>2, <3>3
    <3>5. x \in 0 .. PicMbs /\ y \in 0 .. PicMbs
      BY <3>2, <3>3
    <3>6. PicMbs \in Nat /\ PicMbs <= 416
      BY <1>1
    <3>7. x \in 0 .. 416 /\ y \in 0 .. 416
      BY ONLY <3>5, <3>6
    <3> QED  BY ONLY <3>3, <3>4, <3>7
  <2>2. sliceRegs[t] = Encode(c[t], c[t + 1])
    BY <1>2
  <2>3. PICK lo, hi, r : lo = c[t] /\ hi = c[t + 1] /\ r = sliceRegs[t]
    OBVIOUS
  <2>4. (r[2] % 16) * 256 + r[1] = lo /\ (r[3] * 16) + (r[2] \div 16) = hi - lo
    <3>1. lo \in 0 .. 416 /\ hi \in 0 .. 416 /\ lo <= hi
      BY ONLY <2>1, <2>3
    <3>2. r = Encode(lo, hi)
      BY ONLY <2>2, <2>3
    <3>3. Holds(Encode(lo, hi), lo, hi)
      BY ONLY <3>1, Decoding
    <3> QED  BY ONLY <3>2, <3>3 DEF Holds
  <2> QED  BY ONLY <2>3, <2>4 DEF Offset, SliceLength
<1> QED  BY <1>2, <1>3 DEF Cuts

LEMMA CutsGrow ==
    ASSUME NEW c, Cuts(c), NEW i \in 0 .. LastSlice + 1, NEW j \in i .. LastSlice + 1
    PROVE  c[i] <= c[j]
<1>1. LastSlice \in Nat /\ SliceIds = 0 .. LastSlice
  BY DbfImageAssumption DEF LastSlice
<1>2. PICK P : P = {n \in Nat : i + n <= LastSlice + 1 => c[i] <= c[i + n]}
  OBVIOUS
<1>3. 0 \in P
  <2>1. c[i] \in 0 .. PicMbs
    BY DEF Cuts
  <2>2. i + 0 = i /\ PicMbs \in Nat
    BY DbfImageAssumption DEF PicMbs
  <2>3. c[i] <= c[i + 0]
    BY <2>1, <2>2
  <2> QED  BY <1>2, <2>3
<1>4. ASSUME NEW n \in Nat, n < LastSlice + 1, n \in P PROVE n + 1 \in P
  <2> SUFFICES ASSUME i + (n + 1) <= LastSlice + 1 PROVE c[i] <= c[i + (n + 1)]
    BY <1>2
  <2>1. c[i] <= c[i + n]
    BY <1>1, <1>2, <1>4
  <2>2. PICK k : k = i + n
    OBVIOUS
  <2>3. k \in SliceIds /\ k + 1 = i + (n + 1) /\ k \in 0 .. LastSlice + 1 /\ k + 1 \in 0 .. LastSlice + 1
    BY <1>1, <2>2
  <2>4. c[k] <= c[k + 1]
    BY <2>3 DEF Cuts
  <2>5. c[i] \in 0 .. PicMbs /\ c[k] \in 0 .. PicMbs /\ c[k + 1] \in 0 .. PicMbs /\ PicMbs \in Nat
    BY <2>3, DbfImageAssumption DEF Cuts, PicMbs
  <2> QED  BY <2>1, <2>2, <2>3, <2>4, <2>5
<1>5. \A n \in 0 .. LastSlice + 1 : n \in P
  BY <1>1, <1>3, <1>4, AllNumbers
<1>6. PICK n : n = j - i
  OBVIOUS
<1>7. n \in 0 .. LastSlice + 1 /\ i + n = j /\ n \in Nat /\ j <= LastSlice + 1
  BY <1>1, <1>6
<1> QED  BY <1>2, <1>5, <1>7

LEMMA SlicesDisjoint ==
    ASSUME sliceRegs \in Partitions, NEW t \in SliceIds
    PROVE  /\ Slice(t) \subseteq Mbs /\ Offset(t) \in Nat /\ SliceLength(t) \in Nat
           /\ \A u \in SliceIds : u # t => Slice(u) \cap Slice(t) = {}
<1>1. PICK c : Cuts(c) /\ \A u \in SliceIds : Offset(u) = c[u] /\ SliceLength(u) = c[u + 1] - c[u]
  BY CutsOfRegisters
<1>2. LastSlice \in Nat /\ SliceIds = 0 .. LastSlice /\ PicMbs \in Nat
  BY DbfImageAssumption DEF LastSlice, PicMbs
<1>3. ASSUME NEW u \in SliceIds
      PROVE  /\ c[u] \in 0 .. PicMbs /\ c[u + 1] \in 0 .. PicMbs /\ c[u] <= c[u + 1]
             /\ Slice(u) = c[u] .. c[u + 1] - 1
  <2>1. u \in 0 .. LastSlice + 1 /\ u + 1 \in 0 .. LastSlice + 1
    BY <1>2
  <2>2. c[u] \in 0 .. PicMbs /\ c[u + 1] \in 0 .. PicMbs /\ c[u] <= c[u + 1]
    BY <1>1, <2>1 DEF Cuts
  <2>3. Offset(u) + SliceLength(u) = c[u + 1]
    BY <1>1, <1>2, <2>2
  <2> QED  BY <1>1, <2>2, <2>3 DEF Slice
<1>4. ASSUME NEW u \in SliceIds, NEW v \in SliceIds, u < v
      PROVE  Slice(u) \cap Slice(v) = {}
  <2>1. u + 1 \in 0 .. LastSlice + 1 /\ v \in (u + 1) .. LastSlice + 1
    BY <1>2, <1>4
  <2>2. c[u + 1] <= c[v]
    BY ONLY <1>1, <2>1, CutsGrow
  <2>3. PICK l, m, n, o : l = c[u] /\ m = c[u + 1] /\ n = c[v] /\ o = c[v + 1]
    OBVIOUS
  <2>4. l \in Int /\ m \in Int /\ n \in Int /\ o \in Int /\ m <= n
    BY <1>2, <1>3, <2>2, <2>3
  <2>5. (l .. m - 1) \cap (n .. o - 1) = {}
    BY ONLY <2>4
  <2>6. Slice(u) = l .. m - 1 /\ Slice(v) = n .. o - 1
    BY <1>3, <2>3
  <2> QED  BY ONLY <2>5, <2>6
<1>5. Mbs = 0 .. PicMbs - 1
  BY DEF Mbs, PicMbs
<1>6. Slice(t) \subseteq Mbs /\ Offset(t) \in Nat /\ SliceLength(t) \in Nat
  <2>1. PICK x, y : x = c[t] /\ y = c[t + 1]
    OBVIOUS
  <2>2. x \in 0 .. PicMbs /\ y \in 0 .. PicMbs /\ x <= y /\ Slice(t) = x .. y - 1
    BY <1>3, <2>1
  <2>3. Offset(t) = x /\ SliceLength(t) = y - x
    BY <1>1, <2>1
  <2>4. x .. y - 1 \subseteq 0 .. PicMbs - 1 /\ x \in Nat /\ y - x \in Nat
    BY <1>2, <2>2
  <2> QED  BY <1>5, <2>2, <2>3, <2>4
<1>7. ASSUME NEW u \in SliceIds, u # t PROVE Slice(u) \cap Slice(t) = {}
  <2>1. u < t \/ t < u
    BY <1>2, <1>7
  <2>2. CASE u < t
    BY <1>4, <2>2
  <2>3. CASE t < u
    BY <1>4, <2>3
  <2> QED  BY <2>1, <2>2, <2>3
<1> QED  BY <1>6, <1>7
-----------------------------------------------------------------------------
\* A pass, and the passes among D that have touched macroblock b.
Passes == {"v", "h"} \X Int
Did(D, e) == IF e \in D THEN <<e>> ELSE <<>>
Four(w, x, y, z) == w \o x \o y \o z
History(D, b) == Four(Did(D, <<"v", b>>), Did(D, <<"h", b>>), Did(D, <<"v", b + 1>>),
                      Did(D, <<"h", b + PicWidthInMbs>>))

LEMMA DidTypes == ASSUME NEW D, NEW e \in Passes PROVE Did(D, e) \in Seq(Passes)
BY DEF Did

\* Four pieces, of which the last ones are empty.
LEMMA OnePiece == ASSUME NEW S, NEW w \in Seq(S) PROVE Four(w, <<>>, <<>>, <<>>) = w
<1>1. w \o <<>> = w
  BY ConcatEmptySeq
<1> QED  BY ONLY <1>1 DEF Four

LEMMA TwoPieces ==
    ASSUME NEW S, NEW w \in Seq(S), NEW x \in Seq(S)
    PROVE  Four(w, x, <<>>, <<>>) = w \o x
<1>1. PICK f : f = w \o x
  OBVIOUS
<1>2. f \in Seq(S)
  BY <1>1
<1>3. f \o <<>> = f
  BY <1>2, ConcatEmptySeq
<1> QED  BY ONLY <1>1, <1>3 DEF Four

LEMMA AppendFirst ==
    ASSUME NEW S, NEW e \in S
    PROVE  Append(Four(<<>>, <<>>, <<>>, <<>>), e) = Four(<<e>>, <<>>, <<>>, <<>>)
<1>1. PICK one, empty : one = <<e>> /\ empty = <<>>
  OBVIOUS
<1>2. one \in Seq(S) /\ empty \in Seq(S)
  BY <1>1
<1>3. Append(empty, e) = one
  BY <1>1
<1>4. Four(empty, <<>>, <<>>, <<>>) = empty
  BY <1>2, OnePiece
<1>5. Four(one, <<>>, <<>>, <<>>) = one
  BY <1>2, OnePiece
<1> QED  BY ONLY <1>1, <1>3, <1>4, <1>5

LEMMA AppendSecond ==
    ASSUME NEW S, NEW w \in Seq(S), NEW e \in S
    PROVE  Append(Four(w, <<>>, <<>>, <<>>), e) = Four(w, <<e>>, <<>>, <<>>)
<1>1. PICK one : one = <<e>>
  OBVIOUS
<1>2. one \in Seq(S)
  BY <1>1
<1>3. Append(w, e) = w \o one
  BY <1>1, <1>2, AppendIsConcat
<1>4. Four(w, <<>>, <<>>, <<>>) = w
  BY <1>1, OnePiece
<1>5. Four(w, one, <<>>, <<>>) = w \o one
  BY <1>1, <1>2, TwoPieces
<1> QED  BY ONLY <1>1, <1>3, <1>4, <1>5

LEMMA AppendThird ==
    ASSUME NEW S, NEW w \in Seq(S), NEW x \in Seq(S), NEW e \in S
    PROVE  Append(Four(w, x, <<>>, <<>>), e) = Four(w, x, <<e>>, <<>>)
<1>1. PICK f, one : f = w \o x /\ one = <<e>>
  OBVIOUS
<1>2. f \in Seq(S) /\ one \in Seq(S)
  BY <1>1
<1>3. Append(f, e) = f \o one
  BY <1>1, <1>2, AppendIsConcat
<1>4. Four(w, x, <<>>, <<>>) = f
  BY <1>1, TwoPieces
<1>5. Four(w, x, one, <<>>) = f \o one
  <2>1. PICK g : g = f \o one
    OBVIOUS
  <2>2. g \in Seq(S)
    BY <1>2, <2>1
  <2>3. g \o <<>> = g
    BY <2>2, ConcatEmptySeq
  <2> QED  BY ONLY <1>1, <2>1, <2>3 DEF Four
<1> QED  BY ONLY <1>1, <1>3, <1>4, <1>5

LEMMA AppendFourth ==
    ASSUME NEW S, NEW w \in Seq(S), NEW x \in Seq(S), NEW y \in Seq(S), NEW e \in S
    PROVE  Append(Four(w, x, y, <<>>), e) = Four(w, x, y, <<e>>)
<1>1. PICK f, g, one : f = w \o x /\ g = f \o y /\ one = <<e>>
  OBVIOUS
<1>2. f \in Seq(S) /\ one \in Seq(S)
  BY <1>1
<1>3. g \in Seq(S)
  BY <1>1, <1>2
<1>4. Append(g, e) = g \o <<e>>
  BY ONLY <1>3, AppendIsConcat, e \in S, Zenon
<1>5. Four(w, x, y, <<>>) = g
  <2>1. g \o <<>> = g
    BY <1>3, ConcatEmptySeq
  <2> QED  BY ONLY <1>1, <2>1 DEF Four
<1>6. Four(w, x, y, one) = g \o one
  BY <1>1 DEF Four
<1> QED  BY ONLY <1>1, <1>4, <1>5, <1>6

\* The passes of the macroblocks before m, in the order of filter_slice.
Before(D, m) == \A e \in D : e \in Passes /\ e[2] < m

LEMMA VerticalPass ==
    ASSUME NEW D, NEW m \in Int, NEW b \in Int, Before(D, m)
    PROVE  History(D \cup {<<"v", m>>}, b) =
             IF b \in {m - 1, m} THEN Append(History(D, b), <<"v", m>>) ELSE History(D, b)
<1> DEFINE W == PicWidthInMbs
<1>0. PICK e, E : e = <<"v", m>> /\ E = D \cup {e}
  OBVIOUS
<1>1. W \in Nat \ {0}
  BY DbfImageAssumption
<1>2. /\ <<"v", b>> \in Passes /\ <<"h", b>> \in Passes /\ <<"v", b + 1>> \in Passes
      /\ <<"h", b + W>> \in Passes /\ e \in Passes
  BY <1>0, <1>1 DEF Passes
<1>3. Did(E, <<"h", b>>) = Did(D, <<"h", b>>) /\ Did(E, <<"h", b + W>>) = Did(D, <<"h", b + W>>)
  BY <1>0 DEF Did
<1>4. Did(E, e) = <<e>>
  BY <1>0 DEF Did
<1>5. CASE b = m
  <2>1. /\ Did(D, <<"v", b>>) = <<>> /\ Did(D, <<"h", b>>) = <<>>
        /\ Did(D, <<"v", b + 1>>) = <<>> /\ Did(D, <<"h", b + W>>) = <<>>
    BY <1>1, <1>5 DEF Before, Did
  <2>2. Did(E, <<"v", b + 1>>) = <<>>
    BY <1>0, <1>5, <2>1 DEF Did
  <2>3. Did(E, <<"v", b>>) = <<e>>
    BY <1>0, <1>4, <1>5
  <2>4. History(D, b) = Four(<<>>, <<>>, <<>>, <<>>)
    BY <2>1 DEF History
  <2>5. History(E, b) = Four(<<e>>, <<>>, <<>>, <<>>)
    BY <1>3, <2>1, <2>2, <2>3 DEF History
  <2>6. History(E, b) = Append(History(D, b), e)
    BY ONLY <1>2, <2>4, <2>5, AppendFirst
  <2> QED  BY <1>0, <1>5, <2>6
<1>6. CASE b = m - 1
  <2>1. b + 1 = m /\ b # m /\ ~(b + W < m)
    BY <1>1, <1>6
  <2>2. /\ Did(D, <<"v", b + 1>>) = <<>> /\ Did(D, <<"h", b + W>>) = <<>>
    BY <1>1, <2>1 DEF Before, Did
  <2>3. Did(E, <<"v", b + 1>>) = <<e>> /\ Did(E, <<"v", b>>) = Did(D, <<"v", b>>)
    BY <1>0, <1>4, <2>1 DEF Did
  <2>4. PICK w, x : w = Did(D, <<"v", b>>) /\ x = Did(D, <<"h", b>>)
    OBVIOUS
  <2>5. w \in Seq(Passes) /\ x \in Seq(Passes)
    BY <1>2, <2>4, DidTypes
  <2>6. History(D, b) = Four(w, x, <<>>, <<>>)
    BY <2>2, <2>4 DEF History
  <2>7. History(E, b) = Four(w, x, <<e>>, <<>>)
    BY <1>3, <2>2, <2>3, <2>4 DEF History
  <2>8. History(E, b) = Append(History(D, b), e)
    BY ONLY <1>2, <2>5, <2>6, <2>7, AppendThird
  <2> QED  BY <1>0, <1>6, <2>8
<1>7. CASE b \notin {m - 1, m}
  <2>1. Did(E, <<"v", b>>) = Did(D, <<"v", b>>) /\ Did(E, <<"v", b + 1>>) = Did(D, <<"v", b + 1>>)
    BY <1>0, <1>7 DEF Did
  <2> QED  BY <1>0, <1>3, <1>7, <2>1 DEF History
<1> QED  BY <1>5, <1>6, <1>7

\* The horizontal edges of m come after its vertical ones.
BeforeH(D, m) == \A e \in D : e \in Passes /\ (e[2] < m \/ e = <<"v", m>>)

LEMMA HorizontalPass ==
    ASSUME NEW D, NEW m \in Int, NEW b \in Int, BeforeH(D, m)
    PROVE  History(D \cup {<<"h", m>>}, b) =
             IF b \in {m - PicWidthInMbs, m} THEN Append(History(D, b), <<"h", m>>) ELSE History(D, b)
<1> DEFINE W == PicWidthInMbs
<1>0. PICK e, E : e = <<"h", m>> /\ E = D \cup {e}
  OBVIOUS
<1>1. W \in Nat \ {0}
  BY DbfImageAssumption
<1>2. /\ <<"v", b>> \in Passes /\ <<"h", b>> \in Passes /\ <<"v", b + 1>> \in Passes
      /\ <<"h", b + W>> \in Passes /\ e \in Passes
  BY <1>0, <1>1 DEF Passes
<1>3. Did(E, <<"v", b>>) = Did(D, <<"v", b>>) /\ Did(E, <<"v", b + 1>>) = Did(D, <<"v", b + 1>>)
  BY <1>0 DEF Did
<1>4. Did(E, e) = <<e>>
  BY <1>0 DEF Did
<1>5. PICK w, x, y : w = Did(D, <<"v", b>>) /\ x = Did(D, <<"h", b>>) /\ y = Did(D, <<"v", b + 1>>)
  OBVIOUS
<1>6. w \in Seq(Passes) /\ x \in Seq(Passes) /\ y \in Seq(Passes)
  BY <1>2, <1>5, DidTypes
<1>7. CASE b = m
  <2>1. /\ Did(D, <<"h", b>>) = <<>>
        /\ Did(D, <<"v", b + 1>>) = <<>> /\ Did(D, <<"h", b + W>>) = <<>>
    BY <1>1, <1>7 DEF BeforeH, Did
  <2>2. Did(E, <<"h", b + W>>) = <<>>
    BY <1>0, <1>1, <1>7, <2>1 DEF Did
  <2>3. Did(E, <<"h", b>>) = <<e>>
    BY <1>0, <1>4, <1>7
  <2>4. History(D, b) = Four(w, <<>>, <<>>, <<>>)
    BY <1>5, <2>1 DEF History
  <2>5. History(E, b) = Four(w, <<e>>, <<>>, <<>>)
    BY <1>3, <1>5, <2>1, <2>2, <2>3 DEF History
  <2>6. History(E, b) = Append(History(D, b), e)
    BY ONLY <1>2, <1>6, <2>4, <2>5, AppendSecond
  <2> QED  BY <1>0, <1>7, <2>6
<1>8. CASE b = m - W
  <2>1. b + W = m /\ b # m
    BY <1>1, <1>8
  <2>2. Did(D, <<"h", b + W>>) = <<>>
    BY <1>1, <2>1 DEF BeforeH, Did
  <2>3. Did(E, <<"h", b + W>>) = <<e>> /\ Did(E, <<"h", b>>) = Did(D, <<"h", b>>)
    BY <1>0, <1>4, <2>1 DEF Did
  <2>4. History(D, b) = Four(w, x, y, <<>>)
    BY <1>5, <2>2 DEF History
  <2>5. History(E, b) = Four(w, x, y, <<e>>)
    BY <1>3, <1>5, <2>3 DEF History
  <2>6. History(E, b) = Append(History(D, b), e)
    BY ONLY <1>2, <1>6, <2>4, <2>5, AppendFourth
  <2> QED  BY <1>0, <1>8, <2>6
<1>9. CASE b \notin {m - W, m}
  <2>1. b + W # m
    BY <1>1, <1>9
  <2>2. Did(E, <<"h", b>>) = Did(D, <<"h", b>>) /\ Did(E, <<"h", b + W>>) = Did(D, <<"h", b + W>>)
    BY <1>0, <1>9, <2>1 DEF Did
  <2> QED  BY <1>0, <1>3, <1>9, <2>2 DEF History
<1> QED  BY <1>7, <1>8, <1>9
-----------------------------------------------------------------------------
(* The edges filter_slice skips are those of the picture and of the slice. *)

LEMMA RowsApart ==
    ASSUME NEW w \in Nat \ {0}, NEW x \in Nat, NEW y \in Nat, x < y
    PROVE  w * x + w <= w * y
<1>1. PICK d : d = y - x - 1
  OBVIOUS
<1>2. d \in Nat /\ y = (x + 1) + d
  BY <1>1
<1>3. w * y = (w * x + w) + w * d
  BY <1>2
<1>4. w * d \in Nat /\ w * x \in Nat
  BY <1>2
<1> QED  BY <1>3, <1>4

\* The vertical edges of a, in the slice that starts at o.
Left(a, o) == Column(a) # 0 /\ a # o

LEMMA PlaceOfMb ==
    ASSUME NEW b \in Nat
    PROVE  /\ Row(b) \in Nat /\ Column(b) \in 0 .. PicWidthInMbs - 1
           /\ b = PicWidthInMbs * Row(b) + Column(b) /\ PicWidthInMbs * Row(b) \in Nat
<1>1. PicWidthInMbs \in Nat \ {0}
  BY DbfImageAssumption
<1>2. /\ Row(b) \in Nat /\ Column(b) \in 0 .. PicWidthInMbs - 1
      /\ b = PicWidthInMbs * Row(b) + Column(b)
  BY <1>1, Quotient DEF Row, Column
<1> QED  BY <1>1, <1>2

LEMMA SkippedVertical ==
    ASSUME NEW t, NEW o \in Nat, Offset(t) = o, NEW b \in Nat
    PROVE  SkipVertical(t, b) <=> ~Left(b, o)
<1>1. Column(b) = Column(o) /\ Row(b) = Row(o) => b = o
  BY PlaceOfMb
<1> QED  BY <1>1 DEF SkipVertical, Left

LEMMA SkippedHorizontal ==
    ASSUME NEW t, NEW o \in Nat, Offset(t) = o, NEW b \in Nat
    PROVE  SkipHorizontal(t, b) <=> b - PicWidthInMbs < o
<1>1. PICK w : w = PicWidthInMbs
  OBVIOUS
<1>2. w \in Nat \ {0}
  BY <1>1, DbfImageAssumption
<1>3. PICK rb, cb, ro, co : rb = Row(b) /\ cb = Column(b) /\ ro = Row(o) /\ co = Column(o)
  OBVIOUS
<1>4. PICK eb, eo : eb = w * rb /\ eo = w * ro
  OBVIOUS
<1>5. /\ rb \in Nat /\ cb \in 0 .. w - 1 /\ b = eb + cb /\ eb \in Nat
      /\ ro \in Nat /\ co \in 0 .. w - 1 /\ o = eo + co /\ eo \in Nat
  BY <1>1, <1>3, <1>4, PlaceOfMb
<1>6. SkipHorizontal(t, b) <=> IF cb < co THEN rb <= ro + 1 ELSE rb <= ro
  BY <1>3 DEF SkipHorizontal
<1>7. rb < ro => eb + w <= eo
  BY <1>2, <1>4, <1>5, RowsApart
<1>8. ro < rb => eo + w <= eb
  BY <1>2, <1>4, <1>5, RowsApart
<1>9. ro + 1 < rb => (eo + w) + w <= eb
  <2>1. w * (ro + 1) = eo + w
    BY <1>2, <1>4, <1>5
  <2>2. ro + 1 \in Nat
    BY <1>5
  <2> QED  BY <1>2, <1>4, <1>5, <2>1, <2>2, RowsApart
<1>10. rb = ro => eb = eo
  BY <1>4
<1>11. rb = ro + 1 => eb = eo + w
  BY <1>2, <1>4, <1>5
<1>12. (IF cb < co THEN rb <= ro + 1 ELSE rb <= ro) <=> (eb + cb) - w < eo + co
  <2>1. CASE rb < ro
    BY ONLY <1>2, <1>5, <1>7, <2>1
  <2>2. CASE rb = ro
    BY ONLY <1>2, <1>5, <1>10, <2>2
  <2>3. CASE rb = ro + 1
    BY ONLY <1>2, <1>5, <1>11, <2>3
  <2>4. CASE ro + 1 < rb
    BY ONLY <1>2, <1>5, <1>9, <2>4
  <2> QED  BY ONLY <1>5, <2>1, <2>2, <2>3, <2>4
<1> QED  BY <1>1, <1>5, <1>6, <1>12
-----------------------------------------------------------------------------
(* filter_slice: the passes up to the macroblock before m.                 *)

PassesUpTo(o, m) ==
    {e \in Passes : /\ o <= e[2] /\ e[2] < m
                    /\ e[1] = "v" => Left(e[2], o)
                    /\ e[1] = "h" => e[2] - PicWidthInMbs >= o}

\* The picture after the passes D of the macroblocks of S.
Passed(pic, D, S) == [b \in Mbs |-> IF b \in S THEN History(D, b) ELSE pic[b]]

LEMMA PassesOfNext ==
    ASSUME NEW o \in Nat, NEW m \in Nat, o <= m
    PROVE  PassesUpTo(o, m + 1) =
             PassesUpTo(o, m) \cup (IF Left(m, o) THEN {<<"v", m>>} ELSE {})
                              \cup (IF m - PicWidthInMbs >= o THEN {<<"h", m>>} ELSE {})
<1>1. PicWidthInMbs \in Nat
  BY DbfImageAssumption
<1>2. ASSUME NEW e \in Passes
      PROVE  e \in PassesUpTo(o, m + 1) <=>
               \/ e \in PassesUpTo(o, m)
               \/ e = <<"v", m>> /\ Left(m, o)
               \/ e = <<"h", m>> /\ m - PicWidthInMbs >= o
  <2>1. PICK k \in {"v", "h"}, i \in Int : e = <<k, i>>
    BY <1>2 DEF Passes
  <2>2. e[1] = k /\ e[2] = i
    BY <2>1
  <2>3. \A n : e \in PassesUpTo(o, n) <=>
          o <= i /\ i < n /\ (k = "v" => Left(i, o)) /\ (k = "h" => i - PicWidthInMbs >= o)
    BY <1>2, <2>2 DEF PassesUpTo
  <2>4. e = <<"v", m>> <=> k = "v" /\ i = m
    BY <2>1, <2>2
  <2>5. e = <<"h", m>> <=> k = "h" /\ i = m
    BY <2>1, <2>2
  <2>6. i < m + 1 <=> i < m \/ i = m
    BY <2>1
  <2>7. CASE k = "v"
    BY <2>3, <2>4, <2>5, <2>6, <2>7
  <2>8. CASE k = "h"
    BY <2>3, <2>4, <2>5, <2>6, <2>8
  <2> QED  BY <2>1, <2>7, <2>8
<1>3. \A n : PassesUpTo(o, n) \subseteq Passes
  BY DEF PassesUpTo
<1>4. <<"v", m>> \in Passes /\ <<"h", m>> \in Passes
  BY DEF Passes
<1>5. PICK A, B, V, H : /\ A = PassesUpTo(o, m + 1) /\ B = PassesUpTo(o, m)
                        /\ V = (IF Left(m, o) THEN {<<"v", m>>} ELSE {})
                        /\ H = (IF m - PicWidthInMbs >= o THEN {<<"h", m>>} ELSE {})
  OBVIOUS
<1>6. \A e \in Passes : e \in A <=> e \in B \/ e \in V \/ e \in H
  BY ONLY <1>2, <1>5
<1>7. A \subseteq Passes /\ B \subseteq Passes /\ V \subseteq Passes /\ H \subseteq Passes
  BY ONLY <1>3, <1>4, <1>5
<1>8. A = B \cup V \cup H
  BY ONLY <1>6, <1>7
<1> QED  BY ONLY <1>5, <1>8

LEMMA NoPasses == ASSUME NEW o \in Nat PROVE PassesUpTo(o, o) = {}
<1>1. ASSUME NEW e \in PassesUpTo(o, o) PROVE FALSE
  <2>1. e \in Passes /\ o <= e[2] /\ e[2] < o
    BY DEF PassesUpTo
  <2>2. e[2] \in Int
    BY <2>1 DEF Passes
  <2> QED  BY <2>1, <2>2
<1> QED  BY <1>1

\* A pass over edges of macroblocks of S adds to what happened to them.
Adds(D, E, S, T, e) ==
    \A b \in S : History(E, b) = IF b \in T THEN Append(History(D, b), e) ELSE History(D, b)

LEMMA TouchPassed ==
    ASSUME NEW pic, NEW D, NEW E, NEW S, S \subseteq Mbs, NEW T, T \subseteq S, NEW e, Adds(D, E, S, T, e)
    PROVE  Touch(Passed(pic, D, S), T, e) = Passed(pic, E, S)
<1>1. PICK f : f = Passed(pic, D, S)
  OBVIOUS
<1>2. \A b \in Mbs : f[b] = IF b \in S THEN History(D, b) ELSE pic[b]
  BY <1>1 DEF Passed
<1>3. ASSUME NEW b \in Mbs
      PROVE  (IF b \in T THEN Append(f[b], e) ELSE f[b]) = IF b \in S THEN History(E, b) ELSE pic[b]
  BY <1>2 DEF Adds
<1>4. Touch(f, T, e) = Passed(pic, E, S)
  BY <1>3 DEF Touch, Passed
<1> QED  BY <1>1, <1>4

LEMMA FilterOne ==
    ASSUME NEW t, NEW o \in Nat, NEW hi \in Nat, Offset(t) = o, o .. hi - 1 \subseteq Mbs,
           NEW m \in Nat, o <= m, m < hi, NEW pic
    PROVE  FilterMb(Passed(pic, PassesUpTo(o, m), o .. hi - 1), t, m) =
             Passed(pic, PassesUpTo(o, m + 1), o .. hi - 1)
<1>1. PICK W, D, S, v, h : /\ W = PicWidthInMbs /\ D = PassesUpTo(o, m) /\ S = o .. hi - 1
                           /\ v = <<"v", m>> /\ h = <<"h", m>>
  OBVIOUS
<1>2. W \in Nat \ {0} /\ S \subseteq Int /\ S \subseteq Mbs
  BY <1>1, DbfImageAssumption
<1>3. Before(D, m)
  BY <1>1 DEF PassesUpTo, Before
<1>4. SkipVertical(t, m) <=> ~Left(m, o)
  BY SkippedVertical
<1>5. SkipHorizontal(t, m) <=> ~(m - W >= o)
  <2>1. SkipHorizontal(t, m) <=> m - W < o
    BY <1>1, SkippedHorizontal
  <2> QED  BY <1>2, <2>1
<1>6. PICK E : E = D \cup (IF Left(m, o) THEN {v} ELSE {})
  OBVIOUS
<1>7. PICK F : F = E \cup (IF m - W >= o THEN {h} ELSE {})
  OBVIOUS
<1>8. F = PassesUpTo(o, m + 1)
  BY ONLY <1>1, <1>6, <1>7, PassesOfNext, o \in Nat, m \in Nat, o <= m
<1>9. PICK half : half = IF SkipVertical(t, m) THEN Passed(pic, D, S)
                   ELSE Touch(Passed(pic, D, S), {m - 1, m}, v)
  OBVIOUS
<1>10. half = Passed(pic, E, S)
  <2>1. CASE Left(m, o)
    <3>1. {m - 1, m} \subseteq S
      BY <1>1, <2>1 DEF Left
    <3>2. PICK T : T = {m - 1, m}
      OBVIOUS
    <3>3. E = D \cup {v}
      BY ONLY <1>6, <2>1
    <3>4. Adds(D, E, S, T, v)
      <4>1. ASSUME NEW b \in S
            PROVE  History(E, b) = IF b \in T THEN Append(History(D, b), v) ELSE History(D, b)
        <5>1. b \in Int /\ m \in Int
          BY ONLY <1>2, <4>1, m \in Nat
        <5>2. History(D \cup {<<"v", m>>}, b) =
                IF b \in {m - 1, m} THEN Append(History(D, b), <<"v", m>>) ELSE History(D, b)
          BY ONLY <1>3, <5>1, VerticalPass
        <5> QED  BY ONLY <1>1, <3>2, <3>3, <5>2
      <4> QED  BY <4>1 DEF Adds
    <3>5. Touch(Passed(pic, D, S), T, v) = Passed(pic, E, S)
      <4>1. T \subseteq S /\ S \subseteq Mbs
        BY ONLY <1>2, <3>1, <3>2
      <4> QED  BY ONLY <3>4, <4>1, TouchPassed
    <3> QED  BY ONLY <1>4, <1>9, <2>1, <3>2, <3>5
  <2>2. CASE ~Left(m, o)
    BY ONLY <1>4, <1>6, <1>9, <2>2
  <2> QED  BY ONLY <2>1, <2>2
<1>11. BeforeH(E, m)
  BY <1>1, <1>3, <1>6 DEF Before, BeforeH, Passes
<1>12. PICK whole : whole = IF SkipHorizontal(t, m) THEN half ELSE Touch(half, {m - W, m}, h)
  OBVIOUS
<1>13. whole = Passed(pic, F, S)
  <2>1. CASE m - W >= o
    <3>1. {m - W, m} \subseteq S
      BY <1>1, <1>2, <2>1
    <3>2. PICK T : T = {m - W, m}
      OBVIOUS
    <3>3. F = E \cup {h}
      BY ONLY <1>7, <2>1
    <3>4. Adds(E, F, S, T, h)
      <4>1. ASSUME NEW b \in S
            PROVE  History(F, b) = IF b \in T THEN Append(History(E, b), h) ELSE History(E, b)
        <5>1. b \in Int /\ m \in Int
          BY ONLY <1>2, <4>1, m \in Nat
        <5>2. History(E \cup {<<"h", m>>}, b) =
                IF b \in {m - PicWidthInMbs, m} THEN Append(History(E, b), <<"h", m>>) ELSE History(E, b)
          BY ONLY <1>11, <5>1, HorizontalPass
        <5> QED  BY ONLY <1>1, <3>2, <3>3, <5>2
      <4> QED  BY <4>1 DEF Adds
    <3>5. Touch(Passed(pic, E, S), T, h) = Passed(pic, F, S)
      <4>1. T \subseteq S /\ S \subseteq Mbs
        BY ONLY <1>2, <3>1, <3>2
      <4> QED  BY ONLY <3>4, <4>1, TouchPassed
    <3> QED  BY ONLY <1>5, <1>10, <1>12, <2>1, <3>2, <3>5
  <2>2. CASE ~(m - W >= o)
    BY ONLY <1>5, <1>7, <1>10, <1>12, <2>2
  <2> QED  BY ONLY <2>1, <2>2
<1>14. FilterMb(Passed(pic, D, S), t, m) = whole
  BY <1>1, <1>9, <1>12 DEF FilterMb
<1> QED  BY ONLY <1>1, <1>8, <1>13, <1>14
-----------------------------------------------------------------------------
(* filter_slice: the macroblocks of the slice, one after the other.        *)

Walk(f, t) ==
    f = [n \in 0 .. SliceLength(t) |->
           IF n = 0 THEN picture ELSE FilterMb(f[n - 1], t, Offset(t) + n - 1)]

LEMMA TheWalk ==
    ASSUME NEW t, NEW f, Walk(f, t), FilterSlice(t)
    PROVE  \E g : Walk(g, t) /\ picture' = g[SliceLength(t)]
<1>1. PICK g : g = CHOOSE h : Walk(h, t)
  OBVIOUS
<1>2. Walk(g, t)
  BY <1>1
<1>3. picture' = g[SliceLength(t)]
  BY <1>1 DEF FilterSlice, Walk
<1> QED  BY <1>2, <1>3

LEMMA EndOfWalk ==
    ASSUME NEW t, NEW o \in Nat, NEW len \in Nat, Offset(t) = o, SliceLength(t) = len,
           o .. (o + len) - 1 \subseteq Mbs, FilterSlice(t),
           Passed(picture, PassesUpTo(o, o), o .. (o + len) - 1) = picture
    PROVE  picture' = Passed(picture, PassesUpTo(o, o + len), o .. (o + len) - 1)
<1> DEFINE Until(n) == Passed(picture, PassesUpTo(o, o + n), o .. (o + len) - 1)
<1>1. Until(0) = picture
  <2>1. o + 0 = o
    OBVIOUS
  <2> QED  BY <2>1
<1>2. ASSUME NEW n \in Nat, n < len PROVE FilterMb(Until(n), t, o + n) = Until(n + 1)
  <2>1. PICK m, hi, pic : m = o + n /\ hi = o + len /\ pic = picture
    OBVIOUS
  <2>2. m \in Nat /\ hi \in Nat /\ o <= m /\ m < hi /\ m + 1 = o + (n + 1)
    BY <1>2, <2>1
  <2>3. o .. hi - 1 \subseteq Mbs
    BY <2>1
  <2>4. FilterMb(Passed(pic, PassesUpTo(o, m), o .. hi - 1), t, m) =
          Passed(pic, PassesUpTo(o, m + 1), o .. hi - 1)
    BY ONLY <2>2, <2>3, FilterOne, o \in Nat, Offset(t) = o
  <2> QED  BY ONLY <2>1, <2>2, <2>4
<1> HIDE DEF Until
<1>3. PICK c : c = [n \in 0 .. len |-> Until(n)]
  OBVIOUS
<1>4. Walk(c, t)
  <2>1. ASSUME NEW n \in 0 .. len
        PROVE  Until(n) = IF n = 0 THEN picture ELSE FilterMb(c[n - 1], t, o + n - 1)
    <3>1. CASE n = 0
      BY <1>1, <3>1
    <3>2. CASE n # 0
      <4>1. PICK k : k = n - 1
        OBVIOUS
      <4>2. k \in Nat /\ k < len /\ k \in 0 .. len /\ k + 1 = n /\ o + n - 1 = o + k
        BY <2>1, <3>2, <4>1
      <4>3. FilterMb(Until(k), t, o + k) = Until(k + 1)
        BY <1>2, <4>2
      <4>4. c[k] = Until(k)
        BY <1>3, <4>2
      <4> QED  BY <3>2, <4>1, <4>2, <4>3, <4>4
    <3> QED  BY <3>1, <3>2
  <2> QED  BY <1>3, <2>1 DEF Walk
<1>5. PICK g : Walk(g, t) /\ picture' = g[len]
  BY <1>4, TheWalk
<1>6. ASSUME NEW n \in 0 .. len
      PROVE  g[n] = IF n = 0 THEN picture ELSE FilterMb(g[n - 1], t, o + n - 1)
  BY <1>5 DEF Walk
<1>7. PICK P : P = {n \in Nat : n <= len => g[n] = Until(n)}
  OBVIOUS
<1>8. 0 \in P
  <2>1. g[0] = picture
    BY <1>6
  <2> QED  BY <1>1, <1>7, <2>1
<1>9. ASSUME NEW n \in Nat, n < len, n \in P PROVE n + 1 \in P
  <2>1. n + 1 \in 0 .. len /\ n + 1 # 0 /\ (n + 1) - 1 = n /\ o + (n + 1) - 1 = o + n
    BY <1>9
  <2>2. g[n + 1] = FilterMb(g[n], t, o + n)
    BY <1>6, <2>1
  <2>3. g[n] = Until(n)
    BY <1>7, <1>9
  <2>4. g[n + 1] = Until(n + 1)
    BY <1>2, <1>9, <2>2, <2>3
  <2> QED  BY <1>7, <2>4
<1>10. \A n \in 0 .. len : n \in P
  BY <1>8, <1>9, AllNumbers
<1>11. g[len] = Until(len)
  BY <1>7, <1>10
<1> QED  BY <1>5, <1>11 DEF Until

\* All the passes of a slice leave it as Alone says.
LEMMA PassesOfSlice ==
    ASSUME NEW o \in Nat, NEW hi \in Nat, o .. hi - 1 \subseteq Mbs, NEW b \in o .. hi - 1
    PROVE  History(PassesUpTo(o, hi), b) = Alone(o .. hi - 1, b)
<1>1. PICK W, D, S : W = PicWidthInMbs /\ D = PassesUpTo(o, hi) /\ S = o .. hi - 1
  OBVIOUS
<1>2. W \in Nat \ {0} /\ b \in Nat
  BY <1>1, DbfImageAssumption
<1>3. ASSUME NEW a \in Nat
      PROVE  /\ Did(D, <<"v", a>>) = Opt(a \in S /\ a - 1 \in S /\ Column(a) # 0, <<"v", a>>)
             /\ Did(D, <<"h", a>>) = Opt(a \in S /\ a - W \in S, <<"h", a>>)
  <2>1. <<"v", a>> \in D <=> a \in S /\ a - 1 \in S /\ Column(a) # 0
    BY <1>1, <1>2 DEF PassesUpTo, Passes, Left
  <2>2. <<"h", a>> \in D <=> a \in S /\ a - W \in S
    BY <1>1, <1>2 DEF PassesUpTo, Passes
  <2> QED  BY <2>1, <2>2 DEF Did, Opt
<1>4. b + 1 \in Nat /\ b + W \in Nat /\ (b + W) - W = b
  BY <1>2
<1>5. PICK v, h, v1, hw :
        /\ v = Did(D, <<"v", b>>) /\ h = Did(D, <<"h", b>>)
        /\ v1 = Did(D, <<"v", b + 1>>) /\ hw = Did(D, <<"h", b + W>>)
  OBVIOUS
<1>6. /\ v = Opt(b \in S /\ b - 1 \in S /\ Column(b) # 0, <<"v", b>>)
      /\ h = Opt(b \in S /\ b - W \in S, <<"h", b>>)
      /\ v1 = Opt(b + 1 \in S /\ (b + 1) - 1 \in S /\ Column(b + 1) # 0, <<"v", b + 1>>)
      /\ hw = Opt(b + W \in S /\ (b + W) - W \in S, <<"h", b + W>>)
  BY <1>2, <1>3, <1>4, <1>5
<1>7. History(D, b) = Four(v, h, v1, hw)
  BY <1>1, <1>5 DEF History
<1>8. Alone(S, b) = v \o h \o v1 \o hw
  BY ONLY <1>1, <1>6 DEF Alone
<1> QED  BY <1>1, <1>7, <1>8 DEF Four
-----------------------------------------------------------------------------
(* Each slice is what it would be alone, whatever the others do.           *)

Apart ==
    \A t \in SliceIds : \A b \in Slice(t) :
        /\ stage[t] = "cleared" => picture[b] = <<>>
        /\ stage[t] = "filtered" => picture[b] = Alone(Slice(t), b)

ApartInv ==
    /\ sliceRegs \in Partitions
    /\ stage = [t \in SliceIds |-> stage[t]]
    /\ picture = [b \in Mbs |-> picture[b]]
    /\ IF packets = Idle THEN Apart ELSE \A t \in SliceIds : stage[t] = "filtered"

LEMMA FilterSliceKept ==
    ASSUME ApartInv, NEW t \in SliceIds, stage[t] = "cleared", packets = Idle, FilterSlice(t)
    PROVE  /\ picture' = [b \in Mbs |-> picture'[b]]
           /\ \A b \in Slice(t) : picture'[b] = Alone(Slice(t), b)
           /\ \A b \in Mbs : b \notin Slice(t) => picture'[b] = picture[b]
<1>1. PICK o, len, S : o = Offset(t) /\ len = SliceLength(t) /\ S = Slice(t)
  OBVIOUS
<1>2. o \in Nat /\ len \in Nat /\ S \subseteq Mbs /\ S = o .. (o + len) - 1
  BY <1>1, SlicesDisjoint DEF ApartInv, Slice
<1>3. \A b \in S : picture[b] = <<>>
  BY <1>1 DEF ApartInv, Apart
<1>4. Passed(picture, PassesUpTo(o, o), S) = picture
  <2>1. PassesUpTo(o, o) = {}
    BY <1>2, NoPasses
  <2>2. \A b \in S : History({}, b) = <<>>
    <3>1. Four(<<>>, <<>>, <<>>, <<>>) = <<>>
      BY OnePiece, <<>> \in Seq(Passes)
    <3> QED  BY <3>1 DEF History, Did
  <2>3. [b \in Mbs |-> IF b \in S THEN History({}, b) ELSE picture[b]] = [b \in Mbs |-> picture[b]]
    BY <1>3, <2>2
  <2> QED  BY <2>1, <2>3 DEF Passed, ApartInv
<1>5. picture' = Passed(picture, PassesUpTo(o, o + len), S)
  <2>1. Passed(picture, PassesUpTo(o, o), o .. (o + len) - 1) = picture
    BY ONLY <1>2, <1>4
  <2>2. o .. (o + len) - 1 \subseteq Mbs /\ o \in Nat /\ len \in Nat
    BY ONLY <1>2
  <2>3. picture' = Passed(picture, PassesUpTo(o, o + len), o .. (o + len) - 1)
    BY ONLY <1>1, <2>1, <2>2, EndOfWalk, FilterSlice(t)
  <2> QED  BY ONLY <1>2, <2>3
<1>6. PICK f, g, D : f = picture /\ g = picture' /\ D = PassesUpTo(o, o + len)
  OBVIOUS
<1>7. g = [b \in Mbs |-> IF b \in S THEN History(D, b) ELSE f[b]]
  BY <1>5, <1>6 DEF Passed
<1>8. ASSUME NEW b \in S PROVE g[b] = Alone(S, b)
  <2>1. o + len \in Nat
    BY <1>2
  <2>2. History(D, b) = Alone(S, b)
    BY <1>2, <1>6, <2>1, PassesOfSlice
  <2> QED  BY <1>2, <1>7, <2>2
<1>9. \A b \in Mbs : b \notin S => g[b] = f[b]
  BY <1>7
<1>10. g = [b \in Mbs |-> g[b]]
  BY <1>7
<1> QED  BY <1>1, <1>6, <1>8, <1>9, <1>10

LEMMA ApartStep == ApartInv /\ [DbfImageNext]_imageVars => ApartInv'
<1> SUFFICES ASSUME ApartInv, [DbfImageNext]_imageVars PROVE ApartInv'
  OBVIOUS
<1>1. ASSUME NEW t \in SliceIds, ClearSlice(t) PROVE ApartInv'
  <2>1. /\ UNCHANGED sliceRegs /\ packets = Idle /\ stage[t] = "set"
        /\ stage' = [stage EXCEPT ![t] = "cleared"]
        /\ picture' = [b \in Mbs |-> IF b \in Slice(t) THEN <<>> ELSE picture[b]]
    BY <1>1 DEF ClearSlice
  <2>2. \A u \in SliceIds : Slice(u)' = Slice(u)
    BY <2>1 DEF Slice, Offset, SliceLength
  <2>3. ASSUME NEW u \in SliceIds, NEW b \in Slice(u)
        PROVE  /\ stage'[u] = "cleared" => picture'[b] = <<>>
               /\ stage'[u] = "filtered" => picture'[b] = Alone(Slice(u), b)
    <3>1. b \in Mbs
      BY SlicesDisjoint DEF ApartInv
    <3>2. CASE u = t
      BY <2>1, <3>1, <3>2 DEF ApartInv
    <3>3. CASE u # t
      <4>1. b \notin Slice(t)
        BY <3>3, SlicesDisjoint DEF ApartInv
      <4>2. picture'[b] = picture[b] /\ stage'[u] = stage[u]
        BY <2>1, <3>1, <3>3, <4>1 DEF ApartInv
      <4> QED  BY <2>1, <4>2 DEF ApartInv, Apart
    <3> QED  BY <3>2, <3>3
  <2>4. Apart'
    BY <2>2, <2>3 DEF Apart
  <2>5. stage' = [u \in SliceIds |-> stage'[u]] /\ picture' = [b \in Mbs |-> picture'[b]]
    BY <2>1 DEF ApartInv
  <2>6. packets' = Idle /\ sliceRegs' \in Partitions
    BY <1>1, <2>1 DEF ApartInv, ClearSlice
  <2> QED  BY ONLY <2>4, <2>5, <2>6 DEF ApartInv
<1>2. ASSUME NEW t \in SliceIds, FilterSlice(t) PROVE ApartInv'
  <2>1. /\ UNCHANGED <<sliceRegs, packets>> /\ stage[t] = "cleared"
        /\ stage' = [stage EXCEPT ![t] = "filtered"]
    BY <1>2 DEF FilterSlice
  <2>2. \A u \in SliceIds : Slice(u)' = Slice(u)
    BY <2>1 DEF Slice, Offset, SliceLength
  <2>3. packets = Idle
    BY <2>1 DEF ApartInv
  <2>4. /\ picture' = [b \in Mbs |-> picture'[b]]
        /\ \A b \in Slice(t) : picture'[b] = Alone(Slice(t), b)
        /\ \A b \in Mbs : b \notin Slice(t) => picture'[b] = picture[b]
    BY <1>2, <2>1, <2>3, FilterSliceKept
  <2>5. ASSUME NEW u \in SliceIds, NEW b \in Slice(u)
        PROVE  /\ stage'[u] = "cleared" => picture'[b] = <<>>
               /\ stage'[u] = "filtered" => picture'[b] = Alone(Slice(u), b)
    <3>1. b \in Mbs
      BY SlicesDisjoint DEF ApartInv
    <3>2. CASE u = t
      <4>1. stage'[u] = "filtered"
        BY <2>1, <3>2 DEF ApartInv
      <4> QED  BY <2>4, <3>2, <4>1
    <3>3. CASE u # t
      <4>1. b \notin Slice(t)
        BY <3>3, SlicesDisjoint DEF ApartInv
      <4>2. picture'[b] = picture[b] /\ stage'[u] = stage[u]
        BY <2>1, <2>4, <3>1, <3>3, <4>1 DEF ApartInv
      <4> QED  BY <2>3, <4>2 DEF ApartInv, Apart
    <3> QED  BY <3>2, <3>3
  <2>6. Apart'
    BY <2>2, <2>5 DEF Apart
  <2>7. stage' = [u \in SliceIds |-> stage'[u]]
    BY <2>1 DEF ApartInv
  <2>8. sliceRegs' \in Partitions /\ packets' = Idle
    BY <2>1, <2>3 DEF ApartInv
  <2>9. picture' = [b \in Mbs |-> picture'[b]]
    BY <2>4
  <2> QED  BY ONLY <2>6, <2>7, <2>8, <2>9 DEF ApartInv
<1>3. ASSUME NEW d \in Destinations, NEW inc \in BOOLEAN, StartSend(d, inc) PROVE ApartInv'
  BY <1>3 DEF ApartInv, StartSend, Idle
<1>4. CASE MasterRequest
  <2>1. packets # Idle /\ packets' # Idle
    BY <1>4 DEF MasterRequest, Idle
  <2> QED  BY <1>4, <2>1 DEF ApartInv, MasterRequest
<1>5. ASSUME NEW regs \in Partitions, NextPicture(regs) PROVE ApartInv'
  <2>1. /\ packets' = Idle /\ sliceRegs' = regs /\ picture' = picture
        /\ stage' = [t \in SliceIds |-> "set"]
    BY <1>5 DEF NextPicture
  <2>2. \A t \in SliceIds : stage'[t] = "set"
    BY <2>1
  <2> QED  BY <2>1, <2>2 DEF ApartInv, Apart
<1>6. CASE UNCHANGED imageVars
  <2>1. /\ sliceRegs' = sliceRegs /\ stage' = stage /\ picture' = picture /\ packets' = packets
    BY <1>6 DEF imageVars
  <2>2. \A t \in SliceIds : Slice(t)' = Slice(t)
    BY <2>1 DEF Slice, Offset, SliceLength
  <2>3. Apart => Apart'
    BY <2>1, <2>2 DEF Apart
  <2> QED  BY <2>1, <2>3 DEF ApartInv
<1> QED  BY <1>1, <1>2, <1>3, <1>4, <1>5, <1>6 DEF DbfImageNext

\* For pictures of every size, cut anywhere into any number of slices, which are cleared
\* and filtered in any order in the one memory they share: filter_slice leaves each slice
\* as if it were filtered alone, and filters all its edges but those it has with others.
THEOREM SlicesOfPicture == DbfImageSpec => []SlicesAreApart
<1>1. DbfImageInit => ApartInv
  BY DEF DbfImageInit, ApartInv, Apart
<1>2. ApartInv => SlicesAreApart
  BY DEF ApartInv, Apart, SlicesAreApart
<1> QED  BY <1>1, <1>2, ApartStep, PTL DEF DbfImageSpec
-----------------------------------------------------------------------------
(* The ports.  A response is in its one place from HandleRequest to        *)
(* PutResponse, and no other request may be performed meanwhile.  Time     *)
(* passes in between only while the queue is full, until the dispatcher    *)
(* takes the next response from it, a nanosecond at most (OnePlace): a     *)
(* request that was taken since then still waits for two.                  *)

Lanes == SUBSET (0 .. 7)
\* What is in the place for the response.
Pending == IF evResponse \/ rspThread = "put" THEN <<m_response>> ELSE <<>>

\* The types of the ports.
PortTypes ==
    /\ asked \in Seq(Masks) /\ rspQueue \in Seq(Lanes)
    /\ m_request = <<>> \/ \E be \in Masks : m_request = <<be>>
    /\ dispatched = <<>> \/ \E r \in Lanes : dispatched = <<r>>
    /\ m_response \in Lanes /\ evResponse \in BOOLEAN /\ rspThread \in {"waiting", "put"}
    /\ reqWait \in Nat /\ dispWait \in 0 .. 1

\* Another request is not performed while the place is taken.
OnePlace ==
    /\ ~(evResponse /\ rspThread = "put")
    /\ Len(rspQueue) <= QueueSize
    /\ m_request # <<>> =>
         /\ evResponse => reqWait = 3
         /\ rspThread = "put" => \/ reqWait = 3
                                 \/ reqWait = 2 /\ (Len(rspQueue) < QueueSize \/ dispWait = 0)

\* The inductive invariant.
PortsInv == PortTypes /\ OnePlace /\ ResponsesInOrder

\* A request accesses one run of lanes, all of which handle_request finds.
LEMMA MasksAreLanes == Masks \subseteq Lanes /\ \A be \in Masks : Run(be) = be
<1> SUFFICES ASSUME NEW be \in Masks PROVE be \in Lanes /\ Run(be) = be
  OBVIOUS
<1>1. PICK i \in 0 .. 7, j \in 0 .. 7 : be = i .. j /\ be # {}
  BY DbfPortsAssumption
<1>2. i <= j /\ \A k \in be : i <= k
  BY <1>1
<1>3. First(be) \in be /\ \A k \in be : First(be) <= k
  BY <1>1, <1>2 DEF First
<1>4. First(be) = i
  BY <1>1, <1>2, <1>3
<1> QED  BY <1>1, <1>4 DEF Run, Lanes

Regroups(a, b, c) == (a \o b) \o c = a \o (b \o c)

LEMMA LanesRegroup ==
    ASSUME NEW a \in Seq(Lanes), NEW b \in Seq(Lanes), NEW c \in Seq(Lanes)
    PROVE  Regroups(a, b, c)
BY ConcatAssociative DEF Regroups

\* The first of five pieces, set apart.
SetsApart(one, a, b, c, d) == (((one \o a) \o b) \o c) \o d = one \o (((a \o b) \o c) \o d)

LEMMA FirstApart ==
    ASSUME NEW one \in Seq(Lanes), NEW a \in Seq(Lanes), NEW b \in Seq(Lanes),
           NEW c \in Seq(Lanes), NEW d \in Seq(Lanes)
    PROVE  SetsApart(one, a, b, c, d)
<1>1. PICK ab, abc : ab = a \o b /\ abc = ab \o c
  OBVIOUS
<1>2. ab \in Seq(Lanes)
  BY <1>1
<1>3. abc \in Seq(Lanes)
  BY <1>1, <1>2
<1>4. Regroups(one, a, b)
  BY ONLY LanesRegroup, one \in Seq(Lanes), a \in Seq(Lanes), b \in Seq(Lanes)
<1>5. Regroups(one, ab, c)
  BY ONLY <1>2, LanesRegroup, one \in Seq(Lanes), c \in Seq(Lanes)
<1>6. Regroups(one, abc, d)
  BY ONLY <1>3, LanesRegroup, one \in Seq(Lanes), d \in Seq(Lanes)
<1> QED  BY ONLY <1>1, <1>4, <1>5, <1>6 DEF Regroups, SetsApart

\* An element appended to two sequences.
LEMMA AppendToLast ==
    ASSUME NEW a \in Seq(Lanes), NEW b \in Seq(Lanes), NEW x \in Lanes
    PROVE  Append(a \o b, x) = a \o Append(b, x)
<1>1. PICK one, u, v : one = <<x>> /\ u = a \o b /\ v = b \o one
  OBVIOUS
<1>2. one \in Seq(Lanes) /\ u \in Seq(Lanes)
  BY <1>1
<1>3. Append(u, x) = u \o <<x>>
  BY ONLY <1>2, AppendIsConcat, x \in Lanes, Zenon
<1>4. Append(b, x) = b \o <<x>>
  BY ONLY AppendIsConcat, b \in Seq(Lanes), x \in Lanes, Zenon
<1>5. Regroups(a, b, one)
  BY ONLY <1>2, LanesRegroup, a \in Seq(Lanes), b \in Seq(Lanes)
<1> QED  BY ONLY <1>1, <1>3, <1>4, <1>5 DEF Regroups

\* A sequence is its head and its tail.
LEMMA HeadToFront ==
    ASSUME NEW S, NEW b \in Seq(S), b # <<>>
    PROVE  /\ Head(b) \in S /\ Tail(b) \in Seq(S)
           /\ b = <<Head(b)>> \o Tail(b)
<1>1. Head(b) \in S /\ Tail(b) \in Seq(S) /\ Len(Tail(b)) = Len(b) - 1 /\ Len(b) \in Nat \ {0}
  BY HeadTailProperties, EmptySeq
<1>2. b[1] = Head(b) /\ \A i \in 1 .. Len(Tail(b)) : Tail(b)[i] = b[i + 1]
  BY HeadTailProperties
<1>3. <<Head(b)>> \in Seq(S) /\ Len(<<Head(b)>>) = 1 /\ <<Head(b)>>[1] = Head(b)
  BY <1>1
<1> DEFINE c == <<Head(b)>> \o Tail(b)
<1>4. c \in Seq(S) /\ Len(c) = Len(b)
  BY <1>1, <1>3, ConcatProperties
<1>5. ASSUME NEW i \in 1 .. Len(b) PROVE b[i] = c[i]
  <2>1. c[i] = IF i <= 1 THEN <<Head(b)>>[i] ELSE Tail(b)[i - 1]
    BY <1>1, <1>3, ConcatProperties
  <2>2. CASE i = 1
    BY <1>2, <1>3, <2>1, <2>2
  <2>3. CASE i # 1
    <3>1. i - 1 \in 1 .. Len(Tail(b)) /\ ~(i <= 1) /\ (i - 1) + 1 = i
      BY <1>1, <2>3
    <3> QED  BY <1>2, <2>1, <3>1
  <2> QED  BY <2>2, <2>3
<1> HIDE DEF c
<1>6. b = c
  BY <1>4, <1>5, SeqEqual
<1> QED  BY <1>1, <1>6 DEF c

\* The tail is what follows the head.
LEMMA TailOfConcat ==
    ASSUME NEW S, NEW x \in S, NEW b \in Seq(S)
    PROVE  Tail(<<x>> \o b) = b
<1> DEFINE c == <<x>> \o b
<1>1. <<x>> \in Seq(S) /\ Len(<<x>>) = 1
  OBVIOUS
<1>2. c \in Seq(S) /\ Len(c) = Len(b) + 1 /\ Len(b) \in Nat
      /\ \A i \in 1 .. Len(b) + 1 : c[i] = IF i <= 1 THEN <<x>>[i] ELSE b[i - 1]
  BY <1>1, ConcatProperties
<1> HIDE DEF c
<1>3. c # <<>>
  BY <1>2, EmptySeq
<1>4. Tail(c) \in Seq(S) /\ Len(Tail(c)) = Len(b) /\ \A i \in 1 .. Len(b) : Tail(c)[i] = c[i + 1]
  BY <1>2, <1>3, HeadTailProperties
<1>5. ASSUME NEW i \in 1 .. Len(b) PROVE Tail(c)[i] = b[i]
  <2>1. i + 1 \in 1 .. Len(b) + 1 /\ ~(i + 1 <= 1) /\ (i + 1) - 1 = i
    BY <1>2
  <2> QED  BY <1>2, <1>4, <2>1
<1>6. Tail(c) = b
  BY <1>4, <1>5, SeqEqual
<1> QED  BY <1>6 DEF c

\* The invariant of the ports holds initially.
LEMMA InitPorts == PortsInit => PortsInv
<1> SUFFICES ASSUME PortsInit PROVE PortsInv
  OBVIOUS
<1>1. PortTypes /\ OnePlace
  <2>1. Len(<<>>) <= QueueSize
    BY DbfPortsAssumption
  <2>2. PortTypes
    <3>1. {} \in Lanes
      BY DEF Lanes
    <3>2. <<>> \in Seq(Masks) /\ <<>> \in Seq(Lanes)
      BY EmptySeq
    <3>3. asked \in Seq(Masks) /\ rspQueue \in Seq(Lanes) /\ m_response \in Lanes
      BY <3>1, <3>2, Zenon DEF PortsInit
    <3>4. /\ m_request = <<>> /\ dispatched = <<>> /\ rspThread \in {"waiting", "put"}
          /\ reqWait \in Nat /\ dispWait \in 0 .. 1
      BY DEF PortsInit
    <3>5. evResponse \in BOOLEAN
      BY Zenon DEF PortsInit
    <3> QED  BY ONLY <3>3, <3>4, <3>5 DEF PortTypes
  <2> QED  BY <2>1, <2>2 DEF PortsInit, OnePlace
<1>2. ResponsesInOrder
  BY DEF PortsInit, ResponsesInOrder
<1> QED  BY <1>1, <1>2 DEF PortsInv

\* Every step keeps the types of the ports,
LEMMA TypesOfPorts ==
    ASSUME PortTypes, PortsNext
    PROVE  PortTypes'
<1> USE DEF PortTypes
<1>1. ASSUME NEW be \in Masks, Ask(be) PROVE PortTypes'
  BY <1>1 DEF Ask
<1>2. CASE GetRequest
  BY <1>2, HeadToFront DEF GetRequest, RequestDelay
<1>3. CASE HandleRequest
  BY <1>3, MasksAreLanes DEF HandleRequest
<1>4. CASE NotifyResponse
  BY <1>4 DEF NotifyResponse
<1>5. CASE PutResponse
  BY <1>5 DEF PutResponse
<1>6. CASE ReadResponse
  BY <1>6, HeadToFront DEF ReadResponse, DispatchDelay
<1>7. CASE AddResponse
  BY <1>7 DEF AddResponse
<1>8. CASE Nanosecond
  BY <1>8 DEF Nanosecond
<1> QED  BY <1>1, <1>2, <1>3, <1>4, <1>5, <1>6, <1>7, <1>8 DEF PortsNext

\* the place free when a request is performed,
LEMMA PlaceIsFree ==
    ASSUME PortTypes, OnePlace, PortsNext
    PROVE  OnePlace'
<1> USE DEF PortTypes, OnePlace
<1>1. ASSUME NEW be \in Masks, Ask(be) PROVE OnePlace'
  BY <1>1 DEF Ask
<1>2. CASE GetRequest
  BY <1>2 DEF GetRequest, RequestDelay
<1>3. CASE HandleRequest
  BY <1>3 DEF HandleRequest
<1>4. CASE NotifyResponse
  BY <1>4 DEF NotifyResponse
<1>5. CASE PutResponse
  BY <1>5, DbfPortsAssumption DEF PutResponse
<1>6. CASE ReadResponse
  <2>1. Len(rspQueue') = Len(rspQueue) - 1 /\ Len(rspQueue) \in Nat
    BY <1>6, HeadTailProperties DEF ReadResponse
  <2>2. Len(rspQueue') < QueueSize /\ Len(rspQueue') <= QueueSize
    BY <2>1, DbfPortsAssumption
  <2> QED  BY <1>6, <2>2 DEF ReadResponse
<1>7. CASE AddResponse
  BY <1>7 DEF AddResponse
<1>8. CASE Nanosecond
  <2>1. ~evResponse /\ UNCHANGED <<m_request, evResponse, rspThread, rspQueue>>
    BY <1>8 DEF Nanosecond, Ready
  <2>2. ASSUME m_request # <<>>, rspThread = "put"
        PROVE  reqWait' = 2 /\ dispWait' = 0
    <3>1. Len(rspQueue) = QueueSize
      BY <1>8, <2>2, DbfPortsAssumption DEF Nanosecond, Ready
    <3>2. dispatched # <<>>
      BY <1>8, <3>1, DbfPortsAssumption, EmptySeq DEF Nanosecond, Ready
    <3>3. dispWait = 1
      BY <1>8, <3>2 DEF Nanosecond, Ready
    <3>4. reqWait = 3
      BY <2>2, <3>1, <3>3, DbfPortsAssumption
    <3> QED  BY <1>8, <3>3, <3>4 DEF Nanosecond
  <2> QED  BY <2>1, <2>2
<1> QED  BY <1>1, <1>2, <1>3, <1>4, <1>5, <1>6, <1>7, <1>8 DEF PortsNext

\* and the order of the responses.
LEMMA OrderKept ==
    ASSUME PortsInv, PortsNext
    PROVE  ResponsesInOrder'
<1> DEFINE order(d, r, m, w, a) == d \o r \o m \o w \o a
<1>0. /\ owedRsps = order(dispatched, rspQueue, Pending, m_request, asked)
      /\ ResponsesInOrder' <=> owedRsps' = order(dispatched', rspQueue', Pending', m_request', asked')
  BY DEF PortsInv, ResponsesInOrder, Pending
<1>01. /\ dispatched \in Seq(Lanes) /\ rspQueue \in Seq(Lanes) /\ Pending \in Seq(Lanes)
       /\ m_request \in Seq(Lanes) /\ asked \in Seq(Lanes)
  <2>1. asked \in Seq(Lanes)
    BY MasksAreLanes, SeqMonotonic DEF PortsInv, PortTypes
  <2>2. m_request \in Seq(Lanes)
    <3>1. m_request = <<>> \/ \E be \in Lanes : m_request = <<be>>
      BY MasksAreLanes DEF PortsInv, PortTypes
    <3>2. ASSUME NEW be \in Lanes PROVE <<be>> \in Seq(Lanes)
      OBVIOUS
    <3> QED  BY ONLY <3>1, <3>2, EmptySeq, Zenon
  <2>3. dispatched \in Seq(Lanes) /\ rspQueue \in Seq(Lanes)
    <3>1. dispatched = <<>> \/ \E r \in Lanes : dispatched = <<r>>
      BY DEF PortsInv, PortTypes
    <3>2. ASSUME NEW r \in Lanes PROVE <<r>> \in Seq(Lanes)
      OBVIOUS
    <3>3. dispatched \in Seq(Lanes)
      BY ONLY <3>1, <3>2, EmptySeq, Zenon
    <3> QED  BY <3>3 DEF PortsInv, PortTypes
  <2>4. Pending \in Seq(Lanes)
    BY DEF PortsInv, PortTypes, Pending
  <2> QED  BY <2>1, <2>2, <2>3, <2>4
<1> USE DEF PortsInv
<1>1. ASSUME NEW be \in Masks, Ask(be) PROVE ResponsesInOrder'
  <2>1. UNCHANGED <<dispatched, rspQueue, Pending, m_request>>
    BY <1>1 DEF Ask, Pending
  <2>2. asked' = Append(asked, be) /\ owedRsps' = Append(owedRsps, be) /\ be \in Lanes
    BY <1>1, MasksAreLanes DEF Ask
  <2> DEFINE s == dispatched \o rspQueue \o Pending \o m_request
  <2>3. s \in Seq(Lanes)
    BY <1>01, ConcatProperties
  <2>4. owedRsps = s \o asked
    BY <1>0
  <2> SUFFICES Append(owedRsps, be) = s \o Append(asked, be)
    BY <1>0, <2>1, <2>2
  <2> HIDE DEF s
  <2> QED  BY <1>01, <2>2, <2>3, <2>4, AppendToLast
<1>2. CASE GetRequest
  <2>1. UNCHANGED <<dispatched, rspQueue, Pending, owedRsps>>
    BY <1>2 DEF GetRequest, Pending
  <2>2. m_request = <<>> /\ asked # <<>> /\ m_request' = <<Head(asked)>> /\ asked' = Tail(asked)
    BY <1>2 DEF GetRequest
  <2> DEFINE s == dispatched \o rspQueue \o Pending
  <2>3. s \in Seq(Lanes)
    BY <1>01, ConcatProperties
  <2>4. asked = <<Head(asked)>> \o Tail(asked) /\ <<Head(asked)>> \in Seq(Lanes) /\ Tail(asked) \in Seq(Lanes)
    BY <1>01, <2>2, HeadToFront
  <2>5. owedRsps = s \o m_request \o asked
    BY <1>0
  <2> SUFFICES owedRsps = s \o <<Head(asked)>> \o Tail(asked)
    BY <1>0, <2>1, <2>2
  <2> HIDE DEF s
  <2>6. s \o m_request = s
    BY <2>2, <2>3, ConcatEmptySeq
  <2>7. s \o (<<Head(asked)>> \o Tail(asked)) = s \o <<Head(asked)>> \o Tail(asked)
    BY <2>3, <2>4, ConcatAssociative
  <2> QED  BY <2>4, <2>5, <2>6, <2>7
<1>3. CASE HandleRequest
  <2>1. ~evResponse /\ rspThread = "waiting"
    BY <1>3 DEF HandleRequest, PortTypes, OnePlace
  <2>2. PICK be \in Masks : m_request = <<be>>
    BY <1>3 DEF HandleRequest, PortTypes
  <2>3. m_response' = be
    BY <1>3, <2>2, MasksAreLanes DEF HandleRequest
  <2>4. /\ Pending = <<>> /\ Pending' = m_request /\ m_request' = <<>>
        /\ UNCHANGED <<dispatched, rspQueue, asked, owedRsps>>
    BY <1>3, <2>1, <2>2, <2>3 DEF HandleRequest, Pending
  <2> DEFINE s == dispatched \o rspQueue
  <2>5. s \in Seq(Lanes)
    BY <1>01, ConcatProperties
  <2>6. owedRsps = s \o Pending \o m_request \o asked
    BY <1>0
  <2> SUFFICES owedRsps = s \o m_request \o <<>> \o asked
    BY <1>0, <2>4
  <2> HIDE DEF s
  <2>7. s \o m_request \in Seq(Lanes)
    BY <1>01, <2>5, ConcatProperties
  <2> QED  BY <2>4, <2>5, <2>6, <2>7, ConcatEmptySeq
<1>4. CASE NotifyResponse
  <2>1. UNCHANGED <<dispatched, rspQueue, Pending, m_request, asked, owedRsps>>
    BY <1>4 DEF NotifyResponse, Pending
  <2> QED  BY <1>0, <2>1
<1>5. CASE PutResponse
  <2>1. /\ Pending = <<m_response>> /\ Pending' = <<>> /\ rspQueue' = Append(rspQueue, m_response)
        /\ UNCHANGED <<dispatched, m_request, asked, owedRsps>>
    BY <1>5 DEF PutResponse, PortTypes, OnePlace, Pending
  <2>2. m_response \in Lanes
    BY DEF PortTypes
  <2>3. dispatched \o rspQueue \in Seq(Lanes) /\ dispatched \o Append(rspQueue, m_response) \in Seq(Lanes)
    BY <1>01, <2>2, ConcatProperties
  <2>4. dispatched \o rspQueue \o Pending = Append(dispatched \o rspQueue, m_response)
    BY <2>1, <2>2, <2>3
  <2>5. Append(dispatched \o rspQueue, m_response) = dispatched \o Append(rspQueue, m_response) \o <<>>
    <3>1. Append(dispatched \o rspQueue, m_response) = dispatched \o Append(rspQueue, m_response)
      BY <1>01, <2>2, AppendToLast
    <3>2. dispatched \o Append(rspQueue, m_response) = dispatched \o Append(rspQueue, m_response) \o <<>>
      BY <2>3, ConcatEmptySeq
    <3> QED  BY <3>1, <3>2
  <2> QED  BY <1>0, <2>1, <2>4, <2>5
<1>6. CASE ReadResponse
  <2>1. /\ dispatched = <<>> /\ rspQueue # <<>> /\ dispatched' = <<Head(rspQueue)>>
        /\ rspQueue' = Tail(rspQueue)
        /\ UNCHANGED <<Pending, m_request, asked, owedRsps>>
    BY <1>6 DEF ReadResponse, Pending
  <2>2. dispatched \o rspQueue = <<Head(rspQueue)>> \o Tail(rspQueue)
    BY <1>01, <2>1, HeadToFront, ConcatEmptySeq
  <2> QED  BY <1>0, <2>1, <2>2
<1>7. CASE AddResponse
  <2>1. /\ dispatched # <<>> /\ dispatched' = <<>> /\ owedRsps' = Tail(owedRsps)
        /\ UNCHANGED <<rspQueue, Pending, m_request, asked>>
    BY <1>7 DEF AddResponse, Pending
  <2>2. PICK r \in Lanes : dispatched = <<r>>
    BY <2>1 DEF PortTypes
  <2>3. /\ rspQueue \o Pending \in Seq(Lanes) /\ rspQueue \o Pending \o m_request \in Seq(Lanes)
        /\ rspQueue \o Pending \o m_request \o asked \in Seq(Lanes)
    BY <1>01, ConcatProperties
  <2>4. owedRsps = <<r>> \o (rspQueue \o Pending \o m_request \o asked)
    <3>1. PICK one, a, b, c, d : /\ one = <<r>> /\ a = rspQueue /\ b = Pending
                                 /\ c = m_request /\ d = asked
      OBVIOUS
    <3>2. /\ one \in Seq(Lanes) /\ a \in Seq(Lanes) /\ b \in Seq(Lanes)
          /\ c \in Seq(Lanes) /\ d \in Seq(Lanes)
      BY <1>01, <2>2, <3>1
    <3>3. SetsApart(one, a, b, c, d)
      BY ONLY <3>2, FirstApart
    <3>4. owedRsps = (((one \o a) \o b) \o c) \o d
      BY <1>0, <2>2, <3>1
    <3> QED  BY ONLY <3>1, <3>3, <3>4 DEF SetsApart
  <2>5. owedRsps' = rspQueue \o Pending \o m_request \o asked
    BY <2>1, <2>3, <2>4, TailOfConcat
  <2>6. <<>> \o rspQueue = rspQueue
    BY <1>01, ConcatEmptySeq
  <2> QED  BY <1>0, <2>1, <2>5, <2>6
<1>8. CASE Nanosecond
  <2>1. UNCHANGED <<dispatched, rspQueue, Pending, m_request, asked, owedRsps>>
    BY <1>8 DEF Nanosecond, Pending
  <2> QED  BY <1>0, <2>1
<1> QED  BY <1>1, <1>2, <1>3, <1>4, <1>5, <1>6, <1>7, <1>8 DEF PortsNext

\* request() and response(): every request is answered once, in order, with its own
\* lanes, although there is one place for the response.
THEOREM ResponsesOfFilter == PortsSpec => []ResponsesInOrder
<1>1. PortsInit => PortsInv
  BY InitPorts
<1>2. PortsInv /\ [PortsNext]_portVars => PortsInv'
  <2> SUFFICES ASSUME PortsInv, [PortsNext]_portVars PROVE PortsInv'
    OBVIOUS
  <2>1. CASE PortsNext
    BY <2>1, TypesOfPorts, PlaceIsFree, OrderKept DEF PortsInv
  <2>2. CASE UNCHANGED portVars
    BY <2>2 DEF portVars, PortsInv, PortTypes, OnePlace, ResponsesInOrder
  <2> QED  BY <2>1, <2>2
<1>3. PortsInv => ResponsesInOrder
  BY DEF PortsInv
<1> QED  BY <1>1, <1>2, <1>3, PTL DEF PortsSpec
-----------------------------------------------------------------------------
(* The driver.  Process 1 is at work only while process 0 is registered    *)
(* (InTurn), so REG_INT_ENABLE has the bits of those who are (Registered); *)
(* a bit that is enabled later is not up, because its job has not begun.   *)
(* The end of a job is in one place at a time: the status, what the        *)
(* handler read and acknowledged, the descriptor (OneEnd); and it is there *)
(* only when the job is done, each slice being in one stage (Work).        *)

\* Where a process is while its bit is enabled and a job may be under way.
On == {"registered", "falling asleep", "asleep", "collecting", "clearing"}
Places == On \cup {"idle", "cleared", "enabling", "disabling", "removing", "freeing"}
\* process_slice is in filter_slice.
Filtering(s) == sliceTh[s] = "filtering"

\* The types of the device, and of the driver.
DeviceTypes ==
    /\ intStatus \subseteq Bits \cup {"gen"} /\ intEnable \subseteq Bits
    /\ irqStat \in BOOLEAN /\ irqUpdate \in BOOLEAN /\ irq \in BOOLEAN
    /\ emptied \subseteq Slices /\ sliceEv \subseteq Slices
    /\ sliceTh \in [Slices -> {"waiting", "filtering"}]
    /\ copyEv \in BOOLEAN /\ copyTh \in {"waiting", "copying"}

ProcessTypes ==
    /\ pc \in [Procs -> Places] /\ val \in [Procs -> SUBSET Bits]
    /\ owed \in [Procs -> BOOLEAN] /\ todo \subseteq Slices
    /\ isr \in {"idle", "read", "acked"} /\ isrStatus \subseteq Bits
    /\ type \in [Procs -> SUBSET Bits]
    /\ got \in [Procs -> SUBSET Bits] /\ pending \in [Procs -> SUBSET Bits]
    /\ \A w \in Procs : got[w] \subseteq Type(w) /\ pending[w] \subseteq Type(w)

\* What the interrupt is computed from, m_irq_stat, is never stale.
Output ==
    /\ irqStat <=> intStatus \cap intEnable # {}
    /\ ~irqUpdate => (irq <=> irqStat)
    /\ irqStat => "gen" \in intStatus

\* Who is registered.
InTurn ==
    /\ pc[1] # "idle" => pc[0] \in On
    /\ irqEn <=> pc[0] # "idle"
    /\ \/ pc[0] = "idle" /\ nbIrqEn = 0
       \/ pc[0] # "idle" /\ pc[1] = "idle" /\ nbIrqEn = 1
       \/ pc[1] # "idle" /\ nbIrqEn = 2

\* What each process has described and enabled.
Registered ==
    \A w \in Procs :
        /\ type[w] \subseteq Type(w)
        /\ pc[w] \in {"enabling", "disabling"} => val[w] = intEnable
        /\ pc[w] \in On => Type(w) \subseteq intEnable
        /\ owed[w] => pc[w] \in On
        /\ pc[w] \in On \ {"registered"} => owed[w]

\* The job of a process is not under way.
Done(w) == IF w = 0 THEN todo = {} /\ sliceEv = {} /\ \A s \in Slices : ~Filtering(s)
                    ELSE ~copyEv /\ copyTh = "waiting"

\* A slice is in one stage; work is done for those only who are owed it.
Work ==
    /\ \A s \in Slices :
         /\ s \in todo => s \notin sliceEv /\ ~Filtering(s) /\ s \notin emptied
         /\ s \in sliceEv => ~Filtering(s) /\ s \notin emptied
         /\ Filtering(s) => s \notin emptied
    /\ ~(copyEv /\ copyTh = "copying")
    /\ \A w \in Procs : ~owed[w] => Done(w)
    /\ owed[0] => nslicesIntr = Cardinality(Slices)

\* The end of a job is at one place.
OneEnd ==
    /\ isr = "idle" => isrStatus = {}
    /\ ~overflow
    /\ \A w \in Procs : \A b \in Type(w) :
         /\ b \in intStatus \cup isrStatus \cup pending[w] \cup got[w] => owed[w] /\ Done(w)
         /\ isr = "read" /\ b \in isrStatus => b \in intStatus
         /\ isr = "acked" /\ b \in isrStatus => b \notin intStatus
         /\ b \in pending[w] => b \notin intStatus \cup isrStatus
         /\ b \in got[w] => b \in pending[w]

\* The inductive invariant.
DriverInv == DeviceTypes /\ ProcessTypes /\ Output /\ InTurn /\ Registered /\ Work /\ OneEnd
-----------------------------------------------------------------------------
\* It holds initially.
LEMMA InitDriver == DriverInit => DriverInv
BY SlicesAssumption
DEF DriverInit, DbfInit, DriverInv, DeviceTypes, ProcessTypes, Output, InTurn, Registered, Work, OneEnd,
    Done, Filtering, Procs, Places, On, Type, Bits

\* REG_INT_ENABLE, when what it enables is not up yet.
LEMMA EnableWritten ==
    ASSUME DeviceTypes, Output, NEW data \in SUBSET Bits, WriteIntEnable(data),
           data \cap intStatus # {} => irqStat
    PROVE  DeviceTypes' /\ Output'
BY DEF DeviceTypes, Output, WriteIntEnable, work, Bits

\* REG_INT_ACK takes what it names away when it does anything.
LEMMA Acknowledged ==
    ASSUME DeviceTypes, Output, NEW data \in SUBSET Bits, WriteIntAck(data)
    PROVE  /\ DeviceTypes' /\ Output'
           /\ intStatus' \subseteq intStatus /\ intEnable' = intEnable
           /\ data \cap intStatus \cap intEnable # {} => \A b \in Bits : b \in intStatus' <=> b \in intStatus \ data
           /\ UNCHANGED <<irq, work>>
<1>1. CASE data \cap intStatus \cap intEnable = {}
  BY <1>1 DEF DeviceTypes, Output, WriteIntAck, work, Bits, dbfVars, intRegs
<1>2. CASE data \cap intStatus \cap intEnable # {}
  <2> DEFINE left == intStatus \ data
  <2> DEFINE kept == IF left = {"gen"} THEN {} ELSE left
  <2> DEFINE low == kept \cap intEnable = {}
  <2>1. /\ intStatus' = kept /\ irqStat' = (irqStat /\ ~low) /\ irqUpdate' = (irqUpdate \/ low)
        /\ UNCHANGED <<intEnable, irq, work>>
    BY <1>2 DEF WriteIntAck
  <2>2. "gen" \notin Bits /\ irqStat /\ "gen" \in left
    BY <1>2, SlicesAssumption DEF Output, DeviceTypes, Bits
  <2>3. kept \subseteq intStatus /\ \A b \in Bits : b \in kept <=> b \in intStatus \ data
    BY <2>2
  <2>4. ~low => "gen" \in kept
    BY <2>2
  <2> HIDE DEF kept
  <2>5. DeviceTypes'
    BY <2>1, <2>3 DEF DeviceTypes, work
  <2>6. Output'
    BY <2>1, <2>2, <2>3, <2>4 DEF Output, DeviceTypes
  <2> QED  BY <1>2, <2>1, <2>3, <2>5, <2>6
<1> QED  BY <1>1, <1>2

\* A thread of the device has finished.
LEMMA Raised ==
    ASSUME DeviceTypes, Output, NEW bits \in SUBSET Bits, Raise(bits)
    PROVE  /\ intStatus' \subseteq Bits \cup {"gen"} /\ intEnable' = intEnable /\ irq' = irq
           /\ irqStat' \in BOOLEAN /\ irqUpdate' \in BOOLEAN
           /\ Output'
           /\ \A b \in Bits : b \in intStatus' <=> b \in intStatus \cup bits
BY SlicesAssumption DEF DeviceTypes, Output, Raise, Bits

\* Every step keeps the interrupt right,
LEMMA OutputKept ==
    ASSUME DriverInv, ~Killed, DriverNext
    PROVE  DeviceTypes' /\ Output'
<1> USE DEF DriverInv
<1>1. ASSUME NEW w \in Procs, Register(w) PROVE DeviceTypes' /\ Output'
  <2>1. CASE irqEn
    BY <1>1, <2>1 DEF Register, dbfVars, intRegs, work, DeviceTypes, Output
  <2>2. CASE ~irqEn
    <3>1. WriteIntAck(Bits)
      BY <1>1, <2>2 DEF Register
    <3> QED  BY <3>1, Acknowledged
  <2> QED  BY <2>1, <2>2
<1>2. ASSUME NEW w \in Procs, Enable(w) PROVE DeviceTypes' /\ Output'
  <2>1. WriteIntEnable(val[w] \cup Type(w)) /\ val[w] = intEnable
    BY <1>2 DEF Enable, At, Registered
  <2>2. ~owed[w]
    BY <1>2 DEF Enable, At, Registered, On
  <2>3. Type(w) \cap intStatus = {}
    BY <2>2 DEF OneEnd
  <2>4. val[w] \cup Type(w) \in SUBSET Bits
    BY <2>1 DEF DeviceTypes, Type, Bits
  <2>5. (val[w] \cup Type(w)) \cap intStatus # {} => irqStat
    BY <2>1, <2>3 DEF Output
  <2> QED  BY <2>1, <2>4, <2>5, EnableWritten
<1>3. ASSUME NEW w \in Procs, Disable(w) PROVE DeviceTypes' /\ Output'
  <2>1. WriteIntEnable(val[w] \ type[w]) /\ val[w] = intEnable
    BY <1>3 DEF Disable, At, Registered
  <2>2. val[w] \ type[w] \in SUBSET Bits
    BY <2>1 DEF DeviceTypes
  <2>3. (val[w] \ type[w]) \cap intStatus # {} => irqStat
    BY <2>1 DEF Output
  <2> QED  BY <2>1, <2>2, <2>3, EnableWritten
<1>4. ASSUME NEW w \in Procs, Free(w) \/ Release(w) PROVE DeviceTypes' /\ Output'
  <2>1. WriteIntEnable({}) \/ UNCHANGED dbfVars
    BY <1>4 DEF Free, Release
  <2> QED  BY <2>1, EnableWritten DEF dbfVars, intRegs, work, DeviceTypes, Output
<1>5. ASSUME NEW w \in Procs, \/ Describe(w) \/ Unregister(w) \/ Remove(w)
                              \/ Wait(w) \/ Sleep(w) \/ Collect(w) \/ Return(w)
      PROVE  DeviceTypes' /\ Output'
  <2>1. UNCHANGED dbfVars
    BY <1>5 DEF Describe, Unregister, Remove, Wait, Sleep, Collect, Return
  <2> QED  BY <2>1 DEF dbfVars, intRegs, work, DeviceTypes, Output
<1>6. CASE StartFrame \/ StartCopy \/ \E s \in Slices : Fill(s)
  <2>1. UNCHANGED <<intRegs, irq, sliceTh, copyTh>>
    BY <1>6 DEF StartFrame, StartCopy, Fill, WriteNslices, SendSram, FillSlice
  <2>2. emptied' \subseteq Slices /\ sliceEv' \subseteq Slices /\ copyEv' \in BOOLEAN
    BY <1>6 DEF StartFrame, StartCopy, Fill, WriteNslices, SendSram, FillSlice, DeviceTypes
  <2> QED  BY <2>1, <2>2 DEF intRegs, DeviceTypes, Output
<1>7. CASE ReadStatus \/ Wake
  BY <1>7 DEF ReadStatus, Wake, dbfVars, intRegs, work, DeviceTypes, Output
<1>8. CASE Ack
  <2>1. WriteIntAck(isrStatus) /\ isrStatus \in SUBSET Bits
    BY <1>8 DEF Ack, ProcessTypes
  <2> QED  BY <2>1, Acknowledged
<1>9. ASSUME NEW s \in Slices, EndSlice(s) PROVE DeviceTypes' /\ Output'
  <2> DEFINE bits == {s} \cup (IF Cardinality(emptied') >= nslicesIntr THEN {"all"} ELSE {})
  <2>1. Raise(bits) /\ bits \in SUBSET Bits
    BY <1>9 DEF EndSlice, Bits
  <2>2. /\ sliceTh' = [sliceTh EXCEPT ![s] = "waiting"] /\ emptied' = emptied \cup {s}
        /\ UNCHANGED <<nslicesIntr, sliceEv, copyEv, copyTh>>
    BY <1>9 DEF EndSlice
  <2> HIDE DEF bits
  <2> QED  BY <2>1, <2>2, Raised DEF DeviceTypes
<1>10. CASE EndCopy
  <2>1. Raise({"sram"}) /\ {"sram"} \in SUBSET Bits
    BY <1>10 DEF EndCopy, Bits
  <2>2. copyTh' = "waiting" /\ UNCHANGED <<nslicesIntr, emptied, sliceEv, sliceTh, copyEv>>
    BY <1>10 DEF EndCopy
  <2> QED  BY <2>1, <2>2, Raised DEF DeviceTypes
<1>11. CASE TakeCopy \/ \E s \in Slices : TakeSlice(s)
  <2>1. UNCHANGED <<intRegs, irq, emptied>>
    BY <1>11 DEF TakeCopy, TakeSlice
  <2>2. sliceEv' \subseteq Slices /\ sliceTh' \in [Slices -> {"waiting", "filtering"}]
    BY <1>11 DEF TakeCopy, TakeSlice, DeviceTypes
  <2>3. copyEv' \in BOOLEAN /\ copyTh' \in {"waiting", "copying"}
    BY <1>11 DEF TakeCopy, TakeSlice, DeviceTypes
  <2> QED  BY <2>1, <2>2, <2>3 DEF intRegs, DeviceTypes, Output
<1>12. CASE IrqUpdate
  BY <1>12 DEF IrqUpdate, work, DeviceTypes, Output
<1> QED  BY <1>1, <1>2, <1>3, <1>4, <1>5, <1>6, <1>7, <1>8, <1>9, <1>10, <1>11,
            <1>12
   DEF DriverNext, Process, Device, Threads

\* the types,
LEMMA TypesKept ==
    ASSUME DriverInv, ~Killed, DriverNext
    PROVE  ProcessTypes'
<1> USE DEF DriverInv
<1>1. ASSUME NEW w \in Procs, Process(w) PROVE ProcessTypes'
  <2> USE DEF ProcessTypes, At, Goto, Places, On, driver
  <2>0. \A v \in Procs : Type(v) \in SUBSET Bits
    BY DEF Type, Bits
  <2>1. CASE Register(w)
    BY <1>1, <2>1 DEF Register
  <2>2. CASE Describe(w)
    BY <2>0, <2>2 DEF Describe, DeviceTypes
  <2>3. CASE Enable(w)
    BY <2>3 DEF Enable
  <2>4. CASE Unregister(w)
    BY <2>4 DEF Unregister, DeviceTypes
  <2>5. CASE Disable(w)
    BY <2>5 DEF Disable
  <2>6. CASE Remove(w)
    BY <2>6 DEF Remove
  <2>7. CASE Free(w)
    BY <2>7 DEF Free
  <2>8. CASE Release(w)
    BY <2>8 DEF Release
  <2>9. CASE Wait(w)
    BY <2>9 DEF Wait
  <2>10. CASE Sleep(w)
    BY <2>10 DEF Sleep
  <2>11. CASE Collect(w)
    BY <2>11 DEF Collect
  <2>12. CASE Return(w)
    BY <2>12 DEF Return
  <2>13. CASE StartFrame
    BY <2>13 DEF StartFrame
  <2>14. CASE StartCopy
    BY <2>14 DEF StartCopy
  <2>15. ASSUME NEW s \in Slices, Fill(s) PROVE ProcessTypes'
    BY <2>15 DEF Fill
  <2> QED  BY <1>1, <2>1, <2>2, <2>3, <2>4, <2>5, <2>6, <2>7, <2>8, <2>9, <2>10, <2>11, <2>12,
              <2>13, <2>14, <2>15 DEF Process
<1>2. CASE ReadStatus
  BY <1>2 DEF ReadStatus, ProcessTypes, DeviceTypes, procs, driver
<1>3. CASE Ack
  BY <1>3 DEF Ack, ProcessTypes, procs, driver
<1>4. CASE Wake
  BY <1>4 DEF Wake, ProcessTypes, Registered, Places, On
<1>5. CASE Device
  BY <1>5 DEF Device, ProcessTypes, procs, driver
<1> QED  BY <1>1, <1>2, <1>3, <1>4, <1>5 DEF DriverNext

\* the order of the processes,
LEMMA TurnsKept ==
    ASSUME DriverInv, ~Killed, DriverNext
    PROVE  InTurn'
<1> USE DEF DriverInv
<1>0. /\ "idle" \notin On /\ "registered" \in On /\ "falling asleep" \in On /\ "asleep" \in On
      /\ "collecting" \in On /\ "clearing" \in On
      /\ "cleared" \notin On /\ "enabling" \notin On /\ "disabling" \notin On
      /\ "removing" \notin On /\ "freeing" \notin On
  BY DEF On
<1>1. ASSUME NEW w \in Procs, Register(w) PROVE InTurn'
  <2>1. pc[w] = "idle" /\ pc' = [pc EXCEPT ![w] = "cleared"] /\ nbIrqEn' = nbIrqEn + 1
    BY <1>1 DEF Register, At, Goto
  <2>2. w = 1 => pc[0] \in On
    BY <1>1, <1>0 DEF Register
  <2>3. irqEn'
    BY <1>1 DEF Register
  <2>4. CASE w = 0
    <3>1. pc[1] = "idle" /\ nbIrqEn = 0
      BY <1>0, <2>1, <2>4 DEF InTurn
    <3>2. pc'[0] = "cleared" /\ pc'[1] = "idle"
      BY <2>1, <2>4, <3>1 DEF ProcessTypes, Procs
    <3>3. nbIrqEn' = 1
      BY <2>1, <3>1
    <3> QED  BY <2>3, <3>2, <3>3 DEF InTurn
  <2>5. CASE w = 1
    <3>1. pc[0] \in On /\ pc[0] # "idle" /\ nbIrqEn = 1
      BY <1>0, <2>1, <2>2, <2>5 DEF InTurn
    <3>2. pc'[0] = pc[0] /\ pc'[1] = "cleared"
      BY <2>1, <2>5 DEF ProcessTypes, Procs
    <3>3. nbIrqEn' = 2
      BY <2>1, <3>1
    <3> QED  BY <2>3, <3>1, <3>2, <3>3 DEF InTurn
  <2> QED  BY <2>4, <2>5 DEF Procs
<1>2. ASSUME NEW w \in Procs, Free(w) PROVE InTurn'
  <2>1. pc[w] = "freeing" /\ pc' = [pc EXCEPT ![w] = "idle"] /\ nbIrqEn' = nbIrqEn - 1
    BY <1>2 DEF Free, At, Goto
  <2>2. CASE w = 0
    <3>1. pc[1] = "idle" /\ nbIrqEn = 1
      BY <1>0, <2>1, <2>2 DEF InTurn
    <3>2. nbIrqEn' = 0
      BY <2>1, <3>1
    <3>3. ~irqEn'
      BY <1>2, <3>2 DEF Free
    <3> QED  BY <2>1, <2>2, <3>1, <3>2, <3>3 DEF InTurn, ProcessTypes, Procs
  <2>3. CASE w = 1
    <3>1. pc[0] \in On /\ nbIrqEn = 2
      BY <1>0, <2>1, <2>3 DEF InTurn
    <3>2. nbIrqEn' = 1
      BY <2>1, <3>1
    <3>3. irqEn' = irqEn
      BY <1>2, <3>2 DEF Free
    <3> QED  BY <1>0, <2>1, <2>3, <3>1, <3>2, <3>3 DEF InTurn, ProcessTypes, Procs
  <2> QED  BY <2>2, <2>3 DEF Procs
<1>3. ASSUME NEW w \in Procs, Release(w) PROVE InTurn'
  <2>1. pc[w] = "registered" /\ pc' = [pc EXCEPT ![w] = "idle"] /\ \A v \in Procs \ {w} : pc[v] = "idle"
    BY <1>3 DEF Release, At, Goto
  <2>2. w = 0
    BY <1>0, <2>1 DEF InTurn, Procs
  <2>3. nbIrqEn = 1
    BY <1>0, <2>1, <2>2 DEF InTurn, Procs
  <2>4. ~irqEn' /\ nbIrqEn' = 0
    BY <1>3, <2>3 DEF Release
  <2> QED  BY <2>1, <2>2, <2>4 DEF InTurn, ProcessTypes, Procs
<1>4. ASSUME NEW w \in Procs, \/ Describe(w) \/ Enable(w) \/ Disable(w) \/ Remove(w)
                              \/ Sleep(w) \/ Collect(w) \/ Return(w) \/ Unregister(w) \/ Wait(w)
      PROVE  InTurn'
  <2>1. UNCHANGED <<irqEn, nbIrqEn>>
    BY <1>4 DEF Describe, Enable, Disable, Remove, Sleep, Collect, Return, Unregister, Wait, driver
  <2>2. PICK l : /\ pc' = [pc EXCEPT ![w] = l] /\ l # "idle" /\ pc[w] # "idle"
                 /\ w = 0 /\ pc[1] # "idle" => l \in On
    <3>1. CASE Describe(w) \/ Enable(w) \/ Disable(w) \/ Remove(w) \/ Sleep(w) \/ Collect(w) \/ Return(w)
      <4>1. w = 0 /\ pc[1] # "idle" => pc[w] \in On
        BY DEF InTurn
      <4> QED  BY <1>0, <3>1, <4>1 DEF Describe, Enable, Disable, Remove, Sleep, Collect, Return, At, Goto
    <3>2. CASE Unregister(w)
      BY <3>2 DEF Unregister, At, Goto
    <3>3. CASE Wait(w)
      BY <1>0, <3>3 DEF Wait, At, Goto
    <3> QED  BY <1>4, <3>1, <3>2, <3>3
  <2> QED  BY <2>1, <2>2 DEF InTurn, ProcessTypes, Procs
<1>5. CASE StartFrame \/ StartCopy \/ \E s \in Slices : Fill(s)
  BY <1>5 DEF StartFrame, StartCopy, Fill, driver, InTurn
<1>6. CASE ReadStatus \/ Ack \/ Device
  BY <1>6 DEF ReadStatus, Ack, Device, procs, driver, InTurn
<1>7. CASE Wake
  <2>1. /\ \A w \in Procs : pc'[w] = pc[w] \/ (pc[w] = "asleep" /\ pc'[w] = "collecting")
        /\ UNCHANGED <<irqEn, nbIrqEn>>
    BY <1>7 DEF Wake
  <2> QED  BY <1>0, <2>1 DEF InTurn, Procs
<1> QED  BY <1>1, <1>2, <1>3, <1>4, <1>5, <1>6, <1>7 DEF DriverNext, Process

\* what they enabled,
LEMMA RegisteredKept ==
    ASSUME DriverInv, ~Killed, DriverNext
    PROVE  Registered'
<1> USE DEF DriverInv
<1>1. ASSUME NEW w \in Procs, Process(w) PROVE Registered'
  <2> USE DEF ProcessTypes, At, Goto, On, driver, Registered, Procs
  <2>1. CASE Register(w)
    <3>1. intEnable' = intEnable
      BY <2>1, Acknowledged DEF Register, dbfVars, intRegs
    <3> QED  BY <2>1, <3>1 DEF Register
  <2>2. CASE Describe(w)
    BY <2>2 DEF Describe, dbfVars, intRegs
  <2>3. CASE Enable(w)
    <3>1. w = 0 => pc[1] = "idle"
      BY <2>3 DEF Enable, InTurn
    <3>2. w = 1 => pc[0] \in On
      BY <2>3 DEF Enable, InTurn
    <3> QED  BY <2>3, <3>1, <3>2 DEF Enable, WriteIntEnable
  <2>4. CASE Unregister(w)
    BY <2>4 DEF Unregister, dbfVars, intRegs
  <2>5. CASE Disable(w)
    <3>1. w = 0 => pc[1] = "idle"
      BY <2>5 DEF Disable, InTurn
    <3>2. w = 1 => pc[0] \in On
      BY <2>5 DEF Disable, InTurn
    <3> QED  BY <2>5, <3>1, <3>2 DEF Disable, WriteIntEnable, Type
  <2>6. CASE Remove(w)
    BY <2>6 DEF Remove, dbfVars, intRegs
  <2>7. CASE Free(w)
    <3>1. pc[w] = "freeing" /\ pc' = [pc EXCEPT ![w] = "idle"] /\ UNCHANGED <<val, owed, type>>
      BY <2>7 DEF Free
    <3>2. w = 0 => pc[1] = "idle"
      BY <3>1 DEF InTurn
    <3>3. w = 1 => intEnable' = intEnable
      <4>1. w = 1 => nbIrqEn = 2
        BY <3>1 DEF InTurn
      <4>2. nbIrqEn' = nbIrqEn - 1
        BY <2>7 DEF Free
      <4>3. w = 1 => nbIrqEn' # 0
        BY ONLY <4>1, <4>2
      <4> QED  BY <2>7, <4>3 DEF Free, dbfVars, intRegs
    <3> QED  BY <3>1, <3>2, <3>3
  <2>8. CASE Release(w)
    <3>1. pc' = [pc EXCEPT ![w] = "idle"] /\ owed' = [owed EXCEPT ![w] = FALSE]
          /\ val' = val /\ \A v \in Procs \ {w} : pc[v] = "idle"
      BY <2>8 DEF Release
    <3>2. \A v \in Procs : type'[v] \subseteq Type(v)
      BY <2>8 DEF Release
    <3> QED  BY <3>1, <3>2
  <2>9. CASE Wait(w)
    BY <2>9 DEF Wait, dbfVars, intRegs
  <2>10. CASE Sleep(w)
    BY <2>10 DEF Sleep, dbfVars, intRegs
  <2>11. CASE Collect(w)
    BY <2>11 DEF Collect, dbfVars, intRegs
  <2>12. CASE Return(w)
    BY <2>12 DEF Return, dbfVars, intRegs
  <2>13. CASE StartFrame
    <3>1. pc[0] = "registered" /\ owed' = [owed EXCEPT ![0] = TRUE]
          /\ UNCHANGED <<pc, val, type, intEnable>>
      BY <2>13 DEF StartFrame, WriteNslices, intRegs
    <3>2. \A v \in Procs : v # 0 => owed'[v] = owed[v]
      BY <3>1
    <3>3. owed'[0]
      BY <3>1
    <3>4. \A v \in Procs : (owed'[v] => pc[v] \in On) /\ (pc[v] \in On \ {"registered"} => owed'[v])
      <4>1. ASSUME NEW v \in Procs, v = 0 PROVE owed'[v] /\ pc[v] \in On
        BY ONLY <3>1, <3>3, <4>1 DEF On
      <4>2. ASSUME NEW v \in Procs, v # 0
            PROVE  (owed'[v] => pc[v] \in On) /\ (pc[v] \in On \ {"registered"} => owed'[v])
        BY ONLY <3>2, <4>2, Registered DEF Registered
      <4> QED  BY ONLY <4>1, <4>2
    <3> QED  BY ONLY <3>1, <3>4, Registered DEF Registered
  <2>14. CASE StartCopy
    <3>1. pc[1] = "registered" /\ owed' = [owed EXCEPT ![1] = TRUE]
          /\ UNCHANGED <<pc, val, type, intEnable>>
      BY <2>14 DEF StartCopy, SendSram, intRegs
    <3>2. \A v \in Procs : v # 1 => owed'[v] = owed[v]
      BY <3>1
    <3>3. owed'[1]
      BY <3>1
    <3>4. \A v \in Procs : (owed'[v] => pc[v] \in On) /\ (pc[v] \in On \ {"registered"} => owed'[v])
      <4>1. ASSUME NEW v \in Procs, v = 1 PROVE owed'[v] /\ pc[v] \in On
        BY ONLY <3>1, <3>3, <4>1 DEF On
      <4>2. ASSUME NEW v \in Procs, v # 1
            PROVE  (owed'[v] => pc[v] \in On) /\ (pc[v] \in On \ {"registered"} => owed'[v])
        BY ONLY <3>2, <4>2, Registered DEF Registered
      <4> QED  BY ONLY <4>1, <4>2
    <3> QED  BY ONLY <3>1, <3>4, Registered DEF Registered
  <2>15. ASSUME NEW s \in Slices, Fill(s) PROVE Registered'
    BY <2>15 DEF Fill, FillSlice, intRegs
  <2> QED  BY <1>1, <2>1, <2>2, <2>3, <2>4, <2>5, <2>6, <2>7, <2>8, <2>9, <2>10, <2>11, <2>12,
              <2>13, <2>14, <2>15 DEF Process
<1>2. CASE ReadStatus
  BY <1>2 DEF ReadStatus, Registered, procs, driver, dbfVars, intRegs
<1>3. CASE Ack
  <2>1. intEnable' = intEnable
    BY <1>3, Acknowledged DEF Ack, ProcessTypes
  <2> QED  BY <1>3, <2>1 DEF Ack, Registered, procs, driver
<1>4. CASE Wake
  BY <1>4 DEF Wake, ProcessTypes, Registered, Places, On, Procs, dbfVars, intRegs
<1>5. CASE Device
  <2>1. intEnable' = intEnable
    BY <1>5 DEF Device, Threads, TakeSlice, EndSlice, TakeCopy, EndCopy, IrqUpdate, Raise, intRegs
  <2> QED  BY <1>5, <2>1 DEF Device, Registered, procs, driver
<1> QED  BY <1>1, <1>2, <1>3, <1>4, <1>5 DEF DriverNext

\* the stages of the work
LEMMA WorkKept ==
    ASSUME DriverInv, ~Killed, DriverNext
    PROVE  Work'
<1> USE DEF DriverInv, Work, Done, Filtering
<1>1. ASSUME NEW w \in Procs, \/ Register(w) \/ Describe(w) \/ Enable(w) \/ Unregister(w)
                              \/ Disable(w) \/ Remove(w) \/ Free(w)
                              \/ Wait(w) \/ Sleep(w) \/ Collect(w)
      PROVE  Work'
  <2>1. UNCHANGED <<work, owed, todo>>
    BY <1>1, Acknowledged DEF Register, Describe, Enable, Unregister, Disable, Remove, Free, Wait,
         Sleep, Collect, dbfVars, WriteIntAck, WriteIntEnable
  <2> QED  BY <2>1 DEF work
<1>2. ASSUME NEW w \in Procs, Release(w) PROVE Work'
  <2>1. UNCHANGED work /\ w = 0
    BY <1>2 DEF Release, WriteIntEnable, dbfVars, At, InTurn, Registered, Procs, On
  <2>2. ~owed[0] /\ owed' = [owed EXCEPT ![0] = FALSE] /\ todo' = {}
    BY <1>2, <2>1 DEF Release, At, InTurn, Registered, Procs, On
  <2>3. \A v \in Procs : owed'[v] = owed[v]
    BY <2>2 DEF ProcessTypes, Procs
  <2>4. todo' = todo
    BY <2>2 DEF Procs
  <2> QED  BY <2>1, <2>3, <2>4 DEF work, Procs
<1>3. ASSUME NEW w \in Procs, Return(w) PROVE Work'
  <2>1. UNCHANGED <<work, todo>> /\ owed' = [owed EXCEPT ![w] = got[w] = {}]
    BY <1>3 DEF Return, dbfVars
  <2>2. owed[w]
    BY <1>3 DEF Return, At, Registered, On
  <2>3. \A v \in Procs : ~owed'[v] => Done(v)
    <3>1. got[w] # {} => Done(w)
      BY DEF OneEnd, ProcessTypes
    <3>2. ASSUME NEW v \in Procs, v # w PROVE owed'[v] = owed[v]
      BY <2>1, <3>2 DEF ProcessTypes
    <3>3. owed'[w] = (got[w] = {})
      BY <2>1 DEF ProcessTypes
    <3> QED  BY <3>1, <3>2, <3>3
  <2>4. owed'[0] => owed[0]
    BY <2>1, <2>2 DEF ProcessTypes, Procs
  <2> QED  BY <2>1, <2>3, <2>4 DEF work
<1>4. CASE StartFrame
  BY <1>4 DEF StartFrame, WriteNslices, ProcessTypes, Procs
<1>5. ASSUME NEW s \in Slices, Fill(s) PROVE Work'
  <2>1. /\ s \in todo /\ todo' = todo \ {s} /\ sliceEv' = sliceEv \cup {s}
        /\ UNCHANGED <<nslicesIntr, emptied, sliceTh, copyEv, copyTh, owed>>
    BY <1>5 DEF Fill, FillSlice
  <2> QED  BY <2>1 DEF Procs
<1>6. CASE StartCopy
  BY <1>6 DEF StartCopy, SendSram, ProcessTypes, Procs
<1>7. CASE ReadStatus \/ Ack \/ Wake
  <2>1. UNCHANGED <<work, owed, todo>>
    BY <1>7, Acknowledged DEF ReadStatus, Ack, Wake, dbfVars, procs, ProcessTypes
  <2> QED  BY <2>1 DEF work
<1>8. CASE Device
  <2>1. UNCHANGED <<owed, todo>> /\ Threads
    BY <1>8 DEF Device, procs
  <2>2. ASSUME NEW s \in Slices, TakeSlice(s) PROVE Work'
    BY <2>1, <2>2 DEF TakeSlice, Procs, DeviceTypes
  <2>3. ASSUME NEW s \in Slices, EndSlice(s) PROVE Work'
    BY <2>1, <2>3 DEF EndSlice, Procs, DeviceTypes
  <2>4. CASE TakeCopy
    BY <2>1, <2>4 DEF TakeCopy, Procs, DeviceTypes
  <2>5. CASE EndCopy
    BY <2>1, <2>5 DEF EndCopy, Procs, DeviceTypes
  <2>6. CASE IrqUpdate
    BY <2>1, <2>6 DEF IrqUpdate, work
  <2> QED  BY <2>1, <2>2, <2>3, <2>4, <2>5, <2>6 DEF Threads
<1> QED  BY <1>1, <1>2, <1>3, <1>4, <1>5, <1>6, <1>7, <1>8 DEF DriverNext, Process

\* and the one end of each job.
LEMMA EndKept ==
    ASSUME DriverInv, ~Killed, DriverNext
    PROVE  OneEnd'
<1> USE DEF DriverInv
<1>0. \A w \in Procs : ~owed[w] \/ ~Done(w) =>
        \A b \in Type(w) : b \notin intStatus \cup isrStatus \cup pending[w] \cup got[w]
  BY DEF OneEnd
<1>1. ASSUME NEW w \in Procs, \/ Describe(w) \/ Enable(w) \/ Unregister(w) \/ Disable(w)
                              \/ Remove(w) \/ Free(w) \/ Wait(w) \/ Sleep(w)
      PROVE  OneEnd'
  <2>1. /\ UNCHANGED <<intStatus, isr, isrStatus, pending, got, overflow, owed>>
        /\ UNCHANGED <<todo, sliceEv, sliceTh, copyEv, copyTh>>
    BY <1>1 DEF Describe, Enable, Unregister, Disable, Remove, Free, Wait, Sleep, dbfVars, intRegs,
                work, driver, WriteIntEnable
  <2> QED  BY <2>1 DEF OneEnd, Done, Filtering
<1>2. ASSUME NEW w \in Procs, Register(w) PROVE OneEnd'
  <2>1. CASE irqEn
    <3>1. /\ UNCHANGED <<intStatus, isr, isrStatus, pending, got, overflow, owed>>
          /\ UNCHANGED <<todo, sliceEv, sliceTh, copyEv, copyTh>>
      BY <1>2, <2>1 DEF Register, dbfVars, intRegs, work
    <3> QED  BY <3>1 DEF OneEnd, Done, Filtering
  <2>2. CASE ~irqEn
    <3>1. \A v \in Procs : ~owed[v]
      BY <2>2 DEF InTurn, Registered, Procs, On
    <3>2. intStatus' \subseteq intStatus /\ ~overflow' /\ \A v \in Procs : pending'[v] = {}
      BY <1>2, <2>2, Acknowledged DEF Register
    <3>3. UNCHANGED <<isr, isrStatus, got>>
      BY <1>2 DEF Register
    <3> QED  BY <1>0, <3>1, <3>2, <3>3 DEF OneEnd
  <2> QED  BY <2>1, <2>2
<1>3. ASSUME NEW w \in Procs, Release(w) PROVE OneEnd'
  <2>1. UNCHANGED <<intStatus, isr, isrStatus, pending, got, overflow, sliceEv, sliceTh, copyEv, copyTh>>
    BY <1>3 DEF Release, WriteIntEnable, dbfVars, intRegs, work
  <2>2. ~owed[w] /\ owed' = [owed EXCEPT ![w] = FALSE] /\ todo' = IF w = 0 THEN {} ELSE todo
    <3>1. \A v \in Procs \ {w} : pc[v] = "idle"
      BY <1>3 DEF Release
    <3> QED  BY <1>3, <3>1 DEF Release
  <2>3. \A v \in Procs : owed'[v] = owed[v]
    BY <2>2 DEF ProcessTypes
  <2>4. todo' = todo
    BY <2>2 DEF Work, Done
  <2> QED  BY <2>1, <2>3, <2>4 DEF OneEnd, Done, Filtering
<1>4. ASSUME NEW w \in Procs, Collect(w) PROVE OneEnd'
  <2>1. /\ got' = [got EXCEPT ![w] = pending[w]]
        /\ UNCHANGED <<intStatus, isr, isrStatus, pending, overflow, owed>>
        /\ UNCHANGED <<todo, sliceEv, sliceTh, copyEv, copyTh>>
    BY <1>4 DEF Collect, dbfVars, intRegs, work, driver
  <2>2. \A v \in Procs : got'[v] = IF v = w THEN pending[v] ELSE got[v]
    BY <2>1 DEF ProcessTypes
  <2> QED  BY <2>1, <2>2 DEF OneEnd, Done, Filtering
<1>5. ASSUME NEW w \in Procs, Return(w) PROVE OneEnd'
  <2>1. /\ pending' = [pending EXCEPT ![w] = {}] /\ got' = [got EXCEPT ![w] = {}]
        /\ owed' = [owed EXCEPT ![w] = got[w] = {}]
        /\ UNCHANGED <<intStatus, isr, isrStatus, overflow>>
        /\ UNCHANGED <<todo, sliceEv, sliceTh, copyEv, copyTh>>
    BY <1>5 DEF Return, dbfVars, intRegs, work
  <2>2. \A v \in Procs : v # w => owed'[v] = owed[v] /\ pending'[v] = pending[v] /\ got'[v] = got[v]
    BY <2>1 DEF ProcessTypes
  <2>3. (owed'[w] <=> got[w] = {}) /\ pending'[w] = {} /\ got'[w] = {}
    BY <2>1 DEF ProcessTypes
  <2>4. \A b \in Type(w) : got[w] # {} => b \notin intStatus \cup isrStatus
    BY DEF OneEnd, ProcessTypes, Type
  <2> QED  BY <2>1, <2>2, <2>3, <2>4 DEF OneEnd, Done, Filtering
<1>6. CASE StartFrame
  <2>1. /\ ~owed[0] /\ owed' = [owed EXCEPT ![0] = TRUE]
        /\ UNCHANGED <<intStatus, isr, isrStatus, pending, got, overflow>>
        /\ UNCHANGED <<sliceEv, sliceTh, copyEv, copyTh>>
    BY <1>6 DEF StartFrame, WriteNslices, intRegs, driver
  <2>2. owed'[0] /\ owed'[1] = owed[1]
    BY <2>1 DEF ProcessTypes, Procs
  <2> QED  BY <1>0, <2>1, <2>2 DEF OneEnd, Done, Procs
<1>7. ASSUME NEW s \in Slices, Fill(s) PROVE OneEnd'
  <2>1. /\ s \in todo
        /\ UNCHANGED <<intStatus, isr, isrStatus, pending, got, overflow, owed>>
        /\ UNCHANGED <<copyEv, copyTh>>
    BY <1>7 DEF Fill, FillSlice, intRegs, driver
  <2>2. ~Done(0)
    BY <2>1 DEF Done
  <2> QED  BY <1>0, <2>1, <2>2 DEF OneEnd, Done, Procs
<1>8. CASE StartCopy
  <2>1. /\ ~owed[1] /\ owed' = [owed EXCEPT ![1] = TRUE]
        /\ UNCHANGED <<intStatus, isr, isrStatus, pending, got, overflow>>
        /\ UNCHANGED <<todo, sliceEv, sliceTh>>
    BY <1>8 DEF StartCopy, SendSram, intRegs, driver
  <2>2. owed'[1] /\ owed'[0] = owed[0]
    BY <2>1 DEF ProcessTypes, Procs
  <2> QED  BY <1>0, <2>1, <2>2 DEF OneEnd, Done, Filtering, Procs
<1>9. CASE ReadStatus
  <2>1. /\ isr = "idle" /\ isr' = "read" /\ isrStatus' = intStatus \ {"gen"}
        /\ UNCHANGED <<intStatus, pending, got, overflow, owed>>
        /\ UNCHANGED <<todo, sliceEv, sliceTh, copyEv, copyTh>>
    BY <1>9 DEF ReadStatus, dbfVars, intRegs, work, procs, driver
  <2> QED  BY <2>1 DEF OneEnd, Done, Filtering
<1>10. CASE Ack
  <2>1. /\ isr = "read" /\ isr' = "acked" /\ WriteIntAck(isrStatus)
        /\ UNCHANGED <<isrStatus, pending, got, overflow, owed, todo>>
    BY <1>10 DEF Ack, procs, driver
  <2>2. /\ intStatus' \subseteq intStatus /\ UNCHANGED work
        /\ isrStatus \cap intStatus \cap intEnable # {}
             => \A b \in Bits : b \in intStatus' <=> b \in intStatus \ isrStatus
    BY <2>1, Acknowledged DEF ProcessTypes
  <2>3. ASSUME NEW w \in Procs, NEW b \in Type(w), b \in isrStatus PROVE b \notin intStatus'
    <3>1. b \in intStatus /\ owed[w]
      BY <2>1, <2>3 DEF OneEnd
    <3>2. b \in intEnable /\ b \in Bits
      BY <3>1 DEF Registered, Type, Bits
    <3> QED  BY <2>2, <2>3, <3>1, <3>2
  <2> QED  BY <2>1, <2>2, <2>3 DEF OneEnd, Done, Filtering, work
<1>11. CASE Wake
  <2> DEFINE stat == [d \in Procs |-> IF d < nbIrqEn THEN isrStatus \cap type[d] ELSE {}]
  <2>1. /\ isr = "acked" /\ isr' = "idle" /\ isrStatus' = {}
        /\ overflow' = (overflow \/ \E d \in Procs : stat[d] \cap pending[d] # {})
        /\ pending' = [d \in Procs |-> pending[d] \cup stat[d]]
        /\ UNCHANGED <<intStatus, got, owed>>
        /\ UNCHANGED <<todo, sliceEv, sliceTh, copyEv, copyTh>>
    BY <1>11 DEF Wake, dbfVars, intRegs, work
  <2>2. \A v \in Procs : stat[v] \subseteq isrStatus \cap Type(v)
    BY DEF Registered
  <2> HIDE DEF stat
  <2>3. ~overflow'
    BY <2>1, <2>2 DEF OneEnd
  <2> QED  BY <2>1, <2>2, <2>3 DEF OneEnd, Done, Filtering
<1>12. CASE Device
  <2>0. UNCHANGED <<isr, isrStatus, pending, got, overflow, owed, todo>> /\ Threads
    BY <1>12 DEF Device, procs, driver
  <2>1. ASSUME NEW s \in Slices, TakeSlice(s) PROVE OneEnd'
    <3>1. s \in sliceEv /\ UNCHANGED <<intStatus, copyEv, copyTh>>
      BY <2>1 DEF TakeSlice, intRegs
    <3>2. ~Done(0)
      BY <3>1 DEF Done
    <3> QED  BY <1>0, <2>0, <3>1, <3>2 DEF OneEnd, Done, Procs
  <2>2. ASSUME NEW s \in Slices, EndSlice(s) PROVE OneEnd'
    <3>1. /\ Filtering(s) /\ sliceTh' = [sliceTh EXCEPT ![s] = "waiting"]
          /\ emptied' = emptied \cup {s}
          /\ UNCHANGED <<copyEv, copyTh, sliceEv>>
      BY <2>2 DEF EndSlice, Filtering
    <3>2. ~Done(0)
      BY <3>1 DEF Done
    <3>3. owed[0] /\ nslicesIntr = Cardinality(Slices)
      BY <3>2 DEF Work, Procs
    <3> DEFINE bits == {s} \cup (IF Cardinality(emptied') >= nslicesIntr THEN {"all"} ELSE {})
    <3>4. /\ Raise(bits) /\ bits \in SUBSET Bits
      BY <2>2 DEF EndSlice, Bits
    <3>5. \A b \in Bits : b \in intStatus' <=> b \in intStatus \cup bits
      BY <3>4, Raised
    <3>6. "sram" \in intStatus' <=> "sram" \in intStatus
      BY <3>5, SlicesAssumption DEF Bits
    <3>7. "all" \in intStatus' => Done(0)'
      <4>1. SUFFICES ASSUME "all" \in intStatus' PROVE Done(0)'
        OBVIOUS
      <4>2. "all" \notin intStatus /\ "all" \in Bits
        BY <1>0, <3>2 DEF Type, Procs, Bits
      <4>3. Cardinality(emptied') >= Cardinality(Slices)
        BY <3>3, <3>5, <4>1, <4>2, SlicesAssumption
      <4>4. emptied' \subseteq Slices
        BY <3>1 DEF DeviceTypes
      <4>5. emptied' = Slices
        BY <4>3, <4>4, SlicesAssumption, FS_Subset, FS_CardinalityType
      <4> QED  BY <2>0, <3>1, <4>5 DEF Work, Done, Filtering, DeviceTypes, ProcessTypes
    <3> HIDE DEF bits
    <3> QED  BY <1>0, <2>0, <3>1, <3>2, <3>3, <3>6, <3>7 DEF OneEnd, Done, Type, Procs
  <2>3. CASE TakeCopy
    <3>1. copyEv /\ UNCHANGED <<intStatus, sliceEv, sliceTh>>
      BY <2>3 DEF TakeCopy, intRegs
    <3>2. ~Done(1)
      BY <3>1 DEF Done
    <3> QED  BY <1>0, <2>0, <3>1, <3>2 DEF OneEnd, Done, Filtering, Procs
  <2>4. CASE EndCopy
    <3>1. /\ copyTh = "copying" /\ copyTh' = "waiting" /\ Raise({"sram"})
          /\ UNCHANGED <<copyEv, sliceEv, sliceTh>>
      BY <2>4 DEF EndCopy
    <3>2. ~Done(1) /\ Done(1)'
      BY <3>1 DEF Done, Work
    <3>3. owed[1]
      BY <3>2 DEF Work, Procs
    <3>4. "all" \in intStatus' <=> "all" \in intStatus
      BY <3>1, Raised DEF Bits
    <3> QED  BY <1>0, <2>0, <3>1, <3>2, <3>3, <3>4 DEF OneEnd, Done, Filtering, Type, Procs
  <2>5. CASE IrqUpdate
    BY <2>0, <2>5 DEF IrqUpdate, work, OneEnd, Done, Filtering
  <2> QED  BY <2>0, <2>1, <2>2, <2>3, <2>4, <2>5 DEF Threads
<1> QED  BY <1>1, <1>2, <1>3, <1>4, <1>5, <1>6, <1>7, <1>8, <1>9, <1>10, <1>11, <1>12
         DEF DriverNext, Process

\* The invariant of the driver and its device.
THEOREM DriverIsInductive ==
    ASSUME ~Killed
    PROVE  DriverSpec => []DriverInv
<1>1. DriverInit => DriverInv
  BY InitDriver
<1>2. DriverInv /\ [DriverNext]_driverVars => DriverInv'
  <2> SUFFICES ASSUME DriverInv, [DriverNext]_driverVars PROVE DriverInv'
    OBVIOUS
  <2>1. CASE DriverNext
    BY <2>1, OutputKept, TypesKept, TurnsKept, RegisteredKept, WorkKept, EndKept DEF DriverInv
  <2>2. CASE UNCHANGED driverVars
    BY <2>2 DEF driverVars, dbfVars, intRegs, work, procs, driver, DriverInv, DeviceTypes,
         ProcessTypes, Output, InTurn, Registered, Work, OneEnd, Done, Filtering
  <2> QED  BY <2>1, <2>2
<1> QED  BY <1>1, <1>2, PTL DEF DriverSpec

\* The output of the device is up exactly while software has something to acknowledge,
\* and then h264dbf_int_service finds bit 7.
THEOREM InterruptOfFilter ==
    ASSUME ~Killed
    PROVE  DriverSpec => []HandlerAnswers
<1>1. DriverInv => HandlerAnswers
  BY DEF DriverInv, DeviceTypes, Output, HandlerAnswers
<1> QED  BY <1>1, DriverIsInductive, PTL

\* h264dbf_int_wait: what a process finds in its descriptor is the end of the job it
\* started, and no end is counted twice.
THEOREM PendingIsEnd ==
    ASSUME ~Killed
    PROVE  DriverSpec => []PendingIsDone
<1>1. DriverInv => PendingIsDone
  <2> SUFFICES ASSUME DriverInv PROVE PendingIsDone
    OBVIOUS
  <2>1. \A w \in Procs : pending[w] # {} => owed[w] /\ Done(w)
    BY DEF DriverInv, ProcessTypes, OneEnd
  <2> QED  BY <2>1 DEF DriverInv, OneEnd, DeviceTypes, Done, Filtering, PendingIsDone, Procs
<1> QED  BY <1>1, DriverIsInductive, PTL
=============================================================================

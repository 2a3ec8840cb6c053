----------------------------- MODULE DbfFilter -----------------------------
(***************************************************************************)
(* The arithmetic of the deblocking filter: the four samples on each side  *)
(* of an edge, kept in unsigned char (s_qp), are smoothed again and again, *)
(* with the strength and the thresholds of the macroblocks on both sides.  *)
(* `>>' of a negative number rounds down, as \div does.                    *)
(***************************************************************************)
EXTENDS Integers, Sequences

CONSTANTS
    Rows,           \* values the four samples of a side start with
    Blocks,         \* the parameters of a block: mode, coefficients, motion vector
    Quantizers,     \* values of get_QP
    SliceOffsets,   \* values of REG_SLI_ALPHA and REG_SLI_BETA
    SignedChar      \* whether char is signed, of the builds checked

Bytes == 0 .. 255

ASSUME DbfFilterAssumption ==
    /\ Rows \subseteq [0 .. 3 -> Bytes]
    /\ Blocks \subseteq [mode : Bytes, coeff : Bytes, mvx : Bytes \X Bytes, mvy : Bytes \X Bytes]
    /\ Quantizers \subseteq 0 .. 51 /\ SliceOffsets \subseteq Bytes
    /\ SignedChar \subseteq BOOLEAN

VARIABLES p, q      \* qp.p, qp.q: the sample nearest to the edge first

filterVars == <<p, q>>

FilterInit == p \in Rows /\ q \in Rows
-----------------------------------------------------------------------------
CustomClip(i, min, max) == IF i < min THEN min ELSE IF i > max THEN max ELSE i
Clip(i) == CustomClip(i, 0, 255)
Dist(a, b) == IF a < b THEN b - a ELSE a - b

IsIntra(mode) == mode \in 5 .. 30

\* get_MVx, get_MVy: two bytes, the low one first, of a signed short.
Motion(bytes) ==
    LET v == bytes[1] + 256 * bytes[2] IN IF v >= 32768 THEN v - 65536 ELSE v

Moved(bq, bp) == \/ Dist(Motion(bq.mvx), Motion(bp.mvx)) > 4
                 \/ Dist(Motion(bq.mvy), Motion(bp.mvy)) > 4

\* get_TotalCoeffL of both sides.
Coded(bq, bp) == bq.coeff # 0 \/ bp.coeff # 0

\* get_bS: aligned is qx % 16 = 0, whatever the direction of the edge.
BoundaryStrength(aligned, bq, bp) ==
    CASE aligned /\ (IsIntra(bq.mode) \/ IsIntra(bp.mode)) -> 4
      [] ~aligned /\ IsIntra(bq.mode) -> 3
      [] ~IsIntra(bq.mode) /\ ~(aligned /\ IsIntra(bp.mode)) /\ Coded(bq, bp) -> 2
      [] ~IsIntra(bq.mode) /\ ~(aligned /\ IsIntra(bp.mode)) /\ ~Coded(bq, bp) /\ Moved(bq, bp) -> 1
      [] OTHER -> 0
-----------------------------------------------------------------------------
alpha_t == <<0, 0, 0, 0, 0, 0, 0, 0, 0, 0, 0, 0, 0, 0, 0, 0, 4, 4, 5, 6, 7, 8, 9, 10, 12, 13,
             15, 17, 20, 22, 25, 28, 32, 36, 40, 45, 50, 56, 63, 71, 80, 90, 101, 113, 127,
             144, 162, 182, 203, 226, 255, 255>>

beta_t == <<0, 0, 0, 0, 0, 0, 0, 0, 0, 0, 0, 0, 0, 0, 0, 0, 2, 2, 2, 3, 3, 3, 3, 4, 4, 4, 6, 6,
            7, 7, 8, 8, 9, 9, 10, 10, 11, 11, 12, 12, 13, 13, 14, 14, 15, 15, 16, 16, 17, 17,
            18, 18>>

\* From index 16 on: the values before are 0.
tc0_t == << <<0, 0, 0, 0, 0, 0, 0, 1, 1, 1, 1, 1, 1, 1, 1, 1, 1, 2, 2, 2, 2, 3, 3, 3, 4, 4, 4, 5,
              6, 6, 7, 8, 9, 10, 11, 13>>,
            <<0, 0, 0, 0, 0, 1, 1, 1, 1, 1, 1, 1, 1, 1, 1, 2, 2, 2, 2, 3, 3, 3, 4, 4, 5, 5, 6, 7,
              8, 8, 10, 11, 12, 13, 15, 17>>,
            <<0, 1, 1, 1, 1, 1, 1, 1, 1, 1, 1, 2, 2, 2, 2, 3, 3, 3, 4, 4, 4, 5, 6, 6, 7, 8, 9, 10,
              11, 13, 14, 16, 18, 20, 23, 25>> >>

Char(v, signed) == IF signed /\ v >= 128 THEN v - 256 ELSE v

\* QPav of the macroblocks on both sides.
AverageQP(qpQ, qpP) == (qpQ + qpP + 1) \div 2

\* indexA, indexB: the offset of the slice is an unsigned byte.
TableIndex(qp, offset) == CustomClip(qp + 4 * offset, 0, 51)

\* alpha, beta and, for a strength of 1 to 3, tc0.
Limits(a, b, bS, signed) ==
    [alpha |-> Char(alpha_t[a + 1], signed), beta |-> beta_t[b + 1],
     tc0 |-> IF bS \in 1 .. 3 /\ a >= 16 THEN tc0_t[bS][a - 15] ELSE 0]
-----------------------------------------------------------------------------
\* filterSampleFlag.
Filtered(bS, t) ==
    /\ bS # 0
    /\ Dist(p[0], q[0]) < t.alpha
    /\ Dist(p[1], p[0]) < t.beta /\ Dist(q[1], q[0]) < t.beta

\* bS of 1 to 3: how far the samples at the edge move, and the second ones.
\* near, far: the samples of the side and of the other one; luma only.
Delta(t, luma) ==
    LET tc == IF luma
              THEN t.tc0 + (IF Dist(p[2], p[0]) < t.beta THEN 1 ELSE 0)
                         + (IF Dist(q[2], q[0]) < t.beta THEN 1 ELSE 0)
              ELSE t.tc0 + 1
    IN  CustomClip(((q[0] - p[0]) * 4 + (p[1] - q[1]) + 4) \div 8, -tc, tc)

Second(near, far, t) ==
    near[1] + CustomClip((near[2] + (near[0] + far[0] + 1) \div 2 - near[1] * 2) \div 2,
                         -t.tc0, t.tc0)

\* The first sample is moved without a clip.
Weak_NoClip(near, far, d, t, luma) ==
    [near EXCEPT ![0] = @ + d,
                 ![1] = IF luma /\ Dist(near[2], near[0]) < t.beta THEN Second(near, far, t) ELSE @]

Weak(near, far, d, t, luma) ==
    [near EXCEPT ![0] = Clip(@ + d),
                 ![1] = IF luma /\ Dist(near[2], near[0]) < t.beta THEN Second(near, far, t) ELSE @]

\* bS of 4.
Strong(near, far, t, luma) ==
    IF luma /\ Dist(near[2], near[0]) < t.beta /\ Dist(near[0], far[0]) < (t.alpha \div 4) + 2
    THEN [near EXCEPT
            ![0] = (near[2] + 2 * near[1] + 2 * near[0] + 2 * far[0] + far[1] + 4) \div 8,
            ![1] = (near[2] + near[1] + near[0] + far[0] + 2) \div 4,
            ![2] = (2 * near[3] + 3 * near[2] + near[1] + near[0] + far[0] + 4) \div 8]
    ELSE [near EXCEPT ![0] = (2 * near[1] + near[0] + far[1] + 2) \div 4]

\* filter_block, between the reads and the writes of filter_vertical and
\* filter_horizontal; filtering the other way round of the picture is the same.
FilterBlock(bS, t, luma) ==
    \/ /\ ~Filtered(bS, t) /\ UNCHANGED filterVars
    \/ /\ Filtered(bS, t) /\ bS < 4
       /\ p' = Weak(p, q, Delta(t, luma), t, luma)
       /\ q' = Weak(q, p, -Delta(t, luma), t, luma)
    \/ /\ Filtered(bS, t) /\ bS = 4
       /\ p' = Strong(p, q, t, luma) /\ q' = Strong(q, p, t, luma)

\* The strengths and the limits of the edges the parameters allow.
Strengths == {BoundaryStrength(aligned, bq, bp) : aligned \in BOOLEAN, bq \in Blocks, bp \in Blocks}

EdgeLimits(bS) ==
    {Limits(TableIndex(AverageQP(qpQ, qpP), oA), TableIndex(AverageQP(qpQ, qpP), oB), bS, signed) :
       qpQ \in Quantizers, qpP \in Quantizers, oA \in SliceOffsets, oB \in SliceOffsets,
       signed \in SignedChar}

FilterNext ==
    \E bS \in Strengths, luma \in BOOLEAN : \E t \in EdgeLimits(bS) : FilterBlock(bS, t, luma)

FilterSpec == FilterInit /\ [][FilterNext]_filterVars
-----------------------------------------------------------------------------
(* Only the samples at the edge are clipped; the others are stored into unsigned
   char as computed.  However often lines are filtered no sample leaves 0 .. 255,
   which would wrap to the other end of the scale. *)
NoSampleWraps == \A i \in 0 .. 3 : p[i] \in 0 .. 255 /\ q[i] \in 0 .. 255
============================================================================

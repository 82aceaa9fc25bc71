---------------------------- MODULE AuxNodeProofs ----------------------------
(***************************************************************************)
(* Theorems about AuxNode: its types, that no evaluation leaves the tensors*)
(* it was given, that none fails at the shapes a node was claimed with, and*)
(* that it computes what TFLite means by the operator (of all but          *)
(* TRANSPOSE_CONV and STRIDED_SLICE), for every node, shape and attribute. *)
(*                                                                         *)
(* IndexTheorems says under what conditions each kernel of HostOps keeps   *)
(* inside (...Within).  From those and the checks of each gate and         *)
(* evaluation, a lemma ...Kept for each operator, and EvalKept for them    *)
(* all; and a lemma ...Runs that the checks accept what the gate did, and  *)
(* EvalRuns.  The invariant IInv then says only that an answer is such an  *)
(* evaluation, of a node the gates took, at the shapes of the moment.      *)
(*                                                                         *)
(* What is computed: an offset determines its coordinate (DotInjective,    *)
(* OdometerAt), and the reference's coordinates are these (FlatIs,         *)
(* CoordsAre).  From that, a lemma for each kernel that its cells hold what*)
(* the reference names, a lemma ...Answers for each operator, and EvalMeans*)
(* for them all.                                                           *)
(***************************************************************************)
EXTENDS AuxNode, IndexTheorems

-----------------------------------------------------------------------------
(* The kernels that broadcast, concatenate or stage through the NPU's layouts. *)

\* A broadcast operand is read where TFLite's broadcast has it: an axis of one is stride 0.
LEMMA BroadcastAt ==
    ASSUME NEW in \in Seq(Nat), NEW out \in Seq(Nat), broadcast_to(in, out), NEW k \in Cells(out)
    PROVE  /\ Source(Odometer(out)[k], in) \in Coordinates(in)
           /\ rocket_broadcast_copy(in, out)[k]
                = Copy(1, Dot(Source(Odometer(out)[k], in), rocket_row_strides(in)))
<1> DEFINE off == Len(out) - Len(in)
           row == rocket_row_strides(in)
           bstride == [d \in DOMAIN out |->
                          IF d <= off THEN 0 ELSE IF in[d - off] = 1 THEN 0 ELSE row[d - off]]
           idx == Odometer(out)[k]
           I == 1 .. Len(in)
           O == 1 .. Len(out)
           T == (off + 1) .. Len(out)
<1>1. /\ Len(in) \in Nat /\ Len(out) \in Nat /\ DOMAIN in = I /\ DOMAIN out = O
      /\ (\A e \in I : in[e] \in Nat) /\ (\A d \in O : out[d] \in Nat)
  BY ShapeDomain
<1>2. off \in Nat /\ \A e \in I : e + off \in O /\ in[e] \in {1, out[off + e]}
  <2>1. Len(in) <= Len(out) /\ \A e \in I : in[e] \in {1, out[off + e]}
    BY <1>1 DEF broadcast_to
  <2> QED BY <1>1, <2>1
<1>3. idx \in Coordinates(out)
  BY OdometerInside
<1>4. rocket_broadcast_copy(in, out)[k] = Copy(1, Dot(idx, bstride))
  BY DEF rocket_broadcast_copy, Gather
<1> HIDE DEF idx
<1> DEFINE c == [e \in I |-> IF in[e] = 1 THEN 0 ELSE idx[e + off]]
           b == [e \in I |-> c[e] * row[e]]
           g == [d \in O |-> idx[d] * bstride[d]]
           h == [d \in T |-> d - off]
<1>5. \A d \in O : idx[d] \in Nat /\ idx[d] < out[d]
  BY <1>1, <1>3 DEF Coordinates
<1>6. c \in Coordinates(in)
  <2>1. \A e \in I : c[e] \in Nat /\ c[e] < in[e]
    <3> TAKE e \in I
    <3>1. e + off \in O /\ off + e = e + off /\ in[e] \in {1, out[off + e]} /\ in[e] \in Nat
      BY <1>1, <1>2
    <3>2. idx[e + off] \in Nat /\ idx[e + off] < out[e + off]
      BY <1>5, <3>1
    <3> HIDE DEF off
    <3>3. CASE in[e] = 1
      BY <3>3
    <3>4. CASE in[e] # 1
      BY <3>1, <3>2, <3>4
    <3> QED BY <3>3, <3>4
  <2> QED BY <1>1, <2>1 DEF Coordinates
<1>7. SumFunctionOnSet(b, I) = Dot(c, row)
  BY DEF Dot, SumFunction
<1>8. \A e \in I : row[e] \in Nat /\ b[e] \in Int
  <2> TAKE e \in I
  <2>1. row[e] = ProductOn(in, (e + 1) .. Len(in)) /\ ProductOn(in, (e + 1) .. Len(in)) \in Nat
    BY <1>1, RowStrides, Suffix
  <2>2. c[e] \in Nat
    BY <1>6 DEF Coordinates
  <2> HIDE DEF row, c
  <2> QED BY <2>1, <2>2, Times
<1>9. T \subseteq O /\ IsFiniteSet(O) /\ IsFiniteSet(T) /\ Renamed(h, T) = I
  <2>1. IsFiniteSet(O) /\ T \subseteq O
    BY <1>1, <1>2, FS_Interval
  <2>2. \A e \in I : e + off \in T /\ h[e + off] = e
    BY <1>1, <1>2
  <2>3. \A d \in T : h[d] \in I
    BY <1>1, <1>2
  <2> HIDE DEF T, h
  <2> QED BY <2>1, <2>2, <2>3, FS_Subset DEF Renamed
<1>10. \A d \in T : b[h[d]] \in Int /\ g[d] = b[h[d]]
  <2> TAKE d \in T
  <2>1. h[d] = d - off /\ h[d] \in I /\ d \in O /\ ~(d <= off) /\ h[d] + off = d
    BY <1>1, <1>2
  <2>2. bstride[d] = IF in[h[d]] = 1 THEN 0 ELSE row[h[d]]
    BY <1>1, <2>1
  <2>3. g[d] = idx[d] * bstride[d] /\ b[h[d]] = c[h[d]] * row[h[d]] /\ b[h[d]] \in Int
    BY <1>8, <2>1
  <2>4. c[h[d]] = IF in[h[d]] = 1 THEN 0 ELSE idx[d]
    BY <2>1
  <2>5. row[h[d]] \in Nat /\ idx[d] \in Nat
    BY <1>5, <1>8, <2>1
  <2> HIDE DEF row, bstride, g, b, c, h, off, T
  <2> QED BY <2>2, <2>3, <2>4, <2>5
<1>11. \A d \in O \ T : g[d] = 0
  <2> TAKE d \in O \ T
  <2>1. d <= off /\ bstride[d] = 0 /\ idx[d] \in Nat
    BY <1>1, <1>2, <1>5
  <2>2. g[d] = idx[d] * bstride[d]
    OBVIOUS
  <2> HIDE DEF g, bstride
  <2> QED BY <2>1, <2>2
<1>12. SumFunctionOnSet(g, O) = SumFunctionOnSet(b, I)
  <2>2. \A d, e \in T : h[d] = h[e] => d = e
    BY <1>2
  <2> HIDE DEF g, b, h, T, O, I
  <2>1. \A d \in O : g[d] \in Int
    <3> TAKE d \in O
    <3>1. CASE d \in T
      <4>1. b[h[d]] \in Int /\ g[d] = b[h[d]]
        BY <1>10, <3>1
      <4> QED BY <4>1
    <3>2. CASE d \notin T
      BY <1>11, <3>2
    <3> QED BY <3>1, <3>2
  <2>3. SumFunctionOnSet(g, O) = SumFunctionOnSet(g, T)
    BY <1>9, <1>11, <2>1, SumSupport
  <2>4. SumFunctionOnSet(g, T) = SumFunctionOnSet(b, Renamed(h, T))
    BY <1>9, <1>10, <2>2, SumRenamed
  <2> QED BY <1>9, <2>3, <2>4
<1>13. Dot(idx, bstride) = SumFunctionOnSet(g, O)
  <2>1. DOMAIN idx = O
    BY <1>1, <1>3 DEF Coordinates
  <2> QED BY <2>1 DEF Dot, SumFunction
<1>14. Source(idx, in) = c
  <2>1. idx \in [O -> Nat] /\ O = 1 .. Len(out)
    BY <1>1, <1>3 DEF Coordinates
  <2>2. Len(idx) = Len(out)
    BY <1>1, <2>1
  <2>3. \A e \in I : e + Len(out) - Len(in) = e + off
    BY <1>1
  <2> HIDE DEF off
  <2> QED BY <1>1, <2>2, <2>3 DEF Source
<1> HIDE DEF c, b, g, row, bstride
<1> QED BY <1>4, <1>6, <1>7, <1>12, <1>13, <1>14 DEF idx, row

\* An operand spread over the output names offsets of its own.
LEMMA MaterializedInside ==
    ASSUME NEW in \in Seq(Nat), NEW out \in Seq(Nat), broadcast_to(in, out), NEW k \in Cells(out)
    PROVE  Materialized(in, out)[k] \in Cells(in)
<1> DEFINE copy == rocket_broadcast_copy(in, out)
<1>1. Materialized(in, out)[k] = IF in = out THEN k ELSE (CHOOSE t \in copy[k].taps : TRUE)[1][2]
  BY DEF Materialized
<1>2. PICK m \in Cells(in) : copy[k] = Copy(1, m)
  BY BroadcastAt, DotWithin
<1> HIDE DEF copy
<1>3. copy[k].taps = {<< <<1, m>> >>}
  BY <1>2 DEF Copy, Term
<1>4. (CHOOSE t \in copy[k].taps : TRUE) = << <<1, m>> >>
  BY <1>3
<1>5. << <<1, m>> >>[1][2] = m
  OBVIOUS
<1>6. Materialized(in, out)[k] = IF in = out THEN k ELSE m
  BY ONLY <1>1, <1>4, <1>5
<1> QED BY <1>2, <1>6

\* The element-wise operators
LEMMA BinaryWithin ==
    ASSUME NEW ins, ins[1] \in Seq(Nat), ins[2] \in Seq(Nat), NEW out \in Seq(Nat),
           broadcast_to(ins[1], out), broadcast_to(ins[2], out)
    PROVE  Within(rocket_binary(Count(out), Materialized(ins[1], out), Materialized(ins[2], out)),
                  out, ins)
<1> DEFINE ma == Materialized(ins[1], out)
           mb == Materialized(ins[2], out)
           f == rocket_binary(Count(out), ma, mb)
<1>1. \A k \in Cells(out) : ma[k] \in Cells(ins[1]) /\ mb[k] \in Cells(ins[2])
  BY MaterializedInside
<1> HIDE DEF ma, mb
<1>2. f = [i \in Cells(out) |-> Term({<< <<1, ma[i]>>, <<2, mb[i]>> >>}, 1)]
  BY DEF rocket_binary, Cells
<1> HIDE DEF f
<1>3. ASSUME NEW k \in Cells(out) PROVE TermInside(f[k], ins)
  <2>1. f[k].taps = {<< <<1, ma[k]>>, <<2, mb[k]>> >>}
    BY <1>2 DEF Term
  <2> QED BY <1>1, <2>1 DEF TermInside
<1>4. Within(f, out, ins)
  BY <1>2, <1>3 DEF Within
<1> QED BY <1>4 DEF f, ma, mb

\* The image an operator of the NPU's stages through: its channel planes hold offsets
\* of the image.
LEMMA PlanesInside ==
    ASSUME NEW dims, Image(dims), NEW S, S = dims[2] * dims[3],
           NEW k \in DOMAIN ChwOf(S, dims[4])
    PROVE  ChwOf(S, dims[4])[k] \in Cells(dims)
<1>1. PICK H \in Nat, W \in Nat, C \in Nat :
         /\ H = dims[2] /\ W = dims[3] /\ C = dims[4]
         /\ (H * W) * C \in Nat /\ (H * W) * C <= Count(dims)
  <2>1. /\ (dims[2] * dims[3]) * dims[4] \in Nat
        /\ (dims[2] * dims[3]) * dims[4] <= Count(dims)
        /\ dims[2] \in Nat /\ dims[3] \in Nat /\ dims[4] \in Nat
    BY Batched DEF Image
  <2> QED BY <2>1
<1>2. S \in Nat /\ S = H * W
  BY <1>1, Times
<1>3. k \in 0 .. (S * C - 1) /\ ChwOf(S, C)[k] = (k % S) * C + (k \div S)
  BY <1>1 DEF ChwOf
<1>4. Count(dims) \in Nat
  BY CountNat DEF Image
<1> DEFINE V == S * C
           q == k \div S
           r == k % S
<1>5. V \in Nat /\ V <= Count(dims) /\ V = C * S
  BY <1>1, <1>2
<1>6. k \in Nat /\ k < C * S
  <2> HIDE DEF V
  <2>1. k \in 0 .. (V - 1)
    BY <1>3 DEF V
  <2> QED BY <2>1, <1>5
<1>7. q \in Nat /\ q < C /\ r \in Nat /\ r < S
  BY <1>2, <1>6, Digits
<1> HIDE DEF q, r
<1>8. r * C + q \in Nat /\ r * C + q < S * C
  BY <1>2, <1>7, Place
<1> DEFINE v == r * C + q
<1> HIDE DEF v, V
<1>9. v \in Nat /\ v < V
  BY <1>8 DEF v, V
<1>10. v \in Cells(dims)
  BY <1>4, <1>5, <1>9 DEF Cells
<1> QED BY <1>1, <1>3, <1>10 DEF v, q, r

\* A term of a staged operand has the operand's offsets where it had the stage's,
\* and its other taps as they were.
LEMMA ThroughTaps ==
    ASSUME NEW f, NEW n, NEW buf, NEW ins, NEW k \in DOMAIN f,
           \A i \in DOMAIN buf : buf[i] \in Cells(ins[n])
    PROVE  \A t \in Through(f, n, buf)[k].taps : \A j \in DOMAIN t :
              \/ t[j][1] = n /\ t[j][2] \in Cells(ins[n])
              \/ \E tap \in f[k].taps : j \in DOMAIN tap /\ tap[j][1] # n /\ t[j] = tap[j]
<1> DEFINE g == Through(f, n, buf)
           Kept == {t \in f[k].taps : \A i \in DOMAIN t : t[i][1] = n => t[i][2] \in DOMAIN buf}
           To(tap) == [i \in DOMAIN tap |-> IF tap[i][1] = n THEN <<n, buf[tap[i][2]]>> ELSE tap[i]]
<1>1. g[k] = Term({To(tap) : tap \in Kept}, f[k].by)
  BY DEF Through
<1> HIDE DEF g
<1>2. g[k].taps = {To(tap) : tap \in Kept}
  BY <1>1 DEF Term
<1>3. ASSUME NEW t \in g[k].taps, NEW j \in DOMAIN t
      PROVE  \/ t[j][1] = n /\ t[j][2] \in Cells(ins[n])
             \/ \E tap \in f[k].taps : j \in DOMAIN tap /\ tap[j][1] # n /\ t[j] = tap[j]
  <2>1. PICK tap \in Kept : t = To(tap)
    BY <1>2
  <2>2. tap \in f[k].taps /\ j \in DOMAIN tap
        /\ t[j] = IF tap[j][1] = n THEN <<n, buf[tap[j][2]]>> ELSE tap[j]
    BY <1>3, <2>1
  <2>3. CASE tap[j][1] = n
    <3>1. tap[j][2] \in DOMAIN buf
      BY <2>1, <2>2, <2>3
    <3>2. t[j] = <<n, buf[tap[j][2]]>>
      BY <2>2, <2>3
    <3> QED BY <3>1, <3>2
  <2>4. CASE tap[j][1] # n
    BY <2>2, <2>4
  <2> QED BY <2>3, <2>4
<1> QED BY <1>3 DEF g

\* So it reads inside when the stage does, and the rest did.
LEMMA ThroughReads ==
    ASSUME NEW f, NEW n, NEW buf, NEW ins, NEW k \in DOMAIN f,
           \A i \in DOMAIN buf : buf[i] \in Cells(ins[n]),
           \A tap \in f[k].taps : \A j \in DOMAIN tap :
              tap[j][1] # n => tap[j][2] \in Cells(ins[tap[j][1]])
    PROVE  TermInside(Through(f, n, buf)[k], ins)
<1> DEFINE g == Through(f, n, buf)
<1>1. \A t \in g[k].taps : \A j \in DOMAIN t :
         \/ t[j][1] = n /\ t[j][2] \in Cells(ins[n])
         \/ \E tap \in f[k].taps : j \in DOMAIN tap /\ tap[j][1] # n /\ t[j] = tap[j]
  BY ThroughTaps
<1> HIDE DEF g
<1>2. ASSUME NEW t \in g[k].taps, NEW j \in DOMAIN t PROVE t[j][2] \in Cells(ins[t[j][1]])
  BY <1>1
<1> QED BY <1>2 DEF TermInside, g

\* From channel planes back to pixels, every offset of the output finds its element.
LEMMA FromChwWithin ==
    ASSUME NEW OS \in Nat, NEW C \in Nat, NEW f, NEW out, NEW ins,
           OS * C <= Count(out), Count(out) \in Nat,
           \A m \in 0 .. (C * OS - 1) : TermInside(f[m], ins)
    PROVE  Within(FromChw(f, OS, C), out, ins)
<1> DEFINE g == FromChw(f, OS, C)
           V == OS * C
<1>1. V \in Nat /\ V = C * OS /\ V <= Count(out)
  BY Times
<1>2. g = [k \in 0 .. (V - 1) |-> f[InChw(k, OS, C)]]
  BY DEF FromChw
<1> HIDE DEF g
<1>3. ASSUME NEW k \in 0 .. (V - 1) PROVE k \in Cells(out) /\ TermInside(g[k], ins)
  <2>1. k \in Nat /\ k < V
    <3> HIDE DEF V
    <3> QED BY <1>1
  <2> DEFINE q == k \div C
             r == k % C
  <2>2. q \in Nat /\ q < OS /\ r \in Nat /\ r < C
    BY <2>1, Digits
  <2> HIDE DEF q, r
  <2>3. r * OS + q \in Nat /\ r * OS + q < C * OS
    BY <2>2, Place
  <2> DEFINE v == r * OS + q
             U == C * OS
  <2>4. v \in Nat /\ v < U /\ U \in Nat
    BY <1>1, <2>3
  <2>5. v \in 0 .. (U - 1)
    <3> HIDE DEF v, U
    <3> QED BY <2>4
  <2>6. TermInside(f[v], ins)
    BY <2>5
  <2>7. g[k] = f[v]
    BY <1>2, <1>3 DEF InChw, q, r
  <2>8. k \in Cells(out)
    <3> HIDE DEF V
    <3> QED BY <1>1, <2>1 DEF Cells
  <2> QED BY <2>6, <2>7, <2>8
<1>4. Within(g, out, ins)
  BY <1>2, <1>3 DEF Within
<1> QED BY <1>4 DEF g

\* And on the NPU, through channel planes
LEMMA PoolPlanesWithin ==
    ASSUME NEW ins, Image(ins[1]), NEW out, Image(out), ins[1][4] = out[4],
           NEW KH, NEW KW, NEW sy, NEW sx, NEW pt, NEW pl, NEW avg
    PROVE  Within(FromChw(Through(rocket_pool_fp16(out[4], ins[1][2], ins[1][3], out[2], out[3],
                                                   KH, KW, sy, sx, pt, pl, avg),
                                  1, ChwOf(ins[1][2] * ins[1][3], out[4])),
                          out[2] * out[3], out[4]), out, ins)
<1> DEFINE in == ins[1]
           C == out[4]
           OH == out[2]
           OW == out[3]
           g == rocket_pool_fp16(C, in[2], in[3], OH, OW, KH, KW, sy, sx, pt, pl, avg)
           buf == ChwOf(in[2] * in[3], C)
           Q == (0 .. (C - 1)) \X (0 .. (OH - 1)) \X (0 .. (OW - 1))
           dst(q) == (q[1] * OH + q[2]) * OW + q[3]
           off(q, j) == (q[1] * in[2] + q[2] * sy + j[1] - pt) * in[3] + q[3] * sx + j[2] - pl
           J(q) == {j \in (0 .. (KH - 1)) \X (0 .. (KW - 1)) :
                       /\ q[2] * sy + j[1] - pt \in 0 .. (in[2] - 1)
                       /\ q[3] * sx + j[2] - pl \in 0 .. (in[3] - 1)}
           what(q) == Term({<< <<1, off(q, j)>> >> : j \in J(q)}, IF avg THEN KH * KW ELSE 1)
<1>1. g = [k \in {dst(q) : q \in Q} |-> what(CHOOSE q \in Q : dst(q) = k)]
  BY DEF rocket_pool_fp16, Scatter
<1>2. OH \in Nat /\ OW \in Nat /\ C \in Nat /\ OH * OW \in Nat
      /\ (OH * OW) * C \in Nat /\ (OH * OW) * C <= Count(out) /\ Count(out) \in Nat
  <2>1. OH \in Nat /\ OW \in Nat /\ C \in Nat /\ (OH * OW) * C \in Nat /\ (OH * OW) * C <= Count(out)
    BY Batched DEF Image
  <2>2. Count(out) \in Nat
    BY CountNat DEF Image
  <2> HIDE DEF OH, OW, C
  <2> QED BY <2>1, <2>2, Times
<1>3. ASSUME NEW q \in Q, NEW t \in what(q).taps, NEW i \in DOMAIN t PROVE t[i][1] = 1
  <2> HIDE DEF J, off
  <2> QED BY <1>3 DEF Term
<1>4. ASSUME NEW i \in DOMAIN buf PROVE buf[i] \in Cells(in)
  BY PlanesInside
<1> HIDE DEF g, dst, what
<1>5. ASSUME NEW m \in 0 .. (C * (OH * OW) - 1) PROVE TermInside(Through(g, 1, buf)[m], ins)
  <2>1. \E q \in Q : dst(q) = m
    <3> HIDE DEF C, OH, OW
    <3> DEFINE V == C * (OH * OW)
    <3>1. V \in Nat
      BY <1>2, Times
    <3>7. m \in 0 .. (V - 1)
      BY <1>5
    <3>2. m \in Nat /\ m < V
      <4> HIDE DEF V
      <4> QED BY <3>1, <3>7
    <3>3. V = (C * OH) * OW
      BY <1>2
    <3>4. m < (C * OH) * OW
      <4> HIDE DEF V
      <4> QED BY <3>2, <3>3
    <3>5. PICK q \in DigitsOf(C, OH, OW, m) : TRUE
      <4>1. DigitsOf(C, OH, OW, m) # {}
        BY <1>2, <3>2, <3>4, Digits3
      <4> QED BY <4>1
    <3> QED BY <3>5 DEF DigitsOf, dst
  <2> HIDE DEF Q, C, OH, OW, buf
  <2>2. PICK q \in Q : g[m] = what(q) /\ m \in DOMAIN g
    BY <1>1, <2>1
  <2>3. \A t \in g[m].taps : \A i \in DOMAIN t : t[i][1] # 1 => t[i][2] \in Cells(ins[t[i][1]])
    BY <1>3, <2>2
  <2> QED BY <1>4, <2>2, <2>3, ThroughReads
<1> HIDE DEF C, OH, OW, buf
<1> DEFINE OS == OH * OW
           h == Through(g, 1, buf)
<1>6. OS \in Nat /\ OS * C <= Count(out) /\ \A m \in 0 .. (C * OS - 1) : TermInside(h[m], ins)
  BY <1>2, <1>5
<1> HIDE DEF OS, h
<1>7. Within(FromChw(h, OS, C), out, ins)
  BY <1>2, <1>6, FromChwWithin
<1> QED BY <1>7 DEF OS, h, g, buf, C, OH, OW

\* And on the NPU, where the factors are integers
LEMMA UpsampleWithin ==
    ASSUME NEW ins, Image(ins[1]), NEW out, Image(out), ins[1][4] = out[4],
           out[2] % ins[1][2] = 0, out[3] % ins[1][3] = 0
    PROVE  Within(FromChw(Through(rocket_upsample_nearest_fp16(out[4], ins[1][2], ins[1][3],
                                                               out[2] \div ins[1][2],
                                                               out[3] \div ins[1][3]),
                                  1, ChwOf(ins[1][2] * ins[1][3], out[4])),
                          out[2] * out[3], out[4]), out, ins)
<1> DEFINE in == ins[1]
           C == out[4]
           OH == out[2]
           OW == out[3]
           sy == OH \div in[2]
           sx == OW \div in[3]
           g == rocket_upsample_nearest_fp16(C, in[2], in[3], sy, sx)
           buf == ChwOf(in[2] * in[3], C)
           Q == (0 .. (C - 1)) \X (0 .. (in[2] * sy - 1)) \X (0 .. (in[3] * sx - 1))
           dst(q) == (q[1] * in[2] * sy + q[2]) * in[3] * sx + q[3]
           what(q) == Copy(1, (q[1] * in[2] + (q[2] \div sy)) * in[3] + (q[3] \div sx))
<1>1. g = [k \in {dst(q) : q \in Q} |-> what(CHOOSE q \in Q : dst(q) = k)]
  BY DEF rocket_upsample_nearest_fp16, Scatter
<1>2. OH \in Nat /\ OW \in Nat /\ C \in Nat /\ OH * OW \in Nat
      /\ (OH * OW) * C \in Nat /\ (OH * OW) * C <= Count(out) /\ Count(out) \in Nat
  <2>1. OH \in Nat /\ OW \in Nat /\ C \in Nat /\ (OH * OW) * C \in Nat /\ (OH * OW) * C <= Count(out)
    BY Batched DEF Image
  <2>2. Count(out) \in Nat
    BY CountNat DEF Image
  <2> HIDE DEF OH, OW, C
  <2> QED BY <2>1, <2>2, Times
<1>3. /\ in[2] \in Nat /\ sy \in Nat /\ in[2] * sy = OH
      /\ in[3] \in Nat /\ sx \in Nat /\ in[3] * sx = OW
  <2>1. in[2] \in Nat /\ in[2] > 0 /\ in[3] \in Nat /\ in[3] > 0
    BY Extents
  <2> QED BY <1>2, <2>1, Multiple
<1>4. ASSUME NEW q, NEW t \in what(q).taps, NEW i \in DOMAIN t PROVE t[i][1] = 1
  <2> DEFINE off == (q[1] * in[2] + (q[2] \div sy)) * in[3] + (q[3] \div sx)
  <2> HIDE DEF off
  <2>1. what(q).taps = {<< <<1, off>> >>}
    BY DEF Copy, Term, off
  <2> HIDE DEF what
  <2> QED BY <1>4, <2>1
<1>5. ASSUME NEW i \in DOMAIN buf PROVE buf[i] \in Cells(in)
  BY PlanesInside
<1>6. \A a \in 0 .. (C - 1), b \in 0 .. (OH - 1), c \in 0 .. (OW - 1) :
         <<a, b, c>> \in Q /\ dst(<<a, b, c>>) = (a * OH + b) * OW + c
  <2> TAKE a \in 0 .. (C - 1), b \in 0 .. (OH - 1), c \in 0 .. (OW - 1)
  <2>1. <<a, b, c>> \in Q
    BY <1>3
  <2>2. dst(<<a, b, c>>) = (a * in[2] * sy + b) * in[3] * sx + c
    OBVIOUS
  <2>3. PICK H \in Nat, W \in Nat, y \in Nat, z \in Nat :
           H = in[2] /\ W = in[3] /\ y = sy /\ z = sx
    BY <1>3
  <2>4. H * y = OH /\ W * z = OW /\ a \in Nat /\ b \in Nat /\ c \in Nat
    BY <1>2, <1>3, <2>3
  <2> HIDE DEF sy, sx, OH, OW, C, Q, dst
  <2>5. a * H * y = a * OH
    <3>1. a * H * y = a * (H * y)
      BY <2>4
    <3> QED BY <2>4, <3>1
  <2>6. (a * OH + b) * W * z = (a * OH + b) * OW
    <3> DEFINE p == a * OH + b
    <3>1. p \in Nat
      BY <1>2, <2>4, Times
    <3> HIDE DEF p
    <3>2. p * W * z = p * (W * z)
      BY <3>1
    <3>3. p * W * z = p * OW
      BY <2>4, <3>2
    <3> QED BY <3>3 DEF p
  <2> QED BY <2>1, <2>2, <2>3, <2>5, <2>6
<1> HIDE DEF g, dst, what, Q
<1>7. ASSUME NEW m \in 0 .. (C * (OH * OW) - 1) PROVE TermInside(Through(g, 1, buf)[m], ins)
  <2>1. \E q \in Q : dst(q) = m
    <3> HIDE DEF C, OH, OW
    <3> DEFINE V == C * (OH * OW)
    <3>1. V \in Nat
      BY <1>2, Times
    <3>2. m \in 0 .. (V - 1)
      BY <1>7
    <3>3. m \in Nat /\ m < V
      <4> HIDE DEF V
      <4> QED BY <3>1, <3>2
    <3>4. V = (C * OH) * OW
      BY <1>2
    <3>5. m < (C * OH) * OW
      <4> HIDE DEF V
      <4> QED BY <3>3, <3>4
    <3>6. PICK q \in DigitsOf(C, OH, OW, m) : TRUE
      <4>1. DigitsOf(C, OH, OW, m) # {}
        BY <1>2, <3>3, <3>5, Digits3
      <4> QED BY <4>1
    <3>7. /\ q[1] \in 0 .. (C - 1) /\ q[2] \in 0 .. (OH - 1) /\ q[3] \in 0 .. (OW - 1)
          /\ m = (q[1] * OH + q[2]) * OW + q[3]
      BY <3>6 DEF DigitsOf
    <3> QED BY <1>6, <3>7
  <2> HIDE DEF C, OH, OW, buf
  <2>2. PICK q \in Q : g[m] = what(q) /\ m \in DOMAIN g
    BY <1>1, <2>1
  <2>3. \A t \in g[m].taps : \A i \in DOMAIN t : t[i][1] # 1 => t[i][2] \in Cells(ins[t[i][1]])
    BY <1>4, <2>2
  <2> QED BY <1>5, <2>2, <2>3, ThroughReads
<1> HIDE DEF C, OH, OW, buf
<1> DEFINE OS == OH * OW
           h == Through(g, 1, buf)
<1>8. OS \in Nat /\ OS * C <= Count(out) /\ \A m \in 0 .. (C * OS - 1) : TermInside(h[m], ins)
  BY <1>2, <1>7
<1> HIDE DEF OS, h
<1>9. Within(FromChw(h, OS, C), out, ins)
  BY <1>2, <1>8, FromChwWithin
<1> QED BY <1>9 DEF OS, h, g, buf, C, OH, OW, sy, sx

\* MEAN and SUM over the pixels, on the host and through channel planes
LEMMA ReduceWithin ==
    ASSUME NEW ins, Image(ins[1]), NEW out, Count(out) = ins[1][4], NEW mean
    PROVE  /\ Within(rocket_reduce_spatial(ins[1][2], ins[1][3], ins[1][4], mean), out, ins)
           /\ Within(Through(rocket_globalpool_fp16(ins[1][4], ins[1][2] * ins[1][3], mean), 1,
                             ChwOf(ins[1][2] * ins[1][3], ins[1][4])), out, ins)
<1> DEFINE in == ins[1]
           C == in[4]
           S == in[2] * in[3]
           f == rocket_reduce_spatial(in[2], in[3], C, mean)
           g == rocket_globalpool_fp16(C, S, mean)
           buf == ChwOf(S, C)
           h == Through(g, 1, buf)
<1>1. /\ C \in Nat /\ S \in Nat /\ S * C \in Nat /\ S * C <= Count(in) /\ Count(in) \in Nat
      /\ Cells(out) = 0 .. (C - 1)
  <2>1. in[2] \in Nat /\ in[3] \in Nat /\ in[4] \in Nat
    BY Extents
  <2>2. Count(in) \in Nat
    BY CountNat DEF Image
  <2>3. (in[2] * in[3]) * in[4] <= Count(in)
    BY Batched DEF Image
  <2>4. in[2] * in[3] \in Nat
    BY <2>1, Times
  <2>5. (in[2] * in[3]) * in[4] \in Nat
    BY <2>1, <2>4, Times
  <2> QED BY <2>1, <2>2, <2>3, <2>4, <2>5 DEF Cells
<1>2. Within(f, out, ins)
  <2>1. f = [c \in 0 .. (C - 1) |-> Term({<< <<1, p * C + c>> >> : p \in 0 .. (S - 1)},
                                         IF mean THEN S ELSE 1)]
    BY DEF rocket_reduce_spatial
  <2> HIDE DEF f, S, C, in
  <2>2. ASSUME NEW c \in 0 .. (C - 1), NEW p \in 0 .. (S - 1) PROVE p * C + c \in Cells(in)
    <3>1. p * C + c \in Nat /\ p * C + c < S * C
      BY <1>1, Place
    <3> DEFINE v == p * C + c
               V == S * C
    <3>2. v \in Nat /\ v < V /\ V <= Count(in) /\ V \in Nat
      BY <1>1, <3>1
    <3> HIDE DEF v, V
    <3>3. v \in Cells(in)
      BY <1>1, <3>2 DEF Cells
    <3> QED BY <3>3 DEF v
  <2>3. ASSUME NEW c \in 0 .. (C - 1) PROVE TermInside(f[c], ins)
    <3>1. f[c].taps = {<< <<1, p * C + c>> >> : p \in 0 .. (S - 1)}
      BY <2>1 DEF Term
    <3> QED BY <2>2, <3>1 DEF TermInside, in
  <2> QED BY <1>1, <2>1, <2>3 DEF Within
<1>3. Within(h, out, ins)
  <2>1. g = [c \in 0 .. (C - 1) |-> Term({<< <<1, c * S + p>> >> : p \in 0 .. (S - 1)},
                                         IF mean THEN S ELSE 1)]
    BY DEF rocket_globalpool_fp16
  <2>2. \A i \in DOMAIN buf : buf[i] \in Cells(in)
    BY PlanesInside
  <2>3. DOMAIN h = DOMAIN g
    BY DEF Through
  <2> HIDE DEF g, h, S, C, buf
  <2>4. ASSUME NEW c \in 0 .. (C - 1) PROVE TermInside(h[c], ins)
    <3>1. g[c].taps = {<< <<1, c * S + p>> >> : p \in 0 .. (S - 1)} /\ c \in DOMAIN g
      BY <2>1 DEF Term
    <3>2. \A t \in g[c].taps : \A j \in DOMAIN t : t[j][1] # 1 => t[j][2] \in Cells(ins[t[j][1]])
      BY <3>1
    <3> QED BY <2>2, <3>1, <3>2, ThroughReads DEF h
  <2> QED BY <1>1, <2>1, <2>3, <2>4 DEF Within
<1> QED BY <1>2, <1>3

\* PRELU: a slope for each channel, on the host and by plane
LEMMA PreluWithin ==
    ASSUME NEW ins, NEW out, NEW C \in Nat, C > 0, Count(out) \in Nat, Count(out) % C = 0,
           Count(ins[1]) = Count(out), Count(ins[2]) = C
    PROVE  /\ Within(rocket_prelu(Count(out), C), out, ins)
           /\ Within(FromChw(Through(rocket_prelu_fp16(C, Count(out) \div C), 1,
                                     ChwOf(Count(out) \div C, C)), Count(out) \div C, C), out, ins)
<1> DEFINE n == Count(out)
           S == n \div C
           f == rocket_prelu(n, C)
           g == rocket_prelu_fp16(C, S)
           buf == ChwOf(S, C)
           h == Through(g, 1, buf)
<1>1. n \in Nat /\ S \in Nat /\ S * C = n /\ C * S = n
  BY Multiple
<1>2. Cells(out) = 0 .. (n - 1) /\ Cells(ins[1]) = 0 .. (n - 1) /\ Cells(ins[2]) = 0 .. (C - 1)
  BY DEF Cells
<1> HIDE DEF n, S
<1>3. Within(f, out, ins)
  <2>1. f = [i \in 0 .. (n - 1) |-> Term({<< <<1, i>>, <<2, i % C>> >>}, 1)]
    BY DEF rocket_prelu
  <2> HIDE DEF f
  <2>2. ASSUME NEW i \in 0 .. (n - 1) PROVE TermInside(f[i], ins)
    <3>1. f[i].taps = {<< <<1, i>>, <<2, i % C>> >>}
      BY <2>1 DEF Term
    <3>2. i % C \in 0 .. (C - 1)
      BY <1>1
    <3>3. i \in Cells(ins[1]) /\ i % C \in Cells(ins[2])
      BY <1>2, <3>2
    <3>4. \A t \in f[i].taps : \A j \in DOMAIN t : t[j][2] \in Cells(ins[t[j][1]])
      <4> DEFINE r == i % C
      <4>1. r \in Cells(ins[2]) /\ f[i].taps = {<< <<1, i>>, <<2, r>> >>}
        BY <3>1, <3>3
      <4> HIDE DEF r
      <4>2. ASSUME NEW t \in f[i].taps, NEW j \in DOMAIN t PROVE t[j][2] \in Cells(ins[t[j][1]])
        <5>1. t = << <<1, i>>, <<2, r>> >>
          BY <4>1
        <5>2. j \in {1, 2}
          BY <4>2, <5>1
        <5> QED BY <3>3, <4>1, <5>1, <5>2
      <4> QED BY <4>2
    <3> QED BY <3>4 DEF TermInside
  <2> QED BY <1>2, <2>1, <2>2 DEF Within
<1>4. ASSUME NEW i \in DOMAIN buf PROVE buf[i] \in Cells(ins[1])
  <2>1. i \in 0 .. (S * C - 1) /\ buf[i] = (i % S) * C + (i \div S)
    BY <1>4 DEF ChwOf
  <2>2. i \in Nat /\ i < C * S
    BY <1>1, <2>1
  <2> DEFINE q == i \div S
             r == i % S
  <2>3. q \in Nat /\ q < C /\ r \in Nat /\ r < S
    BY <1>1, <2>2, Digits
  <2> HIDE DEF q, r, buf
  <2>4. r * C + q \in Nat /\ r * C + q < S * C
    BY <1>1, <2>3, Place
  <2>5. buf[i] = r * C + q
    BY <2>1 DEF q, r
  <2> QED BY <1>1, <1>2, <2>4, <2>5
<1>5. ASSUME NEW m \in 0 .. (C * S - 1) PROVE TermInside(h[m], ins)
  <2>1. g = [k \in 0 .. (C * S - 1) |-> Term({<< <<1, k>>, <<2, k \div S>> >>}, 1)]
    BY DEF rocket_prelu_fp16
  <2> HIDE DEF g, buf
  <2>2. g[m].taps = {<< <<1, m>>, <<2, m \div S>> >>} /\ m \in DOMAIN g
    BY <2>1 DEF Term
  <2>3. m \in Nat /\ m < C * S
    BY <1>1
  <2>4. m \div S \in Nat /\ m \div S < C
    BY <1>1, <2>3, Digits
  <2>5. m \div S \in Cells(ins[2])
    BY <1>2, <2>4
  <2>6. \A t \in g[m].taps : \A j \in DOMAIN t : t[j][1] # 1 => t[j][2] \in Cells(ins[t[j][1]])
    BY <2>2, <2>5
  <2> QED BY <1>4, <2>2, <2>6, ThroughReads
<1> HIDE DEF f, h
<1>6. S * C <= Count(out) /\ Count(out) \in Nat
  BY <1>1 DEF n
<1>7. Within(FromChw(h, S, C), out, ins)
  BY <1>1, <1>5, <1>6, FromChwWithin
<1> QED BY <1>3, <1>7 DEF f, h, g, buf, n, S

\* A padded row holds its elements first.
LEMMA PaddedInside ==
    ASSUME NEW rows \in Nat, NEW K \in Nat, NEW Kpad \in Nat, K <= Kpad
    PROVE  \A i \in DOMAIN Padded(rows, K, Kpad) : Padded(rows, K, Kpad)[i] \in 0 .. (rows * K - 1)
<1> DEFINE buf == Padded(rows, K, Kpad)
           I == {r * Kpad + c : r \in 0 .. (rows - 1), c \in 0 .. (K - 1)}
           at(i) == (i \div Kpad) * K + (i % Kpad)
<1>1. buf = [i \in I |-> at(i)]
  BY DEF Padded
<1>2. ASSUME NEW i \in DOMAIN buf PROVE buf[i] \in 0 .. (rows * K - 1)
  <2>1. PICK r \in 0 .. (rows - 1), c \in 0 .. (K - 1) : i = r * Kpad + c
    BY <1>1
  <2>2. buf[i] = (i \div Kpad) * K + (i % Kpad)
    <3>1. buf[i] = at(i)
      <4> HIDE DEF I, at, buf
      <4> QED BY <1>1
    <3> QED BY <3>1
  <2>3. c < Kpad /\ c \in Nat /\ r \in Nat /\ r < rows /\ c < K
    BY <2>1
  <2>4. (r * Kpad + c) \div Kpad = r /\ (r * Kpad + c) % Kpad = c
    BY <2>3, DigitIs
  <2> HIDE DEF buf
  <2>5. buf[i] = r * K + c
    BY <2>1, <2>2, <2>4
  <2>6. r * K + c \in Nat /\ r * K + c < rows * K /\ rows * K \in Nat
    BY <2>3, Place, Times
  <2> QED BY <2>5, <2>6
<1> QED BY <1>2

\* The multiply of the NPU routes, over operands padded to Kpad and Npad, with the padding
\* of its result left out, reads inside the matrices it was packed from.
LEMMA PackedWithin ==
    ASSUME NEW ins, NEW out, NEW M \in Nat, NEW K \in Nat, NEW N \in Nat,
           Count(ins[1]) = M * K, Count(ins[2]) = N * K, Count(out) = M * N,
           NEW Kpad \in Nat, K <= Kpad, NEW Npad \in Nat, N <= Npad
    PROVE  Within(Unpadded(Through(Through(rocket_fc_f(M, Kpad, Npad), 1, Padded(M, K, Kpad)),
                                   2, Padded(N, K, Kpad)),
                           M, N, Npad), out, ins)
<1> DEFINE C == Through(Through(rocket_fc_f(M, Kpad, Npad), 1, Padded(M, K, Kpad)),
                        2, Padded(N, K, Kpad))
           mm == rocket_fc_f(M, Kpad, Npad)
           rows == Padded(M, K, Kpad)
           cols == Padded(N, K, Kpad)
           g == Through(mm, 1, rows)
           h == Unpadded(C, M, N, Npad)
<1>1. /\ \A i \in DOMAIN rows : rows[i] \in Cells(ins[1])
      /\ \A i \in DOMAIN cols : cols[i] \in Cells(ins[2])
  BY PaddedInside DEF Cells
<1>2. DOMAIN g = DOMAIN mm /\ C = Through(g, 2, cols)
  BY DEF Through
<1>3. /\ \A m \in 0 .. (M - 1), n \in 0 .. (Npad - 1) : m * Npad + n \in DOMAIN mm
      /\ \A i \in DOMAIN mm :
            /\ i \in 0 .. (M * Npad - 1)
            /\ \A tap \in mm[i].taps :
                  \E m \in 0 .. (M - 1), n \in 0 .. (Npad - 1), k \in 0 .. (Kpad - 1) :
                     tap = << <<1, m * Kpad + k>>, <<2, n * Kpad + k>> >>
  BY ONLY M \in Nat, Kpad \in Nat, Npad \in Nat, MatmulTaps, ZenonT(30) DEF mm
<1> HIDE DEF C, mm, rows, cols
<1>4. ASSUME NEW i \in DOMAIN mm PROVE TermInside(C[i], ins)
  <2>1. \A t \in g[i].taps : \A j \in DOMAIN t :
           \/ t[j][1] = 1 /\ t[j][2] \in Cells(ins[1])
           \/ \E tap \in mm[i].taps : j \in DOMAIN tap /\ tap[j][1] # 1 /\ t[j] = tap[j]
    <3>1. \A e \in DOMAIN rows : rows[e] \in Cells(ins[1])
      BY <1>1
    <3> QED BY ONLY <3>1, i \in DOMAIN mm, ThroughTaps, Z3
  <2>2. ASSUME NEW tap \in mm[i].taps, NEW j \in DOMAIN tap, tap[j][1] # 1 PROVE tap[j][1] = 2
    <3>1. PICK m \in 0 .. (M - 1), n \in 0 .. (Npad - 1), k \in 0 .. (Kpad - 1) :
             tap = << <<1, m * Kpad + k>>, <<2, n * Kpad + k>> >>
      BY <1>3
    <3>2. j \in {1, 2}
      BY <2>2, <3>1
    <3> QED BY <2>2, <3>1, <3>2
  <2> HIDE DEF g
  <2>3. \A t \in g[i].taps : \A j \in DOMAIN t : t[j][1] # 2 => t[j][2] \in Cells(ins[t[j][1]])
    BY <2>1, <2>2
  <2> QED BY <1>1, <1>2, <2>3, ThroughReads
<1>5. M * N \in Nat
  BY Times
<1>6. ASSUME NEW k \in 0 .. (M * N - 1) PROVE (k \div N) * Npad + (k % N) \in DOMAIN mm
  <2>1. k \in Nat /\ k < M * N
    BY <1>5
  <2> DEFINE c == k \div N
             r == k % N
  <2>2. c \in Nat /\ c < M /\ r \in Nat /\ r < N
    BY <2>1, Digits
  <2> HIDE DEF c, r
  <2>3. c * Npad + r \in DOMAIN mm
    BY <1>3, <2>2
  <2> QED BY <2>3 DEF c, r
<1>7. \A k \in 0 .. (M * N - 1) : TermInside(h[k], ins)
  BY <1>4, <1>6 DEF Unpadded
<1>8. DOMAIN h = Cells(out)
  BY DEF Cells, Unpadded
<1> HIDE DEF h
<1>9. Within(h, out, ins)
  BY <1>7, <1>8 DEF Within, Cells
<1> QED BY <1>9 DEF h, C

\* One input of a CONCATENATION, copied where it is laid
LEMMA ConcatWithin ==
    ASSUME NEW ins, NEW out \in Seq(Nat), NEW axis \in 1 .. Len(out), NEW n, ins[n] \in Seq(Nat),
           same_dims_except(ins[n], out, axis), NEW off \in Nat, off + ins[n][axis] <= out[axis]
    PROVE  Within(rocket_concat_in(n, Count(SubSeq(out, 1, axis - 1)), ins[n][axis], out[axis],
                                   Count(SubSeq(out, axis + 1, Len(out))), off), out, ins)
<1> DEFINE in == ins[n]
           outer == Count(SubSeq(out, 1, axis - 1))
           inner == Count(SubSeq(out, axis + 1, Len(out)))
           A == in[axis]
           B == out[axis]
           f == rocket_concat_in(n, outer, A, B, inner, off)
           Q == (0 .. (outer - 1)) \X (0 .. (A - 1)) \X (0 .. (inner - 1))
           dst(q) == (q[1] * B + off + q[2]) * inner + q[3]
           src(q) == (q[1] * A + q[2]) * inner + q[3]
           what(q) == Copy(n, src(q))
<1>1. f = [k \in {dst(q) : q \in Q} |-> what(CHOOSE q \in Q : dst(q) = k)]
  BY DEF rocket_concat_in, Scatter
<1>2. outer \in Nat /\ inner \in Nat /\ Count(out) = (outer * B) * inner
  BY CountAround
<1>3. Len(in) = Len(out) /\ A \in Nat /\ B \in Nat /\ off + A <= B
  BY ShapeDomain DEF same_dims_except
<1>4. Count(in) = (outer * A) * inner
  <2>1. /\ Count(in) = (Count(SubSeq(in, 1, axis - 1)) * A) * Count(SubSeq(in, axis + 1, Len(in)))
    BY <1>3, CountAround
  <2>4. \A d \in 1 .. Len(out) : d # axis => in[d] = out[d]
    <3>1. Len(in) = Len(out) /\ \A d \in DOMAIN in : d # axis => in[d] = out[d]
      BY DEF same_dims_except
    <3>2. DOMAIN in = 1 .. Len(in)
      OBVIOUS
    <3> QED BY <3>1, <3>2
  <2>2. SubSeq(in, 1, axis - 1) = SubSeq(out, 1, axis - 1)
    <3>1. \A d \in 1 .. (axis - 1) : d \in 1 .. Len(out) /\ d # axis
      <4>1. Len(out) \in Nat /\ axis \in 1 .. Len(out)
        OBVIOUS
      <4> QED BY ONLY <4>1
    <3>2. \A d \in 1 .. (axis - 1) : in[d] = out[d]
      BY <2>4, <3>1
    <3> HIDE DEF in
    <3> QED BY <1>3, <3>2
  <2>3. SubSeq(in, axis + 1, Len(in)) = SubSeq(out, axis + 1, Len(out))
    <3>1. \A d \in (axis + 1) .. Len(out) : d \in 1 .. Len(out) /\ d # axis
      <4>1. Len(out) \in Nat /\ axis \in 1 .. Len(out)
        OBVIOUS
      <4> QED BY ONLY <4>1
    <3>2. \A d \in (axis + 1) .. Len(out) : in[d] = out[d]
      BY <2>4, <3>1
    <3> HIDE DEF in
    <3> QED BY <1>3, <3>2
  <2> QED BY <2>1, <2>2, <2>3
<1>5. Count(in) \in Nat /\ Count(out) \in Nat
  BY CountNat
<1> HIDE DEF outer, inner, A, B, f
<1>6. ASSUME NEW q \in Q PROVE dst(q) \in Cells(out) /\ src(q) \in Cells(in)
  <2> DEFINE a == q[1]
             b == q[2]
             c == q[3]
             e == off + b
  <2>1. a \in Nat /\ a < outer /\ b \in Nat /\ b < A /\ c \in Nat /\ c < inner
    <3>1. a \in 0 .. (outer - 1) /\ b \in 0 .. (A - 1) /\ c \in 0 .. (inner - 1)
      OBVIOUS
    <3> HIDE DEF a, b, c
    <3> QED BY <1>2, <1>3, <3>1
  <2>2. e \in Nat /\ e < B
    <3> HIDE DEF b
    <3> QED BY <1>3, <2>1
  <2>3. dst(q) = (a * B + e) * inner + c /\ src(q) = (a * A + b) * inner + c
    <3>1. a * B \in Nat
      BY <1>3, <2>1, Times
    <3>2. a * B + off + b = a * B + e
      BY <2>1, <3>1
    <3> QED BY <3>2
  <2> HIDE DEF a, b, c, e, dst, src
  <2>4. (a * B + e) * inner + c \in Nat /\ (a * B + e) * inner + c < (outer * B) * inner
    BY <1>2, <1>3, <2>1, <2>2, Place3
  <2>5. (a * A + b) * inner + c \in Nat /\ (a * A + b) * inner + c < (outer * A) * inner
    BY <1>2, <1>3, <2>1, <2>2, Place3
  <2>6. dst(q) \in Nat /\ dst(q) < Count(out) /\ src(q) \in Nat /\ src(q) < Count(in)
    BY <1>2, <1>4, <2>3, <2>4, <2>5
  <2> DEFINE u == dst(q)
             v == src(q)
  <2>7. u \in Nat /\ u < Count(out) /\ v \in Nat /\ v < Count(in)
    BY <2>6
  <2> HIDE DEF in, u, v
  <2>8. u \in Cells(out)
    BY <1>5, <2>7 DEF Cells
  <2>9. v \in Cells(in)
    BY <1>5, <2>7 DEF Cells
  <2> QED BY <2>8, <2>9 DEF u, v
<1> HIDE DEF Q, dst, src
<1>7. ASSUME NEW k \in DOMAIN f PROVE k \in Cells(out) /\ TermInside(f[k], ins)
  <2>1. PICK q \in Q : dst(q) = k /\ f[k] = what(q)
    BY <1>1
  <2> QED BY <1>6, <2>1, ReadsCopy
<1>8. Within(f, out, ins)
  BY <1>7 DEF Within
<1> QED BY <1>8 DEF f, outer, inner, A, B

-----------------------------------------------------------------------------
(* SLICE and STRIDED_SLICE.                                                *)

\* The smaller and the larger of two
LEMMA Pair ==
    ASSUME NEW a \in Int, NEW b \in Int
    PROVE  Min({a, b}) \in {a, b} /\ Min({a, b}) <= a /\ Min({a, b}) <= b
           /\ Max({a, b}) \in {a, b} /\ Max({a, b}) >= a /\ Max({a, b}) >= b
<1>1. \E m \in {a, b} : \A e \in {a, b} : m <= e
  BY a <= b \/ b <= a
<1>2. \E m \in {a, b} : \A e \in {a, b} : m >= e
  BY a <= b \/ b <= a
<1> DEFINE S == {a, b}
<1>3. a \in S /\ b \in S
  OBVIOUS
<1> HIDE DEF S
<1>4. Min(S) \in S /\ \A e \in S : Min(S) <= e
  BY <1>1 DEF Min, S
<1>5. Max(S) \in S /\ \A e \in S : Max(S) >= e
  BY <1>2 DEF Max, S
<1>6. /\ Min(S) <= a /\ Min(S) <= b /\ Min(S) \in S
      /\ Max(S) >= a /\ Max(S) >= b /\ Max(S) \in S
  BY <1>3, <1>4, <1>5
<1> QED BY <1>6 DEF S

\* Where the first and the last index gathered are inside, so are those between:
\* eval_slice looks at two ends, the kernel steps through all of them.
LEMMA BetweenInside ==
    ASSUME NEW begin \in Int, NEW size \in Int, NEW step \in Int, NEW dim \in Nat,
           Inside(begin, size, step, dim), NEW i \in 0 .. (size - 1)
    PROVE  begin + i * step \in 0 .. (dim - 1)
<1> DEFINE last == begin + (size - 1) * step
<1>1. last \in Int
  OBVIOUS
<1>2. step # 0 /\ Min({begin, last}) >= 0 /\ Max({begin, last}) < dim
  BY DEF Inside
<1> HIDE DEF last
<1>3. begin >= 0 /\ last >= 0 /\ begin < dim /\ last < dim
  BY <1>1, <1>2, Pair
<1> DEFINE j == size - 1 - i
<1>4. i \in Nat /\ j \in Nat
  OBVIOUS
<1>5. last = (begin + i * step) + j * step
  BY DEF last
<1> HIDE DEF j
<1> DEFINE v == begin + i * step
<1>6. CASE step > 0
  <2>1. i * step \in Nat /\ j * step \in Nat
    BY <1>4, <1>6, Times
  <2> QED BY <1>1, <1>3, <1>5, <2>1
<1>7. CASE step < 0
  <2>1. PICK s \in Nat : step = -s
    <3>1. -step \in Nat /\ step = -(-step)
      BY <1>7
    <3> QED BY <3>1
  <2>2. i * s \in Nat /\ j * s \in Nat
    BY <1>4, Times
  <2>3. i * step = -(i * s) /\ j * step = -(j * s)
    BY <1>4, <2>1
  <2> QED BY <1>1, <1>3, <1>5, <2>2, <2>3
<1> QED BY <1>2, <1>6, <1>7

\* A slice whose axes are all checked reads inside, and is as long as it says.
LEMMA GatherWithin ==
    ASSUME NEW ins, ins[1] \in Seq(Nat), NEW size \in Seq(Int), Len(size) = Len(ins[1]),
           NEW begin, NEW stride,
           \A d \in DOMAIN ins[1] : begin[d] \in Int /\ stride[d] \in Int,
           \A d \in DOMAIN ins[1] : Inside(begin[d], size[d], stride[d], ins[1][d])
    PROVE  Within(rocket_strided_slice_bytes(ins[1], begin, stride, size), size, ins)
<1>1. DOMAIN ins[1] = 1 .. Len(ins[1]) /\ DOMAIN size = DOMAIN ins[1] /\ Len(ins[1]) \in Nat
  BY ShapeDomain
<1>2. ASSUME NEW d \in DOMAIN size
      PROVE  /\ begin[d] \in Int /\ stride[d] \in Int /\ size[d] \in Nat /\ ins[1][d] \in Nat
             /\ Inside(begin[d], size[d], stride[d], ins[1][d])
  <2>1. begin[d] \in Int /\ stride[d] \in Int /\ size[d] \in Int /\ ins[1][d] \in Nat
    BY <1>1, ShapeDomain
  <2>2. Inside(begin[d], size[d], stride[d], ins[1][d])
    BY <1>1
  <2>3. size[d] >= 0
    BY <2>2 DEF Inside
  <2> QED BY <2>1, <2>2, <2>3
<1>3. size \in Seq(Nat)
  BY <1>1, <1>2
<1>4. \A d \in DOMAIN size : \A i \in 0 .. (size[d] - 1) :
         begin[d] + i * stride[d] \in 0 .. (ins[1][d] - 1)
  <2> TAKE d \in DOMAIN size
  <2> DEFINE b == begin[d]
             s == stride[d]
             n == size[d]
             e == ins[1][d]
  <2>1. b \in Int /\ s \in Int /\ n \in Int /\ e \in Nat /\ Inside(b, n, s, e)
    BY <1>2
  <2> HIDE DEF b, s, n, e
  <2>2. \A i \in 0 .. (n - 1) : b + i * s \in 0 .. (e - 1)
    BY <2>1, BetweenInside
  <2> QED BY <2>2 DEF b, s, n, e
<1> QED BY <1>3, <1>4, StridedWithin

\* How many axes of the input a position of a spec stands for
Widths(n) ==
    [s \in DOMAIN n.p.spec |-> IF n.p.spec[s].kind = "new" THEN 0
                               ELSE IF n.p.spec[s].kind = "ellipsis" THEN EllAxes(n) ELSE 1]

\* Sets apart have as many elements as both.
LEMMA Apart ==
    ASSUME NEW S, IsFiniteSet(S), NEW T, IsFiniteSet(T), S \cap T = {}
    PROVE  IsFiniteSet(S \cup T) /\ Cardinality(S \cup T) = Cardinality(S) + Cardinality(T)
<1>1. Cardinality(S \cap T) = 0
  BY FS_EmptySet
<1>2. Cardinality(S) \in Nat /\ Cardinality(T) \in Nat
  BY FS_CardinalityType
<1>3. Cardinality(S \cup T) = Cardinality(S) + Cardinality(T) - Cardinality(S \cap T)
  BY FS_Union
<1> QED BY <1>1, <1>2, <1>3, FS_Union

\* All together no more than it has, where the ellipsis, alone, has a width.
LEMMA WidthsFit ==
    ASSUME NEW n, n.p.spec \in Seq(SpecEntry), Len(n.ins[1]) \in Nat, EllAxes(n) >= 0,
           Cardinality(OfKind(n.p.spec, "ellipsis")) <= 1
    PROVE  /\ EllAxes(n) \in Nat
           /\ \A s \in DOMAIN n.p.spec : Widths(n)[s] \in Nat
           /\ SumFunctionOnSet(Widths(n), DOMAIN n.p.spec) <= Len(n.ins[1])
<1> DEFINE spec == n.p.spec
           L == Len(spec)
           I == DOMAIN spec
           k == EllAxes(n)
           w == Widths(n)
           A == OfKind(spec, "new")
           E == OfKind(spec, "ellipsis")
           C == I \ (A \cup E)
           f == [s \in I |-> IF s \in C THEN 1 ELSE 0]
           g == [s \in I |-> IF s \in E THEN 1 ELSE 0]
<1>1. L \in Nat /\ I = 1 .. L /\ A \subseteq I /\ E \subseteq I /\ C \subseteq I /\ A \cap E = {}
  BY DEF OfKind
<1>2. IsFiniteSet(I) /\ Cardinality(I) = L
  <2> HIDE DEF L, I
  <2>1. IsFiniteSet(1 .. L) /\ Cardinality(1 .. L) = L
    BY <1>1, FS_Interval
  <2> QED BY <1>1, <2>1
<1>3. /\ IsFiniteSet(A) /\ IsFiniteSet(E) /\ IsFiniteSet(C)
      /\ Cardinality(A) \in Nat /\ Cardinality(E) \in Nat /\ Cardinality(C) \in Nat
  <2> HIDE DEF L, I, A, E, C
  <2>1. IsFiniteSet(A) /\ IsFiniteSet(E) /\ IsFiniteSet(C)
    BY <1>1, <1>2, FS_Subset
  <2> QED BY <2>1, FS_CardinalityType
<1>4. k = Len(n.ins[1]) - ((L - Cardinality(A)) - Cardinality(E))
  BY DEF EllAxes
<1>5. k \in Int
  <2> HIDE DEF k, L, A, E
  <2> QED BY <1>1, <1>3, <1>4
<1>6. \A s \in I : w[s] = f[s] + k * g[s] /\ f[s] \in Int /\ g[s] \in Int
  <2> TAKE s \in I
  <2>1. k \in Int
    BY <1>5
  <2>2. w[s] = IF s \in A THEN 0 ELSE IF s \in E THEN k ELSE 1
    BY DEF Widths, OfKind
  <2>3. f[s] = (IF s \in A \cup E THEN 0 ELSE 1) /\ g[s] = IF s \in E THEN 1 ELSE 0
    OBVIOUS
  <2> HIDE DEF k, f, g, w, A, E
  <2>4. CASE s \in E
    BY <1>1, <2>1, <2>2, <2>3, <2>4
  <2>5. CASE s \notin E
    BY <2>1, <2>2, <2>3, <2>5
  <2> QED BY <2>4, <2>5
<1>7. L = Cardinality(C) + Cardinality(A) + Cardinality(E)
  <2> HIDE DEF A, E, I, L
  <2>1. C \cup (A \cup E) = I /\ C \cap (A \cup E) = {}
    BY <1>1
  <2> HIDE DEF C
  <2>2. IsFiniteSet(A \cup E) /\ Cardinality(A \cup E) = Cardinality(A) + Cardinality(E)
    BY <1>1, <1>3, Apart
  <2>3. Cardinality(C \cup (A \cup E)) = Cardinality(C) + Cardinality(A \cup E)
    BY <1>3, <2>1, <2>2, Apart
  <2>4. C \cup (A \cup E) = I
    BY <2>1
  <2>5. Cardinality(I) = Cardinality(C) + Cardinality(A \cup E)
    BY <2>3, <2>4
  <2>6. L = Cardinality(C) + (Cardinality(A) + Cardinality(E))
    BY <1>2, <2>2, <2>5
  <2> QED BY <1>3, <2>6
<1>8. \A s \in I : s \notin C => f[s] = 0
  OBVIOUS
<1>9. \A s \in C : f[s] = 1
  BY <1>1
<1>10. (\A s \in I : s \notin E => g[s] = 0) /\ \A s \in E : g[s] = 1
  BY <1>1
<1> HIDE DEF f, g, w, k, A, E, C, I, L
<1>11. k \in Nat /\ k = Len(n.ins[1]) - Cardinality(C)
  <2>1. k >= 0
    BY DEF k
  <2> QED BY <1>1, <1>3, <1>4, <1>5, <1>7, <2>1
<1>12. SumFunctionOnSet(f, I) = Cardinality(C) /\ SumFunctionOnSet(g, I) = Cardinality(E)
  <2>1. SumFunctionOnSet(f, I) = SumFunctionOnSet(f, C)
    BY <1>1, <1>2, <1>6, <1>8, SumSupport
  <2>2. SumFunctionOnSet(g, I) = SumFunctionOnSet(g, E)
    BY <1>1, <1>2, <1>6, <1>10, SumSupport
  <2> QED BY <1>3, <1>9, <1>10, <2>1, <2>2, SumOnes
<1>13. SumFunctionOnSet(w, I) = SumFunctionOnSet(f, I) + k * SumFunctionOnSet(g, I)
  BY <1>2, <1>6, <1>11, SumLinear
<1>14. SumFunctionOnSet(w, I) <= Len(n.ins[1])
  <2>1. Cardinality(E) = 0 \/ Cardinality(E) = 1
    <3>1. Cardinality(E) <= 1
      BY DEF E, spec
    <3> QED BY <1>3, <3>1
  <2>2. k * Cardinality(E) <= k
    BY <1>11, <2>1
  <2> QED BY <1>3, <1>11, <1>12, <1>13, <2>1, <2>2
<1>15. \A s \in I : w[s] \in Nat
  BY <1>11 DEF w, I, k, spec, Widths
<1> QED BY <1>11, <1>14, <1>15 DEF k, w, I, spec

\* What each position of a spec makes of an axis: where it starts and how far it goes,
\* and, where the pass does not give up, that the steps it counts stay on the axis
Steps(a, dim) ==
    /\ a.begin \in Int /\ a.size \in Nat /\ a.stride \in Int /\ a.ok \in BOOLEAN
    /\ a.ok /\ a.size > 0 => Inside(a.begin, a.size, a.stride, dim)

\* A count of steps that does not pass a limit
LEMMA LastStep ==
    ASSUME NEW r \in Nat, r > 0, NEW s \in Nat, s > 0
    PROVE  CeilDiv(r, s) \in Nat /\ CeilDiv(r, s) > 0 /\ (CeilDiv(r, s) - 1) * s < r
           /\ (CeilDiv(r, s) - 1) * s \in Nat
<1> DEFINE q == (r + s - 1) \div s
           t == (r + s - 1) % s
<1>1. q \in Int /\ t \in 0 .. (s - 1) /\ r + s - 1 = q * s + t
  OBVIOUS
<1>2. CeilDiv(r, s) = q
  BY DEF CeilDiv
<1> HIDE DEF q, t
<1>3. (q - 1) * s = q * s - s
  BY <1>1
<1>4. (q - 1) * s < r /\ q * s > 0
  BY <1>1, <1>3
<1>5. q > 0
  <2>1. CASE q <= 0
    <3>1. PICK e \in Nat : q = -e
      BY <1>1, <2>1
    <3>2. e * s \in Nat /\ q * s = -(e * s)
      BY <3>1, Times
    <3> QED BY <1>4, <3>2
  <2> QED BY <1>1, <2>1
<1>6. q - 1 \in Nat /\ (q - 1) * s \in Nat
  BY <1>1, <1>5, Times
<1> QED BY <1>2, <1>4, <1>5, <1>6, <1>1

\* The two ends of steps forward, and of steps back
LEMMA StepsInside ==
    ASSUME NEW b \in Int, NEW z \in Nat, z > 0, NEW t \in Int, t # 0, NEW dim \in Nat,
           b >= 0, b < dim, b + (z - 1) * t >= 0, b + (z - 1) * t < dim
    PROVE  Inside(b, z, t, dim)
<1> DEFINE last == b + (z - 1) * t
<1>1. last \in Int
  BY Times
<1> HIDE DEF last
<1>2. Min({b, last}) \in {b, last} /\ Max({b, last}) \in {b, last}
  <2>1. \E e \in {b, last} : \A y \in {b, last} : e <= y
    BY <1>1
  <2>2. \E e \in {b, last} : \A y \in {b, last} : e >= y
    BY <1>1
  <2> QED BY <2>1, <2>2 DEF Min, Max
<1>3. last >= 0 /\ last < dim
  BY DEF last
<1> QED BY <1>2, <1>3 DEF Inside, last

\* The bounds, clamped, and the count of steps between them
LEMMA SpecAxisSteps ==
    ASSUME NEW r \in SpecEntry, r.s # 0, NEW dim \in Nat
    PROVE  Steps(SpecAxis(r, dim), dim)
<1> DEFINE shrink == r.kind = "shrink"
           start == ss_start_for_axis(r.b, r.s, r.bm, dim)
           stop == ss_stop_for_axis(r.e, r.s, r.em, shrink, start, dim)
           range == stop - start
           cnt == IF r.s > 0 THEN (IF range <= 0 THEN 0 ELSE CeilDiv(range, r.s))
                  ELSE IF range >= 0 THEN 0 ELSE CeilDiv(-range, -r.s)
           t == r.s
<1>1. r.b \in Int /\ r.e \in Int /\ t \in Int /\ t # 0 /\ r.bm \in BOOLEAN /\ r.em \in BOOLEAN
  BY DEF SpecEntry
<1>2. SpecAxis(r, dim) = [begin |-> start, size |-> IF shrink THEN 1 ELSE cnt, stride |-> t,
                          shrink |-> shrink,
                          ok |-> IF shrink THEN start \in 0 .. (dim - 1) ELSE cnt > 0]
  BY DEF SpecAxis
<1>3. start \in Int
  BY <1>1 DEF ss_start_for_axis, Clamp, FromEnd
<1>4. dim > 0 => start >= 0 /\ (t < 0 => start < dim)
  BY <1>1 DEF ss_start_for_axis, Clamp, FromEnd
<1>5. dim = 0 => start = 0
  BY DEF ss_start_for_axis
<1> HIDE DEF start
<1>6. stop \in Int
  BY <1>1, <1>3 DEF ss_stop_for_axis, Clamp, FromEnd
<1>7. ~shrink /\ dim > 0 => (t > 0 => stop <= dim) /\ (t < 0 => stop >= -1)
  BY <1>1, <1>3 DEF ss_stop_for_axis, Clamp, FromEnd
<1>8. ~shrink /\ dim = 0 => stop = 0
  BY DEF ss_stop_for_axis
<1> HIDE DEF stop
<1>9. range \in Int
  BY <1>3, <1>6
<1>10. CASE shrink
  <2>2. start \in 0 .. (dim - 1) => Inside(start, 1, t, dim)
    <3> SUFFICES ASSUME start \in 0 .. (dim - 1) PROVE Inside(start, 1, t, dim)
      OBVIOUS
    <3>1. (1 - 1) * t = 0
      BY <1>1
    <3> QED BY <1>1, <3>1, StepsInside
  <2> HIDE DEF cnt
  <2>3. SpecAxis(r, dim) = [begin |-> start, size |-> 1, stride |-> t, shrink |-> shrink,
                            ok |-> start \in 0 .. (dim - 1)]
    BY <1>2, <1>10
  <2> DEFINE a == SpecAxis(r, dim)
             ok == start \in 0 .. (dim - 1)
  <2>4. a.begin = start /\ a.size = 1 /\ a.stride = t /\ a.ok = ok
    BY <2>3
  <2>5. ok \in BOOLEAN /\ (ok => Inside(start, 1, t, dim))
    BY <2>2
  <2> HIDE DEF a, ok
  <2>6. Steps(a, dim)
    BY <1>1, <1>3, <2>4, <2>5 DEF Steps
  <2> QED BY <2>6 DEF a
<1>11. CASE ~shrink /\ t > 0 /\ range > 0
  <2>1. t \in Nat /\ range \in Nat /\ cnt = CeilDiv(range, t)
    BY <1>1, <1>9, <1>11
  <2>2. cnt \in Nat /\ cnt > 0 /\ (cnt - 1) * t < range /\ (cnt - 1) * t \in Nat
    BY <1>11, <2>1, LastStep
  <2> HIDE DEF cnt
  <2>3. dim > 0
    BY <1>5, <1>8, <1>11
  <2> DEFINE e == (cnt - 1) * t
  <2>4. e < range /\ e \in Nat
    BY <2>2
  <2> HIDE DEF e
  <2>5. start + e < dim /\ start + e >= 0 /\ start < dim /\ start >= 0
    BY <1>3, <1>4, <1>6, <1>7, <1>11, <2>3, <2>4
  <2>6. Inside(start, cnt, t, dim)
    BY <1>1, <1>3, <2>2, <2>5, StepsInside DEF e
  <2> QED BY <1>1, <1>2, <1>3, <1>11, <2>2, <2>6 DEF Steps
<1>12. CASE ~shrink /\ t < 0 /\ range < 0
  <2> DEFINE u == -t
             v == -range
  <2>1. u \in Nat /\ u > 0 /\ v \in Nat /\ v > 0 /\ cnt = CeilDiv(v, u)
    BY <1>1, <1>9, <1>12
  <2>2. cnt \in Nat /\ cnt > 0 /\ (cnt - 1) * u < v /\ (cnt - 1) * u \in Nat
    BY <2>1, LastStep
  <2> HIDE DEF cnt
  <2>3. dim > 0
    BY <1>5, <1>8, <1>12
  <2> DEFINE e == (cnt - 1) * u
             f == (cnt - 1) * t
  <2>4. e < v /\ e \in Nat /\ f = -e
    <3>1. f = -e
      BY <1>1, <2>2
    <3> QED BY <2>2, <3>1
  <2> HIDE DEF e, f
  <2>5. start + f < dim /\ start + f >= 0 /\ start < dim /\ start >= 0
    BY <1>3, <1>4, <1>6, <1>7, <1>12, <2>3, <2>4
  <2>6. Inside(start, cnt, t, dim)
    BY <1>1, <1>3, <2>2, <2>5, StepsInside DEF f
  <2> QED BY <1>1, <1>2, <1>3, <1>12, <2>2, <2>6 DEF Steps
<1>13. CASE ~shrink /\ ~(t > 0 /\ range > 0) /\ ~(t < 0 /\ range < 0)
  <2>1. cnt = 0
    BY <1>1, <1>9, <1>13
  <2> HIDE DEF cnt
  <2> QED BY <1>1, <1>2, <1>3, <1>13, <2>1 DEF Steps
<1> QED BY <1>10, <1>11, <1>12, <1>13

\* A whole axis is stepped through by one.
LEMMA FullAxisSteps ==
    ASSUME NEW dim \in Nat
    PROVE  Steps(FullAxis(dim), dim)
<1>1. dim > 0 => Inside(0, dim, 1, dim)
  <2>1. (dim - 1) * 1 = dim - 1
    OBVIOUS
  <2> QED BY <2>1, StepsInside
<1> QED BY <1>1 DEF Steps, FullAxis

\* Whole axes, behind those there are
LEMMA WholeAre ==
    ASSUME NEW S, NEW v \in Seq(S), NEW k \in Nat, NEW in \in Seq(Nat)
    PROVE  /\ Len(WholeAxes(v, k, in)) = Len(v) + k
           /\ DOMAIN WholeAxes(v, k, in) = 1 .. (Len(v) + k)
           /\ \A d \in 1 .. (Len(v) + k) :
                 WholeAxes(v, k, in)[d] = IF d <= Len(v) THEN v[d] ELSE FullAxis(in[d])
<1> DEFINE tail == [e \in 1 .. k |-> FullAxis(in[Len(v) + e])]
           T == S \cup {FullAxis(in[j]) : j \in Nat}
           W == v \o tail
           m == Len(v)
<1>1. m \in Nat /\ v \in Seq(T)
  OBVIOUS
<1>2. tail \in Seq(T) /\ Len(tail) = k /\ \A e \in 1 .. k : tail[e] = FullAxis(in[m + e])
  <2>1. \A e \in 1 .. k : tail[e] = FullAxis(in[m + e]) /\ m + e \in Nat
    BY <1>1
  <2>2. tail = [e \in 1 .. k |-> tail[e]]
    OBVIOUS
  <2>3. \A e \in 1 .. k : tail[e] \in T
    BY <2>1
  <2> HIDE DEF T, tail
  <2> QED BY <2>1, <2>2, <2>3, AsSequence
<1> HIDE DEF T, tail, m
<1>3. /\ Len(W) = m + k /\ DOMAIN W = 1 .. (m + k)
      /\ \A d \in 1 .. (m + k) : W[d] = IF d <= m THEN v[d] ELSE tail[d - m]
  <2>1. /\ W \in Seq(T) /\ Len(W) = Len(v) + Len(tail)
        /\ \A d \in 1 .. (Len(v) + Len(tail)) : W[d] = IF d <= Len(v) THEN v[d] ELSE tail[d - Len(v)]
    BY <1>1, <1>2, ConcatProperties
  <2> QED BY <1>2, <2>1 DEF m
<1>4. ASSUME NEW d \in 1 .. (m + k), ~(d <= m) PROVE tail[d - m] = FullAxis(in[d])
  <2>1. d - m \in 1 .. k /\ m + (d - m) = d
    BY <1>1, <1>4
  <2> QED BY <1>2, <2>1
<1> HIDE DEF W
<1>5. \A d \in 1 .. (m + k) : W[d] = IF d <= m THEN v[d] ELSE FullAxis(in[d])
  BY <1>3, <1>4
<1>6. W = WholeAxes(v, k, in)
  BY DEF WholeAxes, W, tail
<1> QED BY <1>3, <1>5, <1>6 DEF m

\* The axes the positions up to s take, and which entry an axis has: that of the
\* position that takes it, or, under the ellipsis and behind them all, the whole axis
AxesUpTo(n, s) == SumFunctionOnSet(Widths(n), 1 .. s)
Entry(n, e, d) ==
    \/ \E s \in Consuming(n.p.spec) : AxesUpTo(n, s - 1) + 1 = d /\ e = SpecAxis(n.p.spec[s], n.ins[1][d])
    \/ (\A s \in Consuming(n.p.spec) : AxesUpTo(n, s - 1) + 1 # d) /\ e = FullAxis(n.ins[1][d])

\* Position by position the axes add up, and a position that takes one takes the next.
LEMMA AxesAdd ==
    ASSUME NEW n, n.p.spec \in Seq(SpecEntry), Len(n.ins[1]) \in Nat, EllAxes(n) >= 0,
           Cardinality(OfKind(n.p.spec, "ellipsis")) <= 1
    PROVE  /\ AxesUpTo(n, 0) = 0
           /\ \A s \in 0 .. Len(n.p.spec) :
                 /\ AxesUpTo(n, s) \in Nat /\ AxesUpTo(n, s) <= Len(n.ins[1])
                 /\ \A t \in s .. Len(n.p.spec) : AxesUpTo(n, s) <= AxesUpTo(n, t)
           /\ \A s \in 1 .. Len(n.p.spec) : AxesUpTo(n, s) = AxesUpTo(n, s - 1) + Widths(n)[s]
           /\ \A s \in Consuming(n.p.spec) :
                 s \in 1 .. Len(n.p.spec) /\ AxesUpTo(n, s) = AxesUpTo(n, s - 1) + 1
<1> DEFINE L == Len(n.p.spec)
           w == Widths(n)
<1>1. L \in Nat /\ DOMAIN n.p.spec = 1 .. L
  OBVIOUS
<1>2. (\A s \in 1 .. L : w[s] \in Nat) /\ SumFunctionOnSet(w, 1 .. L) <= Len(n.ins[1])
  BY <1>1, WidthsFit
<1>3. \A s \in Consuming(n.p.spec) : s \in 1 .. L /\ w[s] = 1
  BY <1>1 DEF Consuming, Widths
<1> HIDE DEF L, w
<1>4. ASSUME NEW s \in 0 .. L, NEW t \in s .. L
      PROVE  AxesUpTo(n, s) <= AxesUpTo(n, t) /\ AxesUpTo(n, s) \in Nat /\ AxesUpTo(n, t) \in Nat
  <2> DEFINE I == 1 .. s
             J == (s + 1) .. t
             K == 1 .. t
  <2>1. s \in Int /\ t \in Int /\ s + 1 \in Int
    BY <1>1
  <2>2. IsFiniteSet(I) /\ IsFiniteSet(J)
    BY <2>1, FS_Interval
  <2>3. I \cup J = K /\ I \cap J = {} /\ K \subseteq 1 .. L
    BY <1>1
  <2>4. AxesUpTo(n, s) = SumFunctionOnSet(w, I) /\ AxesUpTo(n, t) = SumFunctionOnSet(w, K)
    BY DEF AxesUpTo, w
  <2> HIDE DEF I, J, K
  <2>5. (\A e \in I : w[e] \in Nat) /\ (\A e \in J : w[e] \in Nat)
    BY <1>2, <2>3
  <2>6. SumFunctionOnSet(w, I \cup J) = SumFunctionOnSet(w, I) + SumFunctionOnSet(w, J)
    <3>1. \A e \in I \cup J : w[e] \in Int
      BY <2>5
    <3> QED BY <2>2, <2>3, <3>1, SumUnion
  <2>7. SumFunctionOnSet(w, I) \in Nat /\ SumFunctionOnSet(w, J) \in Nat
    BY <2>2, <2>5, SumNat
  <2> DEFINE A == SumFunctionOnSet(w, I)
             B == SumFunctionOnSet(w, J)
  <2>8. AxesUpTo(n, t) = A + B /\ AxesUpTo(n, s) = A /\ A \in Nat /\ B \in Nat
    BY <2>3, <2>4, <2>6, <2>7
  <2> HIDE DEF A, B
  <2> QED BY ONLY <2>8
<1>5. ASSUME NEW s \in 1 .. L PROVE AxesUpTo(n, s) = AxesUpTo(n, s - 1) + w[s]
  <2> DEFINE I == 1 .. s
             K == 1 .. (s - 1)
  <2>1. s \in Int /\ IsFiniteSet(I)
    BY <1>1, FS_Interval
  <2>2. I \ {s} = K /\ s \in I /\ I \subseteq 1 .. L
    BY <1>1
  <2>3. AxesUpTo(n, s) = SumFunctionOnSet(w, I) /\ AxesUpTo(n, s - 1) = SumFunctionOnSet(w, K)
    BY DEF AxesUpTo, w
  <2> HIDE DEF I, K
  <2>4. \A e \in I : w[e] \in Int
    BY <1>2, <2>2
  <2>5. \A e \in I : SumFunctionOnSet(w, I) = w[e] + SumFunctionOnSet(w, I \ {e})
    BY <2>1, <2>4, SumTake
  <2>7. AxesUpTo(n, s) = w[s] + AxesUpTo(n, s - 1)
    BY <2>2, <2>3, <2>5
  <2>6. SumFunctionOnSet(w, K) \in Nat /\ w[s] \in Nat
    <3>1. s - 1 \in 0 .. L /\ s - 1 \in (s - 1) .. L
      BY <1>1
    <3> QED BY <1>2, <1>4, <2>3, <3>1
  <2>8. AxesUpTo(n, s - 1) \in Nat
    BY <2>3, <2>6
  <2> QED BY ONLY <2>6, <2>7, <2>8
<1>6. ASSUME NEW s \in 0 .. L PROVE AxesUpTo(n, s) <= Len(n.ins[1])
  <2>1. L \in s .. L /\ AxesUpTo(n, L) = SumFunctionOnSet(w, 1 .. L)
    BY <1>1 DEF AxesUpTo, w
  <2>2. AxesUpTo(n, s) <= AxesUpTo(n, L) /\ AxesUpTo(n, s) \in Nat /\ AxesUpTo(n, L) \in Nat
    BY <1>4, <2>1
  <2> QED BY <1>2, <2>1, <2>2
<1>7. AxesUpTo(n, 0) = 0
  <2>1. 1 .. 0 = {}
    OBVIOUS
  <2> QED BY <2>1, SumEmpty DEF AxesUpTo
<1>8. \A s \in 0 .. L : AxesUpTo(n, s) \in Nat
  <2>1. \A s \in 0 .. L : s \in s .. L
    BY <1>1
  <2> QED BY <1>4, <2>1
<1>9. \A s \in Consuming(n.p.spec) : s \in 1 .. L /\ AxesUpTo(n, s) = AxesUpTo(n, s - 1) + 1
  BY <1>3, <1>5
<1> QED BY <1>4, <1>5, <1>6, <1>7, <1>8, <1>9 DEF L, w

\* The spec, expanded, has an entry for each axis of the input.
LEMMA ExpansionIs ==
    ASSUME NEW n, n.p.spec \in Seq(SpecEntry), n.ins[1] \in Seq(Nat), EllAxes(n) >= 0,
           Cardinality(OfKind(n.p.spec, "ellipsis")) <= 1,
           \A s \in Consuming(n.p.spec) : n.p.spec[s].s # 0
    PROVE  /\ DOMAIN ExpandSpec(n) = DOMAIN n.ins[1]
           /\ \A d \in DOMAIN n.ins[1] : Entry(n, ExpandSpec(n)[d], d)
<1> DEFINE in == n.ins[1]
           spec == n.p.spec
           L == Len(spec)
           k == EllAxes(n)
           E == {FullAxis(in[j]) : j \in Nat} \cup {SpecAxis(spec[s], in[j]) : s \in 1 .. L, j \in Nat}
           V == Seq(E)
           w == Widths(n)
           Solves(a) == a = [s \in 0 .. L |-> IF s = 0 THEN << >> ELSE Expanded(a[s - 1], spec[s], n)]
<1>1. /\ L \in Nat /\ DOMAIN spec = 1 .. L /\ \A s \in 1 .. L : spec[s] \in SpecEntry
      /\ Len(in) \in Nat /\ DOMAIN in = 1 .. Len(in) /\ \A d \in 1 .. Len(in) : in[d] \in Nat
  BY ShapeDomain
<1>2. /\ k \in Nat
      /\ \A s \in 1 .. L : w[s] \in Nat
  BY <1>1, WidthsFit
<1>3. \A j \in Nat : FullAxis(in[j]) \in E /\ \A s \in 1 .. L : SpecAxis(spec[s], in[j]) \in E
  OBVIOUS
<1>4. ASSUME NEW m \in Nat, NEW v \in V PROVE WholeAxes(v, m, in) \in V
  <2> DEFINE tail == [e \in 1 .. m |-> FullAxis(in[Len(v) + e])]
  <2>1. tail \in Seq(E)
    <3>1. \A e \in 1 .. m : Len(v) + e \in Nat /\ tail[e] = FullAxis(in[Len(v) + e])
      OBVIOUS
    <3>2. tail = [e \in 1 .. m |-> tail[e]]
      OBVIOUS
    <3>3. \A e \in 1 .. m : tail[e] \in E
      <4> HIDE DEF E, tail
      <4> QED BY <1>3, <3>1
    <3> HIDE DEF E, tail
    <3> QED BY <3>2, <3>3, AsSequence
  <2> HIDE DEF E, tail
  <2>2. v \o tail \in Seq(E)
    BY <2>1, ConcatProperties
  <2> QED BY <2>2 DEF WholeAxes, tail
<1>5. ASSUME NEW s \in 1 .. L, NEW v \in V PROVE Expanded(v, spec[s], n) \in V
  <2>1. WholeAxes(v, k, in) \in V
    <3> HIDE DEF k, V
    <3> QED BY <1>2, <1>4
  <2>2. Append(v, SpecAxis(spec[s], in[Len(v) + 1])) \in V
    <3>1. Len(v) + 1 \in Nat
      OBVIOUS
    <3> DEFINE e == SpecAxis(spec[s], in[Len(v) + 1])
    <3>2. e \in E
      BY <1>3, <3>1
    <3> HIDE DEF E, e
    <3>3. Append(v, e) \in Seq(E)
      BY <3>2
    <3> QED BY <3>3 DEF e
  <2> QED BY <2>1, <2>2 DEF Expanded
<1> HIDE DEF E
<1>6. << >> \in V
  OBVIOUS
<1> DEFINE step == [q \in (1 .. L) \X V |-> Expanded(q[2], spec[q[1]], n)]
<1>7. \A s \in 1 .. L : \A v \in V : step[<<s, v>>] = Expanded(v, spec[s], n)
  OBVIOUS
<1> HIDE DEF V, step, L, k, w
<1>8. Iterates(L, V, << >>, step) # {}
  BY <1>1, <1>5, <1>6, <1>7, Recursion
<1>9. PICK f \in [0 .. L -> V] : f[0] = << >> /\ \A s \in 1 .. L : f[s] = step[<<s, f[s - 1]>>]
  BY <1>8 DEF Iterates
<1>10. \A s \in 0 .. L : f[s] = IF s = 0 THEN << >> ELSE Expanded(f[s - 1], spec[s], n)
  <2> TAKE s \in 0 .. L
  <2>1. CASE s = 0
    BY <1>9, <2>1
  <2>2. CASE s # 0
    <3>1. s \in 1 .. L /\ s - 1 \in 0 .. L
      BY <1>1, <2>2
    <3>2. f[s - 1] \in V
      BY <1>9, <3>1
    <3> QED BY <1>7, <1>9, <2>2, <3>1, <3>2
  <2> QED BY <2>1, <2>2
<1>11. Solves(f)
  BY <1>9, <1>10
<1> DEFINE a == CHOOSE it : Solves(it)
<1>12. Solves(a)
  BY <1>11
<1>13. ExpandSpec(n) = WholeAxes(a[L], Len(in) - Len(a[L]), in)
  BY DEF ExpandSpec, L
<1> HIDE DEF a
<1>14. \A s \in 0 .. L : a[s] = IF s = 0 THEN << >> ELSE Expanded(a[s - 1], spec[s], n)
  BY <1>12
<1> DEFINE P == {s \in 0 .. L : a[s] \in V /\ Len(a[s]) = AxesUpTo(n, s)
                                /\ \A d \in 1 .. AxesUpTo(n, s) : Entry(n, a[s][d], d)}
<1>15. /\ AxesUpTo(n, 0) = 0
       /\ \A s \in 0 .. L : /\ AxesUpTo(n, s) \in Nat /\ AxesUpTo(n, s) <= Len(in)
                             /\ \A t \in s .. L : AxesUpTo(n, s) <= AxesUpTo(n, t)
       /\ \A s \in 1 .. L : AxesUpTo(n, s) = AxesUpTo(n, s - 1) + w[s]
       /\ \A s \in Consuming(spec) : s \in 1 .. L /\ AxesUpTo(n, s) = AxesUpTo(n, s - 1) + 1
  BY <1>1, AxesAdd DEF L, w
<1>16. 0 \in P
  <2>1. a[0] = << >> /\ 0 \in 0 .. L /\ AxesUpTo(n, 0) = 0
    BY <1>1, <1>14, <1>15
  <2> QED BY <1>6, <2>1
<1>17. ASSUME NEW s \in 1 .. L, s - 1 \in P PROVE s \in P
  <2> DEFINE v == a[s - 1]
             m == AxesUpTo(n, s - 1)
             r == spec[s]
  <2>1. s \in 0 .. L /\ s # 0 /\ s - 1 \in 0 .. L
    BY <1>1
  <2>2. v \in V /\ Len(v) = m /\ \A d \in 1 .. m : Entry(n, v[d], d)
    BY <1>17
  <2>3. m \in Nat /\ AxesUpTo(n, s) = m + w[s] /\ AxesUpTo(n, s) <= Len(in) /\ w[s] \in Nat
    BY <1>2, <1>15, <2>1
  <2>4. a[s] = Expanded(v, r, n)
    BY <1>14, <2>1
  <2>5. a[s] \in V
    BY <1>5, <2>2, <2>4
  <2>6. w[s] = IF r.kind = "new" THEN 0 ELSE IF r.kind = "ellipsis" THEN k ELSE 1
    BY <1>1 DEF w, k, L, Widths
  <2>8. ASSUME NEW d \in Nat, m < d, d <= AxesUpTo(n, s), r.kind = "ellipsis", NEW q \in Consuming(spec)
        PROVE  AxesUpTo(n, q - 1) + 1 # d
    <3>1. q # s /\ q \in 1 .. L /\ AxesUpTo(n, q) = AxesUpTo(n, q - 1) + 1
      BY <1>15, <2>8 DEF Consuming
    <3>2. CASE q < s
      <4>1. q \in 0 .. L /\ s - 1 \in q .. L
        BY <1>1, <3>1, <3>2
      <4>2. AxesUpTo(n, q) <= m /\ AxesUpTo(n, q) \in Nat
        BY <1>15, <4>1
      <4> QED BY <2>3, <2>8, <3>1, <4>2
    <3>3. CASE q > s
      <4>1. s \in 0 .. L /\ q - 1 \in s .. L
        BY <1>1, <3>1, <3>3
      <4>2. AxesUpTo(n, s) <= AxesUpTo(n, q - 1) /\ AxesUpTo(n, q - 1) \in Nat /\ AxesUpTo(n, s) \in Nat
        BY <1>15, <4>1
      <4> QED BY <2>8, <3>1, <4>2
    <3> QED BY <1>1, <3>1, <3>2, <3>3
  <2> HIDE DEF v, m, in, spec, r
  <2>7. Len(a[s]) = AxesUpTo(n, s) /\ \A d \in 1 .. AxesUpTo(n, s) : Entry(n, a[s][d], d)
    <3>1. CASE r.kind = "new"
      <4>1. a[s] = v /\ AxesUpTo(n, s) = m
        BY <2>3, <2>4, <2>6, <3>1 DEF Expanded
      <4> QED BY <2>2, <4>1
    <3>2. CASE r.kind = "ellipsis"
      <4>1. a[s] = WholeAxes(v, k, in) /\ AxesUpTo(n, s) = m + k
        BY <2>3, <2>4, <2>6, <3>2 DEF Expanded, k, in
      <4>2. v \in Seq(E) /\ in \in Seq(Nat) /\ k \in Nat
        BY <1>2, <2>2 DEF V, in
      <4>3. /\ Len(WholeAxes(v, k, in)) = Len(v) + k
            /\ \A d \in 1 .. (Len(v) + k) :
                  WholeAxes(v, k, in)[d] = IF d <= Len(v) THEN v[d] ELSE FullAxis(in[d])
        BY <4>2, WholeAre
      <4>4. Len(a[s]) = AxesUpTo(n, s) /\ \A d \in 1 .. AxesUpTo(n, s) : a[s][d] = IF d <= m THEN v[d] ELSE FullAxis(in[d])
        BY <2>2, <4>1, <4>3
      <4>5. ASSUME NEW d \in 1 .. AxesUpTo(n, s) PROVE Entry(n, a[s][d], d)
        <5>1. CASE d <= m
          <6>1. d \in 1 .. m /\ a[s][d] = v[d]
            BY <2>3, <4>4, <5>1
          <6> QED BY <2>2, <6>1
        <5>2. CASE ~(d <= m)
          <6>1. d \in Nat /\ m < d /\ d <= AxesUpTo(n, s) /\ a[s][d] = FullAxis(in[d])
            BY <2>3, <4>4, <5>2
          <6>2. \A q \in Consuming(spec) : AxesUpTo(n, q - 1) + 1 # d
            BY <2>8, <3>2, <6>1
          <6> QED BY <6>1, <6>2 DEF Entry, spec, in
        <5> QED BY <5>1, <5>2
      <4> QED BY <4>4, <4>5
    <3>3. CASE r.kind \notin {"new", "ellipsis"}
      <4>1. a[s] = Append(v, SpecAxis(r, in[m + 1])) /\ AxesUpTo(n, s) = m + 1
        BY <2>2, <2>3, <2>4, <2>6, <3>3 DEF Expanded, in
      <4>2. r \in SpecEntry /\ s \in Consuming(spec)
        <5>1. r \in SpecEntry
          BY <1>1 DEF r
        <5> QED BY <1>1, <3>3, <5>1 DEF Consuming, SpecEntry, r, spec
      <4> DEFINE e == SpecAxis(r, in[m + 1])
      <4>4. Entry(n, e, m + 1)
        <5>1. AxesUpTo(n, s - 1) = m
          BY DEF m
        <5> QED BY <4>2, <5>1 DEF Entry, r, spec, in
      <4> HIDE DEF e
      <4>5. Len(Append(v, e)) = m + 1 /\ \A d \in 1 .. (m + 1) : Append(v, e)[d] = IF d <= m THEN v[d] ELSE e
        <5>1. v \in Seq(E) /\ Len(v) = m /\ m \in Nat
          BY <2>2, <2>3 DEF V
        <5> QED BY <5>1, AppendProperties
      <4>6. \A d \in 1 .. (m + 1) : Entry(n, Append(v, e)[d], d)
        <5> TAKE d \in 1 .. (m + 1)
        <5>1. CASE d <= m
          BY <2>2, <2>3, <4>5, <5>1
        <5>2. CASE ~(d <= m)
          <6>1. d = m + 1
            BY <2>3, <5>2
          <6> QED BY <4>4, <4>5, <5>2, <6>1
        <5> QED BY <5>1, <5>2
      <4> QED BY <4>1, <4>5, <4>6 DEF e
    <3> QED BY <3>1, <3>2, <3>3
  <2> QED BY <2>1, <2>5, <2>7
<1>18. L \in P
  <2> HIDE DEF P
  <2>1. \A s \in 0 .. L : s \in P
    BY <1>1, <1>16, <1>17, UpTo
  <2> QED BY <1>1, <2>1
<1> DEFINE v == a[L]
           m == Len(v)
<1>19. v \in Seq(E) /\ m = AxesUpTo(n, L) /\ \A d \in 1 .. m : Entry(n, v[d], d)
  BY <1>18 DEF V
<1>20. m <= Len(in)
  <2>1. L \in 0 .. L
    BY <1>1
  <2> QED BY <1>15, <1>19, <2>1
<1>28. ASSUME NEW d \in Nat, m < d, NEW q \in Consuming(spec) PROVE AxesUpTo(n, q - 1) + 1 # d
  <2>1. q \in 0 .. L /\ L \in q .. L /\ AxesUpTo(n, q - 1) + 1 = AxesUpTo(n, q)
    BY <1>1, <1>15
  <2>2. AxesUpTo(n, q) <= AxesUpTo(n, L) /\ AxesUpTo(n, q) \in Nat /\ AxesUpTo(n, L) \in Nat
    BY <1>15, <2>1
  <2> QED BY <1>19, <1>28, <2>1, <2>2
<1> HIDE DEF v, in
<1>21. m \in Nat /\ in \in Seq(Nat)
  BY <1>19 DEF in
<1> DEFINE rest == Len(in) - m
<1>22. rest \in Nat /\ m + rest = Len(in)
  BY <1>1, <1>20, <1>21 DEF in
<1>23. ExpandSpec(n) = WholeAxes(v, rest, in)
  BY <1>13 DEF v, in
<1> HIDE DEF rest
<1>24. /\ DOMAIN WholeAxes(v, rest, in) = 1 .. (m + rest)
       /\ \A d \in 1 .. (m + rest) :
             WholeAxes(v, rest, in)[d] = IF d <= m THEN v[d] ELSE FullAxis(in[d])
  BY <1>19, <1>21, <1>22, WholeAre
<1>25. /\ DOMAIN ExpandSpec(n) = 1 .. Len(in)
       /\ \A d \in 1 .. Len(in) : ExpandSpec(n)[d] = IF d <= m THEN v[d] ELSE FullAxis(in[d])
  BY <1>22, <1>23, <1>24
<1>29. ASSUME NEW d \in 1 .. Len(in) PROVE Entry(n, ExpandSpec(n)[d], d)
  <2> HIDE DEF m
  <2>1. CASE d <= m
    <3>1. d \in 1 .. m /\ ExpandSpec(n)[d] = v[d]
      BY <1>21, <1>25, <2>1
    <3> QED BY <1>19, <3>1
  <2>2. CASE ~(d <= m)
    <3>1. d \in Nat /\ m < d /\ ExpandSpec(n)[d] = FullAxis(in[d])
      BY <1>21, <1>25, <2>2
    <3>2. \A q \in Consuming(spec) : AxesUpTo(n, q - 1) + 1 # d
      BY <1>28, <3>1
    <3> QED BY <3>1, <3>2 DEF Entry, in
  <2> QED BY <2>1, <2>2
<1> QED BY <1>1, <1>25, <1>29 DEF in

\* So every entry steps along its axis.
LEMMA ExpansionSteps ==
    ASSUME NEW n, n.p.spec \in Seq(SpecEntry), n.ins[1] \in Seq(Nat), EllAxes(n) >= 0,
           Cardinality(OfKind(n.p.spec, "ellipsis")) <= 1,
           \A s \in Consuming(n.p.spec) : n.p.spec[s].s # 0
    PROVE  \A d \in DOMAIN n.ins[1] : Steps(ExpandSpec(n)[d], n.ins[1][d])
<1> SUFFICES ASSUME NEW d \in DOMAIN n.ins[1] PROVE Steps(ExpandSpec(n)[d], n.ins[1][d])
  OBVIOUS
<1>1. Entry(n, ExpandSpec(n)[d], d) /\ n.ins[1][d] \in Nat
  BY ExpansionIs, ShapeDomain
<1>2. \A s \in Consuming(n.p.spec) : n.p.spec[s] \in SpecEntry /\ n.p.spec[s].s # 0
  BY DEF Consuming
<1> QED BY <1>1, <1>2, SpecAxisSteps, FullAxisSteps DEF Entry

-----------------------------------------------------------------------------
(* The evaluation, operator by operator: n is the claimed node, buf the shapes *)
(* of the moment.                                                            *)

\* Shapes TFLite may bring: a constant operand keeps its own, an image stays one.
LiveIns(n) ==
    {ins \in Seq(Seq(Nat)) : /\ Len(ins) = Len(n.ins)
                             /\ n.op \in Images4D => Len(ins[1]) = 4
                             /\ n.op \in ConstantOperand => ins[2] = n.ins[2]}
Situation(n, buf) ==
    /\ WellFormed(n)
    /\ n.outs \in {Shapes(n.op, n.p, n.ins), Unresolved(Shapes(n.op, n.p, n.ins))}
    /\ buf.ins \in LiveIns(n)
    /\ buf.outs = n.outs \/ \E ins \in LiveIns(n) : buf.outs = Shapes(n.op, n.p, ins)

\* Every output written, and whatever is read for it, is inside.
Kept(a, buf) == \A i \in DOMAIN a.outs : Within(a.outs[i], buf.outs[i], buf.ins)

\* An evaluation that fails before it writes touches nothing.
LEMMA KeptNone == ASSUME NEW buf PROVE Kept(Fails(<< >>), buf)
BY DEF Kept, Fails

\* One that answers stays inside when its kernel does.
LEMMA KeptOne ==
    ASSUME NEW buf, NEW f, NEW npu, Within(f, buf.outs[1], buf.ins)
    PROVE  Kept(Answer(<<f>>, npu), buf)
BY DEF Kept, Answer

\* The inputs are shapes.
LEMMA InsTyped ==
    ASSUME NEW n, NEW buf, Situation(n, buf)
    PROVE  /\ n.ins[1] \in Seq(Nat) /\ buf.ins[1] \in Seq(Nat) /\ n.ins \in LiveIns(n)
           /\ n.op \in TwoInputs => n.ins[2] \in Seq(Nat) /\ buf.ins[2] \in Seq(Nat)
           /\ n.op \in Images4D => Len(buf.ins[1]) = 4 /\ Len(n.ins[1]) = 4
           /\ n.op \in ConstantOperand => buf.ins[2] = n.ins[2]
<1>1. n.ins \in Seq(Seq(Nat)) /\ Len(n.ins) >= 1 /\ (n.op \in TwoInputs => Len(n.ins) = 2)
      /\ (n.op \in Images4D => Len(n.ins[1]) = 4)
  BY DEF Situation, WellFormed
<1>2. buf.ins \in Seq(Seq(Nat)) /\ Len(buf.ins) = Len(n.ins)
      /\ (n.op \in Images4D => Len(buf.ins[1]) = 4)
      /\ (n.op \in ConstantOperand => buf.ins[2] = n.ins[2])
  BY DEF Situation, LiveIns
<1>3. n.ins \in LiveIns(n)
  BY <1>1 DEF LiveIns
<1>4. n.ins[1] \in Seq(Nat) /\ buf.ins[1] \in Seq(Nat)
  BY <1>1, <1>2
<1>5. n.op \in TwoInputs => n.ins[2] \in Seq(Nat) /\ buf.ins[2] \in Seq(Nat)
  BY <1>1, <1>2
<1> QED BY <1>1, <1>2, <1>3, <1>4, <1>5

\* The outputs are those of some inputs, or not known.
LEMMA OutsAre ==
    ASSUME NEW n, NEW buf, Situation(n, buf)
    PROVE  \E ins \in LiveIns(n) :
              \/ buf.outs = Shapes(n.op, n.p, ins)
              \/ buf.outs = n.outs /\ buf.outs = Unresolved(Shapes(n.op, n.p, ins))
<1>1. n.ins \in LiveIns(n)
  BY InsTyped
<1> QED BY <1>1 DEF Situation

\* A single output TFLite has not resolved is without dimensions.
LEMMA UnknownShape == ASSUME NEW dims PROVE Unresolved(<<dims>>)[1] = << >> /\ << >> \in Seq(Nat)
BY DEF Unresolved

\* ADD and its kind
LEMMA BroadcastTyped ==
    ASSUME NEW a \in Seq(Nat), NEW b \in Seq(Nat)
    PROVE  BroadcastShape(a, b) \in Seq(Nat)
<1> DEFINE rank == Larger(Len(a), Len(b))
<1>1. rank \in Nat /\ Len(a) <= rank /\ Len(b) <= rank /\ Len(a) \in Nat /\ Len(b) \in Nat
  BY DEF Larger
<1> HIDE DEF rank
<1>2. ASSUME NEW c \in Seq(Nat), Len(c) <= rank, NEW d \in 1 .. rank PROVE Extent(c, rank, d) \in Nat
  <2>1. CASE d <= rank - Len(c)
    BY <2>1 DEF Extent
  <2>2. CASE ~(d <= rank - Len(c))
    <3>1. d - (rank - Len(c)) \in 1 .. Len(c)
      BY <1>1, <1>2, <2>2
    <3> QED BY <2>2, <3>1 DEF Extent
  <2> QED BY <2>1, <2>2
<1>3. \A d \in 1 .. rank : Extent(a, rank, d) \in Nat /\ Extent(b, rank, d) \in Nat
  BY <1>1, <1>2
<1>4. BroadcastShape(a, b) = [d \in 1 .. rank |-> IF Extent(a, rank, d) = 1 THEN Extent(b, rank, d)
                                                 ELSE Extent(a, rank, d)]
  BY DEF BroadcastShape, rank
<1> QED BY <1>1, <1>3, <1>4

\* Its output is a shape.
LEMMA AddOut ==
    ASSUME NEW n, NEW buf, Situation(n, buf), n.op = "binary"
    PROVE  buf.outs[1] \in Seq(Nat)
<1>1. PICK ins \in LiveIns(n) : \/ buf.outs = Shapes("binary", n.p, ins)
                                \/ buf.outs = Unresolved(Shapes("binary", n.p, ins))
  BY OutsAre
<1>2. Len(n.ins) = 2
  BY DEF Situation, WellFormed, TwoInputs
<1>3. ins[1] \in Seq(Nat) /\ ins[2] \in Seq(Nat)
  BY <1>2 DEF LiveIns
<1>4. Shapes("binary", n.p, ins) = <<BroadcastShape(ins[1], ins[2])>>
  BY DEF Shapes
<1>5. BroadcastShape(ins[1], ins[2]) \in Seq(Nat)
  BY <1>3, BroadcastTyped
<1> DEFINE B == BroadcastShape(ins[1], ins[2])
<1>6. buf.outs = <<B>> \/ buf.outs = Unresolved(<<B>>)
  BY <1>1, <1>4
<1> HIDE DEF B
<1>7. Unresolved(<<B>>)[1] \in Seq(Nat)
  BY UnknownShape
<1> QED BY <1>5, <1>6, <1>7 DEF B

\* Both operands are materialised at the output's shape before they are combined.
LEMMA AddKept ==
    ASSUME NEW n, NEW buf, Situation(n, buf), n.op = "binary", NEW board
    PROVE  Kept(eval_add(n, buf, board), buf)
<1> DEFINE a == buf.ins[1]
           b == buf.ins[2]
           o == buf.outs[1]
           f == rocket_binary(Count(o), Materialized(a, o), Materialized(b, o))
<1>1. a \in Seq(Nat) /\ b \in Seq(Nat)
  BY InsTyped DEF TwoInputs
<1>2. o \in Seq(Nat)
  BY AddOut
<1>3. CASE ~(broadcast_to(a, o) /\ broadcast_to(b, o))
  BY <1>3, KeptNone DEF eval_add
<1>4. CASE broadcast_to(a, o) /\ broadcast_to(b, o)
  <2>1. Within(f, o, buf.ins)
    BY <1>1, <1>2, <1>4, BinaryWithin
  <2> DEFINE npu == n.p.minmax /\ board /\ n.type = "float" /\ a = o /\ b = o
  <2>2. eval_add(n, buf, board) = Answer(<<f>>, npu)
    BY <1>4 DEF eval_add
  <2> HIDE DEF f, npu
  <2> QED BY <2>1, <2>2, KeptOne
<1> QED BY <1>3, <1>4

\* RESHAPE and the activations
LEMMA CopyKept ==
    ASSUME NEW n, NEW buf, NEW board
    PROVE  Kept(eval_reshape(buf), buf) /\ Kept(eval_act(n, buf, board), buf)
<1> DEFINE c == Count(buf.outs[1])
<1>1. CASE Count(buf.ins[1]) # c \/ c <= 0
  BY <1>1, KeptNone DEF eval_reshape, eval_act
<1>2. CASE ~(Count(buf.ins[1]) # c \/ c <= 0)
  <2>1. Within(rocket_reshape_copy(c), buf.outs[1], buf.ins) /\ Within(rocket_unary(c), buf.outs[1], buf.ins)
    BY <1>2, CopyWithin
  <2>2. /\ eval_reshape(buf) = Answer(<<rocket_reshape_copy(c)>>, FALSE)
        /\ eval_act(n, buf, board) = Answer(<<rocket_unary(c)>>, board /\ n.p.lut)
    BY <1>2 DEF eval_reshape, eval_act
  <2> HIDE DEF c
  <2> QED BY <2>1, <2>2, KeptOne
<1> QED BY <1>1, <1>2

\* The operators on rows: as many as there were when the node was claimed, of the
\* length they had.
LEMMA RowsKept ==
    ASSUME NEW n, NEW buf, Situation(n, buf), analyze_rows(n),
           n.op \in {"rowwise", "l2norm", "cumsum"}, NEW board
    PROVE  Kept(eval_rows(n, Capture(n), buf, board), buf)
<1> DEFINE x0 == Capture(n)
           N == Last(n.ins[1])
           M == Count(n.ins[1]) \div N
           c == Count(buf.outs[1])
           bad == \/ Count(buf.ins[1]) # c \/ M * N # c
                  \/ n.op = "l2norm" /\ c <= 0
           f == IF n.op = "cumsum" THEN rocket_cumsum(M, N, n.p.exclusive, n.p.reverse)
                ELSE rocket_rowwise(M, N)
<1>1. x0 = [M |-> M, N |-> N]
  BY DEF Capture
<1>2. N \in Nat /\ N > 0 /\ Count(n.ins[1]) \in Nat
  <2>1. n.ins[1] \in Seq(Nat) /\ Len(n.ins[1]) >= 1 /\ Last(n.ins[1]) > 0
    BY InsTyped DEF analyze_rows
  <2>2. Last(n.ins[1]) \in Nat
    BY <2>1 DEF Last
  <2> QED BY <2>1, <2>2, CountNat
<1>3. M \in Nat
  <2> HIDE DEF N
  <2> QED BY <1>2
<1>4. eval_rows(n, x0, buf, board) =
         IF bad THEN Fails(<< >>) ELSE Answer(<<f>>, n.op = "l2norm" /\ board /\ n.type = "float")
  <2> HIDE DEF M, N
  <2> QED BY <1>1 DEF eval_rows
<1> HIDE DEF M, N, x0
<1>5. CASE bad
  BY <1>4, <1>5, KeptNone DEF x0
<1>6. CASE ~bad
  <2>1. Within(f, buf.outs[1], buf.ins)
    BY <1>2, <1>3, <1>6, RowsWithin, CumsumWithin
  <2> HIDE DEF f
  <2> QED BY <1>4, <1>6, <2>1, KeptOne DEF x0
<1> QED BY <1>5, <1>6

\* PRELU: its slopes are a constant.
LEMMA PreluKept ==
    ASSUME NEW n, NEW buf, Situation(n, buf), analyze_prelu(n), n.op = "prelu", NEW board
    PROVE  Kept(eval_prelu(n, Capture(n), buf, board), buf)
<1> DEFINE x0 == Capture(n)
           C == Last(n.ins[1])
           c == Count(buf.outs[1])
           S == c \div C
           bad == Count(buf.ins[1]) # c \/ c <= 0 \/ c % C # 0
           f == FromChw(Through(rocket_prelu_fp16(C, S), 1, ChwOf(S, C)), S, C)
           g == rocket_prelu(c, C)
<1>1. x0 = [C |-> C]
  BY DEF Capture
<1>2. C \in Nat /\ C > 0 /\ Count(buf.ins[2]) = C /\ Count(buf.ins[1]) \in Nat
  <2>1. /\ n.ins[1] \in Seq(Nat) /\ Len(n.ins[1]) >= 1 /\ C > 0 /\ Count(n.ins[2]) = C
        /\ buf.ins[1] \in Seq(Nat) /\ buf.ins[2] = n.ins[2]
    BY InsTyped DEF analyze_prelu, ConstantOperand
  <2>2. C \in Nat
    BY <2>1 DEF Last
  <2> QED BY <2>1, <2>2, CountNat
<1>3. eval_prelu(n, x0, buf, board) =
         IF bad THEN Fails(<< >>)
         ELSE IF board /\ n.type = "float" THEN Answer(<<f>>, TRUE) ELSE Answer(<<g>>, FALSE)
  <2> HIDE DEF C
  <2> QED BY <1>1 DEF eval_prelu
<1> HIDE DEF C, x0
<1>4. CASE bad
  BY <1>3, <1>4, KeptNone DEF x0
<1>5. CASE ~bad
  <2>1. c \in Nat /\ c % C = 0 /\ Count(buf.ins[1]) = c
    BY <1>2, <1>5
  <2>2. Within(f, buf.outs[1], buf.ins) /\ Within(g, buf.outs[1], buf.ins)
    BY <1>2, <2>1, PreluWithin
  <2> HIDE DEF f, g, c, S
  <2> QED BY <1>3, <1>5, <2>2, KeptOne DEF x0
<1> QED BY <1>4, <1>5

\* Where a tensor of an image operator is empty, the batch taken to be one is not
\* what the tensor has.
Full(n, buf) == n.op \in Images4D => Count(buf.ins[1]) # 0 /\ Count(buf.outs[1]) # 0

\* Where no tensor is empty, the images have positive extents.
LEMMA ImagesFull ==
    ASSUME NEW n, NEW buf, Situation(n, buf), Full(n, buf), n.op \in Images4D
    PROVE  /\ Image(buf.ins[1])
           /\ buf.outs[1] \in Seq(Nat) /\ Len(buf.outs[1]) = 4 => Image(buf.outs[1])
<1>1. buf.ins[1] \in Seq(Nat) /\ Len(buf.ins[1]) = 4
  BY InsTyped
<1>2. Image(buf.ins[1])
  <2>1. Count(buf.ins[1]) \in Nat /\ Count(buf.ins[1]) # 0
    BY <1>1, CountNat DEF Full
  <2> QED BY <1>1, <2>1 DEF Image
<1>3. ASSUME buf.outs[1] \in Seq(Nat), Len(buf.outs[1]) = 4 PROVE Image(buf.outs[1])
  <2>1. Count(buf.outs[1]) \in Nat /\ Count(buf.outs[1]) # 0
    BY <1>3, CountNat DEF Full
  <2> QED BY <1>3, <2>1 DEF Image
<1> QED BY <1>2, <1>3

\* MEAN and SUM
LEMMA ReduceKept ==
    ASSUME NEW n, NEW buf, Situation(n, buf), Full(n, buf), n.op = "reduce", NEW board
    PROVE  Kept(eval_reduce(n, Capture(n), buf, board), buf)
<1> DEFINE x0 == Capture(n)
           in == buf.ins[1]
           H == n.ins[1][2]
           W == n.ins[1][3]
           C == n.ins[1][4]
           bad == \/ Len(in) # 4 \/ <<in[2], in[3], in[4]>> # <<H, W, C>>
                  \/ Count(buf.outs[1]) # C
           f == Through(rocket_globalpool_fp16(C, H * W, n.p.mean), 1, ChwOf(H * W, C))
           g == rocket_reduce_spatial(H, W, C, n.p.mean)
<1>1. x0 = [H |-> H, W |-> W, C |-> C]
  BY DEF Capture
<1>2. Image(in)
  BY ImagesFull DEF Images4D
<1>3. eval_reduce(n, x0, buf, board) =
         IF bad THEN Fails(<< >>)
         ELSE IF board /\ n.type = "float" THEN Answer(<<f>>, TRUE) ELSE Answer(<<g>>, FALSE)
  <2> HIDE DEF H, W, C
  <2> QED BY <1>1 DEF eval_reduce
<1> HIDE DEF H, W, C, x0
<1>4. CASE bad
  BY <1>3, <1>4, KeptNone DEF x0
<1>5. CASE ~bad
  <2>1. H = in[2] /\ W = in[3] /\ C = in[4] /\ Count(buf.outs[1]) = in[4]
    BY <1>5
  <2>2. Within(f, buf.outs[1], buf.ins) /\ Within(g, buf.outs[1], buf.ins)
    BY <1>2, <2>1, ReduceWithin
  <2> HIDE DEF f, g
  <2> QED BY <1>3, <1>5, <2>2, KeptOne DEF x0
<1> QED BY <1>4, <1>5

\* The number of windows along an axis
LEMMA WindowTyped ==
    ASSUME NEW in \in Nat, NEW k \in Positive, NEW s \in Positive, NEW same
    PROVE  WindowCount(in, k, s, same) \in Nat
<1>1. CASE same
  <2>1. CeilDiv(in, s) \in Nat
    BY DEF CeilDiv, Positive
  <2> QED BY <1>1, <2>1 DEF WindowCount
<1>2. CASE ~same
  <2> DEFINE S == {o \in 0 .. in : o * s + k <= in}
  <2>1. IsFiniteSet(0 .. in)
    BY FS_Interval
  <2>2. IsFiniteSet(S)
    BY <2>1, FS_Subset
  <2>3. Cardinality(S) \in Nat
    BY <2>2, FS_CardinalityType
  <2> QED BY <1>2, <2>3 DEF WindowCount
<1> QED BY <1>1, <1>2

\* Four naturals are a shape of rank four.
LEMMA FourTyped ==
    ASSUME NEW e1 \in Nat, NEW e2 \in Nat, NEW e3 \in Nat, NEW e4 \in Nat
    PROVE  <<e1, e2, e3, e4>> \in Seq(Nat) /\ Len(<<e1, e2, e3, e4>>) = 4
OBVIOUS

\* A claimed pool's, resize's or transposed convolution's output is an image.
LEMMA ImageOut ==
    ASSUME NEW n, NEW buf, Situation(n, buf), n.op \in {"pool", "resize", "tconv"},
           Len(n.outs[1]) = 4
    PROVE  buf.outs[1] \in Seq(Nat) /\ Len(buf.outs[1]) = 4
<1>1. PICK ins \in LiveIns(n) : \/ buf.outs = Shapes(n.op, n.p, ins)
                                \/ buf.outs = n.outs /\ buf.outs = Unresolved(Shapes(n.op, n.p, ins))
  BY OutsAre
<1> DEFINE a == ins[1]
<1>2. a \in Seq(Nat) /\ Len(a) = 4
  <2>1. Len(n.ins) >= 1
    BY DEF Situation, WellFormed
  <2> QED BY <2>1 DEF LiveIns, Images4D
<1>3. a[1] \in Nat /\ a[2] \in Nat /\ a[3] \in Nat /\ a[4] \in Nat
  BY <1>2
<1>4. \E o \in Seq(Nat) : Len(o) = 4 /\ Shapes(n.op, n.p, ins) = <<o>>
  <2>1. Attributes(n.op, n.p)
    BY DEF Situation, WellFormed
  <2>2. CASE n.op = "pool"
    <3> DEFINE u == WindowCount(a[2], n.p.k[1], n.p.s[1], n.p.same)
               v == WindowCount(a[3], n.p.k[2], n.p.s[2], n.p.same)
    <3>1. n.p.k \in Positive \X Positive /\ n.p.s \in Positive \X Positive
      BY <2>1, <2>2 DEF Attributes
    <3>2. u \in Nat /\ v \in Nat
      BY <1>3, <3>1, WindowTyped
    <3>3. Shapes("pool", n.p, ins) = << <<a[1], u, v, a[4]>> >>
      BY DEF Shapes
    <3> HIDE DEF u, v, a
    <3> QED BY <1>3, <2>2, <3>2, <3>3, FourTyped
  <2>3. CASE n.op = "resize"
    <3>1. n.p.OH \in Nat /\ n.p.OW \in Nat
      BY <2>1, <2>3 DEF Attributes
    <3>2. Shapes("resize", n.p, ins) = << <<a[1], n.p.OH, n.p.OW, a[4]>> >>
      BY DEF Shapes
    <3> HIDE DEF a
    <3> QED BY <1>3, <2>3, <3>1, <3>2, FourTyped
  <2>4. CASE n.op = "tconv"
    <3>1. n.p.OH \in Nat /\ n.p.OW \in Nat
      BY <2>1, <2>4 DEF Attributes
    <3>2. Shapes("tconv", n.p, ins) = << <<a[1], n.p.OH, n.p.OW, ins[2][1]>> >>
      BY DEF Shapes
    <3>3. ins[2][1] \in Nat
      <4>1. Len(n.ins) = 2 /\ Len(n.ins[2]) = 4
        BY <2>4 DEF Situation, WellFormed, TwoInputs
      <4>2. ins \in Seq(Seq(Nat)) /\ Len(ins) = 2 /\ ins[2] = n.ins[2]
        BY <2>4, <4>1 DEF LiveIns, ConstantOperand
      <4>3. ins[2] \in Seq(Nat) /\ Len(ins[2]) = 4
        BY <4>1, <4>2
      <4> QED BY <4>3
    <3> DEFINE w == ins[2][1]
    <3>4. Shapes(n.op, n.p, ins) = << <<a[1], n.p.OH, n.p.OW, w>> >> /\ w \in Nat
      BY <2>4, <3>2, <3>3
    <3> HIDE DEF a, w
    <3> QED BY <1>3, <3>1, <3>4, FourTyped
  <2> QED BY <2>2, <2>3, <2>4
<1>5. PICK o \in Seq(Nat) : Len(o) = 4 /\ Shapes(n.op, n.p, ins) = <<o>>
  BY <1>4
<1>6. CASE buf.outs = <<o>>
  BY <1>5, <1>6
<1>7. CASE buf.outs = n.outs /\ buf.outs = Unresolved(<<o>>)
  <2>1. n.outs[1] = << >>
    BY <1>7, UnknownShape
  <2> QED BY <2>1
<1> QED BY <1>1, <1>5, <1>6, <1>7

\* MAX_POOL_2D and AVERAGE_POOL_2D
LEMMA PoolKept ==
    ASSUME NEW n, NEW buf, Situation(n, buf), Full(n, buf), n.op = "pool", analyze_pool(n),
           NEW board
    PROVE  Kept(eval_pool(n, buf, board), buf)
<1> DEFINE in == buf.ins[1]
           o == buf.outs[1]
           k == n.p.k
           s == n.p.s
           tot == [d \in {2, 3} |-> rocket_total_pad(in[d], k[d - 1], s[d - 1], o[d])]
           bad == \/ o[4] # in[4]
                  \/ \E d \in {2, 3} : rocket_out_dim(in[d], k[d - 1], s[d - 1], n.p.same) # o[d]
           on == board /\ n.type = "float" /\ avg_ok(n.p.avg, tot[2], tot[3])
           f == FromChw(Through(rocket_pool_fp16(in[4], in[2], in[3], o[2], o[3], k[1], k[2], s[1], s[2],
                                                 tot[2] \div 2, tot[3] \div 2, n.p.avg),
                                1, ChwOf(in[2] * in[3], in[4])),
                        o[2] * o[3], in[4])
           g == rocket_pool(in[2], in[3], in[4], o[2], o[3], k[1], k[2], s[1], s[2],
                            tot[2] \div 2, tot[3] \div 2, n.p.avg)
<1>1. Image(in) /\ Image(o)
  <2>1. Len(n.outs[1]) = 4
    BY DEF analyze_pool, NHWC
  <2>2. o \in Seq(Nat) /\ Len(o) = 4
    BY <2>1, ImageOut
  <2> QED BY <2>2, ImagesFull DEF Images4D
<1>2. eval_pool(n, buf, board) =
         IF bad THEN Fails(<< >>)
         ELSE IF on THEN Answer(<<f>>, TRUE) ELSE Answer(<<g>>, FALSE)
  BY DEF eval_pool
<1>3. CASE bad
  <2> HIDE DEF bad, f, g, on
  <2> QED BY <1>2, <1>3, KeptNone
<1>4. CASE ~bad
  <2>1. in[4] = o[4]
    BY <1>4
  <2> DEFINE pt == tot[2] \div 2
             pl == tot[3] \div 2
  <2>2. Within(f, o, buf.ins)
    <3> HIDE DEF tot, pt, pl
    <3>1. f = FromChw(Through(rocket_pool_fp16(o[4], in[2], in[3], o[2], o[3], k[1], k[2], s[1], s[2],
                                               pt, pl, n.p.avg),
                              1, ChwOf(in[2] * in[3], o[4])), o[2] * o[3], o[4])
      BY <2>1 DEF pt, pl
    <3> HIDE DEF f, k, s, o
    <3> QED BY <1>1, <2>1, <3>1, PoolPlanesWithin
  <2>3. Within(g, o, buf.ins)
    <3> HIDE DEF tot, pt, pl
    <3>1. g = rocket_pool(in[2], in[3], o[4], o[2], o[3], k[1], k[2], s[1], s[2], pt, pl, n.p.avg)
      BY <2>1 DEF pt, pl
    <3> HIDE DEF g, k, s, o
    <3> QED BY <1>1, <2>1, <3>1, PoolWithin
  <2> HIDE DEF f, g, on, bad
  <2> QED BY <1>2, <1>4, <2>2, <2>3, KeptOne
<1> QED BY <1>3, <1>4

\* RESIZE_NEAREST_NEIGHBOR
LEMMA ResizeKept ==
    ASSUME NEW n, NEW buf, Situation(n, buf), Full(n, buf), n.op = "resize", analyze_resize(n),
           NEW board
    PROVE  Kept(eval_resize(n, Capture(n), buf, board), buf)
<1> DEFINE x0 == Capture(n)
           in == buf.ins[1]
           o == buf.outs[1]
           IH == n.ins[1][2]
           IW == n.ins[1][3]
           C == n.ins[1][4]
           OH == n.p.OH
           OW == n.p.OW
           bad == \/ Len(in) # 4 \/ <<in[2], in[3], in[4]>> # <<IH, IW, C>>
                  \/ <<o[2], o[3], o[4]>> # <<OH, OW, C>>
           on == board /\ n.type = "float" /\ ~n.p.corners /\ ~n.p.half
                 /\ OH % IH = 0 /\ OW % IW = 0
           f == FromChw(Through(rocket_upsample_nearest_fp16(C, IH, IW, OH \div IH, OW \div IW),
                                1, ChwOf(IH * IW, C)), OH * OW, C)
           g == rocket_resize_nearest(IH, IW, C, OH, OW, n.p.corners, n.p.half)
<1>1. Image(in) /\ Image(o)
  <2>1. Len(n.outs[1]) = 4
    BY DEF analyze_resize
  <2>2. o \in Seq(Nat) /\ Len(o) = 4
    BY <2>1, ImageOut
  <2> QED BY <2>2, ImagesFull DEF Images4D
<1>2. x0 = [IH |-> IH, IW |-> IW, C |-> C, OH |-> OH, OW |-> OW]
  BY DEF Capture
<1>3. eval_resize(n, x0, buf, board) =
         IF bad THEN Fails(<< >>)
         ELSE IF on THEN Answer(<<f>>, TRUE) ELSE Answer(<<g>>, FALSE)
  <2> HIDE DEF IH, IW, C, OH, OW
  <2> QED BY <1>2 DEF eval_resize
<1> HIDE DEF IH, IW, C, OH, OW, x0, in, o
<1>4. CASE bad
  <2> HIDE DEF bad, f, g, on
  <2> QED BY <1>3, <1>4, KeptNone DEF x0
<1>5. CASE ~bad
  <2>1. IH = in[2] /\ IW = in[3] /\ C = in[4] /\ OH = o[2] /\ OW = o[3] /\ in[4] = o[4] /\ C = o[4]
    BY <1>5
  <2>2. ASSUME on PROVE Within(f, o, buf.ins)
    <3>1. f = FromChw(Through(rocket_upsample_nearest_fp16(o[4], in[2], in[3], o[2] \div in[2],
                                                           o[3] \div in[3]),
                              1, ChwOf(in[2] * in[3], o[4])), o[2] * o[3], o[4])
      BY <2>1
    <3>2. o[2] % in[2] = 0 /\ o[3] % in[3] = 0
      BY <2>1, <2>2
    <3> HIDE DEF f, on
    <3> QED BY <1>1, <2>1, <3>1, <3>2, UpsampleWithin DEF in
  <2>3. Within(g, o, buf.ins)
    <3>1. g = rocket_resize_nearest(in[2], in[3], o[4], o[2], o[3], n.p.corners, n.p.half)
      BY <2>1
    <3> HIDE DEF g
    <3> QED BY <1>1, <2>1, <3>1, ResizeWithin DEF in
  <2> HIDE DEF f, g, on, bad
  <2> QED BY <1>3, <1>5, <2>2, <2>3, KeptOne DEF x0, o
<1> QED BY <1>4, <1>5

\* TRANSPOSE_CONV: its weights are a constant.
LEMMA TconvKept ==
    ASSUME NEW n, NEW buf, Situation(n, buf), Full(n, buf), n.op = "tconv", analyze_tconv(n)
    PROVE  Kept(eval_tconv(n, Capture(n), buf), buf)
<1> DEFINE x0 == Capture(n)
           in == buf.ins[1]
           o == buf.outs[1]
           w == n.ins[2]
           IH == n.ins[1][2]
           IW == n.ins[1][3]
           IC == n.ins[1][4]
           OH == n.outs[1][2]
           OW == n.outs[1][3]
           ph == pad_of(n.p.same, OH, w[2], n.p.s[1])
           pw == pad_of(n.p.same, OW, w[3], n.p.s[2])
           bad == \/ Len(in) # 4 \/ <<in[2], in[3], in[4]>> # <<IH, IW, IC>>
                  \/ <<o[2], o[3], o[4]>> # <<OH, OW, w[1]>>
           f == rocket_transpose_conv(IH, IW, IC, w[1], w[2], w[3], n.p.s[1], n.p.s[2], ph, pw, OH, OW)
<1>1. Image(in) /\ Image(o)
  <2>1. Len(n.outs[1]) = 4
    BY DEF analyze_tconv
  <2>2. o \in Seq(Nat) /\ Len(o) = 4
    BY <2>1, ImageOut
  <2> QED BY <2>2, ImagesFull DEF Images4D
<1>2. Image(buf.ins[2]) /\ buf.ins[2] = w /\ w[4] = IC
  <2>1. w \in Seq(Nat) /\ buf.ins[2] = w
    BY InsTyped DEF TwoInputs, ConstantOperand
  <2>2. Len(w) = 4 /\ w[4] = IC /\ IC > 0 /\ \A d \in 2 .. 4 : w[d - 1] > 0
    BY DEF analyze_tconv
  <2>3. w[1] > 0 /\ w[2] > 0 /\ w[3] > 0 /\ w[4] > 0
    <3>1. w[2 - 1] > 0 /\ w[3 - 1] > 0 /\ w[4 - 1] > 0
      BY <2>2
    <3> HIDE DEF w
    <3> QED BY <2>2, <3>1
  <2>4. \A d \in DOMAIN w : w[d] > 0
    <3> HIDE DEF w
    <3>1. DOMAIN w = {1, 2, 3, 4}
      BY <2>1, <2>2
    <3> QED BY <2>3, <3>1
  <2> QED BY <2>1, <2>2, <2>4, CountNat DEF Image
<1>3. x0 = [IH |-> IH, IW |-> IW, IC |-> IC, OC |-> w[1], KH |-> w[2], KW |-> w[3], OH |-> OH,
            OW |-> OW, pad_h |-> ph, pad_w |-> pw]
  BY DEF Capture
<1> HIDE DEF ph, pw
<1>4. eval_tconv(n, x0, buf) = IF bad THEN Fails(<< >>) ELSE Answer(<<f>>, FALSE)
  <2> HIDE DEF IH, IW, IC, OH, OW, w
  <2> QED BY <1>3 DEF eval_tconv
<1> HIDE DEF IH, IW, IC, OH, OW, x0, in, o, w
<1>5. CASE bad
  <2> HIDE DEF bad, f
  <2> QED BY <1>4, <1>5, KeptNone DEF x0
<1>6. CASE ~bad
  <2>1. IH = in[2] /\ IW = in[3] /\ IC = in[4] /\ OH = o[2] /\ OW = o[3] /\ w[1] = o[4]
    BY <1>6
  <2>2. Within(f, o, buf.ins)
    <3>1. f = rocket_transpose_conv(in[2], in[3], in[4], w[1], w[2], w[3], n.p.s[1], n.p.s[2], ph, pw,
                                    o[2], o[3])
      BY <2>1
    <3> HIDE DEF f
    <3>2. buf.ins[2] = w /\ w[4] = in[4] /\ Image(w)
      BY <1>2, <2>1
    <3> QED BY <1>1, <1>2, <2>1, <3>1, <3>2, TransposeConvWithin DEF in
  <2> HIDE DEF f, bad
  <2> QED BY <1>4, <1>6, <2>2, KeptOne DEF x0, o
<1> QED BY <1>5, <1>6

\* Where there is one output: it has the shape some inputs give it, or, where the
\* node was claimed so, none.
LEMMA OneOut ==
    ASSUME NEW n, NEW buf, Situation(n, buf),
           n.op \in {"transpose", "pad", "slice", "strided", "concat", "fc"}
    PROVE  \E ins \in LiveIns(n) : \/ buf.outs[1] = Shapes(n.op, n.p, ins)[1]
                                   \/ buf.outs[1] = << >> /\ n.outs[1] = << >>
<1>1. PICK ins \in LiveIns(n) : \/ buf.outs = Shapes(n.op, n.p, ins)
                                \/ buf.outs = n.outs /\ buf.outs = Unresolved(Shapes(n.op, n.p, ins))
  BY OutsAre
<1>2. \E e : Shapes(n.op, n.p, ins) = <<e>>
  BY DEF Shapes
<1>3. PICK e : Shapes(n.op, n.p, ins) = <<e>>
  BY <1>2
<1>4. CASE buf.outs = Shapes(n.op, n.p, ins)
  BY <1>4
<1>5. CASE buf.outs = n.outs /\ buf.outs = Unresolved(<<e>>)
  BY <1>5, UnknownShape
<1> QED BY <1>1, <1>3, <1>4, <1>5

\* TRANSPOSE
LEMMA TransposeKept ==
    ASSUME NEW n, NEW buf, Situation(n, buf), n.op = "transpose", analyze_transpose(n)
    PROVE  Kept(eval_transpose(n, Capture(n), buf), buf)
<1> DEFINE x0 == Capture(n)
           in == buf.ins[1]
           o == buf.outs[1]
           perm == n.p.perm
           rank == Len(n.ins[1])
           bad == \/ Len(in) # rank \/ Len(o) # rank
                  \/ \E d \in 1 .. rank : o[d] # in[perm[d]]
           f == rocket_transpose_bytes(in, perm)
<1>1. x0 = [rank |-> rank]
  BY DEF Capture
<1>2. eval_transpose(n, x0, buf) = IF bad THEN Fails(<< >>) ELSE Answer(<<f>>, FALSE)
  <2> HIDE DEF rank
  <2> QED BY <1>1 DEF eval_transpose
<1>3. /\ in \in Seq(Nat) /\ perm \in Seq(Nat) /\ Len(perm) = rank /\ Range(perm) = 1 .. rank
      /\ rank \in Nat /\ rank > 0 /\ Len(n.outs[1]) = rank
  <2>1. perm \in Seq(Nat)
    BY DEF Situation, WellFormed, Attributes
  <2> QED BY <2>1, InsTyped DEF analyze_transpose, Ranked
<1>4. CASE bad
  <2> HIDE DEF bad, f, x0
  <2> QED BY <1>2, <1>4, KeptNone DEF x0
<1>5. CASE ~bad
  <2> HIDE DEF rank
  <2>1. Len(in) = rank /\ Len(o) = rank /\ \A d \in 1 .. rank : o[d] = in[perm[d]]
    BY <1>5
  <2>2. o = [d \in DOMAIN perm |-> in[perm[d]]]
    <3>1. PICK ins \in LiveIns(n) : \/ o = Shapes("transpose", n.p, ins)[1]
                                    \/ o = << >> /\ n.outs[1] = << >>
      BY OneOut
    <3>2. o # << >>
      BY <1>3, <2>1
    <3>3. o = [d \in DOMAIN ins[1] |-> ins[1][perm[d]]]
      BY <3>1, <3>2 DEF Shapes
    <3>4. Len(ins[1]) \in Nat /\ DOMAIN ins[1] = 1 .. Len(ins[1])
      <4>1. ins[1] \in Seq(Nat)
        BY DEF LiveIns, Situation, WellFormed
      <4> QED BY <4>1
    <3> DEFINE m == Len(ins[1])
    <3>5. DOMAIN o = 1 .. m /\ o = [d \in 1 .. m |-> o[d]]
      BY <3>3, <3>4
    <3> HIDE DEF o
    <3>6. Len(o) = m
      BY <3>4, <3>5, AsSequence
    <3>7. DOMAIN o = DOMAIN perm
      BY <1>3, <2>1, <3>5, <3>6
    <3>8. \A d \in DOMAIN perm : o[d] = in[perm[d]]
      BY <1>3, <2>1
    <3> HIDE DEF in, perm
    <3> QED BY <3>5, <3>7, <3>8
  <2>3. Within(f, o, buf.ins)
    <3> HIDE DEF o
    <3> QED BY <1>3, <2>1, <2>2, TransposeWithin
  <2> HIDE DEF f, bad, x0
  <2> QED BY <1>2, <1>5, <2>3, KeptOne DEF x0
<1> QED BY <1>4, <1>5

\* PAD
LEMMA PadKept ==
    ASSUME NEW n, NEW buf, Situation(n, buf), n.op = "pad", analyze_pad(n)
    PROVE  Kept(eval_pad(n, Capture(n), buf), buf)
<1> DEFINE x0 == Capture(n)
           in == buf.ins[1]
           o == buf.outs[1]
           before == n.p.before
           after == n.p.after
           rank == Len(n.ins[1])
           bad == \/ Len(in) # rank \/ Len(o) # rank
                  \/ \E d \in 1 .. rank : before[d] + in[d] > o[d]
           f == rocket_pad_bytes(in, before, o)
<1>1. x0 = [rank |-> rank]
  BY DEF Capture
<1>2. eval_pad(n, x0, buf) = IF bad THEN Fails(<< >>) ELSE Answer(<<f>>, FALSE)
  <2> HIDE DEF rank
  <2> QED BY <1>1 DEF eval_pad
<1>3. /\ in \in Seq(Nat) /\ rank \in Nat /\ rank > 0 /\ Len(n.outs[1]) = rank
      /\ \A d \in 1 .. rank : before[d] \in Nat /\ after[d] \in Nat
  <2>1. before \in Seq(Int) /\ after \in Seq(Int)
    BY DEF Situation, WellFormed, Attributes
  <2>2. n.ins[1] \in Seq(Nat) /\ in \in Seq(Nat)
    BY InsTyped
  <2>3. /\ rank > 0 /\ Len(n.outs[1]) = rank /\ Len(before) = rank /\ Len(after) = rank
        /\ \A d \in DOMAIN n.ins[1] : before[d] >= 0 /\ after[d] >= 0
    BY DEF analyze_pad, Ranked
  <2>4. rank \in Nat /\ DOMAIN n.ins[1] = 1 .. rank
    BY <2>2
  <2>5. \A d \in 1 .. rank : before[d] \in Int /\ after[d] \in Int
    <3> HIDE DEF rank, before, after
    <3> QED BY <2>1, <2>3
  <2> HIDE DEF rank
  <2> QED BY <2>2, <2>3, <2>4, <2>5
<1>4. CASE bad
  <2> HIDE DEF bad, f, x0
  <2> QED BY <1>2, <1>4, KeptNone DEF x0
<1>5. CASE ~bad
  <2> HIDE DEF rank, before, after
  <2>1. Len(in) = rank /\ Len(o) = rank /\ \A d \in 1 .. rank : ~(before[d] + in[d] > o[d])
    BY <1>5
  <2>2. o \in Seq(Nat)
    <3>1. PICK ins \in LiveIns(n) : \/ o = Shapes("pad", n.p, ins)[1]
                                    \/ o = << >> /\ n.outs[1] = << >>
      BY OneOut
    <3>2. o # << >>
      BY <1>3, <2>1
    <3>3. o = [d \in DOMAIN ins[1] |-> before[d] + ins[1][d] + after[d]]
      BY <3>1, <3>2 DEF Shapes, before, after
    <3>4. Len(ins[1]) \in Nat /\ DOMAIN ins[1] = 1 .. Len(ins[1]) /\ \A d \in DOMAIN ins[1] : ins[1][d] \in Nat
      <4>1. ins[1] \in Seq(Nat)
        BY DEF LiveIns, Situation, WellFormed
      <4> QED BY <4>1
    <3> DEFINE m == Len(ins[1])
    <3>5. DOMAIN o = 1 .. m /\ o = [d \in 1 .. m |-> o[d]]
      BY <3>3, <3>4
    <3>6. m = rank
      <4> HIDE DEF o
      <4> QED BY <2>1, <3>4, <3>5, AsSequence
    <3>7. \A d \in 1 .. m : o[d] = before[d] + ins[1][d] + after[d]
      BY <3>3, <3>4
    <3>8. ASSUME NEW d \in 1 .. m PROVE o[d] \in Nat
      <4> DEFINE e == ins[1][d]
      <4>1. e \in Nat
        BY <3>4
      <4>2. before[d] \in Nat /\ after[d] \in Nat
        BY <1>3, <3>6
      <4>3. o[d] = before[d] + e + after[d]
        BY <3>7
      <4> HIDE DEF e, o
      <4> QED BY <4>1, <4>2, <4>3
    <3> HIDE DEF o, m
    <3>9. m \in Nat
      BY <3>4 DEF m
    <3> QED BY <3>5, <3>8, <3>9, AsSequence
  <2>3. DOMAIN o = 1 .. rank /\ \A d \in DOMAIN o : before[d] \in Nat /\ before[d] + in[d] <= o[d]
    <3>1. DOMAIN o = 1 .. rank /\ DOMAIN in = 1 .. rank
      BY <1>3, <2>1, <2>2
    <3>2. ASSUME NEW d \in DOMAIN o PROVE before[d] + in[d] <= o[d]
      <4> HIDE DEF o, in
      <4>1. in[d] \in Nat /\ o[d] \in Nat
        BY <1>3, <2>2, <3>1
      <4>2. before[d] \in Nat /\ ~(before[d] + in[d] > o[d])
        BY <1>3, <2>1, <3>1
      <4> QED BY <4>1, <4>2
    <3> QED BY <1>3, <3>1, <3>2
  <2>4. Within(f, o, buf.ins)
    <3> HIDE DEF o
    <3> QED BY <1>3, <2>1, <2>2, <2>3, PadWithin
  <2> HIDE DEF f, bad, x0
  <2> QED BY <1>2, <1>5, <2>4, KeptOne DEF x0
<1> QED BY <1>4, <1>5

\* What a slice gathers, from the operands Init kept
LEMMA SliceRuns ==
    ASSUME NEW n, NEW buf, Situation(n, buf), NEW r, NEW st, NEW b, NEW z \in Seq(Int), NEW t,
           Len(z) = r, \A d \in 1 .. r : b[d] \in Int /\ t[d] \in Int, NEW x0,
           x0 = [rank |-> r, strided |-> st, begin |-> b, size |-> z, stride |-> t]
    PROVE  Kept(eval_slice(x0, buf), buf)
<1> DEFINE in == buf.ins[1]
           o == buf.outs[1]
           step(d) == IF st THEN t[d] ELSE 1
           bad == \/ Len(in) # r
                  \/ \E d \in DOMAIN in : ~Inside(b[d], z[d], step(d), in[d])
                  \/ Count(o) # Count(z)
           f == IF st THEN rocket_strided_slice_bytes(in, b, t, z) ELSE rocket_slice_bytes(in, b, z)
<1>1. eval_slice(x0, buf) = IF bad THEN Fails(<< >>) ELSE Answer(<<f>>, FALSE)
  BY DEF eval_slice
<1>2. in \in Seq(Nat)
  BY InsTyped
<1>3. CASE bad
  <2> HIDE DEF bad, f
  <2> QED BY <1>1, <1>3, KeptNone
<1>4. CASE ~bad
  <2>1. Len(in) = r /\ DOMAIN in = 1 .. r /\ \A d \in 1 .. r : Inside(b[d], z[d], step(d), in[d])
    <3>1. Len(in) = r /\ \A d \in DOMAIN in : Inside(b[d], z[d], step(d), in[d])
      BY <1>4
    <3> HIDE DEF in, step
    <3> QED BY <1>2, <3>1
  <2>2. Cells(z) = Cells(o)
    BY <1>4 DEF Cells
  <2>3. Within(f, z, buf.ins)
    <3> HIDE DEF in
    <3>1. CASE st
      <4>1. \A d \in DOMAIN in : b[d] \in Int /\ t[d] \in Int /\ Inside(b[d], z[d], t[d], in[d])
        BY <2>1, <3>1
      <4>2. f = rocket_strided_slice_bytes(in, b, t, z)
        BY <3>1
      <4> HIDE DEF f, step
      <4> QED BY <1>2, <2>1, <4>1, <4>2, GatherWithin DEF in
    <3>2. CASE ~st
      <4> DEFINE one == Ones(Len(in))
      <4>1. \A d \in DOMAIN in : one[d] = 1
        BY <2>1 DEF Ones
      <4>2. \A d \in DOMAIN in : b[d] \in Int /\ one[d] \in Int /\ Inside(b[d], z[d], one[d], in[d])
        BY <2>1, <3>2, <4>1
      <4>3. f = rocket_strided_slice_bytes(in, b, one, z)
        BY <3>2 DEF rocket_slice_bytes
      <4> HIDE DEF f, step, one
      <4> QED BY <1>2, <2>1, <4>2, <4>3, GatherWithin DEF in
    <3> QED BY <3>1, <3>2
  <2>4. Within(f, o, buf.ins)
    <3> HIDE DEF f, in, o
    <3> QED BY <2>2, <2>3 DEF Within
  <2> HIDE DEF f, bad
  <2> QED BY <1>1, <1>4, <2>4, KeptOne
<1> QED BY <1>3, <1>4

\* SLICE and STRIDED_SLICE
LEMMA SliceKept ==
    ASSUME NEW n, NEW buf, Situation(n, buf),
           \/ n.op = "slice" /\ analyze_slice(n)
           \/ n.op = "strided" /\ analyze_strided_slice(n)
    PROVE  Kept(eval_slice(Capture(n), buf), buf)
<1> DEFINE a == n.ins[1]
           r == Len(a)
<1>1. a \in Seq(Nat) /\ r \in Nat /\ DOMAIN a = 1 .. r /\ \A d \in 1 .. r : a[d] \in Nat
  <2>1. a \in Seq(Nat)
    BY InsTyped
  <2> QED BY <2>1
<1>2. CASE n.op = "slice" /\ analyze_slice(n)
  <2> DEFINE b == n.p.begin
             z == [d \in DOMAIN a |-> SliceSize(n, d)]
             t == Ones(r)
  <2>1. Capture(n) = [rank |-> r, strided |-> FALSE, begin |-> b, size |-> z, stride |-> t]
    BY <1>2 DEF Capture
  <2>2. \A d \in 1 .. r : b[d] \in Int /\ t[d] \in Int /\ n.p.size[d] \in Int
    <3>1. n.p.begin \in Seq(Int) /\ n.p.size \in Seq(Int)
      BY <1>2 DEF Situation, WellFormed, Attributes
    <3>2. Len(n.p.begin) = r /\ Len(n.p.size) = r
      BY <1>2 DEF analyze_slice
    <3>3. \A d \in 1 .. r : t[d] = 1
      <4> HIDE DEF r
      <4> QED BY DEF Ones
    <3> HIDE DEF r, t
    <3> QED BY <1>1, <3>1, <3>2, <3>3
  <2>3. \A d \in 1 .. r : z[d] \in Int
    <3> HIDE DEF b
    <3>1. ASSUME NEW d \in 1 .. r PROVE SliceSize(n, d) \in Int
      <4>1. a[d] \in Nat /\ b[d] \in Int /\ n.p.size[d] \in Int
        BY <1>1, <2>2
      <4> QED BY <4>1 DEF SliceSize, b
    <3> QED BY <1>1, <3>1
  <2>4. z \in Seq(Int) /\ Len(z) = r
    <3>1. z = [d \in 1 .. r |-> z[d]]
      BY <1>1
    <3> HIDE DEF z
    <3> QED BY <1>1, <2>3, <3>1, AsSequence
  <2> HIDE DEF z, t, b, r
  <2> QED BY <2>1, <2>2, <2>4, SliceRuns
<1>3. CASE n.op = "strided" /\ analyze_strided_slice(n)
  <2> DEFINE axes == ExpandSpec(n)
             st == \E s \in Consuming(n.p.spec) : n.p.spec[s].s # 1
             b == [d \in DOMAIN a |-> axes[d].begin]
             z == [d \in DOMAIN a |-> axes[d].size]
             t == [d \in DOMAIN a |-> axes[d].stride]
  <2>1. Capture(n) = [rank |-> r, strided |-> st, begin |-> b, size |-> z, stride |-> t]
    <3> HIDE DEF axes, st
    <3> QED BY <1>3 DEF Capture, axes, st
  <2>2. \A d \in 1 .. r : Steps(axes[d], a[d])
    <3>1. n.p.spec \in Seq(SpecEntry)
      BY <1>3 DEF Situation, WellFormed, Attributes
    <3>2. /\ EllAxes(n) >= 0 /\ Cardinality(OfKind(n.p.spec, "ellipsis")) <= 1
          /\ \A s \in Consuming(n.p.spec) : n.p.spec[s].s # 0
      BY <1>3 DEF analyze_strided_slice
    <3> QED BY <1>1, <3>1, <3>2, ExpansionSteps
  <2> HIDE DEF axes, st
  <2>3. \A d \in 1 .. r : b[d] \in Int /\ z[d] \in Int /\ t[d] \in Int
    BY <1>1, <2>2 DEF Steps
  <2>4. z \in Seq(Int) /\ Len(z) = r
    <3>1. z = [d \in 1 .. r |-> z[d]]
      BY <1>1
    <3> HIDE DEF z
    <3> QED BY <1>1, <2>3, <3>1, AsSequence
  <2> HIDE DEF z, t, b, r
  <2> QED BY <2>1, <2>3, <2>4, SliceRuns
<1> QED BY <1>2, <1>3

\* A shape with one extent changed is a shape.
LEMMA ShapeChanged ==
    ASSUME NEW a \in Seq(Nat), NEW axis, NEW v \in Nat
    PROVE  [a EXCEPT ![axis] = v] \in Seq(Nat)
<1> DEFINE b == [a EXCEPT ![axis] = v]
<1>1. Len(a) \in Nat /\ DOMAIN a = 1 .. Len(a) /\ \A d \in 1 .. Len(a) : a[d] \in Nat
  OBVIOUS
<1>2. b = [d \in 1 .. Len(a) |-> b[d]] /\ \A d \in 1 .. Len(a) : b[d] \in Nat
  BY <1>1
<1> HIDE DEF b
<1>3. b \in Seq(Nat)
  BY <1>1, <1>2, AsSequence
<1> QED BY <1>3 DEF b

\* The outputs of a SPLIT are shapes.
LEMMA SplitOuts ==
    ASSUME NEW n, NEW buf, Situation(n, buf), n.op = "split"
    PROVE  /\ \A i \in DOMAIN buf.outs : buf.outs[i] \in Seq(Nat)
           /\ \E m \in Nat : DOMAIN buf.outs = 1 .. m
<1>1. PICK ins \in LiveIns(n) : \/ buf.outs = Shapes("split", n.p, ins)
                                \/ buf.outs = Unresolved(Shapes("split", n.p, ins))
  BY OutsAre
<1> DEFINE a == ins[1]
           axis == Axis(n.p.axis, Len(a))
           S == [i \in DOMAIN n.p.sizes |-> [a EXCEPT ![axis] = n.p.sizes[i]]]
<1>2. Shapes("split", n.p, ins) = S
  BY DEF Shapes
<1>3. n.p.sizes \in Seq(Nat)
  BY DEF Situation, WellFormed, Attributes
<1>4. a \in Seq(Nat)
  BY DEF LiveIns, Situation, WellFormed
<1>5. DOMAIN S = 1 .. Len(n.p.sizes) /\ Len(n.p.sizes) \in Nat
  BY <1>3
<1>6. \A i \in DOMAIN S : S[i] \in Seq(Nat)
  <2> HIDE DEF a, axis
  <2>1. ASSUME NEW i \in DOMAIN S PROVE S[i] \in Seq(Nat)
    <3>1. n.p.sizes[i] \in Nat /\ S[i] = [a EXCEPT ![axis] = n.p.sizes[i]]
      BY <1>3, <1>5
    <3> QED BY <1>4, <3>1, ShapeChanged
  <2> QED BY <2>1
<1> HIDE DEF S
<1>7. CASE buf.outs = S
  BY <1>5, <1>6, <1>7
<1>8. CASE buf.outs = Unresolved(S)
  <2>1. DOMAIN buf.outs = DOMAIN S /\ \A i \in DOMAIN S : buf.outs[i] = << >>
    BY <1>8 DEF Unresolved
  <2>2. << >> \in Seq(Nat)
    OBVIOUS
  <2> QED BY <1>5, <2>1, <2>2
<1> QED BY <1>1, <1>2, <1>7, <1>8

\* SPLIT: the outputs before the one that does not fit are written.
LEMMA SplitKept ==
    ASSUME NEW n, NEW buf, Situation(n, buf), n.op = "split", analyze_split(n)
    PROVE  Kept(eval_split(Capture(n), buf), buf)
<1> DEFINE x0 == Capture(n)
           in == buf.ins[1]
           outs == buf.outs
           rank == Len(n.ins[1])
           axis == Axis(n.p.axis, rank)
           off(i) == SumFunction([j \in 1 .. (i - 1) |-> outs[j][axis]])
           fits == {i \in DOMAIN outs : \A j \in 1 .. i :
                       same_dims_except(outs[j], in, axis) /\ off(j) + outs[j][axis] <= in[axis]}
           begin(i) == [Zeros(rank) EXCEPT ![axis] = off(i)]
           done == [i \in fits |-> rocket_slice_bytes(in, begin(i), outs[i])]
<1>1. x0 = [rank |-> rank, axis |-> axis]
  BY DEF Capture
<1>2. eval_split(x0, buf) = IF Len(in) # rank THEN Fails(<< >>)
                            ELSE IF fits = DOMAIN outs /\ off(Len(outs) + 1) = in[axis]
                            THEN Answer(done, FALSE) ELSE Fails(done)
  <2> HIDE DEF rank, axis
  <2> QED BY <1>1 DEF eval_split
<1>3. /\ in \in Seq(Nat) /\ rank \in Nat /\ axis \in 1 .. rank
      /\ \A i \in DOMAIN outs : outs[i] \in Seq(Nat)
  <2>1. n.ins[1] \in Seq(Nat) /\ in \in Seq(Nat)
    BY InsTyped
  <2>2. axis \in DOMAIN n.ins[1]
    BY DEF analyze_split
  <2> HIDE DEF axis
  <2> QED BY <2>1, <2>2, SplitOuts
<1>4. PICK m \in Nat : DOMAIN outs = 1 .. m
  BY SplitOuts
<1> HIDE DEF rank, axis, in, outs, x0
<1>5. ASSUME Len(in) = rank, NEW i \in fits PROVE Within(done[i], outs[i], buf.ins)
  <2>1. i \in 1 .. m /\ i \in 1 .. i /\ 1 .. i \subseteq 1 .. m
    BY <1>4
  <2>2. \A j \in 1 .. i : same_dims_except(outs[j], in, axis) /\ off(j) + outs[j][axis] <= in[axis]
    OBVIOUS
  <2>3. \A j \in 1 .. i : outs[j] \in Seq(Nat) /\ Len(outs[j]) = rank /\ outs[j][axis] \in Nat
    <3>1. \A j \in 1 .. i : outs[j] \in Seq(Nat) /\ Len(outs[j]) = rank
      BY <1>3, <1>4, <1>5, <2>1, <2>2 DEF same_dims_except
    <3> QED BY <1>3, <3>1
  <2> DEFINE g == [j \in 1 .. (i - 1) |-> outs[j][axis]]
             k == off(i)
             o == outs[i]
  <2>4. k \in Nat
    <3>1. IsFiniteSet(1 .. (i - 1))
      BY <2>1, FS_Interval
    <3>2. DOMAIN g = 1 .. (i - 1) /\ \A j \in 1 .. (i - 1) : g[j] \in Nat
      BY <2>1, <2>3
    <3>3. k = SumFunctionOnSet(g, DOMAIN g)
      BY DEF SumFunction
    <3> HIDE DEF g, k
    <3> QED BY <3>1, <3>2, <3>3, SumNat
  <2>5. o \in Seq(Nat) /\ Len(o) = Len(in) /\ k + o[axis] <= in[axis]
        /\ \A d \in DOMAIN o : d # axis => o[d] = in[d]
    <3>1. same_dims_except(outs[i], in, axis) /\ off(i) + outs[i][axis] <= in[axis]
      BY <2>1, <2>2
    <3> QED BY <2>1, <2>3, <3>1 DEF same_dims_except
  <2>6. done[i] = rocket_slice_bytes(in, [Zeros(rank) EXCEPT ![axis] = k], o)
    OBVIOUS
  <2> DEFINE bg == [Zeros(rank) EXCEPT ![axis] = k]
             f == done[i]
  <2> HIDE DEF k, o, f, done, fits
  <2>7. DOMAIN o = 1 .. rank /\ \A d \in DOMAIN o : o[d] \in Nat
    BY <1>3, <1>5, <2>5
  <2>8. bg[axis] = k /\ \A d \in 1 .. rank : d # axis => bg[d] = 0
    BY <1>3 DEF Zeros
  <2> HIDE DEF bg
  <2>9. \A d \in DOMAIN o : bg[d] \in Nat /\ bg[d] + o[d] <= in[d]
    <3>1. ASSUME NEW d \in DOMAIN o PROVE bg[d] \in Nat /\ bg[d] + o[d] <= in[d]
      <4>1. CASE d = axis
        BY <2>4, <2>5, <2>8, <4>1
      <4>2. CASE d # axis
        BY <2>5, <2>7, <2>8, <4>2
      <4> QED BY <4>1, <4>2
    <3> QED BY <3>1
  <2>10. Within(f, o, buf.ins)
    BY <1>3, <2>5, <2>6, <2>9, SliceWithin DEF in, bg, f
  <2> QED BY <2>10 DEF f, o
<1>6. CASE Len(in) # rank
  <2> HIDE DEF done, fits
  <2> QED BY <1>2, <1>6, KeptNone DEF x0
<1>7. CASE Len(in) = rank
  <2>1. \A i \in DOMAIN done : Within(done[i], outs[i], buf.ins)
    BY <1>5, <1>7
  <2> HIDE DEF done, fits, off
  <2> QED BY <1>2, <1>7, <2>1 DEF Kept, Answer, Fails, outs, x0
<1> QED BY <1>6, <1>7

\* CONCATENATION, at the shapes it was claimed with: its inputs lie end to end.
LEMMA ConcatKept ==
    ASSUME NEW n, NEW buf, Situation(n, buf), n.op = "concat", analyze_concat(n),
           buf = [ins |-> n.ins, outs |-> n.outs]
    PROVE  Kept(eval_concat(n, Capture(n), buf), buf)
<1> DEFINE x0 == Capture(n)
           ins == buf.ins
           o == buf.outs[1]
           axis == Axis(n.p.axis, Len(o))
           outer == Count(SubSeq(o, 1, axis - 1))
           inner == Count(SubSeq(o, axis + 1, Len(o)))
           off(i) == SumFunction([j \in 1 .. (i - 1) |-> ins[j][axis]])
           fits == {i \in DOMAIN ins : \A j \in 1 .. i : same_dims_except(ins[j], o, axis)}
           copies == [i \in fits |-> rocket_concat_in(i, outer, ins[i][axis], o[axis], inner, off(i))]
           done == Overlaid(copies)
           m == Len(ins)
<1>0. n.ins = ins /\ n.outs[1] = o
  OBVIOUS
<1>1. x0 = [axis |-> axis]
  <2>1. x0 = [axis |-> Axis(n.p.axis, Len(n.outs[1]))]
    BY DEF Capture
  <2> HIDE DEF x0, o
  <2> QED BY <1>0, <2>1
<1>2. eval_concat(n, x0, buf) = IF fits = DOMAIN ins /\ off(m + 1) = o[axis]
                                THEN Answer(<<done>>, FALSE) ELSE Fails(<<done>>)
  <2> HIDE DEF axis, x0
  <2> QED BY <1>1 DEF eval_concat
<1>3. /\ DOMAIN ins = 1 .. m /\ m \in Nat /\ m > 0 /\ \A i \in 1 .. m : ins[i] \in Seq(Nat)
  <2>1. n.ins \in Seq(Seq(Nat)) /\ Len(n.ins) >= 1
    BY DEF Situation, WellFormed
  <2>2. ins \in Seq(Seq(Nat)) /\ Len(ins) >= 1
    <3> HIDE DEF ins
    <3> QED BY <1>0, <2>1
  <2> HIDE DEF ins
  <2> QED BY <2>2
<1>4. /\ axis \in DOMAIN o /\ \A i \in 1 .. m : same_dims_except(ins[i], o, axis)
      /\ SumFunction([i \in 1 .. m |-> ins[i][axis]]) = o[axis]
  <2> DEFINE ax == Axis(n.p.axis, Len(n.outs[1]))
  <2>1. /\ ax \in DOMAIN n.outs[1] /\ \A i \in DOMAIN n.ins : same_dims_except(n.ins[i], n.outs[1], ax)
        /\ SumFunction([i \in DOMAIN n.ins |-> n.ins[i][ax]]) = n.outs[1][ax]
    BY DEF analyze_concat
  <2> HIDE DEF ins, o, ax
  <2>2. ax = axis
    BY <1>0 DEF ax
  <2> HIDE DEF axis, m
  <2>3. [i \in DOMAIN n.ins |-> n.ins[i][ax]] = [i \in 1 .. m |-> ins[i][axis]]
    BY <1>0, <1>3, <2>2
  <2>4. axis \in DOMAIN o /\ \A i \in 1 .. m : same_dims_except(ins[i], o, axis)
    BY <1>0, <1>3, <2>1, <2>2
  <2>5. SumFunction([i \in 1 .. m |-> ins[i][axis]]) = o[axis]
    BY <1>0, <2>1, <2>2, <2>3
  <2> QED BY <2>4, <2>5
<1>5. PICK r \in Nat : DOMAIN o = 1 .. r /\ o = [d \in 1 .. r |-> o[d]]
  <2>1. PICK others \in LiveIns(n) : \/ o = Shapes("concat", n.p, others)[1]
                                     \/ o = << >>
    BY <1>0, OneOut
  <2> DEFINE a == others[1]
             e == Axis(n.p.axis, Len(a))
             s == SumFunction([k \in DOMAIN others |-> others[k][e]])
  <2>2. o # << >>
    BY <1>4
  <2>3. o = [a EXCEPT ![e] = s]
    BY <2>1, <2>2 DEF Shapes
  <2>4. Len(a) \in Nat /\ DOMAIN a = 1 .. Len(a)
    <3>1. a \in Seq(Nat)
      BY DEF LiveIns, Situation, WellFormed
    <3> QED BY <3>1
  <2> HIDE DEF s, e, a, o
  <2>5. DOMAIN o = 1 .. Len(a) /\ o = [d \in 1 .. Len(a) |-> o[d]]
    BY <2>3, <2>4
  <2> QED BY <2>4, <2>5
<1>6. Len(o) = r
  <2> HIDE DEF o
  <2> QED BY <1>5, AsSequence
<1> HIDE DEF o, axis, ins, m, x0
<1> DEFINE g == [i \in 1 .. m |-> ins[i][axis]]
<1>7. /\ axis \in 1 .. r
      /\ \A i \in 1 .. m : /\ Len(ins[i]) = r /\ ins[i][axis] \in Nat
                           /\ \A d \in 1 .. r : ins[i][d] \in Nat /\ (d # axis => ins[i][d] = o[d])
  <2>1. axis \in 1 .. r
    BY <1>4, <1>5
  <2>2. ASSUME NEW i \in 1 .. m
        PROVE  /\ Len(ins[i]) = r /\ ins[i][axis] \in Nat
               /\ \A d \in 1 .. r : ins[i][d] \in Nat /\ (d # axis => ins[i][d] = o[d])
    <3> DEFINE a == ins[i]
    <3>1. a \in Seq(Nat) /\ Len(a) = r /\ \A d \in DOMAIN a : d # axis => a[d] = o[d]
      BY <1>3, <1>4, <1>6 DEF same_dims_except
    <3> HIDE DEF a
    <3>2. DOMAIN a = 1 .. r /\ \A d \in 1 .. r : a[d] \in Nat
      BY <3>1
    <3> QED BY <2>1, <3>1, <3>2 DEF a
  <2> QED BY <2>1, <2>2
<1>8. /\ \A i \in 1 .. m : g[i] = ins[i][axis] /\ g[i] \in Nat
      /\ o[axis] = SumFunctionOnSet(g, 1 .. m) /\ IsFiniteSet(1 .. m)
  <2>1. \A i \in 1 .. m : g[i] = ins[i][axis] /\ g[i] \in Nat
    BY <1>7
  <2>2. SumFunction(g) = SumFunctionOnSet(g, 1 .. m)
    BY DEF SumFunction
  <2>3. IsFiniteSet(1 .. m)
    BY <1>3, FS_Interval
  <2> QED BY <1>4, <2>1, <2>2, <2>3
<1>9. o[axis] \in Nat
  <2> HIDE DEF g
  <2> QED BY <1>8, SumNat
<1>10. o \in Seq(Nat)
  <2>1. 1 \in 1 .. m
    BY <1>3
  <2>2. \A d \in 1 .. r : o[d] \in Nat
    <3>1. ASSUME NEW d \in 1 .. r PROVE o[d] \in Nat
      <4>1. CASE d = axis
        BY <1>9, <4>1
      <4>2. CASE d # axis
        BY <1>7, <2>1, <4>2
      <4> QED BY <4>1, <4>2
    <3> QED BY <3>1
  <2> QED BY <1>5, <2>2, AsSequence
<1>11. ASSUME NEW i \in fits PROVE Within(copies[i], o, ins)
  <2>1. i \in 1 .. m
    BY <1>3
  <2> DEFINE before == [j \in 1 .. (i - 1) |-> g[j]]
             k == off(i)
  <2>2. k \in Nat /\ k + ins[i][axis] <= o[axis]
    <3>1. before = [j \in 1 .. (i - 1) |-> ins[j][axis]]
      <4>1. \A j \in 1 .. (i - 1) : j \in 1 .. m
        BY <1>3, <2>1
      <4>2. \A j \in 1 .. (i - 1) : g[j] = ins[j][axis]
        BY <4>1
      <4> HIDE DEF g
      <4> QED BY <4>2
    <3>2. k = SumFunction(before)
      BY <3>1
    <3>3. SumFunction(before) \in Nat /\ SumFunction(before) + g[i] <= SumFunctionOnSet(g, 1 .. m)
      <4> HIDE DEF g
      <4> QED BY <1>3, <1>8, <2>1, Laid
    <3> HIDE DEF before, k, g
    <3> QED BY <1>8, <2>1, <3>2, <3>3
  <2>3. copies[i] = rocket_concat_in(i, outer, ins[i][axis], o[axis], inner, k)
    OBVIOUS
  <2>4. same_dims_except(ins[i], o, axis) /\ ins[i] \in Seq(Nat)
    BY <1>3, <1>4, <2>1
  <2> HIDE DEF k, copies
  <2>5. axis \in 1 .. Len(o)
    BY <1>6, <1>7
  <2> QED BY <1>10, <2>2, <2>3, <2>4, <2>5, ConcatWithin
<1>12. DOMAIN copies = fits /\ fits \subseteq 1 .. m
  BY <1>3
<1>13. Within(done, o, ins)
  <2> HIDE DEF copies, fits
  <2> QED BY <1>3, <1>11, <1>12, OverlaidWithin
<1> HIDE DEF done, fits, off
<1>14. CASE fits = DOMAIN ins /\ off(m + 1) = o[axis]
  BY <1>2, <1>13, <1>14, KeptOne DEF x0, ins, o
<1>15. CASE ~(fits = DOMAIN ins /\ off(m + 1) = o[axis])
  <2>1. eval_concat(n, Capture(n), buf) = Fails(<<done>>)
    BY <1>2, <1>15 DEF x0
  <2> QED BY <1>13, <2>1 DEF Kept, Fails, ins, o
<1> QED BY <1>14, <1>15

\* A matrix's elements
LEMMA CountMatrix ==
    ASSUME NEW dims \in Seq(Nat), Len(dims) = 2
    PROVE  Count(dims) = dims[1] * dims[2]
<1>1. DOMAIN dims = 1 .. 2 /\ dims[1] \in Nat /\ dims[2] \in Nat
  <2>1. DOMAIN dims = 1 .. 2 /\ \A d \in 1 .. 2 : dims[d] \in Nat
    BY ShapeDomain
  <2> QED BY <2>1
<1> DEFINE I == 1 .. 2
<1>2. IsFiniteSet(I)
  BY FS_Interval
<1>3. \A d \in I : dims[d] \in Int
  BY <1>1
<1>4. 1 \in I /\ 2 \in I \ {1} /\ (I \ {1}) \ {2} = {}
  OBVIOUS
<1>5. IsFiniteSet(I \ {1}) /\ \A d \in I \ {1} : dims[d] \in Int
  BY <1>2, <1>3, FS_Subset
<1>6. Count(dims) = ProductOn(dims, I)
  BY <1>1, CountIs
<1> HIDE DEF I
<1>7. ProductOn(dims, I) = dims[1] * ProductOn(dims, I \ {1})
  BY <1>2, <1>3, <1>4, ProductTake
<1>8. ProductOn(dims, I \ {1}) = dims[2] * ProductOn(dims, (I \ {1}) \ {2})
  BY <1>4, <1>5, ProductTake
<1>9. ProductOn(dims, (I \ {1}) \ {2}) = 1
  BY <1>4, ProductEmpty
<1>10. ProductOn(dims, I \ {1}) = dims[2]
  BY <1>1, <1>8, <1>9
<1> QED BY <1>6, <1>7, <1>10

\* FULLY_CONNECTED, at the shapes it was claimed with
LEMMA FcKept ==
    ASSUME NEW n, NEW buf, Situation(n, buf), n.op = "fc", analyze_fc(n),
           buf = [ins |-> n.ins, outs |-> n.outs], NEW pk, NEW board
    PROVE  Kept(eval_fc(Capture(n), buf, pk, board), buf)
<1> DEFINE x0 == Capture(n)
           a == n.ins[1]
           w == n.ins[2]
           K == w[2]
           N == w[1]
           M == Count(a) \div K
           Kpad == round_up(K, 32)
           Npad == round_up(N, 16)
           C == Through(Through(rocket_fc_f(M, Kpad, Npad), 1, Padded(M, K, Kpad)),
                        2, Padded(N, K, Kpad))
           f == [k \in 0 .. (M * N - 1) |-> C[(k \div N) * Npad + (k % N)]]
           g == rocket_fc_f(M, K, N)
<1>1. x0 = [M |-> M, K |-> K, N |-> N]
  BY DEF Capture
<1>2. eval_fc(x0, buf, pk, board) = IF pk /\ board THEN Answer(<<f>>, TRUE) ELSE Answer(<<g>>, FALSE)
  <2> HIDE DEF M, N, K
  <2> QED BY <1>1 DEF eval_fc
<1>3. a \in Seq(Nat) /\ w \in Seq(Nat) /\ Len(w) = 2
  BY InsTyped DEF analyze_fc, TwoInputs
<1>4. K \in Nat /\ N \in Nat /\ K > 0 /\ Count(a) \in Nat /\ Count(a) % K = 0
      /\ Count(n.outs[1]) = M * N
  <2>1. K > 0 /\ Count(a) % K = 0 /\ Count(n.outs[1]) = M * N
    BY DEF analyze_fc
  <2>2. K \in Nat /\ N \in Nat
    <3> HIDE DEF w
    <3>1. DOMAIN w = 1 .. 2 /\ \A d \in 1 .. 2 : w[d] \in Nat
      BY <1>3, ShapeDomain
    <3>2. w[1] \in Nat /\ w[2] \in Nat
      BY <3>1
    <3> QED BY <3>2
  <2> HIDE DEF M, N, K, a
  <2> QED BY <1>3, <2>1, <2>2, CountNat
<1>5. Count(w) = N * K
  <2> HIDE DEF w
  <2> QED BY <1>3, CountMatrix
<1>6. buf.ins[1] = a /\ buf.ins[2] = w /\ buf.outs[1] = n.outs[1]
  OBVIOUS
<1> DEFINE A == Count(a)
<1>7. M \in Nat /\ M * K = Count(a)
  <2>1. M = A \div K /\ A \in Nat /\ A % K = 0
    BY <1>4
  <2> HIDE DEF M, K, A
  <2>2. M \in Nat /\ M * K = A
    BY <1>4, <2>1, Multiple
  <2> QED BY <2>2 DEF A
<1>8. Kpad \in Nat /\ K <= Kpad /\ Npad \in Nat /\ N <= Npad
  <2>1. ASSUME NEW v \in Nat PROVE round_up(v, 32) \in Nat /\ v <= round_up(v, 32)
                                   /\ round_up(v, 16) \in Nat /\ v <= round_up(v, 16)
    BY DEF round_up, CeilDiv
  <2> HIDE DEF N, K
  <2> QED BY <1>4, <2>1
<1>9. Count(buf.ins[1]) = M * K /\ Count(buf.ins[2]) = N * K /\ Count(buf.outs[1]) = M * N
  <2> HIDE DEF a, w, M, N, K
  <2> QED BY <1>4, <1>5, <1>6, <1>7
<1> HIDE DEF M, N, K, Kpad, Npad
<1>10. Within(g, buf.outs[1], buf.ins)
  BY <1>4, <1>7, <1>9, MatmulWithin
<1>11. Within(f, buf.outs[1], buf.ins)
  <2>1. f = Unpadded(C, M, N, Npad)
    BY DEF Unpadded
  <2> HIDE DEF f
  <2>2. Within(Unpadded(C, M, N, Npad), buf.outs[1], buf.ins)
    BY <1>4, <1>7, <1>8, <1>9, PackedWithin
  <2> HIDE DEF C
  <2> QED BY <2>1, <2>2
<1> HIDE DEF f, g
<1> QED BY <1>2, <1>10, <1>11, KeptOne DEF x0

\* Every operator's evaluation keeps inside, whatever the shapes of the moment; those
\* of a CONCATENATION and a FULLY_CONNECTED are the ones it was claimed with.
LEMMA EvalKept ==
    ASSUME NEW n, NEW buf, Situation(n, buf), Full(n, buf), NEW o0, analyze_node(n, o0),
           n.op \in {"concat", "fc"} => buf = [ins |-> n.ins, outs |-> n.outs],
           NEW pk, NEW board
    PROVE  Kept(eval(n, Capture(n), buf, pk, board), buf)
<1> DEFINE x0 == Capture(n)
           a == eval(n, x0, buf, pk, board)
<1>1. n.op \in OneInput \cup TwoInputs \cup {"concat"}
  BY DEF Situation, WellFormed
<1> HIDE DEF x0
<1>2. CASE n.op = "binary"
  <2>1. a = eval_add(n, buf, board)
    BY <1>2 DEF eval
  <2> QED BY <1>2, <2>1, AddKept DEF x0
<1>3. CASE n.op = "pool"
  <2>1. a = eval_pool(n, buf, board) /\ analyze_pool(n)
    BY <1>3 DEF eval, analyze_node
  <2> QED BY <1>3, <2>1, PoolKept DEF x0
<1>4. CASE n.op = "concat"
  <2>1. a = eval_concat(n, x0, buf) /\ analyze_concat(n)
    BY <1>4 DEF eval, analyze_node
  <2> QED BY <1>4, <2>1, ConcatKept DEF x0
<1>5. CASE n.op \in {"reshape", "act"}
  <2>1. a = eval_reshape(buf) \/ a = eval_act(n, buf, board)
    BY <1>5 DEF eval
  <2> QED BY <2>1, CopyKept DEF x0
<1>6. CASE n.op = "transpose"
  <2>1. a = eval_transpose(n, x0, buf) /\ analyze_transpose(n)
    BY <1>6 DEF eval, analyze_node
  <2> QED BY <1>6, <2>1, TransposeKept DEF x0
<1>7. CASE n.op \in {"slice", "strided"}
  <2>1. a = eval_slice(x0, buf)
    BY <1>7 DEF eval
  <2>2. \/ n.op = "slice" /\ analyze_slice(n)
        \/ n.op = "strided" /\ analyze_strided_slice(n)
    BY <1>7 DEF analyze_node
  <2> QED BY <2>1, <2>2, SliceKept DEF x0
<1>8. CASE n.op = "pad"
  <2>1. a = eval_pad(n, x0, buf) /\ analyze_pad(n)
    BY <1>8 DEF eval, analyze_node
  <2> QED BY <1>8, <2>1, PadKept DEF x0
<1>9. CASE n.op = "split"
  <2>1. a = eval_split(x0, buf) /\ analyze_split(n)
    BY <1>9 DEF eval, analyze_node
  <2> QED BY <1>9, <2>1, SplitKept DEF x0
<1>10. CASE n.op \in {"rowwise", "l2norm", "cumsum"}
  <2>1. a = eval_rows(n, x0, buf, board) /\ analyze_rows(n)
    BY <1>10 DEF eval, analyze_node
  <2> QED BY <1>10, <2>1, RowsKept DEF x0
<1>11. CASE n.op = "tconv"
  <2>1. a = eval_tconv(n, x0, buf) /\ analyze_tconv(n)
    BY <1>11 DEF eval, analyze_node
  <2> QED BY <1>11, <2>1, TconvKept DEF x0
<1>12. CASE n.op = "resize"
  <2>1. a = eval_resize(n, x0, buf, board) /\ analyze_resize(n)
    BY <1>12 DEF eval, analyze_node
  <2> QED BY <1>12, <2>1, ResizeKept DEF x0
<1>13. CASE n.op = "reduce"
  <2>1. a = eval_reduce(n, x0, buf, board)
    BY <1>13 DEF eval
  <2> QED BY <1>13, <2>1, ReduceKept DEF x0
<1>14. CASE n.op = "prelu"
  <2>1. a = eval_prelu(n, x0, buf, board) /\ analyze_prelu(n)
    BY <1>14 DEF eval, analyze_node
  <2> QED BY <1>14, <2>1, PreluKept DEF x0
<1>15. CASE n.op = "fc"
  <2>1. a = eval_fc(x0, buf, pk, board) /\ analyze_fc(n)
    BY <1>15 DEF eval, analyze_node
  <2> QED BY <1>15, <2>1, FcKept DEF x0
<1> QED
  BY <1>1, <1>2, <1>3, <1>4, <1>5, <1>6, <1>7, <1>8, <1>9, <1>10, <1>11, <1>12, <1>13, <1>14, <1>15
     DEF OneInput, TwoInputs

\* An answer, whatever the operator, is a success or a failure.
Answers(a) == \E outs, npu : a = Fails(outs) \/ (npu \in BOOLEAN /\ a = Answer(outs, npu))

\* Every evaluation ends in a failure or an answer.
LEMMA EvalAnswers ==
    ASSUME NEW n, n.op \in OneInput \cup TwoInputs \cup {"concat"}, NEW x0, NEW buf, NEW pk,
           NEW board
    PROVE  Answers(eval(n, x0, buf, pk, board))
<1> DEFINE a == eval(n, x0, buf, pk, board)
<1>1. \/ a \in {eval_add(n, buf, board), eval_pool(n, buf, board), eval_concat(n, x0, buf)}
      \/ a \in {eval_reshape(buf), eval_transpose(n, x0, buf), eval_slice(x0, buf)}
      \/ a \in {eval_pad(n, x0, buf), eval_split(x0, buf), eval_act(n, buf, board)}
      \/ a \in {eval_rows(n, x0, buf, board), eval_tconv(n, x0, buf), eval_resize(n, x0, buf, board)}
      \/ a \in {eval_reduce(n, x0, buf, board), eval_prelu(n, x0, buf, board), eval_fc(x0, buf, pk, board)}
  BY DEF eval, OneInput, TwoInputs
<1>2. Answers(eval_add(n, buf, board)) /\ Answers(eval_pool(n, buf, board))
  BY DEF Answers, eval_add, eval_pool
<1>3. Answers(eval_concat(n, x0, buf)) /\ Answers(eval_split(x0, buf))
  BY DEF Answers, eval_concat, eval_split
<1>4. Answers(eval_reshape(buf)) /\ Answers(eval_transpose(n, x0, buf)) /\ Answers(eval_slice(x0, buf))
  BY DEF Answers, eval_reshape, eval_transpose, eval_slice
<1>5. Answers(eval_pad(n, x0, buf)) /\ Answers(eval_act(n, buf, board))
  BY DEF Answers, eval_pad, eval_act
<1>6. Answers(eval_rows(n, x0, buf, board)) /\ Answers(eval_tconv(n, x0, buf))
  BY DEF Answers, eval_rows, eval_tconv
<1>7. Answers(eval_resize(n, x0, buf, board)) /\ Answers(eval_reduce(n, x0, buf, board))
  BY DEF Answers, eval_resize, eval_reduce
<1>8. Answers(eval_prelu(n, x0, buf, board)) /\ Answers(eval_fc(x0, buf, pk, board))
  BY DEF Answers, eval_prelu, eval_fc
<1> HIDE DEF a
<1>9. Answers(a)
  BY <1>1, <1>2, <1>3, <1>4, <1>5, <1>6, <1>7, <1>8
<1> QED BY <1>9 DEF a

\* Which has the fields of one.
LEMMA AnswersTyped ==
    ASSUME NEW a, Answers(a)
    PROVE  a # None /\ a.ok \in BOOLEAN /\ a.npu \in BOOLEAN
<1>1. PICK outs, npu : a = Fails(outs) \/ (npu \in BOOLEAN /\ a = Answer(outs, npu))
  BY DEF Answers
<1>2. "ok" \in DOMAIN a /\ a.ok \in BOOLEAN /\ a.npu \in BOOLEAN
  <2>1. CASE a = Fails(outs)
    BY <2>1 DEF Fails
  <2>2. CASE npu \in BOOLEAN /\ a = Answer(outs, npu)
    BY <2>2 DEF Answer
  <2> QED BY <1>1, <2>1, <2>2
<1>3. "ok" \notin DOMAIN None
  BY DEF None
<1> QED BY <1>2, <1>3

-----------------------------------------------------------------------------
(* At the shapes a node was claimed with, none of them empty, its evaluation *)
(* succeeds: the checks of eval_* accept what the gates of analyze_* did.    *)

Own(n) == [ins |-> n.ins, outs |-> n.outs]
Sized(n) == \A i \in DOMAIN n.outs : Count(n.outs[i]) > 0

\* There is a first output, where the shape of the operator has one.
LEMMA FirstOut ==
    ASSUME NEW n, Situation(n, Own(n)), Sized(n), n.op # "split"
    PROVE  DOMAIN n.outs = {1} /\ Count(n.outs[1]) > 0
<1>1. n.outs \in {Shapes(n.op, n.p, n.ins), Unresolved(Shapes(n.op, n.p, n.ins))}
  BY DEF Situation
<1>2. \E e : Shapes(n.op, n.p, n.ins) = <<e>>
  BY DEF Shapes
<1>3. PICK e : Shapes(n.op, n.p, n.ins) = <<e>>
  BY <1>2
<1>4. DOMAIN n.outs = {1}
  <2>1. CASE n.outs = <<e>>
    BY <2>1
  <2>2. CASE n.outs = Unresolved(<<e>>)
    BY <2>2 DEF Unresolved
  <2> QED BY <1>1, <1>3, <2>1, <2>2
<1> QED BY <1>4 DEF Sized

\* ADD and its kind repeat the gate's broadcast.
LEMMA AddRuns ==
    ASSUME NEW n, analyze_ew(n), NEW board
    PROVE  eval_add(n, Own(n), board).ok
BY DEF eval_add, analyze_ew, Own, Answer

\* A pool's windows are counted again with the same formula.
LEMMA PoolRuns ==
    ASSUME NEW n, analyze_pool(n), NEW board
    PROVE  eval_pool(n, Own(n), board).ok
<1> DEFINE in == n.ins[1]
           o == n.outs[1]
           k == n.p.k
           s == n.p.s
           tot == [d \in {2, 3} |-> rocket_total_pad(in[d], k[d - 1], s[d - 1], o[d])]
           bad == \/ o[4] # in[4]
                  \/ \E d \in {2, 3} : rocket_out_dim(in[d], k[d - 1], s[d - 1], n.p.same) # o[d]
<1>1. ~bad
  BY DEF analyze_pool
<1>2. \E f, npu : eval_pool(n, Own(n), board) = IF bad THEN Fails(<< >>) ELSE Answer(f, npu)
  BY DEF eval_pool, Own
<1> HIDE DEF bad
<1> QED BY <1>1, <1>2 DEF Answer

\* RESHAPE and the activations ask for elements besides.
LEMMA CopyRuns ==
    ASSUME NEW n, Situation(n, Own(n)), Sized(n), NEW board
    PROVE  /\ n.op = "reshape" /\ analyze_reshape(n) => eval_reshape(Own(n)).ok
           /\ n.op = "act" /\ analyze_act(n) => eval_act(n, Own(n), board).ok
<1> SUFFICES ASSUME n.op \in {"reshape", "act"}, analyze_reshape(n) \/ analyze_act(n)
             PROVE  eval_reshape(Own(n)).ok /\ eval_act(n, Own(n), board).ok
  OBVIOUS
<1>1. Count(n.ins[1]) = Count(n.outs[1])
  BY DEF analyze_reshape, analyze_act
<1>2. Count(n.outs[1]) > 0
  BY FirstOut
<1>3. n.ins[1] \in Seq(Nat)
  BY InsTyped
<1>4. ~(Count(n.outs[1]) <= 0)
  <2>1. Count(n.outs[1]) \in Nat
    BY <1>1, <1>3, CountNat
  <2> QED BY <1>2, <2>1
<1> QED BY <1>1, <1>4 DEF eval_reshape, eval_act, Own, Answer

\* TRANSPOSE compares with the rank Init kept.
LEMMA TransposeRuns ==
    ASSUME NEW n, analyze_transpose(n), n.op = "transpose"
    PROVE  eval_transpose(n, Capture(n), Own(n)).ok
<1>1. Capture(n) = [rank |-> Len(n.ins[1])]
  BY DEF Capture
<1> DEFINE x0 == Capture(n)
<1>2. x0.rank = Len(n.ins[1])
  BY <1>1
<1> HIDE DEF x0
<1>3. eval_transpose(n, x0, Own(n)).ok
  BY <1>2 DEF eval_transpose, analyze_transpose, Own, Answer
<1> QED BY <1>3 DEF x0

\* PAD looks at the near border alone, and the far one leaves it room.
LEMMA PadRuns ==
    ASSUME NEW n, Situation(n, Own(n)), analyze_pad(n), n.op = "pad"
    PROVE  eval_pad(n, Capture(n), Own(n)).ok
<1> DEFINE x0 == Capture(n)
           in == n.ins[1]
           o == n.outs[1]
<1>1. x0.rank = Len(in)
  BY DEF Capture
<1>2. in \in Seq(Nat) /\ n.p.before \in Seq(Int) /\ n.p.after \in Seq(Int)
  BY InsTyped DEF Situation, WellFormed, Attributes
<1>3. /\ Len(o) = Len(in) /\ Len(n.p.before) = Len(in) /\ Len(n.p.after) = Len(in)
      /\ \A d \in DOMAIN in : n.p.after[d] >= 0 /\ o[d] = in[d] + n.p.before[d] + n.p.after[d]
  BY DEF analyze_pad
<1> HIDE DEF x0, o, in
<1>4. ASSUME NEW d \in 1 .. Len(in) PROVE ~(n.p.before[d] + in[d] > o[d])
  <2>1. d \in DOMAIN in /\ in[d] \in Nat /\ n.p.before[d] \in Int /\ n.p.after[d] \in Int
    BY <1>2, <1>3
  <2>2. n.p.after[d] >= 0 /\ o[d] = in[d] + n.p.before[d] + n.p.after[d]
    BY <1>3, <2>1
  <2> QED BY <2>1, <2>2
<1>5. eval_pad(n, x0, Own(n)).ok
  BY <1>1, <1>3, <1>4 DEF eval_pad, Own, Answer, in, o
<1> QED BY <1>5 DEF x0

\* TRANSPOSE_CONV compares with the extents Init kept.
LEMMA TconvRuns ==
    ASSUME NEW n, analyze_tconv(n), n.op = "tconv"
    PROVE  eval_tconv(n, Capture(n), Own(n)).ok
<1> DEFINE x0 == Capture(n)
           in == n.ins[1]
           o == n.outs[1]
<1>1. /\ x0.IH = in[2] /\ x0.IW = in[3] /\ x0.IC = in[4]
      /\ x0.OH = o[2] /\ x0.OW = o[3] /\ x0.OC = n.ins[2][1]
  BY DEF Capture
<1>2. Len(in) = 4 /\ o[4] = n.ins[2][1]
  BY DEF analyze_tconv, NHWC
<1> HIDE DEF x0
<1>3. eval_tconv(n, x0, Own(n)).ok
  BY <1>1, <1>2 DEF eval_tconv, Own, Answer
<1> QED BY <1>3 DEF x0

\* RESIZE_NEAREST_NEIGHBOR too
LEMMA ResizeRuns ==
    ASSUME NEW n, analyze_resize(n), n.op = "resize", NEW board
    PROVE  eval_resize(n, Capture(n), Own(n), board).ok
<1> DEFINE x0 == Capture(n)
           in == n.ins[1]
           o == n.outs[1]
           bad == \/ Len(in) # 4 \/ <<in[2], in[3], in[4]>> # <<x0.IH, x0.IW, x0.C>>
                  \/ <<o[2], o[3], o[4]>> # <<x0.OH, x0.OW, x0.C>>
<1>1. x0.IH = in[2] /\ x0.IW = in[3] /\ x0.C = in[4] /\ x0.OH = n.p.OH /\ x0.OW = n.p.OW
  BY DEF Capture
<1>2. Len(in) = 4 /\ o[2] = n.p.OH /\ o[3] = n.p.OW /\ o[4] = in[4]
  BY DEF analyze_resize, NHWC
<1> HIDE DEF x0
<1>3. ~bad
  BY <1>1, <1>2
<1>4. \E f, npu : eval_resize(n, x0, Own(n), board) = IF bad THEN Fails(<< >>) ELSE Answer(f, npu)
  BY DEF eval_resize, Own
<1> HIDE DEF bad
<1> QED BY <1>3, <1>4 DEF Answer, x0

\* MEAN and its kind too
LEMMA ReduceRuns ==
    ASSUME NEW n, analyze_reduce(n), n.op = "reduce", NEW board
    PROVE  eval_reduce(n, Capture(n), Own(n), board).ok
<1> DEFINE x0 == Capture(n)
           in == n.ins[1]
           bad == \/ Len(in) # 4 \/ <<in[2], in[3], in[4]>> # <<x0.H, x0.W, x0.C>>
                  \/ Count(n.outs[1]) # x0.C
<1>1. x0.H = in[2] /\ x0.W = in[3] /\ x0.C = in[4]
  BY DEF Capture
<1>2. Len(in) = 4 /\ Count(n.outs[1]) = in[4]
  BY DEF analyze_reduce, NHWC
<1> HIDE DEF x0
<1>3. ~bad
  BY <1>1, <1>2
<1>4. \E f, npu : eval_reduce(n, x0, Own(n), board) = IF bad THEN Fails(<< >>) ELSE Answer(f, npu)
  BY DEF eval_reduce, Own
<1> HIDE DEF bad
<1> QED BY <1>3, <1>4 DEF Answer, x0

\* The rows divide the tensor exactly.
LEMMA RowsRun ==
    ASSUME NEW n, Situation(n, Own(n)), analyze_rows(n), n.op \in {"rowwise", "l2norm", "cumsum"},
           NEW board
    PROVE  eval_rows(n, Capture(n), Own(n), board).ok
<1> DEFINE x0 == Capture(n)
           in == n.ins[1]
           c == Count(in)
           N == Last(in)
           bad == c # c \/ x0.M * x0.N # c \/ (n.op = "l2norm" /\ c <= 0)
<1>1. in \in Seq(Nat) /\ n.outs[1] = in /\ Len(in) >= 1 /\ N > 0 /\ c > 0 /\ c % N = 0
  BY InsTyped DEF analyze_rows
<1>2. c \in Nat /\ N \in Nat
  BY <1>1, CountNat DEF Last
<1>3. x0.M = c \div N /\ x0.N = N
  BY DEF Capture
<1> HIDE DEF x0
<1>4. x0.M * x0.N = c
  <2> HIDE DEF c, N
  <2> QED BY <1>1, <1>2, <1>3, Multiple
<1>5. ~bad
  BY <1>1, <1>2, <1>4
<1>6. \E f, npu : eval_rows(n, x0, Own(n), board) = IF bad THEN Fails(<< >>) ELSE Answer(f, npu)
  <2> HIDE DEF in
  <2> QED BY <1>1 DEF eval_rows, Own, in
<1> HIDE DEF bad
<1> QED BY <1>5, <1>6 DEF Answer, x0

\* The channels divide the tensor exactly.
LEMMA PreluRuns ==
    ASSUME NEW n, Situation(n, Own(n)), Sized(n), analyze_prelu(n), n.op = "prelu", NEW board
    PROVE  eval_prelu(n, Capture(n), Own(n), board).ok
<1> DEFINE x0 == Capture(n)
           in == n.ins[1]
           c == Count(in)
           C == Last(in)
           L == Len(in)
           bad == c # c \/ c <= 0 \/ c % x0.C # 0
<1>1. in \in Seq(Nat) /\ n.outs[1] = in /\ L \in Nat /\ L >= 1 /\ C > 0 /\ C = in[L]
  BY InsTyped DEF analyze_prelu, Last
<1>2. c \in Nat /\ C \in Nat /\ c > 0
  <2>1. Count(n.outs[1]) > 0
    BY FirstOut
  <2> QED BY <1>1, <2>1, CountNat
<1>3. x0.C = C
  BY DEF Capture
<1> HIDE DEF x0
<1>4. c % C = 0
  <2> DEFINE front == Count(SubSeq(in, 1, L - 1))
  <2>1. front \in Nat /\ c = (front * C) * Count(SubSeq(in, L + 1, L))
    <3>1. L \in 1 .. Len(in) /\ C = in[L]
      BY <1>1
    <3>2. front \in Nat /\ c = (front * in[L]) * Count(SubSeq(in, L + 1, L))
      BY <1>1, <3>1, CountAround
    <3> QED BY ONLY <3>1, <3>2
  <2>2. Count(SubSeq(in, L + 1, L)) = 1
    <3>1. DOMAIN SubSeq(in, L + 1, L) = {}
      BY <1>1
    <3> QED BY <3>1, CountIs, ProductEmpty
  <2> HIDE DEF front, c, C
  <2>3. front * C \in Nat
    BY <1>2, <2>1, Times
  <2>4. c = front * C + 0
    BY <2>1, <2>2, <2>3
  <2>5. 0 \in Nat /\ 0 < C
    BY <1>1, <1>2
  <2>6. (front * C + 0) % C = 0
    BY <1>2, <2>1, <2>5, DigitIs
  <2> QED BY <2>4, <2>6
<1>5. ~bad
  BY <1>2, <1>3, <1>4
<1>6. \E f, npu : eval_prelu(n, x0, Own(n), board) = IF bad THEN Fails(<< >>) ELSE Answer(f, npu)
  <2> HIDE DEF in
  <2> QED BY <1>1 DEF eval_prelu, Own, in
<1> HIDE DEF bad
<1> QED BY <1>5, <1>6 DEF Answer, x0

\* FULLY_CONNECTED checks nothing.
LEMMA FcRuns == ASSUME NEW x0, NEW buf, NEW pk, NEW board PROVE eval_fc(x0, buf, pk, board).ok
BY DEF eval_fc, Answer
\* The operands of a slice that is not empty, its steps on the axes, pass.
LEMMA SliceRun ==
    ASSUME NEW n, NEW r, NEW st, NEW b, NEW z \in Seq(Nat), NEW t, NEW x0,
           x0 = [rank |-> r, strided |-> st, begin |-> b, size |-> z, stride |-> t],
           n.ins[1] \in Seq(Nat), Len(n.ins[1]) = r, Len(z) = r, Count(n.outs[1]) = Count(z),
           \A d \in 1 .. r : z[d] > 0 => Inside(b[d], z[d], IF st THEN t[d] ELSE 1, n.ins[1][d]),
           Count(n.outs[1]) > 0
    PROVE  eval_slice(x0, Own(n)).ok
<1> DEFINE in == n.ins[1]
           step(d) == IF st THEN t[d] ELSE 1
           bad == \/ Len(in) # r
                  \/ \E d \in DOMAIN in : ~Inside(b[d], z[d], step(d), in[d])
                  \/ Count(n.outs[1]) # Count(z)
<1>1. DOMAIN in = 1 .. r /\ DOMAIN z = 1 .. r
  OBVIOUS
<1>2. \A d \in 1 .. r : z[d] > 0
  BY <1>1, CountNat
<1>3. \A d \in DOMAIN in : Inside(b[d], z[d], step(d), in[d])
  BY <1>1, <1>2
<1>4. ~bad
  <2> HIDE DEF step
  <2> QED BY <1>3
<1>5. \E f : eval_slice(x0, Own(n)) = IF bad THEN Fails(<< >>) ELSE Answer(f, FALSE)
  BY DEF eval_slice, Own
<1> HIDE DEF bad
<1> QED BY <1>4, <1>5 DEF Answer

\* SLICE: an extent of -1 was resolved when the node was claimed.
LEMMA SliceClaimed ==
    ASSUME NEW n, Situation(n, Own(n)), Sized(n), n.op = "slice", analyze_slice(n)
    PROVE  eval_slice(Capture(n), Own(n)).ok
<1> DEFINE a == n.ins[1]
           r == Len(a)
           o == n.outs[1]
           b == n.p.begin
           z == [d \in DOMAIN a |-> SliceSize(n, d)]
           t == Ones(r)
<1>1. a \in Seq(Nat) /\ r \in Nat /\ DOMAIN a = 1 .. r /\ \A d \in 1 .. r : a[d] \in Nat
  <2>1. a \in Seq(Nat)
    BY InsTyped
  <2> QED BY <2>1
<1>2. Capture(n) = [rank |-> r, strided |-> FALSE, begin |-> b, size |-> z, stride |-> t]
  BY DEF Capture
<1>3. /\ n.p.begin \in Seq(Int) /\ n.p.size \in Seq(Int)
      /\ Len(n.p.begin) = r /\ Len(n.p.size) = r /\ Len(o) = r /\ r > 0
      /\ \A d \in 1 .. r : /\ b[d] >= 0 /\ SliceSize(n, d) >= 0
                            /\ b[d] + SliceSize(n, d) <= a[d] /\ o[d] = SliceSize(n, d)
  <2>1. n.p.begin \in Seq(Int) /\ n.p.size \in Seq(Int)
    BY DEF Situation, WellFormed, Attributes
  <2>2. /\ Len(n.p.begin) = r /\ Len(n.p.size) = r /\ Len(o) = r /\ r > 0
        /\ \A d \in DOMAIN a : /\ b[d] >= 0 /\ SliceSize(n, d) >= 0
                               /\ b[d] + SliceSize(n, d) <= a[d] /\ o[d] = SliceSize(n, d)
    BY DEF analyze_slice, Ranked
  <2> HIDE DEF a, b, o, r
  <2> QED BY <1>1, <2>1, <2>2
<1> HIDE DEF r
<1>4. \A d \in 1 .. r : b[d] \in Int /\ z[d] = SliceSize(n, d) /\ z[d] \in Nat /\ z[d] = o[d]
  <2>1. ASSUME NEW d \in 1 .. r PROVE b[d] \in Int /\ n.p.size[d] \in Int
    BY <1>3
  <2>2. ASSUME NEW d \in 1 .. r PROVE SliceSize(n, d) \in Int
    <3>1. a[d] \in Nat /\ b[d] \in Int /\ n.p.size[d] \in Int
      BY <1>1, <2>1
    <3> QED BY <3>1 DEF SliceSize
  <2> HIDE DEF a, b, o
  <2> QED BY <1>1, <1>3, <2>1, <2>2
<1>5. z = [d \in 1 .. r |-> z[d]]
  BY <1>1
<1>6. z \in Seq(Nat) /\ Len(z) = r
  <2> HIDE DEF z
  <2> QED BY <1>1, <1>4, <1>5, AsSequence
<1>7. o = z
  <2>1. o \in {SliceShape(n.p, a), << >>}
    <3>1. n.outs \in {<<SliceShape(n.p, a)>>, Unresolved(<<SliceShape(n.p, a)>>)}
      BY DEF Situation, Own, Shapes
    <3> QED BY <3>1, UnknownShape
  <2>2. o # << >>
    BY <1>3
  <2>3. DOMAIN o = 1 .. r /\ o = [d \in 1 .. r |-> o[d]]
    BY <1>1, <2>1, <2>2 DEF SliceShape
  <2> HIDE DEF o, z
  <2> QED BY <1>4, <1>5, <2>3
<1>8. Count(o) > 0
  BY FirstOut
<1>9. ASSUME NEW d \in 1 .. r, z[d] > 0 PROVE Inside(b[d], z[d], 1, a[d])
  <2> DEFINE u == b[d]
             v == z[d]
             w == a[d]
  <2>1. u \in Int /\ v \in Nat /\ w \in Nat /\ u >= 0 /\ u + v <= w /\ v > 0
    BY <1>1, <1>3, <1>4, <1>9
  <2> HIDE DEF u, v, w
  <2>2. (v - 1) * 1 = v - 1
    BY <2>1
  <2>3. Inside(u, v, 1, w)
    BY <2>1, <2>2, StepsInside
  <2> QED BY <2>3 DEF u, v, w
<1>10. \A d \in 1 .. r : z[d] > 0 => Inside(b[d], z[d], IF FALSE THEN t[d] ELSE 1, a[d])
  BY <1>9
<1>11. Len(a) = r /\ Count(o) = Count(z)
  BY <1>7 DEF r
<1> DEFINE x0 == Capture(n)
<1>12. x0 = [rank |-> r, strided |-> FALSE, begin |-> b, size |-> z, stride |-> t]
  BY <1>2
<1> HIDE DEF z, t, b, x0
<1>13. eval_slice(x0, Own(n)).ok
  BY <1>1, <1>6, <1>8, <1>10, <1>11, <1>12, SliceRun
<1> QED BY <1>13 DEF x0

\* A STRIDED_SLICE's spec leaves no axis empty, and its entries step along theirs;
\* where every stride given is one, so is every stride of the expansion.
LEMMA StridedClaimed ==
    ASSUME NEW n, Situation(n, Own(n)), Sized(n), n.op = "strided", analyze_strided_slice(n)
    PROVE  eval_slice(Capture(n), Own(n)).ok
<1> DEFINE a == n.ins[1]
           r == Len(a)
           axes == ExpandSpec(n)
           st == \E s \in Consuming(n.p.spec) : n.p.spec[s].s # 1
           b == [d \in DOMAIN a |-> axes[d].begin]
           z == [d \in DOMAIN a |-> axes[d].size]
           t == [d \in DOMAIN a |-> axes[d].stride]
<1>1. a \in Seq(Nat) /\ r \in Nat /\ DOMAIN a = 1 .. r /\ \A d \in 1 .. r : a[d] \in Nat
  <2>1. a \in Seq(Nat)
    BY InsTyped
  <2> QED BY <2>1
<1>2. Capture(n) = [rank |-> r, strided |-> st, begin |-> b, size |-> z, stride |-> t]
  <2> HIDE DEF axes, st
  <2> QED BY DEF Capture, axes, st
<1>3. /\ n.p.spec \in Seq(SpecEntry) /\ EllAxes(n) >= 0
      /\ Cardinality(OfKind(n.p.spec, "ellipsis")) <= 1
      /\ \A s \in Consuming(n.p.spec) : n.p.spec[s].s # 0
  BY DEF analyze_strided_slice, Situation, WellFormed, Attributes
<1>4. DOMAIN axes = 1 .. r /\ \A d \in 1 .. r : Entry(n, axes[d], d) /\ Steps(axes[d], a[d])
  <2> HIDE DEF r
  <2> QED BY <1>1, <1>3, ExpansionIs, ExpansionSteps
<1>5. /\ \A d \in DOMAIN axes : axes[d].ok
      /\ Count(n.outs[1]) = Count([d \in DOMAIN axes |-> axes[d].size])
  BY DEF analyze_strided_slice
<1> HIDE DEF axes
<1>6. /\ \A d \in 1 .. r : /\ b[d] = axes[d].begin /\ z[d] = axes[d].size /\ z[d] \in Nat
                           /\ t[d] = axes[d].stride /\ axes[d].ok
                           /\ (z[d] > 0 => Inside(b[d], z[d], t[d], a[d]))
      /\ Count(n.outs[1]) = Count(z)
  <2>1. Count(n.outs[1]) = Count(z)
    BY <1>1, <1>4, <1>5
  <2>2. ASSUME NEW d \in 1 .. r
        PROVE  /\ b[d] = axes[d].begin /\ z[d] = axes[d].size /\ t[d] = axes[d].stride
               /\ axes[d].ok /\ axes[d].size \in Nat
               /\ (axes[d].size > 0 => Inside(axes[d].begin, axes[d].size, axes[d].stride, a[d]))
    <3>1. axes[d].ok /\ Steps(axes[d], a[d])
      BY <1>4, <1>5
    <3>2. b[d] = axes[d].begin /\ z[d] = axes[d].size /\ t[d] = axes[d].stride
      BY <1>1
    <3> HIDE DEF b, z, t, a
    <3> QED BY <3>1, <3>2 DEF Steps
  <2> HIDE DEF b, z, t, a
  <2> QED BY <2>1, <2>2
<1>7. ASSUME ~st, NEW d \in 1 .. r PROVE t[d] = 1
  <2>1. Entry(n, axes[d], d)
    BY <1>4
  <2>2. \A s \in Consuming(n.p.spec) : n.p.spec[s].s = 1
    BY <1>7
  <2>3. \A w : FullAxis(w).stride = 1 /\ \A e : SpecAxis(e, w).stride = e.s
    BY DEF FullAxis, SpecAxis
  <2>4. axes[d].stride = 1
    BY <2>1, <2>2, <2>3 DEF Entry
  <2> QED BY <1>6, <2>4
<1>8. z \in Seq(Nat) /\ Len(z) = r
  <2>1. z = [d \in 1 .. r |-> z[d]]
    BY <1>1
  <2> HIDE DEF z
  <2> QED BY <1>1, <1>6, <2>1, AsSequence
<1>9. Count(n.outs[1]) > 0
  BY FirstOut
<1>10. st \in BOOLEAN
  BY DEF st
<1> DEFINE x0 == Capture(n)
<1>11. x0 = [rank |-> r, strided |-> st, begin |-> b, size |-> z, stride |-> t]
  BY <1>2
<1>12. a \in Seq(Nat) /\ Len(a) = r /\ Count(n.outs[1]) = Count(z)
  BY <1>1, <1>6 DEF r
<1> HIDE DEF st, z, t, b, r, x0
<1>13. CASE st
  <2>1. x0 = [rank |-> r, strided |-> TRUE, begin |-> b, size |-> z, stride |-> t]
    BY <1>10, <1>11, <1>13
  <2>2. \A d \in 1 .. r : z[d] > 0 => Inside(b[d], z[d], IF TRUE THEN t[d] ELSE 1, a[d])
    BY <1>6
  <2>3. eval_slice(x0, Own(n)).ok
    BY ONLY <1>8, <1>9, <1>12, <2>1, <2>2, SliceRun
  <2> QED BY <2>3 DEF x0
<1>14. CASE ~st
  <2>1. x0 = [rank |-> r, strided |-> FALSE, begin |-> b, size |-> z, stride |-> t]
    BY <1>10, <1>11, <1>14
  <2>2. \A d \in 1 .. r : z[d] > 0 => Inside(b[d], z[d], IF FALSE THEN t[d] ELSE 1, a[d])
    BY <1>6, <1>7, <1>14
  <2>3. eval_slice(x0, Own(n)).ok
    BY ONLY <1>8, <1>9, <1>12, <2>1, <2>2, SliceRun
  <2> QED BY <2>3 DEF x0
<1> QED BY <1>13, <1>14

\* What CONCAT's and SPLIT's extents along the axis add up to before each of them and
\* behind them all
LEMMA EndToEnd ==
    ASSUME NEW m \in Nat, NEW f, \A i \in 1 .. m : f[i] \in Nat, NEW sum,
           SumFunction([i \in 1 .. m |-> f[i]]) = sum
    PROVE  \A i \in 1 .. m : /\ SumFunction([j \in 1 .. (i - 1) |-> f[j]]) \in Nat
                             /\ SumFunction([j \in 1 .. (i - 1) |-> f[j]]) + f[i] <= sum
<1> DEFINE g == [i \in 1 .. m |-> f[i]]
<1>1. \A i \in 1 .. m : g[i] = f[i] /\ g[i] \in Nat
  OBVIOUS
<1>2. sum = SumFunctionOnSet(g, 1 .. m)
  BY DEF SumFunction
<1> HIDE DEF g
<1>3. ASSUME NEW i \in 1 .. m
      PROVE  /\ SumFunction([j \in 1 .. (i - 1) |-> f[j]]) \in Nat
             /\ SumFunction([j \in 1 .. (i - 1) |-> f[j]]) + f[i] <= sum
  <2>1. \A j \in 1 .. (i - 1) : j \in 1 .. m
    OBVIOUS
  <2>2. [j \in 1 .. (i - 1) |-> f[j]] = [j \in 1 .. (i - 1) |-> g[j]]
    BY <1>1, <2>1
  <2>3. /\ SumFunction([j \in 1 .. (i - 1) |-> g[j]]) \in Nat
        /\ SumFunction([j \in 1 .. (i - 1) |-> g[j]]) + g[i] <= SumFunctionOnSet(g, 1 .. m)
    BY <1>1, Laid
  <2> QED BY <1>1, <1>2, <2>2, <2>3
<1> QED BY <1>3

\* All the inputs of a CONCATENATION fit, and add up to its extent.
LEMMA ConcatRuns ==
    ASSUME NEW n, Situation(n, Own(n)), n.op = "concat", analyze_concat(n)
    PROVE  eval_concat(n, Capture(n), Own(n)).ok
<1> DEFINE x0 == Capture(n)
           ins == n.ins
           o == n.outs[1]
           axis == Axis(n.p.axis, Len(o))
           m == Len(ins)
           fits == {i \in DOMAIN ins : \A j \in 1 .. i : same_dims_except(ins[j], o, axis)}
           off(i) == SumFunction([j \in 1 .. (i - 1) |-> ins[j][axis]])
           good == fits = DOMAIN ins /\ off(m + 1) = o[axis]
<1>1. x0.axis = axis
  BY DEF Capture
<1>2. DOMAIN ins = 1 .. m /\ m \in Nat
  BY DEF Situation, WellFormed
<1>3. /\ \A i \in DOMAIN ins : same_dims_except(ins[i], o, axis)
      /\ SumFunction([i \in DOMAIN ins |-> ins[i][axis]]) = o[axis]
  BY DEF analyze_concat
<1> HIDE DEF x0, m
<1>4. \E f : eval_concat(n, x0, Own(n)) = IF good THEN Answer(f, FALSE) ELSE Fails(f)
  <2> HIDE DEF axis
  <2> QED BY <1>1 DEF eval_concat, Own, m
<1> HIDE DEF ins, o, axis
<1>5. good
  <2>1. (m + 1) - 1 = m
    BY <1>2
  <2>2. \A i \in 1 .. m : \A j \in 1 .. i : j \in 1 .. m
    BY <1>2
  <2> QED BY <1>2, <1>3, <2>1, <2>2
<1> HIDE DEF good
<1>6. eval_concat(n, x0, Own(n)).ok
  BY <1>4, <1>5 DEF Answer
<1> QED BY <1>6 DEF x0

\* All the outputs of a SPLIT fit, and add up to the input's extent.
LEMMA SplitRuns ==
    ASSUME NEW n, Situation(n, Own(n)), n.op = "split", analyze_split(n)
    PROVE  eval_split(Capture(n), Own(n)).ok
<1> DEFINE x0 == Capture(n)
           in == n.ins[1]
           outs == n.outs
           rank == Len(in)
           axis == Axis(n.p.axis, rank)
           off(i) == SumFunction([j \in 1 .. (i - 1) |-> outs[j][axis]])
           fits == {i \in DOMAIN outs : \A j \in 1 .. i :
                       same_dims_except(outs[j], in, axis) /\ off(j) + outs[j][axis] <= in[axis]}
           good == fits = DOMAIN outs /\ off(Len(outs) + 1) = in[axis]
<1>1. x0.rank = rank /\ x0.axis = axis
  BY DEF Capture
<1>2. PICK m \in Nat : DOMAIN outs = 1 .. m /\ Len(outs) = m
  <2> DEFINE S == Shapes("split", n.p, n.ins)
             k == Len(n.p.sizes)
  <2>1. k \in Nat /\ DOMAIN n.p.sizes = 1 .. k
    BY DEF Situation, WellFormed, Attributes
  <2>2. S = [i \in 1 .. k |-> S[i]] /\ DOMAIN S = 1 .. k
    <3> HIDE DEF k
    <3> QED BY <2>1 DEF Shapes
  <2>3. outs = S \/ outs = [i \in 1 .. k |-> << >>]
    <3>1. outs \in {S, Unresolved(S)}
      BY DEF Situation, Own
    <3> HIDE DEF S, k
    <3> QED BY <2>2, <3>1 DEF Unresolved
  <2> HIDE DEF S, k, outs
  <2>4. outs = [i \in 1 .. k |-> outs[i]]
    BY <2>2, <2>3
  <2> QED BY <2>1, <2>4, AsSequence
<1>3. /\ axis \in DOMAIN in /\ \A i \in DOMAIN outs : same_dims_except(outs[i], in, axis)
      /\ SumFunction([i \in DOMAIN outs |-> outs[i][axis]]) = in[axis]
  BY DEF analyze_split
<1>4. \A i \in DOMAIN outs : outs[i] \in Seq(Nat)
  BY SplitOuts DEF Own
<1> HIDE DEF x0
<1>5. \E f : eval_split(x0, Own(n)) = IF good THEN Answer(f, FALSE) ELSE Fails(f)
  <2> HIDE DEF axis
  <2> QED BY <1>1 DEF eval_split, Own
<1>6. in \in Seq(Nat)
  BY InsTyped
<1> HIDE DEF in, outs, axis
<1>7. \A i \in 1 .. m : outs[i][axis] \in Nat
  BY <1>2, <1>3, <1>4, <1>6 DEF same_dims_except
<1>8. \A i \in 1 .. m : off(i) + outs[i][axis] <= in[axis]
  <2> DEFINE f == [i \in 1 .. m |-> outs[i][axis]]
  <2>1. \A i \in 1 .. m : f[i] = outs[i][axis] /\ f[i] \in Nat
    BY <1>7
  <2>2. SumFunction([i \in 1 .. m |-> f[i]]) = in[axis]
    BY <1>2, <1>3
  <2>3. ASSUME NEW i \in 1 .. m PROVE off(i) = SumFunction([j \in 1 .. (i - 1) |-> f[j]])
    <3>1. \A j \in 1 .. (i - 1) : j \in 1 .. m
      OBVIOUS
    <3> QED BY <3>1
  <2> HIDE DEF f, off
  <2>4. \A i \in 1 .. m : SumFunction([j \in 1 .. (i - 1) |-> f[j]]) + f[i] <= in[axis]
    BY <2>1, <2>2, EndToEnd
  <2> QED BY <2>1, <2>3, <2>4
<1>9. good
  <2>1. (m + 1) - 1 = m
    OBVIOUS
  <2>2. \A i \in 1 .. m : \A j \in 1 .. i : j \in 1 .. m
    OBVIOUS
  <2>3. off(Len(outs) + 1) = in[axis]
    BY <1>2, <1>3, <2>1
  <2> HIDE DEF off
  <2> QED BY <1>2, <1>3, <1>8, <2>2, <2>3
<1> HIDE DEF good
<1>10. eval_split(x0, Own(n)).ok
  BY <1>5, <1>9 DEF Answer
<1> QED BY <1>10 DEF x0

\* Every operator's evaluation accepts the shapes its gate did.
LEMMA EvalRuns ==
    ASSUME NEW n, Situation(n, Own(n)), Sized(n), NEW o0, analyze_node(n, o0), NEW pk, NEW board
    PROVE  eval(n, Capture(n), Own(n), pk, board).ok
<1> DEFINE x0 == Capture(n)
           a == eval(n, x0, Own(n), pk, board)
<1>1. n.op \in OneInput \cup TwoInputs \cup {"concat"}
  BY DEF Situation, WellFormed
<1> HIDE DEF x0
<1>2. CASE n.op = "binary"
  <2>1. a = eval_add(n, Own(n), board) /\ analyze_ew(n)
    BY <1>2 DEF eval, analyze_node
  <2> QED BY <2>1, AddRuns DEF x0
<1>3. CASE n.op = "pool"
  <2>1. a = eval_pool(n, Own(n), board) /\ analyze_pool(n)
    BY <1>3 DEF eval, analyze_node
  <2> QED BY <2>1, PoolRuns DEF x0
<1>4. CASE n.op = "concat"
  <2>1. a = eval_concat(n, x0, Own(n)) /\ analyze_concat(n)
    BY <1>4 DEF eval, analyze_node
  <2> QED BY <1>4, <2>1, ConcatRuns DEF x0
<1>5. CASE n.op \in {"reshape", "act"}
  <2>1. \/ n.op = "reshape" /\ a = eval_reshape(Own(n)) /\ analyze_reshape(n)
        \/ n.op = "act" /\ a = eval_act(n, Own(n), board) /\ analyze_act(n)
    BY <1>5 DEF eval, analyze_node
  <2> QED BY <2>1, CopyRuns DEF x0
<1>6. CASE n.op = "transpose"
  <2>1. a = eval_transpose(n, x0, Own(n)) /\ analyze_transpose(n)
    BY <1>6 DEF eval, analyze_node
  <2> QED BY <1>6, <2>1, TransposeRuns DEF x0
<1>7. CASE n.op \in {"slice", "strided"}
  <2>1. a = eval_slice(x0, Own(n))
    BY <1>7 DEF eval
  <2>2. \/ n.op = "slice" /\ analyze_slice(n)
        \/ n.op = "strided" /\ analyze_strided_slice(n)
    BY <1>7 DEF analyze_node
  <2> QED BY <2>1, <2>2, SliceClaimed, StridedClaimed DEF x0
<1>8. CASE n.op = "pad"
  <2>1. a = eval_pad(n, x0, Own(n)) /\ analyze_pad(n)
    BY <1>8 DEF eval, analyze_node
  <2> QED BY <1>8, <2>1, PadRuns DEF x0
<1>9. CASE n.op = "split"
  <2>1. a = eval_split(x0, Own(n)) /\ analyze_split(n)
    BY <1>9 DEF eval, analyze_node
  <2> QED BY <1>9, <2>1, SplitRuns DEF x0
<1>10. CASE n.op \in {"rowwise", "l2norm", "cumsum"}
  <2>1. a = eval_rows(n, x0, Own(n), board) /\ analyze_rows(n)
    BY <1>10 DEF eval, analyze_node
  <2> QED BY <1>10, <2>1, RowsRun DEF x0
<1>11. CASE n.op = "tconv"
  <2>1. a = eval_tconv(n, x0, Own(n)) /\ analyze_tconv(n)
    BY <1>11 DEF eval, analyze_node
  <2> QED BY <1>11, <2>1, TconvRuns DEF x0
<1>12. CASE n.op = "resize"
  <2>1. a = eval_resize(n, x0, Own(n), board) /\ analyze_resize(n)
    BY <1>12 DEF eval, analyze_node
  <2> QED BY <1>12, <2>1, ResizeRuns DEF x0
<1>13. CASE n.op = "reduce"
  <2>1. a = eval_reduce(n, x0, Own(n), board) /\ analyze_reduce(n)
    BY <1>13 DEF eval, analyze_node
  <2> QED BY <1>13, <2>1, ReduceRuns DEF x0
<1>14. CASE n.op = "prelu"
  <2>1. a = eval_prelu(n, x0, Own(n), board) /\ analyze_prelu(n)
    BY <1>14 DEF eval, analyze_node
  <2> QED BY <1>14, <2>1, PreluRuns DEF x0
<1>15. CASE n.op = "fc"
  <2>1. a = eval_fc(x0, Own(n), pk, board)
    BY <1>15 DEF eval
  <2> QED BY <2>1, FcRuns DEF x0
<1> QED
  BY <1>1, <1>2, <1>3, <1>4, <1>5, <1>6, <1>7, <1>8, <1>9, <1>10, <1>11, <1>12, <1>13, <1>14, <1>15
     DEF OneInput, TwoInputs

-----------------------------------------------------------------------------
(* The offset as the meaning of the operators writes it.                   *)

\* Horner's rule: Flat is the inner product with the strides.
LEMMA FlatIs ==
    ASSUME NEW dims \in Seq(Nat), NEW c \in [DOMAIN dims -> Int]
    PROVE  Flat(c, dims) = Dot(c, rocket_row_strides(dims))
<1> DEFINE n == Len(dims)
           N == 1 .. n
           seq == [i \in DOMAIN dims |-> i]
           Solves(it) == it = [s \in SUBSET (DOMAIN seq) |->
                                 IF s = {} THEN 0
                                 ELSE it[s \ {Max(s)}] * dims[seq[Max(s)]] + c[seq[Max(s)]]]
           S(s) == FlatSum(c, dims, s)
           it0 == [s \in SUBSET N |-> S(s)]
<1>1. n \in Nat /\ DOMAIN dims = N /\ DOMAIN seq = N /\ \A d \in N : dims[d] \in Nat /\ seq[d] = d
  BY ShapeDomain
<1>2. Flat(c, dims) = (CHOOSE it : Solves(it))[DOMAIN seq]
  BY DEF Flat, FoldLeftDomain, FoldLeft, MapThenFoldSet
<1>3. \A s \in SUBSET N : s # {} => Max(s) \in s /\ \A d \in s : Max(s) >= d
  <2> TAKE s \in SUBSET N
  <2> HAVE s # {}
  <2>1. s \subseteq 0 .. n
    BY <1>1
  <2>2. \E d \in s : \A e \in s : d >= e
    BY <1>1, <2>1, GreatestNatural
  <2> QED BY <2>2 DEF Max
<1>4. \A s \in SUBSET N : s # {} => S(s) = S(s \ {Max(s)}) * dims[Max(s)] + c[Max(s)]
  <2> TAKE s \in SUBSET N
  <2> HAVE s # {}
  <2> DEFINE m == Max(s)
  <2>1. LastOf(m, s)
    BY <1>3 DEF LastOf
  <2>2. \A d \in 1 .. n : dims[d] \in Int /\ c[d] \in Int
    BY <1>1
  <2> HIDE DEF m, n, N, seq
  <2>4. IsFiniteSet(s) /\ \A d \in s : d \in Int /\ dims[d] \in Int /\ c[d] \in Int
    <3>1. IsFiniteSet(1 .. n) /\ s \subseteq 1 .. n
      BY <1>1, FS_Interval DEF N
    <3>2. IsFiniteSet(s)
      BY <3>1, FS_Subset
    <3>3. ASSUME NEW d \in s PROVE d \in Int /\ dims[d] \in Int /\ c[d] \in Int
      <4>1. d \in 1 .. n
        BY <3>1
      <4> QED BY <2>2, <4>1
    <3> QED BY <3>2, <3>3
  <2>5. FlatSum(c, dims, s) = Horner(FlatSum(c, dims, s \ {m}), dims[m], c[m])
    BY ONLY <2>1, <2>4, FlatTake
  <2>3. S(s) = S(s \ {m}) * dims[m] + c[m]
    BY <2>5 DEF S, Horner
  <2> QED BY <2>3 DEF m
<1>5. S({}) = 0
  BY SumEmpty DEF FlatSum
<1> HIDE DEF S
<1>6. Solves(it0)
  <2>1. ASSUME NEW s \in SUBSET N
        PROVE  it0[s] = IF s = {} THEN 0 ELSE it0[s \ {Max(s)}] * dims[seq[Max(s)]] + c[seq[Max(s)]]
    <3>1. CASE s = {}
      BY <1>5, <3>1
    <3>2. CASE s # {}
      <4>1. Max(s) \in N /\ seq[Max(s)] = Max(s) /\ s \ {Max(s)} \in SUBSET N
        BY <1>1, <1>3, <3>2
      <4>2. it0[s] = S(s) /\ it0[s \ {Max(s)}] = S(s \ {Max(s)})
        BY <4>1
      <4> HIDE DEF it0, seq
      <4> QED BY <1>4, <3>2, <4>1, <4>2
    <3> QED BY <3>1, <3>2
  <2> HIDE DEF seq
  <2>2. it0 = [s \in SUBSET N |-> it0[s]]
    OBVIOUS
  <2> HIDE DEF it0
  <2> QED BY <1>1, <2>1, <2>2
<1> DEFINE it == CHOOSE it : Solves(it)
<1>7. Solves(it)
  BY <1>6
<1> HIDE DEF it, it0, seq
<1>8. \A s \in SUBSET N : it[s] = IF s = {} THEN 0 ELSE it[s \ {Max(s)}] * dims[seq[Max(s)]] + c[seq[Max(s)]]
  BY <1>1, <1>7
<1> DEFINE P == {k \in 0 .. n : it[1 .. k] = S(1 .. k)}
<1>9. 0 \in P
  <2>1. 1 .. 0 = {} /\ {} \in SUBSET N
    OBVIOUS
  <2>2. it[{}] = 0
    BY <1>8, <2>1
  <2> QED BY <1>1, <1>5, <2>1, <2>2
<1>10. ASSUME NEW k \in 1 .. n, k - 1 \in P PROVE k \in P
  <2>1. k \in Nat /\ k \in 0 .. n /\ 1 .. k \in SUBSET N /\ k \in 1 .. k /\ k \in N
    BY <1>1
  <2>2. Max(1 .. k) = k
    <3> DEFINE m == Max(1 .. k)
    <3>1. 1 .. k # {}
      BY <2>1
    <3>2. m \in 1 .. k /\ \A e \in 1 .. k : m >= e
      BY <1>3, <2>1, <3>1
    <3> HIDE DEF m
    <3>3. m = k
      BY <2>1, <3>2
    <3> QED BY <3>3 DEF m
  <2>3. (1 .. k) \ {k} = 1 .. (k - 1)
    BY <1>1
  <2>6. 1 .. k # {} /\ seq[k] = k
    BY <1>1, <2>1
  <2>4. S(1 .. k) = S(1 .. (k - 1)) * dims[k] + c[k]
    BY <1>4, <2>1, <2>2, <2>3, <2>6
  <2>5. it[1 .. k] = it[1 .. (k - 1)] * dims[k] + c[k]
    <3>1. it[1 .. k] = it[(1 .. k) \ {Max(1 .. k)}] * dims[seq[Max(1 .. k)]] + c[seq[Max(1 .. k)]]
      BY <1>8, <2>1, <2>6
    <3> QED BY <2>2, <2>3, <2>6, <3>1
  <2> QED BY <1>10, <2>1, <2>4, <2>5
<1> HIDE DEF P
<1>14. \A k \in 0 .. n : k \in P
  <2> HIDE DEF n
  <2> QED BY <1>1, <1>9, <1>10, UpTo
<1>11. n \in P
  BY <1>1, <1>14
<1>12. Flat(c, dims) = S(N)
  BY <1>1, <1>2, <1>11 DEF P, it
<1>13. S(N) = Dot(c, rocket_row_strides(dims))
  <2> DEFINE f == FlatTerm(c, dims, N)
             g == [d \in DOMAIN c |-> c[d] * rocket_row_strides(dims)[d]]
  <2>1. \A d \in N : f[d] = g[d]
    <3> TAKE d \in N
    <3>1. {e \in N : e > d} = (d + 1) .. n
      BY <1>1
    <3>2. rocket_row_strides(dims)[d] = ProductOn(dims, (d + 1) .. n)
      BY RowStrides
    <3>3. DOMAIN c = N
      BY <1>1
    <3> QED BY <3>1, <3>2, <3>3 DEF FlatTerm
  <2>2. DOMAIN g = N
    BY <1>1
  <2>3. IsFiniteSet(N)
    BY <1>1, FS_Interval
  <2> HIDE DEF f, g, N
  <2>4. SumFunctionOnSet(f, N) = SumFunctionOnSet(g, N)
    BY <2>1, <2>3, SumSame
  <2> QED BY <2>2, <2>4 DEF S, f, g, Dot, SumFunction, FlatSum
<1> QED BY <1>12, <1>13

\* The coordinates of a shape
LEMMA CoordsAre == ASSUME NEW dims \in Seq(Nat) PROVE Coords(dims) = Coordinates(dims)
<1> DEFINE I == DOMAIN dims
           s == SumFunctionOnSet(dims, I)
           V == Range(dims) \cup {1}
           M == Max(V)
<1>1. IsFiniteSet(I) /\ (\A d \in I : dims[d] \in Nat) /\ \A d \in I : dims[d] \in Int
  BY ShapeDomain
<1>2. s \in Nat
  BY <1>1, SumNat
<1>3. \A d \in I : dims[d] <= s
  <2> TAKE d \in I
  <2>1. s = dims[d] + SumFunctionOnSet(dims, I \ {d})
    BY <1>1, SumTake
  <2>2. IsFiniteSet(I \ {d}) /\ \A e \in I \ {d} : dims[e] \in Nat
    BY <1>1, FS_RemoveElement
  <2>3. SumFunctionOnSet(dims, I \ {d}) \in Nat
    BY <2>2, SumNat
  <2> QED BY <1>1, <2>1, <2>3
<1> HIDE DEF s
<1>4. V \subseteq 0 .. (s + 1) /\ V # {} /\ \A d \in I : dims[d] \in V
  BY <1>1, <1>2, <1>3 DEF Range
<1> HIDE DEF V
<1> DEFINE b == s + 1
<1>11. b \in Nat /\ V \subseteq 0 .. b
  BY <1>2, <1>4
<1> HIDE DEF b
<1>5. \E v \in V : \A w \in V : v >= w
  BY <1>4, <1>11, GreatestNatural
<1>6. M \in V /\ \A w \in V : M >= w
  BY <1>5 DEF Max
<1>7. M \in Nat /\ \A d \in I : dims[d] <= M
  <2> HIDE DEF M
  <2>1. M \in Nat
    BY <1>6, <1>11
  <2>2. \A d \in I : M >= dims[d] /\ dims[d] \in Nat
    BY <1>1, <1>4, <1>6
  <2> QED BY <2>1, <2>2
<1>8. Coords(dims) = {c \in [I -> 0 .. (M - 1)] : \A d \in I : c[d] < dims[d]}
  BY DEF Coords, V
<1> HIDE DEF M
<1>9. ASSUME NEW c \in Coordinates(dims) PROVE c \in Coords(dims)
  <2>1. \A d \in I : c[d] \in Nat /\ c[d] < dims[d] /\ dims[d] <= M /\ dims[d] \in Nat
    BY <1>1, <1>7 DEF Coordinates
  <2>2. c \in [I -> 0 .. (M - 1)]
    BY <1>7, <2>1 DEF Coordinates
  <2> QED BY <1>8, <2>1, <2>2
<1>10. ASSUME NEW c \in Coords(dims) PROVE c \in Coordinates(dims)
  <2>1. c \in [I -> Nat] /\ \A d \in I : c[d] < dims[d]
    BY <1>7, <1>8
  <2> QED BY <2>1 DEF Coordinates
<1> QED BY <1>9, <1>10

\* Where a tensor has its coordinates, and the coordinate it has at an offset
Offsets(dims) == [c \in Coords(dims) |-> Flat(c, dims)]
CoordAt(dims, k) == CHOOSE c \in DOMAIN Offsets(dims) : Offsets(dims)[c] = k

\* A tensor has an element for each of its offsets, at the coordinate where the odometer is.
LEMMA TensorAt ==
    ASSUME NEW dims \in Seq(Nat)
    PROVE  /\ Range(Offsets(dims)) = Cells(dims)
           /\ \A k \in Cells(dims) :
                 /\ CoordAt(dims, k) \in Coordinates(dims) /\ CoordAt(dims, k) = Odometer(dims)[k]
                 /\ Dot(CoordAt(dims, k), rocket_row_strides(dims)) = k
                 /\ Flat(CoordAt(dims, k), dims) = k
<1> DEFINE at == Offsets(dims)
           row == rocket_row_strides(dims)
<1>1. DOMAIN at = Coordinates(dims)
  BY CoordsAre DEF Offsets
<1>2. \A c \in Coordinates(dims) : at[c] = Dot(c, row) /\ at[c] = Flat(c, dims) /\ at[c] \in Cells(dims)
  <2> TAKE c \in Coordinates(dims)
  <2>1. c \in [DOMAIN dims -> Int]
    BY DEF Coordinates
  <2>2. at[c] = Flat(c, dims)
    BY <1>1 DEF Offsets
  <2> QED BY <2>1, <2>2, FlatIs, DotWithin
<1>3. \A k \in Cells(dims) : Odometer(dims)[k] \in Coordinates(dims) /\ Dot(Odometer(dims)[k], row) = k
  BY OdometerAt
<1> HIDE DEF at, row
<1>4. \A k \in Cells(dims) : at[Odometer(dims)[k]] = k
  BY <1>2, <1>3
<1>5. Range(at) = Cells(dims)
  BY <1>1, <1>2, <1>3, <1>4 DEF Range
<1>6. ASSUME NEW k \in Cells(dims)
      PROVE  /\ CoordAt(dims, k) \in Coordinates(dims) /\ CoordAt(dims, k) = Odometer(dims)[k]
             /\ Dot(CoordAt(dims, k), row) = k
             /\ Flat(CoordAt(dims, k), dims) = k
  <2> DEFINE c == CHOOSE c \in DOMAIN at : at[c] = k
  <2>1. c \in Coordinates(dims) /\ at[c] = k
    BY <1>1, <1>3, <1>4
  <2>4. CoordAt(dims, k) = c
    BY DEF CoordAt, at
  <2> HIDE DEF c
  <2>2. k = Dot(c, row) /\ k = Flat(c, dims)
    BY <1>2, <2>1
  <2>3. c = Odometer(dims)[k]
    BY <2>1, <2>2, OdometerOf DEF row
  <2> QED BY <2>1, <2>2, <2>3, <2>4
<1> QED BY <1>5, <1>6 DEF at, row

-----------------------------------------------------------------------------
(* What the kernels compute.                                               *)

\* Copying an element is its value.
LEMMA ValueIs ==
    ASSUME NEW n, NEW dims \in Seq(Nat), NEW c \in Coordinates(dims)
    PROVE  Value(n, c, dims) = Copy(n, Dot(c, rocket_row_strides(dims)))
<1>1. c \in [DOMAIN dims -> Int]
  BY DEF Coordinates
<1> QED BY <1>1, FlatIs DEF Value, Copy, Elem

\* What TRANSPOSE makes of an input
Transposed(in, perm) ==
    Tensor([d \in DOMAIN in |-> in[perm[d]]],
           LAMBDA c : Value(1, [e \in DOMAIN in |-> c[CHOOSE d \in DOMAIN in : perm[d] = e]], in))

\* The transpose's walk, element by element, is the permuted tensor.
LEMMA TransposeMeans ==
    ASSUME NEW in \in Seq(Nat), NEW perm \in Seq(Nat), Len(perm) = Len(in),
           Range(perm) = 1 .. Len(in)
    PROVE  rocket_transpose_bytes(in, perm) = Transposed(in, perm)
<1> DEFINE out == [d \in DOMAIN in |-> in[perm[d]]]
           row == rocket_row_strides(in)
           s == [d \in DOMAIN perm |-> row[perm[d]]]
           moved(c) == [e \in DOMAIN in |-> c[CHOOSE d \in DOMAIN in : perm[d] = e]]
           odo == Odometer(out)
           R == 1 .. Len(in)
<1>1. DOMAIN in = DOMAIN perm
  BY ShapeDomain
<1>2. out = [d \in DOMAIN perm |-> in[perm[d]]]
  BY <1>1
<1>3. out \in Seq(Nat)
  <2>1. \A d \in 1 .. Len(in) : perm[d] \in 1 .. Len(in) /\ in[perm[d]] \in Nat
    BY ShapeDomain DEF Range
  <2>2. out \in [1 .. Len(in) -> Nat] /\ Len(in) \in Nat
    BY <2>1, ShapeDomain
  <2> QED BY <2>2
<1>5. SUFFICES rocket_transpose_bytes(in, perm)
                 = [k \in Range(Offsets(out)) |-> Value(1, moved(CoordAt(out, k)), in)]
  BY DEF Transposed, Tensor, Offsets, CoordAt
<1>4. rocket_transpose_bytes(in, perm) = [k \in Cells(out) |-> Copy(1, Dot(odo[k], s))]
  BY <1>2 DEF rocket_transpose_bytes, Gather
<1> HIDE DEF out
<1>6. ASSUME NEW k \in Cells(out) PROVE Copy(1, Dot(odo[k], s)) = Value(1, moved(CoordAt(out, k)), in)
  <2> DEFINE idx == odo[k]
             c == moved(idx)
  <2>1. idx \in Coordinates(out) /\ CoordAt(out, k) = idx
    BY <1>3, TensorAt
  <2> HIDE DEF idx
  <2>8. /\ DOMAIN in = R
        /\ \A d \in R : perm[d] \in R
        /\ \A e \in R : \E d \in R : perm[d] = e
        /\ \A d, e \in R : perm[d] = perm[e] => d = e
    BY ShapeDomain, PermIs
  <2>9. DOMAIN idx = R /\ \A d \in R : idx[d] \in Nat /\ idx[d] < in[perm[d]]
    BY <1>1, <1>2, <2>1, <2>8 DEF Coordinates
  <2> HIDE DEF R
  <2>7. \A d \in R : c[perm[d]] = idx[d]
    <3> TAKE d \in R
    <3>2. (CHOOSE e \in R : perm[e] = perm[d]) = d
      BY <2>8
    <3> QED BY <2>8, <3>2
  <2>2. c \in [DOMAIN in -> Nat]
    <3>1. \A e \in R : c[e] \in Nat
      BY <2>7, <2>8, <2>9
    <3>2. c = [e \in R |-> c[e]]
      BY <2>8
    <3> HIDE DEF c
    <3> QED BY <2>8, <3>1, <3>2
  <2>6. \A d \in R : s[d] = row[perm[d]]
    BY <1>1, <2>8
  <2> HIDE DEF c, s
  <2>10. Permuted(in, perm, idx, s, c)
    BY <2>2, <2>6, <2>7, <2>8, <2>9 DEF Permuted, R
  <2>3. c \in Coordinates(in) /\ Dot(idx, s) = Dot(c, row)
    BY <2>10, TransposeDot
  <2>4. Value(1, c, in) = Copy(1, Dot(c, row))
    BY <2>3, ValueIs
  <2>5. moved(CoordAt(out, k)) = c
    BY <2>1 DEF c
  <2> HIDE DEF moved, s, row
  <2> QED BY <2>3, <2>4, <2>5 DEF idx
<1>7. Range(Offsets(out)) = Cells(out)
  BY <1>3, TensorAt
<1> HIDE DEF moved, odo, s
<1> QED BY <1>4, <1>6, <1>7

\* The coordinate a walk is at
Walk(in, begin, stride, c) == [d \in DOMAIN in |-> begin[d] + c[d] * stride[d]]
Walks(in, begin, stride, out) ==
    /\ in \in Seq(Nat) /\ out \in Seq(Nat) /\ Len(out) = Len(in)
    /\ \A d \in DOMAIN in : \A i \in 0 .. (out[d] - 1) : begin[d] + i * stride[d] \in 0 .. (in[d] - 1)

\* A walk over an input gathers the elements at the coordinates it passes.
LEMMA StridedAt ==
    ASSUME NEW in, NEW begin, NEW stride, NEW out, Walks(in, begin, stride, out)
    PROVE  LET f == rocket_strided_slice_bytes(in, begin, stride, out) IN
           /\ f = [k \in Cells(out) |-> f[k]]
           /\ \A k \in Cells(out) : f[k] = Value(1, Walk(in, begin, stride, CoordAt(out, k)), in)
<1> DEFINE f == rocket_strided_slice_bytes(in, begin, stride, out)
           row == rocket_row_strides(in)
           c(idx) == [d \in DOMAIN in |-> begin[d] + idx[d] * stride[d]]
<1>1. in \in Seq(Nat) /\ out \in Seq(Nat) /\ DOMAIN in = DOMAIN out
      /\ \A d \in DOMAIN in : in[d] \in Nat /\ out[d] \in Nat
  BY ShapeDomain DEF Walks
<1>2. f = [k \in Cells(out) |-> Copy(1, Dot(c(Odometer(out)[k]), row))]
  BY DEF rocket_strided_slice_bytes, Gather
<1>3. ASSUME NEW k \in Cells(out) PROVE f[k] = Value(1, Walk(in, begin, stride, CoordAt(out, k)), in)
  <2> DEFINE idx == Odometer(out)[k]
  <2>1. f[k] = Copy(1, Dot(c(idx), row))
    BY <1>2
  <2>2. idx \in Coordinates(out) /\ CoordAt(out, k) = idx
    BY <1>1, TensorAt
  <2> HIDE DEF idx
  <2>3. ASSUME NEW d \in DOMAIN in PROVE c(idx)[d] \in Nat /\ c(idx)[d] < in[d]
    <3>1. idx[d] \in 0 .. (out[d] - 1) /\ in[d] \in Nat
      BY <1>1, <2>2, <2>3 DEF Coordinates
    <3>2. begin[d] + idx[d] * stride[d] \in 0 .. (in[d] - 1)
      BY <3>1 DEF Walks
    <3> QED BY <2>3, <3>1, <3>2
  <2>4. c(idx) \in Coordinates(in)
    BY <2>3 DEF Coordinates
  <2>5. Walk(in, begin, stride, idx) = c(idx)
    BY DEF Walk
  <2> HIDE DEF c
  <2>6. Value(1, c(idx), in) = Copy(1, Dot(c(idx), row))
    BY <1>1, <2>4, ValueIs
  <2> HIDE DEF f
  <2> QED BY <2>1, <2>2, <2>5, <2>6
<1> HIDE DEF c
<1>4. f = [k \in Cells(out) |-> f[k]]
  BY <1>2
<1> QED BY <1>3, <1>4

Slices(in, begin, out) ==
    /\ in \in Seq(Nat) /\ out \in Seq(Nat) /\ Len(out) = Len(in)
    /\ \A d \in DOMAIN in : begin[d] \in Nat /\ begin[d] + out[d] <= in[d]

\* What SLICE and PAD make of an input, element by element
Sliced(in, begin, out) == Tensor(out, LAMBDA c : Value(1, [d \in DOMAIN in |-> c[d] + begin[d]], in))
Bordered(in, before, out) ==
    Tensor(out, LAMBDA c : LET y == [d \in DOMAIN in |-> c[d] - before[d]] IN
                           IF y \in Coords(in) THEN Value(1, y, in) ELSE Term({}, 1))

\* A contiguous slice is the input from its first index on.
LEMMA SliceMeans ==
    ASSUME NEW in, NEW begin, NEW out, Slices(in, begin, out)
    PROVE  rocket_slice_bytes(in, begin, out) = Sliced(in, begin, out)
<1> DEFINE one == Ones(Len(in))
           f == rocket_slice_bytes(in, begin, out)
           W(c) == Value(1, [d \in DOMAIN in |-> c[d] + begin[d]], in)
<1>1. SUFFICES f = [k \in Range(Offsets(out)) |-> W(CoordAt(out, k))]
  BY DEF Sliced, Tensor, Offsets, CoordAt
<1>2. in \in Seq(Nat) /\ out \in Seq(Nat) /\ DOMAIN in = DOMAIN out
      /\ \A d \in DOMAIN in : in[d] \in Nat /\ out[d] \in Nat /\ begin[d] \in Nat
                              /\ begin[d] + out[d] <= in[d] /\ one[d] = 1
  BY ShapeDomain DEF Slices, Ones
<1> HIDE DEF one
<1>3. Walks(in, begin, one, out)
  <2>1. ASSUME NEW d \in DOMAIN in, NEW i \in 0 .. (out[d] - 1)
        PROVE  begin[d] + i * one[d] \in 0 .. (in[d] - 1)
    <3>1. PICK b \in Nat, e \in Nat, m \in Nat : b = begin[d] /\ e = out[d] /\ m = in[d]
      BY <1>2
    <3>2. b + e <= m /\ i \in 0 .. (e - 1) /\ i * one[d] = i
      BY <1>2, <3>1
    <3>3. b + i \in 0 .. (m - 1)
      BY <3>2
    <3> QED BY <3>1, <3>2, <3>3
  <2> QED BY <2>1 DEF Walks, Slices
<1>4. /\ f = [k \in Cells(out) |-> f[k]]
      /\ \A k \in Cells(out) : f[k] = Value(1, Walk(in, begin, one, CoordAt(out, k)), in)
  BY <1>3, StridedAt DEF rocket_slice_bytes, one
<1>5. Range(Offsets(out)) = Cells(out) /\ \A k \in Cells(out) : CoordAt(out, k) \in Coordinates(out)
  BY <1>2, TensorAt
<1>6. \A c \in Coordinates(out) : Value(1, Walk(in, begin, one, c), in) = W(c)
  <2> TAKE c \in Coordinates(out)
  <2>1. \A d \in DOMAIN in : begin[d] + c[d] * one[d] = c[d] + begin[d]
    <3> TAKE d \in DOMAIN in
    <3>1. c[d] \in Nat /\ begin[d] \in Nat /\ one[d] = 1
      BY <1>2 DEF Coordinates
    <3> QED BY <3>1
  <2>2. Walk(in, begin, one, c) = [d \in DOMAIN in |-> c[d] + begin[d]]
    BY <2>1 DEF Walk
  <2> QED BY <2>2
<1> HIDE DEF f, W
<1> QED BY <1>4, <1>5, <1>6

Pads(in, before, out) ==
    /\ in \in Seq(Nat) /\ out \in Seq(Nat) /\ Len(out) = Len(in)
    /\ \A d \in DOMAIN in : before[d] \in Nat /\ before[d] + in[d] <= out[d]

\* PAD: the border is nothing, and behind it is the input.
LEMMA PadMeans ==
    ASSUME NEW in, NEW before, NEW out, Pads(in, before, out)
    PROVE  rocket_pad_bytes(in, before, out) = Bordered(in, before, out)
<1> DEFINE f == rocket_pad_bytes(in, before, out)
           row == rocket_row_strides(out)
           at == Odometer(in)
           in0 == rocket_row_strides(in)
           y(c) == [d \in DOMAIN in |-> c[d] - before[d]]
           c0(q) == [d \in DOMAIN in |-> at[q][d] + before[d]]
           W(c) == IF y(c) \in Coords(in) THEN Value(1, y(c), in) ELSE Term({}, 1)
           src(k) == CHOOSE q \in Cells(in) : Dot(c0(q), row) = k
           inside == [k \in {Dot(c0(q), row) : q \in Cells(in)} |-> Copy(1, src(k))]
<1>1. SUFFICES f = [k \in Range(Offsets(out)) |-> W(CoordAt(out, k))]
  BY DEF Bordered, Tensor, Offsets, CoordAt
<1>2. f = [k \in Cells(out) \cup DOMAIN inside |->
             IF k \in DOMAIN inside THEN inside[k] ELSE Term({}, 1)]
  BY DEF rocket_pad_bytes, Scatter
<1>3. in \in Seq(Nat) /\ out \in Seq(Nat) /\ DOMAIN in = DOMAIN out
      /\ \A d \in DOMAIN in : in[d] \in Nat /\ out[d] \in Nat /\ before[d] \in Nat
                              /\ before[d] + in[d] <= out[d]
  BY ShapeDomain DEF Pads
<1>4. \A q \in Cells(in) : at[q] \in Coordinates(in) /\ Dot(at[q], in0) = q
  BY <1>3, OdometerAt
<1>5. \A c \in Coordinates(in) : Dot(c, in0) \in Cells(in) /\ at[Dot(c, in0)] = c
  BY <1>3, DotWithin, OdometerOf
<1> HIDE DEF at
<1>6. \A q \in Cells(in) : c0(q) \in Coordinates(out) /\ y(c0(q)) = at[q]
  <2> TAKE q \in Cells(in)
  <2>1. at[q] \in [DOMAIN in -> Nat] /\ \A d \in DOMAIN in : at[q][d] < in[d]
    BY <1>4 DEF Coordinates
  <2>2. ASSUME NEW d \in DOMAIN in
        PROVE  c0(q)[d] \in Nat /\ c0(q)[d] < out[d] /\ y(c0(q))[d] = at[q][d]
    <3>1. c0(q)[d] = at[q][d] + before[d] /\ y(c0(q))[d] = (at[q][d] + before[d]) - before[d]
      OBVIOUS
    <3>2. PICK a \in Nat, b \in Nat, m \in Nat, o \in Nat :
             a = at[q][d] /\ b = before[d] /\ m = in[d] /\ o = out[d]
      BY <1>3, <2>1
    <3>3. a < m /\ b + m <= o
      BY <1>3, <2>1, <3>2
    <3>4. a + b \in Nat /\ a + b < o /\ (a + b) - b = a
      BY <3>3
    <3> HIDE DEF c0, y
    <3> QED BY <3>1, <3>2, <3>4
  <2>3. c0(q) \in Coordinates(out)
    BY <1>3, <2>2 DEF Coordinates
  <2>4. y(c0(q)) = at[q]
    <3>1. DOMAIN y(c0(q)) = DOMAIN in /\ y(c0(q)) = [d \in DOMAIN in |-> y(c0(q))[d]]
      OBVIOUS
    <3> HIDE DEF y, c0
    <3> QED BY <2>1, <2>2, <3>1
  <2> QED BY <2>3, <2>4
<1>7. \A c \in Coordinates(out) : y(c) \in Coordinates(in) => c0(Dot(y(c), in0)) = c
  <2> TAKE c \in Coordinates(out)
  <2> HAVE y(c) \in Coordinates(in)
  <2>1. at[Dot(y(c), in0)] = y(c)
    BY <1>5
  <2>2. \A d \in DOMAIN in : y(c)[d] + before[d] = c[d]
    BY <1>3 DEF Coordinates
  <2>3. c = [d \in DOMAIN in |-> c[d]]
    BY <1>3 DEF Coordinates
  <2> HIDE DEF y
  <2> QED BY <2>1, <2>2, <2>3
<1> HIDE DEF y, c0
<1>8. ASSUME NEW k \in Cells(out)
      PROVE  (IF k \in DOMAIN inside THEN inside[k] ELSE Term({}, 1)) = W(CoordAt(out, k))
  <2> DEFINE c == CoordAt(out, k)
  <2>1. c \in Coordinates(out) /\ Dot(c, row) = k
    BY <1>3, TensorAt
  <2> HIDE DEF c
  <2>2. \A q \in Cells(in) : Dot(c0(q), row) = k => c0(q) = c
    BY <1>3, <1>6, <2>1, DotInjective
  <2>3. Coords(in) = Coordinates(in)
    BY <1>3, CoordsAre
  <2>4. CASE y(c) \in Coordinates(in)
    <3>1. Dot(y(c), in0) \in Cells(in) /\ Dot(c0(Dot(y(c), in0)), row) = k
      BY <1>5, <1>7, <2>1, <2>4
    <3>2. src(k) \in Cells(in) /\ Dot(c0(src(k)), row) = k
      BY <3>1
    <3>3. k \in DOMAIN inside /\ inside[k] = Copy(1, src(k))
      BY <3>1
    <3> HIDE DEF src, inside
    <3>4. at[src(k)] = y(c) /\ Dot(y(c), in0) = src(k)
      BY <1>4, <1>6, <2>2, <3>2
    <3>5. Value(1, y(c), in) = Copy(1, src(k))
      BY <1>3, <2>4, <3>4, ValueIs
    <3> QED BY <2>3, <2>4, <3>3, <3>5 DEF c
  <2>5. CASE y(c) \notin Coordinates(in)
    <3>1. k \notin DOMAIN inside
      <4>1. SUFFICES ASSUME NEW q \in Cells(in), Dot(c0(q), row) = k PROVE FALSE
        OBVIOUS
      <4> QED BY <1>4, <1>6, <2>2, <2>5, <4>1
    <3> HIDE DEF inside
    <3> QED BY <2>3, <2>5, <3>1 DEF c
  <2> QED BY <2>4, <2>5
<1>9. Cells(out) \cup DOMAIN inside = Cells(out)
  <2>1. \A q \in Cells(in) : Dot(c0(q), row) \in Cells(out)
    BY <1>3, <1>6, DotWithin
  <2> QED BY <2>1
<1>10. Range(Offsets(out)) = Cells(out)
  BY <1>3, TensorAt
<1> HIDE DEF f, inside, W
<1> QED BY <1>2, <1>8, <1>9, <1>10

-----------------------------------------------------------------------------
(* Evaluations that succeed mean the operator: at the shapes of the moment, where those  *)
(* Eval does not look at are as they were.                                                *)

\* The answer is the operator's on these inputs.
Means(n, a, ins) == Valid(n.op, n.p, ins) /\ a.outs = Outputs(n.op, n.p, ins)

\* What the graph gave the node, it is defined on; along the last axis, there is one;
\* a POOL's windows are some.
AlongLast == {"prelu", "rowwise", "l2norm", "cumsum"}
Sound(n, buf) ==
    /\ Situation(n, buf) /\ Valid(n.op, n.p, n.ins)
    /\ n.op \in AlongLast => Len(buf.ins[1]) >= 1
    /\ n.op = "pool" => buf.outs[1][2] > 0 /\ buf.outs[1][3] > 0

\* An evaluation that is a success passed the check before it.
LEMMA Passed ==
    ASSUME NEW a, NEW bad \in BOOLEAN, NEW f, NEW npu, a = (IF bad THEN Fails(<< >>) ELSE Answer(f, npu)), a.ok
    PROVE  ~bad /\ a.outs = f
BY DEF Fails, Answer

\* RESHAPE and the activations copy, element by element.
LEMMA CopyMeans ==
    ASSUME NEW n, NEW buf, Sound(n, buf), NEW board
    PROVE  /\ n.op = "reshape" /\ analyze_reshape(n) /\ eval_reshape(buf).ok
                => Means(n, eval_reshape(buf), buf.ins)
           /\ n.op = "act" /\ eval_act(n, buf, board).ok => Means(n, eval_act(n, buf, board), buf.ins)
<1> DEFINE in == buf.ins[1]
           o == buf.outs[1]
           bad == Count(in) # Count(o) \/ Count(o) <= 0
<1>1. Situation(n, buf)
  BY DEF Sound
<1>2. ASSUME ~bad PROVE rocket_reshape_copy(Count(o)) = [k \in Cells(in) |-> Copy(1, k)]
                        /\ rocket_unary(Count(o)) = [k \in Cells(in) |-> Copy(1, k)]
  BY <1>2 DEF rocket_reshape_copy, rocket_unary, Cells
<1>3. /\ eval_reshape(buf) = IF bad THEN Fails(<< >>) ELSE Answer(<<rocket_reshape_copy(Count(o))>>, FALSE)
      /\ eval_act(n, buf, board) = IF bad THEN Fails(<< >>)
                                   ELSE Answer(<<rocket_unary(Count(o))>>, board /\ n.p.lut)
  BY DEF eval_reshape, eval_act
<1>4. Outputs("reshape", n.p, buf.ins) = <<[k \in Cells(in) |-> Copy(1, k)]>>
      /\ Outputs("act", n.p, buf.ins) = <<[k \in Cells(in) |-> Copy(1, k)]>>
  BY DEF Outputs
<1>5. ASSUME n.op = "reshape", analyze_reshape(n), ~bad PROVE Valid("reshape", n.p, buf.ins)
  <2>1. Count(n.ins[1]) = Count(n.p.shape)
    BY <1>5 DEF Sound, Valid
  <2>2. Count(n.ins[1]) = Count(n.outs[1])
    BY <1>5 DEF analyze_reshape
  <2>3. PICK ins \in LiveIns(n) : \/ buf.outs = Shapes("reshape", n.p, ins)
                                  \/ buf.outs = n.outs /\ buf.outs = Unresolved(Shapes("reshape", n.p, ins))
    BY <1>1, <1>5, OutsAre
  <2>4. Shapes("reshape", n.p, ins) = <<n.p.shape>>
    BY DEF Shapes
  <2>5. Count(o) = Count(n.p.shape)
    <3>1. CASE buf.outs = Shapes("reshape", n.p, ins)
      BY <2>4, <3>1
    <3>2. CASE buf.outs = n.outs
      BY <2>1, <2>2, <3>2
    <3> QED BY <2>3, <3>1, <3>2
  <2> QED BY <1>5, <2>5 DEF Valid
<1>6. Valid("act", n.p, buf.ins)
  BY DEF Valid
<1> HIDE DEF bad
<1> QED BY <1>2, <1>3, <1>4, <1>5, <1>6 DEF Means, Answer, Fails

\* TRANSPOSE
LEMMA TransposeAnswers ==
    ASSUME NEW n, NEW buf, Sound(n, buf), n.op = "transpose", analyze_transpose(n),
           eval_transpose(n, Capture(n), buf).ok
    PROVE  Means(n, eval_transpose(n, Capture(n), buf), buf.ins)
<1> DEFINE x0 == Capture(n)
           in == buf.ins[1]
           o == buf.outs[1]
           perm == n.p.perm
           rank == Len(n.ins[1])
           bad == \/ Len(in) # rank \/ Len(o) # rank
                  \/ \E d \in 1 .. rank : o[d] # in[perm[d]]
           f == rocket_transpose_bytes(in, perm)
           a == eval_transpose(n, x0, buf)
           T == Transposed(in, perm)
<1>1. x0.rank = rank
  BY DEF Capture
<1>2. a = IF bad THEN Fails(<< >>) ELSE Answer(<<f>>, FALSE)
  <2> HIDE DEF rank, x0
  <2> QED BY <1>1 DEF eval_transpose
<1>3. /\ in \in Seq(Nat) /\ perm \in Seq(Nat) /\ Len(perm) = rank /\ Range(perm) = 1 .. rank
  <2>1. perm \in Seq(Nat)
    BY DEF Sound, Situation, WellFormed, Attributes
  <2> QED BY <2>1, InsTyped DEF analyze_transpose, Ranked, Sound
<1>4. ~bad /\ a.outs = <<f>>
  <2>1. bad \in BOOLEAN /\ a.ok
    OBVIOUS
  <2> HIDE DEF bad, f, a
  <2> QED BY <1>2, <2>1, Passed
<1>5. f = T
  <2>1. Len(in) = rank
    BY <1>4
  <2> HIDE DEF rank
  <2> QED BY <1>3, <2>1, TransposeMeans
<1>6. Outputs("transpose", n.p, buf.ins) = <<T>>
  BY DEF Outputs, Shapes, Transposed
<1>7. Valid("transpose", n.p, buf.ins)
  BY DEF Valid
<1> HIDE DEF f, T, a
<1> QED BY <1>4, <1>5, <1>6, <1>7 DEF Means, a

\* PAD, where the far border is what the border's width and the input make it
LEMMA PadAnswers ==
    ASSUME NEW n, NEW buf, Sound(n, buf), n.op = "pad", analyze_pad(n),
           buf.outs = Shapes("pad", n.p, buf.ins), eval_pad(n, Capture(n), buf).ok
    PROVE  Means(n, eval_pad(n, Capture(n), buf), buf.ins)
<1> DEFINE x0 == Capture(n)
           in == buf.ins[1]
           o == buf.outs[1]
           before == n.p.before
           after == n.p.after
           rank == Len(n.ins[1])
           bad == \/ Len(in) # rank \/ Len(o) # rank
                  \/ \E d \in 1 .. rank : before[d] + in[d] > o[d]
           f == rocket_pad_bytes(in, before, o)
           a == eval_pad(n, x0, buf)
           T == Bordered(in, before, o)
<1>1. x0.rank = rank
  BY DEF Capture
<1>2. a = IF bad THEN Fails(<< >>) ELSE Answer(<<f>>, FALSE)
  <2> HIDE DEF rank, x0
  <2> QED BY <1>1 DEF eval_pad
<1>3. ~bad /\ a.outs = <<f>>
  <2>1. bad \in BOOLEAN /\ a.ok
    OBVIOUS
  <2> HIDE DEF bad, f, a
  <2> QED BY <1>2, <2>1, Passed
<1>4. in \in Seq(Nat) /\ n.ins[1] \in Seq(Nat) /\ before \in Seq(Int) /\ after \in Seq(Int)
  BY InsTyped DEF Sound, Situation, WellFormed, Attributes
<1>5. /\ Len(before) = rank /\ Len(after) = rank
      /\ \A d \in DOMAIN n.ins[1] : before[d] >= 0 /\ after[d] >= 0
  BY DEF analyze_pad
<1>6. o = [d \in DOMAIN in |-> before[d] + in[d] + after[d]]
  BY DEF Shapes
<1>7. rank \in Nat /\ Len(in) = rank /\ DOMAIN in = 1 .. rank /\ DOMAIN n.ins[1] = 1 .. rank
  BY <1>3, <1>4
<1> HIDE DEF rank, bad
<1>8. \A d \in 1 .. rank : in[d] \in Nat /\ before[d] \in Nat /\ after[d] \in Nat
  <2> HIDE DEF in, before, after
  <2>1. ASSUME NEW d \in 1 .. rank PROVE before[d] \in Int /\ after[d] \in Int /\ in[d] \in Nat
    BY <1>4, <1>5, <1>7
  <2>2. \A d \in 1 .. rank : before[d] >= 0 /\ after[d] >= 0
    BY <1>5, <1>7
  <2> QED BY <2>1, <2>2
<1>9. Pads(in, before, o)
  <2>1. ASSUME NEW d \in 1 .. rank PROVE o[d] \in Nat /\ before[d] + in[d] <= o[d]
    <3>1. o[d] = before[d] + in[d] + after[d]
      BY <1>6, <1>7
    <3> HIDE DEF o, in, before, after
    <3> QED BY <1>8, <3>1
  <2>2. o = [d \in 1 .. rank |-> o[d]]
    BY <1>6, <1>7
  <2>3. o \in Seq(Nat) /\ Len(o) = rank
    <3> HIDE DEF o
    <3> QED BY <1>7, <2>1, <2>2, AsSequence
  <2> HIDE DEF o, in, before
  <2> QED BY <1>4, <1>7, <1>8, <2>1, <2>3 DEF Pads, in
<1>10. f = T
  <2> HIDE DEF o, in, before
  <2> QED BY <1>9, PadMeans
<1>11. Outputs("pad", n.p, buf.ins) = <<T>>
  BY DEF Outputs, Shapes, Bordered
<1>12. Valid("pad", n.p, buf.ins)
  BY DEF Valid
<1> HIDE DEF f, T, a
<1> QED BY <1>3, <1>10, <1>11, <1>12 DEF Means, a

\* SLICE, where an extent of -1 is what Init made of it
LEMMA SliceAnswers ==
    ASSUME NEW n, NEW buf, Sound(n, buf), n.op = "slice", analyze_slice(n),
           Len(buf.ins[1]) = Len(n.ins[1]) => SliceShape(n.p, buf.ins[1]) = SliceShape(n.p, n.ins[1]),
           eval_slice(Capture(n), buf).ok
    PROVE  Means(n, eval_slice(Capture(n), buf), buf.ins)
<1> DEFINE x0 == Capture(n)
           in == buf.ins[1]
           o == buf.outs[1]
           r == Len(n.ins[1])
           b == n.p.begin
           z == SliceShape(n.p, n.ins[1])
           bad == \/ Len(in) # r
                  \/ \E d \in DOMAIN in : ~Inside(b[d], z[d], 1, in[d])
                  \/ Count(o) # Count(z)
           f == rocket_slice_bytes(in, b, z)
           a == eval_slice(x0, buf)
           T == Sliced(in, b, z)
<1>1. x0.rank = r /\ x0.strided = FALSE /\ x0.begin = b /\ x0.size = z
  BY DEF Capture, SliceShape, SliceSize
<1>2. a = IF bad THEN Fails(<< >>) ELSE Answer(<<f>>, FALSE)
  <2> HIDE DEF r, x0, z, b
  <2> QED BY <1>1 DEF eval_slice
<1>3. ~bad /\ a.outs = <<f>>
  <2>1. bad \in BOOLEAN /\ a.ok
    OBVIOUS
  <2> HIDE DEF bad, f, a
  <2> QED BY <1>2, <2>1, Passed
<1>4. in \in Seq(Nat) /\ n.ins[1] \in Seq(Nat) /\ b \in Seq(Int) /\ n.p.size \in Seq(Int)
  BY InsTyped DEF Sound, Situation, WellFormed, Attributes
<1>5. /\ Len(b) = r /\ Len(n.p.size) = r
      /\ \A d \in DOMAIN n.ins[1] : b[d] >= 0 /\ SliceSize(n, d) >= 0
  BY DEF analyze_slice
<1>6. r \in Nat /\ Len(in) = r /\ DOMAIN in = 1 .. r /\ DOMAIN n.ins[1] = 1 .. r
  BY <1>3, <1>4
<1>7. z = [d \in 1 .. r |-> z[d]] /\ \A d \in 1 .. r : z[d] = SliceSize(n, d)
  BY <1>6 DEF SliceShape, SliceSize
<1>8. \A d \in DOMAIN in : Inside(b[d], z[d], 1, in[d])
  BY <1>3
<1> HIDE DEF r, bad, z
<1>9. ASSUME NEW d \in 1 .. r PROVE in[d] \in Nat /\ b[d] \in Nat /\ z[d] \in Nat /\ b[d] + z[d] <= in[d]
  <2>1. in[d] \in Nat /\ b[d] \in Nat /\ n.p.size[d] \in Int /\ n.ins[1][d] \in Nat
    <3> HIDE DEF in, b
    <3> DEFINE z0 == n.p.size
               in0 == n.ins[1]
    <3>0. /\ b \in Seq(Int) /\ z0 \in Seq(Int) /\ in \in Seq(Nat) /\ in0 \in Seq(Nat)
          /\ d \in DOMAIN b /\ d \in DOMAIN z0 /\ d \in DOMAIN in /\ d \in DOMAIN in0
      BY <1>4, <1>5, <1>6
    <3>1. b[d] \in Int /\ z0[d] \in Int /\ in[d] \in Nat /\ in0[d] \in Nat
      <4> HIDE DEF z0, in0
      <4> QED BY ONLY <3>0
    <3>2. b[d] >= 0
      BY <1>5, <1>6
    <3> QED BY <3>1, <3>2
  <2>2. z[d] \in Nat
    BY <1>5, <1>6, <1>7, <2>1 DEF SliceSize
  <2>3. Inside(b[d], z[d], 1, in[d])
    BY <1>6, <1>8
  <2> DEFINE u == b[d]
             v == z[d]
             w == in[d]
             last == u + (v - 1) * 1
  <2>4. u \in Nat /\ v \in Nat /\ w \in Nat /\ Max({u, last}) < w
    BY <2>1, <2>2, <2>3 DEF Inside
  <2> HIDE DEF u, v, w
  <2>5. last = u + v - 1 /\ last \in Int
    BY <2>4
  <2> HIDE DEF last
  <2>6. Max({u, last}) \in Int /\ u <= Max({u, last}) /\ last <= Max({u, last})
    <3>1. u \in Int
      BY <2>4
    <3> QED BY <2>5, <3>1, Pair
  <2>7. u + v <= w
    BY <2>4, <2>5, <2>6
  <2> QED BY <2>1, <2>2, <2>7 DEF u, v, w
<1>10. z \in Seq(Nat) /\ Len(z) = r
  BY <1>6, <1>7, <1>9, AsSequence
<1>11. Slices(in, b, z)
  <2> HIDE DEF in, b
  <2> QED BY <1>4, <1>6, <1>9, <1>10 DEF Slices, in
<1>12. f = T
  <2> HIDE DEF in, b
  <2> QED BY <1>11, SliceMeans
<1>13. SliceShape(n.p, in) = z
  BY <1>6 DEF z, r
<1>14. Outputs("slice", n.p, buf.ins) = <<T>>
  <2>1. Shapes("slice", n.p, buf.ins) = <<z>>
    BY <1>13 DEF Shapes
  <2> QED BY <2>1 DEF Outputs, Sliced
<1>15. Valid("slice", n.p, buf.ins)
  <2>1. \A d \in DOMAIN in : b[d] + Larger(z[d], 0) <= in[d] /\ z[d] >= 0
    <3> HIDE DEF in, b
    <3> QED BY <1>6, <1>9 DEF Larger
  <2> QED BY <1>13, <2>1 DEF Valid
<1> HIDE DEF f, T, a
<1> QED BY <1>3, <1>12, <1>14, <1>15 DEF Means, a

\* A sequence is the function of its elements.
LEMMA ElementByElement == ASSUME NEW s \in Seq(Nat) PROVE s = [d \in DOMAIN s |-> s[d]]
OBVIOUS

\* A slice that starts behind others along one axis
Shifted(in, axis, by, out) == Tensor(out, LAMBDA c : Value(1, [c EXCEPT ![axis] = @ + by], in))
Follows(in, axis, by, out, begin) ==
    /\ Slices(in, begin, out) /\ axis \in DOMAIN in
    /\ begin[axis] = by /\ \A d \in DOMAIN in : d # axis => begin[d] = 0

\* SPLIT's slices are the input, further along the axis.
LEMMA ShiftedIs ==
    ASSUME NEW in, NEW axis, NEW by, NEW out, NEW begin, Follows(in, axis, by, out, begin)
    PROVE  Sliced(in, begin, out) = Shifted(in, axis, by, out)
<1> DEFINE W(c) == Value(1, [d \in DOMAIN in |-> c[d] + begin[d]], in)
           V(c) == Value(1, [c EXCEPT ![axis] = @ + by], in)
<1>1. SUFFICES [k \in Range(Offsets(out)) |-> W(CoordAt(out, k))] = [k \in Range(Offsets(out)) |-> V(CoordAt(out, k))]
  BY DEF Sliced, Shifted, Tensor, Offsets, CoordAt
<1>2. in \in Seq(Nat) /\ out \in Seq(Nat) /\ DOMAIN in = DOMAIN out /\ axis \in DOMAIN in
      /\ begin[axis] = by /\ \A d \in DOMAIN in : d # axis => begin[d] = 0
  BY ShapeDomain DEF Follows, Slices
<1>3. Range(Offsets(out)) = Cells(out) /\ \A k \in Cells(out) : CoordAt(out, k) \in Coordinates(out)
  BY <1>2, TensorAt
<1>4. ASSUME NEW c \in Coordinates(out) PROVE W(c) = V(c)
  <2>1. c \in [DOMAIN in -> Nat]
    BY <1>2 DEF Coordinates
  <2>2. ASSUME NEW d \in DOMAIN in PROVE c[d] + begin[d] = [c EXCEPT ![axis] = @ + by][d]
    BY <1>2, <2>1
  <2>3. [d \in DOMAIN in |-> c[d] + begin[d]] = [c EXCEPT ![axis] = @ + by]
    BY <2>1, <2>2
  <2> QED BY <2>3
<1> HIDE DEF W, V
<1> QED BY <1>3, <1>4

\* SPLIT
LEMMA SplitAnswers ==
    ASSUME NEW n, NEW buf, Sound(n, buf), n.op = "split", analyze_split(n),
           eval_split(Capture(n), buf).ok
    PROVE  Means(n, eval_split(Capture(n), buf), buf.ins)
<1> DEFINE x0 == Capture(n)
           in == buf.ins[1]
           outs == buf.outs
           sizes == n.p.sizes
           rank == Len(n.ins[1])
           axis == Axis(n.p.axis, rank)
           off(i) == SumFunction([j \in 1 .. (i - 1) |-> outs[j][axis]])
           fits == {i \in DOMAIN outs : \A j \in 1 .. i :
                       same_dims_except(outs[j], in, axis) /\ off(j) + outs[j][axis] <= in[axis]}
           begin(i) == [Zeros(rank) EXCEPT ![axis] = off(i)]
           done == [i \in fits |-> rocket_slice_bytes(in, begin(i), outs[i])]
           a == eval_split(x0, buf)
<1>0. Situation(n, buf)
  BY DEF Sound
<1>1. x0.rank = rank /\ x0.axis = axis
  BY DEF Capture
<1>2. a = IF Len(in) # rank THEN Fails(<< >>)
          ELSE IF fits = DOMAIN outs /\ off(Len(outs) + 1) = in[axis]
          THEN Answer(done, FALSE) ELSE Fails(done)
  <2> HIDE DEF rank, axis, x0
  <2> QED BY <1>1 DEF eval_split
<1>3. a.ok
  OBVIOUS
<1>4. /\ in \in Seq(Nat) /\ rank \in Nat /\ axis \in 1 .. rank /\ sizes \in Seq(Nat)
      /\ \A i \in DOMAIN outs : outs[i] \in Seq(Nat)
  <2>1. n.ins[1] \in Seq(Nat) /\ in \in Seq(Nat)
    BY <1>0, InsTyped
  <2>2. axis \in DOMAIN n.ins[1]
    BY DEF analyze_split
  <2>3. sizes \in Seq(Nat)
    BY <1>0 DEF Situation, WellFormed, Attributes
  <2> HIDE DEF axis, sizes
  <2> QED BY <1>0, <2>1, <2>2, <2>3, SplitOuts
<1> HIDE DEF a, x0
<1>5. Len(in) = rank /\ fits = DOMAIN outs /\ off(Len(outs) + 1) = in[axis] /\ a.outs = done
  <2> HIDE DEF in, rank, axis, fits, done, off
  <2> QED BY <1>2, <1>3 DEF Fails, Answer
<1>6. \A i \in DOMAIN outs : same_dims_except(outs[i], in, axis) /\ off(i) + outs[i][axis] <= in[axis]
  <2>1. PICK m \in Nat : DOMAIN outs = 1 .. m
    BY <1>0, SplitOuts
  <2>2. \A i \in 1 .. m : i \in 1 .. i
    OBVIOUS
  <2> HIDE DEF in, rank, axis, off, outs
  <2> QED BY <1>5, <2>1, <2>2
<1> DEFINE S == [i \in DOMAIN sizes |-> [in EXCEPT ![axis] = sizes[i]]]
<1>7. Shapes("split", n.p, buf.ins) = S
  <2>1. Axis(n.p.axis, Len(in)) = axis
    BY <1>5
  <2> HIDE DEF axis
  <2> QED BY <2>1 DEF Shapes
<1> DEFINE m == Len(sizes)
<1>8. DOMAIN sizes = 1 .. m /\ m \in Nat /\ \A i \in 1 .. m : sizes[i] \in Nat
  <2> HIDE DEF sizes
  <2> QED BY <1>4
<1>9. outs = S /\ Len(outs) = m
  <2>1. PICK ins \in LiveIns(n) : \/ outs = Shapes("split", n.p, ins)
                                  \/ outs = Unresolved(Shapes("split", n.p, ins))
    BY <1>0, OutsAre
  <2> DEFINE b == ins[1]
             e == Axis(n.p.axis, Len(b))
             Z == [i \in DOMAIN sizes |-> [b EXCEPT ![e] = sizes[i]]]
  <2>2. Shapes("split", n.p, ins) = Z
    BY DEF Shapes
  <2>3. b \in Seq(Nat)
    BY <1>0 DEF LiveIns, Situation, WellFormed
  <2>4. outs = [i \in 1 .. m |-> outs[i]]
    <3>1. outs = Z \/ outs = Unresolved(Z)
      BY <2>1, <2>2
    <3>2. Z = [i \in 1 .. m |-> Z[i]] /\ Unresolved(Z) = [i \in 1 .. m |-> Unresolved(Z)[i]]
      BY <1>8 DEF Unresolved
    <3> HIDE DEF outs, Z
    <3> QED BY <3>1, <3>2
  <2>5. ASSUME NEW i \in 1 .. m PROVE outs[i] = S[i]
    <3>1. /\ same_dims_except(outs[i], in, axis) /\ outs[i] \in Seq(Nat)
          /\ off(i) + outs[i][axis] <= in[axis]
      BY <1>4, <1>6, <2>4
    <3>2. Len(outs[i]) = rank /\ rank > 0
      <4> HIDE DEF rank, axis, in, outs
      <4> QED BY <1>4, <1>5, <3>1 DEF same_dims_except
    <3>3. outs[i] = [b EXCEPT ![e] = sizes[i]]
      <4>1. CASE outs = Z
        BY <1>8, <4>1
      <4>2. CASE outs = Unresolved(Z)
        <5>1. outs[i] = << >>
          BY <1>8, <4>2 DEF Unresolved
        <5> QED BY <3>2, <5>1
      <4> QED BY <2>1, <2>2, <4>1, <4>2
    <3> DEFINE y == [b EXCEPT ![e] = sizes[i]]
    <3>4. Len(b) \in Nat /\ DOMAIN b = 1 .. Len(b) /\ DOMAIN y = DOMAIN b
      BY <2>3
    <3>5. Len(y) = Len(b)
      BY <1>8, <2>3, <3>4, ShapeChanged
    <3>6. Len(b) = rank
      BY <3>2, <3>3, <3>5
    <3>7. e = axis
      BY <3>6
    <3>8. DOMAIN in = 1 .. rank /\ DOMAIN outs[i] = 1 .. rank
      <4> HIDE DEF rank, axis, in, outs
      <4> QED BY <1>4, <1>5, <3>1, <3>2
    <3>9. outs[i][axis] = sizes[i]
      BY <1>4, <3>3, <3>4, <3>6, <3>7
    <3>10. \A d \in 1 .. rank : outs[i][d] = S[i][d]
      <4>1. S[i] = [in EXCEPT ![axis] = sizes[i]]
        BY <1>8
      <4>2. \A d \in 1 .. rank : d # axis => outs[i][d] = in[d]
        BY <3>1, <3>8 DEF same_dims_except
      <4> HIDE DEF S, in, outs, axis, rank
      <4> QED BY <3>8, <3>9, <4>1, <4>2
    <3>11. S[i] = [d \in 1 .. rank |-> S[i][d]] /\ outs[i] = [d \in 1 .. rank |-> outs[i][d]]
      <4>1. S[i] = [in EXCEPT ![axis] = sizes[i]]
        BY <1>8
      <4> HIDE DEF S, in, outs, axis, rank
      <4>2. DOMAIN S[i] = 1 .. rank /\ S[i] = [d \in DOMAIN S[i] |-> S[i][d]]
        BY <3>8, <4>1
      <4>3. outs[i] = [d \in 1 .. rank |-> outs[i][d]]
        BY <3>1, <3>8, ElementByElement
      <4> QED BY <4>2, <4>3
    <3> HIDE DEF S, outs
    <3> QED BY <3>10, <3>11
  <2>6. S = [i \in 1 .. m |-> S[i]]
    BY <1>8
  <2> HIDE DEF S, outs, m
  <2> QED BY <1>8, <2>4, <2>5, <2>6, AsSequence
<1>10. \A i \in 1 .. m : outs[i][axis] = sizes[i]
  <2> TAKE i \in 1 .. m
  <2>1. axis \in DOMAIN in /\ i \in DOMAIN sizes
    <3> HIDE DEF in, axis, sizes, rank
    <3> QED BY <1>4, <1>5, <1>8
  <2>2. outs[i] = [in EXCEPT ![axis] = sizes[i]]
    BY <1>9, <2>1
  <2> HIDE DEF in, axis, sizes, rank, outs, S, m
  <2> QED BY ONLY <2>1, <2>2
<1>11. Valid("split", n.p, buf.ins)
  <2>1. off(m + 1) = in[axis]
    BY <1>5, <1>9
  <2>2. (m + 1) - 1 = m
    BY <1>8
  <2>3. off(m + 1) = SumFunction([j \in 1 .. m |-> sizes[j]])
    BY <1>10, <2>2
  <2>4. sizes = [j \in 1 .. m |-> sizes[j]]
    <3> HIDE DEF sizes
    <3> QED BY <1>4, <1>8
  <2> HIDE DEF off, m, sizes
  <2>5. SumFunction(sizes) = in[axis]
    BY <2>1, <2>3, <2>4
  <2>6. axis = Axis(n.p.axis, Len(in))
    BY <1>5
  <2> HIDE DEF axis
  <2> QED BY <2>5, <2>6 DEF Valid, sizes
<1>12. ASSUME NEW i \in DOMAIN outs PROVE done[i] = Shifted(in, axis, Starts(outs, axis)[i], outs[i])
  <2>1. done[i] = rocket_slice_bytes(in, begin(i), outs[i])
    <3> HIDE DEF begin, fits
    <3> QED BY <1>5
  <2>2. Starts(outs, axis)[i] = off(i)
    BY DEF Starts
  <2> DEFINE k == off(i)
             bg == begin(i)
             o == outs[i]
  <2>3. i \in 1 .. m
    BY <1>8, <1>9
  <2>4. k \in Nat
    <3> DEFINE g == [j \in 1 .. (i - 1) |-> outs[j][axis]]
    <3>1. IsFiniteSet(1 .. (i - 1))
      BY <1>8, <2>3, FS_Interval
    <3>2. DOMAIN g = 1 .. (i - 1) /\ \A j \in 1 .. (i - 1) : g[j] \in Nat
      <4>1. \A j \in 1 .. (i - 1) : j \in 1 .. m
        BY <1>8, <2>3
      <4> QED BY <1>8, <1>10, <4>1
    <3>3. k = SumFunctionOnSet(g, DOMAIN g)
      BY DEF SumFunction
    <3> HIDE DEF g, k
    <3> QED BY <3>1, <3>2, <3>3, SumNat
  <2>5. same_dims_except(o, in, axis) /\ k + o[axis] <= in[axis] /\ o \in Seq(Nat)
    BY <1>4, <1>6
  <2>6. bg[axis] = k /\ \A d \in 1 .. rank : d # axis => bg[d] = 0
    <3> DEFINE z == Zeros(rank)
    <3>1. DOMAIN z = 1 .. rank /\ \A d \in 1 .. rank : z[d] = 0
      BY DEF Zeros
    <3>2. bg = [z EXCEPT ![axis] = k]
      OBVIOUS
    <3> HIDE DEF k, axis, rank, z, bg
    <3> QED BY <1>4, <3>1, <3>2
  <2> HIDE DEF k, bg, o, in, rank, axis
  <2>7. Len(o) = Len(in) /\ DOMAIN o = 1 .. rank /\ DOMAIN in = 1 .. rank
        /\ \A d \in 1 .. rank : o[d] \in Nat /\ in[d] \in Nat /\ (d # axis => o[d] = in[d])
    <3>1. Len(in) = rank /\ Len(o) = rank
      BY <1>5, <2>5 DEF same_dims_except
    <3>2. DOMAIN in = 1 .. rank /\ DOMAIN o = 1 .. rank
      BY <1>4, <2>5, <3>1
    <3>3. \A d \in 1 .. rank : d # axis => o[d] = in[d]
      BY <2>5, <3>2 DEF same_dims_except
    <3>4. \A d \in 1 .. rank : o[d] \in Nat /\ in[d] \in Nat
      BY <1>4, <2>5, <3>2
    <3> QED BY <3>1, <3>2, <3>3, <3>4
  <2>8. \A d \in DOMAIN in : bg[d] \in Nat /\ bg[d] + o[d] <= in[d]
    <3>1. ASSUME NEW d \in DOMAIN in PROVE bg[d] \in Nat /\ bg[d] + o[d] <= in[d]
      <4>1. CASE d = axis
        BY <2>4, <2>5, <2>6, <4>1
      <4>2. CASE d # axis
        BY <2>6, <2>7, <4>2
      <4> QED BY <4>1, <4>2
    <3> QED BY <3>1
  <2>9. Slices(in, bg, o)
    BY <1>4, <2>5, <2>7, <2>8 DEF Slices
  <2>10. Follows(in, axis, k, o, bg)
    BY <1>4, <2>6, <2>7, <2>9 DEF Follows
  <2>11. rocket_slice_bytes(in, bg, o) = Shifted(in, axis, k, o)
    BY <2>9, <2>10, SliceMeans, ShiftedIs
  <2> HIDE DEF done
  <2> QED BY <2>1, <2>2, <2>11 DEF k, bg, o
<1>13. Outputs("split", n.p, buf.ins) = [i \in DOMAIN outs |-> Shifted(in, axis, Starts(outs, axis)[i], outs[i])]
  <2>1. axis = Axis(n.p.axis, Len(in))
    BY <1>5
  <2>2. Shapes("split", n.p, buf.ins) = outs
    BY <1>7, <1>9
  <2>3. Outputs("split", n.p, buf.ins)
           = LET e == Axis(n.p.axis, Len(buf.ins[1]))
                 sh == Shapes("split", n.p, buf.ins)
             IN  [i \in DOMAIN sh |-> Shifted(buf.ins[1], e, Starts(sh, e)[i], sh[i])]
    BY DEF Outputs, Shifted
  <2> HIDE DEF axis, outs, S
  <2> QED BY <2>1, <2>2, <2>3
<1>14. done = [i \in DOMAIN outs |-> done[i]]
  BY <1>5
<1> HIDE DEF done, outs, axis
<1> QED BY <1>5, <1>11, <1>12, <1>13, <1>14 DEF Means, a, x0

\* What a broadcasting operator combines, element by element
Combined(a, b, out) ==
    Tensor(out, LAMBDA c : Term({<<Elem(1, Source(c, a), a), Elem(2, Source(c, b), b)>>}, 1))

\* A materialised operand is read where its broadcast is: behind the copy, or in place where
\* the shapes are the same and nothing is copied.
LEMMA MaterializedAt ==
    ASSUME NEW in \in Seq(Nat), NEW out \in Seq(Nat), broadcast_to(in, out), NEW k \in Cells(out)
    PROVE  Materialized(in, out)[k] = Flat(Source(CoordAt(out, k), in), in)
<1> DEFINE copy == rocket_broadcast_copy(in, out)
           c == Source(CoordAt(out, k), in)
           m == Dot(c, rocket_row_strides(in))
<1>1. Materialized(in, out)[k] = IF in = out THEN k ELSE (CHOOSE t \in copy[k].taps : TRUE)[1][2]
  BY DEF Materialized
<1>2. /\ CoordAt(out, k) \in Coordinates(out) /\ CoordAt(out, k) = Odometer(out)[k]
      /\ Dot(CoordAt(out, k), rocket_row_strides(out)) = k
  BY TensorAt
<1>3. c \in Coordinates(in) /\ copy[k] = Copy(1, m)
  BY <1>2, BroadcastAt
<1>4. Flat(c, in) = m
  <2> HIDE DEF c
  <2>1. c \in [DOMAIN in -> Int]
    BY <1>3 DEF Coordinates
  <2> QED BY <2>1, FlatIs
<1>5. ASSUME in = out PROVE c = CoordAt(out, k)
  <2> DEFINE e == CoordAt(out, k)
  <2>1. e \in [DOMAIN in -> Nat] /\ \A d \in DOMAIN in : e[d] < in[d] /\ in[d] \in Nat
    BY <1>2, <1>5, ShapeDomain DEF Coordinates
  <2> HIDE DEF e
  <2>2. Len(in) \in Nat /\ DOMAIN in = 1 .. Len(in)
    OBVIOUS
  <2>3. Len(e) = Len(in)
    BY <2>1, <2>2
  <2>4. Source(e, in) = [d \in DOMAIN in |-> IF in[d] = 1 THEN 0 ELSE e[d + Len(e) - Len(in)]]
    BY DEF Source
  <2>5. ASSUME NEW d \in DOMAIN in PROVE (IF in[d] = 1 THEN 0 ELSE e[d + Len(e) - Len(in)]) = e[d]
    <3>1. d + Len(e) - Len(in) = d /\ e[d] \in Nat /\ e[d] < in[d]
      BY <2>1, <2>2, <2>3
    <3> QED BY <3>1
  <2>6. e = [d \in DOMAIN in |-> e[d]]
    BY <2>1
  <2>7. Source(e, in) = e
    BY <2>4, <2>5, <2>6
  <2> QED BY <2>7 DEF e
<1> HIDE DEF copy, c, m
<1>6. copy[k].taps = {<< <<1, m>> >>}
  BY <1>3 DEF Copy, Term
<1>7. (CHOOSE t \in copy[k].taps : TRUE) = << <<1, m>> >>
  BY <1>6
<1>8. << <<1, m>> >>[1][2] = m
  OBVIOUS
<1>9. Materialized(in, out)[k] = IF in = out THEN k ELSE m
  BY ONLY <1>1, <1>7, <1>8
<1>10. in = out => k = m
  BY <1>2, <1>5 DEF m
<1>11. Materialized(in, out)[k] = m
  BY <1>9, <1>10
<1> QED BY <1>4, <1>11 DEF c

\* The element-wise operators combine what TFLite's broadcast does.
LEMMA BinaryMeans ==
    ASSUME NEW a \in Seq(Nat), NEW b \in Seq(Nat), NEW out \in Seq(Nat),
           broadcast_to(a, out), broadcast_to(b, out)
    PROVE  rocket_binary(Count(out), Materialized(a, out), Materialized(b, out)) = Combined(a, b, out)
<1> DEFINE ma == Materialized(a, out)
           mb == Materialized(b, out)
           f == rocket_binary(Count(out), ma, mb)
           W(c) == Term({<< <<1, Flat(Source(c, a), a)>>, <<2, Flat(Source(c, b), b)>> >>}, 1)
<1>1. SUFFICES f = [k \in Range(Offsets(out)) |-> W(CoordAt(out, k))]
  BY DEF Combined, Elem, Tensor, Offsets, CoordAt
<1>2. \A k \in Cells(out) : /\ ma[k] = Flat(Source(CoordAt(out, k), a), a)
                            /\ mb[k] = Flat(Source(CoordAt(out, k), b), b)
  BY MaterializedAt
<1> HIDE DEF ma, mb
<1>3. f = [k \in Cells(out) |-> Term({<< <<1, ma[k]>>, <<2, mb[k]>> >>}, 1)]
  BY DEF rocket_binary, Cells
<1>4. Range(Offsets(out)) = Cells(out)
  BY TensorAt
<1> HIDE DEF f
<1>5. \A k \in Cells(out) : Term({<< <<1, ma[k]>>, <<2, mb[k]>> >>}, 1) = W(CoordAt(out, k))
  BY <1>2
<1> HIDE DEF W
<1> QED BY <1>3, <1>4, <1>5

\* Operands that broadcast to some shape broadcast to the one TFLite makes of them.
LEMMA BroadcastValid ==
    ASSUME NEW a \in Seq(Nat), NEW b \in Seq(Nat), NEW o \in Seq(Nat),
           broadcast_to(a, o), broadcast_to(b, o)
    PROVE  Broadcasts(a, BroadcastShape(a, b)) /\ Broadcasts(b, BroadcastShape(a, b))
<1> DEFINE rank == Larger(Len(a), Len(b))
           w == Len(o) - rank
           X(d) == Extent(a, rank, d)
           Y(d) == Extent(b, rank, d)
           out == [d \in 1 .. rank |-> IF X(d) = 1 THEN Y(d) ELSE X(d)]
<1>1. /\ rank \in Nat /\ Len(a) \in Nat /\ Len(b) \in Nat /\ Len(o) \in Nat
      /\ Len(a) <= rank /\ Len(b) <= rank /\ rank <= Len(o)
  <2>1. Len(a) \in Nat /\ Len(b) \in Nat /\ Len(o) \in Nat /\ Len(a) <= Len(o) /\ Len(b) <= Len(o)
    BY DEF broadcast_to
  <2> QED BY <2>1 DEF Larger
<1> HIDE DEF rank
<1>2. ASSUME NEW s \in Seq(Nat), Len(s) <= rank, broadcast_to(s, o), NEW d \in 1 .. rank
      PROVE  Extent(s, rank, d) \in {1, o[w + d]}
  <2>1. CASE d <= rank - Len(s)
    BY <2>1 DEF Extent
  <2>2. CASE ~(d <= rank - Len(s))
    <3> DEFINE e == d - (rank - Len(s))
    <3>1. e \in DOMAIN s /\ Len(o) - Len(s) + e = w + d
      BY <1>1, <1>2, <2>2
    <3>2. s[e] \in {1, o[Len(o) - Len(s) + e]}
      BY <1>2, <3>1 DEF broadcast_to
    <3>3. Extent(s, rank, d) = s[e]
      BY <2>2 DEF Extent
    <3> HIDE DEF e, w
    <3> QED BY <3>1, <3>2, <3>3
  <2> QED BY <2>1, <2>2
<1>3. \A d \in 1 .. rank : X(d) \in {1, o[w + d]} /\ Y(d) \in {1, o[w + d]}
  BY <1>1, <1>2
<1>4. BroadcastShape(a, b) = out
  BY DEF BroadcastShape, rank
<1>5. Len(out) = rank
  BY <1>1
<1> HIDE DEF w
<1>6. \A d \in 1 .. rank : X(d) \in {1, out[d]} /\ Y(d) \in {1, out[d]}
  BY <1>3
<1>7. DOMAIN out = 1 .. rank
  OBVIOUS
<1> HIDE DEF out
<1>8. Broadcasts(a, out) /\ Broadcasts(b, out)
  BY <1>1, <1>5, <1>6, <1>7 DEF Broadcasts
<1> QED BY <1>4, <1>8

\* ADD and its kind, where the output is as wide as the operands make it
LEMMA AddAnswers ==
    ASSUME NEW n, NEW buf, Sound(n, buf), n.op = "binary", NEW board,
           Valid("binary", n.p, buf.ins) => buf.outs = Shapes("binary", n.p, buf.ins),
           eval_add(n, buf, board).ok
    PROVE  Means(n, eval_add(n, buf, board), buf.ins)
<1> DEFINE a == buf.ins[1]
           b == buf.ins[2]
           o == buf.outs[1]
           f == rocket_binary(Count(o), Materialized(a, o), Materialized(b, o))
           bad == ~(broadcast_to(a, o) /\ broadcast_to(b, o))
           npu == n.p.minmax /\ board /\ n.type = "float" /\ a = o /\ b = o
           answer0 == eval_add(n, buf, board)
           T == Combined(a, b, o)
<1>1. answer0 = IF bad THEN Fails(<< >>) ELSE Answer(<<f>>, npu)
  BY DEF eval_add
<1>2. ~bad /\ answer0.outs = <<f>>
  <2>1. bad \in BOOLEAN /\ answer0.ok
    OBVIOUS
  <2> HIDE DEF bad, f, npu, answer0
  <2> QED BY <1>1, <2>1, Passed
<1>3. a \in Seq(Nat) /\ b \in Seq(Nat)
  BY InsTyped DEF Sound, TwoInputs
<1>4. o \in Seq(Nat)
  BY AddOut DEF Sound
<1>5. Valid("binary", n.p, buf.ins)
  <2>1. Broadcasts(a, BroadcastShape(a, b)) /\ Broadcasts(b, BroadcastShape(a, b))
    <3> HIDE DEF a, b, o
    <3> QED BY <1>2, <1>3, <1>4, BroadcastValid
  <2> QED BY <2>1 DEF Valid
<1>6. f = T
  <2> HIDE DEF a, b, o
  <2> QED BY <1>2, <1>3, <1>4, BinaryMeans
<1>7. Outputs("binary", n.p, buf.ins) = <<T>>
  <2>1. Shapes("binary", n.p, buf.ins) = <<o>>
    BY <1>5 DEF Shapes
  <2> QED BY <2>1 DEF Outputs, Combined
<1> HIDE DEF f, T, answer0
<1> QED BY <1>2, <1>5, <1>6, <1>7 DEF Means, answer0

\* The offset of a coordinate of an image, as the kernels write it
LEMMA ImageFlat ==
    ASSUME NEW dims \in Seq(Nat), Len(dims) = 4, NEW c \in Coordinates(dims), c[1] = 0
    PROVE  Flat(c, dims) = At(c[2], c[3], c[4], dims[3], dims[4])
<1>1. Flat(c, dims) = Rest(c, dims, 1)
  <2>1. c \in [DOMAIN dims -> Int]
    BY DEF Coordinates
  <2> QED BY <2>1, FlatIs, Tails
<1>2. /\ \A d \in 1 .. 4 : c[d] \in Nat /\ dims[d] \in Nat
      /\ \A d \in 1 .. 5 : Rest(c, dims, d) \in Nat /\ Weight(dims, d) \in Nat
      /\ \A d \in 1 .. 4 : /\ Rest(c, dims, d) = c[d] * Weight(dims, d + 1) + Rest(c, dims, d + 1)
                           /\ Weight(dims, d) = dims[d] * Weight(dims, d + 1)
      /\ Rest(c, dims, 5) = 0 /\ Weight(dims, 5) = 1
  <2>1. DOMAIN dims = 1 .. 4
    OBVIOUS
  <2>2. \A d \in 1 .. 4 : c[d] \in Nat /\ dims[d] \in Nat
    BY <2>1, CoordTyped
  <2>3. 1 .. Len(dims) + 1 = 1 .. 5 /\ 1 .. Len(dims) = 1 .. 4 /\ Len(dims) + 1 = 5
    OBVIOUS
  <2>4. /\ Rest(c, dims, Len(dims) + 1) = 0 /\ Weight(dims, Len(dims) + 1) = 1
        /\ \A d \in 1 .. Len(dims) + 1 :
                 Rest(c, dims, d) \in Nat /\ Weight(dims, d) \in Nat
        /\ \A d \in 1 .. Len(dims) :
                 /\ Rest(c, dims, d) = c[d] * Weight(dims, d + 1) + Rest(c, dims, d + 1)
                 /\ Weight(dims, d) = dims[d] * Weight(dims, d + 1)
    BY Tails
  <2> QED BY <2>2, <2>3, <2>4
<1> DEFINE R(d) == Rest(c, dims, d)
           V(d) == Weight(dims, d)
<1> HIDE DEF R, V
<1>3. /\ R(1) = c[1] * V(2) + R(2) /\ R(2) = c[2] * V(3) + R(3) /\ R(3) = c[3] * V(4) + R(4)
      /\ R(4) = c[4] * V(5) + R(5) /\ R(5) = 0 /\ V(5) = 1 /\ V(4) = dims[4] * V(5) /\ V(3) = dims[3] * V(4)
  <2>1. \A d \in 1 .. 4 : R(d) = c[d] * V(d + 1) + R(d + 1) /\ V(d) = dims[d] * V(d + 1)
    BY <1>2 DEF R, V
  <2>2. R(5) = 0 /\ V(5) = 1
    BY <1>2 DEF R, V
  <2>3. 1 \in 1 .. 4 /\ 2 \in 1 .. 4 /\ 3 \in 1 .. 4 /\ 4 \in 1 .. 4
        /\ 1 + 1 = 2 /\ 2 + 1 = 3 /\ 3 + 1 = 4 /\ 4 + 1 = 5
    OBVIOUS
  <2>4. R(1) = c[1] * V(1 + 1) + R(1 + 1) /\ R(2) = c[2] * V(2 + 1) + R(2 + 1)
    BY ONLY <2>1, <2>3
  <2>5. R(3) = c[3] * V(3 + 1) + R(3 + 1) /\ R(4) = c[4] * V(4 + 1) + R(4 + 1)
    BY ONLY <2>1, <2>3
  <2>6. V(3) = dims[3] * V(3 + 1) /\ V(4) = dims[4] * V(4 + 1)
    BY ONLY <2>1, <2>3
  <2> QED BY ONLY <2>2, <2>3, <2>4, <2>5, <2>6
<1>11. c[2] \in Nat /\ c[3] \in Nat /\ c[4] \in Nat /\ dims[3] \in Nat /\ dims[4] \in Nat
  <2>1. \A d \in 1 .. 4 : c[d] \in Nat /\ dims[d] \in Nat
    BY <1>2
  <2> QED BY ONLY <2>1
<1>4. PICK h \in Nat, w \in Nat, e \in Nat, W \in Nat, C \in Nat :
         h = c[2] /\ w = c[3] /\ e = c[4] /\ W = dims[3] /\ C = dims[4]
  BY <1>11
<1>5. V(2) \in Nat /\ V(4) = C /\ V(3) = W * C /\ R(4) = e
  <2>1. V(2) \in Nat
    <3>1. \A d \in 1 .. 5 : V(d) \in Nat
      BY <1>2 DEF V
    <3> QED BY ONLY <3>1
  <2>2. V(4) = C * 1 /\ V(3) = W * V(4) /\ R(4) = e * 1 + 0
    BY <1>3, <1>4
  <2> QED BY <1>4, <2>1, <2>2
<1>6. R(3) = w * C + e /\ R(2) = h * (W * C) + (w * C + e) /\ R(2) \in Nat
  <2>1. R(3) = w * C + e
    BY <1>3, <1>4, <1>5
  <2>2. R(2) = h * V(3) + R(3)
    BY <1>3, <1>4
  <2>3. R(2) \in Nat
    <3>1. \A d \in 1 .. 5 : R(d) \in Nat
      BY <1>2 DEF R
    <3> QED BY ONLY <3>1
  <2> QED BY <1>5, <2>1, <2>2, <2>3
<1>7. R(1) = 0 * V(2) + R(2)
  BY <1>3
<1>8. R(1) = R(2)
  BY <1>5, <1>6, <1>7
<1>9. (h * W + w) * C + e = h * (W * C) + (w * C + e)
  OBVIOUS
<1>10. At(h, w, e, W, C) = (h * W + w) * C + e
  BY DEF At
<1> QED BY <1>1, <1>4, <1>6, <1>8, <1>9, <1>10 DEF R

\* The pixels' channels of an image, one for each of its offsets: the loops of the kernels
\* find each coordinate once.
Pixels(H, W, C) == (0 .. (H - 1)) \X (0 .. (W - 1)) \X (0 .. (C - 1))

\* A pixel's offset is inside the image, and no other pixel has it.
LEMMA PixelOf ==
    ASSUME NEW H \in Nat, NEW W \in Nat, NEW C \in Nat, NEW q \in Pixels(H, W, C)
    PROVE  /\ q[1] \in Nat /\ q[1] < H /\ q[2] \in Nat /\ q[2] < W /\ q[3] \in Nat /\ q[3] < C
           /\ q = <<q[1], q[2], q[3]>>
           /\ (q[1] * W + q[2]) * C + q[3] \in 0 .. ((H * W) * C - 1)
           /\ \A r \in Pixels(H, W, C) :
                 (r[1] * W + r[2]) * C + r[3] = (q[1] * W + q[2]) * C + q[3] => r = q
<1>1. \A r \in Pixels(H, W, C) : /\ r[1] \in Nat /\ r[1] < H /\ r[2] \in Nat /\ r[2] < W /\ r[3] \in Nat
                                 /\ r[3] < C /\ r = <<r[1], r[2], r[3]>>
  BY DEF Pixels
<1> DEFINE k == (q[1] * W + q[2]) * C + q[3]
           V == (H * W) * C
<1>2. k \in Nat /\ k < V
  BY <1>1, Place3
<1>3. V \in Nat
  <2>1. H * W \in Nat
    BY Times
  <2> QED BY <2>1, Times
<1>4. k \in 0 .. (V - 1)
  <2> HIDE DEF k, V
  <2> QED BY <1>2, <1>3
<1>5. ASSUME NEW r \in Pixels(H, W, C), (r[1] * W + r[2]) * C + r[3] = (q[1] * W + q[2]) * C + q[3]
      PROVE  r = q
  <2>1. r[1] = q[1] /\ r[2] = q[2] /\ r[3] = q[3]
    <3>1. /\ r[1] \in Nat /\ r[2] \in Nat /\ r[2] < W /\ r[3] \in Nat /\ r[3] < C
          /\ q[1] \in Nat /\ q[2] \in Nat /\ q[2] < W /\ q[3] \in Nat /\ q[3] < C
      BY <1>1
    <3>2. SameOffset(W, C, r[1], r[2], r[3], q[1], q[2], q[3])
      BY <1>5 DEF SameOffset
    <3>3. PICK a \in Nat, b \in Nat, c \in Nat : a = r[1] /\ b = r[2] /\ c = r[3]
      BY <3>1
    <3>4. SameOffset(W, C, a, b, c, q[1], q[2], q[3]) /\ b < W /\ c < C
      BY ONLY <3>1, <3>2, <3>3
    <3>5. a = q[1] /\ b = q[2] /\ c = q[3]
      BY <3>1, <3>4, DigitsUnique
    <3> QED BY ONLY <3>3, <3>5
  <2> QED BY <1>1, <2>1
<1> QED BY <1>1, <1>4, <1>5

\* The loops over an image's pixels and channels
LEMMA PixelAt ==
    ASSUME NEW dims \in Seq(Nat), Len(dims) = 4, dims[1] = 1
    PROVE  /\ {At(q[1], q[2], q[3], dims[3], dims[4]) : q \in Pixels(dims[2], dims[3], dims[4])} = Cells(dims)
           /\ \A k \in Cells(dims) :
                 LET c == CoordAt(dims, k) IN
                 /\ c \in Coordinates(dims) /\ c[1] = 0 /\ <<c[2], c[3], c[4]>> \in Pixels(dims[2], dims[3], dims[4])
                 /\ k = At(c[2], c[3], c[4], dims[3], dims[4])
                 /\ (CHOOSE q \in Pixels(dims[2], dims[3], dims[4]) :
                        At(q[1], q[2], q[3], dims[3], dims[4]) = k) = <<c[2], c[3], c[4]>>
<1> DEFINE H == dims[2]
           W == dims[3]
           C == dims[4]
           Q == Pixels(H, W, C)
           at(q) == At(q[1], q[2], q[3], W, C)
<1>1. H \in Nat /\ W \in Nat /\ C \in Nat /\ DOMAIN dims = 1 .. 4
  <2>1. DOMAIN dims = 1 .. 4 /\ \A d \in 1 .. 4 : dims[d] \in Nat
    BY ShapeDomain
  <2> QED BY ONLY <2>1
<1>2. Count(dims) = (H * W) * C
  <2>1. Count(dims) = 1 * (H * (W * C))
    BY CountImage
  <2> HIDE DEF H, W, C
  <2> QED BY <1>1, <2>1
<1> HIDE DEF H, W, C
<1>3. ASSUME NEW q \in Q PROVE at(q) \in Cells(dims) /\ \A r \in Q : at(r) = at(q) => r = q
  BY <1>1, <1>2, PixelOf DEF Cells, At
<1>4. ASSUME NEW k \in Cells(dims)
      PROVE  LET c == CoordAt(dims, k) IN
             /\ c \in Coordinates(dims) /\ c[1] = 0 /\ <<c[2], c[3], c[4]>> \in Q
             /\ k = At(c[2], c[3], c[4], W, C)
             /\ (CHOOSE q \in Q : at(q) = k) = <<c[2], c[3], c[4]>>
  <2> DEFINE c == CoordAt(dims, k)
  <2>1. c \in Coordinates(dims) /\ Flat(c, dims) = k
    BY TensorAt
  <2> HIDE DEF c
  <2>2. \A d \in 1 .. 4 : c[d] \in Nat /\ c[d] < dims[d] /\ dims[d] \in Nat
    BY <1>1, <2>1, CoordTyped
  <2>3. c[1] = 0
    BY <2>2
  <2>4. k = At(c[2], c[3], c[4], W, C)
    BY <2>1, <2>3, ImageFlat DEF W, C
  <2>5. <<c[2], c[3], c[4]>> \in Q
    <3>1. c[2] \in 0 .. (H - 1) /\ c[3] \in 0 .. (W - 1) /\ c[4] \in 0 .. (C - 1)
      BY <1>1, <2>2 DEF H, W, C
    <3> QED BY <3>1 DEF Pixels
  <2> DEFINE p == <<c[2], c[3], c[4]>>
  <2>6. at(p) = k
    BY <2>4
  <2> HIDE DEF Q, at, p
  <2>7. \A r \in Q : at(r) = k => r = p
    BY <1>3, <2>5, <2>6 DEF p
  <2>8. (CHOOSE q \in Q : at(q) = k) = p
    BY <2>5, <2>6, <2>7 DEF p
  <2> QED BY <2>1, <2>3, <2>4, <2>5, <2>8 DEF c, p
<1>5. {at(q) : q \in Q} = Cells(dims)
  <2> HIDE DEF Q
  <2>1. ASSUME NEW k \in Cells(dims) PROVE k \in {at(q) : q \in Q}
    <3> DEFINE c == CoordAt(dims, k)
    <3>1. <<c[2], c[3], c[4]>> \in Q /\ k = at(<<c[2], c[3], c[4]>>)
      BY <1>4
    <3> QED BY <3>1
  <2> QED BY <1>3, <2>1
<1> QED BY <1>4, <1>5 DEF H, W, C

\* Channel planes hold the pixels: where the NPU keeps an element, and from where it was filled.
PlaneOf(H, W, h, w, c) == (c * H + h) * W + w

\* A pixel's element is in its channel's plane, and was staged there from its own offset.
LEMMA PlaneAt ==
    ASSUME NEW H \in Nat, NEW W \in Nat, NEW C \in Nat, NEW h \in Nat, h < H, NEW w \in Nat, w < W,
           NEW c \in Nat, c < C
    PROVE  /\ InChw(At(h, w, c, W, C), H * W, C) = PlaneOf(H, W, h, w, c)
           /\ PlaneOf(H, W, h, w, c) \in DOMAIN ChwOf(H * W, C)
           /\ ChwOf(H * W, C)[PlaneOf(H, W, h, w, c)] = At(h, w, c, W, C)
<1> DEFINE S == H * W
           p == h * W + w
           k == p * C + c
           m == c * S + p
           U == S * C
<1>1. p \in Nat /\ p < S /\ S \in Nat
  BY Place, Times
<1>2. At(h, w, c, W, C) = k /\ k \div C = p /\ k % C = c
  <2>1. At(h, w, c, W, C) = k
    BY DEF At
  <2> HIDE DEF p
  <2> QED BY <1>1, <2>1, DigitIs
<1>3. m \in Nat /\ m < C * S /\ m \div S = c /\ m % S = p
  <2> HIDE DEF p, S
  <2> QED BY <1>1, Place, DigitIs
<1>4. PlaneOf(H, W, h, w, c) = m
  <2>1. (c * H + h) * W + w = c * (H * W) + (h * W + w)
    OBVIOUS
  <2> QED BY <2>1 DEF PlaneOf
<1>5. U = C * S /\ U \in Nat
  <2> HIDE DEF S
  <2> QED BY <1>1, Times
<1> HIDE DEF p, k, m, S, U
<1>6. m \in 0 .. (U - 1)
  BY <1>3, <1>5
<1>7. DOMAIN ChwOf(S, C) = 0 .. (U - 1) /\ ChwOf(S, C)[m] = (m % S) * C + (m \div S)
  BY <1>6 DEF ChwOf, U
<1>8. ChwOf(S, C)[m] = k
  BY <1>3, <1>7 DEF k
<1>9. InChw(k, S, C) = m
  BY <1>2 DEF InChw, m
<1> QED BY <1>2, <1>4, <1>6, <1>7, <1>8, <1>9 DEF S

\* A kernel over planes finds the element it writes once.
PlaneFound(H, W, C, h, w, c) ==
    /\ <<c, h, w>> \in Pixels(C, H, W)
    /\ (CHOOSE q \in Pixels(C, H, W) : PlaneOf(H, W, q[2], q[3], q[1]) = PlaneOf(H, W, h, w, c)) = <<c, h, w>>

\* The loops over planes come to each pixel's place exactly once.
LEMMA PlaneChosen ==
    ASSUME NEW H \in Nat, NEW W \in Nat, NEW C \in Nat, NEW h \in Nat, h < H, NEW w \in Nat, w < W,
           NEW c \in Nat, c < C
    PROVE  PlaneFound(H, W, C, h, w, c)
<1> DEFINE Q == Pixels(C, H, W)
           p == <<c, h, w>>
           m == PlaneOf(H, W, h, w, c)
           at(q) == PlaneOf(H, W, q[2], q[3], q[1])
<1>1. p \in Q
  BY DEF Pixels
<1>2. p[1] = c /\ p[2] = h /\ p[3] = w
  OBVIOUS
<1>3. at(p) = m
  BY <1>2
<1>4. \A r \in Q : at(r) = at(p) => r = p
  <2>1. \A r \in Q : (r[1] * H + r[2]) * W + r[3] = (p[1] * H + p[2]) * W + p[3] => r = p
    BY <1>1, PixelOf
  <2> QED BY <2>1 DEF PlaneOf
<1> HIDE DEF Q, p, m, at
<1>5. (CHOOSE q \in Q : at(q) = m) = p
  BY <1>1, <1>3, <1>4
<1> QED BY <1>1, <1>5 DEF Q, p, m, at, PlaneFound

\* A term of one staged operand, in terms of the operand
Reading(offsets, by) == Term({<< <<1, off>> >> : off \in offsets}, by)

\* Read through the staging, a kernel's operands are what was staged at them.
LEMMA StagedReading ==
    ASSUME NEW f, NEW buf, NEW k \in DOMAIN f, NEW offsets, NEW by, f[k] = Reading(offsets, by),
           offsets \subseteq DOMAIN buf
    PROVE  Through(f, 1, buf)[k] = Reading({buf[off] : off \in offsets}, by)
<1> DEFINE to(t) == [i \in DOMAIN t |-> IF t[i][1] = 1 THEN <<1, buf[t[i][2]]>> ELSE t[i]]
           kept == {t \in f[k].taps : \A i \in DOMAIN t : t[i][1] = 1 => t[i][2] \in DOMAIN buf}
           one(v) == << <<1, v>> >>
<1>1. Through(f, 1, buf)[k] = Term({to(t) : t \in kept}, f[k].by)
  BY DEF Through
<1>2. f[k].taps = {one(off) : off \in offsets} /\ f[k].by = by
  BY DEF Reading, Term
<1>3. \A v : DOMAIN one(v) = {1} /\ one(v)[1] = <<1, v>> /\ one(v)[1][1] = 1 /\ one(v)[1][2] = v
  OBVIOUS
<1>4. ASSUME NEW v PROVE to(one(v)) = one(buf[v])
  <2>1. one(v)[1][1] = 1 /\ one(v)[1][2] = v
    BY <1>3
  <2>2. to(one(v)) = [i \in {1} |-> <<1, buf[v]>>]
    BY <1>3, <2>1
  <2>3. one(buf[v]) = [i \in {1} |-> <<1, buf[v]>>]
    OBVIOUS
  <2> QED BY <2>2, <2>3
<1> HIDE DEF to, one
<1>5. kept = f[k].taps
  <2>1. ASSUME NEW t \in f[k].taps, NEW i \in DOMAIN t, t[i][1] = 1 PROVE t[i][2] \in DOMAIN buf
    <3>1. PICK off \in offsets : t = one(off)
      BY <1>2
    <3>2. i = 1 /\ t[1][2] = off
      BY <1>3, <2>1, <3>1
    <3> QED BY <3>2
  <2> QED BY <2>1
<1> HIDE DEF kept
<1>6. {to(t) : t \in kept} = {one(v) : v \in {buf[off] : off \in offsets}}
  BY <1>2, <1>4, <1>5
<1> QED BY <1>1, <1>2, <1>6 DEF Reading, one

\* A copy reads one element.
LEMMA CopyReading == ASSUME NEW v PROVE Copy(1, v) = Reading({v}, 1)
BY DEF Copy, Reading

\* A kernel on channel planes, element by element: staging in and out again are inverse.
Unstaged(f, buf, H, W, C) == FromChw(Through(f, 1, buf), H * W, C)
ReadingOf(buf, offsets, by) == Reading({buf[off] : off \in offsets}, by)
Fetches(f, k, buf, offsets, by) == k \in DOMAIN f /\ f[k] = Reading(offsets, by) /\ offsets \subseteq DOMAIN buf
PlaneReads(f, buf, H, W, C, k, v) == Unstaged(f, buf, H, W, C)[k] = v

\* A kernel on the NPU's planes reads, for a pixel, what was staged at the operands it reads there.
LEMMA ThroughPlanes ==
    ASSUME NEW f, NEW H \in Nat, NEW W \in Nat, NEW C \in Nat, NEW buf,
           NEW h \in Nat, h < H, NEW w \in Nat, w < W, NEW c \in Nat, c < C,
           NEW offs, NEW by, Fetches(f, PlaneOf(H, W, h, w, c), buf, offs, by)
    PROVE  PlaneReads(f, buf, H, W, C, At(h, w, c, W, C), ReadingOf(buf, offs, by))
<1> DEFINE k == At(h, w, c, W, C)
           m == PlaneOf(H, W, h, w, c)
           g == Through(f, 1, buf)
<1>1. InChw(k, H * W, C) = m
  BY PlaneAt
<1>2. k \in 0 .. ((H * W) * C - 1)
  <2> DEFINE V == (H * W) * C
             v == (h * W + w) * C + c
  <2>1. v \in Nat /\ v < V
    BY Place3
  <2>2. V \in Nat
    <3>1. H * W \in Nat
      BY Times
    <3> QED BY <3>1, Times
  <2>3. k = v
    BY DEF At
  <2> HIDE DEF V, v, k
  <2>4. k \in 0 .. (V - 1)
    BY <2>1, <2>2, <2>3
  <2> QED BY <2>4 DEF V
<1>3. FromChw(g, H * W, C) = [j \in 0 .. ((H * W) * C - 1) |-> g[InChw(j, H * W, C)]]
  BY DEF FromChw
<1>4. FromChw(g, H * W, C)[k] = g[m]
  <2> HIDE DEF g, k, m
  <2> QED BY <1>1, <1>2, <1>3
<1>5. g[m] = Reading({buf[off] : off \in offs}, by)
  BY StagedReading DEF Fetches
<1> QED BY <1>4, <1>5 DEF Unstaged, ReadingOf, PlaneReads

\* Nearest neighbours by whole factors are quotients.
LEMMA NearestIs ==
    ASSUME NEW size \in Nat, size > 0, NEW s \in Nat, s > 0, NEW o \in Nat, o < size * s,
           NEW corners, ~corners, NEW half, ~half
    PROVE  /\ rocket_nn_src(o, size, size * s, corners, half) = o \div s
           /\ o \div s \in Nat /\ o \div s < size
<1> DEFINE a == o \div s
           b == o % s
           P == 2 * (size * s)
           t == 2 * (size * b)
           v == ((2 * o + 0) * size) \div (2 * (size * s))
<1>1. a \in Nat /\ a < size /\ b \in Nat /\ b < s /\ o = a * s + b
  BY Digits
<1> HIDE DEF a, b
<1>2. (2 * o + 0) * size = a * P + t
  BY <1>1
<1>3. P \in Nat /\ t \in Nat /\ t < P
  <2>1. size * b \in Nat /\ size * s \in Nat
    BY <1>1, Times
  <2>2. PICK e \in Nat : s = b + 1 + e
    <3>1. s - b - 1 \in Nat /\ s = b + 1 + (s - b - 1)
      BY <1>1
    <3> QED BY <3>1
  <2>3. size * s = size * b + size + size * e /\ size * e \in Nat
    BY <1>1, <2>2, Times
  <2> QED BY <2>1, <2>3
<1>4. v = a
  <2>1. v = (a * P + t) \div P
    BY <1>2
  <2> HIDE DEF v, P, t
  <2>2. (a * P + t) \div P = a
    BY <1>1, <1>3, DigitIs
  <2> QED BY <2>1, <2>2
<1>5. rocket_nn_src(o, size, size * s, corners, half) = IF v > size - 1 THEN size - 1 ELSE IF v < 0 THEN 0 ELSE v
  BY DEF rocket_nn_src
<1> DEFINE r == rocket_nn_src(o, size, size * s, corners, half)
<1>6. a \in Nat /\ a < size /\ size \in Nat /\ r = IF v > size - 1 THEN size - 1 ELSE IF v < 0 THEN 0 ELSE v
  BY <1>1, <1>5
<1> HIDE DEF v, r
<1>7. r = a
  BY ONLY <1>4, <1>6
<1> QED BY <1>1, <1>7 DEF a, r

\* RESIZE_NEAREST_NEIGHBOR: the source of an element, and what the operator means by it
Nearest(in, out, corners, half, c) ==
    At(rocket_nn_src(c[2], in[2], out[2], corners, half),
       rocket_nn_src(c[3], in[3], out[3], corners, half), c[4], in[3], in[4])
Resized(in, out, corners, half) ==
    Tensor(out, LAMBDA c : Value(1, <<c[1], rocket_nn_src(c[2], in[2], out[2], corners, half),
                                      rocket_nn_src(c[3], in[3], out[3], corners, half), c[4]>>, in))
\* Two images of a batch of one, of as many channels, neither empty
Pair4(in, out) ==
    /\ in \in Seq(Nat) /\ out \in Seq(Nat) /\ Len(in) = 4 /\ Len(out) = 4 /\ in[1] = 1 /\ out[1] = 1
    /\ in[4] = out[4] /\ in[2] > 0 /\ in[3] > 0 /\ in[4] > 0 /\ out[2] > 0 /\ out[3] > 0

\* The extents of two such images
LEMMA Pair4Typed ==
    ASSUME NEW in, NEW out, Pair4(in, out)
    PROVE  /\ DOMAIN in = 1 .. 4 /\ DOMAIN out = 1 .. 4
           /\ in[2] \in Nat /\ in[3] \in Nat /\ in[4] \in Nat
           /\ out[2] \in Nat /\ out[3] \in Nat /\ out[4] \in Nat
           /\ Cells(out) = 0 .. ((out[2] * out[3]) * out[4] - 1)
<1>1. in \in Seq(Nat) /\ out \in Seq(Nat) /\ Len(in) = 4 /\ Len(out) = 4 /\ out[1] = 1
  BY DEF Pair4
<1>2. DOMAIN in = 1 .. 4 /\ DOMAIN out = 1 .. 4 /\ \A d \in 1 .. 4 : in[d] \in Nat /\ out[d] \in Nat
  BY <1>1, ShapeDomain
<1>3. PICK H \in Nat, W \in Nat, C \in Nat : H = out[2] /\ W = out[3] /\ C = out[4]
  BY <1>2
<1>4. Count(out) = 1 * (H * (W * C))
  BY <1>1, <1>3, CountImage
<1>5. Count(out) = (H * W) * C
  BY <1>4
<1> QED BY <1>2, <1>3, <1>5 DEF Cells

\* A RESIZE takes each element from the nearest pixel, as the operator places it.
LEMMA ResizedIs ==
    ASSUME NEW in, NEW out, Pair4(in, out), NEW corners, NEW half
    PROVE  Resized(in, out, corners, half)
             = [k \in Cells(out) |-> Copy(1, Nearest(in, out, corners, half, CoordAt(out, k)))]
<1> DEFINE y(c) == <<c[1], rocket_nn_src(c[2], in[2], out[2], corners, half),
                     rocket_nn_src(c[3], in[3], out[3], corners, half), c[4]>>
           W(c) == Value(1, y(c), in)
<1>1. Resized(in, out, corners, half) = [k \in Range(Offsets(out)) |-> W(CoordAt(out, k))]
  BY DEF Resized, Tensor, Offsets, CoordAt
<1>2. in \in Seq(Nat) /\ out \in Seq(Nat) /\ Len(in) = 4 /\ Len(out) = 4 /\ out[1] = 1 /\ in[1] = 1 /\ in[4] = out[4]
  BY DEF Pair4
<1>3. Range(Offsets(out)) = Cells(out)
  BY <1>2, TensorAt
<1>4. ASSUME NEW k \in Cells(out) PROVE W(CoordAt(out, k)) = Copy(1, Nearest(in, out, corners, half, CoordAt(out, k)))
  <2> DEFINE c == CoordAt(out, k)
             h == rocket_nn_src(c[2], in[2], out[2], corners, half)
             w == rocket_nn_src(c[3], in[3], out[3], corners, half)
  <2>1. c \in Coordinates(out) /\ c[1] = 0
    BY <1>2, PixelAt
  <2> HIDE DEF c
  <2>2. /\ c[2] \in Nat /\ c[2] < out[2] /\ c[3] \in Nat /\ c[3] < out[3] /\ c[4] \in Nat /\ c[4] < out[4]
    <3>1. \A d \in 1 .. 4 : c[d] \in Nat /\ c[d] < out[d]
      BY <1>2, <2>1, CoordTyped, ShapeDomain
    <3> QED BY ONLY <3>1
  <2>3. h \in 0 .. (in[2] - 1) /\ w \in 0 .. (in[3] - 1)
    <3>1. in[2] \in Nat /\ in[3] \in Nat /\ out[2] \in Nat /\ out[3] \in Nat /\ in[2] > 0 /\ in[3] > 0
      BY Pair4Typed DEF Pair4
    <3> QED BY <2>2, <3>1, SourceInside, SourceTyped
  <2> HIDE DEF h, w
  <2>4. y(c) = <<0, h, w, c[4]>>
    BY <2>1 DEF h, w
  <2>5. <<0, h, w, c[4]>> \in Coordinates(in)
    <3> DEFINE e == c[4]
               z == <<0, h, w, e>>
    <3>1. /\ h \in Nat /\ w \in Nat /\ e \in Nat /\ h < in[2] /\ w < in[3] /\ e < in[4] /\ 0 < in[1]
      <4>1. in[2] \in Nat /\ in[3] \in Nat
        BY Pair4Typed
      <4>2. h \in Nat /\ w \in Nat /\ h < in[2] /\ w < in[3]
        BY <2>3, <4>1
      <4> QED BY <1>2, <2>2, <4>2
    <3> HIDE DEF e
    <3>2. DOMAIN z = 1 .. 4 /\ z[1] = 0 /\ z[2] = h /\ z[3] = w /\ z[4] = e
      OBVIOUS
    <3>3. DOMAIN in = 1 .. 4
      BY Pair4Typed
    <3>4. z \in [1 .. 4 -> Nat] /\ \A d \in 1 .. 4 : z[d] < in[d]
      <4>1. z \in [1 .. 4 -> Nat]
        BY <3>1
      <4> HIDE DEF z
      <4> QED BY <3>1, <3>2, <4>1
    <3> HIDE DEF z
    <3>5. z \in Coordinates(in)
      BY <3>3, <3>4 DEF Coordinates
    <3> QED BY <3>5 DEF z, e
  <2>6. Flat(<<0, h, w, c[4]>>, in) = At(h, w, c[4], in[3], in[4])
    <3> DEFINE z == <<0, h, w, c[4]>>
    <3>1. z[1] = 0 /\ z[2] = h /\ z[3] = w /\ z[4] = c[4]
      OBVIOUS
    <3>2. z \in Coordinates(in)
      BY <2>5
    <3> HIDE DEF z
    <3>3. Flat(z, in) = At(z[2], z[3], z[4], in[3], in[4])
      BY <1>2, <3>1, <3>2, ImageFlat
    <3> QED BY <3>1, <3>3 DEF z
  <2>7. Nearest(in, out, corners, half, c) = At(h, w, c[4], in[3], in[4])
    BY DEF Nearest, h, w
  <2>8. W(c) = Copy(1, Flat(<<0, h, w, c[4]>>, in))
    BY <2>4 DEF Value, Elem, Copy
  <2> QED BY <2>6, <2>7, <2>8 DEF c
<1> HIDE DEF W
<1> QED BY <1>1, <1>3, <1>4

\* The host's loops
LEMMA ResizeMeans ==
    ASSUME NEW in, NEW out, Pair4(in, out), NEW corners, NEW half
    PROVE  rocket_resize_nearest(in[2], in[3], in[4], out[2], out[3], corners, half)
             = Resized(in, out, corners, half)
<1> DEFINE Q == Pixels(out[2], out[3], out[4])
           at(q) == At(q[1], q[2], q[3], out[3], out[4])
           what(q) == Copy(1, At(rocket_nn_src(q[1], in[2], out[2], corners, half),
                                 rocket_nn_src(q[2], in[3], out[3], corners, half), q[3], in[3], in[4]))
           f == rocket_resize_nearest(in[2], in[3], in[4], out[2], out[3], corners, half)
<1>1. f = [k \in {at(q) : q \in Q} |-> what(CHOOSE q \in Q : at(q) = k)]
  BY DEF rocket_resize_nearest, Scatter, Pair4, Pixels
<1>2. out \in Seq(Nat) /\ Len(out) = 4 /\ out[1] = 1
  BY DEF Pair4
<1>3. {at(q) : q \in Q} = Cells(out)
  BY <1>2, PixelAt
<1>4. ASSUME NEW k \in Cells(out)
      PROVE  what(CHOOSE q \in Q : at(q) = k) = Copy(1, Nearest(in, out, corners, half, CoordAt(out, k)))
  <2> DEFINE c == CoordAt(out, k)
  <2>1. (CHOOSE q \in Q : at(q) = k) = <<c[2], c[3], c[4]>>
    BY <1>2, PixelAt
  <2> HIDE DEF Q, at, c
  <2>2. what(<<c[2], c[3], c[4]>>) = Copy(1, Nearest(in, out, corners, half, c))
    BY DEF Nearest
  <2> HIDE DEF what
  <2>3. what(CHOOSE q \in Q : at(q) = k) = what(<<c[2], c[3], c[4]>>)
    BY <2>1
  <2> QED BY <2>2, <2>3 DEF c
<1>5. Resized(in, out, corners, half)
        = [k \in Cells(out) |-> Copy(1, Nearest(in, out, corners, half, CoordAt(out, k)))]
  BY ResizedIs
<1> HIDE DEF f, what, Q, at
<1>6. f = [k \in Cells(out) |-> what(CHOOSE q \in Q : at(q) = k)]
  BY <1>1, <1>3
<1>7. f = [k \in Cells(out) |-> Copy(1, Nearest(in, out, corners, half, CoordAt(out, k)))]
  BY <1>4, <1>6
<1> QED BY <1>5, <1>7 DEF f

\* And the NPU's replication, through channel planes
LEMMA UpsampleMeans ==
    ASSUME NEW in, NEW out, Pair4(in, out), out[2] % in[2] = 0, out[3] % in[3] = 0,
           NEW corners, ~corners, NEW half, ~half
    PROVE  FromChw(Through(rocket_upsample_nearest_fp16(in[4], in[2], in[3], out[2] \div in[2],
                                                        out[3] \div in[3]),
                           1, ChwOf(in[2] * in[3], in[4])),
                   out[2] * out[3], in[4]) = Resized(in, out, corners, half)
<1>1. PICK H \in Nat, W \in Nat, C \in Nat, OH \in Nat, OW \in Nat :
         /\ H = in[2] /\ W = in[3] /\ C = in[4] /\ OH = out[2] /\ OW = out[3] /\ C = out[4] /\ H > 0 /\ W > 0
  BY Pair4Typed DEF Pair4
<1> DEFINE sy == OH \div H
           sx == OW \div W
           f == rocket_upsample_nearest_fp16(C, H, W, sy, sx)
           buf == ChwOf(H * W, C)
           Q == Pixels(C, OH, OW)
           dst(q) == PlaneOf(OH, OW, q[2], q[3], q[1])
           what(q) == Copy(1, (q[1] * H + (q[2] \div sy)) * W + (q[3] \div sx))
           g == FromChw(Through(f, 1, buf), OH * OW, C)
<1>2. sy \in Nat /\ H * sy = OH /\ sx \in Nat /\ W * sx = OW
  BY <1>1, Multiple
<1>3. \A a, b, c \in Nat : (a * H * sy + b) * W * sx + c = PlaneOf(OH, OW, b, c, a)
  <2> HIDE DEF sy, sx
  <2> TAKE a, b, c \in Nat
  <2>1. a * H * sy = a * (H * sy)
    BY <1>2
  <2> DEFINE p == a * H * sy + b
  <2>2. p \in Nat /\ p = a * OH + b
    <3>1. a * OH \in Nat
      BY Times
    <3> QED BY <1>2, <2>1, <3>1
  <2> HIDE DEF p
  <2>3. p * W * sx = p * (W * sx)
    BY <1>2, <2>2
  <2>4. p * W * sx = p * OW
    BY <1>2, <2>3
  <2> QED BY <2>2, <2>4 DEF PlaneOf, p
<1>4. f = [m \in {dst(q) : q \in Q} |-> what(CHOOSE q \in Q : dst(q) = m)]
  <2> DEFINE R == (0 .. (C - 1)) \X (0 .. (H * sy - 1)) \X (0 .. (W * sx - 1))
             d0(q) == (q[1] * H * sy + q[2]) * W * sx + q[3]
  <2>1. f = [m \in {d0(q) : q \in R} |-> what(CHOOSE q \in R : d0(q) = m)]
    BY DEF rocket_upsample_nearest_fp16, Scatter
  <2>2. R = Q
    BY <1>2 DEF Pixels
  <2>3. \A q \in Q : d0(q) = dst(q)
    <3> TAKE q \in Q
    <3>1. q[1] \in Nat /\ q[2] \in Nat /\ q[3] \in Nat
      BY PixelOf
    <3> HIDE DEF sy, sx, Q
    <3> QED BY <1>3, <3>1
  <2> HIDE DEF f, R, Q, d0, dst, what
  <2> DEFINE from(m) == CHOOSE q \in Q : d0(q) = m
             to(m) == CHOOSE q \in Q : dst(q) = m
  <2>4. \A m : from(m) = to(m)
    BY <2>3
  <2>5. {d0(q) : q \in Q} = {dst(q) : q \in Q}
    BY <2>3
  <2>6. f = [m \in {d0(q) : q \in Q} |-> what(CHOOSE q \in Q : d0(q) = m)]
    BY <2>1, <2>2
  <2>7. f = [m \in {dst(q) : q \in Q} |-> what(from(m))]
    BY <2>5, <2>6
  <2>8. f = [m \in {dst(q) : q \in Q} |-> what(to(m))]
    <3> HIDE DEF from, to
    <3> QED BY <2>4, <2>7
  <2> QED BY <2>8
<1>5. Resized(in, out, corners, half)
        = [k \in Cells(out) |-> Copy(1, Nearest(in, out, corners, half, CoordAt(out, k)))]
  BY ResizedIs
<1>6. Cells(out) = 0 .. ((OH * OW) * C - 1)
  BY <1>1, Pair4Typed
<1>7. g = [k \in Cells(out) |-> g[k]]
  <2>1. g = [k \in 0 .. ((OH * OW) * C - 1) |-> Through(f, 1, buf)[InChw(k, OH * OW, C)]]
    BY DEF FromChw
  <2> HIDE DEF g
  <2> QED BY <1>6, <2>1
<1> HIDE DEF f, buf, g
<1>8. ASSUME NEW k \in Cells(out) PROVE g[k] = Copy(1, Nearest(in, out, corners, half, CoordAt(out, k)))
  <2> DEFINE c == CoordAt(out, k)
  <2>1. <<c[2], c[3], c[4]>> \in Pixels(OH, OW, C) /\ k = At(c[2], c[3], c[4], OW, C)
    BY <1>1, PixelAt DEF Pair4
  <2> HIDE DEF c
  <2>2. PICK h \in Nat, w \in Nat, e \in Nat : h = c[2] /\ w = c[3] /\ e = c[4] /\ h < OH /\ w < OW /\ e < C
    <3> DEFINE p == <<c[2], c[3], c[4]>>
    <3>1. p[1] = c[2] /\ p[2] = c[3] /\ p[3] = c[4]
      OBVIOUS
    <3>2. p[1] \in Nat /\ p[2] \in Nat /\ p[3] \in Nat /\ p[1] < OH /\ p[2] < OW /\ p[3] < C
      <4> HIDE DEF p
      <4> QED BY <2>1, PixelOf DEF p
    <3> HIDE DEF p
    <3> QED BY <3>1, <3>2
  <2> DEFINE m == PlaneOf(OH, OW, h, w, e)
             y == h \div sy
             z == w \div sx
             off == PlaneOf(H, W, y, z, e)
  <2>3. <<e, h, w>> \in Q /\ (CHOOSE q \in Q : dst(q) = m) = <<e, h, w>>
    <3>1. OH \in Nat /\ OW \in Nat /\ C \in Nat
      OBVIOUS
    <3>2. PlaneFound(OH, OW, C, h, w, e)
      BY ONLY <2>2, <3>1, PlaneChosen
    <3> QED BY <3>2 DEF PlaneFound
  <2>4. m \in DOMAIN f /\ f[m] = Copy(1, off)
    <3> DEFINE p == <<e, h, w>>
    <3>1. p[1] = e /\ p[2] = h /\ p[3] = w
      OBVIOUS
    <3>2. dst(p) = m /\ what(p) = Copy(1, off)
      BY <3>1 DEF PlaneOf
    <3> HIDE DEF p, dst, what, Q, m, off, sy, sx
    <3>3. p \in Q /\ (CHOOSE q \in Q : dst(q) = m) = p
      BY <2>3 DEF p
    <3> QED BY <1>4, <3>2, <3>3
  <2>5. /\ sy > 0 /\ sx > 0 /\ h < H * sy /\ w < W * sx
    <3> HIDE DEF sy, sx
    <3>1. sy = 0 => H * sy = 0
      BY <1>1
    <3>2. sx = 0 => W * sx = 0
      BY <1>1
    <3> QED BY <1>2, <2>2, <3>1, <3>2
  <2>6. /\ rocket_nn_src(h, H, H * sy, corners, half) = y /\ y \in Nat /\ y < H
        /\ rocket_nn_src(w, W, W * sx, corners, half) = z /\ z \in Nat /\ z < W
    <3> HIDE DEF sy, sx
    <3> QED BY <1>1, <1>2, <2>5, NearestIs
  <2>7. Nearest(in, out, corners, half, c) = At(y, z, e, W, C)
    <3> HIDE DEF sy, sx, y, z
    <3> QED BY <1>1, <1>2, <2>2, <2>6 DEF Nearest
  <2>8. off \in DOMAIN buf /\ buf[off] = At(y, z, e, W, C)
    <3> HIDE DEF sy, sx, y, z
    <3>1. H \in Nat /\ W \in Nat /\ C \in Nat /\ y \in Nat /\ y < H /\ z \in Nat /\ z < W /\ e \in Nat /\ e < C
      BY <2>2, <2>6
    <3>2. /\ PlaneOf(H, W, y, z, e) \in DOMAIN ChwOf(H * W, C)
          /\ ChwOf(H * W, C)[PlaneOf(H, W, y, z, e)] = At(y, z, e, W, C)
      BY ONLY <3>1, PlaneAt
    <3> QED BY <3>2 DEF buf
  <2> HIDE DEF m, off, y, z, Q, sy, sx
  <2>9. f[m] = Reading({off}, 1) /\ {off} \subseteq DOMAIN buf
    BY <2>4, <2>8, CopyReading
  <2>10. g[At(h, w, e, OW, C)] = Reading({buf[o] : o \in {off}}, 1)
    <3>1. OH \in Nat /\ OW \in Nat /\ C \in Nat /\ Fetches(f, PlaneOf(OH, OW, h, w, e), buf, {off}, 1)
      BY <2>4, <2>9 DEF m, Fetches
    <3>2. Unstaged(f, buf, OH, OW, C)[At(h, w, e, OW, C)] = ReadingOf(buf, {off}, 1)
      <4>1. h \in Nat /\ w \in Nat /\ e \in Nat /\ h < OH /\ w < OW /\ e < C
        BY <2>2
      <4>2. PlaneReads(f, buf, OH, OW, C, At(h, w, e, OW, C), ReadingOf(buf, {off}, 1))
        BY ONLY <4>1, <3>1, ThroughPlanes
      <4> QED BY ONLY <4>2 DEF PlaneReads
    <3> QED BY <3>2 DEF g, Unstaged, ReadingOf
  <2>11. {buf[o] : o \in {off}} = {At(y, z, e, W, C)}
    BY <2>8
  <2>12. g[k] = Copy(1, At(y, z, e, W, C))
    BY <2>1, <2>2, <2>10, <2>11, CopyReading
  <2> QED BY <2>7, <2>12 DEF c
<1>9. g = Resized(in, out, corners, half)
  BY <1>5, <1>7, <1>8
<1> QED BY <1>1, <1>9 DEF g, f, buf

\* RESIZE_NEAREST_NEIGHBOR, of a batch of one
LEMMA ResizeAnswers ==
    ASSUME NEW n, NEW buf, Sound(n, buf), n.op = "resize", analyze_resize(n), buf.ins[1][1] = 1,
           NEW board, eval_resize(n, Capture(n), buf, board).ok
    PROVE  Means(n, eval_resize(n, Capture(n), buf, board), buf.ins)
<1> DEFINE x0 == Capture(n)
           in == buf.ins[1]
           o == buf.outs[1]
           own == n.ins[1]
           OH == n.p.OH
           OW == n.p.OW
           out == <<in[1], OH, OW, in[4]>>
           bad == \/ Len(in) # 4 \/ <<in[2], in[3], in[4]>> # <<own[2], own[3], own[4]>>
                  \/ <<o[2], o[3], o[4]>> # <<OH, OW, own[4]>>
           npu == /\ board /\ n.type = "float" /\ ~n.p.corners /\ ~n.p.half
                  /\ OH % own[2] = 0 /\ OW % own[3] = 0
           planes == FromChw(Through(rocket_upsample_nearest_fp16(own[4], own[2], own[3], OH \div own[2],
                                                                  OW \div own[3]),
                                     1, ChwOf(own[2] * own[3], own[4])),
                             OH * OW, own[4])
           host == rocket_resize_nearest(own[2], own[3], own[4], OH, OW, n.p.corners, n.p.half)
           a == eval_resize(n, x0, buf, board)
           T == Resized(in, out, n.p.corners, n.p.half)
<1>1. x0.IH = own[2] /\ x0.IW = own[3] /\ x0.C = own[4] /\ x0.OH = OH /\ x0.OW = OW
  BY DEF Capture
<1>2. a = IF bad THEN Fails(<< >>) ELSE IF npu THEN Answer(<<planes>>, TRUE) ELSE Answer(<<host>>, FALSE)
  <2> HIDE DEF own, x0, OH, OW
  <2> QED BY <1>1 DEF eval_resize
<1>3. ~bad /\ a.outs = <<IF npu THEN planes ELSE host>>
  <2>1. bad \in BOOLEAN /\ a.ok
    OBVIOUS
  <2> HIDE DEF bad, planes, host, npu, a
  <2> QED BY <1>2, <2>1 DEF Fails, Answer
<1>4. in[2] = own[2] /\ in[3] = own[3] /\ in[4] = own[4] /\ Len(in) = 4
  BY <1>3
<1>5. in \in Seq(Nat) /\ own \in Seq(Nat) /\ OH \in Nat /\ OW \in Nat
  <2>1. OH \in Nat /\ OW \in Nat
    BY DEF Sound, Situation, WellFormed, Attributes
  <2> HIDE DEF OH, OW
  <2> QED BY <2>1, InsTyped DEF Sound
<1>6. OH > 0 /\ OW > 0 /\ own[2] > 0 /\ own[3] > 0 /\ own[4] > 0
  <2>1. \A d \in 2 .. 4 : own[d] > 0
    BY DEF analyze_resize
  <2>2. OH > 0 /\ OW > 0
    BY DEF analyze_resize
  <2> HIDE DEF own, OH, OW
  <2> QED BY <2>1, <2>2
<1> HIDE DEF own
<1>7. Pair4(in, out)
  <2>1. in[4] \in Nat /\ in[1] = 1
    <3>1. DOMAIN in = 1 .. 4 /\ \A d \in 1 .. 4 : in[d] \in Nat
      BY <1>4, <1>5, ShapeDomain
    <3> QED BY ONLY <3>1, buf.ins[1][1] = 1
  <2>2. out \in Seq(Nat) /\ Len(out) = 4 /\ out[1] = 1 /\ out[2] = OH /\ out[3] = OW /\ out[4] = in[4]
    <3> HIDE DEF OH, OW, in
    <3> QED BY <1>5, <2>1
  <2> HIDE DEF out, OH, OW
  <2> QED BY <1>4, <1>5, <1>6, <2>1, <2>2 DEF Pair4
<1>8. out[2] = OH /\ out[3] = OW /\ out[4] = in[4]
  OBVIOUS
<1>9. host = T
  <2> HIDE DEF in, out, OH, OW
  <2> QED BY <1>4, <1>7, <1>8, ResizeMeans
<1>10. npu => planes = T
  <2> SUFFICES ASSUME npu PROVE planes = T
    OBVIOUS
  <2>1. ~n.p.corners /\ ~n.p.half
    OBVIOUS
  <2>2. out[2] % in[2] = 0 /\ out[3] % in[3] = 0
    BY <1>4, <1>8
  <2> HIDE DEF in, out, OH, OW
  <2> QED BY <1>4, <1>7, <1>8, <2>1, <2>2, UpsampleMeans
<1>11. Outputs("resize", n.p, buf.ins) = <<T>>
  BY DEF Outputs, Shapes, Resized
<1>12. Valid("resize", n.p, buf.ins)
  BY DEF Valid
<1> HIDE DEF host, planes, npu, T, a, in
<1> QED BY <1>3, <1>9, <1>10, <1>11, <1>12 DEF Means, a, in

-----------------------------------------------------------------------------
(* Offsets around an axis.                                                 *)

\* An offset is what the axes up to one make, above what those behind it do.
LEMMA FlatSplit ==
    ASSUME NEW dims \in Seq(Nat), NEW c \in Coordinates(dims)
    PROVE  \A k \in 0 .. Len(dims) :
              Flat(c, dims) = Top(c, dims, k) * Weight(dims, k + 1) + Rest(c, dims, k + 1)
<1> DEFINE n == Len(dims)
           T(k) == Top(c, dims, k)
           V(k) == Weight(dims, k)
           R(k) == Rest(c, dims, k)
           F == Flat(c, dims)
           P == {k \in 0 .. n : F = T(k) * V(k + 1) + R(k + 1)}
<1>1. n \in Nat /\ \A d \in 1 .. n : c[d] \in Nat /\ dims[d] \in Nat
  BY CoordTyped, ShapeDomain
<1>2. F = R(1)
  <2>1. c \in [DOMAIN dims -> Int]
    BY DEF Coordinates
  <2> QED BY <2>1, FlatIs, Tails
<1>3. /\ \A d \in 1 .. n + 1 : R(d) \in Nat /\ V(d) \in Nat
      /\ \A d \in 1 .. n : R(d) = c[d] * V(d + 1) + R(d + 1) /\ V(d) = dims[d] * V(d + 1)
  BY Tails
<1>4. T(0) = 0 /\ \A k \in 1 .. n : T(k) = T(k - 1) * dims[k] + c[k] /\ T(k - 1) \in Nat
  <2>1. /\ T(0) = 0
        /\ \A k \in 1 .. Len(dims) : T(k) = T(k - 1) * dims[k] + c[k]
        /\ \A k \in 0 .. Len(dims) : T(k) \in Nat
    BY TopStep
  <2> HIDE DEF T
  <2> QED BY <2>1
<1> HIDE DEF n, T, V, R, F
<1>5. 0 \in P
  <2>1. V(1) \in Nat /\ R(1) \in Nat
    BY <1>1, <1>3
  <2> QED BY <1>1, <1>2, <1>4, <2>1
<1>6. ASSUME NEW k \in 1 .. n, k - 1 \in P PROVE k \in P
  <2>1. PICK t \in Nat, m \in Nat, d \in Nat, v \in Nat, r \in Nat :
           t = T(k - 1) /\ m = dims[k] /\ d = c[k] /\ v = V(k + 1) /\ r = R(k + 1)
    <3>1. k \in 1 .. n /\ k + 1 \in 1 .. n + 1
      BY <1>1
    <3>2. T(k - 1) \in Nat /\ dims[k] \in Nat /\ c[k] \in Nat
      BY <1>1, <1>4, <3>1
    <3>3. V(k + 1) \in Nat /\ R(k + 1) \in Nat
      BY <1>3, <3>1
    <3> QED BY <3>2, <3>3
  <2>2. F = t * V(k) + R(k)
    BY <1>6, <2>1
  <2>3. V(k) = m * v /\ R(k) = d * v + r
    BY <1>3, <2>1
  <2>4. T(k) = t * m + d
    BY <1>4, <2>1
  <2>5. t * (m * v) + (d * v + r) = (t * m + d) * v + r
    OBVIOUS
  <2>6. F = T(k) * v + r
    BY <2>2, <2>3, <2>4, <2>5
  <2> QED BY <2>1, <2>6
<1>7. \A k \in 0 .. n : k \in P
  <2> HIDE DEF P
  <2> QED BY <1>1, <1>5, <1>6, UpTo
<1> QED BY <1>7 DEF n, T, V, R, F

\* The last axis counts within its row.
LEMMA LastAxis ==
    ASSUME NEW dims \in Seq(Nat), Len(dims) >= 1, NEW k \in Cells(dims)
    PROVE  LET N == dims[Len(dims)]  c == CoordAt(dims, k)  e(i) == [c EXCEPT ![Len(dims)] = i] IN
           /\ N \in Nat /\ c[Len(dims)] \in Nat /\ c[Len(dims)] < N /\ c[Len(dims)] = k % N
           /\ \A i \in 0 .. (N - 1) : e(i) \in Coordinates(dims) /\ Flat(e(i), dims) = (k \div N) * N + i
<1> DEFINE n == Len(dims)
           N == dims[n]
           c == CoordAt(dims, k)
           e(i) == [c EXCEPT ![n] = i]
           q == Top(c, dims, n - 1)
<1>1. n \in Nat /\ n >= 1 /\ n \in DOMAIN dims /\ DOMAIN dims = 1 .. n
  BY ShapeDomain
<1>2. c \in Coordinates(dims) /\ Flat(c, dims) = k
  BY TensorAt
<1> HIDE DEF n, c
<1>3. N \in Nat /\ c[n] \in Nat /\ c[n] < N
  BY <1>1, <1>2, CoordTyped
<1>4. ASSUME NEW b \in Coordinates(dims), \A d \in 1 .. (n - 1) : b[d] = c[d]
      PROVE  Flat(b, dims) = q * N + b[n]
  <2>1. Top(b, dims, n - 1) = q
    BY <1>4, TopSame
  <2>2. Top(b, dims, n) = Top(b, dims, n - 1) * dims[n] + b[n]
    BY <1>1, TopStep DEF n
  <2>3. Flat(b, dims) = Top(b, dims, n) * 1 + 0
    <3>1. Weight(dims, n + 1) = 1 /\ Rest(b, dims, n + 1) = 0
      BY Tails DEF n
    <3>2. n \in 0 .. Len(dims)
      BY <1>1 DEF n
    <3> QED BY <3>1, <3>2, FlatSplit
  <2>4. Top(b, dims, n) \in Nat
    BY <1>1, TopStep DEF n
  <2> HIDE DEF q
  <2> QED BY <2>1, <2>2, <2>3, <2>4
<1>5. q \in Nat
  <2>1. n - 1 \in 0 .. Len(dims)
    BY <1>1 DEF n
  <2> QED BY <1>2, <2>1, TopStep
<1>6. k = q * N + c[n]
  BY <1>2, <1>4
<1> HIDE DEF q, N
<1>7. k \div N = q /\ k % N = c[n]
  <2>1. PICK t \in Nat : t = c[n] /\ t < N
    BY <1>3
  <2> QED BY <1>3, <1>5, <1>6, <2>1, DigitIs
<1>8. ASSUME NEW i \in 0 .. (N - 1) PROVE e(i) \in Coordinates(dims) /\ Flat(e(i), dims) = q * N + i
  <2>1. e(i) \in Coordinates(dims)
    BY <1>1, <1>2, <1>3 DEF Coordinates, N
  <2>2. e(i)[n] = i /\ \A d \in 1 .. (n - 1) : e(i)[d] = c[d]
    BY <1>1, <1>2 DEF Coordinates
  <2> HIDE DEF e
  <2> QED BY <1>4, <2>1, <2>2
<1> QED BY <1>3, <1>7, <1>8 DEF n, N, c

\* SOFTMAX and its kind, and CUMSUM, along the last axis
Rowed(in) ==
    Tensor(in, LAMBDA c : Term({<<Elem(1, [c EXCEPT ![Len(in)] = n], in)>> : n \in 0 .. (in[Len(in)] - 1)},
                               c[Len(in)]))
Summed(in, exclusive, reverse) ==
    Tensor(in, LAMBDA c :
        Term({<<Elem(1, [c EXCEPT ![Len(in)] = n], in)>> :
                 n \in {n \in 0 .. (in[Len(in)] - 1) :
                           \/ n = c[Len(in)] /\ ~exclusive
                           \/ IF reverse THEN n > c[Len(in)] ELSE n < c[Len(in)]}}, 1))

\* A row's elements, and the ones before one of them in the order of a running sum
RowTaps(a, N, s) == {<< <<1, a * N + n>> >> : n \in s}
Summands(N, b, exclusive, reverse) ==
    {n \in 0 .. (N - 1) : \/ n = b /\ ~exclusive
                          \/ IF reverse THEN n > b ELSE n < b}

\* What the operators over rows mean, offset by offset.
LEMMA RowsMean ==
    ASSUME NEW in \in Seq(Nat), Len(in) >= 1, NEW exclusive, NEW reverse
    PROVE  LET N == in[Len(in)] IN
           /\ Rowed(in) = [k \in Cells(in) |-> Term(RowTaps(k \div N, N, 0 .. (N - 1)), k % N)]
           /\ Summed(in, exclusive, reverse)
                = [k \in Cells(in) |-> Term(RowTaps(k \div N, N, Summands(N, k % N, exclusive, reverse)), 1)]
<1> DEFINE r == Len(in)
           N == in[r]
           I == 0 .. (N - 1)
           e(c, n) == [c EXCEPT ![r] = n]
           J(b) == Summands(N, b, exclusive, reverse)
           V(c) == Term({<< <<1, Flat(e(c, n), in)>> >> : n \in I}, c[r])
           W(c) == Term({<< <<1, Flat(e(c, n), in)>> >> : n \in J(c[r])}, 1)
<1>1. Range(Offsets(in)) = Cells(in)
  BY TensorAt
<1>2. Rowed(in) = [k \in Range(Offsets(in)) |-> V(CoordAt(in, k))]
  BY DEF Rowed, Elem, Tensor, Offsets, CoordAt
<1>3. Summed(in, exclusive, reverse) = [k \in Range(Offsets(in)) |-> W(CoordAt(in, k))]
  BY DEF Summed, Summands, Elem, Tensor, Offsets, CoordAt
<1>4. ASSUME NEW k \in Cells(in)
      PROVE  /\ V(CoordAt(in, k)) = Term(RowTaps(k \div N, N, I), k % N)
             /\ W(CoordAt(in, k)) = Term(RowTaps(k \div N, N, J(k % N)), 1)
  <2> DEFINE c == CoordAt(in, k)
             q == k \div N
  <2>1. c[r] = k % N /\ \A i \in I : Flat(e(c, i), in) = q * N + i
    BY LastAxis
  <2>2. J(c[r]) \subseteq I
    BY DEF Summands
  <2> HIDE DEF c, q, e, N, I, J
  <2>3. {<< <<1, Flat(e(c, n), in)>> >> : n \in I} = {<< <<1, q * N + n>> >> : n \in I}
    BY <2>1
  <2>4. {<< <<1, Flat(e(c, n), in)>> >> : n \in J(c[r])} = {<< <<1, q * N + n>> >> : n \in J(c[r])}
    BY <2>1, <2>2
  <2> QED BY <2>1, <2>3, <2>4 DEF RowTaps, c, q
<1> HIDE DEF V, W
<1> QED BY <1>1, <1>2, <1>3, <1>4

\* The host's loops: rows of N
LEMMA CumsumIs ==
    ASSUME NEW M \in Nat, NEW N \in Nat, NEW exclusive, NEW reverse
    PROVE  rocket_cumsum(M, N, exclusive, reverse)
             = [k \in 0 .. (M * N - 1) |->
                   Term(RowTaps(k \div N, N, Summands(N, k % N, exclusive, reverse)), 1)]
<1> DEFINE n(i) == IF reverse THEN N - 1 - i ELSE i
           Q == (0 .. (M - 1)) \X (0 .. (N - 1))
           dst(q) == q[1] * N + n(q[2])
           taps(q) == {<< <<1, q[1] * N + n(j)>> >> : j \in {j \in 0 .. q[2] : ~exclusive \/ j < q[2]}}
           f == rocket_cumsum(M, N, exclusive, reverse)
           V == M * N
           at(k) == <<k \div N, n(k % N)>>
<1>1. f = [k \in {dst(q) : q \in Q} |-> Term(taps(CHOOSE q \in Q : dst(q) = k), 1)]
  BY DEF rocket_cumsum, Scatter
<1>2. \A q \in Q : /\ q[1] \in Nat /\ q[2] \in Nat /\ q[1] < M /\ q[2] < N /\ q = <<q[1], q[2]>>
                   /\ n(q[2]) \in Nat /\ n(q[2]) < N /\ n(n(q[2])) = q[2]
  OBVIOUS
<1>3. ASSUME NEW q \in Q
      PROVE  dst(q) \in Nat /\ dst(q) < V /\ dst(q) \div N = q[1] /\ dst(q) % N = n(q[2])
  <2>1. PICK a \in Nat, b \in Nat : a = q[1] /\ b = n(q[2]) /\ a < M /\ b < N
    BY <1>2
  <2>2. a * N + b \in Nat /\ a * N + b < M * N
    BY <2>1, Place
  <2>3. (a * N + b) \div N = a /\ (a * N + b) % N = b
    <3>1. N \in Nat /\ a \in Nat /\ b \in Nat /\ b < N
      BY <2>1
    <3> QED BY ONLY <3>1, DigitIs
  <2> HIDE DEF n, Q
  <2> QED BY <2>1, <2>2, <2>3
<1>4. ASSUME NEW k \in 0 .. (V - 1)
      PROVE  at(k) \in Q /\ dst(at(k)) = k /\ at(k)[1] = k \div N /\ at(k)[2] = n(k % N)
  <2>1. V \in Nat /\ k \in Nat /\ k < M * N
    BY Times
  <2> HIDE DEF V
  <2>2. PICK a \in Nat, b \in Nat : a = k \div N /\ b = k % N /\ a < M /\ b < N /\ k = a * N + b
    BY <2>1, Digits
  <2>3. n(b) \in 0 .. (N - 1) /\ n(n(b)) = b
    BY <2>2
  <2>4. at(k) = <<a, n(b)>>
    BY <2>2
  <2>5. <<a, n(b)>>[1] = a /\ <<a, n(b)>>[2] = n(b)
    OBVIOUS
  <2>6. <<a, n(b)>> \in Q
    BY <2>2, <2>3
  <2> HIDE DEF n, at, Q
  <2> QED BY <2>2, <2>3, <2>4, <2>5, <2>6
<1>5. {dst(q) : q \in Q} = 0 .. (V - 1)
  <2>1. V \in Nat
    BY Times
  <2> HIDE DEF dst, V, at, Q
  <2>2. \A q \in Q : dst(q) \in 0 .. (V - 1)
    BY <1>3, <2>1
  <2> QED BY <1>4, <2>2
<1>6. ASSUME NEW k \in 0 .. (V - 1)
      PROVE  /\ (CHOOSE q \in Q : dst(q) = k) = at(k)
             /\ taps(at(k)) = RowTaps(k \div N, N, Summands(N, k % N, exclusive, reverse))
  <2>1. ASSUME NEW q \in Q, dst(q) = k PROVE q = at(k)
    <3>1. q = <<q[1], q[2]>> /\ n(n(q[2])) = q[2]
      BY <1>2
    <3>2. k \div N = q[1] /\ k % N = n(q[2])
      BY <1>3, <2>1
    <3> HIDE DEF n
    <3> QED BY <3>1, <3>2
  <2>2. (CHOOSE q \in Q : dst(q) = k) = at(k)
    <3> HIDE DEF dst, at, Q
    <3> QED BY <1>4, <2>1
  <2>3. PICK a \in Nat, b \in Nat : a = k \div N /\ b = k % N /\ b < N
    <3>1. V \in Nat /\ k \in Nat /\ k < M * N
      BY Times
    <3> HIDE DEF V
    <3> QED BY <3>1, Digits
  <2> DEFINE m == n(b)
             J == {j \in 0 .. m : ~exclusive \/ j < m}
             S == Summands(N, b, exclusive, reverse)
  <2>4. {n(j) : j \in J} = S
    <3>1. CASE reverse
      <4>1. \A j \in J : n(j) \in S
        BY <2>3, <3>1 DEF Summands
      <4>2. \A s \in S : N - 1 - s \in J /\ n(N - 1 - s) = s
        BY <2>3, <3>1 DEF Summands
      <4> HIDE DEF J, S, n
      <4> QED BY <4>1, <4>2
    <3>2. CASE ~reverse
      <4>1. \A j \in J : n(j) \in S
        BY <2>3, <3>2 DEF Summands
      <4>2. \A s \in S : s \in J /\ n(s) = s
        BY <2>3, <3>2 DEF Summands
      <4> HIDE DEF J, S, n
      <4> QED BY <4>1, <4>2
    <3> QED BY <3>1, <3>2
  <2>5. taps(at(k)) = {<< <<1, a * N + n(j)>> >> : j \in J}
    <3>1. at(k)[1] = a /\ at(k)[2] = m
      BY <1>4, <2>3
    <3> HIDE DEF at, m, n
    <3> QED BY <3>1
  <2>6. {<< <<1, a * N + n(j)>> >> : j \in J} = {<< <<1, a * N + s>> >> : s \in {n(j) : j \in J}}
    <3> HIDE DEF J, n
    <3> QED OBVIOUS
  <2> HIDE DEF taps, at, J, S, n
  <2> QED BY <2>2, <2>3, <2>4, <2>5, <2>6 DEF RowTaps, S
<1> HIDE DEF f, dst, taps, at, Q, V
<1>7. f = [k \in 0 .. (V - 1) |-> Term(taps(at(k)), 1)]
  <2> DEFINE from(k) == CHOOSE q \in Q : dst(q) = k
  <2>1. f = [k \in 0 .. (V - 1) |-> Term(taps(from(k)), 1)]
    BY <1>1, <1>5
  <2>2. \A k \in 0 .. (V - 1) : from(k) = at(k)
    BY <1>6
  <2> HIDE DEF from
  <2> QED BY <2>1, <2>2
<1>8. f = [k \in 0 .. (V - 1) |-> Term(RowTaps(k \div N, N, Summands(N, k % N, exclusive, reverse)), 1)]
  BY <1>6, <1>7
<1> QED BY <1>8 DEF f, V

\* The operators along the last axis, of as many rows' elements as the node was claimed with
LEMMA RowsAnswers ==
    ASSUME NEW n, NEW buf, Sound(n, buf), n.op \in {"rowwise", "l2norm", "cumsum"}, analyze_rows(n),
           Last(buf.ins[1]) = Last(n.ins[1]),
           n.op = "cumsum" => Axis(n.p.axis, Len(buf.ins[1])) = Len(buf.ins[1]),
           NEW board, eval_rows(n, Capture(n), buf, board).ok
    PROVE  Means(n, eval_rows(n, Capture(n), buf, board), buf.ins)
<1> DEFINE in == buf.ins[1]
           own == n.ins[1]
           r == Len(in)
           N == Last(own)
           M == Count(own) \div N
           o == Count(buf.outs[1])
           ex == n.p.exclusive
           rev == n.p.reverse
           bad == \/ Count(in) # o \/ M * N # o
                  \/ n.op = "l2norm" /\ o <= 0
           f == IF n.op = "cumsum" THEN rocket_cumsum(M, N, ex, rev) ELSE rocket_rowwise(M, N)
           a == eval_rows(n, Capture(n), buf, board)
           T == IF n.op = "cumsum" THEN Summed(in, ex, rev) ELSE Rowed(in)
<1>1. Capture(n) = [M |-> M, N |-> N]
  BY DEF Capture
<1>2. a = IF bad THEN Fails(<< >>) ELSE Answer(<<f>>, n.op = "l2norm" /\ board /\ n.type = "float")
  <2> HIDE DEF M, N
  <2> QED BY <1>1 DEF eval_rows
<1>3. ~bad /\ a.outs = <<f>>
  <2>1. bad \in BOOLEAN /\ a.ok
    OBVIOUS
  <2> HIDE DEF bad, f, a
  <2> QED BY <1>2, <2>1, Passed
<1>4. in \in Seq(Nat) /\ r \in Nat /\ r >= 1 /\ N = in[r] /\ N \in Nat /\ N > 0
  <2>1. in \in Seq(Nat) /\ own \in Seq(Nat) /\ r >= 1
    <3>1. in \in Seq(Nat) /\ own \in Seq(Nat)
      BY InsTyped DEF Sound
    <3>2. r >= 1
      BY DEF Sound, AlongLast
    <3> QED BY <3>1, <3>2
  <2>2. N > 0 /\ Last(in) = N
    BY DEF analyze_rows
  <2> HIDE DEF in, own
  <2>3. Last(in) = in[r]
    BY <2>1 DEF Last
  <2> HIDE DEF N
  <2>4. in[r] \in Nat
    BY <2>1
  <2> QED BY <2>1, <2>2, <2>3, <2>4
<1>5. M \in Nat /\ M * N = Count(in)
  <2>1. Count(own) \in Nat
    BY InsTyped, CountNat DEF Sound
  <2>2. M \in Nat
    <3>1. PICK e \in Nat, b \in Nat : e = Count(own) /\ b = N /\ b > 0
      BY <1>4, <2>1
    <3>2. e \div b \in Nat
      BY <3>1
    <3>3. M = e \div b
      BY <3>1
    <3> QED BY <3>2, <3>3
  <2>3. M * N = o /\ Count(in) = o
    BY <1>3
  <2> QED BY <2>2, <2>3
<1>6. f = T
  <2> HIDE DEF in, M, N, r, ex, rev
  <2>1. Cells(in) = 0 .. (M * N - 1)
    BY <1>5 DEF Cells
  <2>2. rocket_rowwise(M, N) = [k \in 0 .. (M * N - 1) |-> Term(RowTaps(k \div N, N, 0 .. (N - 1)), k % N)]
    BY DEF rocket_rowwise, RowTaps
  <2>3. rocket_cumsum(M, N, ex, rev)
          = [k \in 0 .. (M * N - 1) |-> Term(RowTaps(k \div N, N, Summands(N, k % N, ex, rev)), 1)]
    <3>1. M \in Nat /\ N \in Nat
      BY <1>4, <1>5
    <3> QED BY ONLY <3>1, CumsumIs
  <2>4. /\ Rowed(in) = [k \in Cells(in) |-> Term(RowTaps(k \div N, N, 0 .. (N - 1)), k % N)]
        /\ Summed(in, ex, rev)
             = [k \in Cells(in) |-> Term(RowTaps(k \div N, N, Summands(N, k % N, ex, rev)), 1)]
    BY <1>4, RowsMean DEF r
  <2> QED BY <2>1, <2>2, <2>3, <2>4
<1>7. Outputs(n.op, n.p, buf.ins) = <<T>>
  <2>1. CASE n.op = "cumsum"
    <3>1. Outputs("cumsum", n.p, buf.ins)[1] = Summed(in, ex, rev) /\ Outputs("cumsum", n.p, buf.ins)
            = << Outputs("cumsum", n.p, buf.ins)[1] >>
      <4>1. Axis(n.p.axis, Len(in)) = Len(in)
        BY <2>1
      <4> QED BY <4>1 DEF Outputs, Shapes, Summed
    <3> QED BY <2>1, <3>1
  <2>2. CASE n.op \in {"rowwise", "l2norm"}
    BY <2>2 DEF Outputs, Shapes, Rowed
  <2> QED BY <2>1, <2>2
<1>8. Valid(n.op, n.p, buf.ins)
  <2>1. n.op = "cumsum" => Axis(n.p.axis, Len(in)) \in DOMAIN in
    BY <1>4
  <2> HIDE DEF in
  <2> QED BY <1>4, <2>1 DEF Valid, in, r
<1> HIDE DEF f, T, a
<1> QED BY <1>3, <1>6, <1>7, <1>8 DEF Means, a

\* PRELU: an element and the slope of its channel
Sloped(in) == Tensor(in, LAMBDA c : Term({<<Elem(1, c, in), <<2, c[Len(in)]>> >>}, 1))
Slope(k, C) == Term({<< <<1, k>>, <<2, k % C>> >>}, 1)

\* What PRELU means, offset by offset.
LEMMA SlopedIs ==
    ASSUME NEW in \in Seq(Nat), Len(in) >= 1
    PROVE  Sloped(in) = [k \in Cells(in) |-> Slope(k, in[Len(in)])]
<1> DEFINE r == Len(in)
           V(c) == Term({<< <<1, Flat(c, in)>>, <<2, c[r]>> >>}, 1)
<1>1. Range(Offsets(in)) = Cells(in)
  BY TensorAt
<1>2. Sloped(in) = [k \in Range(Offsets(in)) |-> V(CoordAt(in, k))]
  BY DEF Sloped, Elem, Tensor, Offsets, CoordAt
<1>3. ASSUME NEW k \in Cells(in) PROVE V(CoordAt(in, k)) = Slope(k, in[r])
  <2>1. CoordAt(in, k)[r] = k % in[r] /\ Flat(CoordAt(in, k), in) = k
    BY LastAxis, TensorAt
  <2> QED BY <2>1 DEF Slope
<1> HIDE DEF V
<1> QED BY <1>1, <1>2, <1>3

\* Channel planes are where an element's place in the image says, and back.
PlanesAre(k, S, C) ==
    LET m == InChw(k, S, C) IN
    /\ m \in 0 .. (S * C - 1) /\ m \in 0 .. (C * S - 1) /\ m \div S = k % C
    /\ m \in DOMAIN ChwOf(S, C) /\ ChwOf(S, C)[m] = k

\* An offset's place in the planes, and the channel it is in.
LEMMA PlanesBack ==
    ASSUME NEW S \in Nat, NEW C \in Nat, NEW k \in Nat, k < S * C
    PROVE  PlanesAre(k, S, C)
<1>1. PICK p \in Nat, c \in Nat : p = k \div C /\ c = k % C /\ p < S /\ c < C /\ k = p * C + c
  BY Digits
<1> DEFINE m == c * S + p
           U == S * C
<1>2. InChw(k, S, C) = m
  BY <1>1 DEF InChw
<1>3. m \in Nat /\ m < C * S
  BY <1>1, Place
<1>4. m \div S = c /\ m % S = p
  <2>1. S \in Nat /\ c \in Nat /\ p \in Nat /\ p < S
    BY <1>1
  <2> QED BY ONLY <2>1, DigitIs
<1>5. U = C * S /\ U \in Nat
  BY Times
<1> HIDE DEF m, U
<1>6. m \in 0 .. (U - 1)
  BY <1>3, <1>5
<1>7. m \in DOMAIN ChwOf(S, C) /\ ChwOf(S, C)[m] = (m % S) * C + (m \div S)
  BY <1>6 DEF ChwOf, U
<1>8. ChwOf(S, C)[m] = k
  BY <1>1, <1>4, <1>7
<1>9. m \in 0 .. (S * C - 1) /\ m \in 0 .. (C * S - 1)
  BY <1>5, <1>6 DEF U
<1> QED BY <1>1, <1>2, <1>4, <1>7, <1>8, <1>9 DEF PlanesAre

\* A product with a slope that stays where it is
SlopesAt(f, m, v, s) == m \in DOMAIN f /\ f[m] = Term({<< <<1, v>>, <<2, s>> >>}, 1)

\* Staging moves the element and leaves the slope.
LEMMA SlopeThrough ==
    ASSUME NEW f, NEW stages, NEW m, NEW s, m \in DOMAIN stages, SlopesAt(f, m, m, s)
    PROVE  SlopesAt(Through(f, 1, stages), m, stages[m], s)
<1> DEFINE to(t) == [i \in DOMAIN t |-> IF t[i][1] = 1 THEN <<1, stages[t[i][2]]>> ELSE t[i]]
           kept == {t \in f[m].taps : \A i \in DOMAIN t : t[i][1] = 1 => t[i][2] \in DOMAIN stages}
           t0 == << <<1, m>>, <<2, s>> >>
<1>1. m \in DOMAIN Through(f, 1, stages) /\ Through(f, 1, stages)[m] = Term({to(t) : t \in kept}, f[m].by)
  BY DEF Through, SlopesAt
<1>2. f[m].taps = {t0} /\ f[m].by = 1
  BY DEF Term, SlopesAt
<1>3. DOMAIN t0 = {1, 2} /\ t0[1] = <<1, m>> /\ t0[2] = <<2, s>>
  OBVIOUS
<1>4. t0[1][1] = 1 /\ t0[1][2] = m /\ t0[2][1] # 1
  BY <1>3
<1>5. to(t0) = << <<1, stages[m]>>, <<2, s>> >>
  <2>1. to(t0) = [i \in {1, 2} |-> IF t0[i][1] = 1 THEN <<1, stages[t0[i][2]]>> ELSE t0[i]]
    BY <1>3
  <2> HIDE DEF t0
  <2>2. to(t0)[1] = <<1, stages[m]>> /\ to(t0)[2] = <<2, s>>
    BY <1>3, <1>4, <2>1
  <2>3. to(t0) = [i \in {1, 2} |-> to(t0)[i]]
    BY <2>1
  <2> HIDE DEF to
  <2> QED BY <2>2, <2>3
<1>6. kept = {t0}
  <2> HIDE DEF t0
  <2>1. \A i \in DOMAIN t0 : t0[i][1] = 1 => t0[i][2] \in DOMAIN stages
    BY <1>3, <1>4
  <2> QED BY <1>2, <2>1
<1> HIDE DEF to, kept, t0
<1> QED BY <1>1, <1>2, <1>5, <1>6 DEF SlopesAt

\* PRELU on the NPU, staged in and out again, is PRELU on the host.
LEMMA PreluPlanes ==
    ASSUME NEW S \in Nat, NEW C \in Nat
    PROVE  FromChw(Through(rocket_prelu_fp16(C, S), 1, ChwOf(S, C)), S, C)
             = [k \in 0 .. (S * C - 1) |-> Slope(k, C)]
<1> DEFINE f == rocket_prelu_fp16(C, S)
           g == Through(f, 1, ChwOf(S, C))
           V == S * C
<1>1. FromChw(g, S, C) = [k \in 0 .. (V - 1) |-> g[InChw(k, S, C)]]
  BY DEF FromChw
<1>2. ASSUME NEW k \in 0 .. (V - 1) PROVE g[InChw(k, S, C)] = Slope(k, C)
  <2> DEFINE m == InChw(k, S, C)
  <2>1. PlanesAre(k, S, C)
    <3>1. V \in Nat
      BY Times
    <3>2. k \in Nat /\ k < V
      <4> HIDE DEF V
      <4> QED BY <3>1
    <3> QED BY <3>2, PlanesBack
  <2>2. m \in 0 .. (C * S - 1) /\ m \div S = k % C /\ m \in DOMAIN ChwOf(S, C) /\ ChwOf(S, C)[m] = k
    BY <2>1 DEF PlanesAre
  <2> HIDE DEF m
  <2>3. m \in DOMAIN f /\ f[m] = Term({<< <<1, m>>, <<2, k % C>> >>}, 1)
    BY <2>2 DEF rocket_prelu_fp16
  <2> HIDE DEF f
  <2>4. g[m] = Term({<< <<1, ChwOf(S, C)[m]>>, <<2, k % C>> >>}, 1)
    <3> DEFINE e == k % C
               stages == ChwOf(S, C)
    <3>1. SlopesAt(f, m, m, e) /\ m \in DOMAIN stages
      BY <2>2, <2>3 DEF SlopesAt
    <3> HIDE DEF e, stages
    <3>2. SlopesAt(Through(f, 1, stages), m, stages[m], e)
      BY ONLY <3>1, SlopeThrough
    <3> QED BY <3>2 DEF e, stages, SlopesAt
  <2> QED BY <2>2, <2>4 DEF Slope, m
<1> HIDE DEF g, V
<1>3. FromChw(g, S, C) = [k \in 0 .. (V - 1) |-> Slope(k, C)]
  BY <1>1, <1>2
<1> QED BY <1>3 DEF g, V

\* PRELU, where the channels are as many as it was claimed with
LEMMA PreluAnswers ==
    ASSUME NEW n, NEW buf, Sound(n, buf), n.op = "prelu", analyze_prelu(n),
           Last(buf.ins[1]) = Last(n.ins[1]), NEW board, eval_prelu(n, Capture(n), buf, board).ok
    PROVE  Means(n, eval_prelu(n, Capture(n), buf, board), buf.ins)
<1> DEFINE in == buf.ins[1]
           own == n.ins[1]
           r == Len(in)
           C == Last(own)
           o == Count(buf.outs[1])
           S == o \div C
           bad == Count(in) # o \/ o <= 0 \/ o % C # 0
           npu == board /\ n.type = "float"
           f == IF npu THEN FromChw(Through(rocket_prelu_fp16(C, S), 1, ChwOf(S, C)), S, C)
                ELSE rocket_prelu(o, C)
           a == eval_prelu(n, Capture(n), buf, board)
           T == Sloped(in)
<1>1. Capture(n).C = C
  BY DEF Capture
<1>2. a = IF bad THEN Fails(<< >>) ELSE Answer(<<f>>, npu)
  <2> HIDE DEF C
  <2> QED BY <1>1 DEF eval_prelu
<1>3. ~bad /\ a.outs = <<f>>
  <2>1. bad \in BOOLEAN /\ a.ok
    OBVIOUS
  <2> HIDE DEF bad, f, a
  <2> QED BY <1>2, <2>1, Passed
<1>4. in \in Seq(Nat) /\ own \in Seq(Nat) /\ r \in Nat /\ r >= 1
  <2>1. in \in Seq(Nat) /\ own \in Seq(Nat)
    BY InsTyped DEF Sound
  <2>2. r >= 1
    BY DEF Sound, AlongLast
  <2> QED BY <2>1, <2>2
<1>5. C = in[r] /\ C \in Nat /\ C > 0
  <2>1. C > 0 /\ Last(in) = C
    BY DEF analyze_prelu
  <2> HIDE DEF in, own
  <2>2. Last(in) = in[r]
    BY <1>4 DEF Last
  <2> HIDE DEF C
  <2>3. in[r] \in Nat
    BY <1>4
  <2> QED BY <2>1, <2>2, <2>3
<1>6. o = Count(in) /\ o \in Nat /\ o % C = 0
  <2>1. Count(in) \in Nat
    BY <1>4, CountNat
  <2> QED BY <1>3, <2>1
<1> HIDE DEF C, o, in, own, bad, npu
<1>7. S \in Nat /\ S * C = o
  BY <1>5, <1>6, Multiple
<1> HIDE DEF S
<1>8. f = T
  <2>1. T = [k \in 0 .. (o - 1) |-> Slope(k, C)]
    BY <1>4, <1>5, <1>6, SlopedIs DEF Cells, r
  <2>2. rocket_prelu(o, C) = [k \in 0 .. (o - 1) |-> Slope(k, C)]
    BY DEF rocket_prelu, Slope
  <2>3. FromChw(Through(rocket_prelu_fp16(C, S), 1, ChwOf(S, C)), S, C) = [k \in 0 .. (o - 1) |-> Slope(k, C)]
    <3>1. C \in Nat /\ S \in Nat
      BY <1>5, <1>7
    <3>2. FromChw(Through(rocket_prelu_fp16(C, S), 1, ChwOf(S, C)), S, C)
            = [k \in 0 .. (S * C - 1) |-> Slope(k, C)]
      BY ONLY <3>1, PreluPlanes
    <3> QED BY <1>7, <3>2
  <2> HIDE DEF T
  <2> QED BY <2>1, <2>2, <2>3
<1>9. Outputs("prelu", n.p, buf.ins) = <<T>>
  BY DEF Outputs, Shapes, Sloped, in
<1>10. Valid("prelu", n.p, buf.ins)
  <2>1. n.ins[2] = <<own[Len(own)]>> /\ Len(own) >= 1
    BY DEF Sound, Valid, own
  <2>2. own[Len(own)] = C
    BY <1>4, <2>1 DEF Last, C
  <2>3. buf.ins[2] = n.ins[2]
    BY InsTyped DEF Sound, ConstantOperand
  <2>4. buf.ins[2] = <<in[Len(in)]>> /\ Len(in) >= 1
    BY <1>4, <1>5, <2>1, <2>2, <2>3
  <2> QED BY <2>4 DEF Valid, in
<1> HIDE DEF f, T, a
<1> QED BY <1>3, <1>8, <1>9, <1>10 DEF Means, a

-----------------------------------------------------------------------------
(* Counting the elements averaged over.                                    *)

\* Sets that correspond one to one are of one size.
LEMMA SameCount ==
    ASSUME NEW S, NEW T, IsFiniteSet(T), NEW g \in [S -> T],
           \A s, t \in S : g[s] = g[t] => s = t, \A t \in T : \E s \in S : g[s] = t
    PROVE  IsFiniteSet(S) /\ Cardinality(S) = Cardinality(T)
<1>1. g \in Injection(S, T)
  BY DEF Injection, IsInjective
<1>2. g \in Surjection(S, T)
  BY DEF Surjection
<1> QED BY <1>1, <1>2, FS_Injection

\* A channel of an image of a batch of one: its pixels, and their offsets
ChannelOf(in, k) == {y \in Coords(in) : y[1] = 0 /\ y[4] = k}
ChannelAt(in, k) ==
    /\ {Flat(y, in) : y \in ChannelOf(in, k)} = {p * in[4] + k : p \in 0 .. (in[2] * in[3] - 1)}
    /\ Cardinality(ChannelOf(in, k)) = in[2] * in[3]

PixelIn(k, h, w) == [d \in 1 .. 4 |-> IF d = 1 THEN 0 ELSE IF d = 2 THEN h ELSE IF d = 3 THEN w ELSE k]

\* A channel's pixels are its rows and columns.
LEMMA ChannelPixels ==
    ASSUME NEW in \in Seq(Nat), Len(in) = 4, in[1] = 1, NEW k \in Nat, k < in[4]
    PROVE  /\ \A y \in ChannelOf(in, k) :
                 /\ y \in Coordinates(in) /\ y[1] = 0 /\ y[4] = k
                 /\ y[2] \in Nat /\ y[2] < in[2] /\ y[3] \in Nat /\ y[3] < in[3]
                 /\ y = PixelIn(k, y[2], y[3])
           /\ \A h, w \in Nat : h < in[2] /\ w < in[3] =>
                 /\ PixelIn(k, h, w) \in ChannelOf(in, k)
                 /\ PixelIn(k, h, w)[2] = h /\ PixelIn(k, h, w)[3] = w
<1>1. PICK H \in Nat, W \in Nat, C \in Nat : H = in[2] /\ W = in[3] /\ C = in[4]
  <2>1. DOMAIN in = 1 .. 4 /\ \A d \in DOMAIN in : in[d] \in Nat
    BY ShapeDomain
  <2>2. in[2] \in Nat /\ in[3] \in Nat /\ in[4] \in Nat
    BY <2>1
  <2> QED BY <2>2
<1> DEFINE Y == ChannelOf(in, k)
           z(h, w) == PixelIn(k, h, w)
<1>2. Y = {y \in Coordinates(in) : y[1] = 0 /\ y[4] = k}
  BY CoordsAre DEF ChannelOf
<1>3. \A y \in Y : /\ y \in Coordinates(in) /\ y[1] = 0 /\ y[4] = k
                   /\ y[2] \in Nat /\ y[2] < H /\ y[3] \in Nat /\ y[3] < W
                   /\ y = z(y[2], y[3])
  <2> TAKE y \in Y
  <2>1. y \in Coordinates(in) /\ y[1] = 0 /\ y[4] = k
    BY <1>2
  <2>2. DOMAIN in = 1 .. 4 /\ y \in [1 .. 4 -> Nat]
    BY <2>1 DEF Coordinates
  <2>3. y[2] \in Nat /\ y[2] < H /\ y[3] \in Nat /\ y[3] < W
    <3>1. \A d \in DOMAIN in : y[d] \in Nat /\ in[d] \in Nat /\ y[d] < in[d]
      BY <2>1, CoordTyped
    <3>2. 2 \in DOMAIN in /\ 3 \in DOMAIN in
      BY <2>2
    <3> QED BY ONLY <1>1, <3>1, <3>2
  <2>4. y = [d \in 1 .. 4 |-> y[d]]
    BY <2>2
  <2> QED BY <2>1, <2>3, <2>4 DEF PixelIn
<1>4. ASSUME NEW h \in Nat, h < H, NEW w \in Nat, w < W
      PROVE  z(h, w) \in Y /\ z(h, w)[2] = h /\ z(h, w)[3] = w
  <2>1. DOMAIN in = 1 .. 4 /\ in[1] = 1
    OBVIOUS
  <2>2. z(h, w)[1] = 0 /\ z(h, w)[2] = h /\ z(h, w)[3] = w /\ z(h, w)[4] = k
    BY DEF PixelIn
  <2>3. z(h, w) \in [1 .. 4 -> Nat]
    BY DEF PixelIn
  <2> HIDE DEF z
  <2>4. z(h, w) \in Coordinates(in)
    BY <1>1, <1>4, <2>1, <2>2, <2>3 DEF Coordinates
  <2> QED BY <1>2, <2>2, <2>4
<1> QED BY <1>1, <1>3, <1>4 DEF Y

\* The pixels of a channel are one to a position, C apart.
LEMMA ChannelIs ==
    ASSUME NEW in \in Seq(Nat), Len(in) = 4, in[1] = 1, NEW k \in Nat, k < in[4]
    PROVE  ChannelAt(in, k)
<1>1. PICK H \in Nat, W \in Nat, C \in Nat : H = in[2] /\ W = in[3] /\ C = in[4]
  <2>1. DOMAIN in = 1 .. 4 /\ \A d \in DOMAIN in : in[d] \in Nat
    BY ShapeDomain
  <2>2. in[2] \in Nat /\ in[3] \in Nat /\ in[4] \in Nat
    BY <2>1
  <2> QED BY <2>2
<1> DEFINE Y == ChannelOf(in, k)
           S == H * W
           g == [y \in Y |-> y[2] * W + y[3]]
           z(h, w) == PixelIn(k, h, w)
<1>3. \A y \in Y : /\ y \in Coordinates(in) /\ y[1] = 0 /\ y[4] = k
                   /\ y[2] \in Nat /\ y[2] < H /\ y[3] \in Nat /\ y[3] < W
                   /\ y = z(y[2], y[3])
  BY <1>1, ChannelPixels
<1>4. ASSUME NEW h \in Nat, h < H, NEW w \in Nat, w < W
      PROVE  z(h, w) \in Y /\ z(h, w)[2] = h /\ z(h, w)[3] = w
  <2>1. \A a, b \in Nat : (a < H /\ b < W) => /\ PixelIn(k, a, b) \in ChannelOf(in, k)
                                             /\ PixelIn(k, a, b)[2] = a /\ PixelIn(k, a, b)[3] = b
    BY <1>1, ChannelPixels
  <2>2. /\ PixelIn(k, h, w) \in ChannelOf(in, k)
        /\ PixelIn(k, h, w)[2] = h /\ PixelIn(k, h, w)[3] = w
    BY ONLY <2>1, <1>4, h \in Nat, w \in Nat
  <2> QED BY ONLY <2>2 DEF z, Y
<1>5. \A y \in Y : g[y] \in 0 .. (S - 1) /\ g[y] \div W = y[2] /\ g[y] % W = y[3]
  <2> TAKE y \in Y
  <2>1. PICK h \in Nat, w \in Nat : h = y[2] /\ w = y[3] /\ h < H /\ w < W
    BY <1>3
  <2>2. h * W + w \in Nat /\ h * W + w < H * W /\ H * W \in Nat
    BY <2>1, Place, Times
  <2>3. (h * W + w) \div W = h /\ (h * W + w) % W = w
    <3>1. W \in Nat /\ h \in Nat /\ w \in Nat /\ w < W
      BY <2>1
    <3> QED BY ONLY <3>1, DigitIs
  <2>4. g[y] = h * W + w
    BY <2>1
  <2> DEFINE e == h * W + w
  <2>5. e \in 0 .. (S - 1)
    BY <2>2
  <2> HIDE DEF e, S
  <2> QED BY <2>1, <2>3, <2>4, <2>5 DEF e
<1>6. \A p \in 0 .. (S - 1) : \E y \in Y : g[y] = p
  <2> TAKE p \in 0 .. (S - 1)
  <2>1. p \in Nat /\ p < H * W
    BY Times
  <2>2. PICK h \in Nat, w \in Nat : h < H /\ w < W /\ p = h * W + w
    <3>1. H \in Nat /\ W \in Nat /\ p \in Nat /\ p < H * W
      BY <2>1
    <3>2. p \div W \in Nat /\ p \div W < H /\ p % W \in Nat /\ p % W < W /\ p = (p \div W) * W + (p % W)
      BY ONLY <3>1, Digits
    <3> QED BY ONLY <3>2
  <2>3. z(h, w) \in Y /\ z(h, w)[2] = h /\ z(h, w)[3] = w
    BY <1>4, <2>2
  <2> HIDE DEF z, Y
  <2> QED BY <2>2, <2>3
<1> HIDE DEF Y, z
<1>7. Cardinality(Y) = S
  <2>1. S \in Nat
    BY Times
  <2> HIDE DEF S
  <2>2. IsFiniteSet(0 .. (S - 1)) /\ Cardinality(0 .. (S - 1)) = S
    <3>1. 0 \in Int /\ S - 1 \in Int
      BY <2>1
    <3>2. /\ IsFiniteSet(0 .. (S - 1))
          /\ Cardinality(0 .. (S - 1)) = IF 0 > S - 1 THEN 0 ELSE S - 1 - 0 + 1
      BY ONLY <3>1, FS_Interval
    <3> DEFINE e == Cardinality(0 .. (S - 1))
    <3>3. e = IF 0 > S - 1 THEN 0 ELSE S - 1 - 0 + 1
      BY <3>2
    <3> HIDE DEF e
    <3>4. e = S
      BY <2>1, <3>3
    <3> QED BY <3>2, <3>4 DEF e
  <2>3. g \in [Y -> 0 .. (S - 1)]
    <3>1. g = [y \in Y |-> g[y]]
      OBVIOUS
    <3> HIDE DEF g
    <3> QED BY <1>5, <3>1
  <2> HIDE DEF g
  <2>4. \A y, u \in Y : g[y] = g[u] => y = u
    <3> TAKE y, u \in Y
    <3> HAVE g[y] = g[u]
    <3>1. y[2] = u[2] /\ y[3] = u[3]
      BY <1>5
    <3>2. y = z(y[2], y[3]) /\ u = z(u[2], u[3])
      BY <1>3
    <3> QED BY <3>1, <3>2
  <2>5. Cardinality(Y) = Cardinality(0 .. (S - 1))
    BY ONLY <1>6, <2>2, <2>3, <2>4, SameCount
  <2> QED BY <2>2, <2>5
<1>8. \A y \in Y : Flat(y, in) = g[y] * C + k
  <2> TAKE y \in Y
  <2>1. Flat(y, in) = At(y[2], y[3], y[4], in[3], in[4])
    BY <1>3, ImageFlat
  <2> QED BY <1>1, <1>3, <2>1 DEF At
<1> HIDE DEF g
<1>9. {Flat(y, in) : y \in Y} = {p * C + k : p \in 0 .. (S - 1)}
  <2>1. \A y \in Y : g[y] \in 0 .. (S - 1)
    BY <1>5
  <2> HIDE DEF S
  <2>2. \A p \in 0 .. (S - 1) : \E y \in Y : g[y] = p
    BY <1>6
  <2> DEFINE F(y) == Flat(y, in)
             G(p) == p * C + k
  <2>3. \A y \in Y : F(y) = G(g[y])
    BY <1>8
  <2> HIDE DEF F, G
  <2>4. {F(y) : y \in Y} = {G(p) : p \in 0 .. (S - 1)}
    BY <2>1, <2>2, <2>3
  <2> QED BY <2>4 DEF F, G
<1> QED BY <1>1, <1>7, <1>9 DEF ChannelAt, Y

\* MEAN and REDUCE_MAX over the image
Reduced(in, out, mean) ==
    Tensor(out, LAMBDA c :
        LET pos == {y \in Coords(in) : y[1] = c[1] /\ y[4] = c[Len(c)]} IN
        Term({<<Elem(1, y, in)>> : y \in pos}, IF mean THEN Cardinality(pos) ELSE 1))
Averaged(S, C, k, mean) == Reading({p * C + k : p \in 0 .. (S - 1)}, IF mean THEN S ELSE 1)
Reduces(in, out) ==
    /\ in \in Seq(Nat) /\ Len(in) = 4 /\ in[1] = 1
    /\ out \in Seq(Nat) /\ Len(out) >= 1 /\ out[1] = 1 /\ out[Len(out)] = in[4] /\ Count(out) = in[4]

\* What a reduction over the image means, channel by channel.
LEMMA ReducedIs ==
    ASSUME NEW in, NEW out, Reduces(in, out), Len(out) > 1, NEW mean
    PROVE  Reduced(in, out, mean) = [k \in 0 .. (in[4] - 1) |-> Averaged(in[2] * in[3], in[4], k, mean)]
<1> DEFINE r == Len(out)
           C == in[4]
           S == in[2] * in[3]
           P(c) == {y \in Coords(in) : y[1] = c[1] /\ y[4] = c[Len(c)]}
           V(c) == Term({<< <<1, Flat(y, in)>> >> : y \in P(c)}, IF mean THEN Cardinality(P(c)) ELSE 1)
<1>1. in \in Seq(Nat) /\ Len(in) = 4 /\ in[1] = 1 /\ out \in Seq(Nat) /\ r \in Nat /\ r > 1
      /\ out[1] = 1 /\ out[r] = C /\ Count(out) = C
  BY DEF Reduces
<1>2. Range(Offsets(out)) = Cells(out)
  BY <1>1, TensorAt
<1>3. Reduced(in, out, mean) = [k \in Range(Offsets(out)) |-> V(CoordAt(out, k))]
  BY DEF Reduced, Elem, Tensor, Offsets, CoordAt
<1>4. C \in Nat
  BY <1>1
<1>5. Cells(out) = 0 .. (C - 1)
  BY <1>1 DEF Cells
<1> HIDE DEF r, C
<1>6. ASSUME NEW k \in 0 .. (C - 1) PROVE V(CoordAt(out, k)) = Averaged(S, C, k, mean)
  <2> DEFINE c == CoordAt(out, k)
             b == c[r]
  <2>1. c \in Coordinates(out)
    BY <1>1, <1>5, TensorAt
  <2>2. b = k % C
    BY <1>1, <1>5, LastAxis DEF r
  <2>3. c[1] = 0 /\ Len(c) = r
    <3>1. 1 \in DOMAIN out /\ DOMAIN out = 1 .. r
      BY <1>1 DEF r
    <3>2. c[1] \in Nat /\ c[1] < 1
      BY <1>1, <2>1, <3>1, CoordTyped
    <3>3. c \in [1 .. r -> Nat]
      BY <2>1, <3>1 DEF Coordinates
    <3> HIDE DEF c
    <3> QED BY <1>1, <3>2, <3>3
  <2>4. k \in Nat /\ k < C
    BY <1>4
  <2>5. k % C = k
    BY <1>4, <2>4
  <2> HIDE DEF c
  <2>6. P(c) = ChannelOf(in, k)
    BY <2>2, <2>3, <2>5 DEF ChannelOf
  <2>7. ChannelAt(in, k)
    BY <1>1, <2>4, ChannelIs DEF C
  <2>8. {Flat(y, in) : y \in P(c)} = {p * C + k : p \in 0 .. (S - 1)} /\ Cardinality(P(c)) = S
    BY <2>6, <2>7 DEF ChannelAt, C
  <2> HIDE DEF P, S
  <2> DEFINE F == {Flat(y, in) : y \in P(c)}
             G == {p * C + k : p \in 0 .. (S - 1)}
  <2>9. {<< <<1, Flat(y, in)>> >> : y \in P(c)} = {<< <<1, v>> >> : v \in F}
    OBVIOUS
  <2>10. V(c) = Term({<< <<1, v>> >> : v \in F}, IF mean THEN S ELSE 1)
    BY <2>8, <2>9
  <2>11. F = G
    BY <2>8
  <2> HIDE DEF F, V
  <2> QED BY <2>10, <2>11 DEF Averaged, Reading, c, G
<1> HIDE DEF V, S
<1>7. Reduced(in, out, mean) = [k \in 0 .. (C - 1) |-> Averaged(S, C, k, mean)]
  BY <1>2, <1>3, <1>5, <1>6
<1> QED BY <1>7 DEF C, S

\* The NPU's reduction over staged planes is the host's over the image.
LEMMA ReducePlanes ==
    ASSUME NEW S \in Nat, NEW C \in Nat, NEW mean
    PROVE  Through(rocket_globalpool_fp16(C, S, mean), 1, ChwOf(S, C))
             = [k \in 0 .. (C - 1) |-> Averaged(S, C, k, mean)]
<1> DEFINE f == rocket_globalpool_fp16(C, S, mean)
           stages == ChwOf(S, C)
           g == Through(f, 1, stages)
           by == IF mean THEN S ELSE 1
           offs(c) == {c * S + p : p \in 0 .. (S - 1)}
           U == S * C
<1>1. f = [c \in 0 .. (C - 1) |-> Reading(offs(c), by)]
  <2>1. \A c : {<< <<1, c * S + p>> >> : p \in 0 .. (S - 1)} = {<< <<1, v>> >> : v \in offs(c)}
    OBVIOUS
  <2> QED BY <2>1 DEF rocket_globalpool_fp16, Reading
<1>2. ASSUME NEW c \in 0 .. (C - 1), NEW p \in 0 .. (S - 1)
      PROVE  c * S + p \in DOMAIN stages /\ stages[c * S + p] = p * C + c
  <2> DEFINE m == c * S + p
  <2>1. c \in Nat /\ c < C /\ p \in Nat /\ p < S
    OBVIOUS
  <2>2. m \in Nat /\ m < C * S
    BY <2>1, Place
  <2>3. m \div S = c /\ m % S = p
    BY ONLY <2>1, S \in Nat, DigitIs
  <2>4. U = C * S /\ U \in Nat
    BY Times
  <2> HIDE DEF m, U
  <2>5. m \in 0 .. (U - 1)
    BY <2>2, <2>4
  <2>6. m \in DOMAIN stages /\ stages[m] = (m % S) * C + (m \div S)
    BY <2>5 DEF ChwOf, U
  <2> QED BY <2>3, <2>6 DEF m
<1>3. g = [c \in 0 .. (C - 1) |-> g[c]]
  <2>1. DOMAIN f = 0 .. (C - 1)
    BY <1>1
  <2> HIDE DEF f, stages
  <2> QED BY <2>1 DEF Through
<1> HIDE DEF stages, g, f
<1>4. ASSUME NEW c \in 0 .. (C - 1) PROVE g[c] = Averaged(S, C, c, mean)
  <2> DEFINE D == offs(c)
  <2>1. D \subseteq DOMAIN stages
    BY <1>2
  <2>2. {stages[off] : off \in D} = {p * C + c : p \in 0 .. (S - 1)}
    <3>1. \A p \in 0 .. (S - 1) : stages[c * S + p] = p * C + c
      BY <1>2
    <3> QED BY <3>1
  <2>3. c \in DOMAIN f /\ f[c] = Reading(D, by)
    BY <1>1
  <2> HIDE DEF D, by
  <2>4. Through(f, 1, stages)[c] = Reading({stages[off] : off \in D}, by)
    BY <2>1, <2>3, StagedReading
  <2> QED BY <2>2, <2>4 DEF Averaged, g, by
<1>5. g = [c \in 0 .. (C - 1) |-> Averaged(S, C, c, mean)]
  BY <1>3, <1>4
<1> QED BY <1>5 DEF g, f, stages

\* MEAN and REDUCE_MAX over the image, of a batch of one
LEMMA ReduceAnswers ==
    ASSUME NEW n, NEW buf, Sound(n, buf), n.op = "reduce", analyze_reduce(n), buf.ins[1][1] = 1,
           NEW board, eval_reduce(n, Capture(n), buf, board).ok
    PROVE  Means(n, eval_reduce(n, Capture(n), buf, board), buf.ins)
<1> DEFINE x0 == Capture(n)
           in == buf.ins[1]
           own == n.ins[1]
           mean == n.p.mean
           o == Count(buf.outs[1])
           out == IF n.p.keep THEN <<in[1], 1, 1, in[4]>> ELSE <<in[1], in[4]>>
           bad == \/ Len(in) # 4 \/ <<in[2], in[3], in[4]>> # <<own[2], own[3], own[4]>>
                  \/ o # own[4]
           npu == board /\ n.type = "float"
           planes == Through(rocket_globalpool_fp16(own[4], own[2] * own[3], mean), 1,
                             ChwOf(own[2] * own[3], own[4]))
           host == rocket_reduce_spatial(own[2], own[3], own[4], mean)
           a == eval_reduce(n, x0, buf, board)
           T == Reduced(in, out, mean)
<1>1. x0.H = own[2] /\ x0.W = own[3] /\ x0.C = own[4]
  BY DEF Capture
<1>2. a = IF bad THEN Fails(<< >>) ELSE IF npu THEN Answer(<<planes>>, TRUE) ELSE Answer(<<host>>, FALSE)
  <2> HIDE DEF own, x0, mean
  <2> QED BY <1>1 DEF eval_reduce, mean
<1>3. ~bad /\ a.outs = <<IF npu THEN planes ELSE host>>
  <2>1. bad \in BOOLEAN /\ a.ok
    OBVIOUS
  <2> HIDE DEF bad, planes, host, npu, a
  <2> QED BY <1>2, <2>1 DEF Fails, Answer
<1>4. in[2] = own[2] /\ in[3] = own[3] /\ in[4] = own[4] /\ Len(in) = 4
  BY <1>3
<1>5. in \in Seq(Nat)
  BY InsTyped DEF Sound
<1>6. in[1] = 1 /\ in[2] \in Nat /\ in[3] \in Nat /\ in[4] \in Nat
  <2>1. DOMAIN in = 1 .. 4 /\ \A d \in 1 .. 4 : in[d] \in Nat
    BY <1>4, <1>5, ShapeDomain
  <2> QED BY ONLY <2>1, buf.ins[1][1] = 1
<1> HIDE DEF in
<1>7. out \in Seq(Nat) /\ Len(out) > 1 /\ out[1] = 1 /\ out[Len(out)] = in[4] /\ Count(out) = in[4]
  <2>1. CASE n.p.keep
    <3> DEFINE q == <<in[1], 1, 1, in[4]>>
    <3>1. q \in Seq(Nat) /\ Len(q) = 4 /\ q[1] = 1 /\ q[2] = 1 /\ q[3] = 1 /\ q[4] = in[4]
      BY <1>6
    <3>2. out = q
      BY <2>1
    <3> HIDE DEF q, out
    <3>3. Count(q) = q[1] * (q[2] * (q[3] * q[4]))
      BY <3>1, CountImage
    <3>4. PICK e \in Nat : e = in[4]
      BY <1>6
    <3>5. 1 * (1 * (1 * e)) = e
      OBVIOUS
    <3>6. Count(q) = e
      BY ONLY <3>1, <3>3, <3>4, <3>5
    <3>7. q \in Seq(Nat) /\ Len(q) > 1 /\ q[1] = 1 /\ q[Len(q)] = in[4] /\ Count(q) = in[4]
      BY ONLY <3>1, <3>4, <3>6
    <3> QED BY ONLY <3>2, <3>7
  <2>2. CASE ~n.p.keep
    <3> DEFINE q == <<in[1], in[4]>>
    <3>1. q \in Seq(Nat) /\ Len(q) = 2 /\ q[1] = 1 /\ q[2] = in[4]
      BY <1>6
    <3>2. out = q
      BY <2>2
    <3> HIDE DEF q, out
    <3>3. Count(q) = q[1] * q[2]
      BY <3>1, CountMatrix
    <3>4. PICK e \in Nat : e = in[4]
      BY <1>6
    <3>5. 1 * e = e
      OBVIOUS
    <3>6. Count(q) = e
      BY ONLY <3>1, <3>3, <3>4, <3>5
    <3>7. q \in Seq(Nat) /\ Len(q) > 1 /\ q[1] = 1 /\ q[Len(q)] = in[4] /\ Count(q) = in[4]
      BY ONLY <3>1, <3>4, <3>6
    <3> QED BY ONLY <3>2, <3>7
  <2> QED BY <2>1, <2>2
<1> HIDE DEF own, out, mean
<1>8. Reduces(in, out)
  BY <1>4, <1>5, <1>6, <1>7 DEF Reduces
<1> DEFINE A == [k \in 0 .. (in[4] - 1) |-> Averaged(in[2] * in[3], in[4], k, mean)]
<1>9. T = A
  BY <1>7, <1>8, ReducedIs
<1>10. host = A
  <2>1. \A k : {<< <<1, p * in[4] + k>> >> : p \in 0 .. (in[2] * in[3] - 1)}
                 = {<< <<1, v>> >> : v \in {p * in[4] + k : p \in 0 .. (in[2] * in[3] - 1)}}
    OBVIOUS
  <2>2. host = rocket_reduce_spatial(in[2], in[3], in[4], mean)
    BY <1>4
  <2> HIDE DEF host
  <2> QED BY <2>1, <2>2 DEF rocket_reduce_spatial, Averaged, Reading
<1>11. planes = A
  <2>1. PICK S \in Nat : S = in[2] * in[3]
    BY <1>6, Times
  <2> DEFINE C == in[4]
  <2> HIDE DEF C
  <2>2. C \in Nat
    BY <1>6 DEF C
  <2>3. Through(rocket_globalpool_fp16(C, S, mean), 1, ChwOf(S, C))
          = [k \in 0 .. (C - 1) |-> Averaged(S, C, k, mean)]
    BY <2>2, ReducePlanes
  <2> QED BY <1>4, <2>1, <2>3 DEF C
<1>12. Outputs("reduce", n.p, buf.ins) = <<T>>
  <2>1. Shapes("reduce", n.p, buf.ins) = <<out>>
    BY DEF Shapes, out, in
  <2> DEFINE sh == Shapes("reduce", n.p, buf.ins)
  <2>2. sh[1] = out
    BY <2>1
  <2>3. Outputs("reduce", n.p, buf.ins) = <<Reduced(buf.ins[1], sh[1], n.p.mean)>>
    BY DEF Outputs, Reduced
  <2> HIDE DEF sh
  <2> QED BY <2>2, <2>3 DEF in, mean
<1>13. Valid("reduce", n.p, buf.ins)
  BY DEF Valid
<1> HIDE DEF host, planes, npu, T, a, A
<1> QED BY <1>3, <1>9, <1>10, <1>11, <1>12, <1>13 DEF Means, a

-----------------------------------------------------------------------------
(* FULLY_CONNECTED.                                                        *)

\* The offset of a coordinate of a matrix
LEMMA MatrixFlat ==
    ASSUME NEW dims \in Seq(Nat), Len(dims) = 2, NEW c \in Coordinates(dims)
    PROVE  /\ c[1] \in Nat /\ c[2] \in Nat /\ dims[1] \in Nat /\ dims[2] \in Nat
           /\ c[1] < dims[1] /\ c[2] < dims[2] /\ Flat(c, dims) = c[1] * dims[2] + c[2]
<1>1. DOMAIN dims = 1 .. 2 /\ \A d \in 1 .. 2 : c[d] \in Nat /\ dims[d] \in Nat /\ c[d] < dims[d]
  BY CoordTyped, ShapeDomain
<1>2. c[1] \in Nat /\ c[2] \in Nat /\ dims[1] \in Nat /\ dims[2] \in Nat /\ c[1] < dims[1] /\ c[2] < dims[2]
  BY ONLY <1>1
<1> DEFINE T(k) == Top(c, dims, k)
<1>3. T(0) = 0 /\ \A k \in 1 .. 2 : T(k) = T(k - 1) * dims[k] + c[k]
  BY TopStep
<1>4. Flat(c, dims) = T(2) * Weight(dims, 3) + Rest(c, dims, 3)
  <2>1. Len(dims) = 2 /\ 2 \in 0 .. 2 /\ 2 + 1 = 3
    OBVIOUS
  <2>2. \A k \in 0 .. 2 : Flat(c, dims) = T(k) * Weight(dims, k + 1) + Rest(c, dims, k + 1)
    BY FlatSplit
  <2> HIDE DEF T
  <2> QED BY ONLY <2>1, <2>2
<1>5. Weight(dims, 3) = 1 /\ Rest(c, dims, 3) = 0
  <2>1. Weight(dims, Len(dims) + 1) = 1 /\ Rest(c, dims, Len(dims) + 1) = 0
    BY Tails
  <2>2. Len(dims) + 1 = 3
    OBVIOUS
  <2> QED BY ONLY <2>1, <2>2
<1> HIDE DEF T
<1>6. PICK a \in Nat, b \in Nat, m \in Nat, e \in Nat : a = c[1] /\ b = c[2] /\ m = dims[1] /\ e = dims[2]
  BY <1>2
<1>7. T(1) = 0 * m + a /\ T(2) = T(1) * e + b
  <2>1. 1 \in 1 .. 2 /\ 2 \in 1 .. 2 /\ 1 - 1 = 0 /\ 2 - 1 = 1
    OBVIOUS
  <2> QED BY ONLY <1>3, <1>6, <2>1
<1>8. T(1) = a
  BY ONLY <1>7, a \in Nat, m \in Nat
<1>9. T(2) = a * e + b /\ T(2) \in Nat
  <2>1. a * e \in Nat
    BY Times
  <2>2. T(2) = a * e + b
    BY ONLY <1>7, <1>8
  <2> QED BY ONLY <2>1, <2>2, b \in Nat
<1>10. Flat(c, dims) = T(2)
  BY ONLY <1>4, <1>5, <1>9
<1> QED BY <1>2, <1>6, <1>9, <1>10

\* The product of a row and a column
Products(a, b, K) == Term({<< <<1, a * K + i>>, <<2, b * K + i>> >> : i \in 0 .. (K - 1)}, 1)
Multiplied(M, K, N) == [k \in 0 .. (M * N - 1) |-> Products(k \div N, k % N, K)]

\* The loops over a matrix
MatrixOf(M, N) == (0 .. (M - 1)) \X (0 .. (N - 1))
MatrixAt(M, N, k) ==
    /\ <<k \div N, k % N>> \in MatrixOf(M, N)
    /\ (CHOOSE q \in MatrixOf(M, N) : q[1] * N + q[2] = k) = <<k \div N, k % N>>

\* The loops over a matrix come to each offset exactly once.
LEMMA MatrixIs ==
    ASSUME NEW M \in Nat, NEW N \in Nat
    PROVE  /\ {q[1] * N + q[2] : q \in MatrixOf(M, N)} = 0 .. (M * N - 1)
           /\ \A k \in 0 .. (M * N - 1) : MatrixAt(M, N, k)
<1> DEFINE Q == MatrixOf(M, N)
           dst(q) == q[1] * N + q[2]
           V == M * N
           at(k) == <<k \div N, k % N>>
<1>1. \A q \in Q : /\ q[1] \in Nat /\ q[2] \in Nat /\ q[1] < M /\ q[2] < N /\ q = <<q[1], q[2]>>
  BY DEF MatrixOf
<1>2. V \in Nat
  BY Times
<1>3. ASSUME NEW q \in Q PROVE dst(q) \in 0 .. (V - 1) /\ at(dst(q)) = q
  <2>1. PICK a \in Nat, b \in Nat : a = q[1] /\ b = q[2] /\ a < M /\ b < N
    BY <1>1
  <2>2. a * N + b \in Nat /\ a * N + b < M * N
    BY <2>1, Place
  <2>3. (a * N + b) \div N = a /\ (a * N + b) % N = b
    <3>1. N \in Nat /\ a \in Nat /\ b \in Nat /\ b < N
      BY <2>1
    <3> QED BY ONLY <3>1, DigitIs
  <2>4. dst(q) = a * N + b /\ q = <<a, b>>
    BY <1>1, <2>1
  <2>5. at(a * N + b) = <<a, b>>
    BY <2>3
  <2>6. a * N + b \in 0 .. (V - 1)
    <3> DEFINE e == a * N + b
    <3>1. e \in Nat /\ e < V
      BY <2>2
    <3> HIDE DEF e, V
    <3>2. e \in 0 .. (V - 1)
      BY <1>2, <3>1
    <3> QED BY <3>2 DEF e
  <2> HIDE DEF dst, at, V
  <2> QED BY <2>4, <2>5, <2>6
<1>4. ASSUME NEW k \in 0 .. (V - 1) PROVE at(k) \in Q /\ dst(at(k)) = k
  <2>1. k \in Nat /\ k < M * N
    <3> HIDE DEF V
    <3>1. k \in Nat /\ k < V
      BY <1>2
    <3> QED BY <3>1 DEF V
  <2>2. PICK a \in Nat, b \in Nat : a = k \div N /\ b = k % N /\ a < M /\ b < N /\ k = a * N + b
    BY <2>1, Digits
  <2>3. at(k) = <<a, b>> /\ <<a, b>>[1] = a /\ <<a, b>>[2] = b /\ <<a, b>> \in Q
    BY <2>2 DEF MatrixOf
  <2> HIDE DEF at
  <2> QED BY <2>2, <2>3
<1> HIDE DEF Q, dst, V, at
<1>5. {dst(q) : q \in Q} = 0 .. (V - 1)
  BY <1>3, <1>4
<1>6. ASSUME NEW k \in 0 .. (V - 1) PROVE (CHOOSE q \in Q : dst(q) = k) = at(k)
  BY <1>3, <1>4
<1> QED BY <1>4, <1>5, <1>6 DEF Q, dst, V, at, MatrixAt

\* The host's matrix product, element by element.
LEMMA FcHost ==
    ASSUME NEW M \in Nat, NEW N \in Nat, NEW K
    PROVE  rocket_fc_f(M, K, N) = Multiplied(M, K, N)
<1> DEFINE Q == MatrixOf(M, N)
           D == {q[1] * N + q[2] : q \in Q}
           V == M * N
           from(k) == CHOOSE q \in Q : q[1] * N + q[2] = k
<1>1. rocket_fc_f(M, K, N) = [k \in D |-> Products(from(k)[1], from(k)[2], K)]
  BY DEF rocket_fc_f, Scatter, MatrixOf, Products
<1>2. D = 0 .. (V - 1) /\ \A k \in 0 .. (V - 1) : from(k) = <<k \div N, k % N>>
  BY MatrixIs DEF MatrixAt
<1> HIDE DEF D, V, from
<1>3. \A k \in 0 .. (V - 1) : from(k)[1] = k \div N /\ from(k)[2] = k % N
  BY <1>2
<1>4. rocket_fc_f(M, K, N) = [k \in 0 .. (V - 1) |-> Products(k \div N, k % N, K)]
  BY <1>1, <1>2, <1>3
<1> QED BY <1>4 DEF Multiplied, V

\* Pairs of an element of each operand, taken together
PairsAt(f, m, I, u, v) == m \in DOMAIN f /\ f[m] = Term({<< <<1, u[i]>>, <<2, v[i]>> >> : i \in I}, 1)

\* Either operand staged, the pairs that have a place in the stage are the ones that remain.
LEMMA PairsFirst ==
    ASSUME NEW f, NEW m, NEW I, NEW u, NEW v, NEW stages, PairsAt(f, m, I, u, v), NEW J,
           J = {i \in I : u[i] \in DOMAIN stages}
    PROVE  PairsAt(Through(f, 1, stages), m, J, [i \in J |-> stages[u[i]]], v)
<1> DEFINE to(t) == [i \in DOMAIN t |-> IF t[i][1] = 1 THEN <<1, stages[t[i][2]]>> ELSE t[i]]
           keeps(t) == \A i \in DOMAIN t : t[i][1] = 1 => t[i][2] \in DOMAIN stages
           kept == {t \in f[m].taps : keeps(t)}
           w == [i \in J |-> stages[u[i]]]
           p(i) == << <<1, u[i]>>, <<2, v[i]>> >>
           q(i) == << <<1, w[i]>>, <<2, v[i]>> >>
<1>1. m \in DOMAIN Through(f, 1, stages) /\ Through(f, 1, stages)[m] = Term({to(t) : t \in kept}, f[m].by)
  BY DEF Through, PairsAt
<1>2. f[m].taps = {p(i) : i \in I} /\ f[m].by = 1
  BY DEF Term, PairsAt
<1>3. ASSUME NEW i \in I
      PROVE  DOMAIN p(i) = {1, 2} /\ p(i)[1] = <<1, u[i]>> /\ p(i)[2] = <<2, v[i]>>
  OBVIOUS
<1>4. ASSUME NEW i \in I PROVE keeps(p(i)) <=> u[i] \in DOMAIN stages
  <2> HIDE DEF p
  <2>1. p(i)[1][1] = 1 /\ p(i)[1][2] = u[i] /\ p(i)[2][1] # 1
    BY <1>3
  <2> QED BY <1>3, <2>1
<1>5. ASSUME NEW i \in J PROVE to(p(i)) = q(i)
  <2>1. to(p(i)) = [j \in {1, 2} |-> IF p(i)[j][1] = 1 THEN <<1, stages[p(i)[j][2]]>> ELSE p(i)[j]]
    BY <1>3
  <2> HIDE DEF p
  <2>2. p(i)[1][1] = 1 /\ p(i)[1][2] = u[i] /\ p(i)[2][1] # 1
    BY <1>3
  <2>3. to(p(i))[1] = <<1, w[i]>> /\ to(p(i))[2] = <<2, v[i]>>
    BY <1>3, <2>1, <2>2
  <2>4. to(p(i)) = [j \in {1, 2} |-> to(p(i))[j]]
    BY <2>1
  <2> HIDE DEF to, w
  <2> QED BY <2>3, <2>4
<1> HIDE DEF to, keeps, p, q
<1>6. kept = {p(i) : i \in J}
  BY <1>2, <1>4
<1>7. {to(t) : t \in kept} = {q(i) : i \in J}
  BY <1>5, <1>6
<1> QED BY <1>1, <1>2, <1>7 DEF PairsAt, q

\* The same, of the second operand.
LEMMA PairsSecond ==
    ASSUME NEW f, NEW m, NEW I, NEW u, NEW v, NEW stages, PairsAt(f, m, I, u, v), NEW J,
           J = {i \in I : v[i] \in DOMAIN stages}
    PROVE  PairsAt(Through(f, 2, stages), m, J, u, [i \in J |-> stages[v[i]]])
<1> DEFINE to(t) == [i \in DOMAIN t |-> IF t[i][1] = 2 THEN <<2, stages[t[i][2]]>> ELSE t[i]]
           keeps(t) == \A i \in DOMAIN t : t[i][1] = 2 => t[i][2] \in DOMAIN stages
           kept == {t \in f[m].taps : keeps(t)}
           w == [i \in J |-> stages[v[i]]]
           p(i) == << <<1, u[i]>>, <<2, v[i]>> >>
           q(i) == << <<1, u[i]>>, <<2, w[i]>> >>
<1>1. m \in DOMAIN Through(f, 2, stages) /\ Through(f, 2, stages)[m] = Term({to(t) : t \in kept}, f[m].by)
  BY DEF Through, PairsAt
<1>2. f[m].taps = {p(i) : i \in I} /\ f[m].by = 1
  BY DEF Term, PairsAt
<1>3. ASSUME NEW i \in I
      PROVE  DOMAIN p(i) = {1, 2} /\ p(i)[1] = <<1, u[i]>> /\ p(i)[2] = <<2, v[i]>>
  OBVIOUS
<1>4. ASSUME NEW i \in I PROVE keeps(p(i)) <=> v[i] \in DOMAIN stages
  <2> HIDE DEF p
  <2>1. p(i)[2][1] = 2 /\ p(i)[2][2] = v[i] /\ p(i)[1][1] # 2
    BY <1>3
  <2> QED BY <1>3, <2>1
<1>5. ASSUME NEW i \in J PROVE to(p(i)) = q(i)
  <2>1. to(p(i)) = [j \in {1, 2} |-> IF p(i)[j][1] = 2 THEN <<2, stages[p(i)[j][2]]>> ELSE p(i)[j]]
    BY <1>3
  <2> HIDE DEF p
  <2>2. p(i)[2][1] = 2 /\ p(i)[2][2] = v[i] /\ p(i)[1][1] # 2
    BY <1>3
  <2>3. to(p(i))[1] = <<1, u[i]>> /\ to(p(i))[2] = <<2, w[i]>>
    BY <1>3, <2>1, <2>2
  <2>4. to(p(i)) = [j \in {1, 2} |-> to(p(i))[j]]
    BY <2>1
  <2> HIDE DEF to, w
  <2> QED BY <2>3, <2>4
<1> HIDE DEF to, keeps, p, q
<1>6. kept = {p(i) : i \in J}
  BY <1>2, <1>4
<1>7. {to(t) : t \in kept} = {q(i) : i \in J}
  BY <1>5, <1>6
<1> QED BY <1>1, <1>2, <1>7 DEF PairsAt, q

\* Rows of K elements in rows of P hold an element's place in the operand, and no more.
LEMMA PaddedAt ==
    ASSUME NEW R \in Nat, NEW K \in Nat, NEW P \in Nat, K <= P, NEW a \in Nat, a < R, NEW i \in 0 .. (P - 1)
    PROVE  /\ a * P + i \in DOMAIN Padded(R, K, P) <=> i < K
           /\ i < K => Padded(R, K, P)[a * P + i] = a * K + i
<1> DEFINE D == {r * P + c : r \in 0 .. (R - 1), c \in 0 .. (K - 1)}
           k == a * P + i
<1>1. Padded(R, K, P) = [m \in D |-> (m \div P) * K + (m % P)]
  BY DEF Padded
<1>2. i \in Nat /\ i < P /\ k \div P = a /\ k % P = i
  <2>1. i \in Nat /\ i < P
    OBVIOUS
  <2> QED BY <2>1, DigitIs
<1>3. i < K => k \in D
  BY <1>2
<1>4. k \in D => i < K
  <2> SUFFICES ASSUME k \in D PROVE i < K
    OBVIOUS
  <2>1. PICK r \in 0 .. (R - 1), c \in 0 .. (K - 1) : k = r * P + c
    OBVIOUS
  <2>2. r \in Nat /\ c \in Nat /\ c < P /\ c < K
    OBVIOUS
  <2>3. (r * P + c) % P = c
    BY ONLY <2>2, P \in Nat, DigitIs
  <2> HIDE DEF k
  <2> QED BY <1>2, <2>1, <2>2, <2>3
<1> HIDE DEF D, k
<1>5. i < K => Padded(R, K, P)[k] = a * K + i
  BY <1>1, <1>2, <1>3
<1>6. DOMAIN Padded(R, K, P) = D
  BY <1>1
<1> QED BY <1>3, <1>4, <1>5, <1>6 DEF k

\* The matmul of the NPU, wider on every side, and what is taken out of it
LEMMA FcPadded ==
    ASSUME NEW M \in Nat, NEW K \in Nat, NEW N \in Nat, NEW P \in Nat, K <= P, NEW S \in Nat, N <= S
    PROVE  Unpadded(Through(Through(rocket_fc_f(M, P, S), 1, Padded(M, K, P)), 2, Padded(N, K, P)), M, N, S)
             = Multiplied(M, K, N)
<1> DEFINE f == rocket_fc_f(M, P, S)
           s1 == Padded(M, K, P)
           s2 == Padded(N, K, P)
           g == Through(f, 1, s1)
           h == Through(g, 2, s2)
           V == M * N
<1>1. Unpadded(h, M, N, S) = [k \in 0 .. (V - 1) |-> h[(k \div N) * S + (k % N)]]
  BY DEF Unpadded
<1>2. f = Multiplied(M, P, S)
  BY FcHost
<1> HIDE DEF f, s1, s2, g, h, V
<1>3. ASSUME NEW a \in Nat, a < M, NEW b \in Nat, b < N PROVE h[a * S + b] = Products(a, b, K)
  <2> DEFINE I == 0 .. (P - 1)
             J == 0 .. (K - 1)
             u == [i \in I |-> a * P + i]
             v == [i \in I |-> b * P + i]
             m == a * S + b
  <2>1. m \in 0 .. (M * S - 1) /\ m \div S = a /\ m % S = b
    <3>1. b < S /\ b \in Nat /\ a \in Nat /\ S \in Nat
      BY <1>3
    <3>2. m \in Nat /\ m < M * S
      BY <1>3, <3>1, Place
    <3>3. m \div S = a /\ m % S = b
      BY ONLY <3>1, DigitIs
    <3>4. PICK e \in Nat : e = M * S
      BY Times
    <3> HIDE DEF m
    <3>5. m \in 0 .. (e - 1)
      BY <3>2, <3>4
    <3> QED BY <3>3, <3>4, <3>5
  <2>2. PairsAt(f, m, I, u, v)
    <3>1. m \in DOMAIN f /\ f[m] = Products(a, b, P)
      <4> HIDE DEF m
      <4> QED BY <1>2, <2>1 DEF Multiplied
    <3>2. Products(a, b, P) = Term({<< <<1, u[i]>>, <<2, v[i]>> >> : i \in I}, 1)
      <4>1. \A i \in I : u[i] = a * P + i /\ v[i] = b * P + i
        OBVIOUS
      <4> HIDE DEF u, v
      <4>2. {<< <<1, a * P + i>>, <<2, b * P + i>> >> : i \in I} = {<< <<1, u[i]>>, <<2, v[i]>> >> : i \in I}
        BY <4>1
      <4> QED BY <4>2 DEF Products
    <3> HIDE DEF m, u, v, I
    <3> QED BY <3>1, <3>2 DEF PairsAt
  <2>3. /\ \A i \in I : u[i] \in DOMAIN s1 <=> i < K
        /\ \A i \in I : v[i] \in DOMAIN s2 <=> i < K
        /\ \A i \in J : i \in I /\ s1[u[i]] = a * K + i /\ s2[v[i]] = b * K + i
    <3>1. ASSUME NEW i \in I
          PROVE  /\ u[i] \in DOMAIN s1 <=> i < K
                 /\ v[i] \in DOMAIN s2 <=> i < K
                 /\ i < K => s1[u[i]] = a * K + i /\ s2[v[i]] = b * K + i
      <4>1. u[i] = a * P + i /\ v[i] = b * P + i
        OBVIOUS
      <4>2. /\ a * P + i \in DOMAIN s1 <=> i < K
            /\ i < K => s1[a * P + i] = a * K + i
        BY <1>3, PaddedAt DEF s1
      <4>3. /\ b * P + i \in DOMAIN s2 <=> i < K
            /\ i < K => s2[b * P + i] = b * K + i
        BY <1>3, PaddedAt DEF s2
      <4> HIDE DEF u, v
      <4> QED BY <4>1, <4>2, <4>3
    <3>2. \A i \in J : i \in I /\ i < K
      OBVIOUS
    <3> HIDE DEF u, v, I, J
    <3> QED BY <3>1, <3>2
  <2>4. J = {i \in I : i < K} /\ J = {i \in J : i < K}
    OBVIOUS
  <2> HIDE DEF I, J, u, v, m
  <2>5. J = {i \in I : u[i] \in DOMAIN s1}
    BY <2>3, <2>4
  <2> DEFINE y == [i \in J |-> s1[u[i]]]
             z == [i \in J |-> s2[v[i]]]
  <2>6. PairsAt(g, m, J, y, v)
    BY <2>2, <2>5, PairsFirst DEF g
  <2>7. J = {i \in J : v[i] \in DOMAIN s2}
    BY <2>3, <2>4
  <2> HIDE DEF y
  <2>8. PairsAt(h, m, J, y, z)
    BY <2>6, <2>7, PairsSecond DEF h
  <2>9. \A i \in J : y[i] = a * K + i /\ z[i] = b * K + i
    BY <2>3 DEF y
  <2> HIDE DEF z
  <2>10. h[m] = Term({<< <<1, y[i]>>, <<2, z[i]>> >> : i \in J}, 1)
    BY <2>8 DEF PairsAt
  <2>11. {<< <<1, y[i]>>, <<2, z[i]>> >> : i \in J} = {<< <<1, a * K + i>>, <<2, b * K + i>> >> : i \in J}
    BY <2>9
  <2> QED BY <2>10, <2>11 DEF Products, m, J
<1>4. ASSUME NEW k \in 0 .. (V - 1) PROVE h[(k \div N) * S + (k % N)] = Products(k \div N, k % N, K)
  <2>1. k \in Nat /\ k < M * N
    <3>1. V \in Nat
      BY Times DEF V
    <3>2. k \in Nat /\ k < V
      BY <3>1
    <3> QED BY <3>2 DEF V
  <2>2. PICK a \in Nat, b \in Nat : a = k \div N /\ b = k % N /\ a < M /\ b < N
    BY <2>1, Digits
  <2>3. h[a * S + b] = Products(a, b, K)
    BY <1>3, <2>2
  <2> QED BY <2>2, <2>3
<1>5. Unpadded(h, M, N, S) = [k \in 0 .. (V - 1) |-> Products(k \div N, k % N, K)]
  BY <1>1, <1>4
<1> QED BY <1>5 DEF Multiplied, V, h, g, f, s1, s2

\* What FULLY_CONNECTED means, w holding a row of K weights for each of the N outputs
Connected(w, out) ==
    Tensor(out, LAMBDA c : Term({<< <<1, c[1] * w[2] + k>>, Elem(2, <<c[2], k>>, w)>> : k \in 0 .. (w[2] - 1)}, 1))

\* What FULLY_CONNECTED means, offset by offset.
LEMMA FcMeans ==
    ASSUME NEW M \in Nat, NEW w \in Seq(Nat), Len(w) = 2, w[1] > 0
    PROVE  Connected(w, <<M, w[1]>>) = Multiplied(M, w[2], w[1])
<1> DEFINE N == w[1]
           K == w[2]
           out == <<M, N>>
           V(c) == Term({<< <<1, c[1] * K + k>>, <<2, Flat(<<c[2], k>>, w)>> >> : k \in 0 .. (K - 1)}, 1)
           U == M * N
<1>1. N \in Nat /\ K \in Nat /\ N > 0
  <2>1. DOMAIN w = 1 .. 2 /\ \A d \in 1 .. 2 : w[d] \in Nat
    BY ShapeDomain
  <2> QED BY ONLY <2>1, w[1] > 0
<1> HIDE DEF N, K
<1>2. out \in Seq(Nat) /\ Len(out) = 2 /\ out[1] = M /\ out[2] = N
  BY <1>1
<1> HIDE DEF out
<1>3. Count(out) = U
  BY <1>2, CountMatrix
<1>4. Cells(out) = 0 .. (U - 1) /\ U \in Nat
  BY <1>1, <1>3, Times DEF Cells
<1>5. Range(Offsets(out)) = Cells(out)
  BY <1>2, TensorAt
<1>6. Connected(w, out) = [k \in Range(Offsets(out)) |-> V(CoordAt(out, k))]
  BY DEF Connected, Elem, Tensor, Offsets, CoordAt, K
<1> HIDE DEF U
<1>7. ASSUME NEW k \in 0 .. (U - 1) PROVE V(CoordAt(out, k)) = Products(k \div N, k % N, K)
  <2> DEFINE c == CoordAt(out, k)
  <2>1. c \in Coordinates(out) /\ Flat(c, out) = k
    BY <1>2, <1>4, TensorAt
  <2> HIDE DEF c
  <2>2. PICK a \in Nat, b \in Nat : a = c[1] /\ b = c[2] /\ b < N /\ k = a * N + b
    BY <1>2, <2>1, MatrixFlat
  <2>3. k \div N = a /\ k % N = b
    <3>1. (a * N + b) \div N = a /\ (a * N + b) % N = b
      BY ONLY <1>1, <2>2, a \in Nat, b \in Nat, DigitIs
    <3> QED BY <2>2, <3>1
  <2>4. ASSUME NEW i \in 0 .. (K - 1) PROVE Flat(<<b, i>>, w) = b * K + i
    <3>1. <<b, i>> \in Coordinates(w)
      <4> DEFINE e == <<b, i>>
      <4>1. DOMAIN w = 1 .. 2 /\ DOMAIN e = 1 .. 2 /\ e = [d \in 1 .. 2 |-> e[d]]
        OBVIOUS
      <4>2. e[1] = b /\ e[2] = i
        OBVIOUS
      <4> HIDE DEF e
      <4>3. e[1] \in 0 .. (w[1] - 1) /\ e[2] \in 0 .. (w[2] - 1)
        BY <1>1, <2>2, <4>2 DEF N, K
      <4>4. \A d \in 1 .. 2 : e[d] \in 0 .. (w[d] - 1) /\ w[d] \in Nat
        BY <1>1, <4>3 DEF N, K
      <4>5. \A d \in 1 .. 2 : e[d] \in Nat /\ e[d] < w[d]
        BY <4>4
      <4>6. e \in [1 .. 2 -> Nat]
        BY <4>1, <4>5
      <4> QED BY <4>1, <4>4, <4>5, <4>6 DEF Coordinates, e
    <3>2. <<b, i>>[1] = b /\ <<b, i>>[2] = i
      OBVIOUS
    <3> QED BY <3>1, <3>2, MatrixFlat DEF K
  <2>5. {<< <<1, c[1] * K + i>>, <<2, Flat(<<c[2], i>>, w)>> >> : i \in 0 .. (K - 1)}
          = {<< <<1, a * K + i>>, <<2, b * K + i>> >> : i \in 0 .. (K - 1)}
    BY <2>2, <2>4
  <2> HIDE DEF V
  <2>6. V(c) = Products(a, b, K)
    BY <2>5 DEF V, Products
  <2> QED BY <2>3, <2>6 DEF c
<1> HIDE DEF V
<1>8. Connected(w, out) = [k \in 0 .. (U - 1) |-> Products(k \div N, k % N, K)]
  BY <1>4, <1>5, <1>6, <1>7
<1> QED BY <1>8 DEF Multiplied, U, N, K, out

\* FULLY_CONNECTED, at the shapes it was claimed with: the host's loop, and the NPU's
\* multiply over weights packed by Prepare
LEMMA FcAnswers ==
    ASSUME NEW n, NEW buf, Sound(n, buf), n.op = "fc", analyze_fc(n), buf.ins = n.ins,
           NEW pk, NEW board
    PROVE  Means(n, eval_fc(Capture(n), buf, pk, board), buf.ins)
<1> DEFINE x0 == Capture(n)
           a == n.ins[1]
           w == n.ins[2]
           K == w[2]
           N == w[1]
           A == Count(a)
           M == A \div K
           P == round_up(K, 32)
           S == round_up(N, 16)
           C == Through(Through(rocket_fc_f(M, P, S), 1, Padded(M, K, P)), 2, Padded(N, K, P))
           f == [k \in 0 .. (M * N - 1) |-> C[(k \div N) * S + (k % N)]]
           g == rocket_fc_f(M, K, N)
           T == Connected(w, <<M, N>>)
<1>1. x0 = [M |-> M, K |-> K, N |-> N]
  BY DEF Capture
<1>2. eval_fc(x0, buf, pk, board) = IF pk /\ board THEN Answer(<<f>>, TRUE) ELSE Answer(<<g>>, FALSE)
  <2> HIDE DEF M, N, K
  <2> QED BY <1>1 DEF eval_fc
<1>3. a \in Seq(Nat) /\ w \in Seq(Nat) /\ Len(w) = 2
  BY InsTyped DEF Sound, analyze_fc, TwoInputs
<1>4. K \in Nat /\ N \in Nat /\ K > 0 /\ N > 0 /\ A \in Nat /\ A % K = 0
  <2>1. K > 0 /\ N > 0 /\ A % K = 0
    BY DEF analyze_fc
  <2>2. K \in Nat /\ N \in Nat
    <3> HIDE DEF w
    <3>1. DOMAIN w = 1 .. 2 /\ \A d \in 1 .. 2 : w[d] \in Nat
      BY <1>3, ShapeDomain
    <3>2. w[1] \in Nat /\ w[2] \in Nat
      BY <3>1
    <3> QED BY <3>2
  <2> HIDE DEF M, N, K, a
  <2> QED BY <1>3, <2>1, <2>2, CountNat
<1> HIDE DEF A
<1>5. M \in Nat
  <2> HIDE DEF K
  <2>1. M \in Nat /\ M * K = A
    BY <1>4, Multiple
  <2> QED BY <2>1
<1>6. P \in Nat /\ K <= P /\ S \in Nat /\ N <= S
  <2>1. ASSUME NEW v \in Nat PROVE round_up(v, 32) \in Nat /\ v <= round_up(v, 32)
                                   /\ round_up(v, 16) \in Nat /\ v <= round_up(v, 16)
    BY DEF round_up, CeilDiv
  <2> HIDE DEF N, K
  <2> QED BY <1>4, <2>1
<1>7. Outputs("fc", n.p, buf.ins) = <<T>>
  <2>1. buf.ins[1] = a /\ buf.ins[2] = w
    OBVIOUS
  <2> HIDE DEF a, w
  <2>2. Shapes("fc", n.p, buf.ins) = << <<M, N>> >>
    BY <2>1 DEF Shapes, A
  <2>3. Shapes("fc", n.p, buf.ins)[1] = <<M, N>>
    BY <2>2
  <2> HIDE DEF M, N
  <2> DEFINE sh == Shapes("fc", n.p, buf.ins)
  <2>4. Outputs("fc", n.p, buf.ins) = <<Connected(buf.ins[2], sh[1])>>
    BY DEF Outputs, Connected
  <2> QED BY <2>1, <2>3, <2>4
<1>8. T = Multiplied(M, K, N)
  <2> HIDE DEF M, w
  <2>1. Connected(w, <<M, w[1]>>) = Multiplied(M, w[2], w[1])
    BY <1>3, <1>4, <1>5, FcMeans
  <2> QED BY <2>1
<1> HIDE DEF M, N, K, P, S, T
<1>9. g = Multiplied(M, K, N)
  BY <1>4, <1>5, FcHost
<1>10. f = Multiplied(M, K, N)
  <2>1. f = Unpadded(C, M, N, S)
    BY DEF Unpadded
  <2>2. Unpadded(C, M, N, S) = Multiplied(M, K, N)
    BY <1>4, <1>5, <1>6, FcPadded
  <2> HIDE DEF f, C
  <2> QED BY <2>1, <2>2
<1>11. Valid("fc", n.p, buf.ins)
  BY DEF Sound
<1> HIDE DEF f, g
<1> QED BY <1>2, <1>7, <1>8, <1>9, <1>10, <1>11 DEF Means, Answer, x0

-----------------------------------------------------------------------------
(* CONCATENATION.                                                          *)

\* An offset around an axis
Around(c, dims, a) ==
    LET T == Top(c, dims, a - 1)  V == Weight(dims, a + 1)  R == Rest(c, dims, a + 1) IN
    /\ T \in Nat /\ V \in Nat /\ R \in Nat /\ R < V
    /\ Flat(c, dims) = (T * dims[a] + c[a]) * V + R

\* An offset is what is before an axis, the index along it, and what is behind.
LEMMA AxisSplit ==
    ASSUME NEW dims \in Seq(Nat), NEW a \in 1 .. Len(dims), NEW c \in Coordinates(dims)
    PROVE  Around(c, dims, a)
<1> DEFINE n == Len(dims)
           T == Top(c, dims, a - 1)
           U == Top(c, dims, a)
           V == Weight(dims, a + 1)
           R == Rest(c, dims, a + 1)
<1>1. n \in Nat /\ a \in 1 .. n /\ a - 1 \in 0 .. n /\ a \in 0 .. n /\ a + 1 \in 1 .. n + 1
  OBVIOUS
<1>2. T \in Nat /\ U = T * dims[a] + c[a]
  BY <1>1, TopStep
<1>3. V \in Nat /\ R \in Nat /\ R < V
  BY <1>1, Tails
<1>4. Flat(c, dims) = U * V + R
  BY <1>1, FlatSplit
<1> HIDE DEF T, U, V, R
<1> QED BY <1>2, <1>3, <1>4 DEF Around, T, U, V, R

\* One input of a CONCATENATION writes the part of the output that is its own.
CopyOf(in, out, a, n, off) ==
    rocket_concat_in(n, Count(SubSeq(out, 1, a - 1)), in[a], out[a], Count(SubSeq(out, a + 1, Len(out))), off)
Fits(in, out, a, off) ==
    /\ in \in Seq(Nat) /\ out \in Seq(Nat) /\ a \in 1 .. Len(out) /\ same_dims_except(in, out, a)
    /\ off \in Nat /\ off + in[a] <= out[a]
Moved1(c, a, off) == [c EXCEPT ![a] = @ - off]

\* The copy writes the cells whose index along the axis is the input's, each with its element.
LEMMA CopyAt ==
    ASSUME NEW in, NEW out, NEW a, NEW off, Fits(in, out, a, off), NEW n, NEW k \in Cells(out)
    PROVE  LET c == CoordAt(out, k)  f == CopyOf(in, out, a, n, off) IN
           /\ c[a] \in Nat /\ c[a] < out[a]
           /\ k \in DOMAIN f <=> off <= c[a] /\ c[a] < off + in[a]
           /\ off <= c[a] /\ c[a] < off + in[a] => f[k] = Value(n, Moved1(c, a, off), in)
<1> DEFINE c == CoordAt(out, k)
           r == Len(out)
           e == Moved1(c, a, off)
           outer == Count(SubSeq(out, 1, a - 1))
           inner == Count(SubSeq(out, a + 1, Len(out)))
           A == in[a]
           B == out[a]
           f == CopyOf(in, out, a, n, off)
           Q == (0 .. (outer - 1)) \X (0 .. (A - 1)) \X (0 .. (inner - 1))
           dst(q) == (q[1] * B + off + q[2]) * inner + q[3]
           src(q) == (q[1] * A + q[2]) * inner + q[3]
           what(q) == Copy(n, src(q))
           y == c[a]
           T == Top(c, out, a - 1)
           R == Rest(c, out, a + 1)
<1>1. f = [i \in {dst(q) : q \in Q} |-> what(CHOOSE q \in Q : dst(q) = i)]
  BY DEF CopyOf, rocket_concat_in, Scatter
<1>2. /\ in \in Seq(Nat) /\ out \in Seq(Nat) /\ r \in Nat /\ a \in 1 .. r /\ Len(in) = r
      /\ A \in Nat /\ B \in Nat /\ off \in Nat /\ off + A <= B
      /\ \A d \in 1 .. r : d # a => in[d] = out[d]
  <2>1. /\ in \in Seq(Nat) /\ out \in Seq(Nat) /\ r \in Nat /\ a \in 1 .. r /\ Len(in) = r
        /\ off \in Nat /\ off + A <= B /\ \A d \in DOMAIN in : d # a => in[d] = out[d]
    BY DEF Fits, same_dims_except
  <2>2. DOMAIN in = 1 .. r /\ \A d \in 1 .. r : in[d] \in Nat /\ out[d] \in Nat
    BY <2>1
  <2> QED BY <2>1, <2>2
<1>3. outer \in Nat /\ inner \in Nat /\ Count(out) = (outer * B) * inner
  BY <1>2, CountAround
<1>4. inner = Weight(out, a + 1)
  BY <1>2, CountBehind DEF Weight
<1>5. c \in Coordinates(out) /\ Flat(c, out) = k
  BY <1>2, TensorAt
<1>6. y \in Nat /\ y < B
  <2>1. a \in DOMAIN out
    BY <1>2
  <2> HIDE DEF c
  <2> QED BY <1>2, <1>5, <2>1, CoordTyped
<1> HIDE DEF c, outer, inner, f
<1>7. T \in Nat /\ R \in Nat /\ R < inner /\ k = (T * B + y) * inner + R
  BY <1>2, <1>4, <1>5, AxisSplit DEF Around
<1> HIDE DEF r, T, R, y, A, B
<1>8. T < outer
  <2>1. k \in Nat /\ k < (outer * B) * inner
    <3>1. k \in Nat /\ k < Count(out)
      BY <1>2, CountNat DEF Cells
    <3> QED BY <1>3, <3>1
  <2> DEFINE S == outer * B
             p == T * B + y
  <2>2. S \in Nat /\ p \in Nat
    <3>1. T * B \in Nat
      BY <1>2, <1>7, Times
    <3> QED BY <1>2, <1>3, <1>6, <3>1, Times
  <2>3. k = p * inner + R /\ k < S * inner
    BY <1>7, <2>1
  <2> HIDE DEF S, p
  <2>4. k \div inner < S
    BY <1>3, <2>1, <2>2, <2>3, Digits
  <2>5. (p * inner + R) \div inner = p
    BY ONLY <1>3, <1>7, <2>2, DigitIs
  <2>6. p \in Nat /\ p < outer * B
    BY <2>2, <2>3, <2>4, <2>5 DEF S
  <2>7. p \div B < outer
    BY <1>2, <1>3, <2>6, Digits
  <2>8. (T * B + y) \div B = T
    BY ONLY <1>2, <1>6, <1>7, DigitIs
  <2> QED BY <2>7, <2>8 DEF p
<1>9. \A q \in Q : /\ q[1] \in Nat /\ q[2] \in Nat /\ q[3] \in Nat
                   /\ q[1] < outer /\ q[2] < A /\ q[3] < inner /\ q = <<q[1], q[2], q[3]>>
  BY <1>2, <1>3
<1>10. ASSUME NEW q \in Q, dst(q) = k PROVE q[1] = T /\ off + q[2] = y /\ q[3] = R
  <2>1. PICK t \in Nat, j \in Nat, s \in Nat : t = q[1] /\ j = q[2] /\ s = q[3] /\ j < A /\ s < inner
    BY <1>9
  <2> DEFINE v == off + j
  <2>2. v \in Nat /\ v < B
    BY <1>2, <2>1
  <2>3. (t * B + v) * inner + s = k
    <3>1. t * B \in Nat
      BY <1>2, Times
    <3>2. t * B + off + j = t * B + v
      BY <1>2, <3>1
    <3> QED BY <1>10, <2>1, <3>2
  <2> HIDE DEF v
  <2>4. SameOffset(B, inner, t, v, s, T, y, R)
    BY <1>7, <2>3 DEF SameOffset
  <2>5. t = T /\ v = y /\ s = R
    <3>1. B \in Nat /\ inner \in Nat /\ T \in Nat /\ y \in Nat /\ y < B /\ R \in Nat /\ R < inner
      BY <1>2, <1>3, <1>6, <1>7
    <3>2. t \in Nat /\ v \in Nat /\ v < B /\ s \in Nat /\ s < inner
      BY <2>1, <2>2
    <3> QED BY ONLY <2>4, <3>1, <3>2, DigitsUnique
  <2> QED BY <2>1, <2>5 DEF v
<1> DEFINE q0 == <<T, y - off, R>>
<1>11. ASSUME off <= y, y < off + A PROVE q0 \in Q /\ dst(q0) = k
  <2>1. y - off \in 0 .. (A - 1) /\ T \in 0 .. (outer - 1) /\ R \in 0 .. (inner - 1)
    BY <1>2, <1>3, <1>6, <1>7, <1>8, <1>11
  <2>2. q0 \in Q
    BY <2>1
  <2>3. T * B + off + (y - off) = T * B + y
    <3>1. T * B \in Nat
      BY <1>2, <1>7, Times
    <3> QED BY <1>2, <1>6, <3>1
  <2>4. q0[1] = T /\ q0[2] = y - off /\ q0[3] = R
    OBVIOUS
  <2> HIDE DEF q0, Q
  <2> QED BY <1>7, <2>2, <2>3, <2>4
<1>12. k \in DOMAIN f <=> off <= y /\ y < off + A
  <2>1. DOMAIN f = {dst(q) : q \in Q}
    BY <1>1
  <2>2. ASSUME k \in DOMAIN f PROVE off <= y /\ y < off + A
    <3>1. PICK q \in Q : dst(q) = k
      BY <2>1, <2>2
    <3>2. q[2] \in Nat /\ q[2] < A /\ off + q[2] = y
      BY <1>9, <1>10, <3>1
    <3> QED BY <1>2, <3>2
  <2> HIDE DEF dst, Q, q0
  <2> QED BY <1>11, <2>1, <2>2
<1>13. ASSUME off <= y, y < off + A PROVE f[k] = Value(n, e, in)
  <2>1. \A q \in Q : dst(q) = k => q = q0
    <3> SUFFICES ASSUME NEW q \in Q, dst(q) = k PROVE q = q0
      OBVIOUS
    <3>1. q[1] = T /\ off + q[2] = y /\ q[3] = R
      BY <1>10
    <3>2. q[2] \in Nat /\ q = <<q[1], q[2], q[3]>>
      BY <1>9
    <3>3. q[2] = y - off
      <4>1. PICK j \in Nat : j = q[2]
        BY <3>2
      <4>2. off + j = y
        BY <3>1, <4>1
      <4>3. j = y - off
        BY <1>2, <1>6, <4>2
      <4> QED BY <4>1, <4>3
    <3> HIDE DEF Q, dst
    <3> QED BY <3>1, <3>2, <3>3
  <2>2. (CHOOSE q \in Q : dst(q) = k) = q0
    <3> HIDE DEF Q, dst, q0
    <3> QED BY <1>11, <1>13, <2>1
  <2>3. f[k] = what(q0)
    <3>1. k \in {dst(q) : q \in Q}
      <4> HIDE DEF Q, dst, q0
      <4> QED BY <1>11, <1>13
    <3> HIDE DEF what, Q, dst, q0
    <3> QED BY <1>1, <2>2, <3>1
  <2>4. q0[1] = T /\ q0[2] = y - off /\ q0[3] = R
    OBVIOUS
  <2>5. src(q0) = (T * A + (y - off)) * inner + R
    BY <2>4
  <2>6. e \in Coordinates(in) /\ e[a] = y - off /\ \A d \in 1 .. r : d # a => e[d] = c[d]
    <3>1. DOMAIN out = 1 .. r /\ DOMAIN in = 1 .. r
      BY <1>2 DEF r
    <3>2. c \in [1 .. r -> Nat] /\ \A d \in 1 .. r : c[d] < out[d]
      BY <1>2, <1>5, <3>1, CoordTyped DEF Coordinates
    <3>3. y - off \in Nat /\ y - off < A
      BY <1>2, <1>6, <1>13
    <3>4. e = [d \in 1 .. r |-> IF d = a THEN y - off ELSE c[d]]
      BY <1>2, <3>2 DEF Moved1, y
    <3> HIDE DEF e
    <3>5. e[a] = y - off /\ \A d \in 1 .. r : d # a => e[d] = c[d]
      BY <1>2, <3>4
    <3>6. \A d \in 1 .. r : e[d] \in Nat /\ e[d] < in[d]
      <4> SUFFICES ASSUME NEW d \in 1 .. r PROVE e[d] \in Nat /\ e[d] < in[d]
        OBVIOUS
      <4>1. CASE d = a
        BY <3>3, <3>5, <4>1 DEF A
      <4>2. CASE d # a
        BY <1>2, <3>2, <3>5, <4>2
      <4> QED BY <4>1, <4>2
    <3>7. \A d \in 1 .. r : in[d] \in Nat
      BY <1>2, <3>1
    <3>8. \A d \in 1 .. r : e[d] \in 0 .. (in[d] - 1)
      BY <3>6, <3>7
    <3>9. e \in [1 .. r -> Nat]
      BY <3>4, <3>6
    <3> QED BY <3>1, <3>5, <3>6, <3>8, <3>9 DEF Coordinates
  <2> HIDE DEF e
  <2>7. Alike(e, in, c, out, a)
    BY <1>2, <1>5, <2>6 DEF Alike, r
  <2>8. Top(e, in, a - 1) = T /\ Weight(in, a + 1) = inner /\ Rest(e, in, a + 1) = R
    BY <1>4, <2>7, AlikeAround DEF T, R
  <2>9. Flat(e, in) = (T * A + (y - off)) * inner + R
    <3>1. a \in 1 .. Len(in)
      BY <1>2
    <3>2. Around(e, in, a)
      BY <1>2, <2>6, <3>1, AxisSplit
    <3> QED BY <2>6, <2>8, <3>2 DEF Around, A
  <2> QED BY <2>3, <2>5, <2>9 DEF Value, Elem, Copy
<1> QED BY <1>6, <1>12, <1>13 DEF c, f, y, A, B

\* The inputs laid end to end along an axis
Joined(ins, out, a) ==
    Tensor(out, LAMBDA c : LET n == Holder(ins, a, c[a]) IN
                           Value(n, [c EXCEPT ![a] = @ - Starts(ins, a)[n]], ins[n]))
Along(ins, m, a) == [j \in 1 .. m |-> ins[j][a]]
Joins(ins, out, a, m) ==
    /\ m \in Nat /\ DOMAIN ins = 1 .. m /\ out \in Seq(Nat) /\ a \in 1 .. Len(out)
    /\ \A i \in 1 .. m : ins[i] \in Seq(Nat) /\ same_dims_except(ins[i], out, a)
    /\ out[a] = Start(Along(ins, m, a), m + 1)
Copies(ins, out, a, m) == [i \in 1 .. m |-> CopyOf(ins[i], out, a, i, Start(Along(ins, m, a), i))]

\* Where an input starts is what those before it add up to.
LEMMA StartsAre ==
    ASSUME NEW ins, NEW a, NEW m \in Nat, NEW i \in 1 .. (m + 1)
    PROVE  SumFunction([j \in 1 .. (i - 1) |-> ins[j][a]]) = Start(Along(ins, m, a), i)
<1> DEFINE I == 1 .. (i - 1)
           g == Along(ins, m, a)
           h == [j \in I |-> ins[j][a]]
<1>1. IsFiniteSet(I)
  <2>1. i - 1 \in Int /\ 1 \in Int
    OBVIOUS
  <2> QED BY <2>1, FS_Interval
<1>2. \A j \in I : j \in 1 .. m
  OBVIOUS
<1> HIDE DEF I
<1>3. \A j \in I : g[j] = h[j]
  BY <1>2 DEF Along
<1>4. SumFunction(h) = SumFunctionOnSet(h, I)
  BY DEF SumFunction
<1> HIDE DEF g, h
<1>5. SumFunctionOnSet(g, I) = SumFunctionOnSet(h, I)
  BY <1>1, <1>3, SumSame
<1> QED BY <1>4, <1>5 DEF Start, g, h, I

\* Copied one after the other, the inputs are the output the operator means.
LEMMA JoinedIs ==
    ASSUME NEW ins, NEW out, NEW a, NEW m, Joins(ins, out, a, m)
    PROVE  Overlaid(Copies(ins, out, a, m)) = Joined(ins, out, a)
<1> DEFINE g == Along(ins, m, a)
           S(i) == Start(g, i)
           copies == Copies(ins, out, a, m)
           Of(k) == {i \in DOMAIN copies : k \in DOMAIN copies[i]}
           V(c) == LET n == Holder(ins, a, c[a]) IN
                   Value(n, [c EXCEPT ![a] = @ - Starts(ins, a)[n]], ins[n])
<1>1. /\ m \in Nat /\ DOMAIN ins = 1 .. m /\ out \in Seq(Nat) /\ a \in 1 .. Len(out)
      /\ \A i \in 1 .. m : ins[i] \in Seq(Nat) /\ same_dims_except(ins[i], out, a)
      /\ out[a] = S(m + 1)
  BY DEF Joins
<1>2. \A i \in 1 .. m : g[i] = ins[i][a] /\ g[i] \in Nat
  <2> SUFFICES ASSUME NEW i \in 1 .. m PROVE g[i] = ins[i][a] /\ g[i] \in Nat
    OBVIOUS
  <2>1. ins[i] \in Seq(Nat) /\ a \in DOMAIN ins[i]
    <3>1. ins[i] \in Seq(Nat) /\ Len(ins[i]) = Len(out)
      BY <1>1 DEF same_dims_except
    <3> QED BY <1>1, <3>1
  <2>2. ins[i][a] \in Nat
    BY <2>1
  <2> QED BY <2>2 DEF Along
<1> HIDE DEF g
<1>3. /\ \A i \in 1 .. (m + 1) : S(i) \in Nat
      /\ \A i \in 1 .. m : S(i + 1) = S(i) + g[i]
      /\ \A i \in 1 .. m : \A j \in 1 .. m : i < j => S(i) + g[i] <= S(j)
      /\ \A k \in Nat : k < S(m + 1) => \E i \in 1 .. m : S(i) <= k /\ k < S(i) + g[i]
  BY <1>1, <1>2, Segments
<1>4. \A i \in 1 .. m : Starts(ins, a)[i] = S(i)
  <2> SUFFICES ASSUME NEW i \in 1 .. m PROVE Starts(ins, a)[i] = S(i)
    OBVIOUS
  <2>1. i \in 1 .. (m + 1)
    BY <1>1
  <2>3. m \in Nat
    BY <1>1
  <2>2. SumFunction([j \in 1 .. (i - 1) |-> ins[j][a]]) = Start(Along(ins, m, a), i)
    BY ONLY <2>1, <2>3, StartsAre
  <2> QED BY <1>1, <2>2 DEF Starts, g
<1>5. \A i \in 1 .. m : S(i) \in Nat /\ S(i) + g[i] <= out[a]
  <2> SUFFICES ASSUME NEW i \in 1 .. m PROVE S(i) \in Nat /\ S(i) + g[i] <= out[a]
    OBVIOUS
  <2>1. i \in 1 .. (m + 1) /\ m \in 1 .. (m + 1) /\ m \in 1 .. m
    BY <1>1
  <2>2. S(m + 1) = S(m) + g[m] /\ S(m) \in Nat /\ g[m] \in Nat /\ S(i) \in Nat
    BY <1>2, <1>3, <2>1
  <2>3. CASE i = m
    <3>1. out[a] = S(m + 1)
      BY <1>1
    <3> HIDE DEF S
    <3> QED BY <2>2, <2>3, <3>1
  <2>4. CASE i < m
    <3>1. S(i) + g[i] <= S(m)
      BY <1>3, <2>1, <2>4
    <3>2. g[i] \in Nat
      BY <1>2
    <3>3. out[a] = S(m + 1)
      BY <1>1
    <3> HIDE DEF S
    <3> QED BY <2>2, <3>1, <3>2, <3>3
  <2>5. i < m \/ i = m
    BY <1>1
  <2> QED BY <2>3, <2>4, <2>5
<1>6. \A i \in 1 .. m : Fits(ins[i], out, a, S(i))
  BY <1>1, <1>2, <1>5 DEF Fits
<1>7. DOMAIN copies = 1 .. m /\ \A i \in 1 .. m : copies[i] = CopyOf(ins[i], out, a, i, S(i))
  BY DEF Copies, g
<1> HIDE DEF copies, S
<1>8. ASSUME NEW k \in Cells(out)
      PROVE  /\ \E i \in 1 .. m : k \in DOMAIN copies[i]
             /\ copies[Max(Of(k))][k] = V(CoordAt(out, k))
  <2> DEFINE c == CoordAt(out, k)
             y == c[a]
             In(i) == S(i) <= y /\ y < S(i) + g[i]
  <2>1. ASSUME NEW i \in 1 .. m
        PROVE  /\ y \in Nat /\ y < out[a]
               /\ k \in DOMAIN copies[i] <=> In(i)
               /\ In(i) => copies[i][k] = Value(i, Moved1(c, a, S(i)), ins[i])
    <3>1. Fits(ins[i], out, a, S(i)) /\ copies[i] = CopyOf(ins[i], out, a, i, S(i)) /\ ins[i][a] = g[i]
      BY <1>2, <1>6, <1>7
    <3> DEFINE f == CopyOf(ins[i], out, a, i, S(i))
    <3>2. /\ y \in Nat /\ y < out[a]
          /\ k \in DOMAIN f <=> S(i) <= y /\ y < S(i) + ins[i][a]
          /\ S(i) <= y /\ y < S(i) + ins[i][a] => f[k] = Value(i, Moved1(c, a, S(i)), ins[i])
      BY <3>1, CopyAt
    <3> HIDE DEF f, c
    <3> QED BY <3>1, <3>2 DEF f
  <2> HIDE DEF c, y
  <2>2. y \in Nat /\ y < out[a]
    <3>1. m > 0
      <4>1. c \in Coordinates(out) /\ a \in DOMAIN out
        BY <1>1, TensorAt DEF c
      <4>2. y \in Nat /\ out[a] \in Nat /\ y < out[a]
        BY <1>1, <4>1, CoordTyped DEF y
      <4>3. \E i \in 1 .. m : S(i) <= y /\ y < S(i) + g[i]
        BY <1>1, <1>3, <4>2
      <4> QED BY <1>1, <4>3
    <3>2. 1 \in 1 .. m
      BY <1>1, <3>1
    <3> QED BY <2>1, <3>2
  <2>3. PICK i \in 1 .. m : In(i)
    BY <1>1, <1>3, <2>2
  <2>4. ASSUME NEW j \in 1 .. m, In(j) PROVE j = i
    <3>1. S(i) \in Nat /\ S(j) \in Nat /\ g[i] \in Nat /\ g[j] \in Nat /\ i \in Nat /\ j \in Nat
      BY <1>2, <1>5
    <3>2. CASE i < j
      <4>1. S(i) + g[i] <= S(j)
        BY <1>3, <3>2
      <4> QED BY <2>2, <2>3, <2>4, <3>1, <4>1
    <3>3. CASE j < i
      <4>1. S(j) + g[j] <= S(i)
        BY <1>3, <3>3
      <4> QED BY <2>2, <2>3, <2>4, <3>1, <4>1
    <3>4. i < j \/ j < i \/ i = j
      BY <3>1
    <3> QED BY <3>2, <3>3, <3>4
  <2> HIDE DEF In
  <2>5. Of(k) = {i}
    BY <1>7, <2>1, <2>3, <2>4
  <2> HIDE DEF Of
  <2>6. Max(Of(k)) = i
    <3>1. i \in Nat
      OBVIOUS
    <3> QED BY <2>5, <3>1 DEF Max
  <2>7. Holder(ins, a, y) = i
    <3> DEFINE H(j) == Starts(ins, a)[j] <= y /\ y < Starts(ins, a)[j] + ins[j][a]
    <3>1. \A j \in 1 .. m : H(j) <=> In(j)
      BY <1>2, <1>4 DEF In
    <3>2. Holder(ins, a, y) = CHOOSE j \in 1 .. m : H(j)
      BY <1>1 DEF Holder
    <3> HIDE DEF H
    <3> QED BY <2>3, <2>4, <3>1, <3>2
  <2>8. Starts(ins, a)[i] = S(i)
    BY <1>4
  <2>9. V(c) = Value(i, Moved1(c, a, S(i)), ins[i])
    BY <2>7, <2>8 DEF Moved1, y
  <2> HIDE DEF V
  <2>10. copies[i][k] = Value(i, Moved1(c, a, S(i)), ins[i]) /\ k \in DOMAIN copies[i]
    BY <2>1, <2>3
  <2> QED BY <2>6, <2>9, <2>10 DEF c
<1>9. ASSUME NEW i \in 1 .. m PROVE DOMAIN copies[i] \subseteq Cells(out)
  <2>1. Fits(ins[i], out, a, S(i)) /\ copies[i] = CopyOf(ins[i], out, a, i, S(i))
    BY <1>6, <1>7
  <2>2. ins[i] \in Seq(Nat) /\ same_dims_except(ins[i], out, a) /\ S(i) \in Nat /\ S(i) + ins[i][a] <= out[a]
    BY <2>1 DEF Fits
  <2>3. Within(CopyOf(ins[i], out, a, i, S(i)), out, ins)
    BY <1>1, <2>2, ConcatWithin DEF CopyOf
  <2> QED BY <2>1, <2>3 DEF Within
<1>10. UNION {DOMAIN copies[i] : i \in DOMAIN copies} = Cells(out)
  BY <1>7, <1>8, <1>9
<1>11. Overlaid(copies) = [k \in Cells(out) |-> copies[Max(Of(k))][k]]
  BY <1>10 DEF Overlaid
<1>12. Range(Offsets(out)) = Cells(out)
  BY <1>1, TensorAt
<1>13. Joined(ins, out, a) = [k \in Range(Offsets(out)) |-> V(CoordAt(out, k))]
  BY DEF Joined, Tensor, Offsets, CoordAt
<1> HIDE DEF V, Of
<1>14. Overlaid(copies) = Joined(ins, out, a)
  BY <1>8, <1>11, <1>12, <1>13
<1> QED BY <1>14 DEF copies

\* CONCATENATION, where the axis is the one it was claimed with and the inputs have it
LEMMA ConcatAnswers ==
    ASSUME NEW n, NEW buf, Sound(n, buf), n.op = "concat", analyze_concat(n),
           Axis(n.p.axis, Len(buf.ins[1])) = Axis(n.p.axis, Len(n.outs[1])),
           Axis(n.p.axis, Len(n.outs[1])) \in DOMAIN buf.ins[1],
           eval_concat(n, Capture(n), buf).ok
    PROVE  Means(n, eval_concat(n, Capture(n), buf), buf.ins)
<1> DEFINE x0 == Capture(n)
           ins == buf.ins
           o == buf.outs[1]
           in == ins[1]
           a == Axis(n.p.axis, Len(n.outs[1]))
           m == Len(ins)
           outer == Count(SubSeq(o, 1, a - 1))
           inner == Count(SubSeq(o, a + 1, Len(o)))
           off(i) == SumFunction([j \in 1 .. (i - 1) |-> ins[j][a]])
           fits == {i \in DOMAIN ins : \A j \in 1 .. i : same_dims_except(ins[j], o, a)}
           done == Overlaid([i \in fits |-> rocket_concat_in(i, outer, ins[i][a], o[a], inner, off(i))])
           ans == eval_concat(n, x0, buf)
           g == Along(ins, m, a)
<1>0. Situation(n, buf) /\ ans.ok
  BY DEF Sound
<1>1. x0.axis = a
  BY DEF Capture
<1>2. ans = IF fits = DOMAIN ins /\ off(m + 1) = o[a] THEN Answer(<<done>>, FALSE) ELSE Fails(<<done>>)
  <2> HIDE DEF a, x0
  <2> QED BY <1>1 DEF eval_concat
<1>3. Axis(n.p.axis, Len(in)) = a /\ a \in DOMAIN in
  OBVIOUS
<1>4. /\ m \in Nat /\ m > 0 /\ DOMAIN ins = 1 .. m /\ \A i \in 1 .. m : ins[i] \in Seq(Nat)
  <2>1. n.ins \in Seq(Seq(Nat)) /\ Len(n.ins) >= 1 /\ ins \in LiveIns(n)
    BY <1>0 DEF Situation, WellFormed
  <2> HIDE DEF ins
  <2>2. ins \in Seq(Seq(Nat)) /\ Len(ins) = Len(n.ins)
    BY <2>1 DEF LiveIns
  <2>3. Len(ins) >= 1
    BY <2>1, <2>2
  <2> QED BY <2>2, <2>3
<1> HIDE DEF ans, x0
<1>5. fits = DOMAIN ins /\ off(m + 1) = o[a] /\ ans.outs = <<done>>
  <2> HIDE DEF done, fits, off, a, m, o, ins
  <2> QED BY <1>0, <1>2 DEF Fails, Answer
<1>6. \A i \in 1 .. m : same_dims_except(ins[i], o, a)
  <2> SUFFICES ASSUME NEW i \in 1 .. m PROVE same_dims_except(ins[i], o, a)
    OBVIOUS
  <2>1. i \in 1 .. i
    BY <1>4
  <2> HIDE DEF o, a, ins, m
  <2>2. i \in fits
    <3> HIDE DEF fits, off
    <3> QED BY <1>4, <1>5
  <2> HIDE DEF off, outer, inner, done
  <2> QED BY <2>1, <2>2
<1>7. PICK r \in Nat : DOMAIN o = 1 .. r /\ o = [d \in 1 .. r |-> o[d]]
  <2>1. PICK others \in LiveIns(n) : \/ o = Shapes("concat", n.p, others)[1]
                                     \/ o = << >>
    BY <1>0, OneOut
  <2>2. CASE o = << >>
    <3>1. DOMAIN << >> = 1 .. 0 /\ << >> = [d \in 1 .. 0 |-> << >>[d]]
      OBVIOUS
    <3> HIDE DEF o
    <3> QED BY <2>2, <3>1
  <2> DEFINE b == others[1]
             e == Axis(n.p.axis, Len(b))
             s == SumFunction([k \in DOMAIN others |-> others[k][e]])
  <2>3. CASE o = Shapes("concat", n.p, others)[1]
    <3>1. o = [b EXCEPT ![e] = s]
      BY <2>3 DEF Shapes
    <3>2. Len(b) \in Nat /\ DOMAIN b = 1 .. Len(b)
      <4>1. b \in Seq(Nat)
        BY <1>0 DEF LiveIns, Situation, WellFormed
      <4> QED BY <4>1
    <3> HIDE DEF s, e, b, o
    <3> QED BY <3>1, <3>2
  <2> QED BY <2>1, <2>2, <2>3
<1>8. Len(o) = r
  <2> HIDE DEF o
  <2> QED BY <1>7, AsSequence
<1> HIDE DEF o, a, m, outer, inner, done, fits
<1>9. /\ in \in Seq(Nat) /\ Len(in) = r /\ a \in 1 .. r /\ DOMAIN in = 1 .. r
      /\ \A d \in 1 .. r : d # a => o[d] = in[d]
  <2>1. in \in Seq(Nat) /\ same_dims_except(in, o, a)
    <3>1. 1 \in 1 .. m
      BY <1>4
    <3> QED BY <1>4, <1>6, <3>1
  <2> HIDE DEF in, ins
  <2> QED BY <1>3, <1>7, <1>8, <2>1 DEF same_dims_except
<1>10. \A i \in 1 .. m : ins[i][a] \in Nat /\ g[i] = ins[i][a]
  <2> SUFFICES ASSUME NEW i \in 1 .. m PROVE ins[i][a] \in Nat /\ g[i] = ins[i][a]
    OBVIOUS
  <2> DEFINE b == ins[i]
  <2>1. b \in Seq(Nat) /\ Len(b) = r
    BY <1>4, <1>6, <1>8 DEF same_dims_except
  <2> HIDE DEF b
  <2>2. b[a] \in Nat
    BY <1>9, <2>1
  <2> QED BY <2>2 DEF b, Along
<1>11. \A i \in 1 .. (m + 1) : off(i) = Start(g, i)
  <2>1. m \in Nat
    BY <1>4
  <2> QED BY ONLY <2>1, StartsAre DEF g, ins
<1>12. \A i \in 1 .. (m + 1) : Start(g, i) \in Nat
  <2>1. m \in Nat /\ \A j \in 1 .. m : g[j] \in Nat
    BY <1>4, <1>10
  <2> QED BY ONLY <2>1, Segments
<1> DEFINE s == SumFunction([i \in DOMAIN ins |-> ins[i][a]])
<1>13. o[a] = Start(g, m + 1) /\ o[a] \in Nat /\ s = o[a]
  <2>1. m + 1 \in 1 .. (m + 1)
    BY <1>4
  <2>2. off(m + 1) = Start(g, m + 1)
    BY <1>11, <2>1
  <2>3. [i \in DOMAIN ins |-> ins[i][a]] = [j \in 1 .. ((m + 1) - 1) |-> ins[j][a]]
    BY <1>4
  <2>4. s = off(m + 1)
    BY <2>3
  <2> HIDE DEF off, s, g
  <2> QED BY <1>5, <1>12, <2>1, <2>2, <2>4
<1> HIDE DEF s
<1>14. o \in Seq(Nat)
  <2>1. \A d \in 1 .. r : in[d] \in Nat
    BY <1>9
  <2>2. ASSUME NEW d \in 1 .. r PROVE o[d] \in Nat
    BY <1>9, <1>13, <2>1
  <2> QED BY <1>7, <2>2, AsSequence
<1>15. Joins(ins, o, a, m)
  <2> HIDE DEF ins
  <2> QED BY <1>4, <1>6, <1>8, <1>9, <1>13, <1>14 DEF Joins, g
<1>16. done = Joined(ins, o, a)
  <2>1. \A i \in 1 .. m : off(i) = Start(g, i)
    BY <1>4, <1>11
  <2>2. [i \in fits |-> rocket_concat_in(i, outer, ins[i][a], o[a], inner, off(i))] = Copies(ins, o, a, m)
    <3> HIDE DEF off, g
    <3>1. \A i \in 1 .. m : rocket_concat_in(i, outer, ins[i][a], o[a], inner, off(i))
                             = CopyOf(ins[i], o, a, i, Start(g, i))
      BY <2>1 DEF CopyOf, outer, inner
    <3>2. fits = 1 .. m
      BY <1>4, <1>5
    <3> HIDE DEF ins
    <3>3. [i \in fits |-> rocket_concat_in(i, outer, ins[i][a], o[a], inner, off(i))]
          = [i \in 1 .. m |-> CopyOf(ins[i], o, a, i, Start(g, i))]
      BY <3>1, <3>2
    <3> QED BY <3>3 DEF Copies, g
  <2> QED BY <1>15, <2>2, JoinedIs DEF done
<1>17. [in EXCEPT ![a] = s] = o
  <2> DEFINE z == [in EXCEPT ![a] = s]
  <2> HIDE DEF in
  <2>1. DOMAIN z = 1 .. r /\ z = [d \in 1 .. r |-> z[d]]
    BY <1>9
  <2>2. \A d \in 1 .. r : z[d] = o[d]
    BY <1>9, <1>13
  <2> HIDE DEF z
  <2>3. z = o
    BY <1>7, <2>1, <2>2
  <2> QED BY <2>3 DEF z
<1>18. Shapes("concat", n.p, ins) = <<o>>
  <2>1. Shapes("concat", n.p, ins) = <<[in EXCEPT ![a] = s]>>
    BY <1>3 DEF Shapes, s
  <2> QED BY <1>17, <2>1
<1>19. Outputs("concat", n.p, ins) = <<Joined(ins, o, a)>>
  <2> HIDE DEF ins, in
  <2> QED BY <1>3, <1>18 DEF Outputs, Joined, in
<1>20. Valid("concat", n.p, ins)
  <2>1. \A i \in DOMAIN ins : \A d \in DOMAIN in : d # a => ins[i][d] = in[d]
    <3> SUFFICES ASSUME NEW i \in 1 .. m, NEW d \in 1 .. r, d # a PROVE ins[i][d] = in[d]
      BY <1>4, <1>9
    <3> DEFINE b == ins[i]
    <3>1. same_dims_except(b, o, a) /\ b \in Seq(Nat)
      BY <1>4, <1>6
    <3> HIDE DEF b
    <3>2. b[d] = o[d]
      BY <1>8, <3>1 DEF same_dims_except
    <3> QED BY <1>9, <3>2 DEF b
  <2> QED BY <1>3, <2>1 DEF Valid
<1> QED BY <1>5, <1>16, <1>19, <1>20 DEF Means, ans, x0, ins

-----------------------------------------------------------------------------
(* Windows over images: POOL.                                              *)

\* How many windows there are, as the operator counts them and as the delegate does
LEMMA WindowsAre ==
    ASSUME NEW in \in Nat, NEW k \in Nat, NEW s \in Nat, s > 0, NEW same
    PROVE  WindowCount(in, k, s, same) = rocket_out_dim(in, k, s, same)
<1>1. CASE same
  BY <1>1 DEF WindowCount, rocket_out_dim
<1>2. CASE ~same
  <2> DEFINE O == {o \in 0 .. in : o * s + k <= in}
             e == Cardinality(O)
  <2>1. WindowCount(in, k, s, same) = e
    BY <1>2 DEF WindowCount
  <2>2. CASE in >= k
    <3>1. PICK m \in Nat : m = in - k /\ in = m + k
      BY <2>2
    <3> DEFINE last == m \div s
               r == m % s
    <3>2. last \in Nat /\ r \in Nat /\ r < s /\ m = last * s + r
      <4>1. m < (m + 1) * s
        <5>1. PICK t \in Nat : s = t + 1
          <6>1. s - 1 \in Nat /\ s = (s - 1) + 1
            OBVIOUS
          <6> QED BY <6>1
        <5>2. (m + 1) * t \in Nat /\ (m + 1) * s = (m + 1) * t + m + 1
          BY <5>1, Times
        <5> QED BY <5>2
      <4> DEFINE n == m + 1
      <4>2. n \in Nat /\ m < n * s
        BY <4>1
      <4> HIDE DEF n
      <4> QED BY <4>2, Digits
    <3> HIDE DEF last, r
    <3>3. \A o \in Nat : o * s + k <= in <=> o <= last
      <4> TAKE o \in Nat
      <4>1. o * s \in Nat /\ last * s \in Nat
        BY <3>2, Times
      <4>2. CASE o <= last
        <5>1. PICK d \in Nat : last = o + d
          <6>1. last - o \in Nat /\ last = o + (last - o)
            BY <3>2, <4>2
          <6> QED BY <6>1
        <5>2. last * s = o * s + d * s /\ d * s \in Nat
          BY <5>1, Times
        <5> QED BY <3>1, <3>2, <4>1, <4>2, <5>2
      <4>3. CASE o > last
        <5>1. PICK d \in Nat : o = last + 1 + d
          <6>1. o - last - 1 \in Nat /\ o = last + 1 + (o - last - 1)
            BY <3>2, <4>3
          <6> QED BY <6>1
        <5>2. o * s = last * s + s + d * s /\ d * s \in Nat
          BY <3>2, <5>1, Times
        <5> QED BY <3>1, <3>2, <4>1, <4>3, <5>2
      <4> QED BY <3>2, <4>2, <4>3
    <3>4. last <= in
      <4>1. last * s + k <= in
        BY <3>2, <3>3
      <4>2. PICK t \in Nat : s = t + 1
        <5>1. s - 1 \in Nat /\ s = (s - 1) + 1
          OBVIOUS
        <5> QED BY <5>1
      <4>3. last * s = last * t + last /\ last * t \in Nat
        BY <3>2, <4>2, Times
      <4> QED BY <3>2, <4>1, <4>3
    <3>5. O = 0 .. last
      <4> DEFINE F(o) == o * s + k <= in
      <4>1. O = {o \in 0 .. in : F(o)} /\ \A o \in Nat : F(o) <=> o <= last
        BY <3>3
      <4> HIDE DEF F, O
      <4> QED BY <3>2, <3>4, <4>1
    <3>6. e = last + 1
      <4>1. 0 \in Int /\ last \in Int
        BY <3>2
      <4>2. Cardinality(0 .. last) = IF 0 > last THEN 0 ELSE last - 0 + 1
        BY ONLY <4>1, FS_Interval
      <4>3. e = IF 0 > last THEN 0 ELSE last - 0 + 1
        BY <3>5, <4>2
      <4> HIDE DEF e
      <4> QED BY <3>2, <4>3
    <3>7. rocket_out_dim(in, k, s, same) = last + 1
      BY <1>2, <2>2, <3>1 DEF rocket_out_dim, last
    <3> QED BY <2>1, <3>6, <3>7
  <2>3. CASE in < k
    <3>1. O = {}
      <4>1. \A o \in Nat : o * s \in Nat
        BY Times
      <4> QED BY <2>3, <4>1
    <3>2. e = 0
      BY <3>1, FS_EmptySet
    <3>3. rocket_out_dim(in, k, s, same) = 0
      BY <1>2, <2>3 DEF rocket_out_dim
    <3> QED BY <2>1, <3>2, <3>3
  <2> QED BY <2>2, <2>3
<1> QED BY <1>1, <1>2

\* The padding before the first window is half the least that is enough, as the delegate has it.
LEMMA LeadIs ==
    ASSUME NEW in \in Nat, NEW k \in Nat, NEW s \in Nat, NEW out \in Nat, out > 0
    PROVE  /\ rocket_total_pad(in, k, s, out) \in Nat
           /\ Lead(in, k, s, out) = rocket_total_pad(in, k, s, out) \div 2 /\ Lead(in, k, s, out) \in Nat
<1> DEFINE A == (out - 1) * s + k
           B == out * s + k
           v == Larger(A - in, 0)
           S == {t \in 0 .. B : A <= in + t}
<1>1. A \in Nat /\ B \in Nat /\ A <= B
  <2>1. PICK o \in Nat : out = o + 1 /\ out - 1 = o
    <3>1. out - 1 \in Nat /\ out = (out - 1) + 1
      OBVIOUS
    <3> QED BY <3>1
  <2>2. o * s \in Nat /\ out * s = o * s + s
    BY <2>1, Times
  <2> QED BY <2>1, <2>2
<1>2. rocket_total_pad(in, k, s, out) = v
  BY DEF rocket_total_pad
<1>3. Lead(in, k, s, out) = Min(S) \div 2
  BY DEF Lead
<1> HIDE DEF A, B
<1>4. v \in Nat /\ v \in S /\ \A t \in S : v <= t
  BY <1>1 DEF Larger
<1> HIDE DEF v, S
<1>5. \A t \in S : t \in Int
  BY <1>1 DEF S
<1>6. Min(S) = v
  <2>1. \A t \in S : (\A u \in S : t <= u) => t = v
    <3> TAKE t \in S
    <3> HAVE \A u \in S : t <= u
    <3>1. t <= v /\ v <= t
      BY <1>4
    <3> QED BY <1>4, <1>5, <3>1
  <2> QED BY <1>4, <2>1 DEF Min
<1>7. v \div 2 \in Nat
  BY <1>4
<1> QED BY <1>2, <1>3, <1>4, <1>6, <1>7

\* The pixels of an image a window covers, its corner at row a and column b, and the
\* places of the window that are on the image
Covered(H, W, KH, KW, a, b) ==
    {p \in (0 .. (H - 1)) \X (0 .. (W - 1)) : p[1] - a \in 0 .. (KH - 1) /\ p[2] - b \in 0 .. (KW - 1)}
Inner(H, W, KH, KW, a, b) ==
    {q \in (0 .. (KH - 1)) \X (0 .. (KW - 1)) : a + q[1] \in 0 .. (H - 1) /\ b + q[2] \in 0 .. (W - 1)}

CoveredAs(H, W, KH, KW, a, b) ==
    LET P == Covered(H, W, KH, KW, a, b) IN
    /\ {<<a + q[1], b + q[2]>> : q \in Inner(H, W, KH, KW, a, b)} = P
    /\ IsFiniteSet(P)
    /\ a >= 0 /\ b >= 0 /\ a + KH <= H /\ b + KW <= W => Cardinality(P) = KH * KW

\* The window's places are the pixels it covers; inside the image, all of them.
LEMMA CoveredIs ==
    ASSUME NEW H \in Nat, NEW W \in Nat, NEW KH \in Nat, NEW KW \in Nat, NEW a \in Int, NEW b \in Int
    PROVE  CoveredAs(H, W, KH, KW, a, b)
<1> DEFINE P == Covered(H, W, KH, KW, a, b)
           Q == Inner(H, W, KH, KW, a, b)
           F(q) == <<a + q[1], b + q[2]>>
<1>1. \A q \in Q : /\ q[1] \in Int /\ q[2] \in Int /\ F(q) \in P
  <2> TAKE q \in Q
  <2>1. /\ q[1] \in 0 .. (KH - 1) /\ q[2] \in 0 .. (KW - 1)
        /\ a + q[1] \in 0 .. (H - 1) /\ b + q[2] \in 0 .. (W - 1)
    BY DEF Inner
  <2>2. F(q)[1] = a + q[1] /\ F(q)[2] = b + q[2] /\ F(q) \in (0 .. (H - 1)) \X (0 .. (W - 1))
    BY <2>1
  <2>3. (a + q[1]) - a = q[1] /\ (b + q[2]) - b = q[2]
    BY <2>1
  <2> HIDE DEF F
  <2> QED BY <2>1, <2>2, <2>3 DEF Covered
<1>2. \A p \in P : /\ p[1] \in 0 .. (H - 1) /\ p[2] \in 0 .. (W - 1) /\ p = <<p[1], p[2]>>
                   /\ p[1] - a \in 0 .. (KH - 1) /\ p[2] - b \in 0 .. (KW - 1)
  BY DEF Covered
<1>3. \A p \in P : <<p[1] - a, p[2] - b>> \in Q /\ F(<<p[1] - a, p[2] - b>>) = p
  <2> TAKE p \in P
  <2> DEFINE y == p[1]
             z == p[2]
             q == <<y - a, z - b>>
  <2>1. /\ y \in 0 .. (H - 1) /\ z \in 0 .. (W - 1) /\ p = <<y, z>>
        /\ y - a \in 0 .. (KH - 1) /\ z - b \in 0 .. (KW - 1)
    BY <1>2
  <2> HIDE DEF y, z
  <2>2. q[1] = y - a /\ q[2] = z - b /\ q \in (0 .. (KH - 1)) \X (0 .. (KW - 1))
    BY <2>1
  <2>3. a + (y - a) = y /\ b + (z - b) = z
    BY <2>1
  <2>4. F(q) = p
    BY <2>1, <2>2, <2>3
  <2> HIDE DEF q, F
  <2>5. q \in Q
    BY <2>1, <2>2, <2>3 DEF Inner
  <2> QED BY <2>4, <2>5 DEF q, y, z
<1>4. {F(q) : q \in Q} = P
  <2> HIDE DEF P, Q, F
  <2> QED BY <1>1, <1>3
<1>5. IsFiniteSet(P)
  <2>1. IsFiniteSet(0 .. (H - 1)) /\ IsFiniteSet(0 .. (W - 1))
    <3>1. 0 \in Int /\ H - 1 \in Int /\ W - 1 \in Int
      OBVIOUS
    <3> QED BY <3>1, FS_Interval
  <2>2. IsFiniteSet((0 .. (H - 1)) \X (0 .. (W - 1)))
    BY <2>1, FS_Product
  <2> QED BY <2>2, FS_Subset DEF Covered
<1>6. ASSUME a >= 0, b >= 0, a + KH <= H, b + KW <= W PROVE Cardinality(P) = KH * KW
  <2> DEFINE R == (0 .. (KH - 1)) \X (0 .. (KW - 1))
             g == [p \in P |-> <<p[1] - a, p[2] - b>>]
  <2>1. IsFiniteSet(R) /\ Cardinality(R) = KH * KW
    <3>1. /\ IsFiniteSet(0 .. (KH - 1)) /\ Cardinality(0 .. (KH - 1)) = KH
          /\ IsFiniteSet(0 .. (KW - 1)) /\ Cardinality(0 .. (KW - 1)) = KW
      <4> SUFFICES ASSUME NEW n \in Nat PROVE IsFiniteSet(0 .. (n - 1)) /\ Cardinality(0 .. (n - 1)) = n
        OBVIOUS
      <4> DEFINE e == Cardinality(0 .. (n - 1))
      <4>1. 0 \in Int /\ n - 1 \in Int
        OBVIOUS
      <4>2. IsFiniteSet(0 .. (n - 1)) /\ e = IF 0 > n - 1 THEN 0 ELSE n - 1 - 0 + 1
        BY ONLY <4>1, FS_Interval
      <4> HIDE DEF e
      <4>3. e = n
        BY <4>2
      <4> QED BY <4>2, <4>3 DEF e
    <3> DEFINE I == 0 .. (KH - 1)
               J == 0 .. (KW - 1)
    <3>2. IsFiniteSet(I) /\ Cardinality(I) = KH /\ IsFiniteSet(J) /\ Cardinality(J) = KW /\ R = I \X J
      BY <3>1
    <3> HIDE DEF I, J, R
    <3>3. IsFiniteSet(I \X J) /\ Cardinality(I \X J) = Cardinality(I) * Cardinality(J)
      BY ONLY <3>2, FS_Product
    <3> QED BY ONLY <3>2, <3>3
  <2>2. Q = R
    <3>1. \A q \in R : a + q[1] \in 0 .. (H - 1) /\ b + q[2] \in 0 .. (W - 1)
      BY <1>6
    <3> QED BY <3>1 DEF Inner
  <2>3. g \in [P -> R]
    <3> HIDE DEF P, Q, F, R
    <3> QED BY <1>3, <2>2
  <2>4. \A p, r \in P : g[p] = g[r] => p = r
    <3> TAKE p, r \in P
    <3> HAVE g[p] = g[r]
    <3>1. F(g[p]) = p /\ F(g[r]) = r
      BY <1>3
    <3> HIDE DEF F, g, P
    <3> QED BY <3>1
  <2>5. \A q \in R : \E p \in P : g[p] = q
    <3> TAKE q \in R
    <3>1. F(q) \in P /\ q[1] \in Int /\ q[2] \in Int /\ q = <<q[1], q[2]>>
      BY <1>1, <2>2
    <3>2. F(q)[1] = a + q[1] /\ F(q)[2] = b + q[2]
      OBVIOUS
    <3>3. (a + q[1]) - a = q[1] /\ (b + q[2]) - b = q[2]
      BY <3>1
    <3>4. g[F(q)] = <<F(q)[1] - a, F(q)[2] - b>>
      BY <3>1
    <3> HIDE DEF F, g, P, R
    <3>5. g[F(q)] = q
      BY <3>1, <3>2, <3>3, <3>4
    <3> QED BY <3>1, <3>5
  <2> HIDE DEF g, P, R
  <2> QED BY <2>1, <2>3, <2>4, <2>5, SameCount
<1> QED BY <1>4, <1>5, <1>6 DEF CoveredAs

\* The offsets of pixels in a channel, and in its plane
OffsetsOf(P, c, W, C) == {At(p[1], p[2], c, W, C) : p \in P}
PlanesOf(P, c, H, W) == {PlaneOf(H, W, p[1], p[2], c) : p \in P}
Corner(o, s, lead) == o * s - lead

\* The host's window reads the pixels covered.
LEMMA WindowIs ==
    ASSUME NEW H \in Nat, NEW W \in Nat, NEW C, NEW KH \in Nat, NEW KW \in Nat, NEW c,
           NEW oh \in Nat, NEW ow \in Nat, NEW sy \in Nat, NEW sx \in Nat, NEW pt \in Nat, NEW pl \in Nat
    PROVE  Window(oh, ow, c, H, W, C, KH, KW, sy, sx, pt, pl)
             = OffsetsOf(Covered(H, W, KH, KW, Corner(oh, sy, pt), Corner(ow, sx, pl)), c, W, C)
<1>1. PICK u \in Nat, v \in Nat : u = oh * sy /\ v = ow * sx
  BY Times
<1>2. PICK a \in Int, b \in Int : a = u - pt /\ b = v - pl
  OBVIOUS
<1>3. Corner(oh, sy, pt) = a /\ Corner(ow, sx, pl) = b
  BY <1>1, <1>2 DEF Corner
<1> DEFINE K == (0 .. (KH - 1)) \X (0 .. (KW - 1))
           y(q) == oh * sy + q[1] - pt
           z(q) == ow * sx + q[2] - pl
           Q == {q \in K : y(q) \in 0 .. (H - 1) /\ z(q) \in 0 .. (W - 1)}
           P == Covered(H, W, KH, KW, a, b)
<1>4. \A q \in K : y(q) = a + q[1] /\ z(q) = b + q[2]
  <2> TAKE q \in K
  <2>1. PICK i \in Int, j \in Int : i = q[1] /\ j = q[2]
    OBVIOUS
  <2>2. oh * sy + i - pt = a + i /\ ow * sx + j - pl = b + j
    BY <1>1, <1>2
  <2> QED BY <2>1, <2>2
<1>5. Window(oh, ow, c, H, W, C, KH, KW, sy, sx, pt, pl) = {At(y(q), z(q), c, W, C) : q \in Q}
  BY DEF Window
<1> HIDE DEF y, z, K
<1>6. Q = Inner(H, W, KH, KW, a, b)
  BY <1>4 DEF Inner, K
<1>7. \A q \in Q : y(q) = a + q[1] /\ z(q) = b + q[2]
  BY <1>4
<1> HIDE DEF Q
<1>8. {<<a + q[1], b + q[2]>> : q \in Q} = P
  <2>1. CoveredAs(H, W, KH, KW, a, b)
    BY CoveredIs
  <2> QED BY <1>6, <2>1 DEF CoveredAs, P
<1> HIDE DEF P
<1>9. {At(y(q), z(q), c, W, C) : q \in Q} = {At(p[1], p[2], c, W, C) : p \in P}
  <2> DEFINE A(i, j) == At(i, j, c, W, C)
             F(q) == <<a + q[1], b + q[2]>>
  <2>1. \A q \in Q : A(y(q), z(q)) = A(F(q)[1], F(q)[2])
    BY <1>7
  <2>2. {F(q) : q \in Q} = P
    BY <1>8
  <2> HIDE DEF A, F
  <2>3. {A(y(q), z(q)) : q \in Q} = {A(p[1], p[2]) : p \in P}
    BY <2>1, <2>2
  <2> QED BY <2>3 DEF A
<1> QED BY <1>3, <1>5, <1>9 DEF OffsetsOf, P

Grid(H, W) == (0 .. (H - 1)) \X (0 .. (W - 1))
CountedOnce(P, c, W, C) == Cardinality(OffsetsOf(P, c, W, C)) = Cardinality(P)

\* No two pixels have one offset.
LEMMA OffsetsCount ==
    ASSUME NEW H \in Nat, NEW W \in Nat, NEW C \in Nat, NEW c \in Nat, c < C,
           NEW P \in SUBSET Grid(H, W), IsFiniteSet(P)
    PROVE  CountedOnce(P, c, W, C)
<1> DEFINE T == OffsetsOf(P, c, W, C)
           g == [p \in P |-> At(p[1], p[2], c, W, C)]
<1>1. g \in Surjection(P, T)
  BY DEF Surjection, OffsetsOf
<1>2. IsFiniteSet(T)
  <2> HIDE DEF g, T
  <2> QED BY <1>1, FS_Surjection
<1>3. \A p, r \in P : g[p] = g[r] => p = r
  <2> TAKE p, r \in P
  <2> HAVE g[p] = g[r]
  <2>1. PICK h \in Nat, w \in Nat, y \in Nat, z \in Nat :
           h = p[1] /\ w = p[2] /\ y = r[1] /\ z = r[2] /\ w < W /\ z < W /\ p = <<h, w>> /\ r = <<y, z>>
    BY DEF Grid
  <2>2. At(h, w, c, W, C) = At(y, z, c, W, C)
    BY <2>1
  <2>3. SameOffset(W, C, h, w, c, y, z, c)
    BY <2>2 DEF SameOffset, At
  <2>4. h = y /\ w = z
    <3>1. w < W /\ z < W
      BY <2>1
    <3>2. /\ h \in Nat /\ w \in Nat /\ y \in Nat /\ z \in Nat /\ c < C
          /\ W \in Nat /\ C \in Nat /\ c \in Nat
      OBVIOUS
    <3> QED BY ONLY <2>3, <3>1, <3>2, DigitsUnique
  <2> QED BY <2>1, <2>4
<1>4. g \in Injection(P, T)
  BY <1>1, <1>3 DEF Injection, IsInjective, Surjection
<1> HIDE DEF g, T
<1> QED BY <1>1, <1>2, <1>4, FS_Injection DEF T, CountedOnce

\* The elements of a channel under a window, as the operator's meaning has them
Under(in, e, KH, KW, a, b) ==
    {y \in Coords(in) : y[1] = 0 /\ y[4] = e /\ y[2] - a \in 0 .. (KH - 1) /\ y[3] - b \in 0 .. (KW - 1)}
UnderAt(in, e, KH, KW, a, b) ==
    LET P == Covered(in[2], in[3], KH, KW, a, b) IN
    /\ {Flat(y, in) : y \in Under(in, e, KH, KW, a, b)} = OffsetsOf(P, e, in[3], in[4])
    /\ Cardinality(Under(in, e, KH, KW, a, b)) = Cardinality(P)

\* They are those of the pixels it covers, one each.
LEMMA UnderIs ==
    ASSUME NEW in \in Seq(Nat), Len(in) = 4, in[1] = 1, NEW e \in Nat, e < in[4],
           NEW KH \in Nat, NEW KW \in Nat, NEW a \in Int, NEW b \in Int
    PROVE  UnderAt(in, e, KH, KW, a, b)
<1>1. PICK H \in Nat, W \in Nat, C \in Nat : H = in[2] /\ W = in[3] /\ C = in[4]
  <2>1. DOMAIN in = 1 .. 4 /\ \A d \in DOMAIN in : in[d] \in Nat
    BY ShapeDomain
  <2>2. in[2] \in Nat /\ in[3] \in Nat /\ in[4] \in Nat
    BY <2>1
  <2> QED BY <2>2
<1> DEFINE Y == Under(in, e, KH, KW, a, b)
           P == Covered(H, W, KH, KW, a, b)
           pix(y) == <<y[2], y[3]>>
           z(p) == PixelIn(e, p[1], p[2])
           flat(y) == Flat(y, in)
           at(p) == At(p[1], p[2], e, W, C)
<1>0. /\ \A y \in ChannelOf(in, e) :
            /\ y \in Coordinates(in) /\ y[1] = 0 /\ y[4] = e
            /\ y[2] \in Nat /\ y[2] < H /\ y[3] \in Nat /\ y[3] < W
            /\ y = PixelIn(e, y[2], y[3])
      /\ \A h, w \in Nat : h < H /\ w < W => /\ PixelIn(e, h, w) \in ChannelOf(in, e)
                                            /\ PixelIn(e, h, w)[2] = h /\ PixelIn(e, h, w)[3] = w
  <2>1. /\ \A y \in ChannelOf(in, e) :
              /\ y \in Coordinates(in) /\ y[1] = 0 /\ y[4] = e
              /\ y[2] \in Nat /\ y[2] < in[2] /\ y[3] \in Nat /\ y[3] < in[3]
              /\ y = PixelIn(e, y[2], y[3])
        /\ \A h, w \in Nat : h < in[2] /\ w < in[3] =>
              /\ PixelIn(e, h, w) \in ChannelOf(in, e)
              /\ PixelIn(e, h, w)[2] = h /\ PixelIn(e, h, w)[3] = w
    BY ONLY in \in Seq(Nat), Len(in) = 4, in[1] = 1, e \in Nat, e < in[4], ChannelPixels
  <2> QED BY ONLY <1>1, <2>1
<1>2. ASSUME NEW y \in Y
      PROVE  /\ pix(y) \in P /\ y = z(pix(y)) /\ flat(y) = at(pix(y))
  <2>1. y \in ChannelOf(in, e) /\ y[2] - a \in 0 .. (KH - 1) /\ y[3] - b \in 0 .. (KW - 1)
    BY DEF Under, ChannelOf
  <2>2. /\ y \in Coordinates(in) /\ y[1] = 0 /\ y[4] = e
        /\ y[2] \in Nat /\ y[2] < H /\ y[3] \in Nat /\ y[3] < W
        /\ y = PixelIn(e, y[2], y[3])
    BY ONLY <1>0, <2>1
  <2>3. pix(y)[1] = y[2] /\ pix(y)[2] = y[3] /\ pix(y) \in (0 .. (H - 1)) \X (0 .. (W - 1))
    BY <2>2
  <2>4. Flat(y, in) = At(y[2], y[3], y[4], in[3], in[4])
    BY <2>2, ImageFlat
  <2> HIDE DEF pix
  <2> QED BY <1>1, <2>1, <2>2, <2>3, <2>4 DEF Covered
<1>3. ASSUME NEW p \in P
      PROVE  z(p) \in Y /\ pix(z(p)) = p
  <2>1. /\ p[1] \in Nat /\ p[1] < H /\ p[2] \in Nat /\ p[2] < W /\ p = <<p[1], p[2]>>
        /\ p[1] - a \in 0 .. (KH - 1) /\ p[2] - b \in 0 .. (KW - 1)
    BY DEF Covered
  <2>3. z(p) \in ChannelOf(in, e) /\ z(p)[2] = p[1] /\ z(p)[3] = p[2]
    BY <1>0, <2>1
  <2> HIDE DEF z
  <2> QED BY <2>1, <2>3 DEF Under, ChannelOf
<1>4. {flat(y) : y \in Y} = {at(p) : p \in P}
  <2> HIDE DEF flat, at, pix, z, Y, P
  <2> QED BY <1>2, <1>3
<1>5. Cardinality(Y) = Cardinality(P)
  <2> DEFINE g == [y \in Y |-> pix(y)]
  <2>1. IsFiniteSet(P)
    BY CoveredIs DEF CoveredAs
  <2>2. g \in [Y -> P]
    BY <1>2
  <2>3. \A y, v \in Y : g[y] = g[v] => y = v
    <3> TAKE y, v \in Y
    <3> HAVE g[y] = g[v]
    <3> HIDE DEF pix, z, Y, P
    <3>1. pix(y) = pix(v)
      OBVIOUS
    <3> QED BY <1>2, <3>1
  <2>4. \A p \in P : \E y \in Y : g[y] = p
    <3> HIDE DEF pix, z, Y, P
    <3> QED BY <1>3
  <2> HIDE DEF g, Y, P
  <2> QED BY <2>1, <2>2, <2>3, <2>4, SameCount
<1> QED BY <1>1, <1>4, <1>5 DEF UnderAt, OffsetsOf

\* What POOL reads for a pixel and a channel, and divides an average by
Pool(H, W, C, KH, KW, sy, sx, pt, pl, avg, h, w, e) ==
    LET P == Covered(H, W, KH, KW, Corner(h, sy, pt), Corner(w, sx, pl)) IN
    Reading(OffsetsOf(P, e, W, C), IF avg THEN Cardinality(P) ELSE 1)
PoolAt(in, p, lead, c) ==
    Pool(in[2], in[3], in[4], p.k[1], p.k[2], p.s[1], p.s[2], lead[1], lead[2], p.avg, c[2], c[3], c[4])

\* An image pooled into another, of a batch of one and of as many channels, not empty
Pools(in, out, p) ==
    /\ in \in Seq(Nat) /\ out \in Seq(Nat) /\ Len(in) = 4 /\ Len(out) = 4 /\ in[1] = 1 /\ out[1] = 1
    /\ in[4] = out[4] /\ out[2] > 0 /\ out[3] > 0
    /\ p.k \in Positive \X Positive /\ p.s \in Positive \X Positive
Leads(in, out, p) == [d \in {1, 2} |-> Lead(in[d + 1], p.k[d], p.s[d], out[d + 1])]
Pooled(in, out, p) ==
    Tensor(out, LAMBDA c :
        LET win == {y \in Coords(in) :
                       /\ y[1] = c[1] /\ y[4] = c[4]
                       /\ \A d \in {1, 2} : y[d + 1] + Lead(in[d + 1], p.k[d], p.s[d], out[d + 1])
                                              - c[d + 1] * p.s[d] \in 0 .. (p.k[d] - 1)}
        IN  Term({<<Elem(1, y, in)>> : y \in win}, IF p.avg THEN Cardinality(win) ELSE 1))
PoolTyped(in, out, p) ==
    /\ in[2] \in Nat /\ in[3] \in Nat /\ in[4] \in Nat /\ out[2] \in Nat /\ out[3] \in Nat
    /\ \A d \in {1, 2} : /\ p.k[d] \in Nat /\ p.k[d] > 0 /\ p.s[d] \in Nat /\ p.s[d] > 0
                         /\ Leads(in, out, p)[d] \in Nat
                         /\ Leads(in, out, p)[d] = rocket_total_pad(in[d + 1], p.k[d], p.s[d], out[d + 1]) \div 2
                         /\ rocket_total_pad(in[d + 1], p.k[d], p.s[d], out[d + 1]) \in Nat
    /\ Cells(out) = 0 .. ((out[2] * out[3]) * in[4] - 1)

\* The extents, the window and its padding are naturals.
LEMMA PoolNumbers ==
    ASSUME NEW in, NEW out, NEW p, Pools(in, out, p)
    PROVE  PoolTyped(in, out, p)
<1>1. in \in Seq(Nat) /\ out \in Seq(Nat) /\ Len(in) = 4 /\ Len(out) = 4 /\ out[1] = 1 /\ in[4] = out[4]
  BY DEF Pools
<1>2. DOMAIN in = 1 .. 4 /\ DOMAIN out = 1 .. 4 /\ \A d \in 1 .. 4 : in[d] \in Nat /\ out[d] \in Nat
  BY <1>1, ShapeDomain
<1>3. PICK H \in Nat, W \in Nat, C \in Nat : H = out[2] /\ W = out[3] /\ C = out[4]
  BY <1>2
<1>4. Cells(out) = 0 .. ((out[2] * out[3]) * in[4] - 1)
  <2>1. Count(out) = 1 * (H * (W * C))
    BY <1>1, <1>3, CountImage
  <2>2. Count(out) = (H * W) * C
    BY <2>1
  <2> QED BY <1>1, <1>3, <2>2 DEF Cells
<1>5. \A d \in {1, 2} : p.k[d] \in Nat /\ p.k[d] > 0 /\ p.s[d] \in Nat /\ p.s[d] > 0
  BY DEF Pools, Positive
<1>6. ASSUME NEW d \in {1, 2}
      PROVE  /\ Leads(in, out, p)[d] \in Nat
             /\ Leads(in, out, p)[d] = rocket_total_pad(in[d + 1], p.k[d], p.s[d], out[d + 1]) \div 2
             /\ rocket_total_pad(in[d + 1], p.k[d], p.s[d], out[d + 1]) \in Nat
  <2>1. in[d + 1] \in Nat /\ out[d + 1] \in Nat /\ out[d + 1] > 0
    BY <1>2 DEF Pools
  <2>2. PICK i \in Nat, k \in Nat, s \in Nat, o \in Nat :
           i = in[d + 1] /\ k = p.k[d] /\ s = p.s[d] /\ o = out[d + 1] /\ o > 0
    BY <1>5, <2>1
  <2>3. /\ rocket_total_pad(i, k, s, o) \in Nat
        /\ Lead(i, k, s, o) = rocket_total_pad(i, k, s, o) \div 2 /\ Lead(i, k, s, o) \in Nat
    <3>1. o > 0
      BY <2>2
    <3> QED BY ONLY <3>1, i \in Nat, k \in Nat, s \in Nat, o \in Nat, LeadIs
  <2>4. Leads(in, out, p)[d] = Lead(i, k, s, o)
    BY <2>2 DEF Leads
  <2> QED BY <2>2, <2>3, <2>4
<1> QED BY <1>2, <1>4, <1>5, <1>6 DEF PoolTyped

\* A POOL takes, for each pixel and channel, what its window covers.
LEMMA PooledIs ==
    ASSUME NEW in, NEW out, NEW p, Pools(in, out, p)
    PROVE  Pooled(in, out, p) = [k \in Cells(out) |-> PoolAt(in, p, Leads(in, out, p), CoordAt(out, k))]
<1> DEFINE L == Leads(in, out, p)
           win(c) == {y \in Coords(in) :
                        /\ y[1] = c[1] /\ y[4] = c[4]
                        /\ \A d \in {1, 2} : y[d + 1] + Lead(in[d + 1], p.k[d], p.s[d], out[d + 1])
                                               - c[d + 1] * p.s[d] \in 0 .. (p.k[d] - 1)}
           V(c) == Term({<<Elem(1, y, in)>> : y \in win(c)}, IF p.avg THEN Cardinality(win(c)) ELSE 1)
<1>1. Pooled(in, out, p) = [k \in Range(Offsets(out)) |-> V(CoordAt(out, k))]
  BY DEF Pooled, Tensor, Offsets, CoordAt
<1>2. in \in Seq(Nat) /\ out \in Seq(Nat) /\ Len(in) = 4 /\ Len(out) = 4 /\ out[1] = 1 /\ in[1] = 1 /\ in[4] = out[4]
  BY DEF Pools
<1>3. Range(Offsets(out)) = Cells(out)
  BY <1>2, TensorAt
<1>4. PoolTyped(in, out, p)
  BY PoolNumbers
<1>5. ASSUME NEW k \in Cells(out) PROVE V(CoordAt(out, k)) = PoolAt(in, p, L, CoordAt(out, k))
  <2> DEFINE c == CoordAt(out, k)
  <2>1. c \in Coordinates(out) /\ c[1] = 0
    BY <1>2, PixelAt
  <2> HIDE DEF c, L
  <2>2. PICK h \in Nat, w \in Nat, e \in Nat :
           h = c[2] /\ w = c[3] /\ e = c[4] /\ e < in[4] /\ h < out[2] /\ w < out[3]
    <3>1. \A d \in 1 .. 4 : c[d] \in Nat /\ c[d] < out[d]
      BY <1>2, <2>1, CoordTyped, ShapeDomain
    <3> QED BY ONLY <1>2, <3>1
  <2>3. PICK KH \in Nat, KW \in Nat, sy \in Nat, sx \in Nat, pt \in Nat, pl \in Nat :
           KH = p.k[1] /\ KW = p.k[2] /\ sy = p.s[1] /\ sx = p.s[2] /\ pt = L[1] /\ pl = L[2]
    BY <1>4 DEF PoolTyped, L
  <2>4. /\ Lead(in[1 + 1], p.k[1], p.s[1], out[1 + 1]) = pt
        /\ Lead(in[2 + 1], p.k[2], p.s[2], out[2 + 1]) = pl
    BY <2>3 DEF L, Leads
  <2>5. PICK u \in Nat, v \in Nat : u = h * sy /\ v = w * sx
    BY Times
  <2>6. PICK a \in Int, b \in Int : a = u - pt /\ b = v - pl
    OBVIOUS
  <2>7. Corner(h, sy, pt) = a /\ Corner(w, sx, pl) = b
    BY <2>5, <2>6 DEF Corner
  <2>8. win(c) = Under(in, e, KH, KW, a, b)
    <3>1. ASSUME NEW y \in Coords(in)
          PROVE  (\A d \in {1, 2} : y[d + 1] + Lead(in[d + 1], p.k[d], p.s[d], out[d + 1])
                                      - c[d + 1] * p.s[d] \in 0 .. (p.k[d] - 1))
                   <=> y[2] - a \in 0 .. (KH - 1) /\ y[3] - b \in 0 .. (KW - 1)
      <4>1. PICK i \in Nat, j \in Nat : i = y[2] /\ j = y[3]
        <5>1. y \in Coordinates(in)
          BY <1>2, CoordsAre
        <5>2. \A d \in DOMAIN in : y[d] \in Nat
          BY <1>2, <5>1, CoordTyped
        <5>3. DOMAIN in = 1 .. 4
          BY <1>2, ShapeDomain
        <5> QED BY <5>2, <5>3
      <4>2. (\A d \in {1, 2} : y[d + 1] + Lead(in[d + 1], p.k[d], p.s[d], out[d + 1])
                                 - c[d + 1] * p.s[d] \in 0 .. (p.k[d] - 1))
              <=> /\ y[1 + 1] + Lead(in[1 + 1], p.k[1], p.s[1], out[1 + 1])
                       - c[1 + 1] * p.s[1] \in 0 .. (p.k[1] - 1)
                  /\ y[2 + 1] + Lead(in[2 + 1], p.k[2], p.s[2], out[2 + 1])
                       - c[2 + 1] * p.s[2] \in 0 .. (p.k[2] - 1)
        OBVIOUS
      <4>3. /\ y[1 + 1] + Lead(in[1 + 1], p.k[1], p.s[1], out[1 + 1]) - c[1 + 1] * p.s[1] = i + pt - u
            /\ y[2 + 1] + Lead(in[2 + 1], p.k[2], p.s[2], out[2 + 1]) - c[2 + 1] * p.s[2] = j + pl - v
        <5>1. y[1 + 1] = i /\ y[2 + 1] = j /\ c[1 + 1] = h /\ c[2 + 1] = w
          BY <2>2, <4>1
        <5> QED BY <2>3, <2>4, <2>5, <5>1
      <4>4. i + pt - u = i - a /\ j + pl - v = j - b
        BY <2>6
      <4> QED BY <2>3, <4>1, <4>2, <4>3, <4>4
    <3> QED BY <2>1, <2>2, <3>1 DEF Under
  <2> HIDE DEF win
  <2>9. UnderAt(in, e, KH, KW, a, b)
    BY ONLY <1>2, <2>2, KH \in Nat, KW \in Nat, a \in Int, b \in Int, e \in Nat, UnderIs
  <2> DEFINE P == Covered(in[2], in[3], KH, KW, a, b)
             Y == Under(in, e, KH, KW, a, b)
  <2>10. {Flat(y, in) : y \in Y} = OffsetsOf(P, e, in[3], in[4]) /\ Cardinality(Y) = Cardinality(P)
    BY <2>9 DEF UnderAt
  <2> HIDE DEF P, Y
  <2>11. V(c) = Reading(OffsetsOf(P, e, in[3], in[4]), IF p.avg THEN Cardinality(P) ELSE 1)
    <3>1. {<<Elem(1, y, in)>> : y \in Y} = {<< <<1, off>> >> : off \in {Flat(y, in) : y \in Y}}
      BY DEF Elem
    <3> QED BY <2>8, <2>10, <3>1 DEF Reading, Y
  <2>12. PoolAt(in, p, L, c) = Reading(OffsetsOf(P, e, in[3], in[4]), IF p.avg THEN Cardinality(P) ELSE 1)
    BY <2>2, <2>3, <2>7 DEF PoolAt, Pool, P
  <2> HIDE DEF V
  <2> QED BY <2>11, <2>12 DEF c
<1> HIDE DEF V, L
<1> QED BY <1>1, <1>3, <1>5 DEF L

\* The host's loops
LEMMA PoolHost ==
    ASSUME NEW in, NEW out, NEW p, Pools(in, out, p)
    PROVE  rocket_pool(in[2], in[3], in[4], out[2], out[3], p.k[1], p.k[2], p.s[1], p.s[2],
                       Leads(in, out, p)[1], Leads(in, out, p)[2], p.avg) = Pooled(in, out, p)
<1> DEFINE L == Leads(in, out, p)
           Q == Pixels(out[2], out[3], out[4])
           at(q) == At(q[1], q[2], q[3], out[3], out[4])
           W(q) == Window(q[1], q[2], q[3], in[2], in[3], in[4], p.k[1], p.k[2], p.s[1], p.s[2], L[1], L[2])
           what(q) == Term({<< <<1, off>> >> : off \in W(q)}, IF p.avg THEN Cardinality(W(q)) ELSE 1)
           f == rocket_pool(in[2], in[3], in[4], out[2], out[3], p.k[1], p.k[2], p.s[1], p.s[2], L[1], L[2], p.avg)
<1>1. f = [k \in {at(q) : q \in Q} |-> what(CHOOSE q \in Q : at(q) = k)]
  BY DEF rocket_pool, Scatter, Pools, Pixels
<1>2. out \in Seq(Nat) /\ Len(out) = 4 /\ out[1] = 1 /\ in[4] = out[4]
  BY DEF Pools
<1>3. {at(q) : q \in Q} = Cells(out)
  BY <1>2, PixelAt
<1>4. PoolTyped(in, out, p)
  BY PoolNumbers
<1>5. ASSUME NEW k \in Cells(out)
      PROVE  what(CHOOSE q \in Q : at(q) = k) = PoolAt(in, p, L, CoordAt(out, k))
  <2> DEFINE c == CoordAt(out, k)
             q == <<c[2], c[3], c[4]>>
  <2>1. (CHOOSE r \in Q : at(r) = k) = q /\ c \in Coordinates(out)
    BY <1>2, PixelAt
  <2> HIDE DEF Q, at, c, L
  <2>2. PICK h \in Nat, w \in Nat, e \in Nat : h = c[2] /\ w = c[3] /\ e = c[4] /\ e < in[4]
    <3>1. \A d \in 1 .. 4 : c[d] \in Nat /\ c[d] < out[d]
      BY <1>2, <2>1, CoordTyped, ShapeDomain
    <3> QED BY ONLY <1>2, <3>1
  <2>3. PICK H \in Nat, Z \in Nat, C \in Nat, KH \in Nat, KW \in Nat, sy \in Nat, sx \in Nat, pt \in Nat, pl \in Nat :
           /\ H = in[2] /\ Z = in[3] /\ C = in[4]
           /\ KH = p.k[1] /\ KW = p.k[2] /\ sy = p.s[1] /\ sx = p.s[2] /\ pt = L[1] /\ pl = L[2]
    BY <1>4 DEF PoolTyped, L
  <2> DEFINE P == Covered(H, Z, KH, KW, Corner(h, sy, pt), Corner(w, sx, pl))
  <2>4. W(q) = OffsetsOf(P, e, Z, C)
    <3>1. q[1] = h /\ q[2] = w /\ q[3] = e
      BY <2>2
    <3> HIDE DEF q
    <3>2. W(q) = Window(h, w, e, H, Z, C, KH, KW, sy, sx, pt, pl)
      BY <2>3, <3>1
    <3>3. Window(h, w, e, H, Z, C, KH, KW, sy, sx, pt, pl) = OffsetsOf(P, e, Z, C)
      BY WindowIs
    <3> QED BY <3>2, <3>3
  <2>5. Cardinality(OffsetsOf(P, e, Z, C)) = Cardinality(P)
    <3>1. Corner(h, sy, pt) \in Int /\ Corner(w, sx, pl) \in Int
      BY Times DEF Corner
    <3>2. IsFiniteSet(P)
      BY <3>1, CoveredIs DEF CoveredAs
    <3>3. P \in SUBSET Grid(H, Z)
      BY DEF Covered, Grid
    <3>4. e < C
      BY <2>2, <2>3
    <3> HIDE DEF P
    <3>5. CountedOnce(P, e, Z, C)
      BY ONLY <3>2, <3>3, <3>4, H \in Nat, Z \in Nat, C \in Nat, e \in Nat, OffsetsCount
    <3> QED BY <3>5 DEF CountedOnce
  <2>6. PoolAt(in, p, L, c) = Reading(OffsetsOf(P, e, Z, C), IF p.avg THEN Cardinality(P) ELSE 1)
    BY <2>2, <2>3 DEF PoolAt, Pool
  <2> HIDE DEF P, W, q
  <2>7. what(q) = Reading(OffsetsOf(P, e, Z, C), IF p.avg THEN Cardinality(P) ELSE 1)
    BY <2>4, <2>5 DEF Reading
  <2> HIDE DEF what
  <2> QED BY <2>1, <2>6, <2>7 DEF c
<1> HIDE DEF f, what, L
<1>6. f = [k \in Cells(out) |-> PoolAt(in, p, L, CoordAt(out, k))]
  <2> HIDE DEF at, Q
  <2> QED BY <1>1, <1>3, <1>5
<1> QED BY <1>6, PooledIs DEF f, L

\* The places of a window on a plane, as the NPU's loops compute them
PlaneWindow(H, W, KH, KW, sy, sx, pt, pl, h, w, e) ==
    {(e * H + h * sy + j[1] - pt) * W + w * sx + j[2] - pl :
        j \in {j \in (0 .. (KH - 1)) \X (0 .. (KW - 1)) :
                  h * sy + j[1] - pt \in 0 .. (H - 1) /\ w * sx + j[2] - pl \in 0 .. (W - 1)}}

PlaneWindowAt(H, W, KH, KW, sy, sx, pt, pl, h, w, e) ==
    PlaneWindow(H, W, KH, KW, sy, sx, pt, pl, h, w, e)
      = PlanesOf(Covered(H, W, KH, KW, Corner(h, sy, pt), Corner(w, sx, pl)), e, H, W)

\* They are those of the pixels covered.
LEMMA PlaneWindowIs ==
    ASSUME NEW H \in Nat, NEW W \in Nat, NEW KH \in Nat, NEW KW \in Nat, NEW e \in Nat,
           NEW h \in Nat, NEW w \in Nat, NEW sy \in Nat, NEW sx \in Nat, NEW pt \in Nat, NEW pl \in Nat
    PROVE  PlaneWindowAt(H, W, KH, KW, sy, sx, pt, pl, h, w, e)
<1>1. PICK u \in Nat, v \in Nat, m \in Nat : u = h * sy /\ v = w * sx /\ m = e * H
  BY Times
<1>2. PICK a \in Int, b \in Int : a = u - pt /\ b = v - pl
  OBVIOUS
<1>3. Corner(h, sy, pt) = a /\ Corner(w, sx, pl) = b
  BY <1>1, <1>2 DEF Corner
<1> DEFINE K == (0 .. (KH - 1)) \X (0 .. (KW - 1))
           y(j) == h * sy + j[1] - pt
           z(j) == w * sx + j[2] - pl
           Q == {j \in K : y(j) \in 0 .. (H - 1) /\ z(j) \in 0 .. (W - 1)}
           P == Covered(H, W, KH, KW, a, b)
           o(j) == (e * H + h * sy + j[1] - pt) * W + w * sx + j[2] - pl
           place(p) == PlaneOf(H, W, p[1], p[2], e)
           F(j) == <<a + j[1], b + j[2]>>
<1>4. ASSUME NEW j \in K PROVE y(j) = a + j[1] /\ z(j) = b + j[2] /\ o(j) = place(F(j))
  <2>1. PICK i \in Int, k \in Int : i = j[1] /\ k = j[2]
    OBVIOUS
  <2>2. h * sy + i - pt = a + i /\ w * sx + k - pl = b + k
    BY <1>1, <1>2
  <2>3. PICK r \in Int : r = (m + (a + i)) * W
    OBVIOUS
  <2>4. e * H + h * sy + i - pt = m + (a + i)
    BY <1>1, <1>2
  <2>5. (e * H + h * sy + i - pt) * W = r
    BY <2>3, <2>4
  <2>6. (e * H + h * sy + i - pt) * W + w * sx + k - pl = r + (b + k)
    BY <1>1, <1>2, <2>5
  <2>7. place(F(j)) = r + (b + k)
    BY <1>1, <2>1, <2>3 DEF PlaneOf
  <2> QED BY <2>1, <2>2, <2>6, <2>7
<1>5. PlaneWindow(H, W, KH, KW, sy, sx, pt, pl, h, w, e) = {o(j) : j \in Q}
  BY DEF PlaneWindow
<1> HIDE DEF y, z, o, K, F, place
<1>6. Q = Inner(H, W, KH, KW, a, b)
  BY <1>4 DEF Inner, K
<1>7. \A j \in Q : o(j) = place(F(j))
  BY <1>4
<1> HIDE DEF Q
<1>8. {F(j) : j \in Q} = P
  <2>1. CoveredAs(H, W, KH, KW, a, b)
    BY CoveredIs
  <2> QED BY <1>6, <2>1 DEF CoveredAs, F
<1> HIDE DEF P
<1>9. {o(j) : j \in Q} = {place(p) : p \in P}
  BY <1>7, <1>8
<1> QED BY <1>3, <1>5, <1>9 DEF PlanesOf, P, place, PlaneWindowAt

StagedAt(H, W, C, e, P) ==
    /\ PlanesOf(P, e, H, W) \subseteq DOMAIN ChwOf(H * W, C)
    /\ {ChwOf(H * W, C)[off] : off \in PlanesOf(P, e, H, W)} = OffsetsOf(P, e, W, C)

\* What was staged at them are the pixels' own elements.
LEMMA PlanesStaged ==
    ASSUME NEW H \in Nat, NEW W \in Nat, NEW C \in Nat, NEW e \in Nat, e < C, NEW P \in SUBSET Grid(H, W)
    PROVE  StagedAt(H, W, C, e, P)
<1> DEFINE buf == ChwOf(H * W, C)
           place(p) == PlaneOf(H, W, p[1], p[2], e)
           at(p) == At(p[1], p[2], e, W, C)
<1>1. ASSUME NEW p \in P PROVE place(p) \in DOMAIN buf /\ buf[place(p)] = at(p)
  <2>1. PICK h \in Nat, w \in Nat : h = p[1] /\ w = p[2] /\ h < H /\ w < W
    BY DEF Grid
  <2>2. h < H /\ w < W /\ e < C
    BY <2>1
  <2>3. /\ PlaneOf(H, W, h, w, e) \in DOMAIN ChwOf(H * W, C)
        /\ ChwOf(H * W, C)[PlaneOf(H, W, h, w, e)] = At(h, w, e, W, C)
    BY ONLY <2>2, H \in Nat, W \in Nat, C \in Nat, h \in Nat, w \in Nat, e \in Nat, PlaneAt
  <2> QED BY <2>1, <2>3
<1> HIDE DEF buf, place, at
<1>2. {buf[off] : off \in {place(p) : p \in P}} = {at(p) : p \in P}
  BY <1>1
<1> QED BY <1>1, <1>2 DEF PlanesOf, OffsetsOf, buf, place, at, StagedAt

\* An unpadded window is inside the image.
LEMMA UnpaddedInside ==
    ASSUME NEW in \in Nat, NEW k \in Nat, NEW s \in Nat, NEW out \in Nat, rocket_total_pad(in, k, s, out) = 0,
           NEW o \in Nat, o < out
    PROVE  Corner(o, s, 0) \in Nat /\ Corner(o, s, 0) + k <= in
<1>1. PICK m \in Nat : out = o + 1 + m /\ out - 1 = o + m
  <2>1. out - 1 - o \in Nat /\ out = o + 1 + (out - 1 - o) /\ out - 1 = o + (out - 1 - o)
    OBVIOUS
  <2> QED BY <2>1
<1>2. o * s \in Nat /\ m * s \in Nat /\ (o + m) * s = o * s + m * s
  BY Times
<1>3. (o + m) * s + k - in <= 0
  <2> DEFINE t == (o + m) * s + k - in
  <2>1. rocket_total_pad(in, k, s, out) = Larger(t, 0) /\ t \in Int
    BY <1>1, <1>2 DEF rocket_total_pad
  <2> HIDE DEF t
  <2>2. t <= 0
    BY <2>1 DEF Larger
  <2> QED BY <2>2 DEF t
<1> QED BY <1>2, <1>3 DEF Corner

\* And the NPU's, through channel planes: an average it divides by the whole window,
\* which is what the window covers where nothing is padded.
LEMMA PoolPlanes ==
    ASSUME NEW in, NEW out, NEW p, Pools(in, out, p),
           p.avg => \A d \in {1, 2} : rocket_total_pad(in[d + 1], p.k[d], p.s[d], out[d + 1]) = 0
    PROVE  FromChw(Through(rocket_pool_fp16(in[4], in[2], in[3], out[2], out[3], p.k[1], p.k[2], p.s[1], p.s[2],
                                            Leads(in, out, p)[1], Leads(in, out, p)[2], p.avg),
                           1, ChwOf(in[2] * in[3], in[4])),
                   out[2] * out[3], in[4]) = Pooled(in, out, p)
<1> DEFINE L == Leads(in, out, p)
<1>1. PoolTyped(in, out, p)
  BY PoolNumbers
<1>2. PICK H \in Nat, W \in Nat, C \in Nat, OH \in Nat, OW \in Nat, KH \in Nat, KW \in Nat,
           sy \in Nat, sx \in Nat, pt \in Nat, pl \in Nat :
         /\ H = in[2] /\ W = in[3] /\ C = in[4] /\ OH = out[2] /\ OW = out[3]
         /\ KH = p.k[1] /\ KW = p.k[2] /\ sy = p.s[1] /\ sx = p.s[2] /\ pt = L[1] /\ pl = L[2]
  BY <1>1 DEF PoolTyped
<1>3. out \in Seq(Nat) /\ Len(out) = 4 /\ out[1] = 1 /\ C = out[4]
  BY <1>2 DEF Pools
<1> DEFINE f == rocket_pool_fp16(C, H, W, OH, OW, KH, KW, sy, sx, pt, pl, p.avg)
           buf == ChwOf(H * W, C)
           Q == Pixels(C, OH, OW)
           dst(q) == PlaneOf(OH, OW, q[2], q[3], q[1])
           area == KH * KW
           by == IF p.avg THEN area ELSE 1
           win(q) == PlaneWindow(H, W, KH, KW, sy, sx, pt, pl, q[2], q[3], q[1])
           what(q) == Reading(win(q), by)
           g == FromChw(Through(f, 1, buf), OH * OW, C)
<1>4. f = [m \in {dst(q) : q \in Q} |-> what(CHOOSE q \in Q : dst(q) = m)]
  <2> DEFINE J(q) == {j \in (0 .. (KH - 1)) \X (0 .. (KW - 1)) :
                        q[2] * sy + j[1] - pt \in 0 .. (H - 1) /\ q[3] * sx + j[2] - pl \in 0 .. (W - 1)}
             off(q, j) == (q[1] * H + q[2] * sy + j[1] - pt) * W + q[3] * sx + j[2] - pl
             old(q) == Term({<< <<1, off(q, j)>> >> : j \in J(q)}, by)
  <2>1. f = [m \in {dst(q) : q \in Q} |-> old(CHOOSE q \in Q : dst(q) = m)]
    BY DEF rocket_pool_fp16, Scatter, Pixels, PlaneOf
  <2>2. \A q : old(q) = what(q)
    <3> TAKE q
    <3>1. win(q) = {off(q, j) : j \in J(q)}
      BY DEF PlaneWindow
    <3> HIDE DEF win, off, J, by
    <3>2. {<< <<1, off(q, j)>> >> : j \in J(q)} = {<< <<1, k>> >> : k \in win(q)}
      BY <3>1
    <3> QED BY <3>2 DEF Reading
  <2> HIDE DEF f, old, what, dst, Q
  <2> QED BY <2>1, <2>2
<1>5. Pooled(in, out, p) = [k \in Cells(out) |-> PoolAt(in, p, L, CoordAt(out, k))]
  BY PooledIs
<1>6. Cells(out) = 0 .. ((OH * OW) * C - 1)
  BY <1>1, <1>2 DEF PoolTyped
<1>7. g = [k \in Cells(out) |-> g[k]]
  <2>1. g = [k \in 0 .. ((OH * OW) * C - 1) |-> Through(f, 1, buf)[InChw(k, OH * OW, C)]]
    BY DEF FromChw
  <2> HIDE DEF g
  <2> QED BY <1>6, <2>1
<1> HIDE DEF f, buf, g, L
<1>8. ASSUME NEW k \in Cells(out) PROVE g[k] = PoolAt(in, p, L, CoordAt(out, k))
  <2> DEFINE c == CoordAt(out, k)
  <2>1. <<c[2], c[3], c[4]>> \in Pixels(OH, OW, C) /\ k = At(c[2], c[3], c[4], OW, C)
    BY <1>2, <1>3, PixelAt
  <2> HIDE DEF c
  <2>2. PICK h \in Nat, w \in Nat, e \in Nat : h = c[2] /\ w = c[3] /\ e = c[4] /\ h < OH /\ w < OW /\ e < C
    <3> DEFINE v == <<c[2], c[3], c[4]>>
    <3>1. v[1] = c[2] /\ v[2] = c[3] /\ v[3] = c[4]
      OBVIOUS
    <3>2. v[1] \in Nat /\ v[2] \in Nat /\ v[3] \in Nat /\ v[1] < OH /\ v[2] < OW /\ v[3] < C
      <4> HIDE DEF v
      <4> QED BY <2>1, PixelOf DEF v
    <3> HIDE DEF v
    <3> QED BY <3>1, <3>2
  <2> DEFINE m == PlaneOf(OH, OW, h, w, e)
             P == Covered(H, W, KH, KW, Corner(h, sy, pt), Corner(w, sx, pl))
             offs == PlanesOf(P, e, H, W)
  <2>3. <<e, h, w>> \in Q /\ (CHOOSE q \in Q : dst(q) = m) = <<e, h, w>>
    <3>1. OH \in Nat /\ OW \in Nat /\ C \in Nat
      OBVIOUS
    <3>2. PlaneFound(OH, OW, C, h, w, e)
      BY ONLY <2>2, <3>1, PlaneChosen
    <3> QED BY <3>2 DEF PlaneFound
  <2>4. m \in DOMAIN f /\ f[m] = Reading(offs, by)
    <3> DEFINE v == <<e, h, w>>
    <3>1. v[1] = e /\ v[2] = h /\ v[3] = w
      OBVIOUS
    <3>2. PlaneWindow(H, W, KH, KW, sy, sx, pt, pl, h, w, e) = offs
      <4>1. PlaneWindowAt(H, W, KH, KW, sy, sx, pt, pl, h, w, e)
        BY PlaneWindowIs
      <4> QED BY <4>1 DEF PlaneWindowAt
    <3>3. dst(v) = m /\ what(v) = Reading(offs, by)
      BY <3>1, <3>2
    <3> HIDE DEF v, dst, what, Q, m, offs, by
    <3>4. v \in Q /\ (CHOOSE q \in Q : dst(q) = m) = v
      BY <2>3 DEF v
    <3> QED BY <1>4, <3>3, <3>4
  <2>5. P \in SUBSET Grid(H, W) /\ e < C
    BY <2>2 DEF Covered, Grid
  <2> HIDE DEF P
  <2>6. offs \subseteq DOMAIN buf /\ {buf[off] : off \in offs} = OffsetsOf(P, e, W, C)
    <3>1. StagedAt(H, W, C, e, P)
      BY ONLY <2>5, H \in Nat, W \in Nat, C \in Nat, e \in Nat, PlanesStaged
    <3> QED BY <3>1 DEF buf, StagedAt
  <2> HIDE DEF m, offs, Q, by
  <2>7. g[At(h, w, e, OW, C)] = Reading({buf[o] : o \in offs}, by)
    <3>1. OH \in Nat /\ OW \in Nat /\ C \in Nat /\ Fetches(f, PlaneOf(OH, OW, h, w, e), buf, offs, by)
      BY <2>4, <2>6 DEF m, Fetches
    <3>2. Unstaged(f, buf, OH, OW, C)[At(h, w, e, OW, C)] = ReadingOf(buf, offs, by)
      <4>1. h \in Nat /\ w \in Nat /\ e \in Nat /\ h < OH /\ w < OW /\ e < C
        BY <2>2
      <4>2. PlaneReads(f, buf, OH, OW, C, At(h, w, e, OW, C), ReadingOf(buf, offs, by))
        BY ONLY <4>1, <3>1, ThroughPlanes
      <4> QED BY ONLY <4>2 DEF PlaneReads
    <3> QED BY <3>2 DEF g, Unstaged, ReadingOf
  <2>8. by = IF p.avg THEN Cardinality(P) ELSE 1
    <3>1. ASSUME p.avg PROVE Cardinality(P) = area
      <4>1. rocket_total_pad(H, KH, sy, OH) = 0 /\ rocket_total_pad(W, KW, sx, OW) = 0
        <5>1. \A d \in {1, 2} : rocket_total_pad(in[d + 1], p.k[d], p.s[d], out[d + 1]) = 0
          BY <3>1
        <5>2. /\ rocket_total_pad(in[1 + 1], p.k[1], p.s[1], out[1 + 1]) = 0
              /\ rocket_total_pad(in[2 + 1], p.k[2], p.s[2], out[2 + 1]) = 0
          BY <5>1
        <5> QED BY <1>2, <5>2
      <4>2. pt = 0 /\ pl = 0
        <5>1. /\ L[1] = rocket_total_pad(in[1 + 1], p.k[1], p.s[1], out[1 + 1]) \div 2
              /\ L[2] = rocket_total_pad(in[2 + 1], p.k[2], p.s[2], out[2 + 1]) \div 2
          BY <1>1 DEF PoolTyped, L
        <5>2. L[1] = 0 \div 2 /\ L[2] = 0 \div 2
          BY <1>2, <4>1, <5>1
        <5> QED BY <1>2, <5>2
      <4>3. /\ Corner(h, sy, 0) \in Nat /\ Corner(h, sy, 0) + KH <= H
            /\ Corner(w, sx, 0) \in Nat /\ Corner(w, sx, 0) + KW <= W
        BY <2>2, <4>1, UnpaddedInside
      <4>4. PICK a \in Nat, b \in Nat : a = Corner(h, sy, 0) /\ b = Corner(w, sx, 0) /\ a + KH <= H /\ b + KW <= W
        BY <4>3
      <4>5. Cardinality(Covered(H, W, KH, KW, a, b)) = KH * KW
        <5>1. a >= 0 /\ b >= 0 /\ a + KH <= H /\ b + KW <= W /\ a \in Int /\ b \in Int
          BY <4>4
        <5>2. CoveredAs(H, W, KH, KW, a, b)
          BY ONLY <5>1, H \in Nat, W \in Nat, KH \in Nat, KW \in Nat, CoveredIs
        <5> QED BY <5>1, <5>2 DEF CoveredAs
      <4> QED BY <4>2, <4>4, <4>5 DEF P
    <3> HIDE DEF area
    <3> QED BY <3>1 DEF by
  <2>9. PoolAt(in, p, L, c) = Reading(OffsetsOf(P, e, W, C), IF p.avg THEN Cardinality(P) ELSE 1)
    BY <1>2, <2>2 DEF PoolAt, Pool, P
  <2>10. g[k] = Reading(OffsetsOf(P, e, W, C), by)
    BY <2>1, <2>2, <2>6, <2>7
  <2> QED BY <2>8, <2>9, <2>10 DEF c
<1>9. g = Pooled(in, out, p)
  <2> HIDE DEF by
  <2> QED BY <1>5, <1>7, <1>8
<1> QED BY <1>2, <1>9 DEF g, f, buf, L

\* AVERAGE_POOL_2D and MAX_POOL_2D, of a batch of one
LEMMA PoolAnswers ==
    ASSUME NEW n, NEW buf, Sound(n, buf), n.op = "pool", buf.ins[1][1] = 1,
           NEW board, eval_pool(n, buf, board).ok
    PROVE  Means(n, eval_pool(n, buf, board), buf.ins)
<1> DEFINE in == buf.ins[1]
           o == buf.outs[1]
           p == n.p
           tot(d) == rocket_total_pad(in[d], p.k[d - 1], p.s[d - 1], o[d])
           bad == \/ o[4] # in[4]
                  \/ \E d \in {2, 3} : rocket_out_dim(in[d], p.k[d - 1], p.s[d - 1], p.same) # o[d]
           npu == board /\ n.type = "float" /\ avg_ok(p.avg, tot(2), tot(3))
           planes == FromChw(Through(rocket_pool_fp16(in[4], in[2], in[3], o[2], o[3], p.k[1], p.k[2], p.s[1], p.s[2],
                                                      tot(2) \div 2, tot(3) \div 2, p.avg),
                                     1, ChwOf(in[2] * in[3], in[4])),
                             o[2] * o[3], in[4])
           host == rocket_pool(in[2], in[3], in[4], o[2], o[3], p.k[1], p.k[2], p.s[1], p.s[2],
                               tot(2) \div 2, tot(3) \div 2, p.avg)
           out == <<in[1], WindowCount(in[2], p.k[1], p.s[1], p.same), WindowCount(in[3], p.k[2], p.s[2], p.same), in[4]>>
           a == eval_pool(n, buf, board)
           T == Pooled(in, out, p)
<1>1. a = IF bad THEN Fails(<< >>) ELSE IF npu THEN Answer(<<planes>>, TRUE) ELSE Answer(<<host>>, FALSE)
  BY DEF eval_pool
<1>2. ~bad /\ a.outs = <<IF npu THEN planes ELSE host>>
  <2>1. bad \in BOOLEAN /\ a.ok
    OBVIOUS
  <2> HIDE DEF bad, planes, host, npu, a
  <2> QED BY <1>1, <2>1 DEF Fails, Answer
<1>3. in \in Seq(Nat) /\ Len(in) = 4
  BY InsTyped DEF Sound, Images4D
<1>4. in[1] = 1 /\ in[2] \in Nat /\ in[3] \in Nat /\ in[4] \in Nat
  <2>1. DOMAIN in = 1 .. 4 /\ \A d \in 1 .. 4 : in[d] \in Nat
    BY <1>3, ShapeDomain
  <2> QED BY ONLY <2>1, buf.ins[1][1] = 1
<1>5. p.k \in Positive \X Positive /\ p.s \in Positive \X Positive
  BY DEF Sound, Situation, WellFormed, Attributes
<1>6. \A d \in {1, 2} : p.k[d] \in Nat /\ p.s[d] \in Nat /\ p.s[d] > 0
  BY <1>5 DEF Positive
<1>7. /\ WindowCount(in[2], p.k[1], p.s[1], p.same) = o[2]
      /\ WindowCount(in[3], p.k[2], p.s[2], p.same) = o[3]
  <2>1. ASSUME NEW d \in {2, 3}, NEW e \in {1, 2}, e = d - 1
        PROVE  WindowCount(in[d], p.k[e], p.s[e], p.same) = o[d]
    <3>1. rocket_out_dim(in[d], p.k[e], p.s[e], p.same) = o[d]
      BY <1>2, <2>1
    <3>2. PICK i \in Nat, k \in Nat, s \in Nat : i = in[d] /\ k = p.k[e] /\ s = p.s[e] /\ s > 0
      <4>1. in[d] \in Nat
        BY <1>4
      <4> QED BY <1>6, <4>1
    <3> HIDE DEF o, p, in
    <3>3. s > 0
      BY <3>2
    <3>4. WindowCount(i, k, s, p.same) = rocket_out_dim(i, k, s, p.same)
      BY ONLY <3>3, i \in Nat, k \in Nat, s \in Nat, WindowsAre
    <3> QED BY <3>1, <3>2, <3>4
  <2>2. 2 - 1 = 1 /\ 3 - 1 = 2
    OBVIOUS
  <2> HIDE DEF o, p, in
  <2> QED BY <2>1, <2>2
<1>8. o[2] > 0 /\ o[3] > 0
  BY DEF Sound
<1>9. o[2] \in Nat /\ o[3] \in Nat
  <2>1. ASSUME NEW i \in Nat, NEW k \in Nat, NEW s \in Nat, s > 0, NEW same
        PROVE  WindowCount(i, k, s, same) \in Nat
    <3>1. CASE same
      <4>1. CeilDiv(i, s) \in Nat
        <5>1. i + s - 1 \in Nat
          BY <2>1
        <5> QED BY <2>1, <5>1 DEF CeilDiv
      <4> QED BY <3>1, <4>1 DEF WindowCount
    <3>2. CASE ~same
      <4> DEFINE O == {j \in 0 .. i : j * s + k <= i}
      <4>1. IsFiniteSet(0 .. i)
        <5>1. 0 \in Int /\ i \in Int
          OBVIOUS
        <5> QED BY <5>1, FS_Interval
      <4>2. IsFiniteSet(O)
        BY <4>1, FS_Subset
      <4>3. WindowCount(i, k, s, same) = Cardinality(O)
        BY <3>2 DEF WindowCount
      <4> HIDE DEF O
      <4> QED BY <4>2, <4>3, FS_CardinalityType
    <3> QED BY <3>1, <3>2
  <2> HIDE DEF o, p, in
  <2> QED BY <1>4, <1>6, <1>7, <2>1
<1> HIDE DEF in, o
<1>10. out[1] = 1 /\ out[2] = o[2] /\ out[3] = o[3] /\ out[4] = in[4] /\ Len(out) = 4 /\ out \in Seq(Nat)
  <2>1. out = <<1, o[2], o[3], in[4]>>
    BY <1>4, <1>7
  <2> HIDE DEF out
  <2> QED BY <1>4, <1>9, <2>1
<1> HIDE DEF out
<1>11. Pools(in, out, p)
  BY <1>3, <1>4, <1>5, <1>8, <1>10 DEF Pools
<1>12. /\ Leads(in, out, p)[1] = tot(2) \div 2 /\ Leads(in, out, p)[2] = tot(3) \div 2
  <2>1. PoolTyped(in, out, p)
    BY <1>11, PoolNumbers
  <2>2. /\ Leads(in, out, p)[1] = rocket_total_pad(in[1 + 1], p.k[1], p.s[1], out[1 + 1]) \div 2
        /\ Leads(in, out, p)[2] = rocket_total_pad(in[2 + 1], p.k[2], p.s[2], out[2 + 1]) \div 2
    BY <2>1 DEF PoolTyped
  <2> HIDE DEF p
  <2> QED BY <1>10, <2>2
<1>13. host = T
  <2>1. rocket_pool(in[2], in[3], in[4], out[2], out[3], p.k[1], p.k[2], p.s[1], p.s[2],
                    Leads(in, out, p)[1], Leads(in, out, p)[2], p.avg) = T
    BY <1>11, PoolHost
  <2> HIDE DEF p, tot, T
  <2> QED BY <1>10, <1>12, <2>1
<1>14. npu => planes = T
  <2> SUFFICES ASSUME npu PROVE planes = T
    OBVIOUS
  <2>1. p.avg => tot(2) = 0 /\ tot(3) = 0
    BY DEF avg_ok
  <2>2. p.avg => \A d \in {1, 2} : rocket_total_pad(in[d + 1], p.k[d], p.s[d], out[d + 1]) = 0
    <3>1. p.avg => /\ rocket_total_pad(in[1 + 1], p.k[1], p.s[1], out[1 + 1]) = 0
                   /\ rocket_total_pad(in[2 + 1], p.k[2], p.s[2], out[2 + 1]) = 0
      <4> HIDE DEF p
      <4> QED BY <1>10, <2>1
    <3> HIDE DEF p
    <3> QED BY <3>1
  <2>3. FromChw(Through(rocket_pool_fp16(in[4], in[2], in[3], out[2], out[3], p.k[1], p.k[2], p.s[1], p.s[2],
                                         Leads(in, out, p)[1], Leads(in, out, p)[2], p.avg),
                        1, ChwOf(in[2] * in[3], in[4])),
                out[2] * out[3], in[4]) = T
    BY <1>11, <2>2, PoolPlanes
  <2> HIDE DEF p, tot, T
  <2> QED BY <1>10, <1>12, <2>3
<1>15. Outputs("pool", n.p, buf.ins) = <<T>>
  <2>1. Outputs("pool", n.p, buf.ins) = <<Pooled(buf.ins[1], Shapes("pool", n.p, buf.ins)[1], n.p)>>
    BY DEF Outputs, Pooled
  <2>2. Shapes("pool", n.p, buf.ins) = <<out>>
    BY DEF Shapes, in, out
  <2> HIDE DEF p
  <2> QED BY <2>1, <2>2 DEF in, p
<1>16. Valid("pool", n.p, buf.ins)
  <2>1. /\ WindowCount(in[1 + 1], p.k[1], p.s[1], p.same) > 0
        /\ WindowCount(in[2 + 1], p.k[2], p.s[2], p.same) > 0
    BY <1>7, <1>8
  <2>2. Valid("pool", n.p, buf.ins) = \A d \in {1, 2} : WindowCount(in[d + 1], p.k[d], p.s[d], p.same) > 0
    BY DEF Valid, in
  <2> HIDE DEF p
  <2> QED BY <2>1, <2>2
<1> HIDE DEF host, planes, npu, T, a
<1> QED BY <1>2, <1>13, <1>14, <1>15, <1>16 DEF Means, a

\* The operators Eval compares with the live shapes, or whose answer follows from those it compares
Compared == {"reshape", "act", "transpose", "slice", "pad", "split", "binary", "resize",
             "prelu", "rowwise", "l2norm", "cumsum", "reduce", "fc", "concat", "pool"}

\* What Eval takes from the claim is what it would be at the shapes of the moment.
Exact(n, buf) ==
    /\ n.op \in {"pool", "resize", "reduce"} => buf.ins[1][1] = 1
    /\ n.op \in AlongLast => Last(buf.ins[1]) = Last(n.ins[1])
    /\ n.op = "cumsum" => Axis(n.p.axis, Len(buf.ins[1])) = Len(buf.ins[1])
    /\ n.op = "fc" => buf.ins = n.ins
    /\ n.op = "concat" => /\ Axis(n.p.axis, Len(buf.ins[1])) = Axis(n.p.axis, Len(n.outs[1]))
                          /\ Axis(n.p.axis, Len(n.outs[1])) \in DOMAIN buf.ins[1]
    /\ n.op = "slice" => (Len(buf.ins[1]) = Len(n.ins[1])
                             => SliceShape(n.p, buf.ins[1]) = SliceShape(n.p, n.ins[1]))
    /\ n.op \in {"pad", "binary"} => (Valid(n.op, n.p, buf.ins) => buf.outs = Shapes(n.op, n.p, buf.ins))

\* Each of them answers, if it answers, what the operator means.
LEMMA EvalMeans ==
    ASSUME NEW n, NEW buf, Sound(n, buf), NEW o0, analyze_node(n, o0), n.op \in Compared, Exact(n, buf),
           NEW pk, NEW board, eval(n, Capture(n), buf, pk, board).ok
    PROVE  Means(n, eval(n, Capture(n), buf, pk, board), buf.ins)
<1> DEFINE x0 == Capture(n)
           a == eval(n, x0, buf, pk, board)
<1> HIDE DEF x0
<1>1. CASE n.op = "binary"
  <2>1. a = eval_add(n, buf, board)
    BY <1>1 DEF eval
  <2>2. Valid("binary", n.p, buf.ins) => buf.outs = Shapes("binary", n.p, buf.ins)
    BY <1>1 DEF Exact
  <2>3. eval_add(n, buf, board).ok
    BY <2>1 DEF x0
  <2>4. Means(n, eval_add(n, buf, board), buf.ins)
    BY <1>1, <2>2, <2>3, AddAnswers
  <2> QED BY <2>1, <2>4 DEF x0
<1>2. CASE n.op = "reshape"
  <2>1. a = eval_reshape(buf) /\ analyze_reshape(n)
    BY <1>2 DEF eval, analyze_node
  <2> QED BY <1>2, <2>1, CopyMeans DEF x0
<1>3. CASE n.op = "act"
  <2>1. a = eval_act(n, buf, board)
    BY <1>3 DEF eval
  <2> QED BY <1>3, <2>1, CopyMeans DEF x0
<1>4. CASE n.op = "transpose"
  <2>1. a = eval_transpose(n, x0, buf) /\ analyze_transpose(n)
    BY <1>4 DEF eval, analyze_node
  <2> QED BY <1>4, <2>1, TransposeAnswers DEF x0
<1>5. CASE n.op = "slice"
  <2>1. a = eval_slice(x0, buf) /\ analyze_slice(n)
    BY <1>5 DEF eval, analyze_node
  <2>2. Len(buf.ins[1]) = Len(n.ins[1]) => SliceShape(n.p, buf.ins[1]) = SliceShape(n.p, n.ins[1])
    BY <1>5 DEF Exact
  <2> QED BY <1>5, <2>1, <2>2, SliceAnswers DEF x0
<1>6. CASE n.op = "pad"
  <2>1. a = eval_pad(n, x0, buf) /\ analyze_pad(n)
    BY <1>6 DEF eval, analyze_node
  <2>2. buf.outs = Shapes("pad", n.p, buf.ins)
    <3>1. Valid("pad", n.p, buf.ins)
      BY DEF Valid
    <3> QED BY <1>6, <3>1 DEF Exact
  <2> QED BY <1>6, <2>1, <2>2, PadAnswers DEF x0
<1>7. CASE n.op = "split"
  <2>1. a = eval_split(x0, buf) /\ analyze_split(n)
    BY <1>7 DEF eval, analyze_node
  <2> QED BY <1>7, <2>1, SplitAnswers DEF x0
<1>8. CASE n.op = "resize"
  <2>1. a = eval_resize(n, x0, buf, board) /\ analyze_resize(n)
    BY <1>8 DEF eval, analyze_node
  <2>2. buf.ins[1][1] = 1
    BY <1>8 DEF Exact
  <2> QED BY <1>8, <2>1, <2>2, ResizeAnswers DEF x0
<1>9. CASE n.op \in {"rowwise", "l2norm", "cumsum"}
  <2>1. a = eval_rows(n, x0, buf, board) /\ analyze_rows(n)
    BY <1>9 DEF eval, analyze_node
  <2>2. /\ Last(buf.ins[1]) = Last(n.ins[1])
        /\ n.op = "cumsum" => Axis(n.p.axis, Len(buf.ins[1])) = Len(buf.ins[1])
    BY <1>9 DEF Exact, AlongLast
  <2> QED BY <1>9, <2>1, <2>2, RowsAnswers DEF x0
<1>10. CASE n.op = "prelu"
  <2>1. a = eval_prelu(n, x0, buf, board) /\ analyze_prelu(n)
    BY <1>10 DEF eval, analyze_node
  <2>2. Last(buf.ins[1]) = Last(n.ins[1])
    BY <1>10 DEF Exact, AlongLast
  <2> QED BY <1>10, <2>1, <2>2, PreluAnswers DEF x0
<1>11. CASE n.op = "reduce"
  <2>1. a = eval_reduce(n, x0, buf, board) /\ analyze_reduce(n)
    BY <1>11 DEF eval, analyze_node
  <2>2. buf.ins[1][1] = 1
    BY <1>11 DEF Exact
  <2> QED BY <1>11, <2>1, <2>2, ReduceAnswers DEF x0
<1>12. CASE n.op = "fc"
  <2>1. a = eval_fc(x0, buf, pk, board) /\ analyze_fc(n)
    BY <1>12 DEF eval, analyze_node
  <2>2. buf.ins = n.ins
    BY <1>12 DEF Exact
  <2> QED BY <1>12, <2>1, <2>2, FcAnswers DEF x0
<1>13. CASE n.op = "concat"
  <2>1. a = eval_concat(n, x0, buf) /\ analyze_concat(n)
    BY <1>13 DEF eval, analyze_node
  <2>2. /\ Axis(n.p.axis, Len(buf.ins[1])) = Axis(n.p.axis, Len(n.outs[1]))
        /\ Axis(n.p.axis, Len(n.outs[1])) \in DOMAIN buf.ins[1]
    BY <1>13 DEF Exact
  <2> QED BY <1>13, <2>1, <2>2, ConcatAnswers DEF x0
<1>14. CASE n.op = "pool"
  <2>1. a = eval_pool(n, buf, board)
    BY <1>14 DEF eval
  <2>2. buf.ins[1][1] = 1
    BY <1>14 DEF Exact
  <2> QED BY <1>14, <2>1, <2>2, PoolAnswers DEF x0
<1> QED
  BY <1>1, <1>2, <1>3, <1>4, <1>5, <1>6, <1>7, <1>8, <1>9, <1>10, <1>11, <1>12, <1>13, <1>14 DEF Compared

\* At the shapes of the claim there is nothing to compare.
LEMMA OwnExact ==
    ASSUME NEW n, Situation(n, Own(n)), NEW o0, analyze_node(n, o0), n.op \in Compared
    PROVE  Exact(n, Own(n))
<1>1. Own(n).ins = n.ins /\ Own(n).outs = n.outs
  BY DEF Own
<1>2. n.op \in {"pool", "resize", "reduce"} => n.ins[1][1] = 1
  BY DEF analyze_node, analyze_pool, analyze_resize, analyze_reduce, NHWC
<1>3. n.outs = Shapes(n.op, n.p, n.ins) \/ n.outs = Unresolved(Shapes(n.op, n.p, n.ins))
  BY DEF Situation
<1>4. ASSUME n.op = "pad" PROVE n.outs = Shapes(n.op, n.p, n.ins)
  <2> DEFINE T == [d \in DOMAIN n.ins[1] |-> n.p.before[d] + n.ins[1][d] + n.p.after[d]]
  <2>1. Shapes(n.op, n.p, n.ins) = <<T>>
    BY <1>4 DEF Shapes
  <2>2. Len(n.outs[1]) >= 1
    BY <1>4 DEF analyze_node, analyze_pad, Ranked
  <2> HIDE DEF T
  <2>3. Len(Unresolved(<<T>>)[1]) = 0
    BY UnknownShape
  <2>4. n.outs = <<T>>
    BY <1>3, <2>1, <2>2, <2>3
  <2> QED BY <1>4, <2>1, <2>4
<1>5. ASSUME n.op = "binary" PROVE n.outs = Shapes(n.op, n.p, n.ins)
  <2> DEFINE S == BroadcastShape(n.ins[1], n.ins[2])
  <2>1. Shapes(n.op, n.p, n.ins) = <<S>>
    BY <1>5 DEF Shapes
  <2>2. CASE n.outs = Unresolved(<<S>>)
    <3>1. n.outs = << << >> >>
      <4>1. Unresolved(<<S>>) = [i \in {1} |-> << >>]
        BY DEF Unresolved
      <4> QED BY <2>2, <4>1
    <3>2. n.ins[1] \in Seq(Nat) /\ n.ins[2] \in Seq(Nat)
      BY <1>5, InsTyped DEF TwoInputs
    <3>3. Len(n.ins[1]) = 0 /\ Len(n.ins[2]) = 0
      <4>1. broadcast_to(n.ins[1], << >>) /\ broadcast_to(n.ins[2], << >>)
        BY <1>5, <3>1 DEF analyze_node, analyze_ew
      <4> QED BY <3>2, <4>1 DEF broadcast_to
    <3>4. S = << >>
      BY <3>3 DEF BroadcastShape, Larger
    <3> QED BY <2>1, <3>1, <3>4
  <2> QED BY <1>3, <2>1, <2>2
<1>6. n.op = "cumsum" => Axis(n.p.axis, Len(n.ins[1])) = Len(n.ins[1])
  BY DEF analyze_node, analyze_rows
<1>7. ASSUME n.op = "concat"
      PROVE  /\ Axis(n.p.axis, Len(n.ins[1])) = Axis(n.p.axis, Len(n.outs[1]))
             /\ Axis(n.p.axis, Len(n.outs[1])) \in DOMAIN n.ins[1]
  <2> DEFINE o == n.outs[1]
             in == n.ins[1]
             axis == Axis(n.p.axis, Len(o))
  <2>1. axis \in DOMAIN o /\ \A i \in DOMAIN n.ins : same_dims_except(n.ins[i], o, axis)
    BY <1>7 DEF analyze_node, analyze_concat
  <2>2. in \in Seq(Nat) /\ 1 \in DOMAIN n.ins
    <3>1. n.ins \in Seq(Seq(Nat)) /\ Len(n.ins) >= 1
      BY DEF Situation, WellFormed
    <3> QED BY <3>1, InsTyped
  <2>3. Len(in) = Len(o)
    BY <2>1, <2>2 DEF same_dims_except
  <2>4. DOMAIN o = 1 .. Len(o)
    <3>1. PICK others \in LiveIns(n) : \/ Own(n).outs[1] = Shapes("concat", n.p, others)[1]
                                       \/ Own(n).outs[1] = << >>
      BY <1>7, OneOut
    <3> DEFINE b == others[1]
               e == Axis(n.p.axis, Len(b))
               s == SumFunction([k \in DOMAIN others |-> others[k][e]])
    <3>2. o # << >>
      BY <2>1
    <3>3. o = [b EXCEPT ![e] = s]
      BY <1>1, <3>1, <3>2 DEF Shapes
    <3>4. Len(b) \in Nat /\ DOMAIN b = 1 .. Len(b)
      <4>1. b \in Seq(Nat)
        BY DEF LiveIns, Situation, WellFormed
      <4> QED BY <4>1
    <3> HIDE DEF s, e, b, o
    <3>5. DOMAIN o = 1 .. Len(b) /\ o = [d \in 1 .. Len(b) |-> o[d]]
      BY <3>3, <3>4
    <3>6. Len(o) = Len(b)
      BY <3>4, <3>5, AsSequence
    <3> QED BY <3>5, <3>6
  <2> HIDE DEF in, o
  <2>5. DOMAIN in = DOMAIN o
    BY <2>2, <2>3, <2>4
  <2>6. axis \in DOMAIN in /\ Axis(n.p.axis, Len(in)) = axis
    BY <2>1, <2>3, <2>5
  <2> QED BY <2>6 DEF in, o
<1>8. n.op \in {"pad", "binary"} => (Valid(n.op, n.p, n.ins) => n.outs = Shapes(n.op, n.p, n.ins))
  BY <1>4, <1>5
<1> QED BY <1>1, <1>2, <1>6, <1>7, <1>8 DEF Exact

-----------------------------------------------------------------------------
(* The system.                                                             *)

\* From the claim on there is a node of the graph the gates took.
Claimed == stage \in {"claimed", "initialised", "ready"} =>
    (\E n \in Nodes : node \in Seen(n)) /\ analyze_node(node, opts)

\* From Init on, the kernel holds what it captured of it, and the tensors have the
\* shapes it had or some a drift brought, the outputs those of inputs the operator is
\* defined on; before any drift, its own.
Built == stage \in {"initialised", "ready"} =>
    /\ x = Capture(node)
    /\ live.ins \in Drifted(node)
    /\ \/ live.outs = node.outs
       \/ \E ins \in Drifted(node) : Valid(node.op, node.p, ins) /\ live.outs = Shapes(node.op, node.p, ins)
    /\ drifts = 0 => live = Own(node)

\* An answer is an evaluation at these shapes.
Evaluated ==
    Answered => /\ stage = "ready"
                /\ \E pk, board \in BOOLEAN : answer = eval(node, x, live, pk, board)

NotPacked == stage # "ready" => ~packed

IInv == TypeOK /\ Claimed /\ Built /\ Evaluated /\ NotPacked

\* What the delegate sees of a node, and what the drifts make of its inputs
LEMMA SeenNode ==
    ASSUME NEW n \in Nodes, NEW v \in Seen(n)
    PROVE  /\ WellFormed(v) /\ v.ins \in Drifted(v) /\ Drifted(v) \subseteq LiveIns(v)
           /\ v.outs \in {Shapes(v.op, v.p, v.ins), Unresolved(Shapes(v.op, v.p, v.ins))}
<1>1. WellFormed(n)
  BY NodesAssumption
<1>2. PICK outs \in {Shapes(n.op, n.p, n.ins), Unresolved(Shapes(n.op, n.p, n.ins))} :
         v = [op |-> n.op, p |-> n.p, type |-> n.type, ins |-> n.ins, outs |-> outs]
  BY DEF Seen
<1>3. v.op = n.op /\ v.p = n.p /\ v.type = n.type /\ v.ins = n.ins /\ v.outs = outs
  BY <1>2
<1>4. WellFormed(v)
  <2> HIDE DEF Attributes
  <2> QED BY <1>1, <1>3 DEF WellFormed
<1>5. v.outs \in {Shapes(v.op, v.p, v.ins), Unresolved(Shapes(v.op, v.p, v.ins))}
  BY <1>2, <1>3
<1> DEFINE L == Len(v.ins)
           fixed == v.op \in ConstantOperand
<1>6. v.ins \in Seq(Seq(Nat)) /\ L \in Nat /\ L >= 1 /\ DOMAIN v.ins = 1 .. L
  BY <1>4 DEF WellFormed
<1>7. v.ins \in Drifted(v)
  <2> DEFINE ins == [i \in DOMAIN v.ins |-> IF i = 2 /\ fixed THEN v.ins[2] ELSE n.ins[i]]
  <2>1. n \in {m \in Nodes : m.op = v.op /\ Len(m.ins) = L}
    BY <1>3
  <2>2. ins \in Drifted(v)
    BY <2>1 DEF Drifted
  <2>3. ins = v.ins
    <3>1. \A i \in DOMAIN v.ins : ins[i] = v.ins[i]
      BY <1>3
    <3>2. v.ins \in [1 .. L -> Seq(Nat)]
      <4> HIDE DEF L
      <4> QED BY <1>6
    <3>3. DOMAIN ins = 1 .. L /\ ins = [i \in 1 .. L |-> ins[i]]
      BY <1>6
    <3> HIDE DEF ins, L
    <3> QED BY <1>6, <3>1, <3>2, <3>3
  <2> QED BY <2>2, <2>3
<1>8. ASSUME NEW ins \in Drifted(v) PROVE ins \in LiveIns(v)
  <2>1. PICK m \in Nodes : /\ m.op = v.op /\ Len(m.ins) = L
                           /\ ins = [i \in DOMAIN v.ins |-> IF i = 2 /\ fixed THEN v.ins[2] ELSE m.ins[i]]
    BY DEF Drifted
  <2>2. WellFormed(m)
    BY NodesAssumption
  <2>3. m.ins \in Seq(Seq(Nat)) /\ DOMAIN m.ins = 1 .. L /\ \A i \in 1 .. L : m.ins[i] \in Seq(Nat)
    <3>1. m.ins \in Seq(Seq(Nat))
      BY <2>2 DEF WellFormed
    <3> HIDE DEF L
    <3> QED BY <2>1, <3>1
  <2>4. v.op \in Images4D => Len(m.ins[1]) = 4
    BY <2>1, <2>2 DEF WellFormed
  <2> HIDE DEF L
  <2>5. \A i \in 1 .. L : v.ins[i] \in Seq(Nat)
    BY <1>6
  <2>6. ins = [i \in 1 .. L |-> ins[i]] /\ \A i \in 1 .. L : ins[i] \in Seq(Nat)
    BY <1>6, <2>1, <2>3, <2>5
  <2>7. ins \in Seq(Seq(Nat)) /\ Len(ins) = L
    BY <1>6, <2>6, AsSequence
  <2>8. ins[1] = m.ins[1] /\ (fixed => L = 2)
    <3>1. 1 \in 1 .. L /\ 1 # 2
      BY <1>6
    <3>2. fixed => L = 2
      BY <1>4 DEF WellFormed, ConstantOperand, TwoInputs, L
    <3> QED BY <1>6, <2>1, <3>1, <3>2
  <2>9. fixed => ins[2] = v.ins[2]
    <3>1. fixed => 2 \in 1 .. L
      BY <2>8
    <3> QED BY <1>6, <2>1, <3>1
  <2> QED BY <2>4, <2>7, <2>8, <2>9 DEF LiveIns, L
<1> QED BY <1>4, <1>5, <1>7, <1>8

\* The evaluations are of a situation the lemmas above are about.
LEMMA Evaluation ==
    ASSUME Claimed, Built, stage \in {"initialised", "ready"}
    PROVE  Situation(node, live) /\ analyze_node(node, opts) /\ x = Capture(node)
<1>1. PICK n \in Nodes : node \in Seen(n)
  BY DEF Claimed
<1>2. /\ WellFormed(node) /\ Drifted(node) \subseteq LiveIns(node)
      /\ node.outs \in {Shapes(node.op, node.p, node.ins), Unresolved(Shapes(node.op, node.p, node.ins))}
  BY <1>1, SeenNode
<1>3. analyze_node(node, opts) /\ x = Capture(node) /\ live.ins \in Drifted(node)
      /\ (live.outs = node.outs \/ \E ins \in Drifted(node) : live.outs = Shapes(node.op, node.p, ins))
  BY DEF Claimed, Built
<1> QED BY <1>2, <1>3 DEF Situation

\* Before the delegate is made there is nothing to keep.
LEMMA InitIInv == Init => IInv
<1> SUFFICES ASSUME Init PROVE IInv
  OBVIOUS
<1>1. TypeOK
  <2>1. /\ stage \in {"start", "created", "cpu", "claimed", "refused", "initialised", "ready"}
        /\ nodes_claimed = (IF stage \in {"start", "created", "cpu"} THEN 0 ELSE 1)
        /\ fd \in BOOLEAN /\ packed \in BOOLEAN
    BY DEF Init
  <2>2. drifts \in 0 .. MaxDrifts
    BY DriftsAssumption DEF Init
  <2>3. live = None /\ stage \notin {"initialised", "ready"} /\ ~packed /\ ~Answered
    BY DEF Init, Answered
  <2> QED BY <2>1, <2>2, <2>3 DEF TypeOK
<1>2. Claimed /\ Built /\ Evaluated /\ NotPacked
  BY DEF Init, Claimed, Built, Evaluated, NotPacked, Answered
<1> QED BY <1>1, <1>2 DEF IInv

\* The kernel's first shapes
LEMMA InitStep ==
    ASSUME IInv, rocket_kernel_init
    PROVE  IInv'
<1>1. /\ stage = "claimed" /\ ~packed /\ live = None /\ answer = None
      /\ UNCHANGED <<opts, node, nodes_claimed, fd, packed, drifts, answer>>
  BY DEF IInv, TypeOK, Evaluated, NotPacked, rocket_kernel_init, Answered
<1>2. CASE /\ analyze_node(node, opts) /\ x' = Capture(node)
           /\ live' = [ins |-> node.ins, outs |-> node.outs] /\ stage' = "initialised"
  <2>1. live' # None
    <3>1. "ins" \in DOMAIN live' /\ "ins" \notin DOMAIN None
      BY <1>2 DEF None
    <3> QED BY <3>1
  <2>2. PICK n \in Nodes : node \in Seen(n)
    BY <1>1 DEF IInv, Claimed
  <2>3. node.ins \in Drifted(node)
    BY <2>2, SeenNode
  <2>4. TypeOK'
    BY <1>1, <1>2, <2>1 DEF IInv, TypeOK, Answered
  <2>5. Claimed'
    BY <1>1, <1>2, <2>2 DEF Claimed
  <2>6. Built'
    BY <1>1, <1>2, <2>3 DEF Built, Own
  <2>7. Evaluated' /\ NotPacked'
    BY <1>1 DEF Evaluated, NotPacked, Answered
  <2> QED BY <2>4, <2>5, <2>6, <2>7 DEF IInv
<1>3. CASE stage' = "refused" /\ UNCHANGED <<x, live>>
  <2>1. TypeOK'
    BY <1>1, <1>3 DEF IInv, TypeOK, Answered
  <2>2. Claimed' /\ Built' /\ Evaluated' /\ NotPacked'
    BY <1>1, <1>3 DEF Claimed, Built, Evaluated, NotPacked, Answered
  <2> QED BY <2>1, <2>2 DEF IInv
<1> QED BY <1>2, <1>3 DEF rocket_kernel_init

\* Creating the delegate, claiming, and preparing
LEMMA CreateStep ==
    ASSUME IInv, tflite_plugin_create_delegate
    PROVE  IInv'
<1>1. /\ stage = "start" /\ stage' = "created" /\ answer = None /\ ~packed
      /\ UNCHANGED <<node, nodes_claimed, x, fd, packed, live, drifts, answer>>
  BY DEF tflite_plugin_create_delegate, IInv, Evaluated, NotPacked, Answered
<1>2. TypeOK'
  BY <1>1 DEF IInv, TypeOK, Answered
<1>3. Claimed' /\ Built' /\ Evaluated' /\ NotPacked'
  BY <1>1 DEF Claimed, Built, Evaluated, NotPacked, Answered
<1> QED BY <1>2, <1>3 DEF IInv

\* The claim hands on a node the gates took, as the delegate saw it.
LEMMA ClaimStep ==
    ASSUME IInv, rocket_delegate_prepare
    PROVE  IInv'
<1>1. /\ stage = "created" /\ answer = None /\ ~packed /\ live = None /\ nodes_claimed = 0
      /\ UNCHANGED <<opts, x, fd, packed, live, drifts, answer>>
      /\ \E n \in Nodes : node' \in Seen(n)
  BY DEF rocket_delegate_prepare, IInv, TypeOK, Evaluated, NotPacked, Answered
<1>2. CASE analyze_node(node', opts) /\ nodes_claimed' = nodes_claimed + 1 /\ stage' \in {"claimed", "refused"}
  <2>1. TypeOK'
    BY <1>1, <1>2 DEF IInv, TypeOK, Answered
  <2>2. Claimed'
    BY <1>1, <1>2 DEF Claimed
  <2>3. Built' /\ Evaluated' /\ NotPacked'
    BY <1>1, <1>2 DEF Built, Evaluated, NotPacked, Answered
  <2> QED BY <2>1, <2>2, <2>3 DEF IInv
<1>3. CASE UNCHANGED nodes_claimed /\ stage' = "cpu"
  <2>1. TypeOK'
    BY <1>1, <1>3 DEF IInv, TypeOK, Answered
  <2>2. Claimed' /\ Built' /\ Evaluated' /\ NotPacked'
    BY <1>1, <1>3 DEF Claimed, Built, Evaluated, NotPacked, Answered
  <2> QED BY <2>1, <2>2 DEF IInv
<1> QED BY <1>2, <1>3 DEF rocket_delegate_prepare

\* Prepare packs the weights of a FULLY_CONNECTED or leaves them; an answer stays what it was.
LEMMA PrepareStep ==
    ASSUME IInv, rocket_kernel_prepare
    PROVE  IInv'
<1>1. /\ stage \in {"initialised", "ready"} /\ stage' = "ready"
      /\ fd' \in BOOLEAN
      /\ UNCHANGED <<opts, node, nodes_claimed, x, live, drifts, answer>>
  BY DEF rocket_kernel_prepare, IInv, TypeOK
<1>2. packed' \in BOOLEAN /\ (packed' => fd' /\ node.op = "fc")
  BY DEF rocket_kernel_prepare, IInv, TypeOK
<1>3. TypeOK'
  BY <1>1, <1>2 DEF IInv, TypeOK, Answered
<1>4. Claimed' /\ Built' /\ NotPacked'
  BY <1>1 DEF IInv, Claimed, Built, NotPacked
<1>5. Evaluated'
  BY <1>1 DEF IInv, Evaluated, Answered
<1> QED BY <1>3, <1>4, <1>5 DEF IInv

\* A drift brings shapes of another node of the operator, and forgets the answer.
LEMMA DriftStep ==
    ASSUME IInv, Drift
    PROVE  IInv'
<1>1. /\ stage = "ready" /\ drifts < MaxDrifts /\ drifts' = drifts + 1 /\ answer' = None
      /\ UNCHANGED <<stage, opts, node, nodes_claimed, x, fd, packed>>
  BY DEF Drift
<1>2. PICK ins \in Drifted(node) :
         \/ live' = [ins |-> ins, outs |-> live.outs]
         \/ /\ live' = [ins |-> ins, outs |-> Shapes(node.op, node.p, ins)]
            /\ Valid(node.op, node.p, ins)
  BY DEF Drift
<1>3. /\ live'.ins = ins
      /\ \/ live'.outs = live.outs
         \/ Valid(node.op, node.p, ins) /\ live'.outs = Shapes(node.op, node.p, ins)
      /\ "ins" \in DOMAIN live'
  BY <1>2
<1>4. live' # None
  BY <1>3 DEF None
<1>5. TypeOK'
  BY <1>1, <1>4, DriftsAssumption DEF IInv, TypeOK, Answered
<1>6. Claimed' /\ NotPacked' /\ Evaluated'
  BY <1>1 DEF IInv, Claimed, NotPacked, Evaluated, Answered
<1>7. drifts' # 0
  BY <1>1, DriftsAssumption DEF IInv, TypeOK
<1>8. Built'
  BY <1>1, <1>3, <1>7 DEF IInv, Built
<1> QED BY <1>5, <1>6, <1>8 DEF IInv

\* An Invoke's answer is the evaluation at the shapes of the moment.
LEMMA InvokeStep ==
    ASSUME IInv, rocket_kernel_invoke
    PROVE  IInv'
<1>1. /\ stage = "ready"
      /\ UNCHANGED <<stage, opts, node, nodes_claimed, x, fd, packed, live, drifts>>
  BY DEF rocket_kernel_invoke
<1>2. PICK rc \in BOOLEAN :
         answer' = eval(node, x, live, packed, rc /\ (node.op = "fc" \/ (opts.npu /\ fd)))
  BY DEF rocket_kernel_invoke
<1> DEFINE board == rc /\ (node.op = "fc" \/ (opts.npu /\ fd))
<1>3. board \in BOOLEAN /\ packed \in BOOLEAN
  BY DEF IInv, TypeOK
<1>4. answer' = eval(node, x, live, packed, board)
  BY <1>2
<1> HIDE DEF board
<1>5. node.op \in OneInput \cup TwoInputs \cup {"concat"}
  <2>1. WellFormed(node)
    BY <1>1, Evaluation DEF IInv, Situation
  <2> QED BY <2>1 DEF WellFormed
<1>6. answer' # None /\ answer'.ok \in BOOLEAN /\ answer'.npu \in BOOLEAN
  <2>1. Answers(answer')
    BY <1>4, <1>5, EvalAnswers
  <2> QED BY <2>1, AnswersTyped
<1>7. TypeOK'
  BY <1>1, <1>6 DEF IInv, TypeOK, Answered
<1>8. Claimed' /\ Built' /\ NotPacked'
  BY <1>1 DEF IInv, Claimed, Built, NotPacked
<1>9. Evaluated'
  BY <1>1, <1>3, <1>4 DEF Evaluated
<1> QED BY <1>7, <1>8, <1>9 DEF IInv

\* No step leaves the invariant.
LEMMA NextIInv == IInv /\ [Next]_vars => IInv'
<1> SUFFICES ASSUME IInv, [Next]_vars PROVE IInv'
  OBVIOUS
<1>1. CASE UNCHANGED vars
  BY <1>1 DEF vars, IInv, TypeOK, Claimed, Built, Evaluated, NotPacked, Answered
<1> QED
  BY <1>1, CreateStep, ClaimStep, InitStep, PrepareStep, DriftStep, InvokeStep DEF Next

\* The inductive invariant holds throughout: the node is one the gates took, the kernel
\* holds what Init captured of it, the shapes are its own or a drift's, and an answer is the
\* evaluation of it at these shapes.
THEOREM Inductive == Spec => []IInv
BY InitIInv, NextIInv, PTL DEF Spec

\* The variables have their types: what each stage of TFLite's protocol leaves to the
\* next, a node claimed at most once, weights packed for a FULLY_CONNECTED alone.
THEOREM Typed == Spec => []TypeOK
<1>1. IInv => TypeOK
  BY DEF IInv
<1> QED BY <1>1, Inductive, PTL

\* Whatever the nodes of the graph, the shapes TFLite brings and the answers of the
\* NPU, an Invoke of any operator reads inside its inputs and writes inside its
\* outputs (eval_* and the kernels of rocket_ops.h).
THEOREM Accesses == Spec => []AccessesInside
<1>1. IInv => AccessesInside
  <2> SUFFICES ASSUME IInv, Answered, ~(node.op \in {"concat", "fc"} /\ Moved), ~Emptied
               PROVE  Kept(answer, live)
    BY DEF AccessesInside, Kept, Within, TermInside
  <2>1. stage = "ready" /\ \E pk, board \in BOOLEAN : answer = eval(node, x, live, pk, board)
    BY DEF IInv, Evaluated
  <2>2. Situation(node, live) /\ analyze_node(node, opts) /\ x = Capture(node)
    BY <2>1, Evaluation DEF IInv
  <2>3. Full(node, live)
    BY DEF Emptied, Full
  <2>4. node.op \in {"concat", "fc"} => live = [ins |-> node.ins, outs |-> node.outs]
    BY DEF Moved
  <2>5. PICK pk \in BOOLEAN, board \in BOOLEAN : answer = eval(node, x, live, pk, board)
    BY <2>1
  <2> QED BY <2>2, <2>3, <2>4, <2>5, EvalKept
<1> QED BY <1>1, Inductive, PTL

\* An Invoke at the shapes of the claim succeeds where no output is empty; before any
\* drift these are the shapes of the moment.
ClaimedSucceeds ==
    /\ Answered /\ ~Moved /\ (\A i \in DOMAIN node.outs : Count(node.outs[i]) > 0) => answer.ok
    /\ Answered /\ drifts = 0 => ~Moved
\* Whatever the node the delegate claimed and whatever the NPU answers, no check of eval_*
\* refuses the shapes that the gates of analyze_* took, and every Invoke before a drift is
\* at these.
THEOREM Succeeds == Spec => []ClaimedSucceeds
<1>1. IInv => ClaimedSucceeds
  <2> SUFFICES ASSUME IInv, Answered
               PROVE  /\ ~Moved /\ Sized(node) => answer.ok
                      /\ drifts = 0 => ~Moved
    BY DEF ClaimedSucceeds, Sized
  <2>1. stage = "ready" /\ \E pk, board \in BOOLEAN : answer = eval(node, x, live, pk, board)
    BY DEF IInv, Evaluated
  <2>2. Situation(node, live) /\ analyze_node(node, opts) /\ x = Capture(node)
    BY <2>1, Evaluation DEF IInv
  <2>3. ~Moved => live = Own(node)
    BY DEF Moved, Own
  <2>4. ASSUME ~Moved, Sized(node) PROVE answer.ok
    BY <2>1, <2>2, <2>3, <2>4, EvalRuns
  <2>5. drifts = 0 => ~Moved
    BY <2>1 DEF IInv, Built, Moved, Own
  <2> QED BY <2>4, <2>5
<1> QED BY <1>1, Inductive, PTL

\* A node the delegate claimed is one its operator is defined on.
LEMMA SoundNode ==
    ASSUME Claimed, Built, stage \in {"initialised", "ready"}
    PROVE  Sound(node, live)
<1>1. PICK n \in Nodes : node \in Seen(n)
  BY DEF Claimed
<1>2. node.op = n.op /\ node.p = n.p /\ node.ins = n.ins
  <2>1. PICK o : node = [op |-> n.op, p |-> n.p, type |-> n.type, ins |-> n.ins, outs |-> o]
    BY <1>1 DEF Seen
  <2> QED BY <2>1
<1>3. Valid(node.op, node.p, node.ins)
  <2>1. Valid(n.op, n.p, n.ins)
    BY NodesAssumption
  <2> QED BY <1>2, <2>1
<1>4. ASSUME node.op \in AlongLast PROVE Len(live.ins[1]) >= 1
  <2>1. PICK m \in Nodes : m.op = node.op /\ live.ins[1] = m.ins[1]
    <3>1. node.ins \in Seq(Seq(Nat)) /\ Len(node.ins) >= 1
      BY <1>2, NodesAssumption DEF WellFormed
    <3>2. 1 \in DOMAIN node.ins
      BY <3>1
    <3>3. PICK m \in Nodes : /\ m.op = node.op
                             /\ live.ins = [i \in DOMAIN node.ins |->
                                   IF i = 2 /\ node.op \in ConstantOperand THEN node.ins[2] ELSE m.ins[i]]
      BY DEF Built, Drifted
    <3> QED BY <3>2, <3>3
  <2>2. Valid(m.op, m.p, m.ins) /\ WellFormed(m)
    BY NodesAssumption
  <2>3. m.ins[1] \in Seq(Nat)
    BY <2>2 DEF WellFormed
  <2>4. Len(m.ins[1]) >= 1
    <3>1. CASE m.op = "cumsum"
      <4>1. Axis(m.p.axis, Len(m.ins[1])) \in DOMAIN m.ins[1]
        BY <2>2, <3>1 DEF Valid
      <4> QED BY <2>3, <4>1
    <3>2. CASE m.op \in {"prelu", "rowwise", "l2norm"}
      BY <2>2, <3>2 DEF Valid
    <3> QED BY <1>4, <2>1, <3>1, <3>2 DEF AlongLast
  <2> QED BY <2>1, <2>4
<1>5. ASSUME node.op = "pool" PROVE live.outs[1][2] > 0 /\ live.outs[1][3] > 0
  <2>1. ASSUME NEW ins, Valid(node.op, node.p, ins)
        PROVE  Shapes(node.op, node.p, ins)[1][2] > 0 /\ Shapes(node.op, node.p, ins)[1][3] > 0
    <3> DEFINE S == Shapes(node.op, node.p, ins)
               w(d) == WindowCount(ins[1][d + 1], node.p.k[d], node.p.s[d], node.p.same)
    <3>1. \A d \in {1, 2} : w(d) > 0
      BY <1>5, <2>1 DEF Valid
    <3>2. S[1] = <<ins[1][1], w(1), w(2), ins[1][4]>>
      BY <1>5 DEF Shapes
    <3> HIDE DEF w, S
    <3>3. S[1][2] = w(1) /\ S[1][3] = w(2)
      BY <3>2
    <3> QED BY <3>1, <3>3 DEF S
  <2>2. node.outs = Shapes(node.op, node.p, node.ins)
    <3>1. NHWC(node.outs[1])
      BY <1>5 DEF Claimed, analyze_node, analyze_pool
    <3>2. node.outs \in {Shapes(node.op, node.p, node.ins), Unresolved(Shapes(node.op, node.p, node.ins))}
      BY <1>1, SeenNode
    <3>3. \E e : Shapes(node.op, node.p, node.ins) = <<e>>
      BY <1>5 DEF Shapes
    <3>4. Unresolved(Shapes(node.op, node.p, node.ins))[1] = << >>
      BY <3>3 DEF Unresolved
    <3> QED BY <3>1, <3>2, <3>4 DEF NHWC
  <2>3. \/ live.outs = node.outs
        \/ \E ins \in Drifted(node) : Valid(node.op, node.p, ins) /\ live.outs = Shapes(node.op, node.p, ins)
    BY DEF Built
  <2> QED BY <1>3, <2>1, <2>2, <2>3
<1> QED BY <1>3, <1>4, <1>5, Evaluation DEF Sound

\* What eval() answers is what TFLite means by the operator: for a node claimed and
\* run at its own shapes always, and after a drift that moved nothing Eval takes from
\* the claim unless the Invoke fails; for any graph, whatever the shapes and attributes.
THEOREM Meant == Spec => [](node.op \in Compared => ClaimedAnswers /\ DriftCaught)
<1> DEFINE ComparedMeans == node.op \in Compared => ClaimedAnswers /\ DriftCaught
<1>1. IInv => ComparedMeans
  <2> SUFFICES ASSUME IInv, node.op \in Compared, Answered
               PROVE  ClaimedAnswers /\ DriftCaught
    BY DEF ClaimedAnswers, DriftCaught
  <2>1. stage = "ready" /\ \E pk, board \in BOOLEAN : answer = eval(node, x, live, pk, board)
    BY DEF IInv, Evaluated
  <2>2. PICK pk \in BOOLEAN, board \in BOOLEAN : answer = eval(node, x, live, pk, board)
    BY <2>1
  <2>3. Situation(node, live) /\ analyze_node(node, opts) /\ x = Capture(node)
    BY <2>1, Evaluation DEF IInv
  <2>4. Sound(node, live)
    BY <2>1, SoundNode DEF IInv
  <2>5. ASSUME answer.ok, Exact(node, live) PROVE Means(node, answer, live.ins)
    BY <2>2, <2>3, <2>4, <2>5, EvalMeans
  <2>6. ClaimedAnswers
    <3> SUFFICES ASSUME drifts = 0, Sized(node) PROVE answer.ok /\ answer.outs = Meaning
      BY DEF ClaimedAnswers, Sized
    <3>1. live = Own(node)
      BY <2>1 DEF IInv, Built
    <3>2. answer.ok
      BY <2>2, <2>3, <3>1, EvalRuns
    <3>3. Exact(node, live)
      BY <2>3, <3>1, OwnExact
    <3> QED BY <2>5, <3>2, <3>3 DEF Means, Meaning
  <2>7. DriftCaught
    <3> SUFFICES ASSUME answer.ok, ~Unchecked
                 PROVE  Valid(node.op, node.p, live.ins) /\ answer.outs = Meaning
      BY DEF DriftCaught
    <3>1. Exact(node, live)
      <4>1. ASSUME node.op \in {"pool", "resize", "reduce"} PROVE live.ins[1][1] = 1
        <5>1. Unchecked = (live.ins[1][1] # 1)
          BY <4>1 DEF Unchecked
        <5> QED BY <5>1
      <4>2. ASSUME node.op = "slice", Len(live.ins[1]) = Len(node.ins[1])
            PROVE  SliceShape(node.p, live.ins[1]) = SliceShape(node.p, node.ins[1])
        <5>1. Unchecked = (-1 \in Range(node.p.size))
          BY <4>2 DEF Unchecked
        <5>2. live.ins[1] \in Seq(Nat) /\ node.ins[1] \in Seq(Nat)
          BY <2>3, InsTyped
        <5>3. DOMAIN live.ins[1] = DOMAIN node.ins[1]
          BY <4>2, <5>2
        <5>4. Len(node.p.size) = Len(node.ins[1]) /\ node.p.size \in Seq(Int)
          BY <2>3, <4>2 DEF analyze_node, analyze_slice, Situation, WellFormed, Attributes
        <5>5. \A d \in DOMAIN node.ins[1] : node.p.size[d] # -1
          <6>1. -1 \notin Range(node.p.size)
            BY <5>1
          <6>2. DOMAIN node.p.size = DOMAIN node.ins[1]
            BY <5>2, <5>4
          <6> QED BY <6>1, <6>2 DEF Range
        <5> QED BY <5>3, <5>5 DEF SliceShape
      <4>3. ASSUME node.op \in {"pad", "binary"}, Valid(node.op, node.p, live.ins)
            PROVE  live.outs = Shapes(node.op, node.p, live.ins)
        <5>1. Unchecked = (Valid(node.op, node.p, live.ins) /\ live.outs # Shapes(node.op, node.p, live.ins))
          BY <4>3 DEF Unchecked
        <5> QED BY <4>3, <5>1
      <4>4. ASSUME node.op \in AlongLast
            PROVE  /\ Last(live.ins[1]) = Last(node.ins[1])
                   /\ node.op = "cumsum" => Axis(node.p.axis, Len(live.ins[1])) = Len(live.ins[1])
        <5>1. CASE node.op = "cumsum"
          <6>1. Unchecked = (\/ Last(live.ins[1]) # Last(node.ins[1])
                             \/ Axis(node.p.axis, Len(live.ins[1])) # Len(live.ins[1]))
            BY <5>1 DEF Unchecked
          <6> QED BY <6>1
        <5>2. CASE node.op \in {"prelu", "rowwise", "l2norm"}
          <6>1. Unchecked = (Last(live.ins[1]) # Last(node.ins[1]))
            BY <5>2 DEF Unchecked
          <6> QED BY <5>2, <6>1
        <5> QED BY <4>4, <5>1, <5>2 DEF AlongLast
      <4>5. ASSUME node.op = "fc" PROVE live.ins = node.ins
        <5>1. Unchecked = Moved
          BY <4>5 DEF Unchecked
        <5>2. ~Moved
          BY <5>1
        <5> QED BY <5>2 DEF Moved
      <4>6. ASSUME node.op = "concat"
            PROVE  /\ Axis(node.p.axis, Len(live.ins[1])) = Axis(node.p.axis, Len(node.outs[1]))
                   /\ Axis(node.p.axis, Len(node.outs[1])) \in DOMAIN live.ins[1]
        <5>1. Unchecked = (\/ Axis(node.p.axis, Len(live.ins[1])) # x.axis
                           \/ x.axis \notin DOMAIN live.ins[1])
          BY <4>6 DEF Unchecked
        <5>2. x.axis = Axis(node.p.axis, Len(node.outs[1]))
          BY <2>3, <4>6 DEF Capture
        <5> QED BY <5>1, <5>2
      <4> QED BY <4>1, <4>2, <4>3, <4>4, <4>5, <4>6 DEF Exact, AlongLast
    <3>2. Means(node, answer, live.ins)
      BY <2>5, <3>1
    <3> QED BY <3>2 DEF Means, Meaning
  <2> QED BY <2>6, <2>7
<1> QED BY <1>1, Inductive, PTL
=============================================================================

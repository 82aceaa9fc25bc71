----------------------------- MODULE ConvProofs -----------------------------
(***************************************************************************)
(* Theorems about one convolution: its data path (NativeConv), then its    *)
(* route (ConvRoute).                                                      *)
(*                                                                         *)
(* NativeConv, for every geometry a layer may have, all bytes, zero points *)
(* and biases. First the geometry: the padding eval_node                   *)
(* materialises takes the library to TFLite's extents, and keeps           *)
(* every window and the separable sum's buffer inside the plane. That is   *)
(* arithmetic on one axis, proved once and used for rows and columns. Then *)
(* the bytes: what the NPU is given are signed bytes. Then the sums: by    *)
(* each of the three ways in, what is requantised is TFLite's accumulator. *)
(* ZeroPoints moves a sum of products from one pair of origins to another; *)
(* the lemmas *Is say what each way's sum is, term by term, over the taps  *)
(* of the window; the invariant says which of them each phase has left.    *)
(*                                                                         *)
(* ConvRoute, for every set of shapes, every set of options and every      *)
(* planner: the flags fixed at the claimed shape, the operands packed at   *)
(* another and the route picked at a third agree.  FlagsInv is what a flag *)
(* tells of the convolution ever after, ResidentInv what the resident      *)
(* weights tell of the live shape.                                         *)
(***************************************************************************)
EXTENDS NativeConv, ConvRoute, IndexTheorems

\* One axis of a layer TFLite runs
Axis(in, k, stride, dil, same) ==
    /\ in \in Nat \ {0} /\ k \in Nat \ {0} /\ stride \in Nat \ {0} /\ dil \in Nat \ {0}
    /\ same \in BOOLEAN
    /\ ~same => rocket_eff_k(k, dil) <= in

\* The extent of a dilated kernel is a positive number.
LEMMA KernelExtent ==
    ASSUME NEW k \in Nat \ {0}, NEW dil \in Nat \ {0}
    PROVE  rocket_eff_k(k, dil) \in Nat \ {0}
<1>1. k - 1 \in Nat
  OBVIOUS
<1>2. (k - 1) * dil \in Nat
  BY <1>1
<1> QED BY <1>2 DEF rocket_eff_k

\* Division by a positive number is known by the multiples around the dividend.
LEMMA Quotient ==
    ASSUME NEW a \in Int, NEW s \in Nat \ {0}
    PROVE  /\ a \div s \in Int
           /\ (a \div s) * s <= a
           /\ a < (a \div s) * s + s
<1>1. s \in Int /\ s > 0
  OBVIOUS
<1>2. a \div s \in Int /\ a % s \in 0 .. (s - 1) /\ a = (s * (a \div s)) + (a % s)
  BY <1>1
<1> QED BY <1>1, <1>2

\* And those determine it.
LEMMA QuotientIs ==
    ASSUME NEW a \in Int, NEW s \in Nat \ {0}, NEW q \in Int,
           q * s <= a, a < q * s + s
    PROVE  a \div s = q
<1> DEFINE d == a \div s
<1>1. d \in Int /\ d * s <= a /\ a < d * s + s
  BY Quotient
<1> HIDE DEF d
<1>2. ~(d < q)
  <2> SUFFICES ASSUME d < q PROVE FALSE
    OBVIOUS
  <2>1. q - d - 1 \in Nat
    BY <1>1
  <2>2. (q - d - 1) * s >= 0
    BY <2>1
  <2>3. q * s >= d * s + s
    BY <2>2, <1>1
  <2> QED BY <2>3, <1>1, q * s \in Int, d * s \in Int
<1>3. ~(q < d)
  <2> SUFFICES ASSUME q < d PROVE FALSE
    OBVIOUS
  <2>1. d - q - 1 \in Nat
    BY <1>1
  <2>2. (d - q - 1) * s >= 0
    BY <2>1
  <2>3. d * s >= q * s + s
    BY <2>2, <1>1
  <2> QED BY <2>3, <1>1, q * s \in Int, d * s \in Int
<1> QED BY <1>1, <1>2, <1>3 DEF d

\* TFLite's extent: positive, at least what SAME or VALID asks and no more.
LEMMA OutDim ==
    ASSUME NEW in, NEW k, NEW stride, NEW dil, NEW same, Axis(in, k, stride, dil, same)
    PROVE  LET e == rocket_eff_k(k, dil)
               out == rocket_out_dim(in, k, stride, dil, same)
           IN  /\ e \in Nat \ {0} /\ out \in Nat \ {0}
               /\ in - e < out * stride
               /\ ~same => (out - 1) * stride <= in - e
<1> USE DEF Axis
<1> DEFINE e == rocket_eff_k(k, dil)
<1> DEFINE out == rocket_out_dim(in, k, stride, dil, same)
<1>1. e \in Nat \ {0}
  BY KernelExtent
<1>2. CASE same
  <2> DEFINE a == in + stride - 1
  <2>1. out = a \div stride
    BY <1>2 DEF rocket_out_dim
  <2>2. a \in Int
    OBVIOUS
  <2> HIDE DEF a
  <2>3. out \in Int /\ out * stride <= a /\ a < out * stride + stride
    BY <2>1, <2>2, Quotient
  <2> HIDE DEF out
  <2>4. out * stride \in Int
    BY <2>3
  <2>5. in <= out * stride
    BY <2>3, <2>4 DEF a
  <2>6. out > 0
    <3> SUFFICES ASSUME out <= 0 PROVE FALSE
      BY <2>3
    <3>1. (-out) * stride >= 0
      BY <2>3
    <3>2. out * stride <= 0
      BY <3>1, <2>3
    <3> QED BY <3>2, <2>4, <2>5
  <2> HIDE DEF e
  <2>7. in - e < out * stride
    BY <1>1, <2>4, <2>5
  <2>8. ~same => (out - 1) * stride <= in - e
    BY <1>2
  <2>9. out \in Nat \ {0}
    BY <2>3, <2>6
  <2> QED BY <1>1, <2>7, <2>8, <2>9 DEF e, out
<1>3. CASE ~same
  <2> DEFINE q == (in - e) \div stride
  <2>1. out = q + 1
    BY <1>1, <1>3 DEF rocket_out_dim
  <2>2. in - e \in Nat
    BY <1>1, <1>3
  <2> HIDE DEF e
  <2>3. q \in Int /\ q * stride <= in - e /\ in - e < q * stride + stride
    BY <2>2, Quotient
  <2> HIDE DEF q, out
  <2>4. q >= 0
    <3> SUFFICES ASSUME q <= -1 PROVE FALSE
      BY <2>3
    <3>1. (-1 - q) * stride >= 0
      BY <2>3
    <3>2. q * stride + stride <= 0
      BY <3>1, <2>3
    <3> QED BY <3>2, <2>2, <2>3
  <2>5. out * stride = q * stride + stride /\ (out - 1) * stride = q * stride
    BY <2>1, <2>3
  <2> QED BY <1>1, <2>1, <2>3, <2>4, <2>5 DEF e, out
<1> QED BY <1>2, <1>3 DEF Axis

\* With the padding materialised, the library computes TFLite's extent.
LEMMA AxisAgrees ==
    ASSUME NEW in, NEW k, NEW stride, NEW dil, NEW same, Axis(in, k, stride, dil, same)
    PROVE  LET out == rocket_out_dim(in, k, stride, dil, same)
               p == rocket_total_pad(in, k, stride, dil, out)
           IN  /\ p \in Nat
               /\ (out - 1) * stride + rocket_eff_k(k, dil) <= in + p
               /\ rocket_conv2d_extent(in + p, k, stride, dil) = out
<1> DEFINE e == rocket_eff_k(k, dil)
<1> DEFINE out == rocket_out_dim(in, k, stride, dil, same)
<1> DEFINE p == rocket_total_pad(in, k, stride, dil, out)
<1>1. e \in Nat \ {0} /\ out \in Nat \ {0} /\ in - e < out * stride
  BY OutDim
<1>2. in \in Nat /\ stride \in Nat \ {0}
  BY DEF Axis
<1>3. p = IF (out - 1) * stride + e - in > 0 THEN (out - 1) * stride + e - in ELSE 0
  BY DEF rocket_total_pad
<1> HIDE DEF e, out, p
<1>5. (out - 1) * stride \in Int /\ out * stride = (out - 1) * stride + stride
  BY <1>1, <1>2
<1>6. p \in Nat /\ (out - 1) * stride + e <= in + p
  BY <1>1, <1>2, <1>3, <1>5
<1>7. (out - 1) * stride <= in + p - e /\ in + p - e < (out - 1) * stride + stride
  BY <1>1, <1>2, <1>3, <1>5, <1>6
<1>8. (in + p - e) \div stride = out - 1
  <2> DEFINE a == in + p - e
             c == out - 1
  <2>1. a \in Int /\ c \in Int /\ stride \in Nat \ {0}
    BY <1>1, <1>2, <1>6
  <2>2. c * stride <= a /\ a < c * stride + stride
    BY <1>7
  <2> HIDE DEF a, c
  <2>3. a \div stride = c
    BY <2>1, <2>2, QuotientIs
  <2> QED BY <2>3 DEF a, c
<1>9. rocket_conv2d_extent(in + p, k, stride, dil) = out
  BY <1>1, <1>2, <1>6, <1>8 DEF rocket_conv2d_extent, e
<1> QED BY <1>6, <1>9 DEF e, out, p

\* No tap of a window falls past the padded extent.
LEMMA AxisInside ==
    ASSUME NEW in, NEW k, NEW stride, NEW dil, NEW same, Axis(in, k, stride, dil, same),
           NEW o \in Upto(rocket_out_dim(in, k, stride, dil, same)), NEW j \in Upto(k)
    PROVE  o * stride + j * dil
             < in + rocket_total_pad(in, k, stride, dil,
                                     rocket_out_dim(in, k, stride, dil, same))
<1> DEFINE e == rocket_eff_k(k, dil)
<1> DEFINE out == rocket_out_dim(in, k, stride, dil, same)
<1> DEFINE p == rocket_total_pad(in, k, stride, dil, out)
<1>1. out \in Nat \ {0}
  BY OutDim
<1>2. p \in Nat /\ (out - 1) * stride + e <= in + p
  BY AxisAgrees
<1>3. in \in Nat /\ k \in Nat \ {0} /\ stride \in Nat \ {0} /\ dil \in Nat \ {0}
  BY DEF Axis
<1>4. e = (k - 1) * dil + 1
  BY DEF rocket_eff_k
<1>5. o \in 0 .. out - 1 /\ j \in 0 .. k - 1
  BY DEF Upto
<1> HIDE DEF e, out, p
<1>6. o * stride <= (out - 1) * stride
  <2>1. (out - 1 - o) * stride >= 0
    BY <1>1, <1>3, <1>5
  <2> QED BY <2>1, <1>1, <1>3, <1>5
<1>7. j * dil <= (k - 1) * dil
  <2>1. (k - 1 - j) * dil >= 0
    BY <1>3, <1>5
  <2> QED BY <2>1, <1>3, <1>5
<1>8. /\ o * stride \in Int /\ (out - 1) * stride \in Int
      /\ j * dil \in Int /\ (k - 1) * dil \in Int
  BY <1>1, <1>3, <1>5
<1>9. o * stride + j * dil < in + p
  BY <1>2, <1>3, <1>4, <1>6, <1>7, <1>8
<1> QED BY <1>9 DEF out, p

-----------------------------------------------------------------------------
\* The layer is one that runs, and no inference has been given up over its extents.
GeometryInv == Runs(layer) /\ phase # "refused"

\* Both axes of a layer that runs.
LEMMA LayerAxes ==
    ASSUME Runs(layer)
    PROVE  /\ Axis(layer.IH, layer.KH, layer.sy, layer.dy, layer.same)
           /\ Axis(layer.IW, layer.KW, layer.sx, layer.dx, layer.same)
BY DEF Runs, Geometry, Axis

\* So eval_node's comparison with the library's extents always comes out equal.
LEMMA TakesAlways == ASSUME Runs(layer) PROVE DriverTakes
<1>1. rocket_conv2d_extent(IHp, layer.KH, layer.sy, layer.dy) = OH
  BY LayerAxes, AxisAgrees DEF IHp, OH, tot_h
<1>2. rocket_conv2d_extent(IWp, layer.KW, layer.sx, layer.dx) = OW
  BY LayerAxes, AxisAgrees DEF IWp, OW, tot_w
<1> QED BY <1>1, <1>2 DEF DriverTakes

\* The layer never changes, and only Load could leave an inference refused.
THEOREM Geometric == Spec => []GeometryInv
<1>1. Init => GeometryInv
  BY LayersAssumption DEF Init, GeometryInv
<1>2. GeometryInv /\ [Next]_vars => GeometryInv'
  <2> SUFFICES ASSUME GeometryInv, [Next]_vars PROVE GeometryInv'
    OBVIOUS
  <2> USE DEF GeometryInv
  <2>1. layer' = layer => Runs(layer)'
    BY DEF Runs
  <2>2. CASE Pack
    BY <2>1, <2>2 DEF Pack, model
  <2>3. CASE Load
    <3>1. layer' = layer
      BY <2>3 DEF Load, model
    <3>2. phase' = "loaded"
      BY <2>3, TakesAlways DEF Load
    <3> QED BY <2>1, <3>1, <3>2
  <2>4. CASE Multiply
    BY <2>1, <2>4 DEF Multiply, model
  <2>5. CASE BoxSum
    BY <2>1, <2>5 DEF BoxSum, model
  <2>6. CASE WriteOut
    BY <2>1, <2>6 DEF WriteOut, model
  <2>7. CASE Return
    BY <2>1, <2>7 DEF Return, model
  <2>8. CASE UNCHANGED vars
    BY <2>1, <2>8 DEF vars, model
  <2> QED BY <2>2, <2>3, <2>4, <2>5, <2>6, <2>7, <2>8 DEF Next
<1> QED BY <1>1, <1>2, PTL DEF Spec

\* For every layer TFLite can run, eval_node never gives up over OH or OW.
THEOREM Agreement == Spec => []DriverAgrees
<1>1. GeometryInv => DriverAgrees
  BY DEF GeometryInv, DriverAgrees
<1> QED BY <1>1, Geometric, PTL

\* For every layer TFLite can run, no window and no column of the separable sum
\* reaches past the padded plane.
THEOREM Inside == Spec => []TapsInside
<1>1. GeometryInv => TapsInside
  <2> SUFFICES ASSUME GeometryInv
               PROVE  /\ \A oh \in Upto(OH), kh \in Upto(layer.KH) : Row(oh, kh) < IHp
                      /\ \A ow \in Upto(OW), kw \in Upto(layer.KW) : Col(ow, kw) < IWp
                      /\ layer.sx = 1 /\ layer.dx = 1 => Tcols <= IWp
    BY DEF TapsInside
  <2> Runs(layer)
    BY DEF GeometryInv
  <2>1. \A oh \in Upto(OH), kh \in Upto(layer.KH) : Row(oh, kh) < IHp
    BY LayerAxes, AxisInside DEF Row, IHp, OH, tot_h
  <2>2. \A ow \in Upto(OW), kw \in Upto(layer.KW) : Col(ow, kw) < IWp
    BY LayerAxes, AxisInside DEF Col, IWp, OW, tot_w
  <2>3. ASSUME layer.sx = 1, layer.dx = 1 PROVE Tcols <= IWp
    <3>1. OW \in Nat \ {0} /\ layer.KW \in Nat \ {0} /\ layer.IW \in Nat
      BY LayerAxes, OutDim DEF OW, Axis
    <3>2. tot_w \in Nat /\ (OW - 1) * 1 + rocket_eff_k(layer.KW, 1) <= layer.IW + tot_w
      BY <2>3, LayerAxes, AxisAgrees DEF OW, tot_w
    <3>3. rocket_eff_k(layer.KW, 1) = layer.KW
      BY <3>1 DEF rocket_eff_k
    <3>4. IWp = layer.IW + tot_w /\ Tcols = OW + layer.KW - 1
      BY DEF IWp, Tcols
    <3> QED BY <3>1, <3>2, <3>3, <3>4
  <2> QED BY <2>1, <2>2, <2>3
<1> QED BY <1>1, Geometric, PTL

-----------------------------------------------------------------------------
(* The bytes.                                                              *)

\* Everything that is multiplied is a signed byte: the model's tensors are bytes of
\* their type, and recentering takes them all to the signed range, halo included.
BytesInv ==
    /\ TypeOK
    /\ uns \in BOOLEAN /\ in_zp \in Bytes(uns)
    /\ filter \in [Upto(layer.OC) -> [Taps -> Bytes(uns)]]

\* Recentering takes a byte of the tensor's type to a signed byte; a zero is one.
LEMMA Recentred ==
    ASSUME uns \in BOOLEAN
    PROVE  0 \in Bytes(FALSE) /\ \A b \in Bytes(uns) : b - shift \in Bytes(FALSE)
BY ByteAssumption DEF Bytes, shift

\* A pixel number counts rows first.
LEMMA PixelOf ==
    ASSUME NEW h \in Nat \ {0}, NEW w \in Nat \ {0}, NEW p \in Upto(h * w)
    PROVE  p \div w \in Upto(h) /\ p % w \in Upto(w)
<1> DEFINE q == p \div w
<1>0. h * w \in Nat
  OBVIOUS
<1>1. p \in Nat /\ p < h * w
  BY <1>0 DEF Upto
<1>2. q \in Int /\ q * w <= p /\ p < (q * w) + w
  BY <1>1, Quotient
<1>3. p % w \in Upto(w)
  BY <1>1 DEF Upto
<1> HIDE DEF q
<1>4. ~(q <= -1)
  <2> SUFFICES ASSUME q <= -1 PROVE FALSE
    OBVIOUS
  <2>1. -1 - q \in Nat
    BY <1>2
  <2>2. (-1 - q) * w >= 0
    BY <2>1
  <2>3. (-1 - q) * w = -w - (q * w)
    BY <1>2
  <2> QED BY <1>1, <1>2, <2>2, <2>3, q * w \in Int
<1>5. ~(q >= h)
  <2> SUFFICES ASSUME q >= h PROVE FALSE
    OBVIOUS
  <2>1. q - h \in Nat
    BY <1>2
  <2>2. (q - h) * w >= 0
    BY <2>1
  <2>3. (q - h) * w = (q * w) - (h * w)
    BY <1>2
  <2> QED BY <1>0, <1>1, <1>2, <2>2, <2>3, q * w \in Int
<1>6. q \in Upto(h)
  BY <1>2, <1>4, <1>5 DEF Upto
<1> QED BY <1>3, <1>6 DEF q

\* The padded plane holds signed bytes, inside the image and in the halo.
LEMMA PlaneBytes ==
    ASSUME BytesInv, NEW img \in [Pixels -> Samples[uns]]
    PROVE  \A p \in DOMAIN PaddedPlane(img) : PaddedPlane(img)[p] \in Bytes(FALSE)
<1> USE DEF BytesInv
<1> DEFINE D == Upto(layer.IC) \X Upto(IHp) \X Upto(IWp)
<1> SUFFICES ASSUME NEW p \in D PROVE PaddedPlane(img)[p] \in Bytes(FALSE)
  BY DEF PaddedPlane
<1> DEFINE h == p[2] - tot_h \div 2
           w == p[3] - tot_w \div 2
           b == IF h \in Upto(layer.IH) /\ w \in Upto(layer.IW) THEN img[<<p[1], h, w>>] ELSE in_zp
<1>1. PaddedPlane(img)[p] = b - shift
  BY DEF PaddedPlane
<1>2. p[1] \in Upto(layer.IC)
  OBVIOUS
<1> HIDE DEF h, w
<1>3. h \in Upto(layer.IH) /\ w \in Upto(layer.IW) => img[<<p[1], h, w>>] \in Samples[uns]
  BY <1>2 DEF Pixels
<1>4. b \in Bytes(uns)
  BY <1>3, ByteAssumption
<1> HIDE DEF b
<1> QED BY <1>1, <1>4, Recentred

\* So do the matmul's rows, with zeros from the last channel on.
LEMMA RowBytes ==
    ASSUME BytesInv, NEW img \in [Pixels -> Samples[uns]]
    PROVE  \A p \in DOMAIN MatmulRows(img) : MatmulRows(img)[p] \in Bytes(FALSE)
<1> USE DEF BytesInv
<1> SUFFICES ASSUME NEW p \in Upto(layer.IH * layer.IW) \X Upto(Kp)
             PROVE  MatmulRows(img)[p] \in Bytes(FALSE)
  BY DEF MatmulRows
<1> DEFINE h == p[1] \div layer.IW
           w == p[1] % layer.IW
<1>1. layer.IH \in Nat \ {0} /\ layer.IW \in Nat \ {0} /\ layer.IC \in Nat
  BY DEF TypeOK, Runs, Geometry
<1>2. p[1] \in Upto(layer.IH * layer.IW) /\ p[2] \in Upto(Kp)
  OBVIOUS
<1>3. h \in Upto(layer.IH) /\ w \in Upto(layer.IW)
  BY <1>1, <1>2, PixelOf
<1>4. MatmulRows(img)[p] = IF p[2] < layer.IC THEN img[<<p[2], h, w>>] - shift ELSE 0
  BY DEF MatmulRows
<1> HIDE DEF h, w
<1>5. p[2] < layer.IC => p[2] \in Upto(layer.IC)
  BY <1>1, <1>2 DEF Upto
<1>6. p[2] < layer.IC => img[<<p[2], h, w>>] \in Bytes(uns)
  BY <1>3, <1>5, ByteAssumption DEF Pixels
<1> QED BY <1>4, <1>6, Recentred

\* The model's tensors are bytes of their type.
LEMMA BytesInit == Init => BytesInv
<1> SUFFICES ASSUME Init PROVE BytesInv
  OBVIOUS
<1>1. Runs(layer)
  BY LayersAssumption DEF Init
<1>2. Samples[uns] \subseteq Bytes(uns)
  BY ByteAssumption DEF Init
<1>3. filter \in [Upto(layer.OC) -> [Taps -> Bytes(uns)]]
  BY <1>2 DEF Init
<1>4. DOMAIN w_i8 = {} /\ DOMAIN operand = {}
  BY DEF Init
<1>5. TypeOK
  BY <1>1, <1>4 DEF Init, TypeOK
<1> QED BY <1>3, <1>5 DEF Init, BytesInv

\* And every buffer a stage fills holds bytes of the type that stage produces.
LEMMA BytesNext == BytesInv /\ [Next]_vars => BytesInv'
<1> SUFFICES ASSUME BytesInv, [Next]_vars PROVE BytesInv'
  OBVIOUS
<1>1. ASSUME model' = model PROVE Taps' = Taps /\ layer' = layer /\ uns' = uns
                                  /\ in_zp' = in_zp /\ filter' = filter /\ way' = way
  BY <1>1 DEF model, Taps, FilterC, Upto
<1>2. CASE Pack
  <2>1. model' = model /\ operand' = operand /\ phase' = "packed"
    BY <1>2 DEF Pack
  <2>2. \A oc \in DOMAIN w_i8' : \A t \in Taps : w_i8'[oc][t] \in Bytes(FALSE)
    <3> SUFFICES ASSUME NEW oc \in Upto(layer.OC), NEW t \in Taps
                 PROVE  filter[oc][t] - shift \in Bytes(FALSE)
      BY <1>2 DEF Pack
    <3>1. filter[oc][t] \in Bytes(uns)
      BY DEF BytesInv
    <3> QED BY <3>1, Recentred DEF BytesInv
  <2> QED BY <1>1, <2>1, <2>2 DEF BytesInv, TypeOK
<1>3. CASE Load
  <2>1. model' = model /\ w_i8' = w_i8 /\ image' \in [Pixels -> Samples[uns]]
    BY <1>3 DEF Load, node
  <2>2. /\ phase' \in {"loaded", "refused"}
        /\ operand' \in {MatmulRows(image'), PaddedPlane(image'), operand}
    BY <1>3 DEF Load
  <2>3. \A p \in DOMAIN operand' : operand'[p] \in Bytes(FALSE)
    <3>1. CASE operand' = MatmulRows(image')
      BY <2>1, <3>1, RowBytes
    <3>2. CASE operand' = PaddedPlane(image')
      BY <2>1, <3>2, PlaneBytes
    <3>3. CASE operand' = operand
      BY <3>3 DEF BytesInv, TypeOK
    <3> QED BY <2>2, <3>1, <3>2, <3>3
  <2> QED BY <1>1, <2>1, <2>2, <2>3 DEF BytesInv, TypeOK
<1>4. CASE Multiply \/ BoxSum \/ WriteOut
  <2>1. model' = model /\ w_i8' = w_i8 /\ operand' = operand
    BY <1>4 DEF Multiply, BoxSum, WriteOut, node
  <2>2. phase' \in {"multiplied", "summed", "done"}
    BY <1>4 DEF Multiply, BoxSum, WriteOut
  <2> QED BY <1>1, <2>1, <2>2 DEF BytesInv, TypeOK
<1>5. CASE Return
  <2>1. model' = model /\ w_i8' = w_i8 /\ DOMAIN operand' = {} /\ phase' = "packed"
    BY <1>5 DEF Return, node
  <2> QED BY <1>1, <2>1 DEF BytesInv, TypeOK
<1>6. CASE UNCHANGED vars
  <2>1. model' = model /\ w_i8' = w_i8 /\ operand' = operand /\ phase' = phase
    BY <1>6 DEF vars, node
  <2> QED BY <1>1, <2>1 DEF BytesInv, TypeOK
<1> QED BY <1>2, <1>3, <1>4, <1>5, <1>6 DEF Next

\* Every operand the NPU is given, packed filter, padded plane or matmul row, is made of
\* signed bytes: no cast to int8_t in pack_weights or eval_node loses a bit.
THEOREM Typed == Spec => []TypeOK
<1>1. BytesInv => TypeOK
  BY DEF BytesInv
<1> QED BY <1>1, BytesInit, BytesNext, PTL DEF Spec

-----------------------------------------------------------------------------
(* The accumulators.                                                       *)

\* The products of two functions, and of what they are about other origins
Mul(O, W, S) == [t \in S |-> O[t] * W[t]]
Moved(O, W, alpha, beta, S) == [t \in S |-> (O[t] + alpha) * (W[t] + beta)]

\* The zero points cancel: a sum of products about one origin is the sum about
\* another, with the sum of either factor and the number of the terms put back.
LEMMA ZeroPoints ==
    ASSUME NEW S, IsFiniteSet(S), NEW O, NEW W, \A t \in S : O[t] \in Int /\ W[t] \in Int,
           NEW alpha \in Int, NEW beta \in Int
    PROVE  /\ SumFunctionOnSet(Moved(O, W, alpha, beta, S), S) =
                 SumFunctionOnSet(Mul(O, W, S), S) + alpha * SumFunctionOnSet(W, S)
                 + beta * SumFunctionOnSet(O, S) + Cardinality(S) * (alpha * beta)
           /\ SumFunctionOnSet(Mul(O, W, S), S) \in Int /\ SumFunctionOnSet(W, S) \in Int
           /\ SumFunctionOnSet(O, S) \in Int /\ Cardinality(S) \in Nat
<1> DEFINE R == Moved(O, W, alpha, beta, S)
           P == Mul(O, W, S)
           One == [t \in S |-> 1]
           A == [t \in S |-> P[t] + alpha * W[t]]
           B == [t \in S |-> A[t] + beta * O[t]]
<1>1. ASSUME NEW t \in S
      PROVE  /\ P[t] \in Int /\ W[t] \in Int /\ O[t] \in Int
             /\ A[t] \in Int /\ B[t] \in Int /\ One[t] = 1
             /\ A[t] = P[t] + alpha * W[t] /\ B[t] = A[t] + beta * O[t]
             /\ R[t] = B[t] + (alpha * beta) * One[t]
  <2> DEFINE o == O[t]
             w == W[t]
  <2>1. o \in Int /\ w \in Int /\ P[t] = o * w /\ R[t] = (o + alpha) * (w + beta)
    BY DEF Mul, Moved
  <2>2. A[t] = P[t] + alpha * w /\ B[t] = A[t] + beta * o /\ One[t] = 1
    OBVIOUS
  <2> HIDE DEF o, w, A, B, One, P, R
  <2>3. o * w \in Int /\ alpha * w \in Int /\ beta * o \in Int /\ alpha * beta \in Int
    BY <2>1
  <2>4. (o + alpha) * (w + beta) = o * w + alpha * w + beta * o + alpha * beta
    BY <2>1
  <2>5. (alpha * beta) * One[t] = alpha * beta
    BY <2>2, <2>3
  <2>6. A[t] \in Int /\ B[t] \in Int /\ P[t] \in Int
        /\ R[t] = B[t] + (alpha * beta) * One[t]
    BY <2>1, <2>2, <2>3, <2>4, <2>5
  <2> QED BY <2>1, <2>2, <2>6 DEF o, w
<1> HIDE DEF A, B, One, P, R
<1>2. alpha * beta \in Int
  OBVIOUS
<1>3. SumFunctionOnSet(A, S) = SumFunctionOnSet(P, S) + alpha * SumFunctionOnSet(W, S)
  BY <1>1, SumLinear
<1>4. SumFunctionOnSet(B, S) = SumFunctionOnSet(A, S) + beta * SumFunctionOnSet(O, S)
  BY <1>1, SumLinear
<1>5. SumFunctionOnSet(R, S) = SumFunctionOnSet(B, S) + (alpha * beta) * SumFunctionOnSet(One, S)
  BY <1>1, <1>2, SumLinear
<1>6. SumFunctionOnSet(One, S) = Cardinality(S) /\ Cardinality(S) \in Nat
  BY <1>1, SumOnes, FS_CardinalityType
<1>7. /\ SumFunctionOnSet(P, S) \in Int /\ SumFunctionOnSet(W, S) \in Int
      /\ SumFunctionOnSet(O, S) \in Int
  BY <1>1, SumInt
<1>8. (alpha * beta) * Cardinality(S) = Cardinality(S) * (alpha * beta)
  BY <1>2, <1>6
<1> QED BY <1>3, <1>4, <1>5, <1>6, <1>7, <1>8 DEF P, R

\* Triples of finite sets are finitely many.
LEMMA TriplesFinite ==
    ASSUME NEW A, IsFiniteSet(A), NEW B, IsFiniteSet(B), NEW C, IsFiniteSet(C)
    PROVE  IsFiniteSet(A \X B \X C)
<1> DEFINE D == (A \X B) \X C
           T == A \X B \X C
           h == [x \in D |-> <<x[1][1], x[1][2], x[2]>>]
<1>1. IsFiniteSet(D)
  BY FS_Product
<1>2. ASSUME NEW a \in A, NEW b \in B, NEW c \in C PROVE \E x \in D : h[x] = <<a, b, c>>
  <2>1. <<<<a, b>>, c>> \in D /\ h[<<<<a, b>>, c>>] = <<a, b, c>>
    OBVIOUS
  <2> QED BY <2>1
<1>3. h \in [D -> T] /\ \A y \in T : \E x \in D : h[x] = y
  <2>1. \A x \in D : h[x] \in T
    OBVIOUS
  <2>2. ASSUME NEW y \in T PROVE \E x \in D : h[x] = y
    <3>1. PICK a \in A, b \in B, c \in C : y = <<a, b, c>>
      OBVIOUS
    <3> HIDE DEF D, h
    <3> QED BY <1>2, <3>1
  <2>3. h \in [D -> T]
    <3> HIDE DEF D, T
    <3> QED BY <2>1
  <2> HIDE DEF D, T, h
  <2> QED BY <2>2, <2>3
<1> HIDE DEF D, T, h
<1>4. h \in Surjection(D, T)
  BY <1>3 DEF Surjection
<1> QED BY <1>1, <1>4, FS_Surjection DEF T

\* A window has finitely many taps.
LEMMA TapsFinite == ASSUME Runs(layer) PROVE IsFiniteSet(Taps)
<1>1. FilterC \in Nat /\ layer.KH \in Nat /\ layer.KW \in Nat
  BY DEF Runs, Geometry, FilterC
<1>2. \A n \in Nat : IsFiniteSet(Upto(n))
  BY FS_Interval DEF Upto
<1> QED BY <1>1, <1>2, TriplesFinite DEF Taps

\* The leading half of the padding that is materialised is TFLite's own.
LEMMA AxisPad ==
    ASSUME NEW in, NEW k, NEW stride, NEW dil, Axis(in, k, stride, dil, layer.same)
    PROVE  PadBefore(in, k, stride, dil)
               = rocket_total_pad(in, k, stride, dil,
                                  rocket_out_dim(in, k, stride, dil, layer.same)) \div 2
<1> DEFINE out == rocket_out_dim(in, k, stride, dil, layer.same)
           e == rocket_eff_k(k, dil)
<1>1. /\ in \in Nat /\ k \in Nat /\ stride \in Nat /\ dil \in Nat /\ out \in Nat /\ e \in Nat
      /\ layer.same \in BOOLEAN /\ (out - 1) * stride \in Int
      /\ e = (k - 1) * dil + 1 /\ (k - 1) * dil \in Int
  <2>1. in \in Nat /\ k \in Nat /\ stride \in Nat /\ dil \in Nat /\ layer.same \in BOOLEAN
    BY DEF Axis
  <2>2. out \in Nat /\ e \in Nat
    BY OutDim
  <2> HIDE DEF out, e
  <2>3. (out - 1) * stride \in Int /\ (k - 1) * dil \in Int
    BY <2>1, <2>2
  <2> QED BY <2>1, <2>2, <2>3 DEF e, rocket_eff_k
<1> DEFINE q == (out - 1) * stride + e - in
<1>2. rocket_total_pad(in, k, stride, dil, out) = IF q > 0 THEN q ELSE 0
  BY DEF rocket_total_pad
<1>3. CASE layer.same
  <2>1. out = (in + stride - 1) \div stride
    BY <1>3 DEF rocket_out_dim
  <2>2. PadBefore(in, k, stride, dil)
            = LET p == (out - 1) * stride + (k - 1) * dil + 1 - in
              IN  IF p > 0 THEN p \div 2 ELSE 0
    BY <1>3, <2>1 DEF PadBefore
  <2>3. (out - 1) * stride + (k - 1) * dil + 1 - in = q
    <3> HIDE DEF out, e
    <3> QED BY <1>1
  <2> HIDE DEF q, out, e
  <2>4. PadBefore(in, k, stride, dil) = IF q > 0 THEN q \div 2 ELSE 0
    BY <2>2, <2>3
  <2> QED BY <1>2, <2>4 DEF out
<1>4. CASE ~layer.same
  <2>1. (out - 1) * stride <= in - e
    BY <1>4, OutDim
  <2> HIDE DEF out, e
  <2>2. ~(q > 0)
    BY <1>1, <2>1
  <2> QED BY <1>2, <1>4, <2>2 DEF PadBefore, out
<1> QED BY <1>1, <1>3, <1>4

\* So on both axes of the layer.
LEMMA LayerPads ==
    ASSUME Runs(layer)
    PROVE  /\ PadBefore(layer.IH, layer.KH, layer.sy, layer.dy) = tot_h \div 2
           /\ PadBefore(layer.IW, layer.KW, layer.sx, layer.dx) = tot_w \div 2
           /\ tot_h \in Nat /\ tot_w \in Nat /\ OH \in Nat \ {0} /\ OW \in Nat \ {0}
           /\ IHp \in Nat /\ IWp \in Nat
<1>1. /\ PadBefore(layer.IH, layer.KH, layer.sy, layer.dy) = tot_h \div 2
      /\ PadBefore(layer.IW, layer.KW, layer.sx, layer.dx) = tot_w \div 2
  BY LayerAxes, AxisPad DEF tot_h, tot_w, OH, OW
<1>2. tot_h \in Nat /\ tot_w \in Nat
  BY LayerAxes, AxisAgrees DEF tot_h, tot_w, OH, OW
<1>3. OH \in Nat \ {0} /\ OW \in Nat \ {0}
  BY LayerAxes, OutDim DEF OH, OW
<1>4. layer.IH \in Nat /\ layer.IW \in Nat
  BY DEF Runs, Geometry
<1> QED BY <1>1, <1>2, <1>3, <1>4 DEF IHp, IWp

-----------------------------------------------------------------------------
(* What one tap reads.                                                     *)

TapRow(oh, t) == Row(oh, t[2]) - tot_h \div 2
TapCol(ow, t) == Col(ow, t[3]) - tot_w \div 2
Hits(oh, ow, t) == TapRow(oh, t) \in Upto(layer.IH) /\ TapCol(ow, t) \in Upto(layer.IW)

\* A byte of the image, or the zero point of the halo
Byte(oc, oh, ow, t) ==
    IF Hits(oh, ow, t) THEN image[<<Chan(oc, t[1]), TapRow(oh, t), TapCol(ow, t)>>] ELSE in_zp

\* A tap's share of TFLite's accumulator; nothing on the halo
Share(oc, oh, ow) ==
    [t \in Taps |-> (Byte(oc, oh, ow, t) - in_zp) * (filter[oc][t] - w_zp[oc])]

\* The constants of a layer that was claimed, and an inference's image
LayerInv ==
    /\ Runs(layer) /\ uns \in BOOLEAN /\ in_zp \in Bytes(uns)
    /\ filter \in [Upto(layer.OC) -> [Taps -> Bytes(uns)]]
    /\ w_zp \in [Upto(layer.OC) -> Bytes(uns)]
    /\ bias \in [Upto(layer.OC) -> Int]
    /\ way \in {"conv", "matmul", "entry"}
    /\ Allowed(layer, uns, w_zp, way)

ImageInv == image \in [Pixels -> Bytes(uns)]

\* Bytes are integers.
LEMMA BytesInt == ASSUME uns \in BOOLEAN PROVE Bytes(uns) \subseteq Int /\ shift \in Int
BY ByteAssumption DEF Bytes, shift

\* The coordinates of a tap.
LEMMA TapTyped ==
    ASSUME LayerInv, NEW t \in Taps, NEW oc \in Upto(layer.OC),
           NEW oh \in Upto(OH), NEW ow \in Upto(OW)
    PROVE  /\ t = <<t[1], t[2], t[3]>>
           /\ t[1] \in Upto(FilterC) /\ t[2] \in Upto(layer.KH) /\ t[3] \in Upto(layer.KW)
           /\ Chan(oc, t[1]) \in Upto(layer.IC)
           /\ Row(oh, t[2]) \in Upto(IHp) /\ Col(ow, t[3]) \in Upto(IWp)
<1>1. /\ t = <<t[1], t[2], t[3]>>
      /\ t[1] \in Upto(FilterC) /\ t[2] \in Upto(layer.KH) /\ t[3] \in Upto(layer.KW)
  BY DEF Taps
<1>2. Chan(oc, t[1]) \in Upto(layer.IC)
  BY <1>1 DEF LayerInv, Runs, Chan, FilterC
<1>3. /\ layer.KH \in Nat /\ layer.KW \in Nat /\ layer.sy \in Nat /\ layer.sx \in Nat
      /\ layer.dy \in Nat /\ layer.dx \in Nat /\ OH \in Nat /\ OW \in Nat
      /\ IHp \in Nat /\ IWp \in Nat
  BY LayerPads DEF LayerInv, Runs, Geometry
<1>4. /\ Row(oh, t[2]) < IHp /\ Col(ow, t[3]) < IWp
  <2>1. Row(oh, t[2]) < IHp
    BY <1>1, LayerAxes, AxisInside DEF Row, IHp, OH, tot_h, LayerInv
  <2>2. Col(ow, t[3]) < IWp
    BY <1>1, LayerAxes, AxisInside DEF Col, IWp, OW, tot_w, LayerInv
  <2> QED BY <2>1, <2>2
<1>5. Row(oh, t[2]) \in Nat /\ Col(ow, t[3]) \in Nat
  <2>1. oh \in Nat /\ ow \in Nat /\ t[2] \in Nat /\ t[3] \in Nat
    BY <1>1, <1>3 DEF Upto
  <2> QED BY <1>3, <2>1 DEF Row, Col
<1> QED BY <1>1, <1>2, <1>3, <1>4, <1>5 DEF Upto

\* What a tap reads, a pixel or the halo's zero point, is a byte.
LEMMA ByteTyped ==
    ASSUME LayerInv, ImageInv, NEW t \in Taps, NEW oc \in Upto(layer.OC),
           NEW oh \in Upto(OH), NEW ow \in Upto(OW)
    PROVE  Byte(oc, oh, ow, t) \in Bytes(uns)
<1>1. Chan(oc, t[1]) \in Upto(layer.IC)
  BY TapTyped
<1>2. Hits(oh, ow, t) => <<Chan(oc, t[1]), TapRow(oh, t), TapCol(ow, t)>> \in Pixels
  BY <1>1 DEF Hits, Pixels
<1> QED BY <1>2 DEF Byte, ImageInv, LayerInv

\* The padded plane holds them, recentered.
LEMMA PlaneTap ==
    ASSUME LayerInv, operand = PaddedPlane(image), NEW t \in Taps, NEW oc \in Upto(layer.OC),
           NEW oh \in Upto(OH), NEW ow \in Upto(OW)
    PROVE  operand[<<Chan(oc, t[1]), Row(oh, t[2]), Col(ow, t[3])>>]
               = Byte(oc, oh, ow, t) - shift
<1> DEFINE c == Chan(oc, t[1])
           r == Row(oh, t[2])
           w == Col(ow, t[3])
<1>1. c \in Upto(layer.IC) /\ r \in Upto(IHp) /\ w \in Upto(IWp)
  BY TapTyped
<1>2. TapRow(oh, t) = r - tot_h \div 2 /\ TapCol(ow, t) = w - tot_w \div 2
  BY DEF TapRow, TapCol
<1> HIDE DEF r, w, c
<1>3. operand[<<c, r, w>>] =
          (IF r - tot_h \div 2 \in Upto(layer.IH) /\ w - tot_w \div 2 \in Upto(layer.IW)
           THEN image[<<c, r - tot_h \div 2, w - tot_w \div 2>>] ELSE in_zp) - shift
  BY <1>1 DEF PaddedPlane
<1> QED BY <1>2, <1>3 DEF Byte, Hits, c, r, w

\* TFLite's accumulator is the shares of all the taps: those of the halo are nothing.
LEMMA ReferenceIs ==
    ASSUME LayerInv, ImageInv, NEW oc \in Upto(layer.OC),
           NEW oh \in Upto(OH), NEW ow \in Upto(OW)
    PROVE  Reference(oc, oh, ow) = bias[oc] + SumFunctionOnSet(Share(oc, oh, ow), Taps)
<1> DEFINE In == {t \in Taps : Hits(oh, ow, t)}
           g == [t \in In |->
                    (image[<<Chan(oc, t[1]), TapRow(oh, t), TapCol(ow, t)>>] - in_zp)
                    * (filter[oc][t] - w_zp[oc])]
           f == Share(oc, oh, ow)
<1>1. Reference(oc, oh, ow) = bias[oc] + SumFunctionOnSet(g, In)
  <2>1. /\ PadBefore(layer.IH, layer.KH, layer.sy, layer.dy) = tot_h \div 2
        /\ PadBefore(layer.IW, layer.KW, layer.sx, layer.dx) = tot_w \div 2
    BY LayerPads DEF LayerInv
  <2>2. DOMAIN g = In
    OBVIOUS
  <2> QED BY <2>1, <2>2 DEF Reference, SumFunction, Hits, TapRow, TapCol
<1>2. \A t \in Taps : f[t] \in Int
  <2> SUFFICES ASSUME NEW t \in Taps PROVE f[t] \in Int
    OBVIOUS
  <2>1. Byte(oc, oh, ow, t) \in Int /\ in_zp \in Int /\ filter[oc][t] \in Int /\ w_zp[oc] \in Int
    BY ByteTyped, BytesInt DEF LayerInv
  <2>2. f[t] = (Byte(oc, oh, ow, t) - in_zp) * (filter[oc][t] - w_zp[oc])
    BY DEF Share
  <2> HIDE DEF f
  <2> QED BY <2>1, <2>2
<1>3. \A t \in Taps \ In : f[t] = 0
  <2> SUFFICES ASSUME NEW t \in Taps \ In PROVE f[t] = 0
    OBVIOUS
  <2>1. Byte(oc, oh, ow, t) = in_zp
    BY DEF Byte
  <2>2. in_zp \in Int /\ filter[oc][t] \in Int /\ w_zp[oc] \in Int
    BY BytesInt DEF LayerInv
  <2>3. f[t] = (in_zp - in_zp) * (filter[oc][t] - w_zp[oc])
    BY <2>1 DEF Share
  <2> HIDE DEF f
  <2> QED BY <2>2, <2>3
<1>4. \A t \in In : g[t] = f[t]
  BY DEF Share, Byte
<1>5. IsFiniteSet(Taps) /\ In \subseteq Taps
  BY TapsFinite DEF LayerInv
<1>6. IsFiniteSet(In)
  <2> HIDE DEF In
  <2> QED BY <1>5, FS_Subset
<1> HIDE DEF In, g, f
<1>7. SumFunctionOnSet(f, Taps) = SumFunctionOnSet(f, In)
  BY <1>2, <1>3, <1>5, SumSupport
<1>8. SumFunctionOnSet(g, In) = SumFunctionOnSet(f, In)
  BY <1>4, <1>6, SumSame
<1> QED BY <1>1, <1>7, <1>8 DEF f

-----------------------------------------------------------------------------
(* The three ways in.                                                      *)

\* What pack_weights left in the ConvNode
Packs ==
    /\ \A oc \in Upto(layer.OC) :
          /\ DOMAIN w_i8[oc] = Taps
          /\ \A t \in Taps : w_i8[oc][t] = filter[oc][t] - shift
          /\ eff_bias[oc] = EffBias(w_i8, oc)
    /\ needs_boxsum \in BOOLEAN
    /\ needs_boxsum => uns
    /\ uns /\ ~layer.dw /\ ~needs_boxsum => \A oc \in Upto(layer.OC) : w_zp[oc] = Half

\* The recentered bytes of a window, and their products with a filter's
Recent(oc, oh, ow) == [t \in Taps |-> Byte(oc, oh, ow, t) - shift]
Products(oc, oh, ow) == [t \in Taps |-> (Byte(oc, oh, ow, t) - shift) * w_i8[oc][t]]

\* The numbers of a tap are integers.
LEMMA TapInts ==
    ASSUME LayerInv, ImageInv, Packs, NEW oc \in Upto(layer.OC),
           NEW oh \in Upto(OH), NEW ow \in Upto(OW), NEW t \in Taps
    PROVE  /\ Byte(oc, oh, ow, t) \in Int /\ filter[oc][t] \in Int
           /\ w_i8[oc][t] = filter[oc][t] - shift
           /\ in_zp \in Int /\ w_zp[oc] \in Int /\ shift \in Int
BY ByteTyped, BytesInt DEF LayerInv, Packs

\* What the host adds to a raw sum of products makes it TFLite's accumulator.
LEMMA CorrectedIs ==
    ASSUME LayerInv, ImageInv, Packs, ~layer.dw, NEW oc \in Upto(layer.OC),
           NEW oh \in Upto(OH), NEW ow \in Upto(OW), NEW raw,
           raw = SumFunctionOnSet(Products(oc, oh, ow), Taps),
           needs_boxsum => boxsum[<<oh, ow>>] = SumFunctionOnSet(Recent(oc, oh, ow), Taps)
    PROVE  Corrected(oc, <<oh, ow>>, raw) = Reference(oc, oh, ow)
<1> DEFINE R == Share(oc, oh, ow)
           P == Products(oc, oh, ow)
           O == Recent(oc, oh, ow)
           W == w_i8[oc]
           zi == in_zp
           zw == w_zp[oc]
           s == shift
           n == Cardinality(Taps)
           SR == SumFunctionOnSet(R, Taps)
           SP == SumFunctionOnSet(P, Taps)
           SW == SumFunctionOnSet(W, Taps)
           SO == SumFunctionOnSet(O, Taps)
<1>1. IsFiniteSet(Taps)
  BY TapsFinite DEF LayerInv
<1>2. s \in Int /\ zi \in Int /\ zw \in Int /\ bias[oc] \in Int
  BY BytesInt DEF LayerInv
<1>3. ASSUME NEW t \in Taps
      PROVE  /\ O[t] \in Int /\ W[t] \in Int /\ P[t] = O[t] * W[t]
             /\ R[t] = (O[t] + (s - zi)) * (W[t] + (s - zw))
  <2> DEFINE b == Byte(oc, oh, ow, t)
             w == filter[oc][t]
  <2>1. b \in Int /\ w \in Int /\ W[t] = w - s
    BY TapInts
  <2>2. O[t] = b - s /\ P[t] = (b - s) * W[t] /\ R[t] = (b - zi) * (w - zw)
    BY DEF Share, Products, Recent
  <2> HIDE DEF b, w, O, P, W, R, zi, zw, s
  <2>3. b - zi = O[t] + (s - zi) /\ w - zw = W[t] + (s - zw)
    BY <1>2, <2>1, <2>2
  <2> QED BY <1>2, <2>1, <2>2, <2>3
<1>4. Reference(oc, oh, ow) = bias[oc] + SR
  BY ReferenceIs
<1>5. FilterSum(w_i8, oc) = SW
  BY DEF FilterSum, SumFunction, Packs
<1>6. eff_bias[oc] = EffBias(w_i8, oc) /\ raw = SP /\ (needs_boxsum => boxsum[<<oh, ow>>] = SO)
  BY DEF Packs
<1>7. Corrected(oc, <<oh, ow>>, raw)
          = raw + eff_bias[oc] + (IF needs_boxsum THEN (Half - zw) * boxsum[<<oh, ow>>] ELSE 0)
  BY DEF Corrected
<1>8. EffBias(w_i8, oc) = IF uns THEN bias[oc] + (Half - zi) * SW + n * (Half - zi) * (Half - zw)
                          ELSE bias[oc] - zi * SW
  BY <1>5 DEF EffBias
<1>9. (uns => s = Half) /\ (~uns => s = 0 /\ zw = 0 /\ ~needs_boxsum)
      /\ (uns /\ ~needs_boxsum => Half - zw = 0) /\ Half \in Int
  <2>1. w_zp[oc] \in Int /\ Half \in Int
    BY <1>2, ByteAssumption
  <2>2. DOMAIN w_zp = Upto(layer.OC)
    BY DEF LayerInv
  <2>3. ~uns => w_zp[oc] = 0
    BY <2>2 DEF LayerInv, Allowed
  <2> QED BY <2>1, <2>3 DEF shift, Packs
<1> HIDE DEF R, P, O, W, zi, zw, s
<1>10. /\ SR = SP + (s - zi) * SW + (s - zw) * SO + n * ((s - zi) * (s - zw))
       /\ SP \in Int /\ SW \in Int /\ SO \in Int /\ n \in Nat
  <2> DEFINE alpha == s - zi
             beta == s - zw
  <2>1. alpha \in Int /\ beta \in Int
    BY <1>2
  <2>2. \A t \in Taps : O[t] \in Int /\ W[t] \in Int
    BY <1>3
  <2>3. P = Mul(O, W, Taps)
    BY <1>3 DEF Mul, P, Products
  <2>4. R = Moved(O, W, alpha, beta, Taps)
    BY <1>3 DEF Moved, R, Share
  <2> HIDE DEF alpha, beta
  <2>5. /\ SR = SP + alpha * SW + beta * SO + n * (alpha * beta)
        /\ SP \in Int /\ SW \in Int /\ SO \in Int /\ n \in Nat
    BY ONLY <1>1, <2>1, <2>2, <2>3, <2>4, ZeroPoints
  <2> QED BY <2>5 DEF alpha, beta
<1> HIDE DEF SR, SP, SW, SO, n
<1>11. CASE uns
  <2> DEFINE alpha == Half - zi
             beta == Half - zw
  <2>1. alpha \in Int /\ beta \in Int
    BY <1>2, <1>9
  <2>2. SR = SP + alpha * SW + beta * SO + n * (alpha * beta)
    BY <1>9, <1>10, <1>11
  <2>3. eff_bias[oc] = bias[oc] + alpha * SW + n * alpha * beta
    BY <1>6, <1>8, <1>11
  <2>4. Corrected(oc, <<oh, ow>>, raw) = SP + eff_bias[oc] + (IF needs_boxsum THEN beta * SO ELSE 0)
    BY <1>6, <1>7
  <2>5. ~needs_boxsum => beta = 0
    BY <1>9, <1>11
  <2> HIDE DEF alpha, beta
  <2>6. n * alpha * beta = n * (alpha * beta) /\ alpha * SW \in Int /\ beta * SO \in Int
        /\ n * (alpha * beta) \in Int
    BY <1>10, <2>1
  <2>7. (IF needs_boxsum THEN beta * SO ELSE 0) = beta * SO
    BY <1>10, <2>1, <2>5
  <2> QED BY <1>2, <1>4, <1>10, <2>2, <2>3, <2>4, <2>6, <2>7
<1>12. CASE ~uns
  <2>1. s - zi = -zi /\ s - zw = 0
    BY <1>2, <1>9, <1>12
  <2>2. SR = SP + (-zi) * SW
    BY <1>2, <1>10, <2>1
  <2>3. Corrected(oc, <<oh, ow>>, raw) = SP + (bias[oc] - zi * SW)
    BY <1>2, <1>6, <1>7, <1>8, <1>9, <1>10, <1>12
  <2>4. zi * SW \in Int /\ (-zi) * SW = -(zi * SW)
    BY <1>2, <1>10
  <2> QED BY <1>2, <1>4, <1>10, <2>2, <2>3, <2>4
<1> QED BY <1>11, <1>12

\* The conv path: the library's sum over a window of the plane,
LEMMA RawIs ==
    ASSUME LayerInv, ImageInv, Packs, ~layer.dw, operand = PaddedPlane(image),
           NEW oc \in Upto(layer.OC), NEW oh \in Upto(OH), NEW ow \in Upto(OW)
    PROVE  /\ RawConv[<<oc, <<oh, ow>>>>] = SumFunctionOnSet(Products(oc, oh, ow), Taps)
           /\ WindowSum[<<oh, ow>>] = SumFunctionOnSet(Recent(oc, oh, ow), Taps)
<1> DEFINE f == [t \in Taps |-> operand[<<t[1], Row(oh, t[2]), Col(ow, t[3])>>] * w_i8[oc][t]]
           g == [t \in Taps |-> operand[<<t[1], Row(oh, t[2]), Col(ow, t[3])>>]]
<1>1. RawConv[<<oc, <<oh, ow>>>>] = SumFunctionOnSet(f, Taps)
  <2>1. DOMAIN f = Taps /\ <<oc, <<oh, ow>>>> \in Upto(layer.OC) \X OutPixels
    BY DEF OutPixels
  <2> QED BY <2>1 DEF RawConv, SumFunction
<1>2. WindowSum[<<oh, ow>>] = SumFunctionOnSet(g, Taps)
  <2>1. DOMAIN g = Taps /\ <<oh, ow>> \in OutPixels
    BY DEF OutPixels
  <2> QED BY <2>1 DEF WindowSum, SumFunction
<1>3. ASSUME NEW t \in Taps
      PROVE  operand[<<t[1], Row(oh, t[2]), Col(ow, t[3])>>] = Byte(oc, oh, ow, t) - shift
  <2>1. Chan(oc, t[1]) = t[1]
    BY DEF Chan
  <2> QED BY <2>1, PlaneTap
<1>4. f = Products(oc, oh, ow) /\ g = Recent(oc, oh, ow)
  BY <1>3 DEF Products, Recent
<1> QED BY <1>1, <1>2, <1>4

\* and an entry, which does the whole sum.
LEMMA EntryIs ==
    ASSUME LayerInv, ImageInv, Packs, way = "entry", operand = PaddedPlane(image),
           NEW oc \in Upto(layer.OC), NEW oh \in Upto(OH), NEW ow \in Upto(OW)
    PROVE  EntryConv[<<oc, <<oh, ow>>>>] = Reference(oc, oh, ow)
<1> DEFINE f == [t \in Taps |->
                    (operand[<<Chan(oc, t[1]), Row(oh, t[2]), Col(ow, t[3])>>] - (in_zp - shift))
                    * (w_i8[oc][t] - (w_zp[0] - shift))]
<1>1. EntryConv[<<oc, <<oh, ow>>>>] = bias[oc] + SumFunctionOnSet(f, Taps)
  <2>1. DOMAIN f = Taps /\ <<oc, <<oh, ow>>>> \in Upto(layer.OC) \X OutPixels
    BY DEF OutPixels
  <2> QED BY <2>1 DEF EntryConv, SumFunction
<1>2. w_zp[0] = w_zp[oc]
  <2>1. DOMAIN w_zp = Upto(layer.OC)
    BY DEF LayerInv
  <2> QED BY <2>1 DEF LayerInv, Allowed
<1>3. ASSUME NEW t \in Taps PROVE f[t] = Share(oc, oh, ow)[t]
  <2> DEFINE b == Byte(oc, oh, ow, t)
             w == filter[oc][t]
             z == w_zp[oc]
  <2>1. f[t] = ((b - shift) - (in_zp - shift)) * ((w - shift) - (z - shift))
    BY <1>2, PlaneTap, TapInts
  <2>2. Share(oc, oh, ow)[t] = (b - in_zp) * (w - z)
    BY DEF Share
  <2>3. b \in Int /\ w \in Int /\ z \in Int /\ in_zp \in Int /\ shift \in Int
    BY TapInts
  <2> HIDE DEF b, w, z, f
  <2>4. (b - shift) - (in_zp - shift) = b - in_zp /\ (w - shift) - (z - shift) = w - z
    BY <2>3
  <2> QED BY <2>1, <2>2, <2>4
<1>4. f = Share(oc, oh, ow)
  BY <1>3 DEF Share
<1> QED BY <1>1, <1>4, ReferenceIs

\* A 1x1 kernel without a stride needs no padding and leaves the extent alone.
LEMMA PointAxis ==
    ASSUME NEW in \in Nat \ {0}, NEW dil \in Nat \ {0}, NEW same \in BOOLEAN
    PROVE  /\ rocket_out_dim(in, 1, 1, dil, same) = in
           /\ rocket_total_pad(in, 1, 1, dil, in) = 0
<1>1. rocket_eff_k(1, dil) = 1
  <2>1. (1 - 1) * dil = 0
    OBVIOUS
  <2> QED BY <2>1 DEF rocket_eff_k
<1>2. ASSUME NEW a \in Int PROVE a \div 1 = a
  BY QuotientIs
<1>3. rocket_out_dim(in, 1, 1, dil, same) = in
  <2>1. (in + 1 - 1) \div 1 = in + 1 - 1 /\ (in - 1) \div 1 = in - 1
    BY <1>2
  <2> QED BY <1>1, <2>1 DEF rocket_out_dim
<1>4. (in - 1) * 1 + 1 - in = 0
  OBVIOUS
<1> QED BY <1>1, <1>3, <1>4 DEF rocket_total_pad

\* The rows of the matmul are the pixels in order.
LEMMA PixelAt ==
    ASSUME NEW h \in Nat \ {0}, NEW w \in Nat \ {0}, NEW r \in Upto(h), NEW c \in Upto(w)
    PROVE  /\ r * w + c \in Upto(h * w)
           /\ (r * w + c) \div w = r /\ (r * w + c) % w = c
<1> DEFINE p == r * w + c
           rw == r * w
<1>1. r \in Nat /\ r <= h - 1 /\ c \in Nat /\ c < w
  BY DEF Upto
<1>2. rw \in Nat /\ p = rw + c
  BY <1>1
<1>3. p < h * w
  <2>1. (h - 1 - r) * w >= 0
    BY <1>1
  <2>2. (h - 1 - r) * w = h * w - w - r * w /\ h * w \in Int
    BY <1>1
  <2> QED BY <1>1, <1>2, <2>1, <2>2
<1>4. p \in Nat /\ h * w \in Nat
  BY <1>1, <1>2
<1>5. p \div w = r
  <2>1. r * w <= p /\ p < r * w + w
    BY <1>1, <1>2
  <2> HIDE DEF p
  <2> QED BY <1>1, <1>4, <2>1, QuotientIs
<1>6. p % w = c
  <2>1. p = (w * (p \div w)) + (p % w)
    BY <1>4
  <2>2. w * r = rw
    BY <1>1
  <2> HIDE DEF p, rw
  <2> QED BY <1>1, <1>2, <1>4, <1>5, <2>1, <2>2
<1> QED BY <1>3, <1>4, <1>5, <1>6 DEF Upto

\* Rounding up to the lane never loses a channel.
LEMMA RoundUpKeeps ==
    ASSUME NEW n \in Nat
    PROVE  RoundUp(n) \in Int /\ n <= RoundUp(n)
<1> DEFINE a == n + Lane - 1
           q == a \div Lane
<1>1. Lane \in Nat \ {0} /\ a \in Int
  BY ByteAssumption
<1> HIDE DEF a
<1>2. q \in Int /\ q * Lane <= a /\ a < q * Lane + Lane
  BY <1>1, Quotient
<1> HIDE DEF q
<1>3. q * Lane \in Int
  BY <1>1, <1>2
<1>4. RoundUp(n) = q * Lane
  BY DEF RoundUp, q, a
<1> QED BY <1>1, <1>2, <1>3, <1>4 DEF a

\* On the matmul path a tap is a channel, and reads the pixel itself.
LEMMA PointTap ==
    ASSUME LayerInv, way = "matmul"
    PROVE  /\ ~layer.dw /\ OH = layer.IH /\ OW = layer.IW
           /\ Taps = {<<k, 0, 0>> : k \in Upto(layer.IC)}
           /\ \A oc \in Upto(layer.OC), oh \in Upto(OH), ow \in Upto(OW), k \in Upto(layer.IC) :
                 Byte(oc, oh, ow, <<k, 0, 0>>) = image[<<k, oh, ow>>]
<1>1. /\ ~layer.dw /\ layer.KH = 1 /\ layer.KW = 1 /\ layer.sy = 1 /\ layer.sx = 1
  BY DEF LayerInv, Allowed
<1>2. /\ layer.IH \in Nat \ {0} /\ layer.IW \in Nat \ {0} /\ layer.dy \in Nat \ {0}
      /\ layer.dx \in Nat \ {0} /\ layer.same \in BOOLEAN
  BY DEF LayerInv, Runs, Geometry
<1>3. OH = layer.IH /\ OW = layer.IW
  BY <1>1, <1>2, PointAxis DEF OH, OW
<1>4. tot_h = 0 /\ tot_w = 0
  BY <1>1, <1>2, <1>3, PointAxis DEF tot_h, tot_w
<1>5. Taps = {<<k, 0, 0>> : k \in Upto(layer.IC)}
  <2>1. Upto(1) = {0}
    BY DEF Upto
  <2>2. Taps = Upto(layer.IC) \X {0} \X {0}
    BY <1>1, <2>1 DEF Taps, FilterC
  <2> QED BY <2>2
<1>6. ASSUME NEW oc \in Upto(layer.OC), NEW oh \in Upto(OH), NEW ow \in Upto(OW),
             NEW k \in Upto(layer.IC)
      PROVE  Byte(oc, oh, ow, <<k, 0, 0>>) = image[<<k, oh, ow>>]
  <2> DEFINE t == <<k, 0, 0>>
  <2>1. t[1] = k /\ t[2] = 0 /\ t[3] = 0
    OBVIOUS
  <2>2. oh \in Int /\ ow \in Int /\ oh \in Upto(layer.IH) /\ ow \in Upto(layer.IW)
    BY <1>2, <1>3 DEF Upto
  <2> HIDE DEF t
  <2>3. TapRow(oh, t) = oh /\ TapCol(ow, t) = ow
    <3>1. oh * 1 + 0 * layer.dy = oh /\ ow * 1 + 0 * layer.dx = ow
      BY <1>2, <2>2
    <3>2. Row(oh, 0) = oh /\ Col(ow, 0) = ow
      BY <1>1, <3>1 DEF Row, Col
    <3>3. 0 \div 2 = 0
      OBVIOUS
    <3> QED BY <1>4, <2>1, <2>2, <3>2, <3>3 DEF TapRow, TapCol
  <2>4. Chan(oc, t[1]) = k
    BY <1>1, <2>1 DEF Chan
  <2> QED BY <2>2, <2>3, <2>4 DEF Byte, Hits, t
<1> QED BY <1>1, <1>3, <1>5, <1>6

\* The matmul path: the channels beyond the layer's are zero, and the rest are the
\* taps of the window.
LEMMA MatmulIs ==
    ASSUME LayerInv, ImageInv, Packs, way = "matmul", operand = MatmulRows(image),
           NEW oc \in Upto(layer.OC), NEW oh \in Upto(OH), NEW ow \in Upto(OW)
    PROVE  /\ RawMatmul[<<oh * OW + ow, oc>>] = SumFunctionOnSet(Products(oc, oh, ow), Taps)
           /\ RowSums(image)[<<oh, ow>>] = SumFunctionOnSet(Recent(oc, oh, ow), Taps)
<1> DEFINE C == Upto(layer.IC)
           row == oh * OW + ow
           f == [k \in Upto(Kp) |-> operand[<<row, k>>] * MatmulFilter(oc, k)]
           g == [c \in C |-> image[<<c, oh, ow>>] - shift]
           h == [k \in C |-> <<k, 0, 0>>]
           P == Products(oc, oh, ow)
           O == Recent(oc, oh, ow)
<1>1. /\ layer.IH \in Nat \ {0} /\ layer.IW \in Nat \ {0} /\ layer.IC \in Nat /\ layer.OC \in Nat
      /\ OH = layer.IH /\ OW = layer.IW /\ Taps = {h[k] : k \in C}
  BY PointTap DEF LayerInv, Runs, Geometry
<1>2. row \in Upto(layer.IH * layer.IW) /\ row \div layer.IW = oh /\ row % layer.IW = ow
  BY <1>1, PixelAt
<1>3. C \subseteq Upto(Kp) /\ oc \in Upto(Np) /\ IsFiniteSet(Upto(Kp)) /\ IsFiniteSet(C)
  <2>1. Kp \in Int /\ layer.IC <= Kp /\ Np \in Int /\ layer.OC <= Np
    BY <1>1, RoundUpKeeps DEF Kp, Np
  <2>2. C \subseteq Upto(Kp) /\ oc \in Upto(Np)
    BY <1>1, <2>1 DEF Upto
  <2>3. ASSUME NEW n \in Int PROVE IsFiniteSet(Upto(n))
    BY FS_Interval DEF Upto
  <2> QED BY <1>1, <2>1, <2>2, <2>3
<1>4. RawMatmul[<<row, oc>>] = SumFunctionOnSet(f, Upto(Kp))
  <2> HIDE DEF row
  <2>1. <<row, oc>> \in Upto(layer.IH * layer.IW) \X Upto(Np) /\ DOMAIN f = Upto(Kp)
    BY <1>2, <1>3
  <2> QED BY <2>1 DEF RawMatmul, SumFunction
<1>5. RowSums(image)[<<oh, ow>>] = SumFunctionOnSet(g, C)
  <2>1. <<oh, ow>> \in OutPixels /\ DOMAIN g = C
    BY DEF OutPixels
  <2> QED BY <2>1 DEF RowSums, SumFunction
<1> HIDE DEF row
<1>6. ASSUME NEW k \in Upto(Kp)
      PROVE  /\ operand[<<row, k>>] = IF k < layer.IC THEN image[<<k, oh, ow>>] - shift ELSE 0
             /\ k < layer.IC <=> k \in C
  <2>1. k \in Nat
    BY <1>1, RoundUpKeeps DEF Upto, Kp
  <2>2. k < layer.IC <=> k \in C
    BY <1>1, <2>1 DEF Upto
  <2> DEFINE p == <<row, k>>
  <2>3. p \in Upto(layer.IH * layer.IW) \X Upto(Kp) /\ p[1] = row /\ p[2] = k
    BY <1>2
  <2> HIDE DEF p
  <2>4. operand[p] = IF k < layer.IC THEN image[<<k, oh, ow>>] - shift ELSE 0
    BY <1>2, <2>3 DEF MatmulRows
  <2> QED BY <2>2, <2>4 DEF p
<1>7. ASSUME NEW k \in C
      PROVE  /\ h[k] \in Taps /\ O[h[k]] = g[k] /\ O[h[k]] \in Int
             /\ P[h[k]] = f[k] /\ P[h[k]] \in Int
  <2> DEFINE t == <<k, 0, 0>>
  <2>1. h[k] = t /\ t \in Taps
    BY <1>1
  <2>2. Byte(oc, oh, ow, t) = image[<<k, oh, ow>>]
    BY PointTap
  <2> HIDE DEF t, h
  <2>3. O[t] = image[<<k, oh, ow>>] - shift /\ P[t] = (image[<<k, oh, ow>>] - shift) * w_i8[oc][t]
    BY <2>1, <2>2 DEF Recent, Products
  <2>4. O[t] \in Int /\ w_i8[oc][t] \in Int
    BY <2>1, <2>2, <2>3, TapInts
  <2>5. MatmulFilter(oc, k) = w_i8[oc][t]
    <3>1. oc < layer.OC /\ k < layer.IC
      BY <1>1 DEF Upto
    <3> QED BY <3>1 DEF MatmulFilter, t
  <2>6. f[k] = (image[<<k, oh, ow>>] - shift) * w_i8[oc][t]
    BY <1>3, <1>6, <2>5
  <2>7. P[t] \in Int
    BY <2>3, <2>4
  <2> QED BY <2>1, <2>3, <2>4, <2>6, <2>7
<1>8. ASSUME NEW k \in Upto(Kp) \ C PROVE f[k] = 0
  <2>1. operand[<<row, k>>] = 0 /\ MatmulFilter(oc, k) = 0
    BY <1>6 DEF MatmulFilter
  <2> QED BY <2>1
<1>9. \A x, y \in C : h[x] = h[y] => x = y
  OBVIOUS
<1>10. \A k \in Upto(Kp) : f[k] \in Int
  <2> SUFFICES ASSUME NEW k \in Upto(Kp) PROVE f[k] \in Int
    OBVIOUS
  <2> HIDE DEF f, C, P, O, h, g
  <2>1. CASE k \in C
    BY <1>7, <2>1
  <2>2. CASE k \notin C
    BY <1>8, <2>2
  <2> QED BY <2>1, <2>2
<1> HIDE DEF f, g, h, P, O, C
<1>11. SumFunctionOnSet(f, Upto(Kp)) = SumFunctionOnSet(f, C)
  BY <1>3, <1>8, <1>10, SumSupport
<1>12. SumFunctionOnSet(f, C) = SumFunctionOnSet(P, {h[k] : k \in C})
  BY <1>3, <1>7, <1>9, SumImage
<1>13. SumFunctionOnSet(g, C) = SumFunctionOnSet(O, {h[k] : k \in C})
  BY <1>3, <1>7, <1>9, SumImage
<1> QED BY <1>1, <1>4, <1>5, <1>11, <1>12, <1>13 DEF row, P, O

\* The separable form is the same sum over a window, taken one column at a time.
LEMMA SeparableIs ==
    ASSUME LayerInv, ImageInv, ~layer.dw, operand = PaddedPlane(image),
           layer.sx = 1, layer.dx = 1
    PROVE  SeparableSum = WindowSum
<1> DEFINE D == Upto(layer.IC) \X Upto(layer.KH)
           B == Upto(layer.KW)
<1>1. /\ layer.IC \in Nat /\ layer.KH \in Nat /\ layer.KW \in Nat \ {0}
      /\ OH \in Nat \ {0} /\ OW \in Nat \ {0}
  BY LayerPads DEF LayerInv, Runs, Geometry
<1>2. IsFiniteSet(D) /\ IsFiniteSet(B)
  <2>1. \A n \in Nat : IsFiniteSet(Upto(n))
    BY FS_Interval DEF Upto
  <2> QED BY <1>1, <2>1, FS_Product
<1>3. Taps = Upto(layer.IC) \X Upto(layer.KH) \X B
  BY DEF Taps, FilterC
<1> SUFFICES \A p \in OutPixels : SeparableSum[p] = WindowSum[p]
  BY DEF SeparableSum, WindowSum
<1> SUFFICES ASSUME NEW oh \in Upto(OH), NEW ow \in Upto(OW)
             PROVE  SeparableSum[<<oh, ow>>] = WindowSum[<<oh, ow>>]
  BY DEF OutPixels
<1> DEFINE at == <<oh, ow>>
           g == [t \in Taps |-> operand[<<t[1], Row(oh, t[2]), Col(ow, t[3])>>]]
           column(iw) == [t \in D |-> operand[<<t[1], Row(oh, t[2]), iw>>]]
           total_ == [kw \in B |-> SumFunctionOnSet(column(ow + kw), D)]
           part == [kw \in B |-> {<<t[1], t[2], kw>> : t \in D}]
<1>4. WindowSum[at] = SumFunctionOnSet(g, Taps)
  <2>1. DOMAIN g = Taps /\ at \in OutPixels /\ at[1] = oh /\ at[2] = ow
    BY DEF OutPixels
  <2> HIDE DEF at
  <2> QED BY <2>1 DEF WindowSum, SumFunction
<1>5. SeparableSum[at] = SumFunctionOnSet(total_, B)
  <2> DEFINE T == [iw \in Upto(Tcols) |->
                      SumFunction([t \in D |-> operand[<<t[1], Row(at[1], t[2]), iw>>]])]
             near == [kw \in B |-> T[at[2] + kw]]
  <2>1. at \in OutPixels /\ at[1] = oh /\ at[2] = ow
    BY DEF OutPixels
  <2>2. SeparableSum[at] = SumFunction(near)
    <3> HIDE DEF at
    <3> QED BY <2>1 DEF SeparableSum
  <2>3. ASSUME NEW kw \in B PROVE near[kw] = total_[kw]
    <3>1. ow + kw \in Upto(Tcols)
      BY <1>1 DEF Upto, Tcols
    <3>2. DOMAIN column(ow + kw) = D
      OBVIOUS
    <3>3. T[ow + kw] = SumFunction(column(ow + kw))
      <4> HIDE DEF at, D
      <4> QED BY <2>1, <3>1
    <3>4. SumFunction(column(ow + kw)) = SumFunctionOnSet(column(ow + kw), D)
      BY <3>2 DEF SumFunction
    <3>5. near[kw] = T[ow + kw]
      BY <2>1
    <3> QED BY <3>3, <3>4, <3>5
  <2>4. near = total_
    BY <2>3
  <2>5. DOMAIN total_ = B
    OBVIOUS
  <2> HIDE DEF near, total_, T, B
  <2> QED BY <2>2, <2>4, <2>5 DEF SumFunction
<1>6. ASSUME NEW t \in Taps PROVE g[t] \in Int
  <2>1. 0 \in Upto(layer.OC)
    BY DEF Upto, LayerInv, Runs, Geometry
  <2>2. g[t] = Byte(0, oh, ow, t) - shift
    <3>1. Chan(0, t[1]) = t[1]
      BY DEF Chan
    <3> QED BY <2>1, <3>1, PlaneTap
  <2>3. Byte(0, oh, ow, t) \in Int /\ shift \in Int
    BY <2>1, ByteTyped, BytesInt DEF LayerInv
  <2> HIDE DEF g
  <2> QED BY <2>2, <2>3
<1>7. ASSUME NEW kw \in B
      PROVE  total_[kw] = SumFunctionOnSet(g, part[kw]) /\ IsFiniteSet(part[kw])
             /\ part[kw] \subseteq Taps
  <2> DEFINE f == column(ow + kw)
             h == [t \in D |-> <<t[1], t[2], kw>>]
  <2>1. ASSUME NEW t \in D PROVE h[t] \in Taps /\ f[t] = g[h[t]]
    <3>1. t[1] \in Upto(layer.IC) /\ t[2] \in Upto(layer.KH) /\ h[t] = <<t[1], t[2], kw>>
      OBVIOUS
    <3>2. h[t] \in Taps
      BY <1>3, <3>1
    <3>3. Col(ow, kw) = ow + kw
      <4>1. ow \in Int /\ kw \in Int
        BY <1>1 DEF Upto
      <4> QED BY <4>1 DEF Col
    <3>4. h[t][1] = t[1] /\ h[t][2] = t[2] /\ h[t][3] = kw
      BY <3>1
    <3>5. g[h[t]] = operand[<<t[1], Row(oh, t[2]), Col(ow, kw)>>]
      <4> HIDE DEF h, D, B
      <4> QED BY <3>2, <3>4
    <3> QED BY <3>2, <3>3, <3>5
  <2>2. \A t, u \in D : h[t] = h[u] => t = u
    OBVIOUS
  <2>3. part[kw] = {h[t] : t \in D}
    OBVIOUS
  <2>4. part[kw] \subseteq Taps
    <3> HIDE DEF h, D, part
    <3> QED BY <2>1, <2>3
  <2> HIDE DEF f, g, h, D, part
  <2>5. SumFunctionOnSet(f, D) = SumFunctionOnSet(g, {h[t] : t \in D})
        /\ IsFiniteSet({h[t] : t \in D})
    BY <1>2, <1>6, <2>1, <2>2, SumImage
  <2> QED BY <2>3, <2>4, <2>5 DEF f
<1>8. \A b, c \in B : b # c => part[b] \cap part[c] = {}
  <2> SUFFICES ASSUME NEW b \in B, NEW c \in B, b # c, NEW x \in part[b], x \in part[c]
               PROVE  FALSE
    BY Zenon
  <2>1. x[3] = b /\ x[3] = c
    OBVIOUS
  <2> QED BY <2>1
<1>9. Whole(part, B) = Taps
  <2>1. ASSUME NEW t \in Taps PROVE \E b \in B : t \in part[b]
    <3>1. PICK x \in Upto(layer.IC), y \in Upto(layer.KH), b \in B : t = <<x, y, b>>
      BY <1>3
    <3>2. <<x, y>> \in D
      OBVIOUS
    <3>3. t = <<<<x, y>>[1], <<x, y>>[2], b>>
      BY <3>1
    <3> QED BY <3>2, <3>3
  <2>2. \A b \in B : part[b] \subseteq Taps
    BY <1>7
  <2> HIDE DEF part, B
  <2> QED BY <2>1, <2>2 DEF Whole
<1> HIDE DEF part, B, g, total_, at
<1>10. SumFunctionOnSet(total_, B) = SumFunctionOnSet(g, Whole(part, B))
  <2>1. \A b \in B : IsFiniteSet(part[b]) /\ \A x \in part[b] : g[x] \in Int
    BY <1>6, <1>7
  <2>2. \A b \in B : total_[b] = SumFunctionOnSet(g, part[b])
    BY <1>7
  <2>3. IsFiniteSet(B)
    BY <1>2
  <2> QED BY ONLY <1>8, <2>1, <2>2, <2>3, SumParts
<1> QED BY <1>4, <1>5, <1>9, <1>10 DEF at

-----------------------------------------------------------------------------
(* The steps of one convolution.                                           *)

\* A step that leaves the model alone leaves its geometry alone,
LEMMA SameGeometry ==
    ASSUME model' = model
    PROVE  /\ layer' = layer /\ uns' = uns /\ filter' = filter /\ w_zp' = w_zp
           /\ in_zp' = in_zp /\ bias' = bias /\ way' = way
           /\ OH' = OH /\ OW' = OW /\ tot_h' = tot_h /\ tot_w' = tot_w /\ IHp' = IHp /\ IWp' = IWp
           /\ Pixels' = Pixels /\ OutPixels' = OutPixels /\ Taps' = Taps /\ shift' = shift
           /\ Kp' = Kp /\ Np' = Np /\ Tcols' = Tcols
<1>1. /\ layer' = layer /\ uns' = uns /\ filter' = filter /\ w_zp' = w_zp
      /\ in_zp' = in_zp /\ bias' = bias /\ way' = way
  BY DEF model
<1>2. OH' = OH /\ OW' = OW
  BY <1>1 DEF OH, OW
<1>3. tot_h' = tot_h /\ tot_w' = tot_w
  BY <1>1, <1>2 DEF tot_h, tot_w
<1>4. IHp' = IHp /\ IWp' = IWp
  BY <1>1, <1>3 DEF IHp, IWp
<1>5. Pixels' = Pixels /\ OutPixels' = OutPixels
  BY <1>1, <1>2 DEF Pixels, OutPixels
<1>6. Taps' = Taps /\ shift' = shift
  BY <1>1 DEF Taps, FilterC, shift
<1>7. Kp' = Kp /\ Np' = Np /\ Tcols' = Tcols
  BY <1>1, <1>2 DEF Kp, Np, Tcols
<1> QED BY <1>1, <1>2, <1>3, <1>4, <1>5, <1>6, <1>7

\* and its operands and sums, as long as what they are made of stays.
LEMMA SameOperand ==
    ASSUME model' = model
    PROVE  /\ MatmulRows(image)' = MatmulRows(image') /\ PaddedPlane(image)' = PaddedPlane(image')
           /\ RowSums(image)' = RowSums(image')
<1> USE SameGeometry
<1>1. MatmulRows(image)' = MatmulRows(image')
  BY DEF MatmulRows
<1>2. PaddedPlane(image)' = PaddedPlane(image')
  BY DEF PaddedPlane
<1>3. RowSums(image)' = RowSums(image')
  BY DEF RowSums
<1> QED BY <1>1, <1>2, <1>3

\* The raw sums are of the packed filter and the loaded operand alone.
LEMMA SameSums ==
    ASSUME model' = model, w_i8' = w_i8, operand' = operand
    PROVE  RawConv' = RawConv /\ RawMatmul' = RawMatmul /\ EntryConv' = EntryConv
           /\ WindowSum' = WindowSum
<1> USE SameGeometry
<1>1. RawConv' = RawConv
  BY DEF RawConv, Row, Col
<1>2. RawMatmul' = RawMatmul
  BY DEF RawMatmul, MatmulFilter
<1>3. EntryConv' = EntryConv
  BY DEF EntryConv, Row, Col, Chan
<1>4. WindowSum' = WindowSum
  BY DEF WindowSum, Row, Col
<1> QED BY <1>1, <1>2, <1>3, <1>4

\* What one convolution has made by each phase, each made of what came before
Loaded ==
    /\ ImageInv
    /\ operand = IF way = "matmul" THEN MatmulRows(image) ELSE PaddedPlane(image)
    /\ way = "matmul" /\ needs_boxsum => boxsum = RowSums(image)

Multiplied ==
    /\ way = "conv" => acc = RawConv
    /\ way = "matmul" => acc = RawMatmul
    /\ way = "entry" => acc = EntryConv

Totalled ==
    /\ way = "conv" => total = ConvTotals
    /\ way = "matmul" => total = MatmulTotals
    /\ way = "entry" => total = acc

AccInv ==
    /\ LayerInv
    /\ phase \in {"model", "packed", "loaded", "multiplied", "summed", "done", "refused"}
    /\ phase # "model" => Packs
    /\ phase \in {"loaded", "multiplied", "summed", "done"} => Loaded
    /\ phase \in {"multiplied", "summed", "done"} => Multiplied
    /\ phase = "multiplied" => way = "conv"
    /\ phase \in {"summed", "done"} /\ way = "conv" /\ needs_boxsum => boxsum = WindowSum
    /\ phase = "done" => Totalled

\* Before the weights are packed nothing is claimed of them.
LEMMA AccInit == Init => AccInv
<1> SUFFICES ASSUME Init PROVE AccInv
  OBVIOUS
<1>1. Runs(layer) /\ uns \in BOOLEAN /\ in_zp \in Bytes(uns) /\ phase = "model"
  BY LayersAssumption DEF Init
<1>2. Samples[uns] \subseteq Bytes(uns) /\ Biases \subseteq Int
  BY <1>1, ByteAssumption
<1>3. filter \in [Upto(layer.OC) -> [Taps -> Bytes(uns)]]
  BY <1>2 DEF Init
<1>4. bias \in [Upto(layer.OC) -> Int]
  BY <1>2 DEF Init
<1>5. LayerInv
  BY <1>1, <1>3, <1>4 DEF Init, LayerInv
<1> QED BY <1>1, <1>5 DEF AccInv

\* What the model keeps
LEMMA SameLayer == ASSUME LayerInv, model' = model PROVE LayerInv'
BY SameGeometry DEF LayerInv

\* What Pack left stays as long as the node does.
LEMMA SamePacks == ASSUME Packs, model' = model, node' = node PROVE Packs'
<1>1. /\ w_i8' = w_i8 /\ eff_bias' = eff_bias /\ needs_boxsum' = needs_boxsum
  BY DEF node
<1>2. \A oc : EffBias(w_i8, oc)' = EffBias(w_i8, oc)
  BY <1>1, SameGeometry DEF EffBias, FilterSum
<1> QED BY <1>1, <1>2, SameGeometry DEF Packs

\* What the load left stays as long as the image and the operand do.
LEMMA SameLoaded ==
    ASSUME Loaded, model' = model, node' = node, image' = image, operand' = operand,
           way # "matmul" \/ boxsum' = boxsum
    PROVE  Loaded'
<1>1. needs_boxsum' = needs_boxsum /\ way' = way
  BY SameGeometry DEF node
<1>2. ImageInv'
  BY SameGeometry DEF Loaded, ImageInv
<1>3. /\ MatmulRows(image)' = MatmulRows(image) /\ PaddedPlane(image)' = PaddedPlane(image)
      /\ RowSums(image)' = RowSums(image)
  BY SameOperand
<1> QED BY <1>1, <1>2, <1>3 DEF Loaded

\* What the multiply left stays as long as its operands do.
LEMMA SameMultiplied ==
    ASSUME Multiplied, model' = model, w_i8' = w_i8, operand' = operand, acc' = acc
    PROVE  Multiplied'
BY SameGeometry, SameSums DEF Multiplied

\* Each stage leaves what the next relies on.
LEMMA AccNext == AccInv /\ [Next]_vars => AccInv'
<1> SUFFICES ASSUME AccInv, [Next]_vars PROVE AccInv'
  OBVIOUS
<1>1. LayerInv /\ (phase # "model" => Packs) /\ way \in {"conv", "matmul", "entry"}
  BY DEF AccInv, LayerInv
<1>2. CASE Pack
  <2>1. model' = model /\ phase' = "packed"
    BY <1>2 DEF Pack
  <2>2. LayerInv'
    BY <1>1, <2>1, SameLayer
  <2>3. Packs'
    <3>1. /\ w_i8' = [oc \in Upto(layer.OC) |-> [t \in Taps |-> filter[oc][t] - shift]]
          /\ eff_bias' = [oc \in Upto(layer.OC) |-> EffBias(w_i8', oc)]
          /\ needs_boxsum' = (uns /\ ~layer.dw /\ \E oc \in Upto(layer.OC) : w_zp[oc] # Half)
      BY <1>2 DEF Pack
    <3>2. ASSUME NEW oc \in Upto(layer.OC) PROVE EffBias(w_i8, oc)' = EffBias(w_i8', oc)
      BY <2>1, SameGeometry DEF EffBias, FilterSum
    <3>3. ASSUME NEW oc \in Upto(layer.OC)
          PROVE  /\ DOMAIN w_i8'[oc] = Taps
                 /\ \A t \in Taps : w_i8'[oc][t] = filter[oc][t] - shift
                 /\ eff_bias'[oc] = EffBias(w_i8, oc)'
      BY <3>1, <3>2
    <3>4. /\ needs_boxsum' \in BOOLEAN /\ (needs_boxsum' => uns)
          /\ uns /\ ~layer.dw /\ ~needs_boxsum' => \A oc \in Upto(layer.OC) : w_zp[oc] = Half
      BY <3>1
    <3> QED BY <2>1, <3>3, <3>4, SameGeometry DEF Packs
  <2> QED BY <2>1, <2>2, <2>3 DEF AccInv
<1>3. CASE Load
  <2>1. model' = model /\ node' = node /\ phase = "packed" /\ needs_boxsum' = needs_boxsum
    BY <1>3 DEF Load, node
  <2>2. LayerInv' /\ Packs'
    BY <1>1, <2>1, SameLayer, SamePacks
  <2>3. phase' = "loaded" => Loaded'
    <3> SUFFICES ASSUME phase' = "loaded" PROVE Loaded'
      OBVIOUS
    <3>1. image' \in [Pixels -> Bytes(uns)]
      <4>1. Samples[uns] \subseteq Bytes(uns)
        BY <1>1, ByteAssumption DEF LayerInv
      <4> QED BY <1>3, <4>1 DEF Load
    <3>2. ImageInv'
      BY <2>1, <3>1, SameGeometry DEF ImageInv
    <3>3. /\ operand' = IF way = "matmul" THEN MatmulRows(image') ELSE PaddedPlane(image')
          /\ way = "matmul" /\ needs_boxsum => boxsum' = RowSums(image')
      BY <1>3 DEF Load
    <3> QED BY <2>1, <3>2, <3>3, SameGeometry, SameOperand DEF Loaded
  <2>4. phase' \in {"loaded", "refused"}
    BY <1>3 DEF Load
  <2> QED BY <2>2, <2>3, <2>4 DEF AccInv
<1>4. CASE Multiply
  <2>1. /\ model' = model /\ node' = node /\ w_i8' = w_i8 /\ image' = image /\ operand' = operand
        /\ boxsum' = boxsum /\ phase = "loaded" /\ needs_boxsum' = needs_boxsum
    BY <1>4 DEF Multiply, node
  <2>2. LayerInv' /\ Packs' /\ Loaded'
    BY <1>1, <2>1, SameLayer, SamePacks, SameLoaded DEF AccInv
  <2>3. Multiplied'
    <3>1. /\ way = "conv" => acc' = RawConv
          /\ way = "matmul" => acc' = RawMatmul
          /\ way = "entry" => acc' = EntryConv
      BY <1>1, <1>4 DEF Multiply
    <3> QED BY <2>1, <3>1, SameGeometry, SameSums DEF Multiplied
  <2>4. phase' = IF way = "conv" /\ needs_boxsum THEN "multiplied" ELSE "summed"
    BY <1>4 DEF Multiply
  <2> QED BY <2>1, <2>2, <2>3, <2>4, SameGeometry DEF AccInv
<1>5. CASE BoxSum
  <2>1. /\ model' = model /\ node' = node /\ w_i8' = w_i8 /\ image' = image /\ operand' = operand
        /\ acc' = acc /\ phase = "multiplied" /\ phase' = "summed"
    BY <1>5 DEF BoxSum, node
  <2>2. way = "conv" /\ Loaded /\ Multiplied
    BY <2>1 DEF AccInv
  <2>3. LayerInv' /\ Packs' /\ Loaded' /\ Multiplied'
    BY <1>1, <2>1, <2>2, SameLayer, SamePacks, SameLoaded, SameMultiplied
  <2>4. boxsum' = WindowSum
    <3>1. CASE layer.sx = 1 /\ layer.dx = 1 /\ boxsum' = SeparableSum
      <4>1. ~layer.dw /\ ImageInv /\ operand = PaddedPlane(image)
        BY <1>1, <2>2 DEF LayerInv, Allowed, Loaded
      <4> QED BY <1>1, <3>1, <4>1, SeparableIs
    <3> QED BY <1>5, <3>1 DEF BoxSum
  <2>5. WindowSum' = WindowSum
    BY <2>1, SameSums
  <2> QED BY <2>1, <2>3, <2>4, <2>5 DEF AccInv
<1>6. CASE WriteOut
  <2>1. /\ model' = model /\ node' = node /\ w_i8' = w_i8 /\ image' = image /\ operand' = operand
        /\ acc' = acc /\ boxsum' = boxsum /\ phase = "summed" /\ phase' = "done"
        /\ needs_boxsum' = needs_boxsum /\ eff_bias' = eff_bias
    BY <1>6 DEF WriteOut, node
  <2>2. LayerInv' /\ Packs' /\ Loaded' /\ Multiplied'
    BY <1>1, <2>1, SameLayer, SamePacks, SameLoaded, SameMultiplied DEF AccInv
  <2>3. WindowSum' = WindowSum /\ way' = way
    BY <2>1, SameSums, SameGeometry
  <2>4. ConvTotals' = ConvTotals /\ MatmulTotals' = MatmulTotals
    BY <2>1, SameGeometry DEF ConvTotals, MatmulTotals, Corrected
  <2>5. /\ way = "conv" => total' = ConvTotals
        /\ way = "matmul" => total' = MatmulTotals
        /\ way = "entry" => total' = acc
    BY <1>1, <1>6 DEF WriteOut
  <2>6. Totalled'
    BY <2>1, <2>3, <2>4, <2>5 DEF Totalled
  <2> QED BY <2>1, <2>2, <2>3, <2>6 DEF AccInv
<1>7. CASE Return
  <2>1. model' = model /\ node' = node /\ phase # "model" /\ phase' = "packed"
    BY <1>7 DEF Return
  <2>2. LayerInv' /\ Packs'
    BY <1>1, <2>1, SameLayer, SamePacks
  <2> QED BY <2>1, <2>2 DEF AccInv
<1>8. CASE UNCHANGED vars
  <2>1. /\ model' = model /\ node' = node /\ w_i8' = w_i8 /\ image' = image /\ operand' = operand
        /\ acc' = acc /\ boxsum' = boxsum /\ total' = total /\ phase' = phase
        /\ needs_boxsum' = needs_boxsum /\ eff_bias' = eff_bias
    BY <1>8 DEF vars, node
  <2>2. /\ LayerInv' /\ (Packs => Packs') /\ (Loaded => Loaded') /\ (Multiplied => Multiplied')
    BY <1>1, <2>1, SameLayer, SamePacks, SameLoaded, SameMultiplied
  <2>3. WindowSum' = WindowSum /\ way' = way
    BY <2>1, SameSums, SameGeometry
  <2>4. ConvTotals' = ConvTotals /\ MatmulTotals' = MatmulTotals
    BY <2>1, SameGeometry DEF ConvTotals, MatmulTotals, Corrected
  <2>5. Totalled => Totalled'
    BY <2>1, <2>3, <2>4 DEF Totalled
  <2> QED BY <2>1, <2>2, <2>3, <2>5 DEF AccInv
<1> QED BY <1>2, <1>3, <1>4, <1>5, <1>6, <1>7, <1>8 DEF Next

\* What each phase of a convolution has made is made of what the phases before it left.
THEOREM Phases == Spec => []AccInv
<1> QED BY AccInit, AccNext, PTL DEF Spec

\* The host requantises TFLite's own accumulator, bit for bit, whatever the geometry, the
\* zero points, the bytes and the bias, and by each of the three ways in: the recentring,
\* the halo, the effective bias, the window sums in either form and the zero channels of
\* the matmul cancel out (rocket_convert.h, "byte-identical to the conv path").
THEOREM Exact == Spec => []AccumulatorsExact
<1>1. AccInv => AccumulatorsExact
  <2> SUFFICES ASSUME AccInv, phase = "done",
                      NEW oc \in Upto(layer.OC), NEW oh \in Upto(OH), NEW ow \in Upto(OW)
               PROVE  total[<<oc, <<oh, ow>>>>] = Reference(oc, oh, ow)
    BY DEF AccumulatorsExact, OutPixels
  <2> DEFINE p == <<oh, ow>>
             q == <<oc, p>>
  <2>1. LayerInv /\ Packs /\ Loaded /\ ImageInv /\ Multiplied /\ Totalled
    BY DEF AccInv, Loaded
  <2>2. q \in Upto(layer.OC) \X OutPixels /\ q[1] = oc /\ q[2] = p /\ p[1] = oh /\ p[2] = ow
    BY DEF OutPixels
  <2> HIDE DEF p, q
  <2>3. CASE way = "conv"
    <3>1. ~layer.dw /\ operand = PaddedPlane(image) /\ acc = RawConv /\ total = ConvTotals
      BY <2>1, <2>3 DEF LayerInv, Allowed, Loaded, Multiplied, Totalled
    <3>2. needs_boxsum => boxsum = WindowSum
      BY <2>3 DEF AccInv
    <3>3. /\ RawConv[q] = SumFunctionOnSet(Products(oc, oh, ow), Taps)
          /\ WindowSum[p] = SumFunctionOnSet(Recent(oc, oh, ow), Taps)
      BY <2>1, <3>1, RawIs DEF p, q
    <3>4. total[q] = Corrected(oc, p, RawConv[q])
      BY <2>2, <3>1 DEF ConvTotals
    <3>5. Corrected(oc, p, RawConv[q]) = Reference(oc, oh, ow)
      BY <2>1, <3>1, <3>2, <3>3, CorrectedIs DEF p
    <3> QED BY <3>4, <3>5 DEF p, q
  <2>4. CASE way = "matmul"
    <3> DEFINE r == <<oh * OW + ow, oc>>
    <3>1. ~layer.dw /\ operand = MatmulRows(image) /\ acc = RawMatmul /\ total = MatmulTotals
          /\ (needs_boxsum => boxsum = RowSums(image))
      BY <2>1, <2>4 DEF LayerInv, Allowed, Loaded, Multiplied, Totalled
    <3>2. /\ RawMatmul[r] = SumFunctionOnSet(Products(oc, oh, ow), Taps)
          /\ RowSums(image)[p] = SumFunctionOnSet(Recent(oc, oh, ow), Taps)
      BY <2>1, <2>4, <3>1, MatmulIs DEF p
    <3>3. total[q] = Corrected(oc, p, RawMatmul[r])
      BY <2>2, <3>1 DEF MatmulTotals
    <3> HIDE DEF r
    <3>4. Corrected(oc, p, RawMatmul[r]) = Reference(oc, oh, ow)
      BY <2>1, <3>1, <3>2, CorrectedIs DEF p
    <3> QED BY <3>3, <3>4 DEF p, q
  <2>5. CASE way = "entry"
    <3>1. operand = PaddedPlane(image) /\ total = EntryConv
      BY <2>1, <2>5 DEF Loaded, Multiplied, Totalled
    <3> QED BY <2>1, <2>5, <3>1, EntryIs
  <2> QED BY <2>1, <2>3, <2>4, <2>5 DEF LayerInv, p, q
<1> QED BY <1>1, Phases, PTL

-----------------------------------------------------------------------------
(* The route of a convolution (ConvRoute).                                 *)

\* What each flag says of the convolution and of the shape that was claimed
FlagsInv ==
    /\ stage = "model" => flags = NoFlags /\ packed = {} /\ ~mm_w
    /\ stage # "model" => claimed_at \in Shapes
    /\ flags.native => conv.types = "i8" /\ ~conv.dw
    /\ flags.native_u8 => conv.types = "u8" /\ ~conv.dw
    /\ flags.native_dw => conv.types \in {"i8", "u8"} /\ conv.dw
    /\ flags.u8_i8out \/ flags.i8_perc \/ flags.native_dw => "special" \in plans[claimed_at]

ResidentInv ==
    /\ packed = {} \/ packed = Operands
    /\ stage = "ready" => packed = Operands
    /\ stage = "ready" /\ mm_w => mm_M = shape /\ WantResident

RouteInv == RouteTypeOK /\ FlagsInv /\ ResidentInv

\* The flags analyze_conv sets are booleans.
LEMMA RouteFlagsTyped == ASSUME RouteTypeOK PROVE RouteFlags \in Flags
<1> DEFINE on == opts.native_int8 /\ conv.zp_ok
           native == on /\ ~conv.dw /\ conv.types = "i8" /\ conv.centred
           native_u8 == on /\ ~conv.dw /\ conv.types = "u8"
           dw == on /\ conv.dw /\ conv.types \in {"i8", "u8"} /\ special_ok
           perc == dw /\ opts.dw_perc /\ conv.types = "i8" /\ ~conv.w_per_tensor /\ conv.centred
           large == opts.pw_i8out_min_m <= 0 \/ shape >= opts.pw_i8out_min_m
<1>1. /\ native \in BOOLEAN /\ native_u8 \in BOOLEAN /\ perc \in BOOLEAN
      /\ ((dw /\ conv.w_per_tensor) \/ perc) \in BOOLEAN
      /\ (opts.direct_i8out /\ native_u8 /\ conv.w_per_tensor /\ special_ok) \in BOOLEAN
      /\ (opts.direct_perc /\ native /\ ~conv.w_per_tensor /\ large /\ special_ok) \in BOOLEAN
  OBVIOUS
<1> QED BY <1>1 DEF RouteFlags, Flags

\* The two int8 entries refine a native route each, the per-channel depthwise
\* refines native_dw, and each flag asks for one kind of convolution.
LEMMA RouteFlagsSay ==
    ASSUME RouteTypeOK
    PROVE  /\ RouteFlags.native => conv.types = "i8" /\ ~conv.dw
           /\ RouteFlags.native_u8 => conv.types = "u8" /\ ~conv.dw
           /\ RouteFlags.native_dw => conv.types \in {"i8", "u8"} /\ conv.dw /\ special_ok
           /\ RouteFlags.i8_perc => RouteFlags.native /\ special_ok
           /\ RouteFlags.u8_i8out => RouteFlags.native_u8 /\ special_ok
           /\ RouteFlags.dw_perc => RouteFlags.native_dw
BY DEF RouteFlags

\* A node the claim has not seen has no flag set.
LEMMA NoFlagsTyped ==
    NoFlags \in Flags /\ ~NoFlags.native /\ ~NoFlags.native_u8 /\ ~NoFlags.native_dw
    /\ ~NoFlags.dw_perc /\ ~NoFlags.u8_i8out /\ ~NoFlags.i8_perc
BY DEF NoFlags, Flags

-----------------------------------------------------------------------------
(* The invariant.                                                          *)

\* The invariant holds before the claim.
LEMMA RouteInitInv == RouteInit => RouteInv
<1> SUFFICES ASSUME RouteInit PROVE RouteInv
  OBVIOUS
<1> USE ShapesAssumption, OptionsAssumption
<1>1. RouteTypeOK
  <2>1. plans \in [Shapes -> SUBSET Programs]
    BY DEF RouteInit, Programs
  <2>2. conv \in Convs
    BY DEF RouteInit
  <2> QED BY <2>1, <2>2, NoFlagsTyped DEF RouteInit, RouteTypeOK, Routes
<1>2. FlagsInv /\ ResidentInv
  BY NoFlagsTyped DEF RouteInit, FlagsInv, ResidentInv
<1> QED BY <1>1, <1>2 DEF RouteInv

\* The claim sets every flag for the live shape, which it becomes the claimed one.
LEMMA ClaimInv == ASSUME RouteInv, Claim PROVE RouteInv'
<1> USE DEF RouteInv
<1>1. /\ stage' = "loaded" /\ claimed_at' = shape
      /\ flags' = IF IsQuant THEN RouteFlags ELSE NoFlags
      /\ UNCHANGED <<conv, opts, plans, device, shape, packed, mm_w, mm_M, route, status>>
  BY DEF Claim
<1>2. /\ flags' \in Flags
      /\ flags'.native => conv.types = "i8" /\ ~conv.dw
      /\ flags'.native_u8 => conv.types = "u8" /\ ~conv.dw
      /\ flags'.native_dw => conv.types \in {"i8", "u8"} /\ conv.dw /\ special_ok
      /\ flags'.i8_perc => flags'.native /\ special_ok
      /\ flags'.u8_i8out => flags'.native_u8 /\ special_ok
      /\ flags'.dw_perc => flags'.native_dw
  <2>1. CASE IsQuant
    BY <1>1, <2>1, RouteFlagsTyped, RouteFlagsSay
  <2>2. CASE ~IsQuant
    BY <1>1, <2>2, NoFlagsTyped
  <2> QED BY <2>1, <2>2
<1>3. \A f, g \in {"native", "native_u8", "native_dw"} : flags'[f] /\ flags'[g] => f = g
  BY <1>2
<1>4. RouteTypeOK'
  BY <1>1, <1>2, <1>3 DEF RouteTypeOK
<1>5. FlagsInv'
  <2>1. flags'.u8_i8out \/ flags'.i8_perc \/ flags'.native_dw => "special" \in plans[shape]
    BY <1>2 DEF special_ok
  <2>2. shape \in Shapes
    BY DEF RouteTypeOK
  <2> QED BY <1>1, <1>2, <2>1, <2>2 DEF FlagsInv
<1>6. ResidentInv'
  BY <1>1 DEF Claim, FlagsInv, ResidentInv
<1> QED BY <1>4, <1>5, <1>6

\* What was packed stays right through a resize: Operands does not read the shape.
LEMMA ResizeInv == ASSUME RouteInv, Resize PROVE RouteInv'
<1> USE DEF RouteInv
<1>1. /\ stage' = "loaded" /\ stage # "model" /\ shape' \in Shapes
      /\ route' = "none" /\ status' = "none"
      /\ UNCHANGED <<conv, opts, plans, device, claimed_at, flags, packed, mm_w, mm_M>>
  BY DEF Resize
<1>2. RouteTypeOK'
  BY <1>1 DEF RouteTypeOK, Routes
<1>3. FlagsInv'
  BY <1>1 DEF FlagsInv
<1>4. Operands' = Operands
  BY <1>1 DEF Operands, IsQuant
<1>5. ResidentInv'
  BY <1>1, <1>4 DEF ResidentInv
<1> QED BY <1>2, <1>3, <1>5

\* Prepare leaves resident weights only for the live shape, and only where wanted.
LEMMA PrepareInv == ASSUME RouteInv, Prepare PROVE RouteInv'
<1> USE DEF RouteInv
<1>1. /\ stage = "loaded" /\ stage' = "ready"
      /\ UNCHANGED <<conv, opts, plans, device, shape, claimed_at, flags, route, status>>
  BY DEF Prepare
<1>2. mm_w' \in BOOLEAN /\ mm_M' \in Shapes \cup {0}
  BY DEF Prepare, RouteTypeOK
<1>3. mm_w' => mm_M' = shape /\ WantResident
  BY DEF Prepare, KeepsResident
<1>4. packed' = Operands /\ Operands' = Operands
  BY <1>1 DEF Prepare, ResidentInv, Operands, IsQuant
<1>5. RouteTypeOK'
  BY <1>1, <1>2 DEF RouteTypeOK
<1>6. FlagsInv'
  BY <1>1 DEF FlagsInv
<1>7. WantResident' <=> WantResident
  BY <1>1 DEF WantResident, conv_is_matmul, conv_is_matmul_i8, IsQuant
<1>8. ResidentInv'
  BY <1>1, <1>3, <1>4, <1>7 DEF ResidentInv
<1> QED BY <1>5, <1>6, <1>8

\* An inference, or nothing, leaves what the invariant reads.
LEMMA EvalInv == ASSUME RouteInv, Eval \/ UNCHANGED route_vars PROVE RouteInv'
<1> USE DEF RouteInv
<1>1. /\ UNCHANGED <<conv, opts, plans, device, shape, claimed_at, flags, packed, mm_w, mm_M,
                     stage>>
      /\ route' \in Routes /\ status' \in {"none", "done", "refused", "failed"}
  <2>1. EvalRoute \in Routes
    BY DEF EvalRoute, Routes
  <2>2. CASE Eval
    BY <2>1, <2>2 DEF Eval
  <2>3. CASE UNCHANGED route_vars
    BY <2>3 DEF route_vars, RouteTypeOK
  <2> QED BY <2>2, <2>3
<1>2. RouteTypeOK'
  BY <1>1 DEF RouteTypeOK
<1>3. FlagsInv'
  BY <1>1 DEF FlagsInv
<1>4. Operands' = Operands /\ (WantResident' <=> WantResident)
  BY <1>1 DEF Operands, IsQuant, WantResident, conv_is_matmul, conv_is_matmul_i8
<1>5. ResidentInv'
  BY <1>1, <1>4 DEF ResidentInv
<1> QED BY <1>2, <1>3, <1>5

\* The invariant holds for every convolution, planner and order of resizes.
THEOREM RouteInvariance == RouteSpec => []RouteInv
<1>1. RouteInv /\ [RouteNext]_route_vars => RouteInv'
  BY ClaimInv, ResizeInv, PrepareInv, EvalInv DEF RouteNext
<1> QED BY RouteInitInv, <1>1, PTL DEF RouteSpec

-----------------------------------------------------------------------------
(* The properties.                                                         *)

\* The state's shape, for every set of shapes and options.
THEOREM RouteTyped == RouteSpec => []RouteTypeOK
<1>1. RouteInv => RouteTypeOK
  BY DEF RouteInv
<1> QED BY RouteInvariance, <1>1, PTL

\* Resident weights in hand, an inference multiplies with them.
LEMMA ResidentTaken ==
    ASSUME RouteInv, stage = "ready", mm_w
    PROVE  EvalRoute \in {"matmul_i8", "matmul"}
<1>1. OnMatmul /\ WantResident
  BY DEF RouteInv, ResidentInv, OnMatmul
<1>2. CASE flags.native \/ flags.native_u8
  BY <1>1, <1>2 DEF EvalRoute
<1>3. CASE ~(flags.native \/ flags.native_u8)
  <2>1. conv_is_matmul
    BY <1>1, <1>3 DEF WantResident, conv_is_matmul_i8
  <2>2. ~IsQuant /\ ~flags.native_dw
    BY <2>1 DEF conv_is_matmul, RouteInv, FlagsInv
  <2> QED BY <1>1, <1>3, <2>2 DEF EvalRoute
<1> QED BY <1>2, <1>3

\* The operands a route reads are those its flags had packed, whatever shapes came
\* between (ConvNode, pack_weights, eval_node).
THEOREM Packed == RouteSpec => []OperandsPacked
<1>1. RouteInv => OperandsPacked
  <2> SUFFICES ASSUME RouteInv, stage = "ready" PROVE Reads(EvalRoute) \subseteq Operands
    BY DEF OperandsPacked, RouteInv, ResidentInv
  <2> USE DEF RouteInv, FlagsInv, Reads, Operands, EvalRoute, IsQuant
  <2>1. CASE flags.native
    <3>1. ~flags.native_u8 /\ conv.types = "i8"
      BY <2>1 DEF RouteTypeOK
    <3> QED BY <2>1, <3>1
  <2>2. CASE ~flags.native /\ flags.native_u8
    BY <2>2
  <2>3. CASE ~flags.native /\ ~flags.native_u8
    BY <2>3
  <2> QED BY <2>1, <2>2, <2>3
<1> QED BY RouteInvariance, <1>1, PTL

\* Prepare's test for a general fp16 conv agrees with the block eval_node takes.
THEOREM Residency == RouteSpec => []ResidencyAgrees
<1>1. RouteInv => ResidencyAgrees
  <2> SUFFICES ASSUME RouteInv, stage = "ready"
               PROVE  (~mm_w /\ ~flags.native /\ ~flags.native_dw /\ ~flags.native_u8)
                          <=> EvalRoute = "general"
    BY DEF ResidencyAgrees
  <2>1. CASE mm_w
    BY <2>1, ResidentTaken
  <2>2. CASE ~mm_w
    BY <2>2 DEF EvalRoute, OnMatmul
  <2> QED BY <2>1, <2>2
<1> QED BY RouteInvariance, <1>1, PTL

\* "IsNodeSupportedByDelegate never claims a node Init can't run": at the claimed
\* shape no route builds a program the planner refuses, whatever was packed since.
THEOREM RunsClaimed == RouteSpec => []RunsAsClaimed
<1>1. RouteInv => RunsAsClaimed
  <2> SUFFICES ASSUME RouteInv, stage = "ready", shape = claimed_at, conv_ok \/ mm_w
               PROVE  ~Refuses(EvalRoute)
    BY DEF RunsAsClaimed
  <2>1. CASE mm_w
    BY <2>1, ResidentTaken DEF Refuses
  <2>2. CASE ~mm_w
    <3>1. conv_ok
      BY <2>2
    <3>2. EvalRoute \in {"u8_i8out", "native_dw", "i8_perc"} => special_ok
      BY DEF EvalRoute, RouteInv, FlagsInv, special_ok
    <3> QED BY <3>1, <3>2 DEF Refuses
  <2> QED BY <2>1, <2>2
<1> QED BY RouteInvariance, <1>1, PTL
=============================================================================

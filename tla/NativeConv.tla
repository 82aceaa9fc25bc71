------------------------------ MODULE NativeConv ------------------------------
(***************************************************************************)
(* The integer data path of a native int8 or uint8 convolution             *)
(* (rocket_convert.h, and the blocks of eval_node that call it).  The NPU  *)
(* multiplies signed bytes and knows no zero points, so the host recenters *)
(* the operands, materialises the padding, folds what is constant into an  *)
(* effective bias and adds a sum over each window for what is not.  All of *)
(* it has to give back TFLite's accumulator,                               *)
(*     bias + sum over the taps of (input - in_zp) * (filter - w_zp),      *)
(* which leaves out the taps that fall on the padding.                     *)
(*                                                                         *)
(* One convolution goes through pack_weights once and through eval_node    *)
(* for one inference, by one of three ways in:                             *)
(*   conv     the raw int32 convolution on an NCHW plane                   *)
(*   matmul   a 1x1 as a matmul over its pixels, in rows of Kp bytes       *)
(*   entry    an int8-out entry of the library, which takes the zero       *)
(*            points and folds them itself; the only way for a depthwise   *)
(* A tensor is a function of its coordinates, whatever order its bytes are *)
(* in, and a row band is not told from the whole (ParallelOh has those).   *)
(* A total is left where the two float requantisations pick it up; every   *)
(* intermediate is within an int32, as the bound in the code says.         *)
(***************************************************************************)
EXTENDS Integers, FiniteSets, Functions

CONSTANTS
    Half,           \* half the values of a byte: 128
    Lane,           \* what the matmul rounds K and N up to: 32
    Layers,         \* the geometries of the convolutions
    Biases,         \* the bias values
    Samples         \* the bytes tensors hold, by whether their type is unsigned

Geometry == [IC : Nat, IH : Nat, IW : Nat, OC : Nat, KH : Nat, KW : Nat, sy : Nat, sx : Nat,
             dy : Nat, dx : Nat, same : BOOLEAN, dw : BOOLEAN]

\* A byte is -Half .. Half-1, or 0 .. 2*Half-1 unsigned
Bytes(uns) == IF uns THEN 0 .. 2 * Half - 1 ELSE -Half .. Half - 1

-----------------------------------------------------------------------------
(* The extents of one axis.                                                *)

\* The extent of a dilated kernel
rocket_eff_k(k, dil) == (k - 1) * dil + 1

\* Mutant: the dilation left out
PadUndilated(in, k, stride, dil, out) ==
    LET p == (out - 1) * stride + k - in IN IF p > 0 THEN p ELSE 0

\* The padding that takes in to out, on both sides together
rocket_total_pad(in, k, stride, dil, out) ==
    LET p == (out - 1) * stride + rocket_eff_k(k, dil) - in
    IN  IF p > 0 THEN p ELSE 0

\* TFLite's output extent, read from the output tensor
rocket_out_dim(in, k, stride, dil, same) ==
    LET e == rocket_eff_k(k, dil)
    IN  IF same THEN (in + stride - 1) \div stride
        ELSE IF in >= e THEN (in - e) \div stride + 1 ELSE 0

\* External: the output extent of the library for a plane that needs no padding
rocket_conv2d_extent(in, k, stride, dil) == (in - rocket_eff_k(k, dil)) \div stride + 1

\* A layer TFLite runs has an output; a depthwise of multiplier 1 as many as inputs
Runs(l) ==
    /\ l \in Geometry
    /\ l.IC > 0 /\ l.IH > 0 /\ l.IW > 0 /\ l.OC > 0 /\ l.KH > 0 /\ l.KW > 0
    /\ l.sy > 0 /\ l.sx > 0 /\ l.dy > 0 /\ l.dx > 0
    /\ ~l.same => rocket_eff_k(l.KH, l.dy) <= l.IH /\ rocket_eff_k(l.KW, l.dx) <= l.IW
    /\ l.dw => l.OC = l.IC

ASSUME LayersAssumption == \A l \in Layers : Runs(l)
ASSUME ByteAssumption ==
    /\ Half \in Nat \ {0} /\ Lane \in Nat \ {0} /\ Biases \subseteq Int
    /\ \A u \in BOOLEAN : Samples[u] \subseteq Bytes(u)

VARIABLES
    layer,          \* the geometry of the convolution
    uns,            \* whether its tensors are uint8
    filter, w_zp, in_zp, bias,      \* the model's constants
    way,            \* the way in that ConvRoute chose
    w_i8, eff_bias, needs_boxsum,   \* what the ConvNode keeps
    image,          \* the input of the inference
    operand,        \* in_nchw, or the rows of the matmul
    acc,            \* what the NPU returns
    boxsum,         \* Sx
    total,          \* what the requantisation starts from
    phase

model == <<layer, uns, filter, w_zp, in_zp, bias, way>>
node == <<w_i8, eff_bias, needs_boxsum>>
vars == <<model, node, image, operand, acc, boxsum, total, phase>>

OH == rocket_out_dim(layer.IH, layer.KH, layer.sy, layer.dy, layer.same)
OW == rocket_out_dim(layer.IW, layer.KW, layer.sx, layer.dx, layer.same)
tot_h == rocket_total_pad(layer.IH, layer.KH, layer.sy, layer.dy, OH)
tot_w == rocket_total_pad(layer.IW, layer.KW, layer.sx, layer.dx, OW)
IHp == layer.IH + tot_h
IWp == layer.IW + tot_w

Upto(n) == 0 .. n - 1
Pixels == Upto(layer.IC) \X Upto(layer.IH) \X Upto(layer.IW)
OutPixels == Upto(OH) \X Upto(OW)

\* The taps of one output channel; a depthwise channel reads only its own input
FilterC == IF layer.dw THEN 1 ELSE layer.IC
Taps == Upto(FilterC) \X Upto(layer.KH) \X Upto(layer.KW)
Chan(oc, ic) == IF layer.dw THEN oc ELSE ic
Row(oh, kh) == oh * layer.sy + kh * layer.dy
Col(ow, kw) == ow * layer.sx + kw * layer.dx

\* What is subtracted from a uint8 byte to recenter it
shift == IF uns THEN Half ELSE 0

\* The first multiple of Lane from n on (i8_round32)
RoundUp(n) == ((n + Lane - 1) \div Lane) * Lane
Kp == RoundUp(layer.IC)
Np == RoundUp(layer.OC)

-----------------------------------------------------------------------------
(* pack_weights.                                                           *)

FilterSum(w, oc) == SumFunction(w[oc])

\* Mutant: the product of the two centres is not counted once a tap
BiasOncePerFilter(w, oc) ==
    IF uns
    THEN LET alpha == Half - in_zp
             beta == Half - w_zp[oc]
         IN  bias[oc] + alpha * FilterSum(w, oc) + alpha * beta
    ELSE bias[oc] - in_zp * FilterSum(w, oc)

\* What is constant over the pixels of an output channel: for uint8 the number of
\* taps enters, so that a padded tap has to be there to be counted
EffBias(w, oc) ==
    IF uns
    THEN LET alpha == Half - in_zp
             beta == Half - w_zp[oc]
         IN  bias[oc] + alpha * FilterSum(w, oc) + Cardinality(Taps) * alpha * beta
    ELSE bias[oc] - in_zp * FilterSum(w, oc)

Pack ==
    /\ phase = "model"
    /\ w_i8' = [oc \in Upto(layer.OC) |-> [t \in Taps |-> filter[oc][t] - shift]]
    /\ eff_bias' = [oc \in Upto(layer.OC) |-> EffBias(w_i8', oc)]
    /\ needs_boxsum' = (uns /\ ~layer.dw /\ \E oc \in Upto(layer.OC) : w_zp[oc] # Half)
    /\ phase' = "packed"
    /\ UNCHANGED <<model, image, operand, acc, boxsum, total>>

-----------------------------------------------------------------------------
(* eval_node.                                                              *)

\* Mutant: the halo of a recentered plane left at the byte itself
PaddedPlaneRawHalo(img) ==
    [p \in Upto(layer.IC) \X Upto(IHp) \X Upto(IWp) |->
        LET h == p[2] - tot_h \div 2
            w == p[3] - tot_w \div 2
        IN  IF h \in Upto(layer.IH) /\ w \in Upto(layer.IW) THEN img[<<p[1], h, w>>] - shift
            ELSE in_zp]

\* The recentered input at its offset, with the input zero point all around it
PaddedPlane(img) ==
    [p \in Upto(layer.IC) \X Upto(IHp) \X Upto(IWp) |->
        LET h == p[2] - tot_h \div 2
            w == p[3] - tot_w \div 2
        IN  (IF h \in Upto(layer.IH) /\ w \in Upto(layer.IW) THEN img[<<p[1], h, w>>] ELSE in_zp)
            - shift]

\* One row a pixel, the channels from IC on zero; a signed input with nothing to
\* add is passed as it is
MatmulRows(img) ==
    [p \in Upto(layer.IH * layer.IW) \X Upto(Kp) |->
        IF p[2] < layer.IC THEN img[<<p[2], p[1] \div layer.IW, p[1] % layer.IW>>] - shift ELSE 0]

MatmulFilter(n, k) == IF n < layer.OC /\ k < layer.IC THEN w_i8[n][<<k, 0, 0>>] ELSE 0

\* The sum of a pixel's channels, made while they are recentered
RowSums(img) ==
    [p \in OutPixels |->
        SumFunction([c \in Upto(layer.IC) |-> img[<<c, p[1], p[2]>>] - shift])]

DriverTakes ==
    /\ rocket_conv2d_extent(IHp, layer.KH, layer.sy, layer.dy) = OH
    /\ rocket_conv2d_extent(IWp, layer.KW, layer.sx, layer.dx) = OW

\* An inference begins: its input is read once, and the operand made of it
Load ==
    /\ phase = "packed"
    /\ image' \in [Pixels -> Samples[uns]]
    /\ \/ /\ way = "matmul"
          /\ operand' = MatmulRows(image')
          /\ boxsum' = IF needs_boxsum THEN RowSums(image') ELSE <<>>
          /\ phase' = "loaded"
       \/ /\ way # "matmul" /\ DriverTakes
          /\ operand' = PaddedPlane(image')
          /\ boxsum' = <<>>
          /\ phase' = "loaded"
       \/ /\ way # "matmul" /\ ~DriverTakes
          /\ phase' = "refused"
          /\ UNCHANGED <<operand, boxsum>>
    /\ UNCHANGED <<model, node, acc, total>>

\* External: the raw convolution of the plane, without padding
RawConv ==
    [p \in Upto(layer.OC) \X OutPixels |->
        LET oc == p[1]
            oh == p[2][1]
            ow == p[2][2]
        IN  SumFunction([t \in Taps |->
                operand[<<t[1], Row(oh, t[2]), Col(ow, t[3])>>] * w_i8[oc][t]])]

\* External: the matmul, over every padded row and column
RawMatmul ==
    [p \in Upto(layer.IH * layer.IW) \X Upto(Np) |->
        SumFunction([k \in Upto(Kp) |-> operand[<<p[1], k>>] * MatmulFilter(p[2], k)])]

\* External: an entry takes the zero points, recentered like the bytes, and the bias
EntryConv ==
    [p \in Upto(layer.OC) \X OutPixels |->
        LET oc == p[1]
            oh == p[2][1]
            ow == p[2][2]
        IN  bias[oc] + SumFunction([t \in Taps |->
                (operand[<<Chan(oc, t[1]), Row(oh, t[2]), Col(ow, t[3])>>] - (in_zp - shift))
                * (w_i8[oc][t] - (w_zp[0] - shift))])]

Multiply ==
    /\ phase = "loaded"
    /\ acc' = CASE way = "conv" -> RawConv
                [] way = "matmul" -> RawMatmul
                [] OTHER -> EntryConv
    /\ phase' = IF way = "conv" /\ needs_boxsum THEN "multiplied" ELSE "summed"
    /\ UNCHANGED <<model, node, image, operand, boxsum, total>>

\* Mutant: one more than the last window reaches
TcolsOneMore == OW + layer.KW

\* The columns the separable form sums before it slides along them
Tcols == OW + layer.KW - 1

WindowSum ==
    [p \in OutPixels |->
        SumFunction([t \in Taps |-> operand[<<t[1], Row(p[1], t[2]), Col(p[2], t[3])>>]])]

\* Channels and rows first, in T; then KW neighbours of T
SeparableSum ==
    [p \in OutPixels |->
        LET T == [iw \in Upto(Tcols) |->
                    SumFunction([t \in Upto(layer.IC) \X Upto(layer.KH) |->
                        operand[<<t[1], Row(p[1], t[2]), iw>>]])]
        IN  SumFunction([kw \in Upto(layer.KW) |-> T[p[2] + kw]])]

\* Which form: the host's vector unit, ROCKET_BOXSUM_MODE and a buffer's allocation
BoxSum ==
    /\ phase = "multiplied"
    /\ \/ boxsum' = WindowSum
       \/ layer.sx = 1 /\ layer.dx = 1 /\ layer.KW > 1 /\ boxsum' = SeparableSum
    /\ phase' = "summed"
    /\ UNCHANGED <<model, node, image, operand, acc, total>>

\* What the host adds to a raw sum before it requantises
Corrected(oc, p, raw) ==
    raw + eff_bias[oc] + (IF needs_boxsum THEN (Half - w_zp[oc]) * boxsum[p] ELSE 0)

\* From the NCHW sums, or from the first OC of the Np columns of a pixel's row
ConvTotals == [q \in Upto(layer.OC) \X OutPixels |-> Corrected(q[1], q[2], acc[q])]
MatmulTotals ==
    [q \in Upto(layer.OC) \X OutPixels |->
        Corrected(q[1], q[2], acc[<<q[2][1] * OW + q[2][2], q[1]>>])]

\* The write-out; an entry has requantised its own
WriteOut ==
    /\ phase = "summed"
    /\ total' = CASE way = "conv" -> ConvTotals
                  [] way = "matmul" -> MatmulTotals
                  [] OTHER -> acc
    /\ phase' = "done"
    /\ UNCHANGED <<model, node, image, operand, acc, boxsum>>

\* eval_node returns, done or because the device failed the call: its buffers go
Return ==
    /\ phase \in {"loaded", "done"}
    /\ image' = <<>> /\ operand' = <<>> /\ acc' = <<>> /\ boxsum' = <<>> /\ total' = <<>>
    /\ phase' = "packed"
    /\ UNCHANGED <<model, node>>

-----------------------------------------------------------------------------
\* The ways in that the flags and the tests of analyze_conv leave open: a signed
\* direct conv has symmetric filters, and an entry one filter zero point
Allowed(l, u, zps, r) ==
    /\ l.dw => r = "entry"
    /\ r = "matmul" => /\ l.KH = 1 /\ l.KW = 1 /\ l.sy = 1 /\ l.sx = 1
                       /\ (l.IH * l.IW) % 4 = 0
    /\ ~u /\ ~l.dw => \A oc \in DOMAIN zps : zps[oc] = 0
    /\ r = "entry" => \A oc \in DOMAIN zps : zps[oc] = zps[0]

Init ==
    /\ layer \in Layers
    /\ uns \in BOOLEAN
    /\ filter \in [Upto(layer.OC) -> [Taps -> Samples[uns]]]
    /\ w_zp \in [Upto(layer.OC) -> Bytes(uns)]
    /\ in_zp \in Bytes(uns)
    /\ bias \in [Upto(layer.OC) -> Biases]
    /\ way \in {"conv", "matmul", "entry"}
    /\ Allowed(layer, uns, w_zp, way)
    /\ w_i8 = <<>> /\ eff_bias = <<>> /\ needs_boxsum = FALSE
    /\ image = <<>> /\ operand = <<>> /\ acc = <<>> /\ boxsum = <<>> /\ total = <<>>
    /\ phase = "model"

Next == Pack \/ Load \/ Multiply \/ BoxSum \/ WriteOut \/ Return

Spec == Init /\ [][Next]_vars

-----------------------------------------------------------------------------
\* The state's shape: what the NPU is given are signed bytes, halo and recentered
\* zero point included (the casts to int8_t of the conversions).
TypeOK ==
    /\ Runs(layer) /\ way \in {"conv", "matmul", "entry"}
    /\ \A oc \in DOMAIN w_i8 : \A t \in Taps : w_i8[oc][t] \in Bytes(FALSE)
    /\ \A p \in DOMAIN operand : operand[p] \in Bytes(FALSE)
    /\ phase \in {"model", "packed", "loaded", "multiplied", "summed", "done", "refused"}

\* The padding rocket_total_pad materialises is what takes the library to TFLite's
\* own extents, SAME or VALID, whatever the stride and the dilation: eval_node never
\* gives an inference up over OH or OW.
DriverAgrees == phase # "refused"

\* No window reaches past the padded plane, nor does the buffer of the separable sum,
\* which has a width of its own (rocket_in_window_sum_i8_band).
TapsInside ==
    phase \in {"loaded", "multiplied"} /\ way # "matmul" =>
        /\ \A oh \in Upto(OH), kh \in Upto(layer.KH) : Row(oh, kh) < IHp
        /\ \A ow \in Upto(OW), kw \in Upto(layer.KW) : Col(ow, kw) < IWp
        /\ layer.sx = 1 /\ layer.dx = 1 => Tcols <= IWp

\* TFLite's accumulator, with TFLite's padding: a tap outside the input adds nothing
PadBefore(in, k, stride, dil) ==
    IF ~layer.same THEN 0
    ELSE LET p == ((in + stride - 1) \div stride - 1) * stride + (k - 1) * dil + 1 - in
         IN  IF p > 0 THEN p \div 2 ELSE 0

Reference(oc, oh, ow) ==
    LET h(t) == Row(oh, t[2]) - PadBefore(layer.IH, layer.KH, layer.sy, layer.dy)
        w(t) == Col(ow, t[3]) - PadBefore(layer.IW, layer.KW, layer.sx, layer.dx)
    IN  bias[oc] + SumFunction(
            [t \in {t \in Taps : h(t) \in Upto(layer.IH) /\ w(t) \in Upto(layer.IW)} |->
                (image[<<Chan(oc, t[1]), h(t), w(t)>>] - in_zp) * (filter[oc][t] - w_zp[oc])])

\* What is requantised is TFLite's accumulator exactly, over the borders too, for
\* int8 and uint8, any zero points, and each of the three ways in: the recentering,
\* the halo, the effective bias, the window sums and the zero rows of the matmul
\* cancel out ("byte-identical to the conv path", rocket_convert.h).
AccumulatorsExact ==
    phase = "done" =>
        \A oc \in Upto(layer.OC) : \A p \in OutPixels :
            total[<<oc, p>>] = Reference(oc, p[1], p[2])
=============================================================================

------------------------------ MODULE AuxGates ------------------------------
(***************************************************************************)
(* The analyze_* functions of rocket_delegate.cpp for every operator but   *)
(* the convolutions: whether a node is claimed, and what its kernel record *)
(* keeps of the shapes.  A node is [op, p, type, ins, outs].  Its type is  *)
(* "float", "quant", or "other" for whatever the tests on types, scales,   *)
(* constants and activations refuse.                                       *)
(***************************************************************************)
EXTENDS TfliteOps

broadcast_to(in, out) ==
    /\ Len(in) <= Len(out) /\ Len(out) <= ROCKET_MAX_RANK
    /\ \A d \in DOMAIN in : in[d] \in {1, out[Len(out) - Len(in) + d]}

\* Mutant: the rank alone
SameRank(a, b, axis) == Len(a) = Len(b)

same_dims_except(a, b, axis) ==
    /\ Len(a) = Len(b)
    /\ \A d \in DOMAIN a : d # axis => a[d] = b[d]

rocket_out_dim(in, k, stride, same) ==
    IF same THEN CeilDiv(in, stride) ELSE IF in >= k THEN ((in - k) \div stride) + 1 ELSE 0

rocket_total_pad(in, k, stride, out) == Larger((out - 1) * stride + k - in, 0)

NHWC(dims) == Len(dims) = 4 /\ dims[1] = 1
Ranked(dims) == Len(dims) \in 1 .. ROCKET_MAX_RANK

-----------------------------------------------------------------------------
\* The gates
analyze_ew(n) ==
    /\ n.type # "other"
    /\ broadcast_to(n.ins[1], n.outs[1])
    /\ broadcast_to(n.ins[2], n.outs[1])

analyze_prelu(n) ==
    LET in == n.ins[1] IN
    /\ n.type # "other" /\ in = n.outs[1] /\ Len(in) >= 1
    /\ Last(in) > 0 /\ Count(n.ins[2]) = Last(in)

\* The axes are {1, 2}, in either order.
analyze_reduce(n) ==
    LET in == n.ins[1] IN
    /\ n.type # "other" /\ NHWC(in)
    /\ in[2] > 0 /\ in[3] > 0 /\ in[4] > 0
    /\ Count(n.outs[1]) = in[4]

analyze_resize(n) ==
    LET in == n.ins[1]  out == n.outs[1] IN
    /\ n.type # "other" /\ NHWC(in) /\ Len(out) = 4
    /\ n.p.OH > 0 /\ n.p.OW > 0 /\ \A d \in 2 .. 4 : in[d] > 0
    /\ <<out[2], out[3], out[4]>> = <<n.p.OH, n.p.OW, in[4]>>

analyze_tconv(n) ==
    LET in == n.ins[1]  w == n.ins[2]  out == n.outs[1] IN
    /\ n.type = "float" /\ NHWC(in) /\ Len(w) = 4 /\ Len(out) = 4
    /\ w[4] = in[4] /\ out[4] = w[1]
    /\ \A d \in 2 .. 4 : in[d] > 0 /\ w[d - 1] > 0 /\ out[d] > 0

\* pad_of, on the output's extent; C rounds the division towards zero
pad_of(same, out_dim, k, stride) ==
    LET out_size == IF same THEN CeilDiv(out_dim, stride) ELSE (out_dim - k + stride) \div stride
    IN  Larger((out_size - 1) * stride + k - out_dim, 0) \div 2

\* L2_NORMALIZATION, LOG_SOFTMAX, SOFTMAX and, its axis the last, CUMSUM
analyze_rows(n) ==
    LET in == n.ins[1] IN
    /\ n.type # "other" /\ in = n.outs[1] /\ Len(in) >= 1
    /\ Last(in) > 0 /\ Count(in) > 0 /\ Count(in) % Last(in) = 0
    /\ n.op = "cumsum" => Axis(n.p.axis, Len(in)) = Len(in)

analyze_pool(n) ==
    LET in == n.ins[1]  out == n.outs[1] IN
    /\ n.type # "other" /\ NHWC(in) /\ NHWC(out) /\ in[4] = out[4]
    /\ \A d \in {2, 3} : rocket_out_dim(in[d], n.p.k[d - 1], n.p.s[d - 1], n.p.same) = out[d]

analyze_concat(n) ==
    LET out == n.outs[1]  axis == Axis(n.p.axis, Len(out)) IN
    /\ n.type # "other" /\ axis \in DOMAIN out
    /\ \A i \in DOMAIN n.ins : same_dims_except(n.ins[i], out, axis)
    /\ SumFunction([i \in DOMAIN n.ins |-> n.ins[i][axis]]) = out[axis]

analyze_reshape(n) == n.type # "other" /\ Count(n.ins[1]) = Count(n.outs[1])

analyze_transpose(n) ==
    LET in == n.ins[1]  out == n.outs[1]  rank == Len(in) IN
    /\ n.type # "other" /\ Ranked(in) /\ Len(out) = rank /\ Len(n.p.perm) = rank
    /\ Range(n.p.perm) = 1 .. rank
    /\ \A d \in 1 .. rank : out[d] = in[n.p.perm[d]]

SliceSize(n, d) == IF n.p.size[d] = -1 THEN n.ins[1][d] - n.p.begin[d] ELSE n.p.size[d]

analyze_slice(n) ==
    LET in == n.ins[1] IN
    /\ n.type # "other" /\ Ranked(in) /\ Len(n.outs[1]) = Len(in)
    /\ Len(n.p.begin) = Len(in) /\ Len(n.p.size) = Len(in)
    /\ \A d \in DOMAIN in :
          LET b == n.p.begin[d]  s == SliceSize(n, d) IN
          n.p.size[d] >= -1 /\ b >= 0 /\ s >= 0 /\ b + s <= in[d] /\ n.outs[1][d] = s

Clamp(v, lo, hi) == IF v < lo THEN lo ELSE IF v > hi THEN hi ELSE v

\* Mutant: a begin left negative is clamped, not counted from the end
StartUnwrapped(start, step, begin_mask, dim) ==
    IF begin_mask THEN (IF step > 0 THEN 0 ELSE dim - 1) ELSE Clamp(start, 0, dim - 1)

ss_start_for_axis(start, step, begin_mask, dim) ==
    IF dim = 0 THEN 0
    ELSE IF begin_mask THEN (IF step > 0 THEN 0 ELSE dim - 1)
    ELSE Clamp(FromEnd(start, dim), 0, IF step > 0 THEN dim ELSE dim - 1)

ss_stop_for_axis(stop, step, end_mask, shrink, start, dim) ==
    IF dim = 0 THEN 0
    ELSE IF shrink THEN start + 1
    ELSE IF end_mask THEN (IF step > 0 THEN dim ELSE -1)
    ELSE IF step > 0 THEN Clamp(FromEnd(stop, dim), 0, dim) ELSE Clamp(FromEnd(stop, dim), -1, dim - 1)

\* An input axis of the expanded spec; ok is false where the pass gives up
FullAxis(dim) == [begin |-> 0, size |-> dim, stride |-> 1, shrink |-> FALSE, ok |-> TRUE]
SpecAxis(r, dim) ==
    LET shrink == r.kind = "shrink"
        start == ss_start_for_axis(r.b, r.s, r.bm, dim)
        range == ss_stop_for_axis(r.e, r.s, r.em, shrink, start, dim) - start
        cnt == IF r.s > 0 THEN (IF range <= 0 THEN 0 ELSE CeilDiv(range, r.s))
               ELSE IF range >= 0 THEN 0 ELSE CeilDiv(-range, -r.s)
    IN  [begin |-> start, size |-> IF shrink THEN 1 ELSE cnt, stride |-> r.s, shrink |-> shrink,
         ok |-> IF shrink THEN start \in 0 .. (dim - 1) ELSE cnt > 0]

OfKind(spec, kind) == {s \in DOMAIN spec : spec[s].kind = kind}
EllAxes(n) ==
    Len(n.ins[1]) - (Len(n.p.spec) - Cardinality(OfKind(n.p.spec, "new"))
                                   - Cardinality(OfKind(n.p.spec, "ellipsis")))

\* The next k input axes whole, behind those already expanded
WholeAxes(axes, k, in) == axes \o [e \in 1 .. k |-> FullAxis(in[Len(axes) + e])]

\* What a position of the spec adds
Expanded(axes, r, n) ==
    IF r.kind = "new" THEN axes
    ELSE IF r.kind = "ellipsis" THEN WholeAxes(axes, EllAxes(n), n.ins[1])
    ELSE Append(axes, SpecAxis(r, n.ins[1][Len(axes) + 1]))

\* The spec expanded into one entry for each input axis
ExpandSpec(n) ==
    LET axes[s \in 0 .. Len(n.p.spec)] ==
            IF s = 0 THEN << >> ELSE Expanded(axes[s - 1], n.p.spec[s], n)
        spec == axes[Len(n.p.spec)]
    IN  WholeAxes(spec, Len(n.ins[1]) - Len(spec), n.ins[1])

analyze_strided_slice(n) ==
    /\ n.type # "other" /\ Ranked(n.ins[1])
    /\ Len(n.p.spec) \in 1 .. (2 * ROCKET_MAX_RANK)
    /\ Cardinality(OfKind(n.p.spec, "ellipsis")) <= 1 /\ EllAxes(n) >= 0
    /\ \A s \in Consuming(n.p.spec) : n.p.spec[s].s # 0
    /\ LET axes == ExpandSpec(n)  out == n.outs[1] IN
       /\ \A d \in DOMAIN axes : axes[d].ok
       /\ Len(out) = Cardinality(OfKind(n.p.spec, "new"))
                     + Cardinality({d \in DOMAIN axes : ~axes[d].shrink})
       /\ Count(out) = Count([d \in DOMAIN axes |-> axes[d].size])

analyze_pad(n) ==
    LET in == n.ins[1]  out == n.outs[1] IN
    /\ n.type # "other" /\ Ranked(in) /\ Len(out) = Len(in)
    /\ Len(n.p.before) = Len(in) /\ Len(n.p.after) = Len(in)
    /\ \A d \in DOMAIN in : /\ n.p.before[d] >= 0 /\ n.p.after[d] >= 0
                            /\ out[d] = in[d] + n.p.before[d] + n.p.after[d]

analyze_split(n) ==
    LET in == n.ins[1]  axis == Axis(n.p.axis, Len(in)) IN
    /\ n.type # "other" /\ Ranked(in) /\ axis \in DOMAIN in
    /\ \A i \in DOMAIN n.outs : same_dims_except(n.outs[i], in, axis)
    /\ SumFunction([i \in DOMAIN n.outs |-> n.outs[i][axis]]) = in[axis]

analyze_act(n) == n.type # "other" /\ n.ins[1] = n.outs[1]

analyze_fc(n) ==
    LET in == n.ins[1]  K == n.ins[2][2]  N == n.ins[2][1]  M == Count(in) \div K IN
    /\ n.type = "float" /\ Len(in) >= 1 /\ Len(n.ins[2]) = 2 /\ K > 0 /\ N > 0
    /\ Count(in) > 0 /\ Count(in) % K = 0
    /\ M % 4 = 0 \/ M = 1
    /\ Count(n.outs[1]) = M * N

\* analyze_node: every operator but FULLY_CONNECTED waits for aux_ops.
analyze_node(n, opts) ==
    /\ n.op # "fc" => opts.aux_ops
    /\ CASE n.op = "binary" -> analyze_ew(n)
         [] n.op = "prelu" -> analyze_prelu(n)
         [] n.op = "reduce" -> analyze_reduce(n)
         [] n.op = "resize" -> analyze_resize(n)
         [] n.op = "tconv" -> analyze_tconv(n)
         [] n.op \in {"rowwise", "l2norm", "cumsum"} -> analyze_rows(n)
         [] n.op = "pool" -> analyze_pool(n)
         [] n.op = "concat" -> analyze_concat(n)
         [] n.op = "reshape" -> analyze_reshape(n)
         [] n.op = "transpose" -> analyze_transpose(n)
         [] n.op = "slice" -> analyze_slice(n)
         [] n.op = "strided" -> analyze_strided_slice(n)
         [] n.op = "pad" -> analyze_pad(n)
         [] n.op = "split" -> analyze_split(n)
         [] n.op = "act" -> analyze_act(n)
         [] n.op = "fc" -> analyze_fc(n)

-----------------------------------------------------------------------------
\* What Init's call of analyze_node puts in the Node: the operands that Eval
\* does not read from the live tensors.
Capture(n) ==
    LET in == n.ins[1]  out == n.outs[1] IN
    CASE n.op = "prelu" -> [C |-> Last(in)]
      [] n.op = "reduce" -> [H |-> in[2], W |-> in[3], C |-> in[4]]
      [] n.op = "resize" -> [IH |-> in[2], IW |-> in[3], C |-> in[4], OH |-> n.p.OH, OW |-> n.p.OW]
      [] n.op = "tconv" ->
            [IH |-> in[2], IW |-> in[3], IC |-> in[4], OC |-> n.ins[2][1], KH |-> n.ins[2][2],
             KW |-> n.ins[2][3], OH |-> out[2], OW |-> out[3],
             pad_h |-> pad_of(n.p.same, out[2], n.ins[2][2], n.p.s[1]),
             pad_w |-> pad_of(n.p.same, out[3], n.ins[2][3], n.p.s[2])]
      [] n.op \in {"rowwise", "l2norm", "cumsum"} -> [M |-> Count(in) \div Last(in), N |-> Last(in)]
      [] n.op = "slice" -> [rank |-> Len(in), strided |-> FALSE, begin |-> n.p.begin,
                            size |-> [d \in DOMAIN in |-> SliceSize(n, d)], stride |-> Ones(Len(in))]
      [] n.op = "strided" ->
            LET axes == ExpandSpec(n) IN
            [rank |-> Len(in), strided |-> \E s \in Consuming(n.p.spec) : n.p.spec[s].s # 1,
             begin |-> [d \in DOMAIN in |-> axes[d].begin],
             size |-> [d \in DOMAIN in |-> axes[d].size],
             stride |-> [d \in DOMAIN in |-> axes[d].stride]]
      [] n.op = "concat" -> [axis |-> Axis(n.p.axis, Len(out))]
      [] n.op \in {"transpose", "pad"} -> [rank |-> Len(in)]
      [] n.op = "split" -> [rank |-> Len(in), axis |-> Axis(n.p.axis, Len(in))]
      [] n.op = "fc" -> [M |-> Count(in) \div n.ins[2][2], K |-> n.ins[2][2], N |-> n.ins[2][1]]
      [] OTHER -> [none |-> TRUE]
=============================================================================

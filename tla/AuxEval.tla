------------------------------ MODULE AuxEval ------------------------------
(***************************************************************************)
(* The eval_* functions of rocket_delegate.cpp for every operator but the  *)
(* convolutions: the checks of the live shapes, the host kernel, and the   *)
(* route to the NPU with the layouts it stages through.  n is the claimed  *)
(* node, x its captured operands, live the shapes [ins, outs] of the       *)
(* moment, board whether the NPU is asked and answers.                     *)
(***************************************************************************)
EXTENDS AuxGates

Answer(outs, npu) == [ok |-> TRUE, outs |-> outs, npu |-> npu]
Fails(outs) == [ok |-> FALSE, outs |-> outs, npu |-> FALSE]

-----------------------------------------------------------------------------
\* Staging.  A stage gives, for each offset of a buffer, the offset of the input
\* it was filled from; an offset without one holds zero.

\* NHWC to channel planes of S pixels, and the offset in those planes of an NHWC one
ChwOf(S, C) == [k \in 0 .. (S * C - 1) |-> (k % S) * C + (k \div S)]
InChw(k, S, C) == (k % C) * S + (k \div C)

\* f's terms over the staged operand n, in terms of the operand itself
Through(f, n, stage) ==
    [k \in DOMAIN f |->
        Term({[i \in DOMAIN tap |-> IF tap[i][1] = n THEN <<n, stage[tap[i][2]]>> ELSE tap[i]] :
                 tap \in {t \in f[k].taps : \A i \in DOMAIN t : t[i][1] = n => t[i][2] \in DOMAIN stage}},
             f[k].by)]

\* Back from channel planes of OS pixels
FromChw(f, OS, C) == [k \in 0 .. (OS * C - 1) |-> f[InChw(k, OS, C)]]

\* librocketnpu, on channel planes and padded matrices.  rocket_pool_fp16 divides
\* an average by the window's whole area.
rocket_pool_fp16(C, IH, IW, OH, OW, KH, KW, sy, sx, pt, pl, avg) ==
    Scatter((0 .. (C - 1)) \X (0 .. (OH - 1)) \X (0 .. (OW - 1)),
            LAMBDA q : (q[1] * OH + q[2]) * OW + q[3],
            LAMBDA q : Term({<< <<1, (q[1] * IH + q[2] * sy + j[1] - pt) * IW + q[3] * sx + j[2] - pl>> >> :
                                j \in {j \in (0 .. (KH - 1)) \X (0 .. (KW - 1)) :
                                          /\ q[2] * sy + j[1] - pt \in 0 .. (IH - 1)
                                          /\ q[3] * sx + j[2] - pl \in 0 .. (IW - 1)}},
                            IF avg THEN KH * KW ELSE 1))
rocket_upsample_nearest_fp16(C, H, W, sy, sx) ==
    Scatter((0 .. (C - 1)) \X (0 .. (H * sy - 1)) \X (0 .. (W * sx - 1)),
            LAMBDA q : (q[1] * H * sy + q[2]) * W * sx + q[3],
            LAMBDA q : Copy(1, (q[1] * H + (q[2] \div sy)) * W + (q[3] \div sx)))
rocket_globalpool_fp16(C, S, mean) ==
    [c \in 0 .. (C - 1) |-> Term({<< <<1, c * S + p>> >> : p \in 0 .. (S - 1)}, IF mean THEN S ELSE 1)]
rocket_prelu_fp16(C, S) ==
    [k \in 0 .. (C * S - 1) |-> Term({<< <<1, k>>, <<2, k \div S>> >>}, 1)]

-----------------------------------------------------------------------------
\* A broadcast operand is spread over the output's shape first.
Materialized(in, out) ==
    LET copy == rocket_broadcast_copy(in, out) IN
    [k \in Cells(out) |-> IF in = out THEN k ELSE (CHOOSE t \in copy[k].taps : TRUE)[1][2]]

eval_add(n, live, board) ==
    LET a == live.ins[1]  b == live.ins[2]  o == live.outs[1] IN
    IF ~(broadcast_to(a, o) /\ broadcast_to(b, o)) THEN Fails(<< >>)
    ELSE Answer(<<rocket_binary(Count(o), Materialized(a, o), Materialized(b, o))>>,
                n.p.minmax /\ board /\ n.type = "float" /\ a = o /\ b = o)

\* Mutant: a padded average goes to the PPU too
AnyAverage(avg, tot_h, tot_w) == TRUE
avg_ok(avg, tot_h, tot_w) == ~avg \/ (tot_h = 0 /\ tot_w = 0)

eval_pool(n, live, board) ==
    LET in == live.ins[1]  o == live.outs[1]
        k == n.p.k  s == n.p.s  C == in[4]
        tot == [d \in {2, 3} |-> rocket_total_pad(in[d], k[d - 1], s[d - 1], o[d])]
    IN
    IF \/ o[4] # C
       \/ \E d \in {2, 3} : rocket_out_dim(in[d], k[d - 1], s[d - 1], n.p.same) # o[d]
    THEN Fails(<< >>)
    ELSE IF board /\ n.type = "float" /\ avg_ok(n.p.avg, tot[2], tot[3])
    THEN Answer(<<FromChw(Through(rocket_pool_fp16(C, in[2], in[3], o[2], o[3], k[1], k[2], s[1], s[2],
                                                   tot[2] \div 2, tot[3] \div 2, n.p.avg),
                                  1, ChwOf(in[2] * in[3], C)),
                          o[2] * o[3], C)>>, TRUE)
    ELSE Answer(<<rocket_pool(in[2], in[3], C, o[2], o[3], k[1], k[2], s[1], s[2],
                              tot[2] \div 2, tot[3] \div 2, n.p.avg)>>, FALSE)

\* Input by input: one that does not fit the output ends the node after the
\* copies before it, and the extents along the axis are added up last.
eval_concat(n, x, live) ==
    LET o == live.outs[1]
        outer == Count(SubSeq(o, 1, x.axis - 1))
        inner == Count(SubSeq(o, x.axis + 1, Len(o)))
        fits == {i \in DOMAIN live.ins : \A j \in 1 .. i : same_dims_except(live.ins[j], o, x.axis)}
        off(i) == SumFunction([j \in 1 .. (i - 1) |-> live.ins[j][x.axis]])
        done == Overlaid([i \in fits |-> rocket_concat_in(i, outer, live.ins[i][x.axis],
                                                          o[x.axis], inner, off(i))])
    IN  IF fits = DOMAIN live.ins /\ off(Len(live.ins) + 1) = o[x.axis]
        THEN Answer(<<done>>, FALSE) ELSE Fails(<<done>>)

eval_reshape(live) ==
    LET count == Count(live.outs[1]) IN
    IF Count(live.ins[1]) # count \/ count <= 0 THEN Fails(<< >>)
    ELSE Answer(<<rocket_reshape_copy(count)>>, FALSE)

eval_transpose(n, x, live) ==
    LET in == live.ins[1]  o == live.outs[1] IN
    IF \/ Len(in) # x.rank \/ Len(o) # x.rank
       \/ \E d \in 1 .. x.rank : o[d] # in[n.p.perm[d]]
    THEN Fails(<< >>)
    ELSE Answer(<<rocket_transpose_bytes(in, n.p.perm)>>, FALSE)

\* Mutant: the last index gathered alone is compared with the extent
EndInside(begin, size, step, dim) == begin + (size - 1) * step < dim

\* The first and the last index gathered along an axis
Inside(begin, size, step, dim) ==
    LET last == begin + (size - 1) * step IN
    size >= 0 /\ step # 0 /\ Min({begin, last}) >= 0 /\ Max({begin, last}) < dim

eval_slice(x, live) ==
    LET in == live.ins[1]
        step(d) == IF x.strided THEN x.stride[d] ELSE 1
    IN
    IF \/ Len(in) # x.rank
       \/ \E d \in DOMAIN in : ~Inside(x.begin[d], x.size[d], step(d), in[d])
       \/ Count(live.outs[1]) # Count(x.size)
    THEN Fails(<< >>)
    ELSE Answer(<<IF x.strided THEN rocket_strided_slice_bytes(in, x.begin, x.stride, x.size)
                  ELSE rocket_slice_bytes(in, x.begin, x.size)>>, FALSE)

eval_pad(n, x, live) ==
    LET in == live.ins[1]  o == live.outs[1] IN
    IF \/ Len(in) # x.rank \/ Len(o) # x.rank
       \/ \E d \in 1 .. x.rank : n.p.before[d] + in[d] > o[d]
    THEN Fails(<< >>)
    ELSE Answer(<<rocket_pad_bytes(in, n.p.before, o)>>, FALSE)

\* Output by output, as eval_concat
eval_split(x, live) ==
    LET in == live.ins[1]
        off(i) == SumFunction([j \in 1 .. (i - 1) |-> live.outs[j][x.axis]])
        fits == {i \in DOMAIN live.outs : \A j \in 1 .. i :
                    /\ same_dims_except(live.outs[j], in, x.axis)
                    /\ off(j) + live.outs[j][x.axis] <= in[x.axis]}
        done == [i \in fits |->
                    rocket_slice_bytes(in, [Zeros(x.rank) EXCEPT ![x.axis] = off(i)], live.outs[i])]
    IN  IF Len(in) # x.rank THEN Fails(<< >>)
        ELSE IF fits = DOMAIN live.outs /\ off(Len(live.outs) + 1) = in[x.axis]
        THEN Answer(done, FALSE) ELSE Fails(done)

\* Only the curved kinds have a table on the NPU (unary_to_rocket_act).
eval_act(n, live, board) ==
    LET count == Count(live.outs[1]) IN
    IF Count(live.ins[1]) # count \/ count <= 0 THEN Fails(<< >>)
    ELSE Answer(<<rocket_unary(count)>>, board /\ n.p.lut)

\* LOG_SOFTMAX, SOFTMAX, L2_NORMALIZATION, CUMSUM
eval_rows(n, x, live, board) ==
    LET count == Count(live.outs[1]) IN
    IF \/ Count(live.ins[1]) # count \/ x.M * x.N # count
       \/ n.op = "l2norm" /\ count <= 0
    THEN Fails(<< >>)
    ELSE Answer(<<IF n.op = "cumsum" THEN rocket_cumsum(x.M, x.N, n.p.exclusive, n.p.reverse)
                  ELSE rocket_rowwise(x.M, x.N)>>,
                n.op = "l2norm" /\ board /\ n.type = "float")

eval_tconv(n, x, live) ==
    LET in == live.ins[1]  o == live.outs[1] IN
    IF \/ Len(in) # 4 \/ <<in[2], in[3], in[4]>> # <<x.IH, x.IW, x.IC>>
       \/ <<o[2], o[3], o[4]>> # <<x.OH, x.OW, x.OC>>
    THEN Fails(<< >>)
    ELSE Answer(<<rocket_transpose_conv(x.IH, x.IW, x.IC, x.OC, x.KH, x.KW, n.p.s[1], n.p.s[2],
                                        x.pad_h, x.pad_w, x.OH, x.OW)>>, FALSE)

\* Block replication is the nearest neighbour where the factors are integers.
eval_resize(n, x, live, board) ==
    LET in == live.ins[1]  o == live.outs[1] IN
    IF \/ Len(in) # 4 \/ <<in[2], in[3], in[4]>> # <<x.IH, x.IW, x.C>>
       \/ <<o[2], o[3], o[4]>> # <<x.OH, x.OW, x.C>>
    THEN Fails(<< >>)
    ELSE IF /\ board /\ n.type = "float" /\ ~n.p.corners /\ ~n.p.half
            /\ x.OH % x.IH = 0 /\ x.OW % x.IW = 0
    THEN Answer(<<FromChw(Through(rocket_upsample_nearest_fp16(x.C, x.IH, x.IW, x.OH \div x.IH,
                                                               x.OW \div x.IW),
                                  1, ChwOf(x.IH * x.IW, x.C)),
                          x.OH * x.OW, x.C)>>, TRUE)
    ELSE Answer(<<rocket_resize_nearest(x.IH, x.IW, x.C, x.OH, x.OW, n.p.corners, n.p.half)>>, FALSE)

eval_reduce(n, x, live, board) ==
    LET in == live.ins[1] IN
    IF \/ Len(in) # 4 \/ <<in[2], in[3], in[4]>> # <<x.H, x.W, x.C>>
       \/ Count(live.outs[1]) # x.C
    THEN Fails(<< >>)
    ELSE IF board /\ n.type = "float"
    THEN Answer(<<Through(rocket_globalpool_fp16(x.C, x.H * x.W, n.p.mean), 1, ChwOf(x.H * x.W, x.C))>>,
                TRUE)
    ELSE Answer(<<rocket_reduce_spatial(x.H, x.W, x.C, n.p.mean)>>, FALSE)

eval_prelu(n, x, live, board) ==
    LET count == Count(live.outs[1])  S == count \div x.C IN
    IF Count(live.ins[1]) # count \/ count <= 0 \/ count % x.C # 0 THEN Fails(<< >>)
    ELSE IF board /\ n.type = "float"
    THEN Answer(<<FromChw(Through(rocket_prelu_fp16(x.C, S), 1, ChwOf(S, x.C)), S, x.C)>>, TRUE)
    ELSE Answer(<<rocket_prelu(count, x.C)>>, FALSE)

round_up(v, m) == CeilDiv(v, m) * m

\* Rows of K elements inside rows of Kpad, the rest zero
Padded(rows, K, Kpad) ==
    [k \in {r * Kpad + c : r \in 0 .. (rows - 1), c \in 0 .. (K - 1)} |-> (k \div Kpad) * K + (k % Kpad)]

\* packed: Prepare made the weights resident; the matmul is rocket_fc_f's, wider.
eval_fc(x, live, packed, board) ==
    LET Kpad == round_up(x.K, 32)  Npad == round_up(x.N, 16)
        C == Through(Through(rocket_fc_f(x.M, Kpad, Npad), 1, Padded(x.M, x.K, Kpad)),
                     2, Padded(x.N, x.K, Kpad))
    IN
    IF packed /\ board
    THEN Answer(<<[k \in 0 .. (x.M * x.N - 1) |-> C[(k \div x.N) * Npad + (k % x.N)]]>>, TRUE)
    ELSE Answer(<<rocket_fc_f(x.M, x.K, x.N)>>, FALSE)

\* RocketKernel::Eval's dispatch on the kind
eval(n, x, live, packed, board) ==
    CASE n.op = "binary" -> eval_add(n, live, board)
      [] n.op = "pool" -> eval_pool(n, live, board)
      [] n.op = "concat" -> eval_concat(n, x, live)
      [] n.op = "reshape" -> eval_reshape(live)
      [] n.op = "transpose" -> eval_transpose(n, x, live)
      [] n.op \in {"slice", "strided"} -> eval_slice(x, live)
      [] n.op = "pad" -> eval_pad(n, x, live)
      [] n.op = "split" -> eval_split(x, live)
      [] n.op = "act" -> eval_act(n, live, board)
      [] n.op \in {"rowwise", "l2norm", "cumsum"} -> eval_rows(n, x, live, board)
      [] n.op = "tconv" -> eval_tconv(n, x, live)
      [] n.op = "resize" -> eval_resize(n, x, live, board)
      [] n.op = "reduce" -> eval_reduce(n, x, live, board)
      [] n.op = "prelu" -> eval_prelu(n, x, live, board)
      [] n.op = "fc" -> eval_fc(x, live, packed, board)
=============================================================================

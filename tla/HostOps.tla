------------------------------ MODULE HostOps ------------------------------
(***************************************************************************)
(* The host kernels of rocket_ops.h as index arithmetic.  A kernel is the  *)
(* function from the output offsets it writes to what it computes each     *)
(* from: a term [taps, by], the offsets read together, and the divisor or  *)
(* position that goes with them.  A tap is a sequence of <<input, offset>> *)
(* pairs, what is multiplied or compared with what.  Values, activations   *)
(* and requantisation are left out: float and quantised kernels share the  *)
(* arithmetic below.                                                       *)
(***************************************************************************)
EXTENDS Integers, Sequences, FiniteSets, FiniteSetsExt, SequencesExt

ROCKET_MAX_RANK == 8

\* The product of the extents (total in every kernel)
Count(dims) == FoldSeq(LAMBDA e, n : e * n, 1, dims)
Cells(dims) == 0 .. (Count(dims) - 1)

Ones(rank) == [d \in 1 .. rank |-> 1]
Zeros(rank) == [d \in 1 .. rank |-> 0]

Term(taps, by) == [taps |-> taps, by |-> by]
Copy(n, off) == Term({<< <<n, off>> >>}, 1)

\* Mutant: the strides of the axes in the other order
StridesReversed(dims) ==
    LET s[d \in DOMAIN dims] == IF d = 1 THEN 1 ELSE s[d - 1] * dims[d - 1] IN s

rocket_row_strides(dims) ==
    LET s[d \in DOMAIN dims] == IF d = Len(dims) THEN 1 ELSE s[d + 1] * dims[d + 1] IN s

\* One turn of the odometer: the last axis that has room moves, those after it
\* start again.
Tick(idx, dims) ==
    LET room == {d \in DOMAIN dims : idx[d] + 1 < dims[d]} IN
    IF room = {} THEN Zeros(Len(dims))
    ELSE [d \in DOMAIN dims |-> IF d < Max(room) THEN idx[d]
                                ELSE IF d = Max(room) THEN idx[d] + 1 ELSE 0]

\* idx[] as the loop over k finds it
Odometer(dims) ==
    LET at[k \in Cells(dims)] == IF k = 0 THEN Zeros(Len(dims)) ELSE Tick(at[k - 1], dims)
    IN  at

\* The inner product of an odometer with strides
Dot(x, stride) == SumFunction([d \in DOMAIN x |-> x[d] * stride[d]])

\* out[k] = in[Off(idx)], the output's odometer driving
Gather(out, Off(_)) ==
    LET at == Odometer(out) IN [k \in Cells(out) |-> Copy(1, Off(at[k]))]

\* out[Dst(q)] = What(q) over the loop's iterations q
Scatter(Q, Dst(_), What(_)) ==
    [k \in {Dst(q) : q \in Q} |-> What(CHOOSE q \in Q : Dst(q) = k)]

\* Several copies over one another: an offset keeps what the last of them wrote.
Overlaid(copies) ==
    [k \in UNION {DOMAIN copies[i] : i \in DOMAIN copies} |->
        copies[Max({i \in DOMAIN copies : k \in DOMAIN copies[i]})][k]]

rocket_transpose_bytes(in, perm) ==
    LET stride == rocket_row_strides(in) IN
    Gather([d \in DOMAIN perm |-> in[perm[d]]],
           LAMBDA idx : Dot(idx, [d \in DOMAIN perm |-> stride[perm[d]]]))

rocket_strided_slice_bytes(in, begin, stride, out) ==
    LET row == rocket_row_strides(in) IN
    Gather(out, LAMBDA idx : Dot([d \in DOMAIN in |-> begin[d] + idx[d] * stride[d]], row))

rocket_slice_bytes(in, begin, out) ==
    rocket_strided_slice_bytes(in, begin, Ones(Len(in)), out)

\* A size-1 or absent axis repeats: it has stride 0.
rocket_broadcast_copy(in, out) ==
    LET row == rocket_row_strides(in)
        off == Len(out) - Len(in)
        bstride == [d \in DOMAIN out |->
                       IF d <= off THEN 0 ELSE IF in[d - off] = 1 THEN 0 ELSE row[d - off]]
    IN  Gather(out, LAMBDA idx : Dot(idx, bstride))

\* The border everywhere, then the input over it
rocket_pad_bytes(in, before, out) ==
    LET row == rocket_row_strides(out)
        at == Odometer(in)
        inside == Scatter(Cells(in),
                          LAMBDA k : Dot([d \in DOMAIN in |-> at[k][d] + before[d]], row),
                          LAMBDA k : Copy(1, k))
    IN  [k \in Cells(out) \cup DOMAIN inside |->
            IF k \in DOMAIN inside THEN inside[k] ELSE Term({}, 1)]

rocket_reshape_copy(n) == [k \in 0 .. (n - 1) |-> Copy(1, k)]

\* out[i] = f(in[i])
rocket_unary(n) == [i \in 0 .. (n - 1) |-> Copy(1, i)]

rocket_concat_in(n, outer, in_axis, out_axis, inner, axis_off) ==
    Scatter((0 .. (outer - 1)) \X (0 .. (in_axis - 1)) \X (0 .. (inner - 1)),
            LAMBDA q : (q[1] * out_axis + axis_off + q[2]) * inner + q[3],
            LAMBDA q : Copy(n, (q[1] * in_axis + q[2]) * inner + q[3]))

\* Two operands, element by element (ADD, MAXIMUM, MUL, ...), read through ma, mb
rocket_binary(n, ma, mb) ==
    [i \in 0 .. (n - 1) |-> Term({<< <<1, ma[i]>>, <<2, mb[i]>> >>}, 1)]

rocket_prelu(n, C) == [i \in 0 .. (n - 1) |-> Term({<< <<1, i>>, <<2, i % C>> >>}, 1)]

\* An NHWC offset of a batch of one
At(h, w, c, W, C) == (h * W + w) * C + c

\* The offsets a window has inside the image
Window(oh, ow, c, IH, IW, C, KH, KW, sy, sx, pt, pl) ==
    {At(oh * sy + q[1] - pt, ow * sx + q[2] - pl, c, IW, C) :
        q \in {q \in (0 .. (KH - 1)) \X (0 .. (KW - 1)) :
                  /\ oh * sy + q[1] - pt \in 0 .. (IH - 1)
                  /\ ow * sx + q[2] - pl \in 0 .. (IW - 1)}}

rocket_pool(IH, IW, C, OH, OW, KH, KW, sy, sx, pt, pl, avg) ==
    Scatter((0 .. (OH - 1)) \X (0 .. (OW - 1)) \X (0 .. (C - 1)),
            LAMBDA q : At(q[1], q[2], q[3], OW, C),
            LAMBDA q : LET win == Window(q[1], q[2], q[3], IH, IW, C, KH, KW, sy, sx, pt, pl)
                       IN Term({<< <<1, off>> >> : off \in win},
                               IF avg THEN Cardinality(win) ELSE 1))

rocket_reduce_spatial(H, W, C, mean) ==
    [c \in 0 .. (C - 1) |-> Term({<< <<1, p * C + c>> >> : p \in 0 .. (H * W - 1)},
                                 IF mean THEN H * W ELSE 1)]

\* Half to even, as lrintf
RoundEven(a, b) ==
    LET q == a \div b  r == 2 * (a % b) IN
    IF r < b \/ (r = b /\ q % 2 = 0) THEN q ELSE q + 1

\* The coordinate as a fraction of integers: scale is num/den, off is 0 or 1/2.
rocket_nn_src(o, in_size, out_size, align_corners, half_pixel) ==
    LET corners == align_corners /\ out_size > 1
        num == IF corners THEN in_size - 1 ELSE in_size
        den == IF corners THEN out_size - 1 ELSE out_size
        off == IF half_pixel THEN 1 ELSE 0
        v == IF align_corners THEN RoundEven((2 * o + off) * num - off * den, 2 * den)
             ELSE ((2 * o + off) * num) \div (2 * den)
    IN  IF v > in_size - 1 THEN in_size - 1 ELSE IF v < 0 THEN 0 ELSE v

rocket_resize_nearest(IH, IW, C, OH, OW, align_corners, half_pixel) ==
    Scatter((0 .. (OH - 1)) \X (0 .. (OW - 1)) \X (0 .. (C - 1)),
            LAMBDA q : At(q[1], q[2], q[3], OW, C),
            LAMBDA q : Copy(1, At(rocket_nn_src(q[1], IH, OH, align_corners, half_pixel),
                                  rocket_nn_src(q[2], IW, OW, align_corners, half_pixel),
                                  q[3], IW, C)))

\* Every input position scatters its products; an output nobody reaches is zero.
rocket_transpose_conv(IH, IW, IC, OC, KH, KW, sy, sx, pad_h, pad_w, OH, OW) ==
    LET loops == {q \in (0 .. (IH - 1)) \X (0 .. (IW - 1)) \X (0 .. (KH - 1)) \X (0 .. (KW - 1)) :
                     /\ q[1] * sy + q[3] - pad_h \in 0 .. (OH - 1)
                     /\ q[2] * sx + q[4] - pad_w \in 0 .. (OW - 1)}
        dst(q) == <<q[1] * sy + q[3] - pad_h, q[2] * sx + q[4] - pad_w>>
        weight(oc, q, ic) == ((oc * KH + q[3]) * KW + q[4]) * IC + ic
    IN  Scatter((0 .. (OH - 1)) \X (0 .. (OW - 1)) \X (0 .. (OC - 1)),
                LAMBDA o : At(o[1], o[2], o[3], OW, OC),
                LAMBDA o : Term({<< <<1, At(q[1], q[2], ic, IW, IC)>>, <<2, weight(o[3], q, ic)>> >> :
                                    q \in {l \in loops : dst(l) = <<o[1], o[2]>>},
                                    ic \in 0 .. (IC - 1)}, 1))

\* SOFTMAX, LOG_SOFTMAX and L2_NORMALIZATION: an element, and the row it is in
rocket_rowwise(M, N) ==
    [i \in 0 .. (M * N - 1) |->
        Term({<< <<1, (i \div N) * N + n>> >> : n \in 0 .. (N - 1)}, i % N)]

\* acc before or after x[n] is added, n running up or down the row
rocket_cumsum(M, N, exclusive, reverse) ==
    LET n(i) == IF reverse THEN N - 1 - i ELSE i IN
    Scatter((0 .. (M - 1)) \X (0 .. (N - 1)),
            LAMBDA q : q[1] * N + n(q[2]),
            LAMBDA q : Term({<< <<1, q[1] * N + n(j)>> >> :
                                j \in {j \in 0 .. q[2] : ~exclusive \/ j < q[2]}}, 1))

rocket_fc_f(M, K, N) ==
    Scatter((0 .. (M - 1)) \X (0 .. (N - 1)),
            LAMBDA q : q[1] * N + q[2],
            LAMBDA q : Term({<< <<1, q[1] * K + k>>, <<2, q[2] * K + k>> >> : k \in 0 .. (K - 1)}, 1))
=============================================================================

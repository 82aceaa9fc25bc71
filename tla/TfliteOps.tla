----------------------------- MODULE TfliteOps -----------------------------
(***************************************************************************)
(* What TensorFlow Lite's operators mean, coordinate by coordinate: the    *)
(* reference the delegate's kernels are compared with.  An operator is a   *)
(* record [op, p, ins]: its kind, its attributes and constant operands,    *)
(* and the shapes of its inputs.  Results are the terms of HostOps, keyed  *)
(* by output offset.  Axes count from 1, indices along an axis from 0.     *)
(***************************************************************************)
EXTENDS HostOps

\* The row-major offset of a coordinate
Flat(c, dims) == FoldLeftDomain(LAMBDA acc, d : acc * dims[d] + c[d], 0, dims)

Coords(dims) ==
    {c \in [DOMAIN dims -> 0 .. (Max(Range(dims) \cup {1}) - 1)] : \A d \in DOMAIN dims : c[d] < dims[d]}

\* The tensor of shape dims whose element at c is What(c)
Tensor(dims, What(_)) ==
    LET at == [c \in Coords(dims) |-> Flat(c, dims)]
    IN  [k \in Range(at) |-> What(CHOOSE c \in DOMAIN at : at[c] = k)]

\* The element of input n at coordinate c
Elem(n, c, dims) == <<n, Flat(c, dims)>>
Value(n, c, dims) == Term({<<Elem(n, c, dims)>>}, 1)

Larger(a, b) == IF a > b THEN a ELSE b
CeilDiv(a, b) == (a + b - 1) \div b

-----------------------------------------------------------------------------
\* Elementwise operators broadcast, aligned at the last axis.
Extent(dims, rank, d) == IF d <= rank - Len(dims) THEN 1 ELSE dims[d - (rank - Len(dims))]
BroadcastShape(a, b) ==
    LET rank == Larger(Len(a), Len(b)) IN
    [d \in 1 .. rank |-> IF Extent(a, rank, d) = 1 THEN Extent(b, rank, d) ELSE Extent(a, rank, d)]
Broadcasts(in, out) ==
    /\ Len(in) <= Len(out)
    /\ \A d \in DOMAIN out : Extent(in, Len(out), d) \in {1, out[d]}
Source(c, in) ==
    [d \in DOMAIN in |-> IF in[d] = 1 THEN 0 ELSE c[d + Len(c) - Len(in)]]

\* An axis counted from the end
Axis(axis, rank) == IF axis < 0 THEN axis + rank + 1 ELSE axis

\* A SLICE's extent of -1 goes to the end.
SliceShape(p, in) == [d \in DOMAIN in |-> IF p.size[d] = -1 THEN in[d] - p.begin[d] ELSE p.size[d]]

\* The input axis a STRIDED_SLICE's spec applies to: an ellipsis stands for the
\* axes the others leave, a new axis for none.
Consuming(spec) == {s \in DOMAIN spec : spec[s].kind \in {"range", "shrink"}}
EllipsisAxes(spec, rank) == rank - Cardinality(Consuming(spec))
Before(spec, s) == {e \in DOMAIN spec : e < s}
AxisOf(spec, s, rank) ==
    1 + Cardinality(Consuming(spec) \cap Before(spec, s))
      + (IF \E e \in Before(spec, s) : spec[e].kind = "ellipsis" THEN EllipsisAxes(spec, rank) ELSE 0)
SpecOf(spec, d, rank) == {s \in Consuming(spec) : AxisOf(spec, s, rank) = d}

\* The indices a range takes along an axis, as Python takes them
FromEnd(i, dim) == IF i < 0 THEN i + dim ELSE i
Taken(r, dim) ==
    IF r.kind = "shrink" THEN {FromEnd(r.b, dim)} \cap (0 .. (dim - 1))
    ELSE LET first == IF r.bm THEN (IF r.s > 0 THEN 0 ELSE dim - 1)
                      ELSE IF r.s > 0 THEN Larger(FromEnd(r.b, dim), 0)
                      ELSE Min({FromEnd(r.b, dim), dim - 1})
         IN  {i \in 0 .. (dim - 1) :
                 /\ IF r.s > 0 THEN i >= first /\ (i - first) % r.s = 0
                    ELSE i <= first /\ (first - i) % (-r.s) = 0
                 /\ r.em \/ (IF r.s > 0 THEN i < FromEnd(r.e, dim) ELSE i > FromEnd(r.e, dim))}
AxisTaken(spec, in, d) ==
    IF SpecOf(spec, d, Len(in)) = {} THEN 0 .. (in[d] - 1)
    ELSE Taken(spec[CHOOSE s \in SpecOf(spec, d, Len(in)) : TRUE], in[d])
Backwards(spec, d, rank) == \E s \in SpecOf(spec, d, rank) : spec[s].s < 0
Nth(S, k, backwards) ==
    CHOOSE i \in S : Cardinality({j \in S : IF backwards THEN j > i ELSE j < i}) = k
Shrunk(spec, d, rank) == \E s \in SpecOf(spec, d, rank) : spec[s].kind = "shrink"

\* The shape of a STRIDED_SLICE, its new axes first: the delegate looks at the
\* rank and the number of elements.
NewAxes(spec) == {s \in DOMAIN spec : spec[s].kind = "new"}
StridedShape(spec, in) ==
    Ones(Cardinality(NewAxes(spec))) \o
    FoldLeft(LAMBDA shape, d : IF Shrunk(spec, d, Len(in)) THEN shape
                               ELSE Append(shape, Cardinality(AxisTaken(spec, in, d))),
             << >>, [d \in DOMAIN in |-> d])

-----------------------------------------------------------------------------
\* The padding a window needs before its first row: half, rounded down, of the
\* least that lets the last of out windows end inside.
Lead(in, k, s, out) == Min({t \in 0 .. (out * s + k) : (out - 1) * s + k <= in + t}) \div 2
WindowCount(in, k, s, same) ==
    IF same THEN CeilDiv(in, s)
    ELSE Cardinality({o \in 0 .. in : o * s + k <= in})

\* Which of the inputs, laid end to end along an axis, holds index i
Starts(ins, axis) ==
    [n \in DOMAIN ins |-> SumFunction([m \in 1 .. (n - 1) |-> ins[m][axis]])]
Holder(ins, axis, i) ==
    CHOOSE n \in DOMAIN ins : Starts(ins, axis)[n] <= i /\ i < Starts(ins, axis)[n] + ins[n][axis]

Rows(in) == Count(SubSeq(in, 1, Len(in) - 1))

-----------------------------------------------------------------------------
\* What an operator is defined on
Valid(op, p, ins) ==
    LET in == ins[1] IN
    CASE op = "binary" -> LET out == BroadcastShape(ins[1], ins[2]) IN
                          Broadcasts(ins[1], out) /\ Broadcasts(ins[2], out)
      [] op = "pool" -> \A a \in {1, 2} : WindowCount(in[a + 1], p.k[a], p.s[a], p.same) > 0
      [] op = "concat" -> \A n \in DOMAIN ins : \A d \in DOMAIN in :
                              d # Axis(p.axis, Len(in)) => ins[n][d] = in[d]
      [] op = "reshape" -> Count(in) = Count(p.shape)
      [] op = "slice" -> \A d \in DOMAIN in : p.begin[d] + Larger(SliceShape(p, in)[d], 0) <= in[d]
                                              /\ SliceShape(p, in)[d] >= 0
      [] op = "strided" -> \A d \in DOMAIN in : AxisTaken(p.spec, in, d) # {}
      [] op = "split" -> SumFunction(p.sizes) = in[Axis(p.axis, Len(in))]
      [] op = "prelu" -> Len(in) >= 1 /\ ins[2] = <<in[Len(in)]>>
      [] op \in {"rowwise", "l2norm"} -> Len(in) >= 1
      [] op = "cumsum" -> Axis(p.axis, Len(in)) \in DOMAIN in
      [] op = "tconv" -> /\ WindowCount(p.OH, ins[2][2], p.s[1], p.same) = in[2]
                         /\ WindowCount(p.OW, ins[2][3], p.s[2], p.same) = in[3]
                         /\ ins[2][4] = in[4]
      [] op = "fc" -> Count(in) % ins[2][2] = 0
      [] OTHER -> TRUE

\* The shapes of the outputs
Shapes(op, p, ins) ==
    LET in == ins[1] IN
    CASE op = "binary" -> <<BroadcastShape(ins[1], ins[2])>>
      [] op = "pool" -> << <<in[1], WindowCount(in[2], p.k[1], p.s[1], p.same),
                             WindowCount(in[3], p.k[2], p.s[2], p.same), in[4]>> >>
      [] op = "concat" -> LET a == Axis(p.axis, Len(in)) IN
                          <<[in EXCEPT ![a] = SumFunction([n \in DOMAIN ins |-> ins[n][a]])]>>
      [] op = "reshape" -> <<p.shape>>
      [] op = "transpose" -> <<[d \in DOMAIN in |-> in[p.perm[d]]]>>
      [] op = "slice" -> <<SliceShape(p, in)>>
      [] op = "strided" -> <<StridedShape(p.spec, in)>>
      [] op = "pad" -> <<[d \in DOMAIN in |-> p.before[d] + in[d] + p.after[d]]>>
      [] op = "split" -> [i \in DOMAIN p.sizes |-> [in EXCEPT ![Axis(p.axis, Len(in))] = p.sizes[i]]]
      [] op = "reduce" -> IF p.keep THEN << <<in[1], 1, 1, in[4]>> >> ELSE << <<in[1], in[4]>> >>
      [] op = "resize" -> << <<in[1], p.OH, p.OW, in[4]>> >>
      [] op = "tconv" -> << <<in[1], p.OH, p.OW, ins[2][1]>> >>
      [] op = "fc" -> << <<Count(in) \div ins[2][2], ins[2][1]>> >>
      [] OTHER -> <<in>>

\* The outputs
Outputs(op, p, ins) ==
    LET in == ins[1]
        out == Shapes(op, p, ins)
        rank == Len(in)
        One(What(_)) == <<Tensor(out[1], What)>>
    IN
    CASE op = "binary" ->
            One(LAMBDA c : Term({<<Elem(1, Source(c, ins[1]), ins[1]), Elem(2, Source(c, ins[2]), ins[2])>>}, 1))
      [] op = "pool" ->
            One(LAMBDA c :
                LET win == {x \in Coords(in) :
                               /\ x[1] = c[1] /\ x[4] = c[4]
                               /\ \A a \in {1, 2} :
                                     x[a + 1] + Lead(in[a + 1], p.k[a], p.s[a], out[1][a + 1])
                                       - c[a + 1] * p.s[a] \in 0 .. (p.k[a] - 1)}
                IN  Term({<<Elem(1, x, in)>> : x \in win}, IF p.avg THEN Cardinality(win) ELSE 1))
      [] op = "concat" ->
            LET a == Axis(p.axis, rank) IN
            One(LAMBDA c : LET n == Holder(ins, a, c[a]) IN
                           Value(n, [c EXCEPT ![a] = @ - Starts(ins, a)[n]], ins[n]))
      [] op \in {"reshape", "act"} -> <<[k \in Cells(in) |-> Copy(1, k)]>>
      [] op = "transpose" ->
            One(LAMBDA c : Value(1, [e \in DOMAIN in |-> c[CHOOSE d \in DOMAIN in : p.perm[d] = e]], in))
      [] op = "slice" -> One(LAMBDA c : Value(1, [d \in DOMAIN in |-> c[d] + p.begin[d]], in))
      [] op = "strided" ->
            LET taken == [d \in DOMAIN in |-> AxisTaken(p.spec, in, d)] IN
            <<Tensor([d \in DOMAIN in |-> Cardinality(taken[d])],
                     LAMBDA c : Value(1, [d \in DOMAIN in |->
                                             Nth(taken[d], c[d], Backwards(p.spec, d, rank))], in))>>
      [] op = "pad" ->
            One(LAMBDA c : LET x == [d \in DOMAIN in |-> c[d] - p.before[d]] IN
                           IF x \in Coords(in) THEN Value(1, x, in) ELSE Term({}, 1))
      [] op = "split" ->
            LET a == Axis(p.axis, rank) IN
            [i \in DOMAIN out |->
                Tensor(out[i], LAMBDA c : Value(1, [c EXCEPT ![a] = @ + Starts(out, a)[i]], in))]
      [] op = "prelu" -> One(LAMBDA c : Term({<<Elem(1, c, in), <<2, c[rank]>> >>}, 1))
      [] op = "reduce" ->
            One(LAMBDA c : LET pos == {x \in Coords(in) : x[1] = c[1] /\ x[4] = c[Len(c)]} IN
                           Term({<<Elem(1, x, in)>> : x \in pos}, IF p.mean THEN Cardinality(pos) ELSE 1))
      [] op = "resize" ->
            One(LAMBDA c : Value(1, <<c[1], rocket_nn_src(c[2], in[2], p.OH, p.corners, p.half),
                                      rocket_nn_src(c[3], in[3], p.OW, p.corners, p.half), c[4]>>, in))
      [] op = "tconv" ->
            LET w == ins[2] IN
            One(LAMBDA c :
                Term({<<Elem(1, x[1], in), Elem(2, x[2], w)>> :
                         x \in {x \in Coords(in) \X Coords(w) :
                                   /\ x[1][1] = c[1] /\ x[2][1] = c[4] /\ x[2][4] = x[1][4]
                                   /\ c[2] + Lead(p.OH, w[2], p.s[1], in[2]) = x[1][2] * p.s[1] + x[2][2]
                                   /\ c[3] + Lead(p.OW, w[3], p.s[2], in[3]) = x[1][3] * p.s[2] + x[2][3]}}, 1))
      [] op \in {"rowwise", "l2norm"} ->
            One(LAMBDA c : Term({<<Elem(1, [c EXCEPT ![rank] = n], in)>> : n \in 0 .. (in[rank] - 1)}, c[rank]))
      [] op = "cumsum" ->
            LET a == Axis(p.axis, rank) IN
            One(LAMBDA c :
                Term({<<Elem(1, [c EXCEPT ![a] = n], in)>> :
                         n \in {n \in 0 .. (in[a] - 1) :
                                   \/ n = c[a] /\ ~p.exclusive
                                   \/ IF p.reverse THEN n > c[a] ELSE n < c[a]}}, 1))
      [] op = "fc" ->
            One(LAMBDA c : Term({<< <<1, c[1] * ins[2][2] + k>>, Elem(2, <<c[2], k>>, ins[2])>> :
                                    k \in 0 .. (ins[2][2] - 1)}, 1))
=============================================================================

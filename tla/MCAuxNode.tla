----------------------------- MODULE MCAuxNode -----------------------------
(* A catalogue of nodes, a few shapes and attributes for each operator: every *)
(* gate has nodes it takes and nodes it leaves, every NPU route too.          *)
EXTENDS AuxNode

Make(op, p, types, ins) == {[op |-> op, p |-> p, type |-> t, ins |-> ins] : t \in types}
Both == {"float", "quant"}
Each(op, ps, types, inss) == UNION {Make(op, p, types, ins) : p \in ps, ins \in inss}
OkOnly(S) == {n \in S : Valid(n.op, n.p, n.ins)}

Images == {<< <<1, 3, 3, 2>> >>, << <<1, 4, 2, 1>> >>, << <<2, 3, 3, 2>> >>, << <<1, 2, 3, 2>> >>,
           << <<0, 3, 3, 2>> >>}

Binary == Each("binary", {[minmax |-> b] : b \in BOOLEAN}, Both \cup {"other"},
    {<< <<2, 3>>, <<2, 3>> >>, << <<2, 3>>, <<3>> >>, << <<2, 1>>, <<1, 3>> >>, << <<3>>, <<1>> >>,
     << <<2, 2>>, <<2>> >>, << <<3, 3>>, <<3, 1>> >>})

Pool == Each("pool", [k : {<<2, 2>>, <<3, 2>>, <<1, 3>>}, s : {<<1, 1>>, <<2, 1>>, <<2, 2>>}, same : BOOLEAN, avg : BOOLEAN], Both, Images)

Concat == Each("concat", {[axis |-> a] : a \in {1, 2, -1}}, {"float"},
    {<< <<2, 2>>, <<2, 2>> >>, << <<2, 1>>, <<2, 3>> >>, << <<1, 3>>, <<2, 3>> >>,
     << <<2, 3>>, <<2, 1>> >>, << <<2, 3>>, <<2, 2>> >>})

Reshape == Each("reshape", {[shape |-> s] : s \in {<<6>>, <<3, 2>>, <<1, 1>>}}, {"float", "other"},
    {<< <<2, 3>> >>, << <<1, 6>> >>, << <<1, 1, 1>> >>, << <<3, 3>> >>, << <<6>> >>})

Transpose == Each("transpose", {[perm |-> p] : p \in {<<2, 1, 3>>, <<3, 1, 2>>, <<1, 2, 3>>}}, {"quant"},
    {<< <<1, 2, 3>> >>, << <<3, 2, 2>> >>})

Slice == Each("slice", [begin : {<<0, 1>>, <<1, 0>>}, size : {<<2, 1>>, <<1, -1>>, <<-1, 2>>}], {"float"},
    {<< <<2, 3>> >>, << <<3, 4>> >>, << <<4, 2>> >>})

Step(kind, b, e, s, bm, em) == [kind |-> kind, b |-> b, e |-> e, s |-> s, bm |-> bm, em |-> em]
Steps == {Step("range", 0, 2, 1, FALSE, FALSE), Step("range", 3, -4, -2, FALSE, FALSE),
          Step("range", -2, 0, 1, FALSE, TRUE), Step("range", 0, 0, -1, TRUE, TRUE),
          Step("shrink", -1, 0, 1, FALSE, FALSE)}
Ellipsis == Step("ellipsis", 0, 0, 1, FALSE, FALSE)
NewAxis == Step("new", 0, 0, 1, FALSE, FALSE)
Specs == {<<s>> : s \in Steps} \cup {<<Ellipsis, s>> : s \in Steps} \cup {<<s, NewAxis, t>> : s, t \in Steps}
         \cup {<<NewAxis, s, Ellipsis>> : s \in Steps}
Strided == Each("strided", {[spec |-> s] : s \in Specs}, {"float"}, {<< <<3, 2>> >>, << <<2, 4>> >>})

Pad == Each("pad", [before : {<<1, 0>>, <<0, 2>>}, after : {<<0, 1>>, <<1, 0>>}], {"quant"},
    {<< <<2, 2>> >>, << <<1, 3>> >>})

Split == Each("split", {[axis |-> a, sizes |-> z] : a \in {1, -1}, z \in {<<1, 2>>, <<1, 1>>, <<2, 1, 1>>}},
    {"float"}, {<< <<2, 3>> >>, << <<3, 2>> >>, << <<2, 4>> >>})

Act == Each("act", {[lut |-> b] : b \in BOOLEAN}, Both, {<< <<2, 3>> >>, << <<3, 2>> >>, << <<5>> >>})

Prelu == Each("prelu", {None}, Both,
    {<< <<1, 2, 2, 3>>, <<3>> >>, << <<2, 3>>, <<3>> >>, << <<1, 2>>, <<2>> >>, << <<3, 4>>, <<4>> >>})

Reduce == Each("reduce", [keep : BOOLEAN, mean : BOOLEAN], Both, Images)

Resize == Each("resize", [OH : {2, 6}, OW : {3, 6}, corners : BOOLEAN, half : BOOLEAN], Both,
    {<< <<1, 3, 3, 2>> >>, << <<1, 2, 3, 1>> >>, << <<2, 3, 3, 2>> >>})

Tconv == Each("tconv", [s : {<<1, 1>>, <<2, 2>>, <<1, 2>>}, same : BOOLEAN, OH : {3, 4, 5}, OW : {3, 4, 5}], {"float", "quant"},
    {<< <<1, 2, 2, 1>>, <<2, 3, 2, 1>> >>, << <<1, 3, 3, 1>>, <<1, 3, 2, 1>> >>,
     << <<1, 2, 3, 2>>, <<1, 1, 2, 2>> >>, << <<2, 2, 2, 1>>, <<2, 3, 2, 1>> >>})

RowShapes == {<< <<2, 3>> >>, << <<3, 2>> >>, << <<1, 2, 3>> >>}
Rowwise == Each("rowwise", {None}, Both, RowShapes) \cup Each("l2norm", {None}, Both, RowShapes)
Cumsum == Each("cumsum", [axis : {-1, 1}, exclusive : BOOLEAN, reverse : BOOLEAN], {"float"},
    RowShapes \cup {<< <<3>> >>, << <<1, 3>> >>})

Fc == Each("fc", {None}, {"float", "quant"},
    {<< <<4, 3>>, <<2, 3>> >>, << <<1, 3>>, <<2, 3>> >>, << <<2, 3>>, <<2, 3>> >>, << <<2, 2, 3>>, <<2, 3>> >>})

MCNodes == OkOnly(Binary \cup Pool \cup Concat \cup Reshape \cup Transpose \cup Slice \cup Strided \cup Pad
                  \cup Split \cup Act \cup Prelu \cup Reduce \cup Resize \cup Tconv \cup Rowwise \cup Cumsum \cup Fc)
=============================================================================

---------------------------- MODULE Rk3576Kernel ----------------------------
(***************************************************************************)
(* One RK3576 partition kernel (Kernel in rocket_rk3576_net.h) after Init: *)
(* Prepare packs a handle per layer, describes the layers to the library's *)
(* planner, and allocates a row-major buffer for every layer the plan does *)
(* not leave in the part's cube layout; Eval runs the layers in order, one *)
(* call or one kick at a time, and copies the partition outputs out of the *)
(* row-major buffers.                                                      *)
(*                                                                         *)
(* The planner is external: MayPlan is what the code relies on, any plan   *)
(* that obeys it may come back.  Kinds: "conv" is a layer with a handle    *)
(* and one operand (conv, depthwise, pool, QUANTIZE); "add" has a handle   *)
(* and two operands; "concat" has no handle.  Operand 0 is the partition   *)
(* input, operand j the layer j.                                           *)
(***************************************************************************)
EXTENDS Integers, Sequences, FiniteSets

CONSTANTS
    N,              \* bound: layers
    LayerKinds,     \* the kinds of layer the partition may hold
    MaxEvals        \* bound: invokes

ASSUME BoundsAssumption == N \in Nat \ {0} /\ MaxEvals \in Nat
ASSUME LayerKindsAssumption == LayerKinds \subseteq {"conv", "add", "concat"}

VARIABLES
    layers,         \* layers_: [kind, src]
    part_out,       \* the layers whose tensor is a partition output
    phase,
    fd_open,        \* fd_ >= 0
    handles,        \* the layers whose conv or pool handle is packed
    plan,           \* plan_: [live, planned, cube_out, placed, kicks]
    bufs,           \* the layers whose buf is not empty
    i,              \* Eval's loop variable
    row, cube,      \* the layers whose row-major / cube result this Eval wrote
    ext,            \* this Eval transposed the partition input
    ops_npu, ops_host,          \* the process-wide counters
    npu0, host0,                \* history: the counters when this Eval began
    evals

graph == <<layers, part_out>>
counts == <<ops_npu, ops_host, npu0, host0, evals>>
vars == <<graph, phase, fd_open, handles, plan, bufs, i, row, cube, ext, counts>>

Indices == DOMAIN layers
Sources(n) == {layers[n].src[k] : k \in DOMAIN layers[n].src}
Consumers(n) == {m \in Indices : n \in Sources(m)}
HasHandle(n) == layers[n].kind # "concat"

NoPlan == [live |-> FALSE, planned |-> FALSE, cube_out |-> {}, placed |-> {}, kicks |-> {}]

-----------------------------------------------------------------------------
(* The description Prepare gives the planner.                              *)

has_inside_consumer(n) == Consumers(n) # {}

\* Mutant: a tensor read inside may stay a cube, whoever else reads it
escapes_never(n) == FALSE

\* A tensor read inside and outside must be materialised: the handle is hidden
escapes(n) == n \in part_out /\ has_inside_consumer(n)

Linkable == {n \in handles : ~escapes(n)}

\* Mutant: the planner is not told which tensors leave the partition
row_major_never(n) == FALSE

row_major_out(n) == n \in part_out

(* External: the planner (rocket_graph_plan_new, rocket_graph_plan_kicks). *)

\* A layer reads its operands as cubes when all of them are left as cubes
CubeIn(c, p, n) == Sources(n) \subseteq c \cup p

\* A link needs both handles in the description, and every inside consumer on
\* the cube; a placed concatenation is the shared buffer of its operands.
MayPlan(c, p) ==
    /\ \A n \in c :
          /\ n \in Linkable /\ has_inside_consumer(n)
          /\ \A m \in Consumers(n) : m \in p \/ (m \in Linkable /\ CubeIn(c, p, m))
    /\ \A n \in p :
          /\ ~HasHandle(n) /\ ~row_major_out(n) /\ has_inside_consumer(n)
          /\ Sources(n) \subseteq c
          /\ \A m \in Consumers(n) : m \in Linkable /\ CubeIn(c, p, m)

\* Layer n+1 can follow n in one kick: it reads n's cube and nothing else
Chained(c, n) ==
    /\ n \in c /\ n + 1 \in Linkable
    /\ layers[n + 1].kind = "conv" /\ Sources(n + 1) = {n}

\* The maximal runs, as <<first, last>>.  The kick's input is operand 0 of the
\* first layer, so an add that joins host operands cannot start one.
Runs(c, p) ==
    {r \in Indices \X Indices :
        /\ r[1] < r[2]
        /\ \A n \in r[1] .. (r[2] - 1) : Chained(c, n)
        /\ ~(r[1] - 1 \in Indices /\ Chained(c, r[1] - 1)) /\ ~Chained(c, r[2])
        /\ layers[r[1]].kind = "add" => CubeIn(c, p, r[1])}

-----------------------------------------------------------------------------
Init ==
    /\ layers = << >> /\ part_out = {}
    /\ phase = "init"
    /\ fd_open = FALSE /\ handles = {} /\ plan = NoPlan /\ bufs = {}
    /\ i = 0 /\ row = {} /\ cube = {} /\ ext = FALSE
    /\ ops_npu = 0 /\ ops_host = 0 /\ npu0 = 0 /\ host0 = 0
    /\ evals = 0

\* Kernel::Init appends one lowered layer; its operands come by producer
InitLayer ==
    /\ phase = "init" /\ Len(layers) < N
    /\ \E kind \in LayerKinds, a \in 0 .. Len(layers), b \in 0 .. Len(layers) :
         /\ IF kind = "conv" THEN b = a ELSE a <= b
         /\ layers' = Append(layers,
               [kind |-> kind, src |-> IF kind = "conv" THEN <<a>> ELSE <<a, b>>])
    /\ UNCHANGED <<part_out, phase, fd_open, handles, plan, bufs, i, row, cube, ext, counts>>

InitDone ==
    /\ phase = "init" /\ layers # << >>
    /\ \E outs \in SUBSET Indices :
         /\ \A n \in Indices : has_inside_consumer(n) \/ n \in outs
         /\ part_out' = outs
    /\ phase' = "loaded"
    /\ UNCHANGED <<layers, fd_open, handles, plan, bufs, i, row, cube, ext, counts>>

\* Prepare without a device fails; a plan made before is kept as it is
PrepareBegin ==
    /\ phase \in {"loaded", "failed", "ready"}
    /\ \E found \in BOOLEAN :
         /\ fd_open' = (fd_open \/ found)
         /\ phase' = IF ~fd_open' THEN "failed" ELSE IF plan.planned THEN "ready" ELSE "pack"
    /\ i' = 1
    /\ UNCHANGED <<graph, handles, plan, bufs, row, cube, ext, counts>>

\* One layer's pack, which the library may refuse
PackLayer ==
    /\ phase = "pack" /\ i \in Indices
    /\ \/ /\ handles' = IF HasHandle(i) THEN handles \cup {i} ELSE handles
          /\ i' = i + 1 /\ phase' = phase
       \/ /\ HasHandle(i)
          /\ handles' = handles \ {i} /\ i' = i /\ phase' = "failed"
    /\ UNCHANGED <<graph, fd_open, plan, bufs, row, cube, ext, counts>>

\* The plan is refused, or made; planned_ is set, the buffers are allocated, and
\* a partition output without one is refused
MakePlan ==
    /\ phase = "pack" /\ i \notin Indices
    /\ \/ phase' = "failed" /\ UNCHANGED <<plan, bufs>>
       \/ \E c \in SUBSET Linkable, p \in SUBSET {n \in Indices : ~HasHandle(n)} :
            /\ MayPlan(c, p)
            /\ \E kicks \in SUBSET Runs(c, p) :
                 plan' = [live |-> TRUE, planned |-> TRUE,
                          cube_out |-> c, placed |-> p, kicks |-> kicks]
            /\ bufs' = Indices \ (c \cup p)
            /\ phase' = IF part_out \subseteq bufs' THEN "ready" ELSE "failed"
    /\ UNCHANGED <<graph, fd_open, handles, i, row, cube, ext, counts>>

-----------------------------------------------------------------------------
(* Eval.                                                                   *)

\* The partition's inputs are transposed; every result of before is stale
EvalBegin ==
    /\ phase = "ready" /\ evals < MaxEvals
    /\ phase' = "eval" /\ i' = 1
    /\ row' = {} /\ cube' = {} /\ ext' = TRUE
    /\ npu0' = ops_npu /\ host0' = ops_host
    /\ evals' = evals + 1
    /\ UNCHANGED <<graph, fd_open, handles, plan, bufs, ops_npu, ops_host>>

KickAt(n) == {r \in plan.kicks : r[1] = n}
CubeInNow(n) == CubeIn(plan.cube_out, plan.placed, n)

\* Mutant: every result is read back in row-major order
WroteRowMajor(ns) == row' = row \cup ns /\ cube' = cube

\* Where a layer's result goes
Wrote(ns) ==
    /\ row' = row \cup (ns \cap bufs)
    /\ cube' = cube \cup (ns \ bufs)

\* Mutant: a kick counts as one
KickSubmits(r) == 1

\* What a kick adds to the counter
KickLayers(r) == r[2] - r[1] + 1

\* One submit covers the run; the counter takes every layer of it
EvalKick ==
    /\ phase = "eval" /\ i \in Indices
    /\ \E r \in KickAt(i) :
         /\ Wrote(r[1] .. r[2])
         /\ ops_npu' = ops_npu + KickLayers(r)
         /\ i' = r[2] + 1
    /\ UNCHANGED <<graph, phase, fd_open, handles, plan, bufs, ext, ops_host,
                   npu0, host0, evals>>

\* A placed concatenation runs nothing and counts nothing
EvalPlaced ==
    /\ phase = "eval" /\ i \in Indices /\ KickAt(i) = {}
    /\ i \in plan.placed
    /\ i' = i + 1
    /\ UNCHANGED <<graph, phase, fd_open, handles, plan, bufs, row, cube, ext,
                   ops_npu, ops_host, npu0, host0, evals>>

\* run_one, and the count by kind
EvalLayer ==
    /\ phase = "eval" /\ i \in Indices /\ KickAt(i) = {}
    /\ i \notin plan.placed
    /\ Wrote({i})
    /\ IF HasHandle(i)
       THEN ops_npu' = ops_npu + 1 /\ ops_host' = ops_host
       ELSE ops_host' = ops_host + 1 /\ ops_npu' = ops_npu
    /\ i' = i + 1
    /\ UNCHANGED <<graph, phase, fd_open, handles, plan, bufs, ext, npu0, host0,
                   evals>>

\* A kick or a layer returns an error: Eval stops there, uncounted
EvalError ==
    /\ phase = "eval" /\ i \in Indices /\ i \notin plan.placed
    /\ phase' = "ready"
    /\ UNCHANGED <<graph, fd_open, handles, plan, bufs, i, row, cube, ext, counts>>

\* The partition's outputs are transposed back from the row-major buffers
EvalOutputs ==
    /\ phase = "eval" /\ i \notin Indices
    /\ phase' = "ready"
    /\ UNCHANGED <<graph, fd_open, handles, plan, bufs, i, row, cube, ext, counts>>

-----------------------------------------------------------------------------
(* ~Kernel: the plan borrows the handles, so it goes first.                *)

\* Mutant: the plan is left for later
DtorPlanLater ==
    /\ phase \in {"loaded", "failed", "ready"}
    /\ phase' = "dtor"
    /\ UNCHANGED <<graph, fd_open, handles, plan, bufs, i, row, cube, ext, counts>>

DtorPlan ==
    /\ phase \in {"loaded", "failed", "ready"}
    /\ phase' = "dtor"
    /\ plan' = [plan EXCEPT !.live = FALSE]
    /\ UNCHANGED <<graph, fd_open, handles, bufs, i, row, cube, ext, counts>>

DtorHandles ==
    /\ phase = "dtor" /\ handles # {}
    /\ handles' = {}
    /\ UNCHANGED <<graph, phase, fd_open, plan, bufs, i, row, cube, ext, counts>>

DtorClose ==
    /\ phase = "dtor" /\ handles = {}
    /\ fd_open' = FALSE /\ phase' = "gone"
    /\ UNCHANGED <<graph, handles, plan, bufs, i, row, cube, ext, counts>>

Prepare == InitLayer \/ InitDone \/ PrepareBegin \/ PackLayer \/ MakePlan
Eval == EvalBegin \/ EvalKick \/ EvalPlaced \/ EvalLayer \/ EvalError \/ EvalOutputs
Dtor == DtorPlan \/ DtorHandles \/ DtorClose

Next == Prepare \/ Eval \/ Dtor

Spec == Init /\ [][Next]_vars

-----------------------------------------------------------------------------
\* The state's shape.
TypeOK ==
    /\ Len(layers) <= N /\ part_out \subseteq Indices
    /\ phase \in {"init", "loaded", "failed", "pack", "ready", "eval", "dtor", "gone"}
    /\ handles \subseteq Indices /\ bufs \subseteq Indices
    /\ plan.cube_out \subseteq Indices /\ plan.placed \subseteq Indices
    /\ i \in 0 .. (Len(layers) + 1)
    /\ row \subseteq bufs /\ cube \cap bufs = {}
    /\ {ops_npu, ops_host, npu0, host0} \subseteq Nat

\* Where operand s of a layer that reads cubes, or does not, must be found
Available(s, as_cube) ==
    CASE s = 0 -> ext /\ ~as_cube
      [] as_cube -> IF s \in plan.placed THEN Sources(s) \subseteq cube ELSE s \in cube
      [] OTHER -> s \in row

\* Every operand of the next layer is where run_one looks for it, computed by
\* this inference: a plan never leaves a skip source in a layout its late reader
\* cannot take, and a failed inference's leftovers are never read.
OperandsFresh ==
    phase = "eval" /\ i \in Indices /\ i \notin plan.placed =>
        \A s \in Sources(i) : Available(s, CubeInNow(i))

\* When Eval copies the partition's outputs out, each one has a row-major buffer
\* that this inference wrote.
OutputsWritten == phase = "eval" /\ i \notin Indices => part_out \subseteq row

\* The comment on Prepare's last check: "this is the assertion that they are, and
\* not a path a model reaches".  A plan in hand always covers the outputs.
RefusalUnreached == plan.planned => part_out \subseteq bufs

\* The plan never outlives the handles it borrows, nor they the descriptor.
PlanBorrows ==
    /\ plan.live => \A n \in Indices : HasHandle(n) => n \in handles
    /\ handles # {} => fd_open

\* The layers this Eval's loop is past, by the counter that should hold them
PastNpu == {n \in Indices : n < i /\ HasHandle(n)}
PastHost == {n \in Indices : n < i /\ ~HasHandle(n) /\ n \notin plan.placed}

\* "The counts are per planned layer" (API.md): at every turn of Eval's loop each layer
\* behind it is counted exactly once, on the side it ran, whether it ran alone or in a
\* kick, whose layers the loop steps over.  A placed concatenation is in neither count,
\* though API.md has ops_host count the rest of the layers.
LayersCounted ==
    phase = "eval" =>
        /\ ops_npu = npu0 + Cardinality(PastNpu)
        /\ ops_host = host0 + Cardinality(PastHost)
=============================================================================

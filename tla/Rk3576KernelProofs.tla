------------------------- MODULE Rk3576KernelProofs -------------------------
(***************************************************************************)
(* Theorems about Rk3576Kernel for every operand graph, every set of       *)
(* partition outputs and every plan the external planner may answer with.  *)
(* PlanInv is what a plan in hand obeys, RanInv the loop invariant of      *)
(* Eval: every layer before the loop variable left its result where the    *)
(* plan says, in this inference.                                           *)
(***************************************************************************)
EXTENDS Rk3576Kernel, TLAPS, SequenceTheorems, FiniteSetTheorems

Layer == [kind : {"conv", "add", "concat"}, src : Seq(Nat)]

Plan == [live : BOOLEAN, planned : BOOLEAN, cube_out : SUBSET Nat, placed : SUBSET Nat,
         kicks : SUBSET (Nat \X Nat)]

\* Operands come by producer: a layer reads the input or earlier layers
GraphInv ==
    /\ layers \in Seq(Layer)
    /\ \A n \in Indices : Sources(n) \subseteq 0 .. (n - 1)

\* A plan lives from the Prepare that made it to the destructor
PhaseInv ==
    /\ plan \in Plan /\ fd_open \in BOOLEAN
    /\ plan.live => plan.planned /\ phase \in {"ready", "eval"}
    /\ phase \in {"ready", "eval"} => plan.planned
    /\ phase \in {"init", "loaded", "failed", "pack"} => ~plan.planned
    /\ ~plan.planned => row = {} /\ cube = {} /\ bufs = {}
    /\ phase \in {"pack", "ready", "eval"} => fd_open
    /\ phase = "init" => handles = {} /\ part_out = {} /\ i = 0
    /\ phase \in {"pack", "eval"} => i >= 1

\* The handles: all packed before a plan borrows them, none after the destructor
HandlesInv ==
    /\ phase = "pack" => \A n \in Indices : n < i /\ HasHandle(n) => n \in handles
    /\ phase \in {"ready", "eval"} => \A n \in Indices : HasHandle(n) => n \in handles
    /\ phase = "gone" => handles = {}
    /\ handles # {} => fd_open
    /\ \A n \in handles : HasHandle(n)

\* What the planner promised of the plan in hand
PlanInv ==
    phase \in {"ready", "eval"} =>
        /\ MayPlan(plan.cube_out, plan.placed)
        /\ plan.kicks \subseteq Runs(plan.cube_out, plan.placed)
        /\ bufs = Indices \ (plan.cube_out \cup plan.placed)

\* Eval's loop: the layers before i have left their results
RanInv ==
    phase = "eval" =>
        /\ ext
        /\ \A n \in Indices : n < i =>
              /\ n \in bufs => n \in row
              /\ n \in plan.cube_out => n \in cube

IInv == /\ TypeOK /\ GraphInv /\ PhaseInv /\ HandlesInv /\ PlanInv /\ RanInv
        /\ RefusalUnreached /\ LayersCounted

-----------------------------------------------------------------------------
(* The operand graph.                                                      *)

LEMMA InitInv == Init => IInv
<1> SUFFICES ASSUME Init PROVE IInv
  OBVIOUS
<1> USE BoundsAssumption DEF Init, NoPlan
<1>1. layers \in Seq(Layer) /\ Len(layers) = 0 /\ Indices = {}
  BY DEF Indices
<1>2. TypeOK
  BY <1>1 DEF TypeOK
<1>3. GraphInv /\ HandlesInv /\ PlanInv /\ RanInv
  BY <1>1 DEF GraphInv, HandlesInv, PlanInv, RanInv
<1>5. PhaseInv
  BY DEF PhaseInv, Plan
<1>4. RefusalUnreached /\ LayersCounted
  BY DEF RefusalUnreached, LayersCounted
<1> QED BY <1>2, <1>3, <1>4, <1>5 DEF IInv

\* Appending a layer leaves the earlier ones, and the new one reads those.
LEMMA AppendLayer ==
    ASSUME GraphInv, Len(layers) < N, InitLayer
    PROVE  /\ GraphInv' /\ Len(layers') = Len(layers) + 1
           /\ Indices \subseteq Indices'
           /\ Len(layers') <= N
<1> USE BoundsAssumption DEF GraphInv
<1>1. PICK kind \in LayerKinds, a \in 0 .. Len(layers), b \in 0 .. Len(layers) :
         layers' = Append(layers,
             [kind |-> kind, src |-> IF kind = "conv" THEN <<a>> ELSE <<a, b>>])
  BY DEF InitLayer
<1> DEFINE new == [kind |-> kind, src |-> IF kind = "conv" THEN <<a>> ELSE <<a, b>>]
<1>2. kind \in {"conv", "add", "concat"} /\ a \in Nat /\ b \in Nat /\ Len(layers) \in Nat
  BY LayerKindsAssumption
<1>3. new \in Layer
  <2>1. <<a>> \in Seq(Nat) /\ <<a, b>> \in Seq(Nat)
    BY <1>2
  <2> QED BY <1>2, <2>1 DEF Layer
<1>4. \A k \in DOMAIN new.src : new.src[k] \in 0 .. Len(layers)
  <2>1. CASE kind = "conv"
    BY <2>1
  <2>2. CASE kind # "conv"
    BY <2>2
  <2> QED BY <2>1, <2>2
<1> HIDE DEF new
<1>5. layers' = Append(layers, new)
  BY <1>1 DEF new
<1>6. /\ layers' \in Seq(Layer) /\ Len(layers') = Len(layers) + 1
      /\ layers'[Len(layers) + 1] = new
      /\ \A n \in 1 .. Len(layers) : layers'[n] = layers[n]
  BY <1>3, <1>5
<1>7. Indices = 1 .. Len(layers) /\ Indices' = 1 .. (Len(layers) + 1)
  BY <1>6 DEF Indices
<1>8. ASSUME NEW n \in Indices' PROVE Sources(n)' \subseteq 0 .. (n - 1)
  <2>1. CASE n \in Indices
    <3>1. Sources(n)' = Sources(n)
      BY <1>6, <1>7, <2>1 DEF Sources
    <3> QED BY <2>1, <3>1
  <2>2. CASE n = Len(layers) + 1
    BY <1>2, <1>4, <1>6, <2>2 DEF Sources
  <2> QED BY <1>2, <1>7, <2>1, <2>2
<1> QED BY <1>2, <1>6, <1>7, <1>8

\* Every other step leaves the graph as it is, and so every operator on it.
LEMMA SameGraph ==
    ASSUME UNCHANGED layers
    PROVE  /\ Indices' = Indices
           /\ \A n : Sources(n)' = Sources(n) /\ Consumers(n)' = Consumers(n)
                     /\ (HasHandle(n)' <=> HasHandle(n))
BY DEF Indices, Sources, Consumers, HasHandle

LEMMA GraphSteps == [Next]_vars => InitLayer \/ UNCHANGED layers
BY DEF Next, Prepare, Eval, Dtor, InitDone, PrepareBegin, PackLayer, MakePlan, EvalBegin,
       EvalKick, EvalPlaced, EvalLayer, EvalError, EvalOutputs, DtorPlan, DtorHandles,
       DtorClose, vars, graph

LEMMA StepGraph == ASSUME IInv, [Next]_vars PROVE GraphInv'
<1>1. CASE InitLayer
  BY <1>1, AppendLayer DEF IInv, InitLayer
<1>2. CASE UNCHANGED layers
  BY <1>2, SameGraph DEF IInv, GraphInv
<1> QED BY <1>1, <1>2, GraphSteps

LEMMA IndicesAre == ASSUME GraphInv PROVE Indices = 1 .. Len(layers) /\ Len(layers) \in Nat
BY DEF GraphInv, Indices

-----------------------------------------------------------------------------
(* Prepare.                                                                *)

\* A plan never hides a partition output: what escapes is not linkable, and a
\* placed concatenation may not be one.
LEMMA PlanCoversOutputs ==
    ASSUME NEW c, NEW p, MayPlan(c, p), part_out \subseteq Indices
    PROVE  part_out \subseteq Indices \ (c \cup p)
BY DEF MayPlan, Linkable, escapes, row_major_out

\* Runs are runs of layers.
LEMMA RunsInside ==
    ASSUME GraphInv, NEW c, NEW p, NEW r \in Runs(c, p)
    PROVE  /\ r[1] \in Indices /\ r[2] \in Indices /\ r[1] < r[2]
           /\ r[1] .. r[2] \subseteq Indices
           /\ Cardinality(r[1] .. r[2]) = KickLayers(r) /\ KickLayers(r) \in Nat
<1>1. r[1] \in Indices /\ r[2] \in Indices /\ r[1] < r[2]
  BY DEF Runs
<1>2. r[1] \in Nat /\ r[2] \in Nat /\ r[1] .. r[2] \subseteq Indices
  BY <1>1, IndicesAre
<1>3. Cardinality(r[1] .. r[2]) = r[2] - r[1] + 1
  <2> DEFINE a == r[1]
             b == r[2]
  <2>1. a \in Int /\ b \in Int /\ a <= b
    BY <1>1, <1>2
  <2> HIDE DEF a, b
  <2>2. Cardinality(a .. b) = b - a + 1
    BY <2>1, FS_Interval
  <2> QED BY <2>2 DEF a, b
<1> QED BY <1>1, <1>2, <1>3 DEF KickLayers

\* Whatever Prepare answers, the outputs are covered: its last refusal is not taken.
LEMMA MakePlanIs ==
    ASSUME IInv, MakePlan
    PROVE  /\ UNCHANGED <<graph, fd_open, handles, i, row, cube, ext, counts>>
           /\ phase = "pack" /\ i \notin Indices
           /\ \/ phase' = "failed" /\ UNCHANGED <<plan, bufs>>
              \/ /\ phase' = "ready" /\ plan' \in Plan /\ plan'.live /\ plan'.planned
                 /\ MayPlan(plan'.cube_out, plan'.placed)
                 /\ plan'.kicks \subseteq Runs(plan'.cube_out, plan'.placed)
                 /\ plan'.cube_out \subseteq Indices /\ plan'.placed \subseteq Indices
                 /\ bufs' = Indices \ (plan'.cube_out \cup plan'.placed)
                 /\ part_out \subseteq bufs'
<1>1. CASE phase' = "failed" /\ UNCHANGED <<plan, bufs>>
  BY <1>1 DEF MakePlan
<1>2. ASSUME NEW c \in SUBSET Linkable, NEW p \in SUBSET {n \in Indices : ~HasHandle(n)},
             MayPlan(c, p), NEW kicks \in SUBSET Runs(c, p),
             plan' = [live |-> TRUE, planned |-> TRUE, cube_out |-> c, placed |-> p,
                      kicks |-> kicks],
             bufs' = Indices \ (c \cup p),
             phase' = IF part_out \subseteq bufs' THEN "ready" ELSE "failed"
      PROVE  /\ phase' = "ready" /\ plan' \in Plan /\ plan'.live /\ plan'.planned
             /\ MayPlan(plan'.cube_out, plan'.placed)
             /\ plan'.kicks \subseteq Runs(plan'.cube_out, plan'.placed)
             /\ plan'.cube_out \subseteq Indices /\ plan'.placed \subseteq Indices
             /\ bufs' = Indices \ (plan'.cube_out \cup plan'.placed)
             /\ part_out \subseteq bufs'
  <2>1. part_out \subseteq bufs'
    BY <1>2, PlanCoversOutputs DEF IInv, TypeOK
  <2>2. Indices \subseteq Nat
    BY IndicesAre DEF IInv
  <2>3. c \subseteq Indices /\ p \subseteq Indices
    BY DEF Linkable, IInv, TypeOK
  <2>4. kicks \subseteq Nat \X Nat
    BY <2>2 DEF Runs
  <2>5. plan' \in Plan
    BY <1>2, <2>2, <2>3, <2>4 DEF Plan
  <2> QED BY <1>2, <2>1, <2>3, <2>5
<1> QED BY <1>1, <1>2 DEF MakePlan

\* A Prepare opens the device at most once and packs only without a plan.
LEMMA PrepareBeginIs ==
    ASSUME IInv, PrepareBegin
    PROVE  /\ UNCHANGED <<graph, handles, plan, bufs, row, cube, ext, counts>> /\ i' = 1
           /\ fd_open' \in BOOLEAN /\ (fd_open => fd_open')
           /\ \/ phase' = "failed" /\ ~plan.planned
              \/ phase' = "ready" /\ phase = "ready" /\ plan.planned /\ fd_open'
              \/ phase' = "pack" /\ ~plan.planned /\ fd_open'
<1>1. PICK found \in BOOLEAN :
         /\ fd_open' = (fd_open \/ found)
         /\ phase' = IF ~fd_open' THEN "failed" ELSE IF plan.planned THEN "ready" ELSE "pack"
  BY DEF PrepareBegin
<1>2. fd_open' \in BOOLEAN
  BY <1>1
<1>3. fd_open => fd_open'
  BY <1>1
<1>4. plan.planned => phase = "ready" /\ fd_open
  BY DEF IInv, PhaseInv, PrepareBegin
<1>5. UNCHANGED <<graph, handles, plan, bufs, row, cube, ext, counts>> /\ i' = 1
  BY DEF PrepareBegin
<1> QED BY <1>1, <1>2, <1>3, <1>4, <1>5

LEMMA StepPhase == ASSUME IInv, [Next]_vars PROVE PhaseInv'
<1> USE DEF IInv, PhaseInv, graph, counts
<1>0. i \in Nat
  BY IndicesAre DEF TypeOK
<1>1. CASE InitLayer
  BY <1>1 DEF InitLayer
<1>2. CASE InitDone
  BY <1>2 DEF InitDone
<1>3. CASE PrepareBegin
  BY <1>3, PrepareBeginIs
<1>4. CASE PackLayer
  BY <1>0, <1>4 DEF PackLayer
<1>5. CASE MakePlan
  BY <1>5, MakePlanIs
<1>6. CASE EvalBegin \/ EvalPlaced \/ EvalError \/ EvalOutputs
  BY <1>0, <1>6 DEF EvalBegin, EvalPlaced, EvalError, EvalOutputs
<1>7. CASE EvalLayer
  BY <1>0, <1>7 DEF EvalLayer
<1>8. CASE EvalKick
  <2>1. PICK r \in KickAt(i) : i' = r[2] + 1
    BY <1>8 DEF EvalKick
  <2>2. r \in Runs(plan.cube_out, plan.placed)
    BY <1>8 DEF EvalKick, KickAt, PlanInv
  <2>3. r[2] \in Nat
    BY <2>2, RunsInside, IndicesAre
  <2> QED BY <1>8, <2>1, <2>3 DEF EvalKick
<1>9. CASE DtorPlan
  <2>1. plan' = [plan EXCEPT !.live = FALSE] /\ phase' = "dtor"
        /\ UNCHANGED <<graph, fd_open, handles, bufs, i, row, cube, ext, counts>>
    BY <1>9 DEF DtorPlan
  <2>2. plan' \in Plan /\ ~plan'.live /\ plan'.planned = plan.planned
    BY <2>1 DEF Plan
  <2> QED BY <2>1, <2>2
<1>10. CASE DtorHandles \/ DtorClose
  BY <1>10 DEF DtorHandles, DtorClose
<1>11. CASE UNCHANGED vars
  BY <1>11 DEF vars
<1> QED BY <1>1, <1>2, <1>3, <1>4, <1>5, <1>6, <1>7, <1>8, <1>9, <1>10, <1>11
        DEF Next, Prepare, Eval, Dtor

\* A pack that fails leaves its layer without a handle, and the node failed; the
\* destructor frees the plan before them.
LEMMA StepHandles == ASSUME IInv, [Next]_vars PROVE HandlesInv'
<1> USE DEF IInv, HandlesInv, graph
<1>0. Indices \subseteq Nat /\ i \in Nat
  BY IndicesAre DEF TypeOK
<1>1. CASE InitLayer
  BY <1>1 DEF InitLayer, PhaseInv
<1>2. ASSUME UNCHANGED <<layers, handles>>, phase' \in {"ready", "eval"},
             phase \in {"ready", "eval"}, fd_open' = fd_open
      PROVE  HandlesInv'
  BY <1>2, SameGraph
<1>3. ASSUME UNCHANGED <<layers, handles>>, phase' \in {"loaded", "failed", "dtor", "init"},
             fd_open => fd_open'
      PROVE  HandlesInv'
  BY <1>3, SameGraph
<1>4. CASE PrepareBegin
  <2>1. UNCHANGED <<layers, handles>> /\ i' = 1 /\ (fd_open => fd_open')
        /\ phase' \in {"failed", "ready", "pack"}
    BY <1>4, PrepareBeginIs
  <2>2. phase' = "ready" => phase = "ready"
    BY <1>4, PrepareBeginIs
  <2>3. \A n \in Indices : ~(n < 1)
    BY IndicesAre
  <2> QED BY <2>1, <2>2, <2>3, SameGraph
<1>5. CASE PackLayer
  <2>1. phase = "pack" /\ i \in Indices /\ UNCHANGED <<layers, fd_open>> /\ fd_open
    BY <1>5 DEF PackLayer, PhaseInv
  <2>2. CASE phase' = "failed" /\ handles' \subseteq handles
    BY <2>1, <2>2, SameGraph
  <2>3. CASE handles' = (IF HasHandle(i) THEN handles \cup {i} ELSE handles) /\ i' = i + 1
             /\ phase' = phase
    <3>1. ASSUME NEW n \in Indices, n < i + 1, HasHandle(n) PROVE n \in handles'
      BY <1>0, <2>1, <2>3, <3>1
    <3>2. \A n \in handles' : HasHandle(n)
      BY <2>3
    <3> QED BY <2>1, <2>3, <3>1, <3>2, SameGraph
  <2> QED BY <1>5, <2>2, <2>3 DEF PackLayer
<1>6. CASE MakePlan
  <2>1. \A n \in Indices : n < i
    BY <1>6, MakePlanIs, IndicesAre DEF PhaseInv, TypeOK
  <2> QED BY <1>6, <2>1, MakePlanIs, SameGraph
<1>7. CASE DtorHandles \/ DtorClose
  BY <1>7, SameGraph DEF DtorHandles, DtorClose
<1>8. CASE EvalBegin \/ EvalKick \/ EvalPlaced \/ EvalLayer \/ EvalError \/ EvalOutputs
  BY <1>2, <1>8 DEF EvalBegin, EvalKick, EvalPlaced, EvalLayer, EvalError, EvalOutputs
<1>9. CASE InitDone \/ DtorPlan
  BY <1>3, <1>9 DEF InitDone, DtorPlan
<1>10. CASE UNCHANGED vars
  BY <1>10, SameGraph DEF vars
<1> QED BY <1>1, <1>4, <1>5, <1>6, <1>7, <1>8, <1>9, <1>10 DEF Next, Prepare, Eval, Dtor

-----------------------------------------------------------------------------
(* Eval.                                                                   *)

\* The plan in hand is the one that was made, until it is freed.
LEMMA StepPlan == ASSUME IInv, [Next]_vars PROVE PlanInv'
<1> USE DEF IInv, graph, counts
<1>1. ASSUME UNCHANGED <<layers, part_out, handles, plan, bufs>>,
             phase' \in {"ready", "eval"} => phase \in {"ready", "eval"}
      PROVE  PlanInv'
  <2>1. ASSUME NEW c, NEW p
        PROVE  (MayPlan(c, p)' <=> MayPlan(c, p)) /\ Runs(c, p)' = Runs(c, p)
    BY <1>1, SameGraph DEF MayPlan, Runs, Linkable, escapes, has_inside_consumer, CubeIn,
                           row_major_out, Chained
  <2> SUFFICES ASSUME phase' \in {"ready", "eval"} PROVE PlanInv'
    BY DEF PlanInv
  <2>2. phase \in {"ready", "eval"} /\ Indices' = Indices
    BY <1>1, SameGraph
  <2>3. plan'.cube_out = plan.cube_out /\ plan'.placed = plan.placed
        /\ plan'.kicks = plan.kicks /\ bufs' = bufs
    BY <1>1
  <2>4. MayPlan(plan.cube_out, plan.placed)' /\ Runs(plan.cube_out, plan.placed)'
            = Runs(plan.cube_out, plan.placed)
    BY <2>1, <2>2, <2>3, <1>1 DEF PlanInv
  <2> QED BY <2>2, <2>3, <2>4 DEF PlanInv
<1>2. ASSUME phase' \notin {"ready", "eval"} PROVE PlanInv'
  BY <1>2 DEF PlanInv
<1>3. CASE InitLayer \/ InitDone \/ PackLayer \/ DtorPlan \/ DtorHandles \/ DtorClose
  BY <1>2, <1>3 DEF InitLayer, InitDone, PackLayer, DtorPlan, DtorHandles, DtorClose
<1>4. CASE PrepareBegin
  BY <1>1, <1>4, PrepareBeginIs
<1>5. CASE MakePlan
  <2>1. CASE phase' = "failed"
    BY <1>2, <2>1
  <2>2. CASE phase' # "failed"
    <3> DEFINE c == plan'.cube_out
               p == plan'.placed
    <3>1. /\ UNCHANGED <<layers, part_out, handles>> /\ MayPlan(c, p)
          /\ plan'.kicks \subseteq Runs(c, p) /\ bufs' = Indices \ (c \cup p)
      BY <1>5, <2>2, MakePlanIs
    <3>2. ASSUME NEW d, NEW q
          PROVE  (MayPlan(d, q)' <=> MayPlan(d, q)) /\ Runs(d, q)' = Runs(d, q)
      BY <3>1, SameGraph DEF MayPlan, Runs, Linkable, escapes, has_inside_consumer, CubeIn,
                             row_major_out, Chained
    <3> HIDE DEF c, p
    <3>3. MayPlan(c, p) /\ plan'.kicks \subseteq Runs(c, p) /\ Indices' = Indices
      BY <3>1, SameGraph
    <3>4. MayPlan(plan.cube_out, plan.placed)' <=> MayPlan(c, p)
      BY <3>1, SameGraph DEF c, p, MayPlan, Linkable, escapes, has_inside_consumer, CubeIn,
                             row_major_out
    <3>5. Runs(plan.cube_out, plan.placed)' = Runs(c, p)
      BY <3>1, SameGraph DEF c, p, Runs, Chained, Linkable, escapes, has_inside_consumer, CubeIn
    <3> QED BY <3>1, <3>3, <3>4, <3>5 DEF PlanInv, c, p
  <2> QED BY <2>1, <2>2
<1>6. CASE EvalBegin \/ EvalKick \/ EvalPlaced \/ EvalLayer \/ EvalError \/ EvalOutputs
  BY <1>1, <1>6 DEF EvalBegin, EvalKick, EvalPlaced, EvalLayer, EvalError, EvalOutputs
<1>7. CASE UNCHANGED vars
  BY <1>1, <1>7 DEF vars
<1> QED BY <1>3, <1>4, <1>5, <1>6, <1>7 DEF Next, Prepare, Eval, Dtor

\* The kick taken at i is a run of layers that starts there.
LEMMA KickInside ==
    ASSUME IInv, phase = "eval", NEW r \in KickAt(i)
    PROVE  /\ r[1] = i /\ r[2] \in Indices /\ i < r[2]
           /\ i .. r[2] \subseteq Indices
           /\ Cardinality(r[1] .. r[2]) = KickLayers(r) /\ KickLayers(r) \in Nat
<1>1. r \in Runs(plan.cube_out, plan.placed) /\ r[1] = i
  BY DEF KickAt, IInv, PlanInv
<1> QED BY <1>1, RunsInside DEF IInv

LEMMA StepTyped == ASSUME IInv, [Next]_vars PROVE TypeOK'
<1> USE DEF IInv, TypeOK, graph, counts
<1>0. Indices = 1 .. Len(layers) /\ Len(layers) \in Nat
  BY IndicesAre
<1>1. CASE InitLayer
  <2>1. /\ Len(layers') = Len(layers) + 1 /\ Len(layers') <= N /\ Indices \subseteq Indices'
        /\ UNCHANGED <<part_out, phase, handles, plan, bufs, i, row, cube, ops_npu, ops_host,
                       npu0, host0>>
    BY <1>1, AppendLayer DEF InitLayer
  <2>2. i \in 0 .. (Len(layers') + 1)
    BY <1>0, <2>1
  <2> QED BY <2>1, <2>2
<1>2. CASE InitDone
  <2>1. \E outs \in SUBSET Indices : part_out' = outs
    BY <1>2 DEF InitDone
  <2> QED BY <1>2, <2>1, SameGraph DEF InitDone
<1>3. CASE PrepareBegin
  <2>1. i' \in 0 .. (Len(layers) + 1) /\ phase' \in {"failed", "ready", "pack"}
    BY <1>0, <1>3, PrepareBeginIs
  <2>2. UNCHANGED <<layers, part_out, handles, plan, bufs, row, cube, ops_npu, ops_host,
                    npu0, host0>>
    BY <1>3, PrepareBeginIs
  <2> QED BY <2>1, <2>2, SameGraph
<1>4. CASE PackLayer
  <2>1. i' \in 0 .. (Len(layers) + 1) /\ phase' \in {"pack", "failed"}
    BY <1>0, <1>4 DEF PackLayer
  <2>2. handles' \subseteq Indices
    BY <1>4 DEF PackLayer
  <2>3. UNCHANGED <<layers, part_out, plan, bufs, row, cube, ops_npu, ops_host, npu0,
                    host0>>
    BY <1>4 DEF PackLayer
  <2> QED BY <2>1, <2>2, <2>3, SameGraph
<1>5. CASE MakePlan
  <2>1. CASE phase' = "failed"
    BY <1>5, <2>1, MakePlanIs, SameGraph
  <2>2. CASE phase' # "failed"
    <3>1. row = {} /\ cube = {}
      BY <1>5 DEF MakePlan, PhaseInv
    <3> QED BY <1>5, <2>2, <3>1, MakePlanIs, SameGraph
  <2> QED BY <2>1, <2>2
<1>6. CASE EvalBegin
  BY <1>0, <1>6, SameGraph DEF EvalBegin
<1>7. CASE EvalKick
  <2>1. PICK r \in KickAt(i) : /\ Wrote(r[1] .. r[2]) /\ i' = r[2] + 1
                               /\ ops_npu' = ops_npu + KickLayers(r)
    BY <1>7 DEF EvalKick
  <2>2. r[2] \in Indices /\ KickLayers(r) \in Nat
    BY <1>7, KickInside DEF EvalKick
  <2>3. row' \subseteq bufs /\ cube' \cap bufs = {}
    BY <2>1 DEF Wrote
  <2>4. i' \in 0 .. (Len(layers) + 1)
    BY <1>0, <2>1, <2>2
  <2>5. ops_npu \in Nat
    OBVIOUS
  <2>6. ops_npu' \in Nat
    BY <2>1, <2>2, <2>5
  <2> QED BY <1>7, <2>3, <2>4, <2>6, SameGraph DEF EvalKick
<1>8. CASE EvalPlaced
  BY <1>0, <1>8, SameGraph DEF EvalPlaced
<1>9. CASE EvalLayer
  <2>1. row' \subseteq bufs /\ cube' \cap bufs = {}
    BY <1>9 DEF EvalLayer, Wrote
  <2>2. i' \in 0 .. (Len(layers) + 1)
    BY <1>0, <1>9 DEF EvalLayer
  <2>3. {ops_npu', ops_host', npu0', host0'} \subseteq Nat
    BY <1>9 DEF EvalLayer
  <2> QED BY <1>9, <2>1, <2>2, <2>3, SameGraph DEF EvalLayer
<1>10. CASE EvalError \/ EvalOutputs
  BY <1>10, SameGraph DEF EvalError, EvalOutputs
<1>11. CASE DtorPlan
  <2>1. plan'.cube_out = plan.cube_out /\ plan'.placed = plan.placed
    BY <1>11 DEF DtorPlan, PhaseInv, Plan
  <2> QED BY <1>11, <2>1, SameGraph DEF DtorPlan
<1>12. CASE DtorHandles \/ DtorClose
  BY <1>12, SameGraph DEF DtorHandles, DtorClose
<1>13. CASE UNCHANGED vars
  BY <1>13, SameGraph DEF vars
<1> HIDE DEF TypeOK
<1> QED BY <1>1, <1>2, <1>3, <1>4, <1>5, <1>6, <1>7, <1>8, <1>9, <1>10, <1>11, <1>12, <1>13
        DEF Next, Prepare, Eval, Dtor

\* Each turn of Eval's loop adds the results of the layers it goes past, a placed
\* concatenation having none of its own.
LEMMA StepRan == ASSUME IInv, [Next]_vars PROVE RanInv'
<1> USE DEF IInv, graph, counts
<1>0. Indices = 1 .. Len(layers) /\ Len(layers) \in Nat /\ i \in Nat
  BY IndicesAre DEF TypeOK
<1>1. ASSUME phase' # "eval" PROVE RanInv'
  BY <1>1 DEF RanInv
<1>2. ASSUME phase = "eval", NEW ns \in SUBSET Indices, Wrote(ns), i' \in Nat,
             \A n \in Indices : n < i' => n < i \/ n \in ns \/ n \in plan.placed,
             UNCHANGED <<layers, plan, bufs, ext>>
      PROVE  RanInv'
  <2>1. Indices' = Indices
    BY <1>2, SameGraph
  <2>2. bufs = Indices \ (plan.cube_out \cup plan.placed)
    BY <1>2 DEF PlanInv
  <2>3. plan.cube_out \cap plan.placed = {}
    BY <1>2 DEF PlanInv, MayPlan, Linkable, HandlesInv
  <2> QED BY <1>2, <2>1, <2>2, <2>3 DEF RanInv, Wrote
<1>3. CASE EvalBegin
  <2>1. phase' = "eval" /\ i' = 1 /\ row' = {} /\ cube' = {} /\ ext' = TRUE
        /\ UNCHANGED <<layers, plan, bufs>>
    BY <1>3 DEF EvalBegin
  <2>2. \A n \in Indices : ~(n < 1)
    BY <1>0
  <2> QED BY <2>1, <2>2, SameGraph DEF RanInv
<1>4. CASE EvalKick
  <2>1. PICK r \in KickAt(i) : Wrote(r[1] .. r[2]) /\ i' = r[2] + 1
    BY <1>4 DEF EvalKick
  <2>2. r[1] = i /\ r[2] \in Indices /\ i .. r[2] \subseteq Indices
    BY <1>4, KickInside DEF EvalKick
  <2>3. \A n \in Indices : n < r[2] + 1 => n < i \/ n \in i .. r[2]
    BY <1>0, <2>2
  <2>4. Wrote(i .. r[2]) /\ i' \in Nat
    BY <1>0, <2>1, <2>2
  <2> QED BY <1>2, <1>4, <2>1, <2>2, <2>3, <2>4 DEF EvalKick
<1>5. CASE EvalPlaced
  <2>1. Wrote({}) /\ i' = i + 1 /\ i \in plan.placed /\ phase = "eval"
        /\ UNCHANGED <<layers, plan, bufs, ext>>
    BY <1>5 DEF EvalPlaced, Wrote
  <2>2. \A n \in Indices : n < i + 1 => n < i \/ n = i
    BY <1>0
  <2> QED BY <1>0, <1>2, <2>1, <2>2
<1>6. CASE EvalLayer
  <2>1. Wrote({i}) /\ i' = i + 1 /\ i \in Indices /\ phase = "eval"
        /\ UNCHANGED <<layers, plan, bufs, ext>>
    BY <1>6 DEF EvalLayer
  <2>2. \A n \in Indices : n < i + 1 => n < i \/ n \in {i}
    BY <1>0
  <2> QED BY <1>0, <1>2, <2>1, <2>2
<1>7. CASE InitLayer \/ InitDone \/ PackLayer \/ EvalError \/ EvalOutputs
           \/ DtorPlan \/ DtorHandles \/ DtorClose
  BY <1>1, <1>7 DEF InitLayer, InitDone, PackLayer, EvalError, EvalOutputs,
                    DtorPlan, DtorHandles, DtorClose
<1>8. CASE PrepareBegin \/ MakePlan
  BY <1>1, <1>8, PrepareBeginIs, MakePlanIs
<1>9. CASE UNCHANGED vars
  <2>1. UNCHANGED <<layers, phase, plan, bufs, i, row, cube, ext>>
    BY <1>9 DEF vars
  <2> QED BY <2>1, SameGraph DEF RanInv
<1> QED BY <1>3, <1>4, <1>5, <1>6, <1>7, <1>8, <1>9 DEF Next, Prepare, Eval, Dtor

\* A plan is made covering the outputs and its buffers stay; nothing
\* later takes one away.
LEMMA StepRefusal == ASSUME IInv, [Next]_vars PROVE RefusalUnreached'
<1> USE DEF IInv, RefusalUnreached, graph, counts
<1>1. ASSUME ~plan'.planned PROVE RefusalUnreached'
  BY <1>1
<1>2. ASSUME UNCHANGED <<part_out, bufs>>, plan'.planned = plan.planned PROVE RefusalUnreached'
  BY <1>2
<1>3. CASE InitLayer \/ InitDone
  BY <1>1, <1>3 DEF InitLayer, InitDone, PhaseInv
<1>4. CASE MakePlan
  BY <1>2, <1>4, MakePlanIs
<1>5. CASE PrepareBegin
  BY <1>2, <1>5, PrepareBeginIs
<1>6. CASE DtorPlan
  <2>1. plan'.planned = plan.planned
    BY <1>6 DEF DtorPlan, PhaseInv, Plan
  <2> QED BY <1>2, <1>6, <2>1 DEF DtorPlan
<1>7. CASE PackLayer \/ Eval \/ DtorHandles \/ DtorClose \/ UNCHANGED vars
  BY <1>2, <1>7 DEF PackLayer, Eval, EvalBegin, EvalKick, EvalPlaced, EvalLayer, EvalError,
                    EvalOutputs, DtorHandles, DtorClose, vars
<1> QED BY <1>3, <1>4, <1>5, <1>6, <1>7 DEF Next, Prepare, Dtor

\* Every layer a kick covers has a handle: the run's links are cubes, which the
\* planner makes of layers with handles only.
LEMMA KickHandles ==
    ASSUME IInv, phase = "eval", NEW r \in KickAt(i), NEW n \in i .. r[2]
    PROVE  HasHandle(n)
<1> USE DEF IInv
<1>1. r \in Runs(plan.cube_out, plan.placed) /\ r[1] = i /\ r[2] \in Indices
  BY KickInside DEF KickAt, PlanInv
<1>2. Indices = 1 .. Len(layers) /\ Len(layers) \in Nat /\ i \in Nat
  BY IndicesAre DEF TypeOK
<1>3. \A k \in i .. (r[2] - 1) : Chained(plan.cube_out, k)
  BY <1>1 DEF Runs
<1>4. CASE n = r[2]
  <2>1. r[2] - 1 \in i .. (r[2] - 1) /\ (r[2] - 1) + 1 = r[2]
    BY <1>1, <1>2, KickInside
  <2>2. r[2] \in Linkable
    BY <1>3, <2>1 DEF Chained
  <2> QED BY <1>4, <2>2 DEF Linkable, HandlesInv
<1>5. CASE n # r[2]
  <2>1. n \in plan.cube_out
    BY <1>1, <1>2, <1>3, <1>5 DEF Chained
  <2> QED BY <2>1 DEF PlanInv, MayPlan, Linkable, HandlesInv
<1> QED BY <1>4, <1>5

\* The layers behind the loop are finitely many.
LEMMA PastFinite == ASSUME GraphInv PROVE IsFiniteSet(PastNpu) /\ IsFiniteSet(PastHost)
<1>1. IsFiniteSet(Indices)
  BY IndicesAre, FS_Interval
<1> QED BY <1>1, FS_Subset DEF PastNpu, PastHost

\* Each turn of Eval's loop counts the layers it goes past, each once: a kick all of
\* its run, a layer alone itself, a placed concatenation nothing.
LEMMA StepCounts == ASSUME IInv, [Next]_vars PROVE LayersCounted'
<1> USE DEF IInv, LayersCounted, counts, graph
<1>0. Indices = 1 .. Len(layers) /\ Len(layers) \in Nat /\ i \in Nat
  BY IndicesAre DEF TypeOK
<1>1. ASSUME phase' # "eval" PROVE LayersCounted'
  BY <1>1
<1>f. IsFiniteSet(PastNpu) /\ IsFiniteSet(PastHost)
      /\ Cardinality(PastNpu) \in Nat /\ Cardinality(PastHost) \in Nat
  BY PastFinite, FS_CardinalityType
<1>t. ops_npu \in Nat /\ ops_host \in Nat /\ npu0 \in Nat /\ host0 \in Nat
  BY DEF TypeOK
<1>2. CASE EvalBegin
  <2>1. layers' = layers /\ i' = 1
    BY <1>2 DEF EvalBegin
  <2>2. PastNpu' = {} /\ PastHost' = {}
    BY <1>0, <2>1, SameGraph DEF PastNpu, PastHost
  <2>3. npu0' = ops_npu' /\ host0' = ops_host'
    BY <1>2 DEF EvalBegin
  <2>4. Cardinality({}) = 0
    BY FS_EmptySet
  <2>5. ops_npu' \in Nat /\ ops_host' \in Nat
    BY <1>2, <1>t DEF EvalBegin
  <2> QED BY <2>2, <2>3, <2>4, <2>5
<1>3. CASE EvalKick
  <2>1. PICK r \in KickAt(i) : ops_npu' = ops_npu + KickLayers(r) /\ i' = r[2] + 1
    BY <1>3 DEF EvalKick
  <2>2. phase = "eval" /\ UNCHANGED <<layers, plan, ops_host, npu0, host0>>
    BY <1>3 DEF EvalKick
  <2>3. /\ r[1] = i /\ r[2] \in Indices /\ i < r[2] /\ i .. r[2] \subseteq Indices
        /\ Cardinality(i .. r[2]) = KickLayers(r) /\ KickLayers(r) \in Nat
    BY <2>2, KickInside
  <2>4. \A n \in i .. r[2] : HasHandle(n)
    BY <2>2, KickHandles
  <2>5. \A n \in Indices : n < r[2] + 1 <=> n < i \/ n \in i .. r[2]
    BY <1>0, <2>3
  <2>6. \A n \in Indices : HasHandle(n)' = HasHandle(n)
    BY <2>2 DEF HasHandle
  <2>7. PastNpu' = PastNpu \cup (i .. r[2])
    BY <2>1, <2>2, <2>3, <2>4, <2>5, <2>6, SameGraph DEF PastNpu
  <2>8. PastHost' = PastHost
    BY <2>1, <2>2, <2>4, <2>5, <2>6, SameGraph DEF PastHost
  <2>9. PastNpu \cap (i .. r[2]) = {} /\ IsFiniteSet(i .. r[2])
    <3>1. \A n \in i .. r[2] : ~(n < i)
      BY <1>0, <2>3
    <3>2. IsFiniteSet(i .. r[2])
      <4>1. i \in Int /\ r[2] \in Int
        BY <1>0, <2>3
      <4> QED BY <4>1, FS_Interval
    <3> QED BY <3>1, <3>2 DEF PastNpu
  <2>10. Cardinality(PastNpu') = Cardinality(PastNpu) + KickLayers(r)
    <3>1. Cardinality(PastNpu \cap (i .. r[2])) = 0
      BY <2>9, FS_EmptySet
    <3>2. Cardinality(PastNpu \cup (i .. r[2]))
            = Cardinality(PastNpu) + Cardinality(i .. r[2]) - Cardinality(PastNpu \cap (i .. r[2]))
      BY <1>f, <2>9, FS_Union
    <3> QED BY <1>f, <2>3, <2>7, <3>1, <3>2
  <2> QED BY <1>f, <1>t, <2>1, <2>2, <2>3, <2>8, <2>10
<1>4. CASE EvalPlaced
  <2>1. phase = "eval" /\ i \in plan.placed /\ i' = i + 1
        /\ UNCHANGED <<layers, plan, ops_npu, ops_host, npu0, host0>>
    BY <1>4 DEF EvalPlaced
  <2>2. ~HasHandle(i)
    BY <2>1 DEF PlanInv, MayPlan
  <2>3. \A n \in Indices : n < i + 1 <=> n < i \/ n = i
    BY <1>0
  <2>4. \A n \in Indices : HasHandle(n)' = HasHandle(n)
    BY <2>1 DEF HasHandle
  <2>5. PastNpu' = PastNpu /\ PastHost' = PastHost
    BY <2>1, <2>2, <2>3, <2>4, SameGraph DEF PastNpu, PastHost
  <2> QED BY <2>1, <2>5
<1>5. CASE EvalLayer
  <2>1. phase = "eval" /\ i \in Indices /\ i \notin plan.placed /\ i' = i + 1
        /\ UNCHANGED <<layers, plan, npu0, host0>>
    BY <1>5 DEF EvalLayer
  <2>2. \A n \in Indices : n < i + 1 <=> n < i \/ n = i
    BY <1>0
  <2>3. \A n \in Indices : HasHandle(n)' = HasHandle(n)
    BY <2>1 DEF HasHandle
  <2>4. i \notin PastNpu /\ i \notin PastHost
    BY <1>0 DEF PastNpu, PastHost
  <2>5. CASE HasHandle(i)
    <3>1. PastNpu' = PastNpu \cup {i} /\ PastHost' = PastHost
      BY <2>1, <2>2, <2>3, <2>5, SameGraph DEF PastNpu, PastHost
    <3>2. Cardinality(PastNpu') = Cardinality(PastNpu) + 1
      BY <1>f, <2>4, <3>1, FS_AddElement
    <3>3. ops_npu' = ops_npu + 1 /\ ops_host' = ops_host
      BY <1>5, <2>5 DEF EvalLayer
    <3> QED BY <1>f, <1>t, <2>1, <3>1, <3>2, <3>3
  <2>6. CASE ~HasHandle(i)
    <3>1. PastHost' = PastHost \cup {i} /\ PastNpu' = PastNpu
      BY <2>1, <2>2, <2>3, <2>6, SameGraph DEF PastNpu, PastHost
    <3>2. Cardinality(PastHost') = Cardinality(PastHost) + 1
      BY <1>f, <2>4, <3>1, FS_AddElement
    <3>3. ops_npu' = ops_npu /\ ops_host' = ops_host + 1
      BY <1>5, <2>6 DEF EvalLayer
    <3> QED BY <1>f, <1>t, <2>1, <3>1, <3>2, <3>3
  <2> QED BY <2>5, <2>6
<1>6. CASE InitLayer \/ InitDone \/ PackLayer \/ EvalError \/ EvalOutputs \/ Dtor
  BY <1>1, <1>6 DEF InitLayer, InitDone, PackLayer, EvalError, EvalOutputs, Dtor, DtorPlan,
                    DtorHandles, DtorClose
<1>7. CASE PrepareBegin \/ MakePlan
  BY <1>1, <1>7, PrepareBeginIs, MakePlanIs
<1>8. CASE UNCHANGED vars
  <2>1. UNCHANGED <<layers, phase, plan, i, counts>>
    BY <1>8 DEF vars
  <2>2. PastNpu' = PastNpu /\ PastHost' = PastHost
    BY <2>1, SameGraph DEF PastNpu, PastHost, HasHandle
  <2> QED BY <2>1, <2>2
<1> QED BY <1>2, <1>3, <1>4, <1>5, <1>6, <1>7, <1>8 DEF Next, Prepare, Eval

\* The invariant holds for every graph, plan and order of calls.
THEOREM Invariance == Spec => []IInv
<1>1. IInv /\ [Next]_vars => IInv'
  BY StepTyped, StepGraph, StepPhase, StepHandles, StepPlan, StepRan, StepRefusal, StepCounts
     DEF IInv
<1> QED BY InitInv, <1>1, PTL DEF Spec

-----------------------------------------------------------------------------
(* The properties.                                                         *)

\* The state's shape, for every number of layers.
THEOREM Typed == Spec => []TypeOK
<1>1. IInv => TypeOK
  BY DEF IInv
<1> QED BY Invariance, <1>1, PTL

\* Every operand is where run_one looks for it, computed by this inference, for
\* every graph of skips and concatenations and every plan.
THEOREM Fresh == Spec => []OperandsFresh
<1>1. IInv => OperandsFresh
  <2> SUFFICES ASSUME IInv, phase = "eval", i \in Indices, i \notin plan.placed,
                      NEW s \in Sources(i)
               PROVE  Available(s, CubeInNow(i))
    BY DEF OperandsFresh
  <2> DEFINE c == plan.cube_out
             p == plan.placed
  <2>0. Indices = 1 .. Len(layers) /\ Len(layers) \in Nat /\ s \in 0 .. (i - 1) /\ i \in Nat
        /\ \A n \in Indices : Sources(n) \subseteq 0 .. (n - 1)
    BY IndicesAre DEF IInv, GraphInv
  <2>1. c \subseteq Indices /\ p \subseteq Indices /\ MayPlan(c, p) /\ bufs = Indices \ (c \cup p)
    BY DEF IInv, TypeOK, PlanInv
  <2>2. ext /\ \A n \in Indices : n < i => (n \in bufs => n \in row) /\ (n \in c => n \in cube)
    BY DEF IInv, RanInv
  <2> HIDE DEF c, p
  <2>3. CubeInNow(i) <=> Sources(i) \subseteq c \cup p
    BY DEF CubeInNow, CubeIn, c, p
  <2>4. CASE s = 0
    <3>1. ~CubeInNow(i)
      BY <2>0, <2>1, <2>3, <2>4
    <3> QED BY <2>2, <2>4, <3>1 DEF Available
  <2>5. CASE s # 0 /\ CubeInNow(i)
    <3>1. s \in Indices /\ s < i
      BY <2>0, <2>5
    <3>2. s \in p => Sources(s) \subseteq cube
      <4> SUFFICES ASSUME s \in p, NEW q \in Sources(s) PROVE q \in cube
        OBVIOUS
      <4>1. q \in c
        BY <2>1 DEF MayPlan
      <4>2. q \in Indices /\ q < i
        BY <2>0, <2>1, <3>1, <4>1
      <4> QED BY <2>2, <4>1, <4>2
    <3>3. s \notin p => s \in cube
      BY <2>2, <2>3, <2>5, <3>1
    <3> QED BY <2>4, <2>5, <3>2, <3>3 DEF Available, p
  <2>6. CASE s # 0 /\ ~CubeInNow(i)
    <3>1. s \in Indices /\ s < i /\ i \in Consumers(s) /\ i \notin p
      BY <2>0, <2>6 DEF Consumers, p
    <3>2. ~CubeIn(c, p, i)
      BY <2>3, <2>6 DEF CubeIn
    <3>3. s \notin c /\ s \notin p
      BY <2>1, <3>1, <3>2 DEF MayPlan
    <3>4. s \in row
      BY <2>1, <2>2, <3>1, <3>3
    <3> QED BY <2>6, <3>4 DEF Available
  <2> QED BY <2>4, <2>5, <2>6
<1> QED BY Invariance, <1>1, PTL

\* Eval copies out only what this inference wrote in row-major order.
THEOREM Written == Spec => []OutputsWritten
<1>1. IInv => OutputsWritten
  <2> SUFFICES ASSUME IInv, phase = "eval", i \notin Indices PROVE part_out \subseteq row
    BY DEF OutputsWritten
  <2>1. part_out \subseteq bufs /\ bufs \subseteq Indices
    BY DEF IInv, RefusalUnreached, PhaseInv, TypeOK
  <2>2. \A n \in Indices : n < i
    BY IndicesAre DEF IInv, PhaseInv, TypeOK
  <2> QED BY <2>1, <2>2 DEF IInv, RanInv
<1> QED BY Invariance, <1>1, PTL

\* "this is the assertion that they are, and not a path a model reaches".
THEOREM Unreached == Spec => []RefusalUnreached
<1>1. IInv => RefusalUnreached
  BY DEF IInv
<1> QED BY Invariance, <1>1, PTL

\* The plan never outlives the handles, nor they the descriptor, through failed
\* and repeated Prepares and teardown from any state.
THEOREM Borrowing == Spec => []PlanBorrows
<1>1. IInv => PlanBorrows
  BY DEF IInv, PlanBorrows, PhaseInv, HandlesInv
<1> QED BY Invariance, <1>1, PTL

\* Every layer Eval's loop is past is counted once, on the side it ran, for every
\* graph, every plan and every choice of kicks; a placed concatenation is not.
THEOREM Counted == Spec => []LayersCounted
<1>1. IInv => LayersCounted
  BY DEF IInv
<1> QED BY Invariance, <1>1, PTL

=============================================================================

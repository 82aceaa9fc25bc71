------------------------------ MODULE Residency ------------------------------
(***************************************************************************)
(* The fp16-NCHW residency of partition-internal tensors in the RK3588     *)
(* kernel (RocketKernel in rocket_delegate.cpp).  A partition is a DAG of  *)
(* claimed nodes.  Init collects it and finds the internal tensors;        *)
(* Prepare decides which of them stay in the driver's fp16 NCHW layout     *)
(* between two convs instead of being requantized to NHWC; Eval runs the   *)
(* nodes in order, each reading and writing every tensor in one of the two *)
(* storages.  The hazards: a reader that looks in the storage its producer *)
(* did not write, and a value kept unquantized that reaches a partition    *)
(* output through ops that never requantize it.                            *)
(*                                                                         *)
(* Tensor 0 is the partition input; node n writes tensor 2n-1, and a SPLIT *)
(* also writes 2n.  The nineteen node kinds fall in the classes residency  *)
(* tells apart:                                                            *)
(*   Conv     a conv only the general fp16 path can run                    *)
(*   PwConv   a float 1x1 Prepare may pack for the resident matmul         *)
(*   Native   a native int8 / uint8 / depthwise conv                       *)
(*   Add      every host op that requantizes what it computes (ADD, ACT)  *)
(*   Reshape  RESHAPE, TRANSPOSE, PAD, SLICE: one input, values unchanged  *)
(*   Concat   CONCAT, and Split SPLIT: values unchanged                    *)
(*   Gather   RESIZE_NEAREST_NEIGHBOR, whose two quantizations analyze_    *)
(*            resize wants equal, and the ops that select one of the       *)
(*            values they read (max pooling, maximum, reduce_max) where    *)
(*            theirs are: values unchanged                                 *)
(***************************************************************************)
EXTENDS Integers, Sequences

CONSTANTS
    N,              \* bound: nodes in a partition
    Kinds,          \* the node kinds the partition may hold
    NchwResident    \* the nchw_resident option

ASSUME NAssumption == N \in Nat \ {0}
ASSUME KindsAssumption ==
    Kinds \subseteq {"Conv", "PwConv", "Native", "Add", "Reshape", "Concat", "Split", "Gather"}
ASSUME OptionAssumption == NchwResident \in BOOLEAN

VARIABLES
    nodes,          \* nodes_: the sequence of [kind, ins]
    part_out,       \* part_out_
    internal_idx,   \* internal_idx_
    mm_w,           \* the convs whose mm_w is not null
    resident_idx,   \* resident_idx_
    nhwc_idx,       \* nhwc_idx_
    phase,          \* the entry point the kernel is in
    pc,             \* the node Eval runs next
    written,        \* for each tensor, the storages written in this Eval
    val             \* for each tensor, how its value came about

vars == <<nodes, part_out, internal_idx, mm_w, resident_idx, nhwc_idx,
          phase, pc, written, val>>

Tensors == 0 .. 2 * N
Storages == {"nhwc", "nchw"}

\* exact: requantized from requantized inputs (or never away from it); raw: kept in
\* fp16, no requant yet; gain: a conv's result from a raw input, through RESHAPEs and
\* CONCATs at most; passed: such a result that went through a SPLIT or a Gather
Values == {"exact", "raw", "gain", "passed"}

NodeRec == [kind : Kinds, ins : SUBSET Tensors]

-----------------------------------------------------------------------------
(* The partition graph.                                                    *)

Indices == DOMAIN nodes

node_output_idx(n) == 2 * n - 1

node_outputs(n) ==
    IF nodes[n].kind = "Split" THEN {2 * n - 1, 2 * n} ELSE {2 * n - 1}

node_reads(n, t) == t \in nodes[n].ins

Produced == UNION {node_outputs(n) : n \in Indices}

\* Mutant: only the first output of a node is enumerated
InternalFirst(outs) == {node_output_idx(n) : n \in Indices} \ outs

\* The tensors of the partition that TFLite does not see, given its outputs
Internal(outs) == Produced \ outs

\* Init's guard: a tensor of the partition is produced before it is read
Topological ==
    \A n \in Indices : \A t \in nodes[n].ins \cap Produced :
        \E m \in 1 .. (n - 1) : t \in node_outputs(m)

\* Mutant: CONCATENATION is forgotten
TransparentReshape(n) == nodes[n].kind = "Reshape"

Transparent(n) == nodes[n].kind \in {"Reshape", "Concat"}

IsConv(n) == nodes[n].kind \in {"Conv", "PwConv", "Native"}

\* The walk follows producers to readers; an output's index exceeds its inputs'.
tensor_reaches_output_undamped(t0) ==
    LET undamped[t \in Tensors] ==
            \/ t \in part_out
            \/ \E n \in Indices :
                 node_reads(n, t) /\ Transparent(n) /\ undamped[node_output_idx(n)]
    IN  undamped[t0]

conv_reaches_output_undamped(n) ==
    IsConv(n) /\ tensor_reaches_output_undamped(node_output_idx(n))

-----------------------------------------------------------------------------
(* Prepare's decision, for a set mm of convs packed for the matmul.        *)

GeneralConv(n, mm) == nodes[n].kind \in {"Conv", "PwConv"} /\ n \notin mm

\* Mutant: the readers are not asked whether they read NCHW
ResidentAnyReader(mm) ==
    {t \in internal_idx : NchwResident /\
        \E p \in Indices : node_output_idx(p) = t /\ GeneralConv(p, mm)}

Resident(mm) ==
    {t \in internal_idx :
        /\ NchwResident
        /\ \E p \in Indices : node_output_idx(p) = t /\ GeneralConv(p, mm)
        /\ \A n \in Indices :
              node_reads(n, t) => GeneralConv(n, mm) /\ ~conv_reaches_output_undamped(n)}

\* Mutant: the list is not cleared before it is filled
NhwcAppended(mm) == nhwc_idx \cup (internal_idx \ Resident(mm))

\* The internal tensors left in NHWC
Nhwc(mm) == internal_idx \ Resident(mm)

\* The storage eval_node uses for tensor t of node n; every other op uses NHWC
StorageOf(n, t) ==
    IF GeneralConv(n, mm_w) /\ t \in resident_idx THEN "nchw" ELSE "nhwc"

\* What node n computes from its inputs.  Only an op that requantizes ends a gain.
ResultOf(n) ==
    LET carried == {val[t] : t \in nodes[n].ins}
        keeps   == nodes[n].kind \in {"Reshape", "Concat"}
    IN  IF \/ IsConv(n) /\ \E t \in nodes[n].ins : StorageOf(n, t) = "nchw"
           \/ keeps /\ "gain" \in carried
        THEN "gain"
        ELSE IF /\ keeps \/ nodes[n].kind \in {"Split", "Gather"}
                /\ "gain" \in carried \/ "passed" \in carried
        THEN "passed" ELSE "exact"

-----------------------------------------------------------------------------
Init ==
    /\ nodes = << >>
    /\ part_out = {}
    /\ internal_idx = {}
    /\ mm_w = {}
    /\ resident_idx = {}
    /\ nhwc_idx = {}
    /\ phase = "init"
    /\ pc = 0
    /\ written = [t \in Tensors |-> {}]
    /\ val = [t \in Tensors |-> "exact"]

\* The tensors a node may name: the input, what earlier nodes produce, and, so
\* that the guard has something to reject, what the next node would produce.
Nameable == {t \in {0} \cup Produced \cup {2 * Len(nodes) + 3} : t \in Tensors}

Arity(kind) == IF kind \in {"Add", "Concat", "Gather"} THEN 1 .. 2 ELSE {1}

\* Init, loop over nodes_to_replace: analyze_node succeeds and the node is kept
InitNode ==
    /\ phase = "init"
    /\ Len(nodes) < N
    /\ \E kind \in Kinds, a \in Nameable, b \in Nameable :
         /\ (a # b) => (2 \in Arity(kind))
         /\ nodes' = Append(nodes, [kind |-> kind, ins |-> {a, b}])
    /\ UNCHANGED <<part_out, internal_idx, mm_w, resident_idx, nhwc_idx,
                   phase, pc, written, val>>

\* Init, after the loop: the guard, then the internal tensors.  TFLite makes a
\* partition output of every tensor someone outside reads, and of unread ones.
InitDone ==
    /\ phase = "init"
    /\ nodes # << >>
    /\ \E outs \in SUBSET Produced :
         /\ \A t \in Produced \ outs : \E n \in Indices : node_reads(n, t)
         /\ part_out' = outs
         /\ internal_idx' = Internal(outs)
    /\ phase' = IF Topological THEN "unprepared" ELSE "error"
    /\ UNCHANGED <<nodes, mm_w, resident_idx, nhwc_idx, pc, written, val>>

\* Prepare, first call or after a resize.  The weights of an eligible 1x1 are
\* packed or not (alignment of M, scratch, device); residency is decided after.
Prepare ==
    /\ phase \in {"unprepared", "idle"}
    /\ \E mm \in SUBSET {n \in Indices : nodes[n].kind = "PwConv"} :
         /\ mm_w' = mm
         /\ resident_idx' = Resident(mm)
         /\ nhwc_idx' = Nhwc(mm)
    /\ phase' = "idle"
    /\ pc' = 0
    /\ written' = [t \in Tensors |-> {}]
    /\ val' = [t \in Tensors |-> "exact"]
    /\ UNCHANGED <<nodes, part_out, internal_idx>>

\* Eval binds the NHWC buffers; what earlier inferences left is stale now
EvalBegin ==
    /\ phase = "idle"
    /\ phase' = "eval"
    /\ pc' = 1
    /\ written' = [t \in Tensors |-> IF t \in Produced THEN {} ELSE {"nhwc"}]
    /\ val' = [t \in Tensors |-> "exact"]
    /\ UNCHANGED <<nodes, part_out, internal_idx, mm_w, resident_idx, nhwc_idx>>

EvalNode ==
    /\ phase = "eval"
    /\ pc \in Indices
    /\ LET outs == node_outputs(pc) IN
         /\ written' = [t \in Tensors |->
               IF t \in outs THEN written[t] \cup {StorageOf(pc, t)} ELSE written[t]]
         /\ val' = [t \in Tensors |->
               IF t \notin outs THEN val[t]
               ELSE IF StorageOf(pc, t) = "nchw" THEN "raw" ELSE ResultOf(pc)]
    /\ pc' = pc + 1
    /\ UNCHANGED <<nodes, part_out, internal_idx, mm_w, resident_idx, nhwc_idx, phase>>

\* A driver call or a check fails: Eval returns kTfLiteError at once
EvalFail ==
    /\ phase = "eval"
    /\ pc \in Indices
    /\ phase' = "idle"
    /\ UNCHANGED <<nodes, part_out, internal_idx, mm_w, resident_idx, nhwc_idx,
                   pc, written, val>>

EvalEnd ==
    /\ phase = "eval"
    /\ pc = Len(nodes) + 1
    /\ phase' = "idle"
    /\ UNCHANGED <<nodes, part_out, internal_idx, mm_w, resident_idx, nhwc_idx,
                   pc, written, val>>

Next == \/ InitNode \/ InitDone \/ Prepare
        \/ EvalBegin \/ EvalNode \/ EvalFail \/ EvalEnd

Spec == Init /\ [][Next]_vars

-----------------------------------------------------------------------------
\* The state's shape; once prepared, the resident and NHWC tensors partition
\* the internal ones (Prepare clears both lists before it fills them).
TypeOK ==
    /\ nodes \in Seq(NodeRec) /\ Len(nodes) <= N
    /\ part_out \subseteq Tensors
    /\ internal_idx \subseteq Tensors
    /\ mm_w \subseteq Indices
    /\ resident_idx \subseteq internal_idx
    /\ phase \in {"init", "unprepared", "idle", "eval", "error"}
    /\ pc \in 0 .. (Len(nodes) + 1)
    /\ written \in [Tensors -> SUBSET Storages]
    /\ val \in [Tensors -> Values]
    /\ phase \in {"idle", "eval"} => nhwc_idx = internal_idx \ resident_idx

\* A node about to run finds each input in the storage it will look in, written
\* by this inference: never the other layout, and never a stale buffer that an
\* earlier or a failed inference left (eval_node's resident_ptr lookups).
ReadsFresh ==
    phase = "eval" =>
        \A n \in Indices : pc = n =>
            \A t \in nodes[n].ins : StorageOf(n, t) \in written[t]

\* Every tensor a node touches as NHWC has storage: TFLite's arena holds the
\* partition's inputs and outputs, Eval binds internal_buf_ for nhwc_idx_, and
\* nothing else is bound (Init's enumeration of every output).
StorageBound ==
    phase = "eval" =>
        \A n \in Indices : pc = n =>
            \A t \in nodes[n].ins \cup node_outputs(n) :
                StorageOf(n, t) = "nhwc" =>
                    (t \notin Produced \/ t \in part_out \/ t \in nhwc_idx)

\* What the re-quantization barrier rule achieves: no partition output is, up to the
\* RESHAPE-like ops and CONCATs that the walk follows, the result of a conv that read
\* an unquantized input (the 2 -> 65 drift of the SSD head the rule was written for).
OutputsDamped == \A t \in part_out : val[t] # "gain"

\* What API.md says the rule achieves: every other consumer is a barrier, so the last
\* conv before an output always reads a requantized input.  A SPLIT, which the comment
\* on the walk calls a barrier in the safe direction, and an op that gathers or selects
\* values do not requantize, and the walk stops at them.
LastConvReadsRequantized == \A t \in part_out : val[t] \notin {"gain", "passed"}
=============================================================================

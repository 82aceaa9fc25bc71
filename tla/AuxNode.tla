------------------------------ MODULE AuxNode ------------------------------
(***************************************************************************)
(* One node of the RK3588 path, no convolution, from the creation of the   *)
(* delegate to the answer of an Invoke: options, claim, kernel, live       *)
(* shapes.  TFLite is the environment: it picks the graph's node, resolves *)
(* its outputs' shapes before the delegate sees them or not, may be unable *)
(* to install the kernel, and may change the shapes of the tensors later,  *)
(* under an operator upstream whose output is dynamic.                     *)
(***************************************************************************)
EXTENDS AuxEval

CONSTANTS
    Nodes,      \* the nodes a graph may have: [op, p, type, ins]
    MaxDrifts   \* how often the shapes change

\* What an operator comes with: the ranks, constants and attributes TFLite's own
\* parser gives it
Positive == Nat \ {0}
OneInput == {"pool", "reshape", "transpose", "slice", "strided", "pad", "split", "act",
             "reduce", "resize", "rowwise", "l2norm", "cumsum"}
TwoInputs == {"binary", "prelu", "tconv", "fc"}
Images4D == {"pool", "reduce", "resize", "tconv"}
SpecEntry == [kind : {"range", "shrink", "new", "ellipsis"}, b : Int, e : Int, s : Int,
              bm : BOOLEAN, em : BOOLEAN]
Attributes(op, p) ==
    CASE op = "binary" -> p \in [minmax : BOOLEAN]
      [] op = "pool" -> p \in [k : Positive \X Positive, s : Positive \X Positive,
                               same : BOOLEAN, avg : BOOLEAN]
      [] op = "concat" -> p \in [axis : Int]
      [] op = "reshape" -> p \in [shape : Seq(Nat)]
      [] op = "transpose" -> p \in [perm : Seq(Nat)]
      [] op = "slice" -> p \in [begin : Seq(Int), size : Seq(Int)]
      [] op = "strided" -> p \in [spec : Seq(SpecEntry)]
      [] op = "pad" -> p \in [before : Seq(Int), after : Seq(Int)]
      [] op = "split" -> p \in [axis : Int, sizes : Seq(Nat)]
      [] op = "act" -> p \in [lut : BOOLEAN]
      [] op = "reduce" -> p \in [keep : BOOLEAN, mean : BOOLEAN]
      [] op = "resize" -> p \in [OH : Nat, OW : Nat, corners : BOOLEAN, half : BOOLEAN]
      [] op = "tconv" -> p \in [s : Positive \X Positive, same : BOOLEAN, OH : Nat, OW : Nat]
      [] op = "cumsum" -> p \in [axis : Int, exclusive : BOOLEAN, reverse : BOOLEAN]
      [] OTHER -> TRUE
WellFormed(n) ==
    /\ n.op \in OneInput \cup TwoInputs \cup {"concat"}
    /\ n.type \in {"float", "quant", "other"}
    /\ n.ins \in Seq(Seq(Nat)) /\ Len(n.ins) >= 1
    /\ n.op \in OneInput => Len(n.ins) = 1
    /\ n.op \in TwoInputs => Len(n.ins) = 2
    /\ n.op \in Images4D => Len(n.ins[1]) = 4
    /\ n.op = "tconv" => Len(n.ins[2]) = 4
    /\ n.op = "fc" => Len(n.ins[2]) = 2
    /\ Attributes(n.op, n.p)

ASSUME DriftsAssumption == MaxDrifts \in Nat

ASSUME NodesAssumption == \A n \in Nodes : WellFormed(n) /\ Valid(n.op, n.p, n.ins)

VARIABLES
    stage,      \* how far TFLite got
    opts,       \* the options, as parsed
    node,       \* the node, with the output shapes the delegate saw
    nodes_claimed, \* g_rocket_nodes_claimed
    x,          \* what Init captured
    fd,         \* the NPU was opened
    packed,     \* mm_w of a FULLY_CONNECTED
    live,       \* the shapes of the moment
    drifts,     \* how often they changed
    answer      \* of the last Invoke

vars == <<stage, opts, node, nodes_claimed, x, fd, packed, live, drifts, answer>>

None == [none |-> TRUE]

\* A value no number parses from, and an option left out
Garbage == "abc"
Absent == "absent"
OptionTexts == {Garbage, Absent, "0", "1"}

\* rocket_opt_long, and what is compared with 0
rocket_opt(text, def) == IF text \in {Garbage, Absent} THEN def ELSE text # "0"

Init ==
    /\ stage = "start" /\ opts = None /\ node = None /\ nodes_claimed = 0
    /\ x = None /\ fd = FALSE /\ packed = FALSE
    /\ live = None /\ drifts = 0 /\ answer = None

\* npu stands for act_npu, fc_npu, pool_npu, ew_npu, resize_npu and norm_npu.
tflite_plugin_create_delegate ==
    /\ stage = "start"
    /\ \E aux, npu \in OptionTexts :
          opts' = [aux_ops |-> rocket_opt(aux, TRUE), npu |-> rocket_opt(npu, FALSE)]
    /\ stage' = "created"
    /\ UNCHANGED <<node, nodes_claimed, x, fd, packed, live, drifts, answer>>

\* What TFLite has in a node's outputs: their shapes, or none yet
Unresolved(outs) == [i \in DOMAIN outs |-> << >>]
Seen(n) ==
    LET outs == Shapes(n.op, n.p, n.ins) IN
    {[op |-> n.op, p |-> n.p, type |-> n.type, ins |-> n.ins, outs |-> o] : o \in {outs, Unresolved(outs)}}

\* Mutant: the nodes looked at are counted, not those claimed
CountsLooked ==
    /\ stage = "created"
    /\ \E n \in Nodes : node' \in Seen(n)
    /\ nodes_claimed' = nodes_claimed + 1
    /\ stage' \in IF analyze_node(node', opts) THEN {"claimed", "refused"} ELSE {"cpu"}
    /\ UNCHANGED <<opts, x, fd, packed, live, drifts, answer>>

\* The claim is counted before TFLite is asked to install the kernel.
rocket_delegate_prepare ==
    /\ stage = "created"
    /\ \E n \in Nodes : node' \in Seen(n)
    /\ IF analyze_node(node', opts)
       THEN /\ nodes_claimed' = nodes_claimed + 1
            /\ stage' \in {"claimed", "refused"}
       ELSE UNCHANGED nodes_claimed /\ stage' = "cpu"
    /\ UNCHANGED <<opts, x, fd, packed, live, drifts, answer>>

\* Init analyses the node again and keeps its operands; out of memory, or Init
\* refusing, there is no kernel, and Prepare fails.
rocket_kernel_init ==
    /\ stage = "claimed"
    /\ \/ /\ analyze_node(node, opts)
          /\ x' = Capture(node)
          /\ live' = [ins |-> node.ins, outs |-> node.outs]
          /\ stage' = "initialised"
       \/ stage' = "refused" /\ UNCHANGED <<x, live>>
    /\ UNCHANGED <<opts, node, nodes_claimed, fd, packed, drifts, answer>>

\* Opens the NPU the first time; packs a FULLY_CONNECTED's weights where they are
\* wanted, if the driver can.
rocket_kernel_prepare ==
    /\ stage \in {"initialised", "ready"}
    /\ fd' \in IF stage = "ready" THEN {fd} ELSE BOOLEAN
    /\ IF node.op = "fc" /\ opts.npu /\ fd' /\ x.M % 4 = 0
       THEN packed' \in IF packed THEN {TRUE} ELSE BOOLEAN
       ELSE packed' = FALSE
    /\ stage' = "ready"
    /\ UNCHANGED <<opts, node, nodes_claimed, x, live, drifts, answer>>

\* The operators whose second input is a constant, which keeps its shape
ConstantOperand == {"prelu", "tconv", "fc"}
Drifted(n) ==
    {[i \in DOMAIN n.ins |-> IF i = 2 /\ n.op \in ConstantOperand THEN n.ins[2] ELSE m.ins[i]] :
        m \in {m \in Nodes : m.op = n.op /\ Len(m.ins) = Len(n.ins)}}

\* TFLite's: new shapes come down; the outputs' follow if they can, or stay.
Drift ==
    /\ stage = "ready" /\ drifts < MaxDrifts
    /\ \E ins \in Drifted(node) :
          /\ live' \in {[ins |-> ins, outs |-> live.outs]}
                       \cup IF Valid(node.op, node.p, ins)
                            THEN {[ins |-> ins, outs |-> Shapes(node.op, node.p, ins)]} ELSE {}
          /\ live' # live
    /\ drifts' = drifts + 1
    /\ answer' = None
    /\ UNCHANGED <<stage, opts, node, nodes_claimed, x, fd, packed>>

\* The driver may fail on any call: the host kernel then answers.
rocket_kernel_invoke ==
    /\ stage = "ready" /\ answer = None
    /\ \E rc \in BOOLEAN :
          answer' = eval(node, x, live, packed, rc /\ (node.op = "fc" \/ (opts.npu /\ fd)))
    /\ UNCHANGED <<stage, opts, node, nodes_claimed, x, fd, packed, live, drifts>>

Next ==
    \/ tflite_plugin_create_delegate
    \/ rocket_delegate_prepare
    \/ rocket_kernel_init
    \/ rocket_kernel_prepare
    \/ Drift
    \/ rocket_kernel_invoke

Spec == Init /\ [][Next]_vars

-----------------------------------------------------------------------------
Answered == answer # None
Meaning == Outputs(node.op, node.p, live.ins)
Moved == live # [ins |-> node.ins, outs |-> node.outs]

\* The variables have their types, and each stage has what the one before left.
TypeOK ==
    /\ stage \in {"start", "created", "cpu", "claimed", "refused", "initialised", "ready"}
    /\ nodes_claimed = (IF stage \in {"start", "created", "cpu"} THEN 0 ELSE 1)
    /\ drifts \in 0 .. MaxDrifts /\ fd \in BOOLEAN /\ packed \in BOOLEAN
    /\ packed => fd /\ node.op = "fc"
    /\ live # None <=> stage \in {"initialised", "ready"}
    /\ Answered => answer.ok \in BOOLEAN /\ answer.npu \in BOOLEAN

\* A node the delegate claimed, evaluated at the shapes it was claimed with, none
\* of them empty, succeeds with what TFLite means by the operator: whether the
\* host's index arithmetic or the NPU's, through its own layout, computes it.
ClaimedAnswers ==
    (Answered /\ drifts = 0 /\ \A i \in DOMAIN node.outs : Count(node.outs[i]) > 0) =>
        answer.ok /\ answer.outs = Meaning

\* What Eval takes from the claim and never compares with the live shapes: a batch
\* taken to be one; the channels and rows of PRELU and the rowwise operators; the
\* axis of a CUMSUM or a CONCAT whose rank moved; a SLICE's end, a spec's expansion, a
\* FULLY_CONNECTED's rows; a PAD's far border; an output wider than its operands make it.
Unchecked ==
    CASE node.op \in {"pool", "reduce", "resize", "tconv"} -> live.ins[1][1] # 1
      [] node.op \in {"prelu", "rowwise", "l2norm"} -> Last(live.ins[1]) # Last(node.ins[1])
      [] node.op = "cumsum" -> \/ Last(live.ins[1]) # Last(node.ins[1])
                               \/ Axis(node.p.axis, Len(live.ins[1])) # Len(live.ins[1])
      [] node.op = "concat" -> \/ Axis(node.p.axis, Len(live.ins[1])) # x.axis
                               \/ x.axis \notin DOMAIN live.ins[1]
      [] node.op = "slice" -> -1 \in Range(node.p.size)
      [] node.op \in {"strided", "fc"} -> Moved
      [] node.op \in {"pad", "binary"} ->
            Valid(node.op, node.p, live.ins) /\ live.outs # Shapes(node.op, node.p, live.ins)
      [] OTHER -> FALSE

\* Shapes that moved under the kernel fail the Invoke, or the answer is TFLite's
\* for the new shapes ("must fail the Invoke, not miscompute").
DriftCaught ==
    (Answered /\ answer.ok /\ ~Unchecked) => Valid(node.op, node.p, live.ins) /\ answer.outs = Meaning

\* A tensor that became empty under an operator that takes the batch to be one
Emptied == node.op \in Images4D /\ (Count(live.ins[1]) = 0 \/ Count(live.outs[1]) = 0)

\* Whatever the shapes, and also where the Invoke fails half-way, the kernels
\* read inside the live inputs and write inside the live outputs; but CONCAT, whose
\* extents are added up after the copies, FULLY_CONNECTED, which never looks, and
\* the image operators where a tensor is empty.
AccessesInside ==
    (Answered /\ ~(node.op \in {"concat", "fc"} /\ Moved) /\ ~Emptied) =>
        \A i \in DOMAIN answer.outs : \A k \in DOMAIN answer.outs[i] :
            /\ k \in Cells(live.outs[i])
            /\ \A tap \in answer.outs[i][k].taps : \A j \in DOMAIN tap :
                  tap[j][2] \in Cells(live.ins[tap[j][1]])
=============================================================================

---------------------------- MODULE Rk3576Claim ----------------------------
(***************************************************************************)
(* The claim of the RK3576 graph path (rocket_rk3576_net.h): build_claim   *)
(* gates every node of the execution plan by kind, then drops each PAD     *)
(* that does not fold into all its readers, until nothing changes.  TFLite *)
(* (external) cuts the claimed set into partitions; Kernel::Init lowers    *)
(* each one, a claimed PAD becoming the lead and trail of its reader.  A   *)
(* node that does not lower fails the model.                               *)
(*                                                                         *)
(* A plane is one-dimensional: both axes go through the same resolve_pad.  *)
(* Tensor 0 is the model's input and node n writes tensor n.  The ops are  *)
(* the windows (conv, depthwise conv and max pool are one; an average has  *)
(* a divisor), "conv_refused" for a conv the kind gate refuses, "cpu" for  *)
(* any other op it refuses, and "add" for the supported ops that fold no   *)
(* PAD (ADD, CONCATENATION, QUANTIZE).                                     *)
(***************************************************************************)
EXTENDS Integers, Sequences, FiniteSets

CONSTANTS
    N,              \* bound: nodes of the model
    Ops,            \* the operators the model may hold
    InputDim,       \* the input's plane
    K,              \* the kernel width of every convolution and pool
    Strides,
    Pads,           \* the <<lead, trail>> pairs of the PAD operators
    PadOutputs      \* whether a PAD's result may also be a model output

AllOps == {"conv_same", "conv_valid", "conv_refused", "avgpool", "add", "pad", "cpu"}

ASSUME OpsAssumption == Ops \subseteq AllOps
ASSUME SizesAssumption == {N, InputDim, K} \subseteq Nat \ {0} /\ Strides \subseteq Nat \ {0}
ASSUME PadsAssumption == Pads \subseteq Nat \X Nat

VARIABLES
    nodes,          \* the execution plan: [op, ins, stride, pad, dim]
    outputs,        \* the model's output tensors
    claimed,        \* the claimed nodes
    at, changed,    \* the fixpoint's loop variables
    pads,           \* Init: the folded PADs, by output tensor
    layers,         \* Init: the nodes lowered to layers, in all partitions
    phase

vars == <<nodes, outputs, claimed, at, changed, pads, layers, phase>>

Indices == DOMAIN nodes
dim(t) == IF t = 0 THEN InputDim ELSE nodes[t].dim
Reads(n, t) == \E k \in DOMAIN nodes[n].ins : nodes[n].ins[k] = t
Readers(t) == {n \in Indices : Reads(n, t)}
IsPad(n) == nodes[n].op = "pad"
IsWindow(op) == op \in {"conv_same", "conv_valid", "conv_refused", "avgpool"}

Larger(a, b) == IF a > b THEN a ELSE b

-----------------------------------------------------------------------------
(* The geometry.                                                           *)

\* Mutant: the trailing rows of the folded PAD are lost
explicit_lead(in, stride, ex) == <<(in + ex[1] - K) \div stride + 1, ex[1], 0>>

\* resolve_pad with a PAD folded in, <<lead, trail>>
explicit_pad(in, stride, ex) ==
    LET out == (in + ex[1] + ex[2] - K) \div stride + 1
        reach == (out - 1) * stride + K
    IN  <<out, ex[1], Larger(0, reach - (in + ex[1]))>>

\* resolve_pad: the output extent, the leading pad and the trailing pad the last
\* window consumes.  A folded PAD is <<lead, trail>>, << >> when there is none.
resolve_pad(in, stride, same, ex) ==
    IF ex # << >> THEN explicit_pad(in, stride, ex)
    ELSE IF same
    THEN LET out == (in + stride - 1) \div stride
             total == Larger(0, (out - 1) * stride + K - in)
         IN  <<out, total \div 2, total - total \div 2>>
    ELSE <<(in - K + stride) \div stride, 0, 0>>

\* External: the extent TFLite resolved for an operator's result
ResultDim(op, in, stride, pad) ==
    CASE op = "conv_same" -> (in + stride - 1) \div stride
      [] op \in {"conv_valid", "conv_refused", "avgpool"} -> (in - K + stride) \div stride
      [] op = "pad" -> in + pad[1] + pad[2]
      [] OTHER -> in

-----------------------------------------------------------------------------
(* The claim.                                                              *)

kind_supported(n) == nodes[n].op \notin {"cpu", "conv_refused"}

folds_pad(n, t) == IsWindow(nodes[n].op) /\ nodes[n].ins[1] = t

\* Mutant: a PAD nobody reads is kept
FoldsUnread(n) == \A m \in Readers(n) \ {n} : m \in claimed /\ folds_pad(m, n)

\* Mutant: a reader of the right kind will do, claimed or not
FoldsUnclaimed(n) ==
    /\ Readers(n) \ {n} # {}
    /\ \A m \in Readers(n) \ {n} : folds_pad(m, n)

\* One PAD's test against the claimed set as it stands
Folds(n) ==
    /\ Readers(n) \ {n} # {}
    /\ \A m \in Readers(n) \ {n} : m \in claimed /\ folds_pad(m, n)

\* External: TFLite groups ready nodes of one side, claimed or not, until none is
\* ready, then turns to the other side; Epoch numbers the groups.
Epoch ==
    LET Same(m, n) == (m \in claimed) = (n \in claimed)
        e[n \in Indices] ==
            LET before == {m \in Indices : Reads(n, m)}
                floor == {e[m] + (IF Same(m, n) THEN 0 ELSE 1) : m \in before}
                         \cup {IF n \in claimed THEN 0 ELSE 1}
            IN  CHOOSE x \in floor : \A y \in floor : x >= y
    IN  e

\* A partition is the claimed nodes of one epoch; its outputs are read elsewhere
PartitionOutput(n) ==
    /\ n \in claimed
    /\ n \in outputs \/ \E m \in Readers(n) : m \notin claimed \/ Epoch[m] # Epoch[n]

-----------------------------------------------------------------------------
Init ==
    /\ nodes = << >>
    /\ outputs = {}
    /\ claimed = {}
    /\ at = 1 /\ changed = TRUE
    /\ pads = << >>
    /\ layers = {}
    /\ phase = "model"

\* The model: any operators over what earlier ones produce
AddNode ==
    /\ phase = "model"
    /\ Len(nodes) < N
    /\ \E op \in Ops, a \in 0 .. Len(nodes), b \in 0 .. Len(nodes),
          stride \in Strides, pad \in Pads :
         LET d == ResultDim(op, dim(a), stride, pad) IN
         /\ IF op = "add" THEN dim(a) = dim(b) ELSE b = a
         /\ ~IsWindow(op) => stride = CHOOSE s \in Strides : TRUE
         /\ op # "pad" => pad = CHOOSE p \in Pads : TRUE
         /\ IsWindow(op) => dim(a) >= K
         /\ nodes' = Append(nodes, [op |-> op, stride |-> stride, pad |-> pad, dim |-> d,
                                    ins |-> IF op = "add" THEN <<a, b>> ELSE <<a>>])
    /\ UNCHANGED <<outputs, claimed, at, changed, pads, layers, phase>>

\* Tensors nobody reads are outputs; others may be
ModelDone ==
    /\ phase = "model" /\ nodes # << >>
    /\ \E outs \in SUBSET Indices :
         /\ \A n \in Indices : Readers(n) = {} => n \in outs
         /\ \A n \in outs : IsPad(n) /\ Readers(n) # {} => PadOutputs
         /\ outputs' = outs
    /\ phase' = "gate"
    /\ UNCHANGED <<nodes, claimed, at, changed, pads, layers>>

\* Mutant: the table has an entry too many
GateExtra ==
    /\ phase = "gate"
    /\ claimed' = {n \in Indices : kind_supported(n)} \cup {Len(nodes) + 1}
    /\ phase' = "fix" /\ at' = 1 /\ changed' = FALSE
    /\ UNCHANGED <<nodes, outputs, pads, layers>>

Gate ==
    /\ phase = "gate"
    /\ claimed' = {n \in Indices : kind_supported(n)}
    /\ phase' = "fix" /\ at' = 1 /\ changed' = FALSE
    /\ UNCHANGED <<nodes, outputs, pads, layers>>

\* Mutant: a PAD already dropped is dropped again
FixNodeAgain ==
    /\ phase = "fix" /\ at \in Indices
    /\ IF IsPad(at) /\ ~Folds(at)
       THEN claimed' = claimed \ {at} /\ changed' = TRUE
       ELSE UNCHANGED <<claimed, changed>>
    /\ at' = at + 1
    /\ UNCHANGED <<nodes, outputs, pads, layers, phase>>

\* One node of a pass
FixNode ==
    /\ phase = "fix" /\ at \in Indices
    /\ IF at \in claimed /\ IsPad(at) /\ ~Folds(at)
       THEN claimed' = claimed \ {at} /\ changed' = TRUE
       ELSE UNCHANGED <<claimed, changed>>
    /\ at' = at + 1
    /\ UNCHANGED <<nodes, outputs, pads, layers, phase>>

\* The end of a pass: another one after a change, else the kernels are made
FixPass ==
    /\ phase = "fix" /\ at \notin Indices
    /\ at' = 1
    /\ changed' = FALSE
    /\ phase' = IF changed THEN "fix" ELSE "lower"
    /\ UNCHANGED <<nodes, outputs, claimed, pads, layers>>

\* The PAD a lowering finds under a tensor name, << >> when there is none.  The
\* kernels of other partitions have their own lists.
Folded(n, t) ==
    IF t \in DOMAIN pads /\ t \in claimed /\ Epoch[t] = Epoch[n] THEN pads[t] ELSE << >>

\* Kernel::Init meets a claimed PAD: a pad ahead of a pad is added to it
InitPad ==
    /\ phase = "lower" /\ at \in Indices /\ at \in claimed /\ IsPad(at)
    /\ LET s == nodes[at].ins[1]
           ahead == Folded(at, s)
           p == nodes[at].pad
           f == IF ahead = << >> THEN [src |-> s, lead |-> p[1], trail |-> p[2]]
                ELSE [src |-> ahead.src, lead |-> p[1] + ahead.lead,
                      trail |-> p[2] + ahead.trail]
       IN  pads' = [t \in DOMAIN pads \cup {at} |-> IF t = at THEN f ELSE pads[t]]
    /\ at' = at + 1
    /\ UNCHANGED <<nodes, outputs, claimed, changed, layers, phase>>

\* lower() on any other claimed node: the geometry must give TFLite's extent
Lowers(n) ==
    LET in == nodes[n].ins[1]
        f == Folded(n, in)
        src == IF f = << >> THEN in ELSE f.src
        ex == IF f = << >> THEN << >> ELSE <<f.lead, f.trail>>
    IN  IsWindow(nodes[n].op) =>
            resolve_pad(dim(src), nodes[n].stride, nodes[n].op = "conv_same", ex)[1]
                = nodes[n].dim

InitLayer ==
    /\ phase = "lower" /\ at \in Indices /\ at \in claimed /\ ~IsPad(at)
    /\ IF Lowers(at)
       THEN layers' = layers \cup {at} /\ at' = at + 1 /\ phase' = phase
       ELSE layers' = layers /\ at' = at /\ phase' = "refused"
    /\ UNCHANGED <<nodes, outputs, claimed, changed, pads>>

InitSkip ==
    /\ phase = "lower" /\ at \in Indices /\ at \notin claimed
    /\ at' = at + 1
    /\ UNCHANGED <<nodes, outputs, claimed, changed, pads, layers, phase>>

InitEnd ==
    /\ phase = "lower" /\ at \notin Indices
    /\ phase' = "running"
    /\ UNCHANGED <<nodes, outputs, claimed, at, changed, pads, layers>>

Claim == Gate \/ FixNode \/ FixPass
Lower == InitPad \/ InitLayer \/ InitSkip \/ InitEnd
Next == AddNode \/ ModelDone \/ Claim \/ Lower

\* Nothing schedules a step but the caller's own progress.
Spec == Init /\ [][Next]_vars /\ WF_vars(Claim \/ Lower)

-----------------------------------------------------------------------------
\* The state's shape.
TypeOK ==
    /\ Len(nodes) <= N
    /\ \A n \in Indices : nodes[n].op \in Ops /\ nodes[n].dim \in Nat
    /\ claimed \subseteq Indices /\ outputs \subseteq Indices
    /\ layers \subseteq claimed /\ DOMAIN pads \subseteq claimed
    /\ at \in 1 .. (Len(nodes) + 1)
    /\ phase \in {"model", "gate", "fix", "lower", "running", "refused"}

\* The order-dependent, in-place fixpoint computes what its comment states: the
\* supported nodes, less every PAD that has no reader or one that cannot fold it.
ClaimExact ==
    phase \in {"lower", "running", "refused"} =>
        claimed = {n \in Indices : kind_supported(n) /\
            (IsPad(n) => Readers(n) # {} /\
                 \A m \in Readers(n) : kind_supported(m) /\ folds_pad(m, n))}

\* A claimed PAD is only ever folded by nodes of its own partition: Init looks for
\* it nowhere else, and TFLite is not told that the two belong together.
PadWithReaders ==
    phase \in {"lower", "running", "refused"} =>
        \A n \in claimed : IsPad(n) => \A m \in Readers(n) : Epoch[m] = Epoch[n]

\* The Prepare callback and the kernel's Init "cannot disagree about the
\* partition" (rocket_rk3576_net.h:223-225): lowering never refuses a claimed
\* node, which would fail a model that would have run on the CPU unclaimed.
ClaimLowers == phase # "refused"

\* "A PAD whose output escapes the claimed set ... is left to the CPU": every
\* tensor a partition owes the rest of the model is the result of some layer.
OutputsHaveLayers ==
    phase = "running" => \A n \in Indices : PartitionOutput(n) => n \in layers

\* TFLite divides an average by the taps inside the plane the POOL reads, padded
\* or not; the PPU is told to exclude pad.  Folding a PAD into an average keeps
\* the divisor only while no window reaches the folded rows.
FoldKeepsDivisor ==
    phase = "running" =>
        \A n \in layers : nodes[n].op = "avgpool" =>
            LET f == Folded(n, nodes[n].ins[1]) IN
            f # << >> =>
                \A j \in 0 .. (nodes[n].dim - 1) :
                    LET first == j * nodes[n].stride - f.lead IN
                    Cardinality((first .. (first + K - 1)) \cap (0 .. (dim(f.src) - 1))) = K

\* The fixpoint and the lowering end, whatever the order of the plan.
ClaimEnds == [](phase = "gate" => <>(phase \in {"running", "refused"}))
=============================================================================

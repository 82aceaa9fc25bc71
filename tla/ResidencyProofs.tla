--------------------------- MODULE ResidencyProofs ---------------------------
(***************************************************************************)
(* Theorems about Residency for partitions of any size and any mixture of  *)
(* node kinds: the storage rule of eval_node is coherent.  The inductive   *)
(* invariant has three parts: what Init leaves of the graph, what every    *)
(* resident tensor was found to satisfy when Prepare chose it, and what    *)
(* the nodes of the inference in progress have written so far.  The        *)
(* re-quantization barrier needs a fourth, about the walk from producers   *)
(* to readers, and the recursion equation of that walk, which is proved    *)
(* from the least set of tensors that is closed under it.                  *)
(***************************************************************************)
EXTENDS Residency, TLAPS

GraphInv ==
    /\ phase = "init" => resident_idx = {} /\ mm_w = {}
    /\ phase # "init" => part_out \subseteq Produced /\ internal_idx = Produced \ part_out
    /\ phase \notin {"init", "error"} => Topological

ResidentInv ==
    \A t \in resident_idx :
        /\ t \in internal_idx
        /\ \E p \in Indices : node_output_idx(p) = t /\ GeneralConv(p, mm_w)
        /\ \A n \in Indices : node_reads(n, t) => GeneralConv(n, mm_w)

WrittenInv ==
    phase = "eval" =>
        /\ pc >= 1
        /\ \A t \in Tensors \ Produced : "nhwc" \in written[t]
        /\ \A m \in Indices : m < pc =>
              \A t \in node_outputs(m) : StorageOf(m, t) \in written[t]

IInv == TypeOK /\ GraphInv /\ ResidentInv /\ WrittenInv

-----------------------------------------------------------------------------
\* Every tensor a node writes is one of the partition's.
LEMMA OutputsTyped ==
    ASSUME TypeOK, NEW n \in Indices
    PROVE  node_outputs(n) \subseteq Tensors /\ n \in 1 .. N
PROOF
  <1>1. n \in 1 .. Len(nodes) /\ Len(nodes) \in Nat
    BY DEF TypeOK, Indices
  <1>2. n \in 1 .. N
    BY <1>1, NAssumption DEF TypeOK
  <1>3. QED
    BY <1>2, NAssumption DEF node_outputs, Tensors

\* A resident tensor is the first output of exactly one node, the general conv
\* that keeps it: no SPLIT output shares its index.
LEMMA ResidentWriter ==
    ASSUME IInv, NEW t \in resident_idx, NEW m \in Indices, t \in node_outputs(m)
    PROVE  GeneralConv(m, mm_w)
PROOF
  <1>1. PICK p \in Indices : node_output_idx(p) = t /\ GeneralConv(p, mm_w)
    BY DEF IInv, ResidentInv
  <1>2. p \in 1 .. N /\ m \in 1 .. N
    BY OutputsTyped DEF IInv
  <1>3. 2 * p - 1 = 2 * m - 1 \/ 2 * p - 1 = 2 * m
    BY <1>1 DEF node_output_idx, node_outputs
  <1>4. p = m
    BY <1>2, <1>3, NAssumption
  <1>5. QED
    BY <1>1, <1>4

\* The graph is fixed once Init is done; every resident tensor is sound when Prepare
\* chooses it, and nothing else changes what it was chosen for.
LEMMA GraphStep ==
    ASSUME IInv, [Next]_vars
    PROVE  GraphInv' /\ ResidentInv'
PROOF
  <1> USE DEF IInv
  <1>1. CASE InitNode
    BY <1>1 DEF InitNode, GraphInv, ResidentInv
  <1>2. CASE InitDone
    <2>1. part_out' \subseteq Produced /\ internal_idx' = Produced \ part_out'
      BY <1>2 DEF InitDone, Internal
    <2>2. Produced' = Produced /\ (Topological' <=> Topological) /\ resident_idx' = {}
      BY <1>2 DEF InitDone, Produced, Topological, node_outputs, Indices, GraphInv
    <2>3. phase' \in {"unprepared", "error"} /\ (phase' = "unprepared" => Topological)
      BY <1>2 DEF InitDone
    <2>4. QED
      BY <2>1, <2>2, <2>3 DEF GraphInv, ResidentInv
  <1>3. CASE Prepare
    <2>1. PICK mm \in SUBSET {n \in Indices : nodes[n].kind = "PwConv"} :
              mm_w' = mm /\ resident_idx' = Resident(mm)
      BY <1>3 DEF Prepare
    <2>2. nodes' = nodes /\ internal_idx' = internal_idx
      BY <1>3 DEF Prepare
    <2>3. ResidentInv'
      BY <2>1, <2>2 DEF ResidentInv, Resident, GeneralConv, node_reads, node_output_idx,
         Indices
    <2>4. GraphInv'
      BY <1>3 DEF Prepare, GraphInv, Produced, Topological, node_outputs, Indices
    <2>5. QED
      BY <2>3, <2>4
  <1>4. CASE UNCHANGED <<nodes, part_out, internal_idx, mm_w, resident_idx>>
             /\ (phase' = phase \/ (phase' \in {"idle", "eval"} /\ phase \in {"idle", "eval"}))
    BY <1>4 DEF GraphInv, ResidentInv, Produced, Topological, node_outputs,
       node_output_idx, node_reads, GeneralConv, Indices
  <1>5. QED
    BY <1>1, <1>2, <1>3, <1>4
       DEF Next, EvalBegin, EvalNode, EvalFail, EvalEnd, vars

\* A node's outputs are written in the storage its kind uses, and later nodes
\* only add to what was written.
LEMMA WrittenStep ==
    ASSUME IInv, [Next]_vars
    PROVE  WrittenInv'
PROOF
  <1> USE DEF IInv
  <1>1. CASE EvalBegin
    <2>1. Produced' = Produced /\ Indices' = Indices /\ pc' = 1
      BY <1>1 DEF EvalBegin, Produced, node_outputs, Indices
    <2>2. \A t \in Tensors \ Produced : "nhwc" \in written'[t]
      BY <1>1 DEF EvalBegin
    <2>3. \A m \in Indices : ~(m < 1)
      BY OutputsTyped
    <2>4. QED
      BY <2>1, <2>2, <2>3 DEF WrittenInv
  <1>2. CASE EvalNode
    <2>1. /\ UNCHANGED <<nodes, mm_w, resident_idx, phase>>
          /\ phase = "eval" /\ pc \in Indices /\ pc' = pc + 1
      BY <1>2 DEF EvalNode
    <2>2. \A t \in Tensors :
             /\ written[t] \subseteq written'[t]
             /\ t \in node_outputs(pc) => StorageOf(pc, t) \in written'[t]
      BY <1>2 DEF EvalNode
    <2>3. \A m \in Indices : m < pc' => m < pc \/ m = pc
      BY <2>1, OutputsTyped, NAssumption
    <2>4. \A m \in Indices : m < pc' =>
             \A t \in node_outputs(m) : StorageOf(m, t) \in written'[t]
      BY <2>1, <2>2, <2>3, OutputsTyped DEF WrittenInv
    <2>5. /\ Produced' = Produced /\ Indices' = Indices
          /\ \A m \in Indices : node_outputs(m)' = node_outputs(m)
          /\ \A m \in Indices, t \in Tensors : StorageOf(m, t)' = StorageOf(m, t)
      BY <2>1 DEF Produced, Indices, node_outputs, StorageOf, GeneralConv
    <2>6. pc' >= 1
      BY <2>1, OutputsTyped, NAssumption
    <2>7. QED
      BY <2>1, <2>2, <2>4, <2>5, <2>6, OutputsTyped DEF WrittenInv
  <1>3. CASE phase' # "eval"
    BY <1>3 DEF WrittenInv
  <1>4. CASE UNCHANGED vars
    BY <1>4 DEF vars, WrittenInv, Produced, Indices, node_outputs, StorageOf, GeneralConv
  <1>5. QED
    BY <1>1, <1>2, <1>3, <1>4
       DEF Next, InitNode, InitDone, Prepare, EvalFail, EvalEnd

\* Every step keeps the state typed; the nodes' tensors stay within the bound.
LEMMA TypeStep ==
    ASSUME IInv, [Next]_vars
    PROVE  TypeOK'
PROOF
  <1> USE DEF IInv
  <1>1. CASE InitNode
    <2>1. PICK kind \in Kinds, a \in Nameable, b \in Nameable :
              nodes' = Append(nodes, [kind |-> kind, ins |-> {a, b}])
      BY <1>1 DEF InitNode
    <2>2. [kind |-> kind, ins |-> {a, b}] \in NodeRec
      BY DEF NodeRec, Nameable
    <2>3. nodes' \in Seq(NodeRec) /\ Len(nodes') = Len(nodes) + 1
      BY <2>1, <2>2 DEF TypeOK
    <2>4. Len(nodes') <= N /\ Len(nodes) \in Nat
      BY <1>1, <2>3, NAssumption DEF InitNode, TypeOK
    <2>5. mm_w' = {} /\ resident_idx' = {}
      BY <1>1 DEF InitNode, GraphInv
    <2>6. pc' \in 0 .. (Len(nodes') + 1)
      BY <1>1, <2>3, <2>4 DEF InitNode, TypeOK
    <2>7. QED
      BY <1>1, <2>3, <2>4, <2>5, <2>6 DEF InitNode, TypeOK
  <1>2. CASE InitDone
    <2>1. Produced \subseteq Tensors
      BY OutputsTyped DEF Produced
    <2>2. part_out' \subseteq Tensors /\ internal_idx' \subseteq Tensors
      BY <1>2, <2>1 DEF InitDone, Internal
    <2>3. resident_idx' = {} /\ phase' \in {"unprepared", "error"}
      BY <1>2 DEF InitDone, GraphInv
    <2>4. QED
      BY <1>2, <2>2, <2>3 DEF InitDone, TypeOK, Indices
  <1>3. CASE Prepare
    <2>1. mm_w' \subseteq Indices /\ resident_idx' \subseteq internal_idx
      BY <1>3 DEF Prepare, Resident
    <2>2. nhwc_idx' = internal_idx \ resident_idx'
      BY <1>3, <2>1 DEF Prepare, Nhwc
    <2>3. Len(nodes) \in Nat
      BY DEF TypeOK
    <2>4. QED
      BY <1>3, <2>1, <2>2, <2>3 DEF Prepare, TypeOK, Indices, Storages, Values
  <1>4. CASE EvalBegin
    BY <1>4 DEF EvalBegin, TypeOK, Indices, Storages, Values
  <1>5. CASE EvalNode
    <2>1. pc' \in 0 .. (Len(nodes) + 1)
      BY <1>5 DEF EvalNode, TypeOK, Indices
    <2>2. \A t \in Tensors : StorageOf(pc, t) \in Storages
      BY DEF StorageOf, Storages
    <2>3. written' \in [Tensors -> SUBSET Storages]
      BY <1>5, <2>2 DEF EvalNode, TypeOK
    <2>4. ResultOf(pc) \in Values /\ "raw" \in Values
      BY DEF ResultOf, Values
    <2>5. val' \in [Tensors -> Values]
      BY <1>5, <2>4 DEF EvalNode, TypeOK
    <2>6. QED
      BY <1>5, <2>1, <2>3, <2>5 DEF EvalNode, TypeOK, Indices
  <1>6. CASE EvalFail \/ EvalEnd \/ UNCHANGED vars
    BY <1>6 DEF EvalFail, EvalEnd, vars, TypeOK, Indices
  <1>7. QED
    BY <1>1, <1>2, <1>3, <1>4, <1>5, <1>6 DEF Next

\* The two storage properties follow: a tensor not resident is NHWC for everyone,
\* and a resident one is NCHW for its one writer and for all its readers.
LEMMA Consequences ==
    ASSUME IInv
    PROVE  ReadsFresh /\ StorageBound
PROOF
  <1> USE DEF IInv
  <1>1. ASSUME phase = "eval", NEW n \in Indices, pc = n, NEW t \in nodes[n].ins
        PROVE  StorageOf(n, t) \in written[t]
    <2>1. t \in Tensors
      <3>1. nodes \in Seq(NodeRec) /\ n \in 1 .. Len(nodes)
        BY DEF TypeOK, Indices
      <3>2. nodes[n] \in NodeRec
        BY <3>1
      <3>3. QED
        BY <3>2 DEF NodeRec
    <2>2. CASE t \notin Produced
      BY <1>1, <2>1, <2>2 DEF GraphInv, ResidentInv, WrittenInv, StorageOf
    <2>3. CASE t \in Produced
      <3>1. PICK m \in 1 .. (n - 1) : t \in node_outputs(m)
        BY <1>1, <2>3 DEF GraphInv, Topological
      <3>2. m \in Indices /\ m < pc
        BY <1>1, <3>1 DEF Indices, TypeOK
      <3>3. StorageOf(m, t) \in written[t]
        BY <1>1, <3>1, <3>2 DEF WrittenInv
      <3>4. StorageOf(m, t) = StorageOf(n, t)
        BY <3>1, <3>2, ResidentWriter DEF ResidentInv, StorageOf, node_reads
      <3>5. QED
        BY <3>3, <3>4
    <2>4. QED
      BY <2>2, <2>3
  <1>2. ASSUME phase = "eval", NEW n \in Indices,
               NEW t \in nodes[n].ins \cup node_outputs(n),
               StorageOf(n, t) = "nhwc", t \in Produced, t \notin part_out
        PROVE  t \in nhwc_idx
    <2>1. t \notin resident_idx
      BY <1>2, ResidentWriter DEF ResidentInv, StorageOf, node_reads
    <2>2. t \in internal_idx
      BY <1>2 DEF GraphInv
    <2>3. QED
      BY <1>2, <2>1, <2>2 DEF TypeOK
  <1>3. QED
    BY <1>1, <1>2 DEF ReadsFresh, StorageBound

\* Every reachable state satisfies the inductive invariant.
THEOREM Invariance == Spec => []IInv
PROOF
  <1>1. Init => IInv
    <2>1. ASSUME Init PROVE TypeOK
      BY <2>1, NAssumption DEF Init, TypeOK, Indices, Storages, Values
    <2>2. QED
      BY <2>1 DEF Init, IInv, GraphInv, ResidentInv, WrittenInv
  <1>2. IInv /\ [Next]_vars => IInv'
    BY TypeStep, GraphStep, WrittenStep DEF IInv
  <1>3. QED
    BY <1>1, <1>2, PTL DEF Spec

\* Every reachable state is typed, for partitions of any size.
THEOREM Typed == Spec => []TypeOK
PROOF
  <1>1. IInv => TypeOK
    BY DEF IInv
  <1>2. QED
    BY <1>1, Invariance, PTL

\* For every partition of every size, whatever convs the matmul takes over after
\* each resize: a node reads each input in the storage its producer wrote during
\* the same inference (Prepare's residency choice and eval_node's lookups agree).
THEOREM Coherence == Spec => []ReadsFresh
PROOF
  BY Consequences, Invariance, PTL

\* Every tensor a node touches as NHWC is bound by TFLite or by Eval.
THEOREM Bound == Spec => []StorageBound
PROOF
  BY Consequences, Invariance, PTL

-----------------------------------------------------------------------------
(* The re-quantization barrier.                                            *)

\* The walk of tensor_reaches_output_undamped, and what it walks: s is the result
\* of a node that reads t and leaves its values unchanged.
Undamped ==
    CHOOSE u : u = [t \in Tensors |->
            \/ t \in part_out
            \/ \E n \in Indices :
                 node_reads(n, t) /\ Transparent(n) /\ u[node_output_idx(n)]]

Leads(t, s) ==
    \E n \in Indices : node_reads(n, t) /\ Transparent(n) /\ s = node_output_idx(n)

\* The sets of tensors that hold the outputs and whatever leads into the set, and
\* the least of them.
LeadsClosed(U) ==
    /\ part_out \cap Tensors \subseteq U
    /\ \A t \in Tensors, s \in U : Leads(t, s) => t \in U

Reaching == {t \in Tensors : \A U \in SUBSET Tensors : LeadsClosed(U) => t \in U}

\* The least closed set holds exactly the outputs and what leads to its members.
LEMMA ReachingFixpoint ==
    ASSUME NEW t \in Tensors
    PROVE  t \in Reaching <=> t \in part_out \/ \E s \in Reaching : Leads(t, s)
PROOF
  <1>1. LeadsClosed(Reaching)
    BY DEF LeadsClosed, Reaching
  <1>2. ASSUME t \in part_out \/ \E s \in Reaching : Leads(t, s)
        PROVE  t \in Reaching
    BY <1>1, <1>2 DEF LeadsClosed
  <1>3. ASSUME t \in Reaching, t \notin part_out, ~ \E s \in Reaching : Leads(t, s)
        PROVE  FALSE
    <2>1. Reaching \ {t} \in SUBSET Tensors
      BY DEF Reaching
    <2>2. LeadsClosed(Reaching \ {t})
      BY <1>1, <1>3 DEF LeadsClosed
    <2>3. QED
      BY <1>3, <2>1, <2>2 DEF Reaching
  <1>4. QED
    BY <1>2, <1>3

\* Some function satisfies the recursion equation of the walk, so the walk does.
LEMMA UndampedEquation ==
    ASSUME TypeOK
    PROVE  Undamped = [t \in Tensors |->
               \/ t \in part_out
               \/ \E n \in Indices :
                    node_reads(n, t) /\ Transparent(n) /\ Undamped[node_output_idx(n)]]
PROOF
  <1> DEFINE member == [t \in Tensors |-> t \in Reaching]
             Walk(u) == [t \in Tensors |->
               \/ t \in part_out
               \/ \E n \in Indices :
                    node_reads(n, t) /\ Transparent(n) /\ u[node_output_idx(n)]]
  <1>1. member = Walk(member)
    <2> DEFINE Leader(t) ==
            \E n \in Indices : node_reads(n, t) /\ Transparent(n) /\ member[node_output_idx(n)]
    <2>1. \A n \in Indices : node_output_idx(n) \in Tensors
      BY NAssumption DEF TypeOK, Indices, node_output_idx, Tensors
    <2>2. \A n \in Indices : member[node_output_idx(n)] = (node_output_idx(n) \in Reaching)
      BY <2>1
    <2>3. ASSUME NEW t \in Tensors
          PROVE  (t \in Reaching) = (t \in part_out \/ Leader(t))
      <3>1. t \in Reaching <=> t \in part_out \/ \E s \in Reaching : Leads(t, s)
        BY ReachingFixpoint
      <3>2. (\E s \in Reaching : Leads(t, s)) <=> Leader(t)
        <4> HIDE DEF member
        <4>1. QED
          BY <2>2 DEF Leads
      <3> HIDE DEF Leader
      <3>3. QED
        BY <3>1, <3>2
    <2>4. QED
      BY <2>3
  <1>2. \E u : u = Walk(u)
    BY <1>1
  <1>3. Undamped = Walk(Undamped)
    <2> HIDE DEF member
    <2>1. QED
      BY <1>2 DEF Undamped
  <1>4. QED
    BY <1>3

\* The walk starts at the outputs and passes a transparent node from its result to
\* each of its inputs.
LEMMA WalkRules ==
    ASSUME TypeOK, NEW t \in Tensors
    PROVE  /\ t \in part_out => tensor_reaches_output_undamped(t)
           /\ \A n \in Indices :
                 node_reads(n, t) /\ Transparent(n)
                     /\ tensor_reaches_output_undamped(node_output_idx(n))
                 => tensor_reaches_output_undamped(t)
PROOF
  <1>1. \A s : tensor_reaches_output_undamped(s) = Undamped[s]
    BY DEF tensor_reaches_output_undamped, Undamped
  <1>2. Undamped[t] = (\/ t \in part_out
                       \/ \E n \in Indices :
                            node_reads(n, t) /\ Transparent(n)
                                /\ Undamped[node_output_idx(n)])
    BY UndampedEquation
  <1>3. QED
    BY <1>1, <1>2

\* A value that came of an unquantized input never stands where the walk finds an
\* output: the convs that could produce one there read no resident tensor.
DampedInv ==
    /\ phase \in {"init", "unprepared", "error"} => \A t \in Tensors : val[t] = "exact"
    /\ \A t \in resident_idx, n \in Indices :
           node_reads(n, t) => ~conv_reaches_output_undamped(n)
    /\ \A t \in Tensors : val[t] = "gain" => ~tensor_reaches_output_undamped(t)

\* What the walk and the residency choice depend on: the graph and the outputs.
LEMMA WalkUnchanged ==
    ASSUME nodes' = nodes, part_out' = part_out
    PROVE  /\ \A t : tensor_reaches_output_undamped(t)' <=> tensor_reaches_output_undamped(t)
           /\ \A n : conv_reaches_output_undamped(n)' <=> conv_reaches_output_undamped(n)
PROOF
  <1>1. Undamped' = Undamped
    BY DEF Undamped, Indices, node_reads, Transparent, node_output_idx
  <1>2. \A t : tensor_reaches_output_undamped(t) = Undamped[t]
    BY DEF tensor_reaches_output_undamped, Undamped
  <1>3. \A t : tensor_reaches_output_undamped(t)' = Undamped'[t]
    BY DEF tensor_reaches_output_undamped, Undamped
  <1>4. \A t : tensor_reaches_output_undamped(t)' <=> tensor_reaches_output_undamped(t)
    BY <1>1, <1>2, <1>3
  <1>5. QED
    BY <1>4 DEF conv_reaches_output_undamped, IsConv, node_output_idx

\* A node's inputs are tensors of the bound.
LEMMA InputsTyped ==
    ASSUME TypeOK, NEW n \in Indices
    PROVE  nodes[n].ins \subseteq Tensors
PROOF
  <1>1. nodes \in Seq(NodeRec) /\ n \in 1 .. Len(nodes)
    BY DEF TypeOK, Indices
  <1>2. nodes[n] \in NodeRec
    BY <1>1
  <1>3. QED
    BY <1>2 DEF NodeRec

\* The one step that can break the barrier: a conv's result is "gain" only when it
\* reads a resident tensor, which the walk has excluded; a transparent node passes
\* a "gain" on only to a tensor from which the walk comes back to its input, and
\* what a SPLIT or a Gather makes of it is no longer one.
LEMMA DampedEvalNode ==
    ASSUME IInv, DampedInv, EvalNode, NEW t \in Tensors, val'[t] = "gain"
    PROVE  ~tensor_reaches_output_undamped(t)
PROOF
  <1> USE DEF IInv
  <1>1. pc \in Indices
    BY DEF EvalNode
  <1>2. val'[t] = IF t \notin node_outputs(pc) THEN val[t]
                 ELSE IF StorageOf(pc, t) = "nchw" THEN "raw" ELSE ResultOf(pc)
    BY DEF EvalNode
  <1>3. CASE t \notin node_outputs(pc)
    BY <1>2, <1>3 DEF DampedInv
  <1>4. CASE t \in node_outputs(pc)
    <2>1. ResultOf(pc) = "gain"
      BY <1>2, <1>4
    <2>2. nodes[pc].kind # "Split" => t = node_output_idx(pc)
      BY <1>4 DEF node_outputs, node_output_idx
    <2>3. CASE IsConv(pc) /\ \E s \in nodes[pc].ins : StorageOf(pc, s) = "nchw"
      <3>1. PICK s \in resident_idx : node_reads(pc, s)
        BY <2>3 DEF StorageOf, node_reads
      <3>2. ~conv_reaches_output_undamped(pc)
        BY <1>1, <3>1 DEF DampedInv
      <3>3. QED
        BY <2>2, <2>3, <3>2 DEF conv_reaches_output_undamped, IsConv
    <2>4. CASE /\ nodes[pc].kind \in {"Reshape", "Concat"}
               /\ \E s \in nodes[pc].ins : val[s] = "gain"
      <3>1. PICK s \in nodes[pc].ins : val[s] = "gain"
        BY <2>4
      <3>2. s \in Tensors
        BY <1>1, InputsTyped
      <3>3. ~tensor_reaches_output_undamped(s)
        BY <3>1, <3>2 DEF DampedInv
      <3>4. Transparent(pc) /\ node_reads(pc, s)
        BY <1>1, <2>4, <3>1 DEF Transparent, node_reads
      <3>5. QED
        BY <1>1, <2>2, <2>4, <3>2, <3>3, <3>4, WalkRules
    <2>5. QED
      BY <2>1, <2>3, <2>4 DEF ResultOf
  <1>5. QED
    BY <1>3, <1>4

\* Every step keeps the barrier.
LEMMA DampedStep ==
    ASSUME IInv, DampedInv, [Next]_vars
    PROVE  DampedInv'
PROOF
  <1> USE DEF IInv
  <1>1. CASE InitNode \/ InitDone
    <2>1. /\ resident_idx' = {} /\ val' = val
          /\ \A t \in Tensors : val[t] = "exact"
      BY <1>1 DEF InitNode, InitDone, GraphInv, DampedInv
    <2>2. QED
      BY <2>1 DEF DampedInv
  <1>2. CASE Prepare
    <2>1. PICK mm \in SUBSET {n \in Indices : nodes[n].kind = "PwConv"} :
              resident_idx' = Resident(mm)
      BY <1>2 DEF Prepare
    <2>2. nodes' = nodes /\ part_out' = part_out
      BY <1>2 DEF Prepare
    <2>3. \A t \in resident_idx', n \in Indices :
              node_reads(n, t) => ~conv_reaches_output_undamped(n)
      BY <2>1 DEF Resident
    <2>4. \A t \in resident_idx', n \in Indices' :
              node_reads(n, t)' => ~conv_reaches_output_undamped(n)'
      BY <2>2, <2>3, WalkUnchanged DEF Indices, node_reads
    <2>5. \A t \in Tensors : val'[t] = "exact"
      BY <1>2 DEF Prepare
    <2>6. QED
      BY <2>4, <2>5 DEF DampedInv
  <1>3. CASE EvalBegin
    <2>1. /\ nodes' = nodes /\ part_out' = part_out /\ resident_idx' = resident_idx
          /\ \A t \in Tensors : val'[t] = "exact"
      BY <1>3 DEF EvalBegin
    <2>2. QED
      BY <2>1, WalkUnchanged DEF DampedInv, Indices, node_reads
  <1>4. CASE EvalNode
    <2>1. /\ nodes' = nodes /\ part_out' = part_out /\ resident_idx' = resident_idx
          /\ phase' = "eval"
      BY <1>4 DEF EvalNode
    <2>2. \A t \in Tensors : val'[t] = "gain" => ~tensor_reaches_output_undamped(t)
      BY <1>4, DampedEvalNode
    <2>3. \A t \in Tensors : val'[t] = "gain" => ~tensor_reaches_output_undamped(t)'
      BY <2>1, <2>2, WalkUnchanged
    <2>4. \A t \in resident_idx', n \in Indices' :
              node_reads(n, t)' => ~conv_reaches_output_undamped(n)'
      BY <2>1, WalkUnchanged DEF DampedInv, Indices, node_reads
    <2>5. QED
      BY <2>1, <2>3, <2>4 DEF DampedInv
  <1>5. CASE EvalFail \/ EvalEnd \/ UNCHANGED vars
    <2>1. /\ nodes' = nodes /\ part_out' = part_out /\ resident_idx' = resident_idx
          /\ val' = val
          /\ phase' = phase \/ phase' = "idle"
      BY <1>5 DEF EvalFail, EvalEnd, vars
    <2>2. QED
      BY <2>1, WalkUnchanged DEF DampedInv, Indices, node_reads
  <1>6. QED
    BY <1>1, <1>2, <1>3, <1>4, <1>5 DEF Next

\* The re-quantization barrier of Prepare and tensor_reaches_output_undamped, for
\* partitions of any size and of any mixture of kinds: no partition output holds, up
\* to the ops the walk follows, the result of a conv that read an unquantized input.
THEOREM Barrier == Spec => []OutputsDamped
PROOF
  <1>1. Init => DampedInv
    BY DEF Init, DampedInv
  <1>2. IInv /\ DampedInv /\ [Next]_vars => DampedInv'
    BY DampedStep
  <1>3. IInv /\ DampedInv => OutputsDamped
    <2>1. IInv => part_out \subseteq Tensors
      BY DEF IInv, TypeOK
    <2>2. QED
      BY <2>1, WalkRules DEF IInv, DampedInv, OutputsDamped
  <1>4. QED
    BY <1>1, <1>2, <1>3, Invariance, PTL DEF Spec
=============================================================================

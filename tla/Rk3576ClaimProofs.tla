-------------------------- MODULE Rk3576ClaimProofs --------------------------
(***************************************************************************)
(* Theorems about Rk3576Claim for every model.                             *)
(*                                                                         *)
(* The in-place fixpoint of build_claim ends with the set its comment      *)
(* describes: a reader able to fold a PAD is never a PAD itself            *)
(* (FoldsAre), so what one pass drops never changes another PAD's test,    *)
(* and the second pass only confirms it.                                   *)
(*                                                                         *)
(* TFLite's groups are a recursion over the plan; that it has a solution   *)
(* and what the solution satisfies are proved from a least counterexample  *)
(* (EpochEquation, EpochTyped).  A claimed PAD's readers have no other     *)
(* input, so they fall in its group.  The lowering therefore finds every   *)
(* PAD where the claim left it, and folding it gives each window but a     *)
(* SAME convolution the extent TFLite resolved (FoldExtent).               *)
(***************************************************************************)
EXTENDS Rk3576Claim, IndexTheorems

Node == [op : AllOps, stride : Nat \ {0}, pad : Nat \X Nat, dim : Nat, ins : Seq(Nat)]

\* A node reads the model's input or earlier nodes
GraphInv ==
    /\ nodes \in Seq(Node)
    /\ \A n \in Indices : \A k \in DOMAIN nodes[n].ins : nodes[n].ins[k] \in 0 .. (n - 1)

Supported == {n \in Indices : kind_supported(n)}

\* What the comment on the fixpoint says a PAD needs
Foldable(n) ==
    Readers(n) # {} /\ \A m \in Readers(n) : kind_supported(m) /\ folds_pad(m, n)

Target == {n \in Indices : kind_supported(n) /\ (IsPad(n) => Foldable(n))}

\* The fixpoint only ever drops PADs that cannot stay, and has looked at those
\* before at
FixInv ==
    /\ phase \in {"model", "gate"} => claimed = {} /\ at = 1
    /\ phase \in {"model", "gate", "fix"} => DOMAIN pads = {} /\ layers = {}
    /\ phase = "model" => outputs = {}
    /\ phase = "fix" =>
          /\ Target \subseteq claimed /\ claimed \subseteq Supported
          /\ \A n \in claimed : n < at /\ IsPad(n) => Foldable(n)
    /\ phase \in {"lower", "running", "refused"} => claimed = Target

IInv == TypeOK /\ GraphInv /\ FixInv

-----------------------------------------------------------------------------
(* The graph.                                                              *)

LEMMA IndicesAre == ASSUME GraphInv PROVE Indices = 1 .. Len(nodes) /\ Len(nodes) \in Nat
BY DEF GraphInv, Indices

\* A quotient by a positive number of a number not below zero is not either.
LEMMA QuotientNat ==
    ASSUME NEW a \in Nat, NEW s \in Nat \ {0}
    PROVE  a \div s \in Nat
<1>1. s \in Int /\ s > 0
  OBVIOUS
<1>2. a \div s \in Int /\ a % s \in 0 .. (s - 1) /\ a = (s * (a \div s)) + (a % s)
  BY <1>1
<1> DEFINE q == a \div s
<1> HIDE DEF q
<1>3. q \in Int /\ s * q > -s
  BY <1>1, <1>2 DEF q
<1>4. ~(q <= -1)
  <2> SUFFICES ASSUME q <= -1 PROVE FALSE
    OBVIOUS
  <2>1. -1 - q \in Nat
    BY <1>3
  <2>2. s * (-1 - q) >= 0
    BY <1>1, <2>1
  <2>3. s * (-1 - q) = -s - (s * q)
    BY <1>1, <1>3
  <2> QED BY <1>1, <1>3, <2>2, <2>3, s * q \in Int
<1> QED BY <1>3, <1>4 DEF q

\* TFLite resolves a plane for every operator the model may hold.
LEMMA ResultDimNat ==
    ASSUME NEW op \in AllOps, NEW in \in Nat, NEW stride \in Nat \ {0}, NEW pad \in Nat \X Nat,
           IsWindow(op) => in >= K
    PROVE  ResultDim(op, in, stride, pad) \in Nat
<1> USE SizesAssumption
<1>1. CASE op = "conv_same"
  <2>1. in + stride - 1 \in Nat
    OBVIOUS
  <2>2. (in + stride - 1) \div stride \in Nat
    BY <2>1, QuotientNat
  <2> QED BY <1>1, <2>2 DEF ResultDim
<1>2. CASE op \in {"conv_valid", "conv_refused", "avgpool"}
  <2>1. in - K + stride \in Nat
    BY <1>2 DEF IsWindow
  <2>2. (in - K + stride) \div stride \in Nat
    BY <2>1, QuotientNat
  <2> QED BY <1>2, <2>2 DEF ResultDim
<1>3. CASE op = "pad"
  <2>1. in + pad[1] + pad[2] \in Nat
    OBVIOUS
  <2> QED BY <1>3, <2>1 DEF ResultDim
<1>4. CASE op \in {"add", "cpu"}
  BY <1>4 DEF ResultDim
<1> QED BY <1>1, <1>2, <1>3, <1>4 DEF AllOps

\* Nothing reads itself, and a reader that can fold a PAD is none, so the test a
\* pass makes against the set as it stands is the comment's.
LEMMA FoldsAre ==
    ASSUME GraphInv, Target \subseteq claimed, claimed \subseteq Supported, NEW n \in Indices
    PROVE  Folds(n) <=> Foldable(n)
<1>1. n \notin Readers(n)
  BY IndicesAre DEF GraphInv, Readers, Reads
<1>2. ASSUME NEW m \in Readers(n), folds_pad(m, n)
      PROVE  m \in claimed <=> kind_supported(m)
  <2>1. m \in Indices /\ ~IsPad(m)
    BY <1>2 DEF Readers, folds_pad, IsWindow, IsPad
  <2> QED BY <2>1 DEF Target, Supported
<1> QED BY <1>1, <1>2 DEF Folds, Foldable

\* The model gains a node that reads what is there.
LEMMA AddNodeGraph ==
    ASSUME IInv, AddNode
    PROVE  /\ GraphInv' /\ Len(nodes') <= N /\ Len(nodes') = Len(nodes) + 1
           /\ \A n \in Indices' : nodes'[n].op \in Ops /\ nodes'[n].dim \in Nat
           /\ Indices \subseteq Indices'
<1> USE DEF IInv, GraphInv
<1>0. Indices = 1 .. Len(nodes) /\ Len(nodes) \in Nat /\ N \in Nat
  BY IndicesAre, SizesAssumption
<1>1. PICK op \in Ops, a \in 0 .. Len(nodes), b \in 0 .. Len(nodes), stride \in Strides,
           pad \in Pads :
         /\ IsWindow(op) => dim(a) >= K
         /\ nodes' = Append(nodes, [op |-> op, stride |-> stride, pad |-> pad,
                                    dim |-> ResultDim(op, dim(a), stride, pad),
                                    ins |-> IF op = "add" THEN <<a, b>> ELSE <<a>>])
  BY ZenonT(60) DEF AddNode
<1> DEFINE d == ResultDim(op, dim(a), stride, pad)
           ins == IF op = "add" THEN <<a, b>> ELSE <<a>>
           new == [op |-> op, stride |-> stride, pad |-> pad, dim |-> d, ins |-> ins]
<1>2. op \in AllOps /\ stride \in Nat \ {0} /\ pad \in Nat \X Nat /\ a \in Nat /\ b \in Nat
  BY <1>0, OpsAssumption, SizesAssumption, PadsAssumption
<1>3. dim(a) \in Nat
  BY <1>0, SizesAssumption DEF dim, TypeOK
<1>4. d \in Nat
  BY <1>1, <1>2, <1>3, ResultDimNat
<1>5. ins \in Seq(Nat) /\ \A k \in DOMAIN ins : ins[k] \in 0 .. Len(nodes)
  <2>1. <<a>> \in Seq(Nat) /\ <<a, b>> \in Seq(Nat)
    BY <1>2
  <2>2. CASE op = "add"
    BY <2>1, <2>2
  <2>3. CASE op # "add"
    BY <2>1, <2>3
  <2> QED BY <2>2, <2>3
<1> HIDE DEF d, ins
<1>6. new \in Node /\ new.op = op /\ new.dim = d /\ new.ins = ins
  BY <1>2, <1>4, <1>5 DEF Node
<1> HIDE DEF new
<1>7. nodes' = Append(nodes, new)
  BY <1>1 DEF new, d, ins
<1>8. /\ nodes' \in Seq(Node) /\ Len(nodes') = Len(nodes) + 1
      /\ nodes'[Len(nodes) + 1] = new
      /\ \A n \in 1 .. Len(nodes) : nodes'[n] = nodes[n]
  BY <1>6, <1>7
<1>9. Indices' = 1 .. (Len(nodes) + 1)
  BY <1>8 DEF Indices
<1>10. ASSUME NEW n \in Indices'
       PROVE  /\ nodes'[n].op \in Ops /\ nodes'[n].dim \in Nat
              /\ \A k \in DOMAIN nodes'[n].ins : nodes'[n].ins[k] \in 0 .. (n - 1)
  <2>1. CASE n \in Indices
    BY <1>0, <1>8, <2>1 DEF TypeOK
  <2>2. CASE n = Len(nodes) + 1
    BY <1>0, <1>4, <1>5, <1>6, <1>8, <2>2
  <2> QED BY <1>0, <1>9, <2>1, <2>2
<1>11. Len(nodes') <= N
  BY <1>0, <1>8 DEF AddNode
<1> QED BY <1>0, <1>8, <1>9, <1>10, <1>11

\* Once the model is there, what a PAD needs no longer changes.
LEMMA SameGraph ==
    ASSUME UNCHANGED nodes
    PROVE  /\ Indices' = Indices /\ Target' = Target /\ Supported' = Supported
           /\ \A n : (IsPad(n)' <=> IsPad(n)) /\ (Foldable(n)' <=> Foldable(n))
BY DEF Indices, Target, Supported, IsPad, Foldable, Readers, Reads, kind_supported, folds_pad

-----------------------------------------------------------------------------
(* The invariant.                                                          *)

LEMMA InitInv == Init => IInv
<1> SUFFICES ASSUME Init PROVE IInv
  OBVIOUS
<1> USE SizesAssumption DEF Init
<1>1. nodes \in Seq(Node) /\ Len(nodes) = 0 /\ Indices = {} /\ DOMAIN pads = {}
  BY DEF Indices
<1> QED BY <1>1 DEF IInv, TypeOK, GraphInv, FixInv

LEMMA ModelInv == ASSUME IInv, AddNode \/ ModelDone PROVE IInv'
<1> USE DEF IInv, FixInv
<1>1. CASE AddNode
  <2>1. /\ GraphInv' /\ Len(nodes') <= N /\ Len(nodes') = Len(nodes) + 1
        /\ \A n \in Indices' : nodes'[n].op \in Ops /\ nodes'[n].dim \in Nat
    BY <1>1, AddNodeGraph
  <2>2. phase = "model" /\ UNCHANGED <<outputs, claimed, at, pads, layers, phase>>
    BY <1>1 DEF AddNode
  <2>3. 1 \in 1 .. (Len(nodes') + 1)
    BY <2>1, IndicesAre
  <2> QED BY <2>1, <2>2, <2>3 DEF TypeOK
<1>2. CASE ModelDone
  <2>1. outputs' \subseteq Indices
    BY <1>2 DEF ModelDone
  <2>2. phase = "model" /\ phase' = "gate" /\ UNCHANGED <<nodes, claimed, at, pads, layers>>
    BY <1>2 DEF ModelDone
  <2> QED BY <2>1, <2>2, SameGraph DEF TypeOK, GraphInv
<1> QED BY <1>1, <1>2

LEMMA ClaimInv == ASSUME IInv, Claim PROVE IInv'
<1> USE DEF IInv, FixInv
<1>0. Indices = 1 .. Len(nodes) /\ Len(nodes) \in Nat /\ at \in Nat
  BY IndicesAre DEF TypeOK
<1>1. CASE Gate
  <2>1. /\ claimed' = Supported /\ phase' = "fix" /\ at' = 1 /\ phase = "gate"
        /\ UNCHANGED <<nodes, outputs, pads, layers>>
    BY <1>1 DEF Gate, Supported
  <2>2. Target \subseteq Supported /\ Supported \subseteq Indices /\ \A n \in Indices : ~(n < 1)
    BY <1>0 DEF Target, Supported
  <2>3. TypeOK'
    BY <1>0, <2>1, <2>2, SameGraph DEF TypeOK
  <2>4. FixInv'
    BY <2>1, <2>2, SameGraph
  <2> QED BY <2>1, <2>3, <2>4, SameGraph DEF GraphInv
<1>2. CASE FixNode
  <2>1. /\ phase = "fix" /\ phase' = "fix" /\ at \in Indices /\ at' = at + 1
        /\ UNCHANGED <<nodes, outputs, pads, layers>>
    BY <1>2 DEF FixNode
  <2>2. Folds(at) <=> Foldable(at)
    BY <2>1, FoldsAre
  <2>3. claimed' = IF at \in claimed /\ IsPad(at) /\ ~Foldable(at) THEN claimed \ {at} ELSE claimed
    BY <1>2, <2>2 DEF FixNode
  <2>4. Target \subseteq claimed' /\ claimed' \subseteq claimed
    BY <2>1, <2>3 DEF Target
  <2>5. ASSUME NEW n \in claimed', n < at + 1, IsPad(n) PROVE Foldable(n)
    <3>1. n \in claimed /\ n \in Nat
      BY <1>0, <2>4 DEF TypeOK
    <3>2. n < at \/ n = at
      BY <1>0, <2>5, <3>1
    <3> QED BY <2>1, <2>3, <2>5, <3>1, <3>2
  <2>6. TypeOK'
    BY <1>0, <2>1, <2>4, SameGraph DEF TypeOK
  <2>7. FixInv'
    BY <2>1, <2>4, <2>5, SameGraph
  <2> QED BY <2>1, <2>6, <2>7, SameGraph DEF GraphInv
<1>3. CASE FixPass
  <2>1. /\ phase = "fix" /\ at \notin Indices /\ at' = 1 /\ phase' \in {"fix", "lower"}
        /\ UNCHANGED <<nodes, outputs, claimed, pads, layers>>
    BY <1>3 DEF FixPass
  <2>2. \A n \in Indices : n < at /\ ~(n < 1)
    BY <1>0, <2>1 DEF TypeOK
  <2>3. claimed = Target
    BY <2>1, <2>2 DEF Target, Supported, TypeOK
  <2>4. TypeOK'
    BY <1>0, <2>1, SameGraph DEF TypeOK
  <2>5. FixInv'
    BY <2>1, <2>2, <2>3, SameGraph DEF TypeOK
  <2> QED BY <2>1, <2>4, <2>5, SameGraph DEF GraphInv
<1> QED BY <1>1, <1>2, <1>3 DEF Claim

LEMMA LowerInv == ASSUME IInv, Lower \/ UNCHANGED vars PROVE IInv'
<1> USE DEF IInv, FixInv
<1>0. Indices = 1 .. Len(nodes) /\ Len(nodes) \in Nat /\ at \in Nat
  BY IndicesAre DEF TypeOK
<1>1. ASSUME phase = "lower", phase' \in {"lower", "running", "refused"},
             at' \in 1 .. (Len(nodes) + 1), DOMAIN pads' \subseteq claimed,
             layers' \subseteq claimed, UNCHANGED <<nodes, outputs, claimed>>
      PROVE  IInv'
  BY <1>1, SameGraph DEF TypeOK, GraphInv
<1>2. CASE InitPad
  <2>1. phase = "lower" /\ at \in claimed /\ at \in Indices
        /\ UNCHANGED <<nodes, outputs, claimed, layers, phase>> /\ at' = at + 1
    BY <1>2 DEF InitPad
  <2>2. DOMAIN pads' = DOMAIN pads \cup {at}
    BY <1>2 DEF InitPad
  <2> QED BY <1>0, <1>1, <2>1, <2>2 DEF TypeOK
<1>3. CASE InitLayer
  <2>1. phase = "lower" /\ at \in claimed /\ at \in Indices
        /\ UNCHANGED <<nodes, outputs, claimed, pads>>
    BY <1>3 DEF InitLayer
  <2>2. /\ layers' \subseteq layers \cup {at} /\ phase' \in {"lower", "refused"}
        /\ at' \in {at, at + 1}
    BY <1>3 DEF InitLayer
  <2> QED BY <1>0, <1>1, <2>1, <2>2 DEF TypeOK
<1>4. CASE InitSkip \/ InitEnd
  BY <1>0, <1>1, <1>4 DEF InitSkip, InitEnd, TypeOK
<1>5. CASE UNCHANGED vars
  <2>1. UNCHANGED <<nodes, outputs, claimed, at, pads, layers, phase>>
    BY <1>5 DEF vars
  <2> QED BY <2>1, SameGraph DEF TypeOK, GraphInv
<1> QED BY <1>2, <1>3, <1>4, <1>5 DEF Lower

\* The invariant holds for every model, whatever its order and its PADs.
THEOREM Invariance == Spec => []IInv
<1>1. IInv /\ [Next]_vars => IInv'
  BY ModelInv, ClaimInv, LowerInv DEF Next
<1> QED BY InitInv, <1>1, PTL DEF Spec

-----------------------------------------------------------------------------
(* The properties.                                                         *)

\* The state's shape, for every model.
THEOREM Typed == Spec => []TypeOK
<1>1. IInv => TypeOK
  BY DEF IInv
<1> QED BY Invariance, <1>1, PTL

\* The fixpoint ends with the set its comment states, for every number of nodes,
\* chain of PADs and order of the plan.
THEOREM Exact == Spec => []ClaimExact
<1>1. IInv => ClaimExact
  BY DEF IInv, FixInv, ClaimExact, Target, Foldable
<1> QED BY Invariance, <1>1, PTL

-----------------------------------------------------------------------------
(* The recursion of Epoch, which goes from a node to earlier ones.         *)

\* The epochs a node's inputs leave open for it, given those of earlier nodes, and
\* the one it gets.
Before(n) == {m \in Indices : Reads(n, m)}
Floor(e, n) ==
    {e[m] + (IF (m \in claimed) = (n \in claimed) THEN 0 ELSE 1) : m \in Before(n)}
        \cup {IF n \in claimed THEN 0 ELSE 1}
Latest(e, n) == CHOOSE x \in Floor(e, n) : \A y \in Floor(e, n) : x >= y

\* A node's epoch depends on those of earlier nodes only.
LEMMA LatestLocal ==
    ASSUME GraphInv, NEW n \in Indices, NEW e, NEW f, \A m \in 1 .. (n - 1) : e[m] = f[m]
    PROVE  Latest(e, n) = Latest(f, n)
<1>1. \A m \in Before(n) : m \in 1 .. (n - 1)
  BY IndicesAre DEF GraphInv, Before, Reads
<1>2. Floor(e, n) = Floor(f, n)
  BY <1>1 DEF Floor
<1> QED BY <1>2 DEF Latest

\* Epochs can be given to the nodes one after the other.
LEMMA EpochsExist ==
    ASSUME GraphInv
    PROVE  \E e : \A n \in Indices : e[n] = Latest(e, n)
<1> DEFINE L == Len(nodes)
           Upto(e, k) == \A n \in 1 .. k : e[n] = Latest(e, n)
           Bad == {k \in 0 .. L : ~ \E e : Upto(e, k)}
<1>0. Indices = 1 .. L /\ L \in Nat
  BY IndicesAre
<1>1. SUFFICES ASSUME Bad # {} PROVE FALSE
  <2>1. CASE Bad = {}
    <3>1. \E e : Upto(e, L)
      BY <1>0, <2>1
    <3> QED BY <1>0, <3>1
  <2> QED BY <2>1
<1>2. PICK k \in Bad : \A j \in Bad : k <= j
  <2>1. Bad \subseteq Nat
    BY <1>0
  <2> HIDE DEF Bad
  <2> QED BY <1>1, <2>1, LeastNatural
<1>3. k # 0
  BY <1>2
<1>4. PICK e : Upto(e, k - 1)
  <2>1. k - 1 \in 0 .. L /\ ~(k <= k - 1)
    BY <1>0, <1>2, <1>3
  <2>2. k - 1 \notin Bad
    BY <1>2, <2>1
  <2> HIDE DEF Upto
  <2> QED BY <2>1, <2>2
<1> DEFINE f == [n \in 1 .. k |-> IF n = k THEN Latest(e, k) ELSE e[n]]
<1>5. ASSUME NEW n \in 1 .. k PROVE f[n] = Latest(f, n)
  <2>1. n \in Indices /\ \A m \in 1 .. (n - 1) : m \in 1 .. k /\ m # k
    BY <1>0, <1>2
  <2>2. \A m \in 1 .. (n - 1) : f[m] = e[m]
    BY <2>1
  <2>3. Latest(f, n) = Latest(e, n)
    BY <2>1, <2>2, LatestLocal
  <2>4. n # k => n \in 1 .. (k - 1)
    BY <1>0, <1>2
  <2> QED BY <1>4, <2>3, <2>4
<1>6. Upto(f, k)
  BY <1>5
<1> QED BY <1>2, <1>6

\* So Epoch satisfies its equation,
LEMMA EpochEquation ==
    ASSUME GraphInv
    PROVE  Epoch = [n \in Indices |-> Latest(Epoch, n)]
<1>1. PICK e : \A n \in Indices : e[n] = Latest(e, n)
  BY EpochsExist
<1> DEFINE f == [n \in Indices |-> e[n]]
<1>2. ASSUME NEW n \in Indices PROVE f[n] = Latest(f, n)
  <2>1. \A m \in 1 .. (n - 1) : f[m] = e[m]
    BY IndicesAre
  <2> QED BY <1>1, <2>1, LatestLocal
<1>3. f = [n \in Indices |-> Latest(f, n)]
  BY <1>2
<1>4. Epoch = CHOOSE g : g = [n \in Indices |-> Latest(g, n)]
  BY DEF Epoch, Latest, Floor, Before
<1> HIDE DEF f
<1> QED BY <1>3, <1>4

\* and numbers the groups: no node's is after its own place in the plan.
LEMMA EpochTyped ==
    ASSUME GraphInv
    PROVE  \A n \in Indices : Epoch[n] \in 0 .. n /\ Epoch[n] \in Floor(Epoch, n)
                              /\ \A y \in Floor(Epoch, n) : Epoch[n] >= y
<1> DEFINE Placed(n) == /\ Epoch[n] \in 0 .. n /\ Epoch[n] \in Floor(Epoch, n)
                        /\ \A y \in Floor(Epoch, n) : Epoch[n] >= y
           Bad == {n \in Indices : ~Placed(n)}
<1>0. Indices = 1 .. Len(nodes) /\ Len(nodes) \in Nat
  BY IndicesAre
<1>1. ASSUME Bad # {} PROVE FALSE
  <2>1. Bad \subseteq Nat
    BY <1>0
  <2>2. PICK n \in Bad : \A j \in Bad : n <= j
    <3> HIDE DEF Bad
    <3> QED BY <1>1, <2>1, LeastNatural
  <2>3. n \in Indices /\ n \in Nat \ {0}
    BY <1>0, <2>2
  <2>4. \A m \in Before(n) : m \in Indices /\ m < n
    BY <2>3, IndicesAre DEF GraphInv, Before, Reads
  <2>5. \A m \in Before(n) : Epoch[m] \in 0 .. m
    BY <1>0, <2>2, <2>3, <2>4
  <2>6. Floor(Epoch, n) \subseteq 0 .. n
    BY <1>0, <2>3, <2>4, <2>5 DEF Floor
  <2>7. Floor(Epoch, n) # {}
    BY DEF Floor
  <2>8. \E x \in Floor(Epoch, n) : \A y \in Floor(Epoch, n) : x >= y
    BY <2>3, <2>6, <2>7, GreatestNatural
  <2>9. Epoch[n] = Latest(Epoch, n)
    BY <2>3, EpochEquation
  <2>10. Placed(n)
    BY <2>6, <2>8, <2>9 DEF Latest
  <2> QED BY <2>2, <2>10
<1> QED BY <1>1

\* A node with one input, on the side of that input, is in its group.
LEMMA EpochFollows ==
    ASSUME GraphInv, NEW p \in Indices, NEW n \in Indices, p \in claimed, n \in claimed,
           \A t : Reads(n, t) <=> t = p
    PROVE  Epoch[n] = Epoch[p]
<1>1. Before(n) = {p}
  BY DEF Before
<1>2. Epoch[p] \in Nat /\ Epoch[n] \in Nat
  BY EpochTyped, IndicesAre
<1>3. Floor(Epoch, n) = {Epoch[p], 0}
  BY <1>1, <1>2 DEF Floor
<1>4. Epoch[n] \in {Epoch[p], 0} /\ Epoch[n] >= Epoch[p]
  BY <1>3, EpochTyped
<1> QED BY <1>2, <1>4

-----------------------------------------------------------------------------
(* The lowering.                                                           *)

\* What the plan says of a node with one input: TFLite resolved its plane.
Shaped(n) ==
    nodes[n].op # "add" =>
        /\ DOMAIN nodes[n].ins = {1}
        /\ nodes[n].dim = ResultDim(nodes[n].op, dim(nodes[n].ins[1]), nodes[n].stride,
                                    nodes[n].pad)

ShapeInv == \A n \in Indices : Shaped(n)

\* Only an output nobody reads is a PAD, unless the model may have others
OutputsInv ==
    phase \notin {"model"} => \A n \in outputs : IsPad(n) /\ Readers(n) # {} => PadOutputs

\* Before at, every claimed node has been met: a PAD is known by its geometry, any
\* other node is a layer
LowerInv2 ==
    phase \in {"lower", "running", "refused"} =>
        /\ phase = "running" => at \notin Indices
        /\ \A n \in DOMAIN pads : IsPad(n) /\ n < at
        /\ \A n \in claimed : n < at =>
              IF IsPad(n)
              THEN /\ n \in DOMAIN pads
                   /\ pads[n] = [src |-> nodes[n].ins[1], lead |-> nodes[n].pad[1],
                                 trail |-> nodes[n].pad[2]]
              ELSE n \in layers

\* A SAME convolution behind a claimed PAD
SameBehindPad(n) ==
    nodes[n].op = "conv_same" /\ nodes[n].ins[1] \in claimed /\ IsPad(nodes[n].ins[1])

RefusedInv == phase = "refused" => \E n \in claimed : SameBehindPad(n)

LInv == IInv /\ ShapeInv /\ OutputsInv /\ LowerInv2 /\ RefusedInv

\* A node that is no addition reads one tensor, an earlier one.
LEMMA OneInput ==
    ASSUME GraphInv, ShapeInv, NEW n \in Indices, nodes[n].op # "add"
    PROVE  /\ \A t : Reads(n, t) <=> t = nodes[n].ins[1]
           /\ nodes[n].ins[1] \in 0 .. (n - 1)
BY DEF GraphInv, ShapeInv, Shaped, Reads

\* The readers of a claimed PAD are claimed windows.
LEMMA PadReaders ==
    ASSUME claimed = Target, NEW n \in claimed, IsPad(n), NEW m \in Readers(n)
    PROVE  m \in claimed /\ IsWindow(nodes[m].op) /\ nodes[m].ins[1] = n
<1>1. folds_pad(m, n) /\ kind_supported(m) /\ m \in Indices
  BY DEF Target, Foldable, Readers
<1>2. ~IsPad(m)
  BY <1>1 DEF folds_pad, IsWindow, IsPad
<1> QED BY <1>1, <1>2 DEF Target, folds_pad

\* So TFLite, which knows nothing of the fold, still groups the two together.
LEMMA PadEpoch ==
    ASSUME IInv, ShapeInv, claimed = Target, NEW n \in claimed, IsPad(n), NEW m \in Readers(n)
    PROVE  Epoch[m] = Epoch[n]
<1>1. m \in claimed /\ IsWindow(nodes[m].op) /\ nodes[m].ins[1] = n
  BY PadReaders
<1>2. m \in Indices /\ n \in Indices
  BY <1>1 DEF Target
<1>3. nodes[m].op # "add"
  BY <1>1 DEF IsWindow
<1> QED BY <1>1, <1>2, <1>3, OneInput, EpochFollows DEF IInv

\* A window computes the same extent from the PAD's input as TFLite did from its
\* output; only SAME, whose extent ignores the padding, does not.
LEMMA FoldExtent ==
    ASSUME NEW in \in Nat, NEW lead \in Nat, NEW trail \in Nat, NEW stride \in Nat \ {0},
           NEW ex, ex = <<lead, trail>>,
           NEW span \in Int, span = in + lead + trail - K + stride
    PROVE  explicit_pad(in, stride, ex)[1] = span \div stride
<1>1. explicit_pad(in, stride, ex)[1] = ((in + lead + trail - K) \div stride) + 1
  BY DEF explicit_pad
<1>2. in + lead + trail - K \in Int /\ K \in Int
  BY SizesAssumption
<1> DEFINE a == in + lead + trail - K
<1>3. (a + stride) \div stride = (a \div stride) + 1
  BY <1>2
<1>4. span = a + stride
  BY <1>2
<1> QED BY <1>1, <1>3, <1>4

\* Lowering takes every claimed node but that one.
LEMMA LowersUnlessSame ==
    ASSUME LInv, phase = "lower", at \in claimed, ~IsPad(at), ~SameBehindPad(at)
    PROVE  Lowers(at)
<1> USE DEF LInv, IInv
<1>0. Indices = 1 .. Len(nodes) /\ Len(nodes) \in Nat /\ at \in Indices /\ at \in Nat
  BY IndicesAre DEF TypeOK
<1> SUFFICES ASSUME IsWindow(nodes[at].op) PROVE Lowers(at)
  BY DEF Lowers
<1> DEFINE op == nodes[at].op
           in == nodes[at].ins[1]
           f == Folded(at, in)
           src == IF f = << >> THEN in ELSE f.src
           ex == IF f = << >> THEN << >> ELSE <<f.lead, f.trail>>
           stride == nodes[at].stride
<1>1. op # "add" /\ op \in {"conv_same", "conv_valid", "conv_refused", "avgpool"}
  BY DEF IsWindow
<1>2. in \in 0 .. (at - 1)
  BY <1>0, <1>1, OneInput
<1>3. nodes[at].dim = ResultDim(op, dim(in), stride, nodes[at].pad)
  BY <1>0, <1>1 DEF ShapeInv, Shaped
<1>4. nodes[at] \in Node
  BY <1>0 DEF GraphInv
<1>5. stride \in Nat \ {0}
  BY <1>4 DEF Node
<1>6. SUFFICES resolve_pad(dim(src), stride, op = "conv_same", ex)[1] = nodes[at].dim
  BY DEF Lowers
<1>7. CASE f = << >>
  <2>1. src = in /\ ex = << >>
    BY <1>7
  <2>2. CASE op = "conv_same"
    BY <1>3, <2>1, <2>2 DEF resolve_pad, ResultDim
  <2>3. CASE op \in {"conv_valid", "conv_refused", "avgpool"}
    BY <1>3, <2>1, <2>3 DEF resolve_pad, ResultDim
  <2> QED BY <1>1, <2>2, <2>3
<1>8. CASE f # << >>
  <2>1. in \in DOMAIN pads /\ in \in claimed /\ f = pads[in]
    BY <1>8 DEF Folded
  <2>2. IsPad(in) /\ in < at
    BY <2>1 DEF LowerInv2
  <2>3. op # "conv_same"
    BY <2>1, <2>2 DEF SameBehindPad
  <2>4. f = [src |-> nodes[in].ins[1], lead |-> nodes[in].pad[1], trail |-> nodes[in].pad[2]]
    BY <2>1, <2>2 DEF LowerInv2
  <2>5. in \in Indices /\ nodes[in].op # "add" /\ nodes[in].op = "pad"
    BY <2>1, <2>2 DEF TypeOK, IsPad
  <2>6. nodes[in] \in Node
    BY <1>0, <2>5 DEF GraphInv
  <2>7. nodes[in].pad \in Nat \X Nat
    BY <2>6 DEF Node
  <2>8. f.src = nodes[in].ins[1] /\ f.src \in 0 .. (in - 1)
    <3>1. f.src = nodes[in].ins[1]
      BY <2>4
    <3> HIDE DEF f, in
    <3>2. nodes[in].ins[1] \in 0 .. (in - 1)
      BY <2>5, OneInput
    <3> QED BY <3>1, <3>2
  <2>9. dim(f.src) \in Nat
    <3> HIDE DEF f, in
    <3>1. f.src = 0 \/ f.src \in Indices
      BY <1>0, <1>2, <2>5, <2>8
    <3> QED BY <3>1, SizesAssumption DEF dim, TypeOK
  <2>10. dim(in) = dim(f.src) + nodes[in].pad[1] + nodes[in].pad[2]
    <3>1. dim(in) = nodes[in].dim
      BY <1>0, <2>5 DEF dim
    <3>2. nodes[in].dim = ResultDim("pad", dim(f.src), nodes[in].stride, nodes[in].pad)
      <4> HIDE DEF f, in
      <4>1. Shaped(in)
        BY <2>5 DEF ShapeInv
      <4> QED BY <2>5, <2>8, <4>1 DEF Shaped
    <3> QED BY <3>1, <3>2 DEF ResultDim
  <2>11. nodes[at].dim = (dim(in) - K + stride) \div stride
    <3>1. op \in {"conv_valid", "conv_refused", "avgpool"}
      BY <1>1, <2>3
    <3> HIDE DEF in, stride, op
    <3> QED BY <1>3, <3>1 DEF ResultDim
  <2>12. src = f.src /\ ex = <<nodes[in].pad[1], nodes[in].pad[2]>>
    <3>1. f.lead = nodes[in].pad[1] /\ f.trail = nodes[in].pad[2]
      BY <2>4
    <3> HIDE DEF f
    <3> QED BY <1>8, <3>1
  <2> DEFINE d == dim(f.src)
             lead == nodes[in].pad[1]
             trail == nodes[in].pad[2]
             same == op = "conv_same"
  <2>13. d \in Nat /\ lead \in Nat /\ trail \in Nat /\ stride \in Nat \ {0}
    BY <1>5, <2>7, <2>9
  <2> DEFINE span == d + lead + trail - K + stride
  <2>14. dim(src) = d /\ ex = <<lead, trail>> /\ ex # << >>
    <3> HIDE DEF f, ex, src
    <3> QED BY <2>12
  <2>15. nodes[at].dim = span \div stride
    <3> DEFINE e == dim(in)
    <3>1. e = d + lead + trail /\ nodes[at].dim = (e - K + stride) \div stride
      BY <2>10, <2>11
    <3> HIDE DEF d, lead, trail, stride, e
    <3>2. e - K + stride = span
      BY <2>13, <3>1, SizesAssumption
    <3> QED BY <3>1, <3>2
  <2>16. span \in Int /\ span = d + lead + trail - K + stride /\ K \in Int
    BY <2>13, SizesAssumption
  <2> HIDE DEF f, src, ex, in, op, stride
  <2> HIDE DEF d, lead, trail, same, span
  <2>17. explicit_pad(d, stride, ex)[1] = span \div stride
    BY ONLY <2>13, <2>14, <2>16, FoldExtent
  <2>18. resolve_pad(dim(src), stride, same, ex) = explicit_pad(d, stride, ex)
    BY <2>14 DEF resolve_pad
  <2> QED BY <2>15, <2>17, <2>18 DEF same
<1> QED BY <1>7, <1>8

\* A claimed PAD is met with no other ahead of it: PADs in a row are not claimed.
LEMMA NoPadAhead ==
    ASSUME LInv, phase = "lower", at \in claimed, IsPad(at)
    PROVE  Folded(at, nodes[at].ins[1]) = << >>
<1> USE DEF LInv, IInv
<1>1. at \in Indices /\ claimed = Target
  BY DEF TypeOK, FixInv
<1> SUFFICES ASSUME nodes[at].ins[1] \in DOMAIN pads, nodes[at].ins[1] \in claimed PROVE FALSE
  BY DEF Folded
<1>2. IsPad(nodes[at].ins[1])
  BY DEF LowerInv2
<1>3. at \in Readers(nodes[at].ins[1])
  BY <1>1, OneInput DEF Readers, IsPad
<1>4. IsWindow(nodes[at].op)
  BY <1>1, <1>2, <1>3, PadReaders
<1> QED BY <1>4 DEF IsWindow, IsPad

-----------------------------------------------------------------------------
(* The lowering's invariant.                                               *)

LEMMA LoweringInit == Init => ShapeInv /\ OutputsInv /\ LowerInv2 /\ RefusedInv
BY DEF Init, ShapeInv, OutputsInv, LowerInv2, RefusedInv, Indices

\* A node that is added reads planes that are there, and leaves theirs alone.
LEMMA ShapeAddNode ==
    ASSUME IInv, ShapeInv, AddNode
    PROVE  ShapeInv'
<1> USE DEF IInv, GraphInv
<1>0. Indices = 1 .. Len(nodes) /\ Len(nodes) \in Nat
  BY IndicesAre
<1>1. PICK op \in Ops, a \in 0 .. Len(nodes), b \in 0 .. Len(nodes), stride \in Strides,
           pad \in Pads :
         nodes' = Append(nodes, [op |-> op, stride |-> stride, pad |-> pad,
                                 dim |-> ResultDim(op, dim(a), stride, pad),
                                 ins |-> IF op = "add" THEN <<a, b>> ELSE <<a>>])
  BY ZenonT(60) DEF AddNode
<1> DEFINE L == Len(nodes)
           new == [op |-> op, stride |-> stride, pad |-> pad,
                   dim |-> ResultDim(op, dim(a), stride, pad),
                   ins |-> IF op = "add" THEN <<a, b>> ELSE <<a>>]
<1>2. /\ new.op = op /\ new.stride = stride /\ new.pad = pad
      /\ new.dim = ResultDim(op, dim(a), stride, pad)
      /\ op # "add" => new.ins = <<a>>
  BY DEF new
<1>3. nodes' \in Seq(Node) /\ Len(nodes') = L + 1
  BY AddNodeGraph
<1> HIDE DEF new
<1>4. nodes'[L + 1] = new /\ \A n \in 1 .. L : nodes'[n] = nodes[n]
  BY <1>0, <1>1, <1>3 DEF new
<1>5. Indices' = 1 .. (L + 1)
  BY <1>3 DEF Indices
<1>6. \A t \in 0 .. L : dim(t)' = dim(t)
  BY <1>4 DEF dim
<1>7. ASSUME NEW n \in Indices' PROVE Shaped(n)'
  <2>1. CASE n = L + 1
    <3>1. SUFFICES ASSUME op # "add"
                   PROVE  /\ DOMAIN nodes'[n].ins = {1}
                          /\ nodes'[n].dim = ResultDim(op, dim(nodes[n].ins[1])', stride, pad)
      BY <1>2, <1>4, <2>1 DEF Shaped
    <3>2. nodes'[n].ins = <<a>>
      BY <1>2, <1>4, <2>1, <3>1
    <3>3. DOMAIN nodes'[n].ins = {1} /\ nodes'[n].ins[1] = a
      BY <3>2
    <3>4. dim(nodes[n].ins[1])' = dim(a)
      BY <1>6, <3>3 DEF dim
    <3> QED BY <1>2, <1>4, <2>1, <3>3, <3>4
  <2>2. CASE n \in 1 .. L
    <3>1. nodes'[n] = nodes[n] /\ n \in Indices /\ Shaped(n)
      BY <1>0, <1>4, <2>2 DEF ShapeInv
    <3>2. nodes[n].op # "add" => nodes[n].ins[1] \in 0 .. L
      BY <1>0, <2>2, <3>1, OneInput
    <3>3. nodes[n].op # "add" => dim(nodes[n].ins[1])' = dim(nodes[n].ins[1])
      BY <1>4, <3>1, <3>2 DEF dim
    <3> QED BY <3>1, <3>3 DEF Shaped
  <2> QED BY <1>0, <1>5, <2>1, <2>2
<1> QED BY <1>7 DEF ShapeInv

\* With the model given, the lowering's parts stand or fall with the variables
\* they name.
LEMMA SameLowering ==
    ASSUME UNCHANGED nodes
    PROVE  /\ ShapeInv => ShapeInv'
           /\ \A n : (Readers(n))' = Readers(n)
           /\ claimed' = claimed => \A n : SameBehindPad(n)' <=> SameBehindPad(n)
           /\ phase # "model" /\ outputs' = outputs /\ OutputsInv => OutputsInv'
<1>1. Indices' = Indices /\ \A t : dim(t)' = dim(t)
  BY DEF Indices, dim
<1>2. \A n : Shaped(n)' <=> Shaped(n)
  BY <1>1 DEF Shaped, dim
<1>3. \A n : (Readers(n))' = Readers(n)
  BY <1>1 DEF Readers, Reads
<1>4. claimed' = claimed => \A n : SameBehindPad(n)' <=> SameBehindPad(n)
  BY DEF SameBehindPad, IsPad
<1> QED BY <1>1, <1>2, <1>3, <1>4 DEF ShapeInv, OutputsInv, IsPad

\* Up to the end of the claim nothing is lowered.
LEMMA LoweringClaim ==
    ASSUME LInv, AddNode \/ ModelDone \/ Claim
    PROVE  ShapeInv' /\ OutputsInv' /\ LowerInv2' /\ RefusedInv'
<1> USE DEF LInv, IInv
<1>1. CASE AddNode
  <2>1. ShapeInv'
    BY <1>1, ShapeAddNode
  <2>2. phase' = "model"
    BY <1>1 DEF AddNode
  <2> QED BY <2>1, <2>2 DEF OutputsInv, LowerInv2, RefusedInv
<1>2. CASE ModelDone
  <2>1. phase' = "gate" /\ UNCHANGED nodes
    BY <1>2 DEF ModelDone
  <2>2. \A n \in outputs' : IsPad(n) /\ Readers(n) # {} => PadOutputs
    BY <1>2 DEF ModelDone
  <2>3. \A n \in outputs' : IsPad(n)' /\ (Readers(n))' # {} => PadOutputs
    BY <2>1, <2>2, SameLowering, SameGraph
  <2> QED BY <2>1, <2>3, SameLowering DEF OutputsInv, LowerInv2, RefusedInv
<1>3. CASE Gate \/ FixNode
  <2>1. phase' = "fix" /\ UNCHANGED <<nodes, outputs>> /\ phase # "model"
    BY <1>3 DEF Gate, FixNode
  <2> QED BY <2>1, SameLowering DEF LowerInv2, RefusedInv
<1>4. CASE FixPass
  <2>1. /\ phase = "fix" /\ phase' \in {"fix", "lower"} /\ at' = 1
        /\ UNCHANGED <<nodes, outputs, claimed, pads, layers>>
    BY <1>4 DEF FixPass
  <2>2. DOMAIN pads' = {} /\ \A n \in claimed' : ~(n < at')
    BY <2>1, IndicesAre DEF FixInv, TypeOK
  <2>3. LowerInv2'
    BY <2>1, <2>2 DEF LowerInv2
  <2> QED BY <2>1, <2>3, SameLowering DEF RefusedInv
<1> QED BY <1>1, <1>2, <1>3, <1>4 DEF Claim

\* And then every claimed node is met once, in the order of the plan.
LEMMA LoweringLower ==
    ASSUME LInv, Lower \/ UNCHANGED vars
    PROVE  ShapeInv' /\ OutputsInv' /\ LowerInv2' /\ RefusedInv'
<1> USE DEF LInv, IInv
<1>0. Indices = 1 .. Len(nodes) /\ Len(nodes) \in Nat /\ at \in Nat /\ claimed \subseteq Indices
  BY IndicesAre DEF TypeOK
<1>6. ASSUME phase = "lower", NEW n \in DOMAIN pads PROVE IsPad(n) /\ n < at /\ n < at + 1
  <2>1. n \in 1 .. Len(nodes)
    BY <1>0 DEF TypeOK
  <2>2. IsPad(n) /\ n < at
    BY <1>6 DEF LowerInv2
  <2> QED BY <1>0, <2>1, <2>2
<1>1. CASE InitPad
  <2>1. /\ phase = "lower" /\ phase' = "lower" /\ at \in Indices /\ at \in claimed /\ IsPad(at)
        /\ UNCHANGED <<nodes, outputs, claimed, layers>> /\ at' = at + 1
    BY <1>1 DEF InitPad
  <2>2. Folded(at, nodes[at].ins[1]) = << >>
    BY <2>1, NoPadAhead
  <2>3. pads' = [t \in DOMAIN pads \cup {at} |->
                    IF t = at THEN [src |-> nodes[at].ins[1], lead |-> nodes[at].pad[1],
                                    trail |-> nodes[at].pad[2]]
                    ELSE pads[t]]
    BY <1>1, <2>2 DEF InitPad
  <2>4. \A n \in DOMAIN pads' : IsPad(n) /\ n < at + 1
    BY <1>0, <1>6, <2>1, <2>3
  <2>5. ASSUME NEW n \in claimed, n < at + 1
        PROVE  IF IsPad(n)
               THEN /\ n \in DOMAIN pads'
                    /\ pads'[n] = [src |-> nodes[n].ins[1], lead |-> nodes[n].pad[1],
                                   trail |-> nodes[n].pad[2]]
               ELSE n \in layers
    <3>1. n = at \/ n < at
      BY <1>0, <2>5
    <3>2. CASE n = at
      BY <2>1, <2>3, <3>2
    <3>3. CASE n < at /\ n # at
      BY <2>1, <2>3, <3>3 DEF LowerInv2
    <3> QED BY <1>0, <3>1, <3>2, <3>3
  <2>6. LowerInv2'
    BY <2>1, <2>4, <2>5, SameGraph DEF LowerInv2
  <2> QED BY <2>1, <2>6, SameLowering DEF RefusedInv
<1>2. CASE InitLayer
  <2>1. /\ phase = "lower" /\ at \in Indices /\ at \in claimed /\ ~IsPad(at)
        /\ UNCHANGED <<nodes, outputs, claimed, pads>>
    BY <1>2 DEF InitLayer
  <2>2. CASE Lowers(at)
    <3>1. layers' = layers \cup {at} /\ at' = at + 1 /\ phase' = "lower"
      BY <1>2, <2>1, <2>2 DEF InitLayer
    <3>2. \A n \in DOMAIN pads : IsPad(n) /\ n < at + 1
      BY <1>6, <2>1
    <3>3. ASSUME NEW n \in claimed, n < at + 1 PROVE n < at \/ (n = at /\ ~IsPad(n))
      BY <1>0, <2>1, <3>3
    <3>4. LowerInv2'
      BY <2>1, <3>1, <3>2, <3>3, SameGraph DEF LowerInv2
    <3> QED BY <2>1, <3>1, <3>4, SameLowering DEF RefusedInv
  <2>3. CASE ~Lowers(at)
    <3>1. layers' = layers /\ at' = at /\ phase' = "refused"
      BY <1>2, <2>1, <2>3 DEF InitLayer
    <3>2. SameBehindPad(at)
      BY <2>1, <2>3, LowersUnlessSame
    <3>3. RefusedInv'
      BY <2>1, <3>2, SameLowering DEF RefusedInv
    <3>4. LowerInv2'
      BY <2>1, <3>1, SameGraph DEF LowerInv2
    <3> QED BY <2>1, <3>3, <3>4, SameLowering
  <2> QED BY <2>2, <2>3
<1>3. CASE InitSkip
  <2>1. /\ phase = "lower" /\ phase' = "lower" /\ at \in Indices /\ at \notin claimed
        /\ UNCHANGED <<nodes, outputs, claimed, pads, layers>> /\ at' = at + 1
    BY <1>3 DEF InitSkip
  <2>2. \A n \in DOMAIN pads : IsPad(n) /\ n < at + 1
    BY <1>6, <2>1
  <2>3. ASSUME NEW n \in claimed, n < at + 1 PROVE n < at
    <3>1. n # at
      BY <2>1
    <3> QED BY <1>0, <2>3, <3>1
  <2>4. LowerInv2'
    BY <2>1, <2>2, <2>3, SameGraph DEF LowerInv2
  <2> QED BY <2>1, <2>4, SameLowering DEF RefusedInv
<1>4. CASE InitEnd
  <2>1. /\ phase = "lower" /\ phase' = "running" /\ at \notin Indices
        /\ UNCHANGED <<nodes, outputs, claimed, at, pads, layers>>
    BY <1>4 DEF InitEnd
  <2>2. LowerInv2'
    BY <2>1, SameGraph DEF LowerInv2
  <2> QED BY <2>1, <2>2, SameLowering DEF RefusedInv
<1>5. CASE UNCHANGED vars
  <2>1. UNCHANGED <<nodes, outputs, claimed, at, pads, layers, phase>>
    BY <1>5 DEF vars
  <2>2. LowerInv2' /\ OutputsInv'
    BY <2>1, SameGraph, SameLowering DEF LowerInv2, OutputsInv
  <2>3. RefusedInv'
    BY <2>1, SameLowering DEF RefusedInv
  <2> QED BY <2>1, <2>2, <2>3, SameLowering
<1> QED BY <1>1, <1>2, <1>3, <1>4, <1>5 DEF Lower

\* Every claimed PAD is known by its own geometry, every other claimed node met so
\* far is a layer, and only a SAME convolution behind a claimed PAD is refused.
THEOREM LoweringInvariance == Spec => []LInv
<1>1. Init => LInv
  BY InitInv, LoweringInit DEF LInv
<1>2. ASSUME LInv, [Next]_vars PROVE LInv'
  <2>1. IInv'
    BY <1>2, ModelInv, ClaimInv, LowerInv DEF LInv, Next
  <2>2. ShapeInv' /\ OutputsInv' /\ LowerInv2' /\ RefusedInv'
    BY <1>2, LoweringClaim, LoweringLower DEF Next
  <2> QED BY <2>1, <2>2 DEF LInv
<1> QED BY <1>1, <1>2, PTL DEF Spec

-----------------------------------------------------------------------------
(* What the lowering gives.                                                *)

\* A claimed PAD and its readers are in one partition: the claim closes over what
\* TFLite, which knows nothing of folding, then groups by itself.
THEOREM Together == Spec => []PadWithReaders
<1>1. ASSUME LInv PROVE PadWithReaders
  <2> SUFFICES ASSUME phase \in {"lower", "running", "refused"} PROVE PadWithReaders
    BY DEF PadWithReaders
  <2>1. claimed = Target
    BY <1>1 DEF LInv, IInv, FixInv
  <2> QED BY <1>1, <2>1, PadEpoch DEF LInv, PadWithReaders
<1> QED BY LoweringInvariance, <1>1, PTL

\* The kernel refuses a claimed partition for one reason only.
RefusedForSame == phase = "refused" => \E n \in claimed : SameBehindPad(n)

\* Whatever the model, what fails it in Init is a SAME convolution behind a PAD the
\* claim folded into it: the one operator whose extent TFLite computes without the
\* padding.
THEOREM OnlySameRefused == Spec => []RefusedForSame
<1>1. LInv => RefusedForSame
  BY DEF LInv, RefusedInv, RefusedForSame
<1> QED BY LoweringInvariance, <1>1, PTL

\* So a model without SAME convolutions is never failed by the kernel that claimed
\* it.
THEOREM LowersVALID ==
    ASSUME "conv_same" \notin Ops
    PROVE  Spec => []ClaimLowers
<1>1. ASSUME LInv PROVE ClaimLowers
  <2>1. ASSUME NEW n \in claimed, SameBehindPad(n) PROVE FALSE
    BY <1>1, <2>1 DEF SameBehindPad, LInv, IInv, TypeOK
  <2> QED BY <1>1, <2>1 DEF LInv, RefusedInv, ClaimLowers
<1> QED BY LoweringInvariance, <1>1, PTL

\* What a partition owes the rest of the model and no layer writes is a PAD the
\* model itself returns.
Owed ==
    phase = "running" =>
        \A n \in Indices : PartitionOutput(n) => n \in layers \/ (IsPad(n) /\ n \in outputs)

\* The claim's test of a PAD's readers leaves one way out of the claimed set: the
\* model's output list, which it does not read.
THEOREM OnlyOutputsEscape == Spec => []Owed
<1>1. ASSUME LInv PROVE Owed
  <2> USE DEF LInv, IInv
  <2> SUFFICES ASSUME phase = "running", NEW n \in Indices, PartitionOutput(n)
               PROVE  n \in layers \/ (IsPad(n) /\ n \in outputs)
    BY DEF Owed
  <2>1. claimed = Target /\ n \in claimed
    BY <1>1 DEF FixInv, PartitionOutput
  <2>2. n < at
    BY <1>1, IndicesAre DEF LowerInv2, TypeOK
  <2>3. CASE ~IsPad(n)
    BY <1>1, <2>1, <2>2, <2>3 DEF LowerInv2
  <2>4. CASE IsPad(n)
    <3>1. \A m \in Readers(n) : m \in claimed /\ Epoch[m] = Epoch[n]
      BY <1>1, <2>1, <2>4, PadReaders, PadEpoch
    <3> QED BY <2>4, <3>1 DEF PartitionOutput
  <2> QED BY <2>3, <2>4
<1> QED BY LoweringInvariance, <1>1, PTL

\* A model that returns no PAD somebody also reads gets every tensor it is owed.
THEOREM HaveLayers ==
    ASSUME PadOutputs = FALSE
    PROVE  Spec => []OutputsHaveLayers
<1>1. ASSUME LInv, Owed PROVE OutputsHaveLayers
  <2> USE DEF LInv, IInv
  <2> SUFFICES ASSUME phase = "running", NEW n \in Indices, PartitionOutput(n),
                      IsPad(n), n \in outputs
               PROVE  FALSE
    BY <1>1 DEF OutputsHaveLayers, Owed
  <2>1. n \in Target
    BY <1>1 DEF FixInv, PartitionOutput
  <2>2. Readers(n) # {}
    BY <2>1 DEF Target, Foldable
  <2> QED BY <1>1, <2>2 DEF OutputsInv
<1> QED BY LoweringInvariance, OnlyOutputsEscape, <1>1, PTL
=============================================================================

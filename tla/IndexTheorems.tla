--------------------------- MODULE IndexTheorems ---------------------------
(***************************************************************************)
(* Index arithmetic for the proofs of several components.                  *)
(*                                                                         *)
(* Facts by induction first.  The library's induction theorems take a      *)
(* predicate as an operator; here induction is a least counterexample,     *)
(* whose existence WFMin states without one: LeastNatural for numbers,     *)
(* LeastSet for finite sets.  From it follow what the folds of the         *)
(* community modules compute (a sum, and a product, over a finite set),    *)
(* what a range set up by counting holds, and that a function defined by   *)
(* recursion over 1 .. n exists.                                           *)
(*                                                                         *)
(* Then the layout of tensors (HostOps).  An offset made of a coordinate   *)
(* and the strides is a number in the mixed radix of the extents           *)
(* (DotInside), and determines the coordinate (DotInjective); what an      *)
(* odometer counts is a coordinate (OdometerInside), and which it is at    *)
(* each step (OdometerAt).  From these, a lemma ...Within for each kernel: *)
(* under what conditions on its arguments it reads and writes inside.      *)
(***************************************************************************)
EXTENDS HostOps, SequenceTheorems, FiniteSetTheorems, WellFoundedInduction, TLAPS

\* The order of the naturals
Below == {ss \in Nat \X Nat : ss[1] < ss[2]}

\* A set of naturals that is not empty has a least element.
LEMMA LeastNatural ==
    ASSUME NEW S, S \subseteq Nat, S # {}
    PROVE  \E x \in S : \A y \in S : x <= y
<1>1. IsWellFoundedOn(Below, Nat)
  BY NatLessThanWellFounded DEF OpToRel, Below
<1>2. PICK x \in S : \A y \in S : ~(<<y, x>> \in Below)
  BY <1>1, WFMin
<1>3. \A y \in S : ~(y < x)
  BY <1>2 DEF Below
<1> QED BY <1>3

\* And, when it is bounded, a greatest one.
LEMMA GreatestNatural ==
    ASSUME NEW b \in Nat, NEW S, S \subseteq 0 .. b, S # {}
    PROVE  \E x \in S : \A y \in S : x >= y
<1> DEFINE R == {k \in Nat : b - k \in S}
<1>1. R # {}
  <2>1. PICK x \in S : TRUE
    OBVIOUS
  <2>2. b - x \in Nat /\ b - (b - x) = x
    BY <2>1
  <2> QED BY <2>1, <2>2
<1>2. PICK k \in R : \A y \in R : k <= y
  BY <1>1, LeastNatural
<1>3. ASSUME NEW y \in S PROVE b - k >= y
  <2>1. b - y \in R
    BY b - (b - y) = y
  <2> QED BY <1>2, <2>1
<1> QED BY <1>2, <1>3

-----------------------------------------------------------------------------
(* The sum, and the product, of a function over a finite set.  The two are *)
(* one fold, over the operation named "sum" or "product".                  *)

Combine(op, a, b) == IF op = "sum" THEN a + b ELSE a * b
Neutral(op) == IF op = "sum" THEN 0 ELSE 1

\* The element a fold takes next
Chosen(s) == CHOOSE x \in s : TRUE
FoldStep(op, f, s, g) ==
    IF s = {} THEN Neutral(op) ELSE Combine(op, f[Chosen(s)], g[s \ {Chosen(s)}])
FoldedBy(op, f, S, it) == it = [s \in SUBSET S |-> FoldStep(op, f, s, it)]
Fold(op, f, S) == (CHOOSE it : FoldedBy(op, f, S, it))[S]

\* Both operations may be taken in any order.
LEMMA CombineLaws ==
    ASSUME NEW op
    PROVE  /\ Neutral(op) \in Int
           /\ \A a \in Int : Combine(op, Neutral(op), a) = a /\ Combine(op, a, Neutral(op)) = a
           /\ \A a, b \in Int : Combine(op, a, b) \in Int
           /\ \A a, b, c \in Int :
                 /\ Combine(op, a, Combine(op, b, c)) = Combine(op, b, Combine(op, a, c))
                 /\ Combine(op, a, Combine(op, b, c)) = Combine(op, Combine(op, a, b), c)
<1>1. ASSUME NEW a \in Int, NEW b \in Int, NEW c \in Int
      PROVE  a * (b * c) = b * (a * c) /\ a * (b * c) = (a * b) * c /\ a * b \in Int
  OBVIOUS
<1> QED BY <1>1 DEF Combine, Neutral

\* The sets of a family of finite sets have a smallest among them.
LEMMA LeastSet ==
    ASSUME NEW F, F # {}, \A s \in F : IsFiniteSet(s)
    PROVE  \E s \in F : \A t \in F : ~(t \subseteq s /\ t # s)
<1> DEFINE C == {Cardinality(s) : s \in F}
<1>1. C \subseteq Nat /\ C # {}
  BY FS_CardinalityType
<1>2. PICK c \in C : \A d \in C : c <= d
  <2> HIDE DEF C
  <2> QED BY <1>1, LeastNatural
<1>3. PICK s \in F : c = Cardinality(s)
  BY <1>2
<1>4. ASSUME NEW t \in F, t \subseteq s, t # s PROVE FALSE
  <2>1. IsFiniteSet(s) /\ t \in SUBSET s
    BY <1>4
  <2>2. Cardinality(t) <= Cardinality(s) /\ Cardinality(t) # Cardinality(s)
    BY <1>4, <2>1, FS_Subset
  <2>3. Cardinality(t) \in Nat /\ Cardinality(s) \in Nat /\ c <= Cardinality(t)
    BY <1>2, FS_CardinalityType
  <2> QED BY <1>3, <2>2, <2>3
<1> QED BY <1>3, <1>4

\* What is left after an element was taken is a smaller set.
LEMMA Picked ==
    ASSUME NEW s, s # {}
    PROVE  Chosen(s) \in s /\ s \ {Chosen(s)} \subseteq s /\ s \ {Chosen(s)} # s
BY DEF Chosen

\* Two solutions agree where both are defined.
LEMMA Unique ==
    ASSUME NEW op, NEW f, NEW S, IsFiniteSet(S), NEW T, T \subseteq S,
           NEW g, NEW h, FoldedBy(op, f, S, g), FoldedBy(op, f, T, h)
    PROVE  h[T] = g[T]
<1> DEFINE Bad == {s \in SUBSET T : h[s] # g[s]}
<1>1. SUFFICES ASSUME Bad # {} PROVE FALSE
  OBVIOUS
<1>2. \A s \in Bad : IsFiniteSet(s)
  BY FS_Subset
<1>3. PICK s \in Bad : \A t \in Bad : ~(t \subseteq s /\ t # s)
  <2> HIDE DEF Bad
  <2> QED BY <1>1, <1>2, LeastSet
<1>4. s \in SUBSET T /\ h[s] # g[s] /\ s \in SUBSET S
  BY <1>3
<1>5. h[s] = FoldStep(op, f, s, h) /\ g[s] = FoldStep(op, f, s, g)
  BY <1>4 DEF FoldedBy
<1>6. CASE s = {}
  BY <1>4, <1>5, <1>6 DEF FoldStep
<1>7. CASE s # {}
  <2> DEFINE t == s \ {Chosen(s)}
  <2>1. t \subseteq s /\ t # s
    BY <1>7, Picked
  <2>2. h[t] = g[t]
    BY <1>3, <1>4, <2>1
  <2> QED BY <1>4, <1>5, <1>7, <2>2 DEF FoldStep
<1> QED BY <1>6, <1>7

\* The recursion has a solution on every finite set.
LEMMA Exists ==
    ASSUME NEW op, NEW f, NEW S, IsFiniteSet(S)
    PROVE  \E it : FoldedBy(op, f, S, it)
<1> DEFINE Bad == {T \in SUBSET S : ~ \E it : FoldedBy(op, f, T, it)}
<1>1. SUFFICES ASSUME Bad # {} PROVE FALSE
  OBVIOUS
<1>2. \A s \in Bad : IsFiniteSet(s)
  BY FS_Subset
<1>3. PICK T \in Bad : \A t \in Bad : ~(t \subseteq T /\ t # T)
  <2> HIDE DEF Bad
  <2> QED BY <1>1, <1>2, LeastSet
<1>4. T \subseteq S /\ IsFiniteSet(T)
  BY <1>2, <1>3
<1>5. \A t \in SUBSET T : t # T => \E it : FoldedBy(op, f, t, it)
  <2> TAKE t \in SUBSET T
  <2> HAVE t # T
  <2>1. t \notin Bad
    BY <1>3
  <2> QED BY <1>4, <2>1
<1> DEFINE val == [t \in SUBSET T |-> (CHOOSE it : FoldedBy(op, f, t, it))[t]]
           it == [t \in SUBSET T |-> IF t = T THEN FoldStep(op, f, T, val) ELSE val[t]]
<1>6. ASSUME NEW s \in SUBSET T PROVE it[s] = FoldStep(op, f, s, it)
  <2>1. s # {} => /\ s \ {Chosen(s)} \in SUBSET T /\ s \ {Chosen(s)} # T
                  /\ it[s \ {Chosen(s)}] = val[s \ {Chosen(s)}]
    <3> SUFFICES ASSUME s # {} PROVE s \ {Chosen(s)} \in SUBSET T /\ s \ {Chosen(s)} # T
      OBVIOUS
    <3> QED BY Picked
  <2>2. FoldStep(op, f, s, it) = FoldStep(op, f, s, val)
    <3> HIDE DEF it, val
    <3> QED BY <2>1 DEF FoldStep
  <2>3. CASE s = T
    BY <2>2, <2>3
  <2>4. CASE s # T
    <3> DEFINE g == CHOOSE it2 : FoldedBy(op, f, s, it2)
    <3>1. FoldedBy(op, f, s, g)
      BY <1>5, <2>4
    <3>2. it[s] = g[s] /\ val[s] = g[s]
      BY <2>4
    <3> HIDE DEF g
    <3>3. g[s] = FoldStep(op, f, s, g)
      BY <3>1 DEF FoldedBy
    <3>4. CASE s = {}
      <4> HIDE DEF it, val
      <4> QED BY <3>2, <3>3, <3>4 DEF FoldStep
    <3>5. CASE s # {}
      <4> DEFINE t == s \ {Chosen(s)}
                 u == CHOOSE it2 : FoldedBy(op, f, t, it2)
      <4>1. t \subseteq s /\ t # s /\ t \in SUBSET T /\ t # T
        BY <3>5, Picked
      <4>2. FoldedBy(op, f, t, u) /\ val[t] = u[t]
        BY <1>5, <4>1
      <4> HIDE DEF u
      <4>3. IsFiniteSet(s)
        BY <1>4, FS_Subset
      <4> HIDE DEF it, val, t
      <4>4. u[t] = g[t]
        BY <3>1, <4>1, <4>2, <4>3, Unique
      <4>5. FoldStep(op, f, s, val) = FoldStep(op, f, s, g)
        BY <4>2, <4>4 DEF FoldStep, t
      <4> QED BY <2>2, <3>2, <3>3, <4>5
    <3> QED BY <3>4, <3>5
  <2> QED BY <2>3, <2>4
<1>7. FoldedBy(op, f, T, it)
  BY <1>6 DEF FoldedBy
<1> QED BY <1>3, <1>7

\* And it gives the fold of every part of the set.
LEMMA FoldSolves ==
    ASSUME NEW op, NEW f, NEW S, IsFiniteSet(S)
    PROVE  \E it : FoldedBy(op, f, S, it) /\ \A T \in SUBSET S : it[T] = Fold(op, f, T)
<1> DEFINE it == CHOOSE g : FoldedBy(op, f, S, g)
<1>1. FoldedBy(op, f, S, it)
  BY Exists
<1> HIDE DEF it
<1>2. ASSUME NEW T \in SUBSET S PROVE it[T] = Fold(op, f, T)
  <2> DEFINE h == CHOOSE g : FoldedBy(op, f, T, g)
  <2>1. IsFiniteSet(T)
    BY FS_Subset
  <2>2. FoldedBy(op, f, T, h)
    BY <2>1, Exists
  <2>3. Fold(op, f, T) = h[T]
    BY DEF Fold
  <2> HIDE DEF h
  <2> QED BY <1>1, <2>2, <2>3, Unique
<1> QED BY <1>1, <1>2

\* Nothing folds to the neutral element.
LEMMA FoldEmpty == ASSUME NEW op, NEW f PROVE Fold(op, f, {}) = Neutral(op)
<1>1. PICK it : FoldedBy(op, f, {}, it) /\ \A T \in SUBSET {} : it[T] = Fold(op, f, T)
  BY FoldSolves, FS_EmptySet
<1>2. it[{}] = FoldStep(op, f, {}, it)
  BY <1>1 DEF FoldedBy
<1> QED BY <1>1, <1>2 DEF FoldStep

\* A fold is the chosen element's value and the rest's.
LEMMA FoldPick ==
    ASSUME NEW op, NEW f, NEW S, IsFiniteSet(S), S # {}
    PROVE  Fold(op, f, S) = Combine(op, f[Chosen(S)], Fold(op, f, S \ {Chosen(S)}))
<1>1. PICK it : FoldedBy(op, f, S, it) /\ \A T \in SUBSET S : it[T] = Fold(op, f, T)
  BY FoldSolves
<1>2. it[S] = FoldStep(op, f, S, it)
  BY <1>1 DEF FoldedBy
<1> QED BY <1>1, <1>2 DEF FoldStep

\* A fold of integers is one.
LEMMA FoldInt ==
    ASSUME NEW op, NEW f, NEW S, IsFiniteSet(S), \A x \in S : f[x] \in Int
    PROVE  Fold(op, f, S) \in Int
<1> DEFINE Bad == {T \in SUBSET S : Fold(op, f, T) \notin Int}
<1>1. SUFFICES ASSUME Bad # {} PROVE FALSE
  OBVIOUS
<1>2. \A s \in Bad : IsFiniteSet(s)
  BY FS_Subset
<1>3. PICK T \in Bad : \A t \in Bad : ~(t \subseteq T /\ t # T)
  <2> HIDE DEF Bad
  <2> QED BY <1>1, <1>2, LeastSet
<1>4. T # {}
  <2>1. Fold(op, f, {}) \in Int
    BY FoldEmpty, CombineLaws
  <2> QED BY <1>3, <2>1
<1>5. Fold(op, f, T \ {Chosen(T)}) \in Int /\ f[Chosen(T)] \in Int
  BY <1>3, <1>4, Picked
<1>6. Fold(op, f, T) = Combine(op, f[Chosen(T)], Fold(op, f, T \ {Chosen(T)}))
  BY <1>2, <1>3, <1>4, FoldPick
<1> QED BY <1>3, <1>5, <1>6, CombineLaws

\* A fold only depends on the values at the elements.
LEMMA FoldSame ==
    ASSUME NEW op, NEW f, NEW g, NEW S, IsFiniteSet(S), \A x \in S : f[x] = g[x]
    PROVE  Fold(op, f, S) = Fold(op, g, S)
<1> DEFINE Bad == {T \in SUBSET S : Fold(op, f, T) # Fold(op, g, T)}
<1>1. SUFFICES ASSUME Bad # {} PROVE FALSE
  OBVIOUS
<1>2. \A s \in Bad : IsFiniteSet(s)
  BY FS_Subset
<1>3. PICK T \in Bad : \A t \in Bad : ~(t \subseteq T /\ t # T)
  <2> HIDE DEF Bad
  <2> QED BY <1>1, <1>2, LeastSet
<1>4. T # {}
  BY <1>3, FoldEmpty
<1>5. /\ Fold(op, f, T \ {Chosen(T)}) = Fold(op, g, T \ {Chosen(T)})
      /\ f[Chosen(T)] = g[Chosen(T)]
  BY <1>3, <1>4, Picked
<1>6. /\ Fold(op, f, T) = Combine(op, f[Chosen(T)], Fold(op, f, T \ {Chosen(T)}))
      /\ Fold(op, g, T) = Combine(op, g[Chosen(T)], Fold(op, g, T \ {Chosen(T)}))
  BY <1>2, <1>3, <1>4, FoldPick
<1> QED BY <1>3, <1>5, <1>6

\* Whichever element is taken first, the fold is the same.
LEMMA FoldTake ==
    ASSUME NEW op, NEW f, NEW S, IsFiniteSet(S), \A x \in S : f[x] \in Int, NEW x \in S
    PROVE  Fold(op, f, S) = Combine(op, f[x], Fold(op, f, S \ {x}))
<1> DEFINE Fine(T) == \A y \in T : Fold(op, f, T) = Combine(op, f[y], Fold(op, f, T \ {y}))
           Bad == {T \in SUBSET S : ~Fine(T)}
<1>1. SUFFICES ASSUME Bad # {} PROVE FALSE
  OBVIOUS
<1>2. \A s \in Bad : IsFiniteSet(s)
  BY FS_Subset
<1>3. PICK T \in Bad : \A t \in Bad : ~(t \subseteq T /\ t # T)
  <2> HIDE DEF Bad
  <2> QED BY <1>1, <1>2, LeastSet
<1>4. PICK y \in T : Fold(op, f, T) # Combine(op, f[y], Fold(op, f, T \ {y}))
  BY <1>3
<1> DEFINE p == Chosen(T)
<1>5. T \subseteq S /\ p \in T /\ IsFiniteSet(T)
  BY <1>2, <1>3, <1>4, Picked
<1>6. Fold(op, f, T) = Combine(op, f[p], Fold(op, f, T \ {p}))
  BY <1>4, <1>5, FoldPick
<1> HIDE DEF p
<1>7. y # p
  BY <1>4, <1>6
<1>8. Fine(T \ {p}) /\ Fine(T \ {y})
  BY <1>3, <1>4, <1>5
<1> DEFINE R == (T \ {p}) \ {y}
<1>9. (T \ {y}) \ {p} = R
  OBVIOUS
<1>10. /\ Fold(op, f, T \ {p}) = Combine(op, f[y], Fold(op, f, R))
       /\ Fold(op, f, T \ {y}) = Combine(op, f[p], Fold(op, f, R))
  BY <1>4, <1>5, <1>7, <1>8, <1>9
<1>11. Fold(op, f, R) \in Int /\ f[y] \in Int /\ f[p] \in Int
  <2>1. R \subseteq S /\ IsFiniteSet(R)
    BY <1>5, FS_Subset
  <2> HIDE DEF R
  <2> QED BY <1>4, <1>5, <2>1, FoldInt
<1> QED BY <1>4, <1>6, <1>10, <1>11, CombineLaws

\* The fold over two sets apart combines their folds.
LEMMA FoldUnion ==
    ASSUME NEW op, NEW f, NEW S, IsFiniteSet(S), NEW T, IsFiniteSet(T), S \cap T = {},
           \A x \in S \cup T : f[x] \in Int
    PROVE  Fold(op, f, S \cup T) = Combine(op, Fold(op, f, S), Fold(op, f, T))
<1> DEFINE Fine(U) == Fold(op, f, S \cup U)
                          = Combine(op, Fold(op, f, S), Fold(op, f, U))
           Bad == {U \in SUBSET T : ~Fine(U)}
<1>1. SUFFICES ASSUME Bad # {} PROVE FALSE
  OBVIOUS
<1>2. \A s \in Bad : IsFiniteSet(s)
  BY FS_Subset
<1>3. PICK U \in Bad : \A t \in Bad : ~(t \subseteq U /\ t # U)
  <2> HIDE DEF Bad
  <2> QED BY <1>1, <1>2, LeastSet
<1>0. Fold(op, f, S) \in Int
  BY FoldInt
<1>4. U # {}
  <2>1. Fine({})
    BY <1>0, FoldEmpty, CombineLaws, S \cup {} = S
  <2> QED BY <1>3, <2>1
<1> DEFINE p == Chosen(U)
           R == U \ {p}
<1>5. p \in U /\ R \subseteq U /\ R # U /\ U \subseteq T
  BY <1>3, <1>4, Picked
<1>6. Fine(R) /\ IsFiniteSet(U) /\ IsFiniteSet(R)
  BY <1>2, <1>3, <1>5, FS_Subset
<1> HIDE DEF p
<1>7. Fold(op, f, U) = Combine(op, f[p], Fold(op, f, R))
  BY <1>5, <1>6, FoldTake
<1>8. Fold(op, f, S \cup U) = Combine(op, f[p], Fold(op, f, S \cup R))
  <2>1. p \in S \cup U /\ (S \cup U) \ {p} = S \cup R
    BY <1>5
  <2>2. IsFiniteSet(S \cup U) /\ \A x \in S \cup U : f[x] \in Int
    BY <1>5, <1>6, FS_Union
  <2> HIDE DEF R
  <2> QED BY <2>1, <2>2, FoldTake
<1>9. Fold(op, f, R) \in Int /\ f[p] \in Int
  BY <1>5, <1>6, FoldInt
<1> HIDE DEF R
<1> QED BY <1>0, <1>3, <1>6, <1>7, <1>8, <1>9, CombineLaws

Renamed(h, S) == {h[x] : x \in S}

\* Renaming the elements does not change a fold.
LEMMA FoldImage ==
    ASSUME NEW op, NEW f, NEW g, NEW h, NEW S, IsFiniteSet(S),
           \A x, y \in S : h[x] = h[y] => x = y,
           \A x \in S : f[h[x]] \in Int /\ g[x] = f[h[x]]
    PROVE  Fold(op, g, S) = Fold(op, f, Renamed(h, S)) /\ IsFiniteSet(Renamed(h, S))
<1> DEFINE Image(T) == Renamed(h, T)
           Fine(T) == /\ Fold(op, g, T) = Fold(op, f, Image(T))
                      /\ IsFiniteSet(Image(T))
           Bad == {T \in SUBSET S : ~Fine(T)}
<1>1. SUFFICES ASSUME Bad # {} PROVE FALSE
  OBVIOUS
<1>2. \A s \in Bad : IsFiniteSet(s)
  BY FS_Subset
<1>3. PICK T \in Bad : \A t \in Bad : ~(t \subseteq T /\ t # T)
  <2> HIDE DEF Bad
  <2> QED BY <1>1, <1>2, LeastSet
<1>4. T # {}
  <2>1. Image({}) = {}
    BY DEF Renamed
  <2>2. Fine({})
    BY <2>1, FoldEmpty, FS_EmptySet
  <2> QED BY <1>3, <2>2
<1> DEFINE p == Chosen(T)
           R == T \ {p}
           I == Image(T)
           J == Image(R)
<1>5. p \in T /\ R \subseteq T /\ R # T /\ T \subseteq S
  BY <1>3, <1>4, Picked
<1>6. Fine(R) /\ IsFiniteSet(T)
  BY <1>2, <1>3, <1>5
<1>7. Fold(op, g, T) = Combine(op, g[p], Fold(op, g, R))
  BY <1>4, <1>6, FoldPick
<1> HIDE DEF p
<1>8. I = J \cup {h[p]} /\ h[p] \in I /\ I \ {h[p]} = J /\ \A y \in I : f[y] \in Int
  BY <1>5 DEF Renamed
<1>9. Fold(op, g, R) = Fold(op, f, J) /\ IsFiniteSet(J)
  BY <1>6
<1> HIDE DEF I, J
<1>10. IsFiniteSet(I)
  BY <1>8, <1>9, FS_AddElement
<1>11. Fold(op, f, I) = Combine(op, f[h[p]], Fold(op, f, J))
  BY <1>8, <1>10, FoldTake
<1>12. g[p] = f[h[p]]
  BY <1>5
<1>13. Fine(T)
  BY <1>7, <1>9, <1>10, <1>11, <1>12 DEF I
<1> QED BY <1>3, <1>13

-----------------------------------------------------------------------------
(* The sum of the community modules is the fold over the sum.              *)

\* What SumFunctionOnSet computes is the fold of "sum".
LEMMA SumIs ==
    ASSUME NEW f, NEW S, IsFiniteSet(S)
    PROVE  \A T \in SUBSET S : SumFunctionOnSet(f, T) = Fold("sum", f, T)
<1> TAKE T \in SUBSET S
<1> DEFINE Solves(it) == it = [s \in SUBSET T |->
                            IF s = {} THEN 0 ELSE f[Chosen(s)] + it[s \ {Chosen(s)}]]
<1>1. \A it : Solves(it) <=> FoldedBy("sum", f, T, it)
  <2>1. \A s, it : FoldStep("sum", f, s, it)
                     = IF s = {} THEN 0 ELSE f[Chosen(s)] + it[s \ {Chosen(s)}]
    BY DEF FoldStep, Combine, Neutral
  <2> QED BY <2>1 DEF FoldedBy
<1>2. SumFunctionOnSet(f, T) = (CHOOSE it : Solves(it))[T]
  BY DEF SumFunctionOnSet, FoldFunctionOnSet, MapThenFoldSet, Chosen
<1>3. IsFiniteSet(T)
  BY FS_Subset
<1> HIDE DEF Solves
<1>4. FoldedBy("sum", f, T, CHOOSE it : Solves(it))
  BY <1>1, <1>3, Exists
<1>5. FoldedBy("sum", f, T, CHOOSE it : FoldedBy("sum", f, T, it))
  BY <1>3, Exists
<1> QED BY <1>2, <1>3, <1>4, <1>5, Unique DEF Fold

\* Nothing adds up to zero.
LEMMA SumEmpty ==
    ASSUME NEW f
    PROVE  SumFunctionOnSet(f, {}) = 0
BY SumIs, FoldEmpty, FS_EmptySet DEF Neutral

\* A sum is the chosen element's value and the rest's.
LEMMA SumPick ==
    ASSUME NEW f, NEW S, IsFiniteSet(S), S # {}
    PROVE  SumFunctionOnSet(f, S) = f[Chosen(S)] + SumFunctionOnSet(f, S \ {Chosen(S)})
BY SumIs, FoldPick DEF Combine

\* A sum of integers is one.
LEMMA SumInt ==
    ASSUME NEW f, NEW S, IsFiniteSet(S), \A x \in S : f[x] \in Int
    PROVE  SumFunctionOnSet(f, S) \in Int
BY SumIs, FoldInt

\* A sum only depends on the values at the elements.
LEMMA SumSame ==
    ASSUME NEW f, NEW g, NEW S, IsFiniteSet(S), \A x \in S : f[x] = g[x]
    PROVE  SumFunctionOnSet(f, S) = SumFunctionOnSet(g, S)
BY SumIs, FoldSame

\* Whichever element is taken first, the sum is the same.
LEMMA SumTake ==
    ASSUME NEW f, NEW S, IsFiniteSet(S), \A x \in S : f[x] \in Int, NEW x \in S
    PROVE  SumFunctionOnSet(f, S) = f[x] + SumFunctionOnSet(f, S \ {x})
BY SumIs, FoldTake DEF Combine

\* The sum over two sets apart is the sum of their sums.
LEMMA SumUnion ==
    ASSUME NEW f, NEW S, IsFiniteSet(S), NEW T, IsFiniteSet(T), S \cap T = {},
           \A x \in S \cup T : f[x] \in Int
    PROVE  SumFunctionOnSet(f, S \cup T) = SumFunctionOnSet(f, S) + SumFunctionOnSet(f, T)
<1>1. IsFiniteSet(S \cup T)
  BY FS_Union
<1>2. /\ SumFunctionOnSet(f, S) = Fold("sum", f, S) /\ SumFunctionOnSet(f, T) = Fold("sum", f, T)
      /\ SumFunctionOnSet(f, S \cup T) = Fold("sum", f, S \cup T)
  BY <1>1, SumIs
<1>3. Fold("sum", f, S \cup T) = Combine("sum", Fold("sum", f, S), Fold("sum", f, T))
  BY FoldUnion
<1> QED BY <1>2, <1>3 DEF Combine

\* Naturals add up to a natural.
LEMMA SumNat ==
    ASSUME NEW f, NEW S, IsFiniteSet(S), \A x \in S : f[x] \in Nat
    PROVE  SumFunctionOnSet(f, S) \in Nat
<1> DEFINE Bad == {T \in SUBSET S : SumFunctionOnSet(f, T) \notin Nat}
<1>1. SUFFICES ASSUME Bad # {} PROVE FALSE
  OBVIOUS
<1>2. \A s \in Bad : IsFiniteSet(s)
  BY FS_Subset
<1>3. PICK T \in Bad : \A t \in Bad : ~(t \subseteq T /\ t # T)
  <2> HIDE DEF Bad
  <2> QED BY <1>1, <1>2, LeastSet
<1>4. T # {}
  <2>1. SumFunctionOnSet(f, {}) \in Nat
    BY SumEmpty
  <2> QED BY <1>3, <2>1
<1> DEFINE p == Chosen(T)
           R == T \ {p}
<1>5. p \in T /\ R \subseteq T /\ R # T /\ T \subseteq S
  BY <1>3, <1>4, Picked
<1>6. SumFunctionOnSet(f, R) \in Nat /\ IsFiniteSet(T)
  BY <1>2, <1>3, <1>5
<1>7. SumFunctionOnSet(f, T) = f[p] + SumFunctionOnSet(f, R)
  BY <1>5, <1>6, SumTake
<1>8. f[p] \in Nat
  BY <1>5
<1> QED BY <1>3, <1>6, <1>7, <1>8

\* Renaming the elements does not change a sum.
LEMMA SumRenamed ==
    ASSUME NEW f, NEW g, NEW h, NEW S, IsFiniteSet(S),
           \A x, y \in S : h[x] = h[y] => x = y,
           \A x \in S : f[h[x]] \in Int /\ g[x] = f[h[x]]
    PROVE  /\ SumFunctionOnSet(g, S) = SumFunctionOnSet(f, Renamed(h, S))
           /\ IsFiniteSet(Renamed(h, S))
<1>1. Fold("sum", g, S) = Fold("sum", f, Renamed(h, S)) /\ IsFiniteSet(Renamed(h, S))
  BY FoldImage
<1> QED BY <1>1, SumIs

\* The same, with the renamed elements written out
LEMMA SumImage ==
    ASSUME NEW f, NEW g, NEW h, NEW S, IsFiniteSet(S),
           \A x, y \in S : h[x] = h[y] => x = y,
           \A x \in S : f[h[x]] \in Int /\ g[x] = f[h[x]]
    PROVE  /\ SumFunctionOnSet(g, S) = SumFunctionOnSet(f, {h[x] : x \in S})
           /\ IsFiniteSet({h[x] : x \in S})
<1>1. SumFunctionOnSet(g, S) = SumFunctionOnSet(f, Renamed(h, S)) /\ IsFiniteSet(Renamed(h, S))
  BY SumRenamed
<1> QED BY <1>1 DEF Renamed

\* A sum is linear.
LEMMA SumLinear ==
    ASSUME NEW f, NEW g, NEW h, NEW c \in Int, NEW S, IsFiniteSet(S),
           \A x \in S : f[x] \in Int /\ g[x] \in Int /\ h[x] = f[x] + c * g[x]
    PROVE  SumFunctionOnSet(h, S) = SumFunctionOnSet(f, S) + c * SumFunctionOnSet(g, S)
<1> DEFINE Fine(T) == SumFunctionOnSet(h, T) = SumFunctionOnSet(f, T) + c * SumFunctionOnSet(g, T)
           Bad == {T \in SUBSET S : ~Fine(T)}
<1>1. SUFFICES ASSUME Bad # {} PROVE FALSE
  OBVIOUS
<1>2. \A s \in Bad : IsFiniteSet(s)
  BY FS_Subset
<1>3. PICK T \in Bad : \A t \in Bad : ~(t \subseteq T /\ t # T)
  <2> HIDE DEF Bad
  <2> QED BY <1>1, <1>2, LeastSet
<1>4. T # {}
  <2>1. Fine({})
    BY SumEmpty, 0 = 0 + c * 0
  <2> QED BY <1>3, <2>1
<1> DEFINE p == Chosen(T)
           R == T \ {p}
<1>5. p \in S /\ R \subseteq S /\ IsFiniteSet(R) /\ Fine(R)
  <2>1. p \in T /\ R \subseteq T /\ R # T
    BY <1>4, Picked
  <2> QED BY <1>2, <1>3, <2>1, FS_Subset
<1>6. /\ SumFunctionOnSet(f, T) = f[p] + SumFunctionOnSet(f, R)
      /\ SumFunctionOnSet(g, T) = g[p] + SumFunctionOnSet(g, R)
      /\ SumFunctionOnSet(h, T) = h[p] + SumFunctionOnSet(h, R)
  BY <1>2, <1>3, <1>4, SumPick
<1> HIDE DEF p, R
<1> DEFINE F == SumFunctionOnSet(f, R)
           G == SumFunctionOnSet(g, R)
<1>7. F \in Int /\ G \in Int /\ f[p] \in Int /\ g[p] \in Int /\ h[p] = f[p] + c * g[p]
  BY <1>5, SumInt
<1>8. SumFunctionOnSet(h, T) = (f[p] + c * g[p]) + (F + c * G)
  BY <1>5, <1>6, <1>7
<1>9. SumFunctionOnSet(f, T) = f[p] + F /\ SumFunctionOnSet(g, T) = g[p] + G
  BY <1>6
<1> HIDE DEF F, G
<1>10. c * (g[p] + G) = c * g[p] + c * G /\ c * g[p] \in Int /\ c * G \in Int
  BY <1>7
<1> QED BY <1>3, <1>7, <1>8, <1>9, <1>10

\* A sum of ones counts.
LEMMA SumOnes ==
    ASSUME NEW f, NEW S, IsFiniteSet(S), \A x \in S : f[x] = 1
    PROVE  SumFunctionOnSet(f, S) = Cardinality(S)
<1> DEFINE Bad == {T \in SUBSET S : SumFunctionOnSet(f, T) # Cardinality(T)}
<1>1. SUFFICES ASSUME Bad # {} PROVE FALSE
  OBVIOUS
<1>2. \A s \in Bad : IsFiniteSet(s)
  BY FS_Subset
<1>3. PICK T \in Bad : \A t \in Bad : ~(t \subseteq T /\ t # T)
  <2> HIDE DEF Bad
  <2> QED BY <1>1, <1>2, LeastSet
<1>4. T # {}
  BY <1>3, SumEmpty, FS_EmptySet
<1> DEFINE p == Chosen(T)
           R == T \ {p}
<1>5. p \in T /\ p \in S /\ SumFunctionOnSet(f, R) = Cardinality(R) /\ IsFiniteSet(T)
  <2>1. p \in T /\ R \subseteq T /\ R # T
    BY <1>4, Picked
  <2> QED BY <1>2, <1>3, <2>1
<1>6. SumFunctionOnSet(f, T) = f[p] + SumFunctionOnSet(f, R)
  BY <1>2, <1>3, <1>4, SumPick
<1>7. Cardinality(R) = Cardinality(T) - 1 /\ Cardinality(T) \in Nat
  <2> HIDE DEF p
  <2> QED BY <1>5, FS_RemoveElement, FS_CardinalityType
<1> QED BY <1>3, <1>5, <1>6, <1>7

\* Elements that add nothing may be left out.
LEMMA SumSupport ==
    ASSUME NEW f, NEW S, IsFiniteSet(S), NEW T, T \subseteq S,
           \A x \in S : f[x] \in Int, \A x \in S \ T : f[x] = 0
    PROVE  SumFunctionOnSet(f, S) = SumFunctionOnSet(f, T)
<1> DEFINE Bad == {U \in SUBSET S :
                      T \subseteq U /\ SumFunctionOnSet(f, U) # SumFunctionOnSet(f, T)}
<1>1. SUFFICES ASSUME Bad # {} PROVE FALSE
  OBVIOUS
<1>2. \A s \in Bad : IsFiniteSet(s)
  BY FS_Subset
<1>3. PICK U \in Bad : \A t \in Bad : ~(t \subseteq U /\ t # U)
  <2> HIDE DEF Bad
  <2> QED BY <1>1, <1>2, LeastSet
<1>4. PICK x \in U : x \notin T
  BY <1>3
<1> DEFINE R == U \ {x}
<1>5. R \subseteq S /\ T \subseteq R /\ R \subseteq U /\ R # U
  BY <1>3, <1>4
<1>6. SumFunctionOnSet(f, R) = SumFunctionOnSet(f, T)
  <2> HIDE DEF R
  <2> QED BY <1>3, <1>5
<1>7. SumFunctionOnSet(f, U) = f[x] + SumFunctionOnSet(f, R) /\ f[x] = 0
  <2>1. IsFiniteSet(U) /\ \A y \in U : f[y] \in Int
    BY <1>2, <1>3
  <2>2. f[x] = 0
    BY <1>3, <1>4
  <2> QED BY <2>1, <2>2, <1>4, SumTake
<1>8. SumFunctionOnSet(f, R) \in Int
  <2>1. IsFiniteSet(R) /\ \A y \in R : f[y] \in Int
    BY <1>5, FS_Subset
  <2> HIDE DEF R
  <2> QED BY <2>1, SumInt
<1> QED BY <1>3, <1>6, <1>7, <1>8

\* The members of the parts a set's members have
Whole(part, U) == UNION {part[b] : b \in U}

\* A sum may be taken part by part.
LEMMA SumParts ==
    ASSUME NEW f, NEW B, IsFiniteSet(B), NEW part,
           \A b \in B : IsFiniteSet(part[b]) /\ \A x \in part[b] : f[x] \in Int,
           \A b, c \in B : b # c => part[b] \cap part[c] = {},
           NEW total, \A b \in B : total[b] = SumFunctionOnSet(f, part[b])
    PROVE  SumFunctionOnSet(total, B) = SumFunctionOnSet(f, Whole(part, B))
<1> DEFINE All(U) == Whole(part, U)
           Fine(U) == /\ SumFunctionOnSet(total, U) = SumFunctionOnSet(f, All(U))
                      /\ IsFiniteSet(All(U))
           Bad == {U \in SUBSET B : ~Fine(U)}
<1>1. SUFFICES ASSUME Bad # {} PROVE FALSE
  OBVIOUS
<1>2. \A s \in Bad : IsFiniteSet(s)
  BY FS_Subset
<1>3. PICK U \in Bad : \A t \in Bad : ~(t \subseteq U /\ t # U)
  <2> HIDE DEF Bad
  <2> QED BY <1>1, <1>2, LeastSet
<1>4. U # {}
  <2>1. All({}) = {}
    BY DEF Whole
  <2>2. Fine({})
    BY <2>1, SumEmpty, FS_EmptySet
  <2> QED BY <1>3, <2>2
<1> DEFINE p == Chosen(U)
           R == U \ {p}
<1>5. p \in U /\ R \subseteq U /\ R # U /\ U \subseteq B
  BY <1>3, <1>4, Picked
<1>6. Fine(R) /\ IsFiniteSet(U) /\ IsFiniteSet(R)
  BY <1>2, <1>3, <1>5, FS_Subset
<1>7. SumFunctionOnSet(total, U) = total[p] + SumFunctionOnSet(total, R)
  BY <1>4, <1>6, SumPick
<1> HIDE DEF p
<1>8. All(U) = All(R) \cup part[p] /\ All(R) \cap part[p] = {}
  BY <1>5 DEF Whole
<1>9. /\ IsFiniteSet(All(R)) /\ IsFiniteSet(part[p])
      /\ \A x \in All(R) \cup part[p] : f[x] \in Int
  BY <1>5, <1>6 DEF Whole
<1>10. IsFiniteSet(All(R) \cup part[p])
  <2> HIDE DEF All
  <2> QED BY <1>9, FS_Union
<1>11. SumFunctionOnSet(f, All(R) \cup part[p])
           = SumFunctionOnSet(f, All(R)) + SumFunctionOnSet(f, part[p])
  <2> DEFINE A == All(R)
             P == part[p]
  <2>1. IsFiniteSet(A) /\ IsFiniteSet(P) /\ A \cap P = {} /\ \A x \in A \cup P : f[x] \in Int
    BY <1>8, <1>9
  <2> HIDE DEF A, P
  <2>2. SumFunctionOnSet(f, A \cup P) = SumFunctionOnSet(f, A) + SumFunctionOnSet(f, P)
    BY <2>1, SumUnion
  <2> QED BY <2>2 DEF A, P
<1>12. SumFunctionOnSet(f, All(R)) \in Int /\ SumFunctionOnSet(f, part[p]) \in Int
  <2> HIDE DEF All
  <2> QED BY <1>9, SumInt
<1>13. total[p] = SumFunctionOnSet(f, part[p])
  BY <1>5
<1>14. Fine(U)
  <2> HIDE DEF All, R
  <2> QED BY <1>6, <1>7, <1>8, <1>10, <1>11, <1>12, <1>13
<1> QED BY <1>3, <1>14

-----------------------------------------------------------------------------
(* The product of a function over a finite set is the same fold.           *)

ProductOn(f, S) == FoldFunctionOnSet(LAMBDA e, n : e * n, 1, f, S)

\* And ProductOn that of "product".
LEMMA ProductIs ==
    ASSUME NEW f, NEW S, IsFiniteSet(S)
    PROVE  \A T \in SUBSET S : ProductOn(f, T) = Fold("product", f, T)
<1> TAKE T \in SUBSET S
<1> DEFINE Solves(it) == it = [s \in SUBSET T |->
                            IF s = {} THEN 1 ELSE f[Chosen(s)] * it[s \ {Chosen(s)}]]
<1>1. \A it : Solves(it) <=> FoldedBy("product", f, T, it)
  <2>1. \A s, it : FoldStep("product", f, s, it)
                     = IF s = {} THEN 1 ELSE f[Chosen(s)] * it[s \ {Chosen(s)}]
    BY DEF FoldStep, Combine, Neutral
  <2> QED BY <2>1 DEF FoldedBy
<1>2. ProductOn(f, T) = (CHOOSE it : Solves(it))[T]
  BY DEF ProductOn, FoldFunctionOnSet, MapThenFoldSet, Chosen
<1>3. IsFiniteSet(T)
  BY FS_Subset
<1> HIDE DEF Solves
<1>4. FoldedBy("product", f, T, CHOOSE it : Solves(it))
  BY <1>1, <1>3, Exists
<1>5. FoldedBy("product", f, T, CHOOSE it : FoldedBy("product", f, T, it))
  BY <1>3, Exists
<1> QED BY <1>2, <1>3, <1>4, <1>5, Unique DEF Fold

\* A product of nothing is one.
LEMMA ProductEmpty == ASSUME NEW f PROVE ProductOn(f, {}) = 1
BY ProductIs, FoldEmpty, FS_EmptySet DEF Neutral

\* A product of integers is one.
LEMMA ProductInt ==
    ASSUME NEW f, NEW S, IsFiniteSet(S), \A x \in S : f[x] \in Int
    PROVE  ProductOn(f, S) \in Int
BY ProductIs, FoldInt

\* A product depends on the values of its factors only.
LEMMA ProductSame ==
    ASSUME NEW f, NEW g, NEW S, IsFiniteSet(S), \A x \in S : f[x] = g[x]
    PROVE  ProductOn(f, S) = ProductOn(g, S)
BY ProductIs, FoldSame

\* A product may be taken from any of its factors.
LEMMA ProductTake ==
    ASSUME NEW f, NEW S, IsFiniteSet(S), \A x \in S : f[x] \in Int, NEW x \in S
    PROVE  ProductOn(f, S) = f[x] * ProductOn(f, S \ {x})
<1>1. Fold("product", f, S) = Combine("product", f[x], Fold("product", f, S \ {x}))
  BY FoldTake
<1> QED BY <1>1, ProductIs DEF Combine

\* And cut in two.
LEMMA ProductUnion ==
    ASSUME NEW f, NEW S, IsFiniteSet(S), NEW T, IsFiniteSet(T), S \cap T = {},
           \A x \in S \cup T : f[x] \in Int
    PROVE  ProductOn(f, S \cup T) = ProductOn(f, S) * ProductOn(f, T)
<1>1. IsFiniteSet(S \cup T)
  BY FS_Union
<1>2. /\ ProductOn(f, S) = Fold("product", f, S) /\ ProductOn(f, T) = Fold("product", f, T)
      /\ ProductOn(f, S \cup T) = Fold("product", f, S \cup T)
  BY <1>1, ProductIs
<1>3. Fold("product", f, S \cup T) = Combine("product", Fold("product", f, S), Fold("product", f, T))
  BY FoldUnion
<1> QED BY <1>2, <1>3 DEF Combine

\* And taken over other names of its factors.
LEMMA ProductImage ==
    ASSUME NEW f, NEW g, NEW h, NEW S, IsFiniteSet(S),
           \A x, y \in S : h[x] = h[y] => x = y,
           \A x \in S : f[h[x]] \in Int /\ g[x] = f[h[x]]
    PROVE  ProductOn(g, S) = ProductOn(f, Renamed(h, S)) /\ IsFiniteSet(Renamed(h, S))
<1>1. Fold("product", g, S) = Fold("product", f, Renamed(h, S)) /\ IsFiniteSet(Renamed(h, S))
  BY FoldImage
<1> QED BY <1>1, ProductIs

\* The product of two naturals, and when it is zero
LEMMA Times ==
    ASSUME NEW a \in Nat, NEW b \in Nat
    PROVE  a * b \in Nat /\ (a * b > 0 <=> a > 0 /\ b > 0)
<1>1. CASE a = 0
  BY <1>1
<1>2. CASE b = 0
  BY <1>2
<1>3. CASE a > 0 /\ b > 0
  <2>1. \E c \in Nat : a = c + 1
    <3>1. a - 1 \in Nat /\ a = (a - 1) + 1
      BY <1>3
    <3> QED BY <3>1
  <2>2. PICK c \in Nat : a = c + 1
    BY <2>1
  <2>3. c * b \in Nat
    OBVIOUS
  <2>4. a * b = c * b + b
    BY <2>2
  <2> QED BY <1>3, <2>3, <2>4
<1> QED BY <1>1, <1>2, <1>3

\* Naturals multiply to a natural, which is zero where one of them is.
LEMMA ProductNat ==
    ASSUME NEW f, NEW S, IsFiniteSet(S), \A x \in S : f[x] \in Nat
    PROVE  /\ ProductOn(f, S) \in Nat
           /\ ProductOn(f, S) > 0 <=> \A x \in S : f[x] > 0
<1> DEFINE Fine(T) == /\ ProductOn(f, T) \in Nat
                      /\ ProductOn(f, T) > 0 <=> \A x \in T : f[x] > 0
           Bad == {T \in SUBSET S : ~Fine(T)}
<1>1. SUFFICES ASSUME Bad # {} PROVE FALSE
  OBVIOUS
<1>2. \A s \in Bad : IsFiniteSet(s)
  BY FS_Subset
<1>3. PICK T \in Bad : \A t \in Bad : ~(t \subseteq T /\ t # T)
  <2> HIDE DEF Bad
  <2> QED BY <1>1, <1>2, LeastSet
<1>4. T # {}
  <2>1. Fine({})
    BY ProductEmpty
  <2> QED BY <1>3, <2>1
<1> DEFINE p == Chosen(T)
           R == T \ {p}
<1>5. p \in T /\ R \subseteq T /\ R # T /\ T \subseteq S
  BY <1>3, <1>4, Picked
<1>6. Fine(R) /\ IsFiniteSet(T)
  BY <1>2, <1>3, <1>5
<1>7. ProductOn(f, T) = f[p] * ProductOn(f, R)
  BY <1>5, <1>6, ProductTake
<1>8. f[p] \in Nat /\ ProductOn(f, R) \in Nat
  BY <1>5, <1>6
<1>9. /\ ProductOn(f, T) \in Nat
      /\ ProductOn(f, T) > 0 <=> f[p] > 0 /\ ProductOn(f, R) > 0
  BY <1>7, <1>8, Times
<1>10. (\A x \in T : f[x] > 0) <=> f[p] > 0 /\ \A x \in R : f[x] > 0
  BY <1>5
<1>11. Fine(T)
  BY <1>6, <1>9, <1>10
<1> QED BY <1>3, <1>11

-----------------------------------------------------------------------------
(* Induction along a range, and recursion.                                 *)

\* A set that holds the first number of a range and each one's successor
LEMMA UpTo ==
    ASSUME NEW n \in Nat, NEW P, 0 \in P, \A k \in 1 .. n : k - 1 \in P => k \in P
    PROVE  \A k \in 0 .. n : k \in P
<1> DEFINE Bad == {k \in 0 .. n : k \notin P}
<1>1. SUFFICES ASSUME Bad # {} PROVE FALSE
  OBVIOUS
<1>2. PICK k \in Bad : \A j \in Bad : k <= j
  <2>1. Bad \subseteq Nat
    OBVIOUS
  <2> HIDE DEF Bad
  <2> QED BY <1>1, <2>1, LeastNatural
<1>3. k # 0 /\ k \in 1 .. n
  BY <1>2
<1>4. k - 1 \in 0 .. n /\ k - 1 \notin Bad
  BY <1>2, <1>3
<1> QED BY <1>2, <1>3, <1>4

\* And one that holds the last and each one's predecessor
LEMMA DownTo ==
    ASSUME NEW n \in Nat, NEW P, n \in P, \A k \in 1 .. n - 1 : k + 1 \in P => k \in P
    PROVE  \A k \in 1 .. n : k \in P
<1> DEFINE Bad == {k \in 1 .. n : k \notin P}
<1>1. SUFFICES ASSUME Bad # {} PROVE FALSE
  OBVIOUS
<1>2. PICK k \in Bad : \A j \in Bad : k >= j
  <2>1. Bad \subseteq 0 .. n
    OBVIOUS
  <2> HIDE DEF Bad
  <2> QED BY <1>1, <2>1, GreatestNatural
<1>3. k # n /\ k \in 1 .. n - 1
  BY <1>2
<1>4. k + 1 \in 1 .. n /\ k + 1 \notin Bad
  BY <1>2, <1>3
<1> QED BY <1>2, <1>3, <1>4

\* The solutions of a recursion along a range
Iterates(n, V, base, step) ==
    {f \in [0 .. n -> V] : f[0] = base /\ \A k \in 1 .. n : f[k] = step[<<k, f[k - 1]>>]}

\* There is one.
LEMMA Recursion ==
    ASSUME NEW n \in Nat, NEW V, NEW base \in V, NEW step,
           \A k \in 1 .. n : \A v \in V : step[<<k, v>>] \in V
    PROVE  Iterates(n, V, base, step) # {}
<1> DEFINE Solves(m, f) == f[0] = base /\ \A k \in 1 .. m : f[k] = step[<<k, f[k - 1]>>]
           P == {m \in 0 .. n : \E f \in [0 .. m -> V] : Solves(m, f)}
<1>1. 0 \in P
  <2> DEFINE g == [k \in 0 .. 0 |-> base]
  <2>1. g \in [0 .. 0 -> V] /\ g[0] = base /\ 1 .. 0 = {} /\ 0 \in 0 .. n
    OBVIOUS
  <2> HIDE DEF g
  <2> QED BY <2>1
<1>2. ASSUME NEW m \in 1 .. n, m - 1 \in P PROVE m \in P
  <2>1. PICK f \in [0 .. m - 1 -> V] : Solves(m - 1, f)
    BY <1>2
  <2> DEFINE g == [k \in 0 .. m |-> IF k = m THEN step[<<m, f[m - 1]>>] ELSE f[k]]
  <2>2. f[m - 1] \in V /\ step[<<m, f[m - 1]>>] \in V
    BY <2>1
  <2>3. g \in [0 .. m -> V]
    BY <2>1, <2>2
  <2>4. g[m] = step[<<m, f[m - 1]>>] /\ \A k \in 0 .. m - 1 : g[k] = f[k]
    OBVIOUS
  <2> HIDE DEF g
  <2>5. ASSUME NEW k \in 1 .. m PROVE g[k] = step[<<k, g[k - 1]>>]
    <3>1. g[k - 1] = f[k - 1]
      BY <2>4
    <3>2. CASE k = m
      BY <2>4, <3>1, <3>2
    <3>3. CASE k # m
      <4>1. k \in 1 .. m - 1 /\ k \in 0 .. m - 1
        BY <3>3
      <4>2. f[k] = step[<<k, f[k - 1]>>] /\ g[k] = f[k]
        BY <2>1, <2>4, <4>1
      <4> QED BY <3>1, <4>2
    <3> QED BY <3>2, <3>3
  <2>6. g[0] = base
    BY <2>1, <2>4
  <2> QED BY <2>3, <2>5, <2>6
<1> HIDE DEF P
<1>3. n \in P
  BY <1>1, <1>2, UpTo
<1> QED BY <1>3 DEF P, Iterates

-----------------------------------------------------------------------------
(* Shapes: the number of elements, the strides, the offset of a coordinate.*)

\* The number of elements (rocket_count) is the product of the extents.
LEMMA CountIs == ASSUME NEW dims PROVE Count(dims) = ProductOn(dims, DOMAIN dims)
BY DEF Count, FoldSeq, FoldFunction, ProductOn

\* A shape has finitely many extents, each a natural.
LEMMA ShapeDomain ==
    ASSUME NEW dims \in Seq(Nat)
    PROVE  /\ Len(dims) \in Nat /\ DOMAIN dims = 1 .. Len(dims) /\ IsFiniteSet(DOMAIN dims)
           /\ \A d \in DOMAIN dims : dims[d] \in Nat
BY FS_Interval

\* A function on the first numbers is a sequence of as many.
LEMMA AsSequence ==
    ASSUME NEW m \in Nat, NEW f, f = [d \in 1 .. m |-> f[d]]
    PROVE  Len(f) = m /\ DOMAIN f = 1 .. m /\ \A V : (\A d \in 1 .. m : f[d] \in V) => f \in Seq(V)
<1> DEFINE V0 == {f[d] : d \in 1 .. m}
<1>1. f \in [1 .. m -> V0]
  OBVIOUS
<1>2. f \in Seq(V0)
  BY <1>1
<1>3. DOMAIN f = 1 .. m
  BY <1>1
<1>4. Len(f) = m
  BY <1>1, <1>2, <1>3
<1>5. ASSUME NEW V, \A d \in 1 .. m : f[d] \in V PROVE f \in Seq(V)
  <2>1. f \in [1 .. m -> V]
    BY <1>1, <1>5
  <2> QED BY <2>1
<1> QED BY <1>3, <1>4, <1>5

\* A tensor has elements where no extent is zero.
LEMMA CountNat ==
    ASSUME NEW dims \in Seq(Nat)
    PROVE  /\ Count(dims) \in Nat
           /\ Count(dims) > 0 <=> \A d \in DOMAIN dims : dims[d] > 0
BY CountIs, ShapeDomain, ProductNat

\* An image's elements are its pixels' channels.
LEMMA CountImage ==
    ASSUME NEW dims \in Seq(Nat), Len(dims) = 4
    PROVE  Count(dims) = dims[1] * (dims[2] * (dims[3] * dims[4]))
<1>1. DOMAIN dims = 1 .. 4 /\ \A d \in 1 .. 4 : dims[d] \in Nat
  BY ShapeDomain
<1>2. \A S \in SUBSET (1 .. 4) : IsFiniteSet(S)
  <2>1. IsFiniteSet(1 .. 4)
    BY FS_Interval
  <2> QED BY <2>1, FS_Subset
<1>3. /\ (1 .. 4) \ {1} = 2 .. 4 /\ (2 .. 4) \ {2} = 3 .. 4
      /\ (3 .. 4) \ {3} = {4} /\ {4} \ {4} = {}
  OBVIOUS
<1>4. ProductOn(dims, 1 .. 4) = dims[1] * ProductOn(dims, 2 .. 4)
  <2> DEFINE I == 1 .. 4
  <2>1. /\ IsFiniteSet(I)
        /\ 1 \in I /\ I \ {1} = 2 .. 4
        /\ \A d \in I : dims[d] \in Int
    <3>1. IsFiniteSet(I)
      BY <1>2
    <3>2. 1 \in I
      OBVIOUS
    <3>3. \A d \in I : dims[d] \in Int
      BY <1>1
    <3> QED BY <1>3, <3>1, <3>2, <3>3
  <2> HIDE DEF I
  <2>2. ProductOn(dims, I) = dims[1] * ProductOn(dims, I \ {1})
    BY <2>1, ProductTake
  <2> QED BY <2>1, <2>2 DEF I
<1>5. ProductOn(dims, 2 .. 4) = dims[2] * ProductOn(dims, 3 .. 4)
  <2> DEFINE I == 2 .. 4
  <2>1. I \in SUBSET (1 .. 4) /\ 2 \in I /\ \A d \in I : dims[d] \in Int
    BY <1>1
  <2>2. IsFiniteSet(I) /\ I \ {2} = 3 .. 4
    BY <2>1, <1>2, <1>3
  <2> HIDE DEF I
  <2>3. ProductOn(dims, I) = dims[2] * ProductOn(dims, I \ {2})
    BY <2>1, <2>2, ProductTake
  <2> QED BY <2>2, <2>3 DEF I
<1>6. ProductOn(dims, 3 .. 4) = dims[3] * ProductOn(dims, {4})
  <2> DEFINE I == 3 .. 4
  <2>1. I \in SUBSET (1 .. 4) /\ 3 \in I /\ \A d \in I : dims[d] \in Int
    BY <1>1
  <2>2. IsFiniteSet(I) /\ I \ {3} = {4}
    BY <2>1, <1>2, <1>3
  <2> HIDE DEF I
  <2>3. ProductOn(dims, I) = dims[3] * ProductOn(dims, I \ {3})
    BY <2>1, <2>2, ProductTake
  <2> QED BY <2>2, <2>3 DEF I
<1>7. ProductOn(dims, {4}) = dims[4] * ProductOn(dims, {})
  <2>1. {4} \in SUBSET (1 .. 4) /\ 4 \in {4} /\ \A d \in {4} : dims[d] \in Int
    BY <1>1
  <2> QED BY <2>1, <1>2, <1>3, ProductTake
<1>8. dims[4] * 1 = dims[4]
  BY <1>1
<1> QED BY <1>1, <1>4, <1>5, <1>6, <1>7, <1>8, ProductEmpty, CountIs

\* The recursion of the strides has the solution it is meant to have.
LEMMA StridesSolve ==
    ASSUME NEW dims \in Seq(Nat)
    PROVE  rocket_row_strides(dims)
             = [d \in DOMAIN dims |-> IF d = Len(dims) THEN 1
                                      ELSE rocket_row_strides(dims)[d + 1] * dims[d + 1]]
<1> DEFINE n == Len(dims)
           Solves(s) == s = [d \in DOMAIN dims |-> IF d = n THEN 1 ELSE s[d + 1] * dims[d + 1]]
<1>1. n \in Nat /\ DOMAIN dims = 1 .. n /\ \A d \in 1 .. n : dims[d] \in Nat
  BY ShapeDomain
<1>2. SUFFICES \E s : Solves(s)
  BY DEF rocket_row_strides
<1>3. CASE n = 0
  <2>1. Solves([d \in {} |-> 1])
    BY <1>1, <1>3
  <2> QED BY <2>1
<1>4. CASE n > 0
  <2> DEFINE m == n - 1
             step == [q \in (1 .. m) \X Nat |-> q[2] * dims[n - q[1] + 1]]
  <2>1. m \in Nat /\ m = n - 1
    BY <1>1, <1>4
  <2>2. \A k \in 1 .. m : \A v \in Nat :
           step[<<k, v>>] = v * dims[n - k + 1] /\ step[<<k, v>>] \in Nat
    <3> TAKE k \in 1 .. m, v \in Nat
    <3>1. n - k + 1 \in 1 .. n
      BY <1>1, <1>4
    <3>2. v * dims[n - k + 1] \in Nat
      BY <1>1, <3>1, Times
    <3> QED BY <3>2
  <2> HIDE DEF step, m, n
  <2>8. \A k \in 1 .. m : \A v \in Nat : step[<<k, v>>] \in Nat
    BY <2>2
  <2>9. 1 \in Nat
    OBVIOUS
  <2>7. Iterates(m, Nat, 1, step) # {}
    BY <2>1, <2>8, <2>9, Recursion
  <2>3. PICK f \in [0 .. m -> Nat] : f[0] = 1 /\ \A k \in 1 .. m : f[k] = step[<<k, f[k - 1]>>]
    BY <2>7 DEF Iterates
  <2> DEFINE s == [d \in 1 .. n |-> f[n - d]]
  <2>4. ASSUME NEW d \in 1 .. n PROVE s[d] = IF d = n THEN 1 ELSE s[d + 1] * dims[d + 1]
    <3>1. CASE d = n
      BY <1>1, <2>3, <3>1
    <3>2. CASE d # n
      <4> DEFINE k == n - d
      <4>1. k \in 1 .. m /\ d + 1 \in 1 .. n /\ k - 1 \in 0 .. m /\ n - (d + 1) = k - 1
            /\ n - k + 1 = d + 1
        BY <1>1, <2>1, <3>2
      <4>2. s[d] = f[k] /\ s[d + 1] = f[k - 1]
        BY <4>1
      <4> HIDE DEF k, s
      <4>3. f[k] = f[k - 1] * dims[d + 1]
        BY <2>2, <2>3, <4>1 DEF k
      <4> QED BY <3>2, <4>2, <4>3
    <3> QED BY <3>1, <3>2
  <2>5. Solves(s)
    BY <1>1, <2>4 DEF n
  <2> QED BY <2>5
<1> QED BY <1>1, <1>3, <1>4

\* A digit c below a, and a rest t below P: the number they write is below a * P.
LEMMA Place ==
    ASSUME NEW a \in Nat, NEW P \in Nat, NEW c \in Nat, c < a, NEW t \in Nat, t < P
    PROVE  c * P + t \in Nat /\ c * P + t < a * P
<1>1. PICK e \in Nat : a = c + 1 + e
  <2>1. a - (c + 1) \in Nat /\ a = c + 1 + (a - (c + 1))
    OBVIOUS
  <2> QED BY <2>1
<1>2. c * P \in Nat /\ e * P \in Nat
  BY <1>1, Times
<1>3. a * P = c * P + P + e * P
  BY <1>1
<1> QED BY <1>2, <1>3

\* A range without its first element
LEMMA RangeHead ==
    ASSUME NEW n \in Nat, NEW d \in 1 .. n
    PROVE  /\ IsFiniteSet(d .. n) /\ IsFiniteSet((d + 1) .. n)
           /\ d \in d .. n /\ (d .. n) \ {d} = (d + 1) .. n
           /\ d .. n \subseteq 1 .. n /\ (d + 1) .. n \subseteq 1 .. n
<1>1. d \in Int /\ d + 1 \in Int /\ n \in Int
  OBVIOUS
<1>2. IsFiniteSet(d .. n) /\ IsFiniteSet((d + 1) .. n)
  BY <1>1, FS_Interval
<1>3. (d .. n) \ {d} = (d + 1) .. n
  OBVIOUS
<1> QED BY <1>2, <1>3

\* A sum along a range, its first term apart
LEMMA SumHead ==
    ASSUME NEW n \in Nat, NEW d \in 1 .. n, NEW f, \A e \in d .. n : f[e] \in Int
    PROVE  SumFunctionOnSet(f, d .. n) = f[d] + SumFunctionOnSet(f, (d + 1) .. n)
<1> DEFINE I == d .. n
<1>1. IsFiniteSet(I) /\ d \in I /\ I \ {d} = (d + 1) .. n
  BY RangeHead
<1>2. \A e \in I : f[e] \in Int
  OBVIOUS
<1> HIDE DEF I
<1>3. \A e \in I : SumFunctionOnSet(f, I) = f[e] + SumFunctionOnSet(f, I \ {e})
  BY <1>1, <1>2, SumTake
<1>4. SumFunctionOnSet(f, I) = f[d] + SumFunctionOnSet(f, (d + 1) .. n)
  BY <1>1, <1>3
<1> QED BY <1>4 DEF I

\* The extents from an axis on
LEMMA Suffix ==
    ASSUME NEW dims \in Seq(Nat), NEW d \in 1 .. Len(dims)
    PROVE  /\ ProductOn(dims, d .. Len(dims)) = dims[d] * ProductOn(dims, (d + 1) .. Len(dims))
           /\ ProductOn(dims, (d + 1) .. Len(dims)) \in Nat
<1> DEFINE n == Len(dims)
           I == d .. n
<1>1. n \in Nat /\ \A e \in 1 .. n : dims[e] \in Nat
  BY ShapeDomain
<1>2. IsFiniteSet(I) /\ IsFiniteSet((d + 1) .. n) /\ d \in I /\ I \ {d} = (d + 1) .. n
      /\ \A e \in I : dims[e] \in Nat
  BY <1>1, RangeHead
<1>3. \A e \in I : dims[e] \in Int
  BY <1>2
<1>6. \A e \in (d + 1) .. n : dims[e] \in Nat
  BY <1>1
<1> DEFINE R == (d + 1) .. n
<1> HIDE DEF I, R
<1>4. ProductOn(dims, I) = dims[d] * ProductOn(dims, I \ {d})
  BY <1>2, <1>3, ProductTake
<1>5. ProductOn(dims, R) \in Nat
  BY <1>2, <1>6, ProductNat DEF R
<1> QED BY <1>2, <1>4, <1>5 DEF I, R

\* A stride is the product of the extents after its axis.
LEMMA RowStrides ==
    ASSUME NEW dims \in Seq(Nat)
    PROVE  \A d \in 1 .. Len(dims) :
              rocket_row_strides(dims)[d] = ProductOn(dims, (d + 1) .. Len(dims))
<1> DEFINE n == Len(dims)
           s == rocket_row_strides(dims)
           P == {d \in 1 .. n : s[d] = ProductOn(dims, (d + 1) .. n)}
<1>1. n \in Nat /\ DOMAIN dims = 1 .. n
  BY ShapeDomain
<1>2. \A d \in 1 .. n : s[d] = IF d = n THEN 1 ELSE s[d + 1] * dims[d + 1]
  <2> HIDE DEF s
  <2>1. s = [d \in DOMAIN dims |-> IF d = n THEN 1 ELSE s[d + 1] * dims[d + 1]]
    BY StridesSolve DEF s
  <2> QED BY <1>1, <2>1
<1> HIDE DEF s
<1>3. CASE n = 0
  BY <1>3
<1>4. CASE n > 0
  <2> HIDE DEF n
  <2>1. n \in P
    <3>1. (n + 1) .. n = {} /\ n \in 1 .. n
      BY <1>1, <1>4
    <3>2. s[n] = 1 /\ ProductOn(dims, {}) = 1
      BY <1>2, <3>1, ProductEmpty
    <3> QED BY <3>1, <3>2
  <2>2. ASSUME NEW k \in 1 .. n - 1, k + 1 \in P PROVE k \in P
    <3>1. k \in 1 .. n /\ k + 1 \in 1 .. n /\ k # n
      BY <1>1
    <3>2. s[k] = s[k + 1] * dims[k + 1] /\ s[k + 1] = ProductOn(dims, ((k + 1) + 1) .. n)
      BY <1>2, <2>2, <3>1
    <3>3. ProductOn(dims, (k + 1) .. n) = dims[k + 1] * ProductOn(dims, ((k + 1) + 1) .. n)
          /\ ProductOn(dims, ((k + 1) + 1) .. n) \in Nat
      BY <3>1, Suffix DEF n
    <3>4. dims[k + 1] \in Nat
      BY <3>1, ShapeDomain DEF n
    <3> QED BY <3>1, <3>2, <3>3, <3>4
  <2> HIDE DEF P
  <2>3. \A k \in 1 .. n : k \in P
    BY <1>1, <2>1, <2>2, DownTo
  <2> QED BY <2>3 DEF P, s, n
<1> QED BY <1>1, <1>3, <1>4

-----------------------------------------------------------------------------
(* Coordinates inside a shape, and their offsets.                          *)

Coordinates(dims) == {c \in [DOMAIN dims -> Nat] : \A d \in DOMAIN dims : c[d] < dims[d]}

\* The inner product of a coordinate inside with the strides is an offset inside.
LEMMA DotInside ==
    ASSUME NEW dims \in Seq(Nat), NEW c \in Coordinates(dims), NEW f,
           \A d \in DOMAIN dims : f[d] = c[d] * rocket_row_strides(dims)[d]
    PROVE  SumFunctionOnSet(f, DOMAIN dims) \in Cells(dims)
<1> DEFINE n == Len(dims)
           T(d) == SumFunctionOnSet(f, d .. n)
           V(d) == ProductOn(dims, d .. n)
           P == {d \in 1 .. n + 1 : T(d) \in Nat /\ T(d) < V(d)}
<1>1. n \in Nat /\ DOMAIN dims = 1 .. n /\ \A d \in 1 .. n : dims[d] \in Nat
  BY ShapeDomain
<1>2. n + 1 \in P
  <2>1. (n + 1) .. n = {}
    BY <1>1
  <2>2. T(n + 1) = 0 /\ V(n + 1) = 1
    BY <2>1, SumEmpty, ProductEmpty
  <2> QED BY <1>1, <2>2
<1>3. ASSUME NEW k \in 1 .. (n + 1) - 1, k + 1 \in P PROVE k \in P
  <2>1. k \in 1 .. n /\ k \in 1 .. n + 1 /\ k \in Nat
    BY <1>1
  <2>2. c[k] \in Nat /\ c[k] < dims[k] /\ dims[k] \in Nat
    BY <1>1, <2>1 DEF Coordinates
  <2>3. V(k) = dims[k] * V(k + 1) /\ V(k + 1) \in Nat
    BY <2>1, Suffix
  <2>4. f[k] = c[k] * V(k + 1)
    BY <1>1, <2>1, RowStrides
  <2>5. T(k + 1) \in Nat /\ T(k + 1) < V(k + 1)
    BY <1>3
  <2>6. T(k) = f[k] + T(k + 1)
    <3>1. \A d \in k .. n : f[d] \in Int
      <4> TAKE d \in k .. n
      <4>1. d \in 1 .. n /\ c[d] \in Nat
        BY <1>1, <2>1, RangeHead DEF Coordinates
      <4>2. f[d] = c[d] * ProductOn(dims, (d + 1) .. n) /\ ProductOn(dims, (d + 1) .. n) \in Nat
        BY <1>1, <4>1, RowStrides, Suffix
      <4> QED BY <4>1, <4>2, Times
    <3> QED BY <1>1, <2>1, <3>1, SumHead
  <2> HIDE DEF T, V
  <2>7. c[k] * V(k + 1) + T(k + 1) \in Nat /\ c[k] * V(k + 1) + T(k + 1) < dims[k] * V(k + 1)
    BY <2>2, <2>3, <2>5, Place
  <2> QED BY <2>1, <2>3, <2>4, <2>6, <2>7
<1> HIDE DEF P
<1>4. \A k \in 1 .. n + 1 : k \in P
  BY <1>1, <1>2, <1>3, DownTo
<1>5. 1 \in P
  BY <1>1, <1>4
<1>6. T(1) \in Nat /\ T(1) < V(1)
  BY <1>5 DEF P
<1>7. Count(dims) = V(1) /\ Count(dims) \in Nat
  BY <1>1, CountIs, CountNat
<1> QED BY <1>1, <1>6, <1>7 DEF Cells

\* A shape with elements has a first coordinate, and a turn of the odometer keeps
\* inside the shape.
LEMMA TickInside ==
    ASSUME NEW dims \in Seq(Nat), Count(dims) > 0
    PROVE  /\ Zeros(Len(dims)) \in Coordinates(dims)
           /\ \A c \in Coordinates(dims) : Tick(c, dims) \in Coordinates(dims)
<1>1. Len(dims) \in Nat /\ DOMAIN dims = 1 .. Len(dims)
  BY ShapeDomain
<1>2. \A d \in DOMAIN dims : dims[d] \in Nat /\ dims[d] > 0
  BY ShapeDomain, CountNat
<1>3. Zeros(Len(dims)) \in Coordinates(dims)
  BY <1>1, <1>2 DEF Zeros, Coordinates
<1>4. ASSUME NEW c \in Coordinates(dims) PROVE Tick(c, dims) \in Coordinates(dims)
  <2> DEFINE room == {d \in DOMAIN dims : c[d] + 1 < dims[d]}
             m == Max(room)
  <2>1. CASE room = {}
    BY <1>3, <2>1 DEF Tick
  <2>2. CASE room # {}
    <3>1. m \in room
      <4>1. room \subseteq 0 .. Len(dims)
        BY <1>1
      <4>2. \E d \in room : \A e \in room : d >= e
        <5> HIDE DEF room
        <5> QED BY <1>1, <2>2, <4>1, GreatestNatural
      <4> HIDE DEF room
      <4> QED BY <4>2 DEF Max
    <3> DEFINE t == [d \in DOMAIN dims |-> IF d < m THEN c[d] ELSE IF d = m THEN c[d] + 1 ELSE 0]
    <3>2. Tick(c, dims) = t
      BY <2>2 DEF Tick
    <3> HIDE DEF m
    <3>3. ASSUME NEW d \in DOMAIN dims PROVE t[d] \in Nat /\ t[d] < dims[d]
      <4>1. c[d] \in Nat /\ c[d] < dims[d] /\ dims[d] > 0 /\ dims[d] \in Nat
        BY <1>2 DEF Coordinates
      <4>2. d = m => c[d] + 1 < dims[d]
        BY <3>1
      <4> QED BY <4>1, <4>2
    <3>4. t \in [DOMAIN dims -> Nat]
      BY <3>3
    <3> HIDE DEF t
    <3> QED BY <3>2, <3>3, <3>4 DEF Coordinates
  <2> QED BY <2>1, <2>2
<1> QED BY <1>3, <1>4

\* The odometer's positions are coordinates inside.
LEMMA OdometerInside ==
    ASSUME NEW dims \in Seq(Nat)
    PROVE  \A k \in Cells(dims) : Odometer(dims)[k] \in Coordinates(dims)
<1> DEFINE m == Count(dims) - 1
           Solves(at) == at = [k \in Cells(dims) |-> IF k = 0 THEN Zeros(Len(dims))
                                                     ELSE Tick(at[k - 1], dims)]
<1>1. Count(dims) \in Nat
  BY CountNat
<1>2. CASE Count(dims) = 0
  BY <1>2 DEF Cells
<1>3. CASE Count(dims) > 0
  <2>1. m \in Nat /\ Cells(dims) = 0 .. m
    BY <1>1, <1>3 DEF Cells
  <2>2. /\ Zeros(Len(dims)) \in Coordinates(dims)
        /\ \A c \in Coordinates(dims) : Tick(c, dims) \in Coordinates(dims)
    BY <1>3, TickInside
  <2> DEFINE step == [q \in (1 .. m) \X Coordinates(dims) |-> Tick(q[2], dims)]
             C == Coordinates(dims)
             z == Zeros(Len(dims))
  <2>3. \A k \in 1 .. m : \A v \in C : step[<<k, v>>] = Tick(v, dims) /\ step[<<k, v>>] \in C
    BY <2>2
  <2> HIDE DEF step, m, C, z
  <2>4. Iterates(m, C, z, step) # {}
    <3>1. z \in C /\ \A k \in 1 .. m : \A v \in C : step[<<k, v>>] \in C
      BY <2>2, <2>3 DEF z, C
    <3> QED BY <2>1, <3>1, Recursion
  <2>5. PICK f \in [0 .. m -> C] : f[0] = z /\ \A k \in 1 .. m : f[k] = step[<<k, f[k - 1]>>]
    BY <2>4 DEF Iterates
  <2>6. \A k \in 0 .. m : f[k] = IF k = 0 THEN z ELSE Tick(f[k - 1], dims)
    <3> TAKE k \in 0 .. m
    <3>1. CASE k = 0
      BY <2>5, <3>1
    <3>2. CASE k # 0
      <4>1. k \in 1 .. m /\ k - 1 \in 0 .. m
        BY <2>1, <3>2
      <4>2. f[k - 1] \in C
        BY <2>5, <4>1
      <4> QED BY <2>3, <2>5, <3>2, <4>1, <4>2
    <3> QED BY <3>1, <3>2
  <2>7. Solves(f)
    BY <2>1, <2>5, <2>6 DEF z
  <2>8. Solves(Odometer(dims))
    BY <2>7 DEF Odometer
  <2> DEFINE at == Odometer(dims)
             P == {k \in 0 .. m : at[k] \in C}
  <2>9. \A k \in 0 .. m : at[k] = IF k = 0 THEN z ELSE Tick(at[k - 1], dims)
    <3> HIDE DEF at
    <3>1. at = [k \in 0 .. m |-> IF k = 0 THEN z ELSE Tick(at[k - 1], dims)]
      BY <2>1, <2>8 DEF z, at
    <3> QED BY <3>1
  <2> HIDE DEF at
  <2>10. 0 \in P
    BY <2>1, <2>2, <2>9 DEF z, C
  <2>11. ASSUME NEW k \in 1 .. m, k - 1 \in P PROVE k \in P
    <3>1. k \in 0 .. m /\ k # 0
      BY <2>1
    <3>2. at[k] = Tick(at[k - 1], dims) /\ at[k - 1] \in C
      BY <2>9, <2>11, <3>1
    <3> QED BY <2>2, <3>1, <3>2 DEF C
  <2>12. \A k \in 0 .. m : k \in P
    <3> HIDE DEF P
    <3> QED BY <2>1, <2>10, <2>11, UpTo
  <2> QED BY <2>1, <2>12 DEF at, C
<1> QED BY <1>1, <1>2, <1>3

-----------------------------------------------------------------------------
(* What it is for a kernel to keep inside.                                 *)

\* The offsets a term reads are offsets of its operands.
TermInside(term, ins) == \A tap \in term.taps : \A j \in DOMAIN tap : tap[j][2] \in Cells(ins[tap[j][1]])
Within(f, out, ins) == \A k \in DOMAIN f : k \in Cells(out) /\ TermInside(f[k], ins)

\* A term that copies an element reads inside when the offset does.
LEMMA ReadsCopy ==
    ASSUME NEW n, NEW off, NEW ins, off \in Cells(ins[n])
    PROVE  TermInside(Copy(n, off), ins)
BY DEF TermInside, Copy, Term

-----------------------------------------------------------------------------
(* The kernels driven by an odometer.                                      *)

\* The offset an odometer or a walk over strides arrives at is inside the tensor: it is a
\* number in the mixed radix of the extents.
LEMMA DotWithin ==
    ASSUME NEW dims \in Seq(Nat), NEW c \in Coordinates(dims)
    PROVE  Dot(c, rocket_row_strides(dims)) \in Cells(dims)
<1> DEFINE f == [d \in DOMAIN c |-> c[d] * rocket_row_strides(dims)[d]]
<1>1. DOMAIN c = DOMAIN dims
  BY DEF Coordinates
<1>2. \A d \in DOMAIN dims : f[d] = c[d] * rocket_row_strides(dims)[d]
  BY <1>1
<1>3. DOMAIN f = DOMAIN dims
  BY <1>1
<1> HIDE DEF f
<1>4. SumFunctionOnSet(f, DOMAIN dims) \in Cells(dims)
  BY <1>2, DotInside
<1>5. Dot(c, rocket_row_strides(dims)) = SumFunctionOnSet(f, DOMAIN dims)
  BY <1>3 DEF Dot, SumFunction, f
<1> QED BY <1>4, <1>5

\* A strided slice reads inside when each index it takes of an axis is inside.
LEMMA StridedWithin ==
    ASSUME NEW ins, ins[1] \in Seq(Nat), NEW out \in Seq(Nat), Len(out) = Len(ins[1]),
           NEW begin, NEW stride,
           \A d \in DOMAIN out : \A i \in 0 .. (out[d] - 1) :
              begin[d] + i * stride[d] \in 0 .. (ins[1][d] - 1)
    PROVE  Within(rocket_strided_slice_bytes(ins[1], begin, stride, out), out, ins)
<1> DEFINE in == ins[1]
           f == rocket_strided_slice_bytes(in, begin, stride, out)
           c(idx) == [d \in DOMAIN in |-> begin[d] + idx[d] * stride[d]]
<1>1. DOMAIN in = DOMAIN out /\ \A d \in DOMAIN in : in[d] \in Nat /\ out[d] \in Nat
  BY ShapeDomain
<1>2. DOMAIN f = Cells(out)
  BY DEF rocket_strided_slice_bytes, Gather
<1>3. ASSUME NEW k \in Cells(out) PROVE TermInside(f[k], ins)
  <2> DEFINE idx == Odometer(out)[k]
  <2>1. f[k] = Copy(1, Dot(c(idx), rocket_row_strides(in)))
    BY DEF rocket_strided_slice_bytes, Gather
  <2>2. idx \in Coordinates(out)
    BY OdometerInside
  <2> HIDE DEF idx
  <2>3. ASSUME NEW d \in DOMAIN in PROVE c(idx)[d] \in Nat /\ c(idx)[d] < in[d]
    <3>1. idx[d] \in 0 .. (out[d] - 1) /\ in[d] \in Nat
      BY <1>1, <2>2, <2>3 DEF Coordinates
    <3>2. begin[d] + idx[d] * stride[d] \in 0 .. (in[d] - 1)
      BY <1>1, <2>3, <3>1
    <3> QED BY <2>3, <3>1, <3>2
  <2>4. c(idx) \in Coordinates(in)
    BY <2>3 DEF Coordinates
  <2> HIDE DEF c
  <2>5. Dot(c(idx), rocket_row_strides(in)) \in Cells(in)
    BY <2>4, DotWithin
  <2> HIDE DEF f
  <2> QED BY <2>1, <2>5, ReadsCopy
<1> HIDE DEF f
<1>4. Within(f, out, ins)
  BY <1>2, <1>3 DEF Within
<1> QED BY <1>4 DEF f

\* A contiguous one reads inside when it ends inside.
LEMMA SliceWithin ==
    ASSUME NEW ins, ins[1] \in Seq(Nat), NEW out \in Seq(Nat), Len(out) = Len(ins[1]),
           NEW begin, \A d \in DOMAIN out : begin[d] \in Nat /\ begin[d] + out[d] <= ins[1][d]
    PROVE  Within(rocket_slice_bytes(ins[1], begin, out), out, ins)
<1> DEFINE one == Ones(Len(ins[1]))
<1>1. ASSUME NEW d \in DOMAIN out, NEW i \in 0 .. (out[d] - 1)
      PROVE  begin[d] + i * one[d] \in 0 .. (ins[1][d] - 1)
  <2>1. d \in 1 .. Len(ins[1]) /\ ins[1][d] \in Nat /\ out[d] \in Nat /\ one[d] = 1
        /\ begin[d] \in Nat /\ begin[d] + out[d] <= ins[1][d]
    BY ShapeDomain DEF Ones
  <2>2. i * one[d] = i
    BY <2>1
  <2> HIDE DEF one
  <2>3. PICK b \in Nat, e \in Nat, m \in Nat : b = begin[d] /\ e = out[d] /\ m = ins[1][d]
    BY <2>1
  <2>4. b + e <= m /\ i \in 0 .. (e - 1)
    BY <2>1, <2>3
  <2>5. b + i \in 0 .. (m - 1)
    BY <2>4
  <2> QED BY <2>2, <2>3, <2>5
<1> HIDE DEF one
<1>2. Within(rocket_strided_slice_bytes(ins[1], begin, one, out), out, ins)
  BY <1>1, StridedWithin
<1> QED BY <1>2 DEF rocket_slice_bytes, one

\* PAD writes its input inside the output when it fits behind the border.
LEMMA PadWithin ==
    ASSUME NEW ins, ins[1] \in Seq(Nat), NEW out \in Seq(Nat), Len(out) = Len(ins[1]),
           NEW before, \A d \in DOMAIN out : before[d] \in Nat /\ before[d] + ins[1][d] <= out[d]
    PROVE  Within(rocket_pad_bytes(ins[1], before, out), out, ins)
<1> DEFINE in == ins[1]
           f == rocket_pad_bytes(in, before, out)
           row == rocket_row_strides(out)
           at == Odometer(in)
           c(k) == [d \in DOMAIN in |-> at[k][d] + before[d]]
           inside == [k \in {Dot(c(q), row) : q \in Cells(in)} |->
                         Copy(1, CHOOSE q \in Cells(in) : Dot(c(q), row) = k)]
<1>1. f = [k \in Cells(out) \cup DOMAIN inside |->
             IF k \in DOMAIN inside THEN inside[k] ELSE Term({}, 1)]
  BY DEF rocket_pad_bytes, Scatter
<1>2. DOMAIN in = DOMAIN out /\ \A d \in DOMAIN in : in[d] \in Nat /\ out[d] \in Nat
  BY ShapeDomain
<1>3. ASSUME NEW q \in Cells(in) PROVE Dot(c(q), row) \in Cells(out)
  <2>1. at[q] \in Coordinates(in)
    BY OdometerInside
  <2> HIDE DEF at
  <2>2. ASSUME NEW d \in DOMAIN out PROVE c(q)[d] \in Nat /\ c(q)[d] < out[d]
    <3>1. at[q][d] \in Nat /\ at[q][d] < in[d]
      BY <1>2, <2>1 DEF Coordinates
    <3>2. c(q)[d] = at[q][d] + before[d]
      BY <1>2
    <3>3. before[d] \in Nat /\ before[d] + in[d] <= out[d] /\ in[d] \in Nat /\ out[d] \in Nat
      BY <1>2
    <3> HIDE DEF c
    <3> QED BY <3>1, <3>2, <3>3
  <2>3. c(q) \in Coordinates(out)
    BY <1>2, <2>2 DEF Coordinates
  <2> QED BY <2>3, DotWithin
<1>4. ASSUME NEW k \in DOMAIN inside PROVE k \in Cells(out) /\ TermInside(inside[k], ins)
  <2>1. PICK q \in Cells(in) : Dot(c(q), row) = k
    BY <1>4
  <2> HIDE DEF c
  <2>2. (CHOOSE r \in Cells(in) : Dot(c(r), row) = k) \in Cells(in)
    BY <2>1
  <2>3. inside[k] = Copy(1, CHOOSE r \in Cells(in) : Dot(c(r), row) = k)
    BY <1>4
  <2> QED BY <1>3, <2>1, <2>2, <2>3, ReadsCopy
<1> HIDE DEF f, inside
<1>5. ASSUME NEW k \in DOMAIN f PROVE k \in Cells(out) /\ TermInside(f[k], ins)
  <2>1. CASE k \in DOMAIN inside
    <3>1. f[k] = inside[k]
      BY <1>1, <1>5, <2>1
    <3> QED BY <1>4, <2>1, <3>1
  <2>2. CASE k \notin DOMAIN inside
    <3>1. k \in Cells(out) /\ f[k] = Term({}, 1)
      BY <1>1, <1>5, <2>2
    <3> QED BY <3>1 DEF TermInside, Term
  <2> QED BY <2>1, <2>2
<1>6. Within(f, out, ins)
  BY <1>5 DEF Within
<1> QED BY <1>6 DEF f

\* TRANSPOSE: the strides are permuted as the extents are.
LEMMA TransposeWithin ==
    ASSUME NEW ins, ins[1] \in Seq(Nat), NEW perm \in Seq(Nat), Len(perm) = Len(ins[1]),
           Range(perm) = 1 .. Len(ins[1]),
           NEW out, out = [d \in DOMAIN perm |-> ins[1][perm[d]]]
    PROVE  Within(rocket_transpose_bytes(ins[1], perm), out, ins)
<1> DEFINE in == ins[1]
           f == rocket_transpose_bytes(in, perm)
           row == rocket_row_strides(in)
           R == 1 .. Len(in)
<1>1. /\ Len(in) \in Nat /\ DOMAIN in = R /\ DOMAIN perm = R /\ IsFiniteSet(R)
      /\ \A d \in R : in[d] \in Nat
  BY ShapeDomain
<1>2. \A d \in R : perm[d] \in R
  BY <1>1 DEF Range
<1>3. \A e \in R : \E d \in R : perm[d] = e
  BY <1>1 DEF Range
<1>4. \A d, e \in R : perm[d] = perm[e] => d = e
  <2>1. perm \in Surjection(R, R)
    <3>1. perm \in [R -> R]
      BY <1>1, <1>2
    <3> QED BY <1>3, <3>1 DEF Surjection
  <2>2. perm \in Injection(R, R)
    BY <1>1, <2>1, FS_SurjSameCardinalityImpliesInj
  <2> QED BY <1>1, <2>2 DEF Injection, IsInjective
<1> HIDE DEF R
<1>5. out \in Seq(Nat) /\ DOMAIN out = R
  <2>1. out \in [1 .. Len(in) -> Nat]
    BY <1>1, <1>2 DEF R
  <2> QED BY <1>1, <2>1 DEF R
<1>6. f = [k \in Cells(out) |->
             Copy(1, Dot(Odometer(out)[k], [d \in DOMAIN perm |-> row[perm[d]]]))]
  BY DEF rocket_transpose_bytes, Gather
<1>7. ASSUME NEW idx \in Coordinates(out)
      PROVE  Dot(idx, [d \in DOMAIN perm |-> row[perm[d]]]) \in Cells(in)
  <2> DEFINE c == [e \in R |-> idx[CHOOSE d \in R : perm[d] = e]]
             b == [e \in R |-> c[e] * row[e]]
             g == [d \in R |-> idx[d] * row[perm[d]]]
  <2>1. \A d \in R : c[perm[d]] = idx[d]
    BY <1>2, <1>4
  <2>2. \A d \in R : idx[d] \in Nat /\ idx[d] < in[perm[d]]
    BY <1>1, <1>5 DEF Coordinates
  <2>3. \A e \in R : c[e] \in Nat /\ c[e] < in[e]
    <3> TAKE e \in R
    <3>1. PICK d \in R : perm[d] = e
      BY <1>3
    <3> QED BY <2>1, <2>2, <3>1
  <2>4. c \in Coordinates(in)
    BY <1>1, <2>3 DEF Coordinates
  <2> HIDE DEF c
  <2>5. SumFunctionOnSet(b, R) \in Cells(in)
    BY <1>1, <2>4, DotInside
  <2>6. \A e \in R : b[e] \in Int
    <3> TAKE e \in R
    <3>1. c[e] \in Nat /\ row[e] = ProductOn(in, (e + 1) .. Len(in))
          /\ ProductOn(in, (e + 1) .. Len(in)) \in Nat
      BY <1>1, <2>3, RowStrides, Suffix DEF R
    <3> QED BY <3>1, Times
  <2>7. \A d \in R : b[perm[d]] \in Int /\ g[d] = b[perm[d]]
    BY <1>2, <2>1, <2>6
  <2>8. DOMAIN g = R
    OBVIOUS
  <2> HIDE DEF b, g
  <2>9. SumFunctionOnSet(g, R) = SumFunctionOnSet(b, Renamed(perm, R))
    <3>1. IsFiniteSet(R)
      BY <1>1
    <3> QED BY ONLY <3>1, <1>4, <2>7, SumRenamed
  <2>10. Renamed(perm, R) = R
    BY <1>2, <1>3 DEF Renamed
  <2>11. DOMAIN idx = R /\ DOMAIN perm = R
    BY <1>1, <1>5 DEF Coordinates
  <2>12. Dot(idx, [d \in DOMAIN perm |-> row[perm[d]]]) = SumFunctionOnSet(g, R)
    BY <2>8, <2>11 DEF Dot, SumFunction, g
  <2> QED BY <2>5, <2>9, <2>10, <2>12
<1>8. ASSUME NEW k \in Cells(out) PROVE TermInside(f[k], ins)
  <2>1. Odometer(out)[k] \in Coordinates(out)
    BY <1>5, OdometerInside
  <2> HIDE DEF f
  <2> QED BY <1>6, <1>7, <2>1, ReadsCopy
<1>9. DOMAIN f = Cells(out)
  BY <1>6
<1> HIDE DEF f
<1>10. Within(f, out, ins)
  BY <1>8, <1>9 DEF Within
<1> QED BY <1>10 DEF f

\* One output element for one input element
LEMMA CopyWithin ==
    ASSUME NEW ins, NEW out, Count(ins[1]) = Count(out)
    PROVE  /\ Within(rocket_reshape_copy(Count(out)), out, ins)
           /\ Within(rocket_unary(Count(out)), out, ins)
<1> DEFINE f == [k \in Cells(out) |-> Copy(1, k)]
<1>1. Cells(out) = Cells(ins[1])
  BY DEF Cells
<1>2. rocket_reshape_copy(Count(out)) = f /\ rocket_unary(Count(out)) = f
  BY DEF rocket_reshape_copy, rocket_unary, Cells
<1>3. Within(f, out, ins)
  BY <1>1, ReadsCopy DEF Within
<1> HIDE DEF f
<1> QED BY <1>2, <1>3

-----------------------------------------------------------------------------
(* Offsets made of digits.                                                 *)

\* A number below a * P has a digit below a and a rest below P.
LEMMA Digits ==
    ASSUME NEW a \in Nat, NEW P \in Nat, NEW k \in Nat, k < a * P
    PROVE  /\ P > 0 /\ k \div P \in Nat /\ k \div P < a /\ k % P \in Nat /\ k % P < P
           /\ k = (k \div P) * P + (k % P)
<1>1. P > 0
  <2>1. CASE P = 0
    BY <2>1
  <2> QED BY <2>1
<1> DEFINE q == k \div P
           r == k % P
<1>2. q \in Int /\ r \in 0 .. (P - 1) /\ k = q * P + r
  BY <1>1
<1> HIDE DEF q, r
<1>3. ASSUME q < 0 PROVE FALSE
  <2>1. PICK e \in Nat : q = -1 - e
    <3>1. -1 - q \in Nat /\ q = -1 - (-1 - q)
      BY <1>2, <1>3
    <3> QED BY <3>1
  <2>2. q * P = -P - e * P /\ e * P \in Nat
    BY <2>1, Times
  <2> QED BY <1>2, <2>2
<1>4. ASSUME q >= a PROVE FALSE
  <2>1. PICK e \in Nat : q = a + e
    <3>1. q - a \in Nat /\ q = a + (q - a)
      BY <1>2, <1>4
    <3> QED BY <3>1
  <2>2. q * P = a * P + e * P /\ e * P \in Nat
    BY <2>1, Times
  <2> QED BY <1>2, <2>2
<1>5. q \in Nat /\ q < a /\ r \in Nat /\ r < P
  BY <1>2, <1>3, <1>4
<1> QED BY <1>1, <1>2, <1>5 DEF q, r

\* And the number with such a digit and such a rest has them.
LEMMA DigitIs ==
    ASSUME NEW P \in Nat, NEW c \in Nat, NEW t \in Nat, t < P
    PROVE  (c * P + t) \div P = c /\ (c * P + t) % P = t
<1> DEFINE k == c * P + t
           q == k \div P
           r == k % P
<1>1. P > 0 /\ c * P \in Nat
  BY Times
<1>2. k \in Nat
  BY <1>1
<1>3. q \in Int /\ r \in 0 .. (P - 1) /\ k = q * P + r
  BY <1>1, <1>2
<1>4. k = c * P + t
  OBVIOUS
<1> HIDE DEF k, q, r
<1>5. (q - c) * P = t - r
  BY <1>3, <1>4
<1>6. ASSUME q > c PROVE FALSE
  <2>1. PICK e \in Nat : q - c = 1 + e
    <3>1. q - c - 1 \in Nat /\ q - c = 1 + (q - c - 1)
      BY <1>3, <1>6
    <3> QED BY <3>1
  <2>2. (q - c) * P = P + e * P /\ e * P \in Nat
    BY <2>1, Times
  <2> QED BY <1>3, <1>5, <2>2
<1>7. ASSUME q < c PROVE FALSE
  <2>1. PICK e \in Nat : q - c = -1 - e
    <3>1. c - q - 1 \in Nat /\ q - c = -1 - (c - q - 1)
      BY <1>3, <1>7
    <3> QED BY <3>1
  <2>2. (q - c) * P = -P - e * P /\ e * P \in Nat
    BY <2>1, Times
  <2> QED BY <1>3, <1>5, <2>2
<1>8. q = c
  BY <1>3, <1>6, <1>7
<1>9. r = t
  BY <1>3, <1>4, <1>8
<1> QED BY <1>8, <1>9 DEF k, q, r

\* Three digits stay below the product of their bounds.
LEMMA Place3 ==
    ASSUME NEW H \in Nat, NEW W \in Nat, NEW C \in Nat,
           NEW h \in Nat, h < H, NEW w \in Nat, w < W, NEW c \in Nat, c < C
    PROVE  /\ (h * W + w) * C + c \in Nat
           /\ (h * W + w) * C + c < (H * W) * C
<1>1. h * W + w \in Nat /\ h * W + w < H * W
  BY Place
<1>2. H * W \in Nat
  BY Times
<1> DEFINE p == h * W + w
           S == H * W
<1> HIDE DEF p, S
<1>3. p * C + c \in Nat /\ p * C + c < S * C
  BY <1>1, <1>2, Place DEF p, S
<1> QED BY <1>3 DEF p, S

DigitsOf(H, W, C, k) ==
    {q \in (0 .. (H - 1)) \X (0 .. (W - 1)) \X (0 .. (C - 1)) : k = (q[1] * W + q[2]) * C + q[3]}

\* Every number below the product is made of three.
LEMMA Digits3 ==
    ASSUME NEW H \in Nat, NEW W \in Nat, NEW C \in Nat, NEW k \in Nat, k < (H * W) * C
    PROVE  DigitsOf(H, W, C, k) # {}
<1> DEFINE S == H * W
<1>1. S \in Nat
  BY Times
<1> HIDE DEF S
<1> DEFINE p == k \div C
           c == k % C
           h == p \div W
           w == p % W
<1>2. p \in Nat /\ p < S /\ c \in Nat /\ c < C /\ k = p * C + c
  BY <1>1, Digits DEF S
<1> HIDE DEF p, c
<1>3. h \in Nat /\ h < H /\ w \in Nat /\ w < W /\ p = h * W + w
  BY <1>2, Digits DEF S
<1> HIDE DEF h, w
<1>4. h \in 0 .. (H - 1) /\ w \in 0 .. (W - 1) /\ c \in 0 .. (C - 1)
  BY <1>2, <1>3
<1>5. k = (h * W + w) * C + c
  BY <1>2, <1>3
<1>6. <<h, w, c>> \in DigitsOf(H, W, C, k)
  BY <1>4, <1>5 DEF DigitsOf
<1> QED BY <1>6

\* A batch multiplies an image's elements.
LEMMA Batched ==
    ASSUME NEW dims \in Seq(Nat), Len(dims) = 4, Count(dims) > 0
    PROVE  /\ (dims[2] * dims[3]) * dims[4] \in Nat
           /\ (dims[2] * dims[3]) * dims[4] <= Count(dims)
           /\ \A d \in 1 .. 4 : dims[d] \in Nat /\ dims[d] > 0
<1>1. \A d \in 1 .. 4 : dims[d] \in Nat /\ dims[d] > 0
  BY CountNat, ShapeDomain
<1>2. PICK N \in Nat, H \in Nat, W \in Nat, C \in Nat :
         N = dims[1] /\ H = dims[2] /\ W = dims[3] /\ C = dims[4] /\ N > 0
  BY <1>1
<1>3. Count(dims) = N * (H * (W * C))
  BY <1>2, CountImage
<1>4. H * (W * C) = (H * W) * C
  OBVIOUS
<1>5. H * W \in Nat /\ (H * W) * C \in Nat
  BY Times
<1> DEFINE V == (H * W) * C
<1>6. PICK e \in Nat : N = 1 + e
  <2>1. N - 1 \in Nat /\ N = 1 + (N - 1)
    BY <1>2
  <2> QED BY <2>1
<1>7. V \in Nat
  BY <1>5
<1>9. Count(dims) = N * V
  BY <1>3, <1>4
<1> HIDE DEF V
<1>8. N * V = V + e * V /\ e * V \in Nat
  BY <1>6, <1>7, Times
<1>10. V <= Count(dims)
  BY <1>7, <1>8, <1>9
<1> QED BY <1>1, <1>2, <1>7, <1>10 DEF V

-----------------------------------------------------------------------------
(* The kernels over images.                                                *)

Image(dims) == dims \in Seq(Nat) /\ Len(dims) = 4 /\ Count(dims) > 0

\* An image that is not empty has rows, columns and channels.
LEMMA Extents ==
    ASSUME NEW dims, Image(dims)
    PROVE  /\ dims[2] \in Nat /\ dims[2] > 0 /\ dims[3] \in Nat /\ dims[3] > 0
           /\ dims[4] \in Nat /\ dims[4] > 0
<1>1. \A d \in 1 .. 4 : dims[d] \in Nat /\ dims[d] > 0
  BY Batched DEF Image
<1> QED BY <1>1

\* A pixel's channel is an element of the image.
LEMMA ImageOffset ==
    ASSUME NEW dims, Image(dims), NEW h \in 0 .. (dims[2] - 1), NEW w \in 0 .. (dims[3] - 1),
           NEW c \in 0 .. (dims[4] - 1)
    PROVE  At(h, w, c, dims[3], dims[4]) \in Cells(dims)
<1>1. PICK H \in Nat, W \in Nat, C \in Nat :
         /\ H = dims[2] /\ W = dims[3] /\ C = dims[4]
         /\ (H * W) * C \in Nat /\ (H * W) * C <= Count(dims)
  <2>1. /\ (dims[2] * dims[3]) * dims[4] \in Nat
        /\ (dims[2] * dims[3]) * dims[4] <= Count(dims)
        /\ dims[2] \in Nat /\ dims[3] \in Nat /\ dims[4] \in Nat
    BY Batched DEF Image
  <2> QED BY <2>1
<1>2. h \in Nat /\ h < H /\ w \in Nat /\ w < W /\ c \in Nat /\ c < C
  BY <1>1
<1>3. (h * W + w) * C + c \in Nat /\ (h * W + w) * C + c < (H * W) * C
  BY <1>2, Place3
<1>4. Count(dims) \in Nat
  BY CountNat DEF Image
<1> DEFINE v == (h * W + w) * C + c
           V == (H * W) * C
<1> HIDE DEF v, V
<1>5. v \in Nat /\ v < V /\ V <= Count(dims) /\ V \in Nat
  BY <1>1, <1>3 DEF v, V
<1>6. v \in Cells(dims)
  BY <1>4, <1>5 DEF Cells
<1> QED BY <1>1, <1>6 DEF At, v

\* Pooling on the host: windows are cut at the border of the input.
LEMMA PoolWithin ==
    ASSUME NEW ins, Image(ins[1]), NEW out, Image(out), ins[1][4] = out[4],
           NEW KH, NEW KW, NEW sy, NEW sx, NEW pt, NEW pl, NEW avg
    PROVE  Within(rocket_pool(ins[1][2], ins[1][3], out[4], out[2], out[3], KH, KW, sy, sx, pt, pl,
                              avg), out, ins)
<1> DEFINE in == ins[1]
           C == out[4]
           f == rocket_pool(in[2], in[3], C, out[2], out[3], KH, KW, sy, sx, pt, pl, avg)
           Q == (0 .. (out[2] - 1)) \X (0 .. (out[3] - 1)) \X (0 .. (C - 1))
           dst(q) == At(q[1], q[2], q[3], out[3], C)
           win(q) == Window(q[1], q[2], q[3], in[2], in[3], C, KH, KW, sy, sx, pt, pl)
           what(q) == Term({<< <<1, off>> >> : off \in win(q)}, IF avg THEN Cardinality(win(q)) ELSE 1)
<1>1. f = [k \in {dst(q) : q \in Q} |-> what(CHOOSE q \in Q : dst(q) = k)]
  BY DEF rocket_pool, Scatter
<1>2. ASSUME NEW q \in Q PROVE TermInside(what(q), ins)
  <2>1. q[3] \in 0 .. (in[4] - 1) /\ C = in[4]
    OBVIOUS
  <2>2. ASSUME NEW off \in win(q) PROVE off \in Cells(in)
    <3>1. PICK h \in 0 .. (in[2] - 1), w \in 0 .. (in[3] - 1) : off = At(h, w, q[3], in[3], C)
      BY DEF Window
    <3> QED BY <2>1, <3>1, ImageOffset
  <2> HIDE DEF win
  <2> QED BY <2>2 DEF TermInside, Term
<1>3. ASSUME NEW q \in Q PROVE dst(q) \in Cells(out)
  BY ImageOffset
<1> HIDE DEF f, Q, dst, what
<1>4. ASSUME NEW k \in DOMAIN f PROVE k \in Cells(out) /\ TermInside(f[k], ins)
  <2>1. PICK q \in Q : dst(q) = k /\ f[k] = what(q)
    BY <1>1
  <2> QED BY <1>2, <1>3, <2>1
<1>5. Within(f, out, ins)
  BY <1>4 DEF Within
<1> QED BY <1>5 DEF f

\* A multiple of a positive number is that number times the quotient.
LEMMA Multiple ==
    ASSUME NEW a \in Nat, NEW s \in Nat, s > 0, a % s = 0
    PROVE  a \div s \in Nat /\ s * (a \div s) = a /\ (a \div s) * s = a
<1>1. a < (a + 1) * s
  <2>1. PICK e \in Nat : s = 1 + e
    <3>1. s - 1 \in Nat /\ s = 1 + (s - 1)
      OBVIOUS
    <3> QED BY <3>1
  <2>2. (a + 1) * s = (a + 1) + (a + 1) * e /\ (a + 1) * e \in Nat
    BY <2>1, Times
  <2> QED BY <2>2
<1>2. a \div s \in Nat /\ a = (a \div s) * s + (a % s)
  BY <1>1, Digits
<1> DEFINE q == a \div s
<1>3. q \in Nat /\ a = q * s
  <2>1. (a \div s) * s + 0 = (a \div s) * s
    BY <1>2
  <2> QED BY <1>2, <2>1
<1> HIDE DEF q
<1>4. s * q = q * s
  BY <1>3
<1> QED BY <1>3, <1>4 DEF q

\* The nearest source index is an index, whatever the mode.
LEMMA SourceInside ==
    ASSUME NEW o, NEW in_size \in Nat, in_size > 0, NEW out_size, NEW corners, NEW half,
           rocket_nn_src(o, in_size, out_size, corners, half) \in Int
    PROVE  rocket_nn_src(o, in_size, out_size, corners, half) \in 0 .. (in_size - 1)
<1> DEFINE al == corners /\ out_size > 1
           num == IF al THEN in_size - 1 ELSE in_size
           den == IF al THEN out_size - 1 ELSE out_size
           off == IF half THEN 1 ELSE 0
           v == IF corners THEN RoundEven((2 * o + off) * num - off * den, 2 * den)
                ELSE ((2 * o + off) * num) \div (2 * den)
           r == rocket_nn_src(o, in_size, out_size, corners, half)
<1>1. r = IF v > in_size - 1 THEN in_size - 1 ELSE IF v < 0 THEN 0 ELSE v
  BY DEF rocket_nn_src
<1>2. r \in Int
  OBVIOUS
<1> HIDE DEF v, r
<1>3. r \in 0 .. (in_size - 1)
  <2>1. CASE v > in_size - 1
    BY <1>1, <2>1
  <2>2. CASE ~(v > in_size - 1) /\ v < 0
    BY <1>1, <2>2
  <2>3. CASE ~(v > in_size - 1) /\ ~(v < 0)
    <3>1. r = v
      BY <1>1, <2>3
    <3> QED BY <1>2, <2>3, <3>1
  <2> QED BY <2>1, <2>2, <2>3
<1> QED BY <1>3 DEF r

\* It is one where the sizes are positive.
LEMMA SourceTyped ==
    ASSUME NEW o \in Nat, NEW in_size \in Nat, in_size > 0, NEW out_size \in Nat, o < out_size,
           NEW corners, NEW half
    PROVE  rocket_nn_src(o, in_size, out_size, corners, half) \in Int
<1> DEFINE al == corners /\ out_size > 1
           num == IF al THEN in_size - 1 ELSE in_size
           den == IF al THEN out_size - 1 ELSE out_size
           off == IF half THEN 1 ELSE 0
           a == (2 * o + off) * num - off * den
           b == (2 * o + off) * num
           v == IF corners THEN RoundEven(a, 2 * den) ELSE b \div (2 * den)
<1>1. rocket_nn_src(o, in_size, out_size, corners, half)
        = IF v > in_size - 1 THEN in_size - 1 ELSE IF v < 0 THEN 0 ELSE v
  BY DEF rocket_nn_src
<1>2. num \in Nat /\ den \in Nat /\ den > 0 /\ off \in Nat
  OBVIOUS
<1> HIDE DEF num, den, off
<1>3. a \in Int /\ b \in Int /\ 2 * den \in Nat /\ 2 * den > 0
  <2>1. (2 * o + off) * num \in Nat /\ off * den \in Nat
    BY <1>2, Times
  <2> QED BY <1>2, <2>1
<1> DEFINE d2 == 2 * den
<1> HIDE DEF a, b, d2
<1>4. a \div d2 \in Int /\ b \div d2 \in Int
  BY <1>3 DEF d2
<1>5. RoundEven(a, d2) \in {a \div d2, (a \div d2) + 1}
  BY DEF RoundEven
<1>6. v = IF corners THEN RoundEven(a, d2) ELSE b \div d2
  BY DEF d2
<1> HIDE DEF v
<1>7. v \in Int
  BY <1>4, <1>5, <1>6
<1> QED BY <1>1, <1>7

\* RESIZE_NEAREST_NEIGHBOR on the host
LEMMA ResizeWithin ==
    ASSUME NEW ins, Image(ins[1]), NEW out, Image(out), ins[1][4] = out[4], NEW corners, NEW half
    PROVE  Within(rocket_resize_nearest(ins[1][2], ins[1][3], out[4], out[2], out[3], corners, half),
                  out, ins)
<1> DEFINE in == ins[1]
           C == out[4]
           f == rocket_resize_nearest(in[2], in[3], C, out[2], out[3], corners, half)
           Q == (0 .. (out[2] - 1)) \X (0 .. (out[3] - 1)) \X (0 .. (C - 1))
           dst(q) == At(q[1], q[2], q[3], out[3], C)
           what(q) == Copy(1, At(rocket_nn_src(q[1], in[2], out[2], corners, half),
                                 rocket_nn_src(q[2], in[3], out[3], corners, half), q[3], in[3], C))
<1>1. f = [k \in {dst(q) : q \in Q} |-> what(CHOOSE q \in Q : dst(q) = k)]
  BY DEF rocket_resize_nearest, Scatter
<1>2. ASSUME NEW q \in Q PROVE TermInside(what(q), ins)
  <2>1. q[3] \in 0 .. (in[4] - 1) /\ C = in[4]
    OBVIOUS
  <2>2. \A a \in 0 .. (out[2] - 1) : rocket_nn_src(a, in[2], out[2], corners, half) \in 0 .. (in[2] - 1)
    <3>1. in[2] \in Nat /\ in[2] > 0 /\ out[2] \in Nat
      BY Extents
    <3> QED BY <3>1, SourceInside, SourceTyped
  <2>3. \A a \in 0 .. (out[3] - 1) : rocket_nn_src(a, in[3], out[3], corners, half) \in 0 .. (in[3] - 1)
    <3>1. in[3] \in Nat /\ in[3] > 0 /\ out[3] \in Nat
      BY Extents
    <3> QED BY <3>1, SourceInside, SourceTyped
  <2> DEFINE h == rocket_nn_src(q[1], in[2], out[2], corners, half)
             w == rocket_nn_src(q[2], in[3], out[3], corners, half)
  <2>4. h \in 0 .. (in[2] - 1) /\ w \in 0 .. (in[3] - 1)
    BY <2>2, <2>3
  <2> HIDE DEF h, w
  <2>5. At(h, w, q[3], in[3], in[4]) \in Cells(in)
    BY <2>1, <2>4, ImageOffset
  <2> QED BY <2>1, <2>5, ReadsCopy DEF h, w
<1>3. ASSUME NEW q \in Q PROVE dst(q) \in Cells(out)
  BY ImageOffset
<1> HIDE DEF f, Q, dst, what
<1>4. ASSUME NEW k \in DOMAIN f PROVE k \in Cells(out) /\ TermInside(f[k], ins)
  <2>1. PICK q \in Q : dst(q) = k /\ f[k] = what(q)
    BY <1>1
  <2> QED BY <1>2, <1>3, <2>1
<1>5. Within(f, out, ins)
  BY <1>4 DEF Within
<1> QED BY <1>5 DEF f

\* TRANSPOSE_CONV: the taps are pixels of the input and weights of the filter.
LEMMA TransposeConvWithin ==
    ASSUME NEW ins, Image(ins[1]), Image(ins[2]), NEW out, Image(out),
           ins[2][4] = ins[1][4], out[4] = ins[2][1],
           NEW sy, NEW sx, NEW pad_h, NEW pad_w
    PROVE  Within(rocket_transpose_conv(ins[1][2], ins[1][3], ins[1][4], ins[2][1], ins[2][2],
                                        ins[2][3], sy, sx, pad_h, pad_w, out[2], out[3]), out, ins)
<1> DEFINE in == ins[1]
           w == ins[2]
           f == rocket_transpose_conv(in[2], in[3], in[4], w[1], w[2], w[3], sy, sx, pad_h, pad_w,
                                      out[2], out[3])
           loops == {q \in (0 .. (in[2] - 1)) \X (0 .. (in[3] - 1)) \X (0 .. (w[2] - 1)) \X (0 .. (w[3] - 1)) :
                        /\ q[1] * sy + q[3] - pad_h \in 0 .. (out[2] - 1)
                        /\ q[2] * sx + q[4] - pad_w \in 0 .. (out[3] - 1)}
           to(q) == <<q[1] * sy + q[3] - pad_h, q[2] * sx + q[4] - pad_w>>
           weight(oc, q, ic) == ((oc * w[2] + q[3]) * w[3] + q[4]) * in[4] + ic
           O == (0 .. (out[2] - 1)) \X (0 .. (out[3] - 1)) \X (0 .. (w[1] - 1))
           dst(o) == At(o[1], o[2], o[3], out[3], w[1])
           what(o) == Term({<< <<1, At(q[1], q[2], ic, in[3], in[4])>>, <<2, weight(o[3], q, ic)>> >> :
                               q \in {l \in loops : to(l) = <<o[1], o[2]>>}, ic \in 0 .. (in[4] - 1)}, 1)
<1>1. f = [k \in {dst(o) : o \in O} |-> what(CHOOSE o \in O : dst(o) = k)]
  BY DEF rocket_transpose_conv, Scatter
<1>2. ASSUME NEW o \in O, NEW q \in loops, NEW ic \in 0 .. (in[4] - 1)
      PROVE  At(q[1], q[2], ic, in[3], in[4]) \in Cells(in) /\ weight(o[3], q, ic) \in Cells(w)
  <2>1. q[1] \in 0 .. (in[2] - 1) /\ q[2] \in 0 .. (in[3] - 1)
        /\ q[3] \in 0 .. (w[2] - 1) /\ q[4] \in 0 .. (w[3] - 1) /\ o[3] \in 0 .. (w[1] - 1)
    OBVIOUS
  <2>2. At(q[1], q[2], ic, in[3], in[4]) \in Cells(in)
    BY <2>1, ImageOffset
  <2>3. w[1] \in Nat /\ w[2] \in Nat /\ w[3] \in Nat /\ in[4] \in Nat
    BY Batched, Extents DEF Image
  <2> DEFINE A == w[1]
             B == w[2]
             E == w[3]
             I == in[4]
             a == o[3]
             b == q[3]
             e == q[4]
  <2>4. /\ A \in Nat /\ B \in Nat /\ E \in Nat /\ I \in Nat
        /\ a \in Nat /\ a < A /\ b \in Nat /\ b < B /\ e \in Nat /\ e < E /\ ic \in Nat /\ ic < I
    <3>1. a \in Nat /\ a < A
      BY <2>1, <2>3
    <3>2. b \in Nat /\ b < B
      BY <2>1, <2>3
    <3>3. e \in Nat /\ e < E
      BY <2>1, <2>3
    <3>4. ic \in Nat /\ ic < I
      BY <2>3
    <3> QED BY <2>3, <3>1, <3>2, <3>3, <3>4
  <2>9. Count(w) = A * (B * (E * I)) /\ weight(o[3], q, ic) = ((a * B + b) * E + e) * I + ic
    BY CountImage DEF Image
  <2> HIDE DEF A, B, E, I, a, b, e
  <2> DEFINE p == (a * B + b) * E + e
             V == (A * B) * E
  <2>5. p \in Nat /\ p < V /\ V \in Nat
    <3>1. A * B \in Nat
      BY <2>4, Times
    <3>2. (A * B) * E \in Nat
      BY <2>4, <3>1, Times
    <3> QED BY <2>4, <3>2, Place3
  <2> HIDE DEF p, V
  <2>6. p * I + ic \in Nat /\ p * I + ic < V * I
    BY <2>4, <2>5, Place
  <2>7. Count(w) = V * I
    <3>1. Count(w) = A * (B * (E * I))
      BY <2>9
    <3>2. A * (B * (E * I)) = ((A * B) * E) * I
      BY <2>4
    <3> QED BY <3>1, <3>2 DEF V
  <2>8. p * I + ic \in Cells(w)
    <3>1. Count(w) \in Nat
      BY CountNat DEF Image
    <3> DEFINE v == p * I + ic
    <3>2. v \in Nat /\ v < Count(w)
      BY <2>6, <2>7
    <3> HIDE DEF v
    <3>3. v \in Cells(w)
      BY <3>1, <3>2 DEF Cells
    <3> QED BY <3>3 DEF v
  <2> QED BY <2>2, <2>8, <2>9 DEF p
<1>3. ASSUME NEW o \in O PROVE TermInside(what(o), ins)
  <2>1. \A t \in what(o).taps : \E q \in loops, ic \in 0 .. (in[4] - 1) :
           t = << <<1, At(q[1], q[2], ic, in[3], in[4])>>, <<2, weight(o[3], q, ic)>> >>
    <3> HIDE DEF loops, weight, to
    <3> QED BY DEF Term
  <2> HIDE DEF what, loops, weight, O
  <2>2. ASSUME NEW t \in what(o).taps, NEW j \in DOMAIN t PROVE t[j][2] \in Cells(ins[t[j][1]])
    <3>1. PICK q \in loops, ic \in 0 .. (in[4] - 1) :
             t = << <<1, At(q[1], q[2], ic, in[3], in[4])>>, <<2, weight(o[3], q, ic)>> >>
      BY <2>1
    <3>2. At(q[1], q[2], ic, in[3], in[4]) \in Cells(in) /\ weight(o[3], q, ic) \in Cells(w)
      BY <1>2
    <3>3. j \in {1, 2}
      BY <2>2, <3>1
    <3> QED BY <3>1, <3>2, <3>3
  <2> QED BY <2>2 DEF TermInside
<1>4. ASSUME NEW o \in O PROVE dst(o) \in Cells(out)
  <2>1. o[1] \in 0 .. (out[2] - 1) /\ o[2] \in 0 .. (out[3] - 1) /\ o[3] \in 0 .. (out[4] - 1)
        /\ w[1] = out[4]
    OBVIOUS
  <2> QED BY <2>1, ImageOffset
<1> HIDE DEF f, O, dst, what
<1>5. ASSUME NEW k \in DOMAIN f PROVE k \in Cells(out) /\ TermInside(f[k], ins)
  <2>1. PICK o \in O : dst(o) = k /\ f[k] = what(o)
    BY <1>1
  <2> QED BY <1>3, <1>4, <2>1
<1>6. Within(f, out, ins)
  BY <1>5 DEF Within
<1> QED BY <1>6 DEF f

-----------------------------------------------------------------------------
(* Rows and matrices.                                                      *)

\* SOFTMAX, LOG_SOFTMAX, L2_NORMALIZATION: an element reads the row it is in.
LEMMA RowsWithin ==
    ASSUME NEW ins, NEW out, NEW M \in Nat, NEW N \in Nat, M * N = Count(out),
           Count(ins[1]) = Count(out)
    PROVE  Within(rocket_rowwise(M, N), out, ins)
<1> DEFINE f == rocket_rowwise(M, N)
<1>1. f = [i \in 0 .. (M * N - 1) |->
              Term({<< <<1, (i \div N) * N + n>> >> : n \in 0 .. (N - 1)}, i % N)]
  BY DEF rocket_rowwise
<1> HIDE DEF f
<1>2. M * N \in Nat /\ Cells(out) = 0 .. (M * N - 1) /\ Cells(ins[1]) = 0 .. (M * N - 1)
  BY Times DEF Cells
<1>3. ASSUME NEW i \in 0 .. (M * N - 1), NEW n \in 0 .. (N - 1)
      PROVE  (i \div N) * N + n \in Cells(ins[1])
  <2>1. i \in Nat /\ i < M * N
    BY <1>2
  <2> DEFINE c == i \div N
  <2>2. c \in Nat /\ c < M
    BY <2>1, Digits
  <2> HIDE DEF c
  <2>3. c * N + n \in Nat /\ c * N + n < M * N
    BY <2>2, Place
  <2> QED BY <1>2, <2>3 DEF c
<1>4. ASSUME NEW i \in 0 .. (M * N - 1) PROVE TermInside(f[i], ins)
  <2>1. f[i].taps = {<< <<1, (i \div N) * N + n>> >> : n \in 0 .. (N - 1)}
    BY <1>1 DEF Term
  <2>2. ASSUME NEW t \in f[i].taps, NEW j \in DOMAIN t PROVE t[j][2] \in Cells(ins[t[j][1]])
    <3>1. PICK n \in 0 .. (N - 1) : t = << <<1, (i \div N) * N + n>> >>
      BY <2>1
    <3> DEFINE v == (i \div N) * N + n
    <3>2. v \in Cells(ins[1]) /\ t = << <<1, v>> >>
      BY <1>3, <3>1
    <3> HIDE DEF v
    <3>3. j = 1
      BY <2>2, <3>2
    <3> QED BY <3>2, <3>3
  <2> QED BY <2>2 DEF TermInside
<1>5. Within(f, out, ins)
  BY <1>1, <1>2, <1>4 DEF Within
<1> QED BY <1>5 DEF f

\* CUMSUM runs along its row, up or down.
LEMMA CumsumWithin ==
    ASSUME NEW ins, NEW out, NEW M \in Nat, NEW N \in Nat, M * N = Count(out),
           Count(ins[1]) = Count(out), NEW exclusive, NEW reverse
    PROVE  Within(rocket_cumsum(M, N, exclusive, reverse), out, ins)
<1> DEFINE f == rocket_cumsum(M, N, exclusive, reverse)
           n(i) == IF reverse THEN N - 1 - i ELSE i
           Q == (0 .. (M - 1)) \X (0 .. (N - 1))
           dst(q) == q[1] * N + n(q[2])
           what(q) == Term({<< <<1, q[1] * N + n(j)>> >> :
                               j \in {j \in 0 .. q[2] : ~exclusive \/ j < q[2]}}, 1)
<1>1. f = [k \in {dst(q) : q \in Q} |-> what(CHOOSE q \in Q : dst(q) = k)]
  BY DEF rocket_cumsum, Scatter
<1>2. M * N \in Nat /\ Cells(out) = 0 .. (M * N - 1) /\ Cells(ins[1]) = 0 .. (M * N - 1)
  BY Times DEF Cells
<1>3. ASSUME NEW m \in 0 .. (M - 1), NEW j \in 0 .. (N - 1)
      PROVE  m * N + n(j) \in Cells(out) /\ m * N + n(j) \in Cells(ins[1])
  <2> DEFINE t == n(j)
  <2>1. t \in Nat /\ t < N
    OBVIOUS
  <2> HIDE DEF t
  <2>2. m * N + t \in Nat /\ m * N + t < M * N
    BY <2>1, Place
  <2> QED BY <1>2, <2>2 DEF t
<1>4. ASSUME NEW q \in Q PROVE dst(q) \in Cells(out) /\ TermInside(what(q), ins)
  <2>1. q[1] \in 0 .. (M - 1) /\ q[2] \in 0 .. (N - 1)
    OBVIOUS
  <2>2. ASSUME NEW j \in 0 .. q[2] PROVE q[1] * N + n(j) \in Cells(ins[1])
    <3>1. j \in 0 .. (N - 1)
      BY <2>1
    <3> QED BY <1>3, <2>1, <3>1
  <2> HIDE DEF n
  <2>3. what(q).taps \subseteq {<< <<1, q[1] * N + n(j)>> >> : j \in 0 .. q[2]}
    BY DEF Term
  <2>4. TermInside(what(q), ins)
    <3> HIDE DEF what
    <3> QED BY <2>2, <2>3 DEF TermInside
  <2> QED BY <1>3, <2>1, <2>4
<1> HIDE DEF f, dst, what, Q
<1>5. Within(f, out, ins)
  <2>1. ASSUME NEW k \in DOMAIN f PROVE k \in Cells(out) /\ TermInside(f[k], ins)
    <3>1. PICK q \in Q : dst(q) = k /\ f[k] = what(q)
      BY <1>1
    <3> QED BY <1>4, <3>1
  <2> QED BY <2>1 DEF Within
<1> QED BY <1>5 DEF f

\* A product of matrices reads rows of both: what it writes, and what it reads
LEMMA MatmulTaps ==
    ASSUME NEW M \in Nat, NEW K \in Nat, NEW N \in Nat
    PROVE  /\ \A m \in 0 .. (M - 1), n \in 0 .. (N - 1) : m * N + n \in DOMAIN rocket_fc_f(M, K, N)
           /\ \A i \in DOMAIN rocket_fc_f(M, K, N) :
                 /\ i \in 0 .. (M * N - 1)
                 /\ \A tap \in rocket_fc_f(M, K, N)[i].taps :
                       \E m \in 0 .. (M - 1), n \in 0 .. (N - 1), k \in 0 .. (K - 1) :
                          tap = << <<1, m * K + k>>, <<2, n * K + k>> >>
<1> DEFINE f == rocket_fc_f(M, K, N)
           Q == (0 .. (M - 1)) \X (0 .. (N - 1))
           dst(q) == q[1] * N + q[2]
           what(q) == Term({<< <<1, q[1] * K + k>>, <<2, q[2] * K + k>> >> : k \in 0 .. (K - 1)}, 1)
<1>1. f = [k \in {dst(q) : q \in Q} |-> what(CHOOSE q \in Q : dst(q) = k)]
  BY DEF rocket_fc_f, Scatter
<1>2. M * N \in Nat
  BY Times
<1>3. ASSUME NEW q \in Q PROVE dst(q) \in 0 .. (M * N - 1)
  <2>1. q[1] * N + q[2] \in Nat /\ q[1] * N + q[2] < M * N
    BY Place
  <2> QED BY <1>2, <2>1
<1>4. ASSUME NEW q \in Q
      PROVE  \A tap \in what(q).taps :
                \E m \in 0 .. (M - 1), n \in 0 .. (N - 1), k \in 0 .. (K - 1) :
                   tap = << <<1, m * K + k>>, <<2, n * K + k>> >>
  BY DEF Term
<1>5. ASSUME NEW m \in 0 .. (M - 1), NEW n \in 0 .. (N - 1) PROVE m * N + n \in DOMAIN f
  <2>1. <<m, n>> \in Q /\ dst(<<m, n>>) = m * N + n
    OBVIOUS
  <2> HIDE DEF Q, dst, what, f
  <2>2. dst(<<m, n>>) \in DOMAIN f
    BY <1>1, <2>1
  <2> QED BY <2>1, <2>2
<1> HIDE DEF f, dst, what, Q
<1>6. ASSUME NEW i \in DOMAIN f PROVE \E q \in Q : dst(q) = i /\ f[i] = what(q)
  BY <1>1
<1>7. \A i \in DOMAIN f : i \in 0 .. (M * N - 1)
  BY <1>3, <1>6
<1>8. ASSUME NEW i \in DOMAIN f, NEW tap \in f[i].taps
      PROVE  \E m \in 0 .. (M - 1), n \in 0 .. (N - 1), k \in 0 .. (K - 1) :
                tap = << <<1, m * K + k>>, <<2, n * K + k>> >>
  <2>1. PICK q \in Q : f[i] = what(q)
    BY <1>6
  <2>2. tap \in what(q).taps
    BY <1>8, <2>1
  <2> QED BY <1>4, <2>2
<1> QED BY <1>5, <1>7, <1>8 DEF f

\* FULLY_CONNECTED on the host
LEMMA MatmulWithin ==
    ASSUME NEW ins, NEW out, NEW M \in Nat, NEW K \in Nat, NEW N \in Nat,
           Count(ins[1]) = M * K, Count(ins[2]) = N * K, Count(out) = M * N
    PROVE  Within(rocket_fc_f(M, K, N), out, ins)
<1> DEFINE f == rocket_fc_f(M, K, N)
<1>1. \A i \in DOMAIN f :
         /\ i \in 0 .. (M * N - 1)
         /\ \A tap \in f[i].taps :
               \E m \in 0 .. (M - 1), n \in 0 .. (N - 1), k \in 0 .. (K - 1) :
                  tap = << <<1, m * K + k>>, <<2, n * K + k>> >>
  BY MatmulTaps
<1> HIDE DEF f
<1>2. ASSUME NEW R \in Nat, NEW r \in 0 .. (R - 1), NEW k \in 0 .. (K - 1)
      PROVE  r * K + k \in 0 .. (R * K - 1)
  <2>1. r * K + k \in Nat /\ r * K + k < R * K /\ R * K \in Nat
    BY Place, Times
  <2> QED BY <2>1
<1>3. ASSUME NEW i \in DOMAIN f, NEW tap \in f[i].taps, NEW j \in DOMAIN tap
      PROVE  tap[j][2] \in Cells(ins[tap[j][1]])
  <2>1. PICK m \in 0 .. (M - 1), n \in 0 .. (N - 1), k \in 0 .. (K - 1) :
           tap = << <<1, m * K + k>>, <<2, n * K + k>> >>
    BY <1>1
  <2>2. m * K + k \in Cells(ins[1]) /\ n * K + k \in Cells(ins[2])
    BY <1>2 DEF Cells
  <2>3. j \in {1, 2}
    BY <1>3, <2>1
  <2> QED BY <2>1, <2>2, <2>3
<1>4. Within(f, out, ins)
  BY <1>1, <1>3 DEF Within, TermInside, Cells
<1> QED BY <1>4 DEF f

\* FULLY_CONNECTED on the NPU, both operands padded; the columns kept are those there are
Unpadded(f, M, N, Npad) == [k \in 0 .. (M * N - 1) |-> f[(k \div N) * Npad + (k % N)]]

-----------------------------------------------------------------------------
(* CONCATENATION and SPLIT.                                                *)

\* The elements of the axes behind one
LEMMA CountBehind ==
    ASSUME NEW dims \in Seq(Nat), NEW axis \in 1 .. Len(dims)
    PROVE  Count(SubSeq(dims, axis + 1, Len(dims))) = ProductOn(dims, (axis + 1) .. Len(dims))
<1> DEFINE n == Len(dims)
           J == (axis + 1) .. n
           v == SubSeq(dims, axis + 1, n)
<1>1. n \in Nat /\ DOMAIN dims = 1 .. n /\ \A d \in 1 .. n : dims[d] \in Nat
  BY ShapeDomain
<1>2. IsFiniteSet(1 .. (n - axis))
  <2>1. n - axis \in Int
    BY <1>1
  <2> QED BY <2>1, FS_Interval
<1>4. v \in Seq(Nat)
  BY <1>1
<1>6. Count(v) = ProductOn(dims, J)
  <2> DEFINE K == 1 .. (n - axis)
             h == [k \in K |-> k + axis]
  <2>1. DOMAIN v = K /\ \A k \in K : v[k] = dims[h[k]] /\ h[k] \in 1 .. n
    BY <1>1
  <2>2. \A k, m \in K : h[k] = h[m] => k = m
    BY <1>1
  <2>3. Renamed(h, K) = J
    <3>1. ASSUME NEW j \in J PROVE \E k \in K : h[k] = j
      <4>1. j - axis \in K /\ h[j - axis] = j
        BY <1>1
      <4> QED BY <4>1
    <3>2. \A k \in K : h[k] \in J
      BY <1>1
    <3> HIDE DEF h, K, J
    <3> QED BY <3>1, <3>2 DEF Renamed
  <2> HIDE DEF v, J, h
  <2>4. \A k \in K : dims[h[k]] \in Int /\ v[k] = dims[h[k]]
    BY <1>1, <2>1
  <2>5. ProductOn(v, K) = ProductOn(dims, Renamed(h, K))
    <3>1. IsFiniteSet(K)
      BY <1>2
    <3> HIDE DEF K
    <3> QED BY <2>2, <2>4, <3>1, ProductImage
  <2> QED BY <2>1, <2>3, <2>5, CountIs
<1> QED BY <1>6

\* The elements of a shape are those before an axis, along it and behind it.
LEMMA CountAround ==
    ASSUME NEW dims \in Seq(Nat), NEW axis \in 1 .. Len(dims)
    PROVE  /\ Count(SubSeq(dims, 1, axis - 1)) \in Nat
           /\ Count(SubSeq(dims, axis + 1, Len(dims))) \in Nat
           /\ Count(dims) = (Count(SubSeq(dims, 1, axis - 1)) * dims[axis])
                               * Count(SubSeq(dims, axis + 1, Len(dims)))
<1> DEFINE n == Len(dims)
           I == 1 .. (axis - 1)
           J == (axis + 1) .. n
           u == SubSeq(dims, 1, axis - 1)
           v == SubSeq(dims, axis + 1, n)
<1>1. n \in Nat /\ DOMAIN dims = 1 .. n /\ \A d \in 1 .. n : dims[d] \in Nat
  BY ShapeDomain
<1>2. IsFiniteSet(I) /\ IsFiniteSet(J) /\ IsFiniteSet(1 .. n) /\ IsFiniteSet(1 .. (n - axis))
  <2>1. axis - 1 \in Int /\ axis + 1 \in Int /\ n \in Int /\ n - axis \in Int
    BY <1>1
  <2> QED BY <2>1, FS_Interval
<1>3. /\ I \cup ({axis} \cup J) = 1 .. n /\ I \cap ({axis} \cup J) = {} /\ axis \notin J
      /\ ({axis} \cup J) \ {axis} = J /\ {axis} \cup J \subseteq 1 .. n
  BY <1>1
<1>4. u \in Seq(Nat) /\ v \in Seq(Nat)
  BY <1>1
<1>5. Count(u) = ProductOn(dims, I)
  <2>1. DOMAIN u = I /\ \A d \in I : u[d] = dims[d]
    BY <1>1
  <2> HIDE DEF u, I
  <2>2. ProductOn(u, I) = ProductOn(dims, I)
    BY <1>2, <2>1, ProductSame
  <2> QED BY <2>1, <2>2, CountIs
<1>6. Count(v) = ProductOn(dims, J)
  BY CountBehind
<1>7. Count(dims) = ProductOn(dims, I) * (dims[axis] * ProductOn(dims, J))
  <2> DEFINE R == {axis} \cup J
  <2>1. IsFiniteSet(R) /\ axis \in R /\ R \ {axis} = J /\ I \cup R = 1 .. n /\ I \cap R = {}
    BY <1>2, <1>3, FS_Subset
  <2>2. \A d \in R : dims[d] \in Int
    BY <1>1, <1>3
  <2>3. \A d \in I \cup R : dims[d] \in Int
    BY <1>1, <1>3
  <2> HIDE DEF R, I, J
  <2>4. ProductOn(dims, R) = dims[axis] * ProductOn(dims, J)
    BY <2>1, <2>2, ProductTake
  <2>5. ProductOn(dims, 1 .. n) = ProductOn(dims, I) * ProductOn(dims, R)
    <3>1. IsFiniteSet(I)
      BY <1>2
    <3>2. ProductOn(dims, I \cup R) = ProductOn(dims, I) * ProductOn(dims, R)
      BY <2>1, <2>3, <3>1, ProductUnion
    <3> QED BY <2>1, <3>2
  <2> QED BY <1>1, <2>4, <2>5, CountIs
<1>8. Count(u) \in Nat /\ Count(v) \in Nat /\ dims[axis] \in Nat
  BY <1>1, <1>4, CountNat
<1>9. Count(dims) = Count(u) * (dims[axis] * Count(v))
  BY <1>5, <1>6, <1>7
<1> HIDE DEF u, v
<1>10. Count(u) * (dims[axis] * Count(v)) = (Count(u) * dims[axis]) * Count(v)
  BY <1>8
<1> QED BY <1>8, <1>9, <1>10 DEF u, v

\* Input by input, where they are laid: each starts behind those before it, and
\* they end where they add up to.
LEMMA Laid ==
    ASSUME NEW n \in Nat, NEW f, \A j \in 1 .. n : f[j] \in Nat, NEW i \in 1 .. n
    PROVE  /\ SumFunction([j \in 1 .. (i - 1) |-> f[j]]) \in Nat
           /\ SumFunction([j \in 1 .. (i - 1) |-> f[j]]) + f[i] <= SumFunctionOnSet(f, 1 .. n)
<1> DEFINE I == 1 .. (i - 1)
           J == (i + 1) .. n
           g == [j \in I |-> f[j]]
           R == {i} \cup J
<1>1. IsFiniteSet(I) /\ IsFiniteSet(J) /\ IsFiniteSet(1 .. n)
  BY FS_Interval
<1>2. I \cup R = 1 .. n /\ I \cap R = {} /\ R \ {i} = J /\ i \in R /\ R \subseteq 1 .. n
  OBVIOUS
<1>3. IsFiniteSet(R)
  BY <1>1, <1>2, FS_Subset
<1>4. /\ \A j \in I : f[j] \in Nat /\ g[j] = f[j]
      /\ \A j \in J : f[j] \in Nat
      /\ \A j \in R : f[j] \in Int
      /\ \A j \in I \cup R : f[j] \in Int
  OBVIOUS
<1>5. SumFunction(g) = SumFunctionOnSet(g, I)
  BY DEF SumFunction
<1> HIDE DEF I, J, R, g
<1>6. SumFunctionOnSet(g, I) = SumFunctionOnSet(f, I) /\ SumFunctionOnSet(f, I) \in Nat
  BY <1>1, <1>4, SumSame, SumNat
<1>7. SumFunctionOnSet(f, J) \in Nat
  BY <1>1, <1>4, SumNat
<1>8. SumFunctionOnSet(f, R) = f[i] + SumFunctionOnSet(f, J)
  BY <1>2, <1>3, <1>4, SumTake
<1>9. SumFunctionOnSet(f, 1 .. n) = SumFunctionOnSet(f, I) + SumFunctionOnSet(f, R)
  BY <1>1, <1>2, <1>3, <1>4, SumUnion
<1>10. f[i] \in Nat
  OBVIOUS
<1>11. SumFunction(g) \in Nat /\ SumFunction(g) + f[i] <= SumFunctionOnSet(f, 1 .. n)
  BY <1>5, <1>6, <1>7, <1>8, <1>9, <1>10
<1> QED BY <1>11 DEF g, I

\* Copies over one another are inside when each is.
LEMMA OverlaidWithin ==
    ASSUME NEW out, NEW ins, NEW m \in Nat, NEW copies, DOMAIN copies \subseteq 1 .. m,
           \A i \in DOMAIN copies : Within(copies[i], out, ins)
    PROVE  Within(Overlaid(copies), out, ins)
<1> DEFINE f == Overlaid(copies)
           Of(k) == {i \in DOMAIN copies : k \in DOMAIN copies[i]}
<1>1. f = [k \in UNION {DOMAIN copies[i] : i \in DOMAIN copies} |-> copies[Max(Of(k))][k]]
  BY DEF Overlaid
<1> HIDE DEF f
<1>2. ASSUME NEW k \in DOMAIN f PROVE k \in Cells(out) /\ TermInside(f[k], ins)
  <2>1. Of(k) # {} /\ Of(k) \subseteq 0 .. m
    BY <1>1, <1>2
  <2>2. Max(Of(k)) \in Of(k)
    <3> HIDE DEF Of
    <3>1. \E i \in Of(k) : \A j \in Of(k) : i >= j
      BY <2>1, GreatestNatural
    <3> QED BY <3>1 DEF Max
  <2>3. f[k] = copies[Max(Of(k))][k]
    BY <1>1, <1>2
  <2> QED BY <2>2, <2>3 DEF Within
<1>3. Within(f, out, ins)
  BY <1>2 DEF Within
<1> QED BY <1>3 DEF f

-----------------------------------------------------------------------------
(* The coordinate an offset belongs to.                                    *)

\* The offset of a coordinate, from an axis on: a digit, and the rest below its weight.
Rest(c, dims, d) ==
    SumFunctionOnSet([e \in DOMAIN dims |-> c[e] * rocket_row_strides(dims)[e]], d .. Len(dims))
Weight(dims, d) == ProductOn(dims, d .. Len(dims))

\* What is below an axis is less than the axis's weight, down to the last.
LEMMA Tails ==
    ASSUME NEW dims \in Seq(Nat), NEW c \in Coordinates(dims)
    PROVE  /\ Dot(c, rocket_row_strides(dims)) = Rest(c, dims, 1) /\ Count(dims) = Weight(dims, 1)
           /\ Rest(c, dims, Len(dims) + 1) = 0 /\ Weight(dims, Len(dims) + 1) = 1
           /\ \A d \in 1 .. Len(dims) + 1 :
                 Rest(c, dims, d) \in Nat /\ Weight(dims, d) \in Nat /\ Rest(c, dims, d) < Weight(dims, d)
           /\ \A d \in 1 .. Len(dims) :
                 /\ Rest(c, dims, d) = c[d] * Weight(dims, d + 1) + Rest(c, dims, d + 1)
                 /\ Weight(dims, d) = dims[d] * Weight(dims, d + 1)
<1> DEFINE n == Len(dims)
           row == rocket_row_strides(dims)
           f == [e \in DOMAIN dims |-> c[e] * row[e]]
           T(d) == SumFunctionOnSet(f, d .. n)
           V(d) == ProductOn(dims, d .. n)
           P == {d \in 1 .. n + 1 : T(d) \in Nat /\ V(d) \in Nat /\ T(d) < V(d)}
<1>1. n \in Nat /\ DOMAIN dims = 1 .. n /\ \A d \in 1 .. n : dims[d] \in Nat
  BY ShapeDomain
<1>2. DOMAIN c = 1 .. n /\ \A d \in 1 .. n : c[d] \in Nat /\ c[d] < dims[d]
  BY <1>1 DEF Coordinates
<1>3. \A d \in 1 .. n : row[d] = V(d + 1) /\ V(d + 1) \in Nat /\ V(d) = dims[d] * V(d + 1)
  BY <1>1, RowStrides, Suffix
<1>4. T(n + 1) = 0 /\ V(n + 1) = 1
  <2>1. (n + 1) .. n = {}
    BY <1>1
  <2> QED BY <2>1, SumEmpty, ProductEmpty
<1>5. \A d \in 1 .. n : f[d] = c[d] * V(d + 1) /\ f[d] \in Int
  <2> TAKE d \in 1 .. n
  <2>1. f[d] = c[d] * V(d + 1) /\ c[d] \in Nat /\ V(d + 1) \in Nat
    BY <1>1, <1>2, <1>3
  <2> HIDE DEF f, V
  <2> QED BY <2>1, Times
<1>6. DOMAIN f = 1 .. n
  BY <1>1
<1>7. Dot(c, row) = T(1) /\ Count(dims) = V(1)
  <2>1. Dot(c, row) = SumFunctionOnSet(f, 1 .. n)
    BY <1>1, <1>2 DEF Dot, SumFunction
  <2> QED BY <1>1, <2>1, CountIs
<1> HIDE DEF f, row
<1>8. \A d \in 1 .. n : T(d) = c[d] * V(d + 1) + T(d + 1)
  <2> TAKE d \in 1 .. n
  <2>1. \A e \in d .. n : f[e] \in Int
    BY <1>1, <1>5
  <2>2. T(d) = f[d] + T(d + 1)
    BY <1>1, <2>1, SumHead
  <2> QED BY <1>5, <2>2
<1> HIDE DEF T, V
<1>9. n + 1 \in P
  BY <1>1, <1>4
<1>10. ASSUME NEW k \in 1 .. (n + 1) - 1, k + 1 \in P PROVE k \in P
  <2>1. k \in 1 .. n /\ k \in 1 .. n + 1 /\ T(k + 1) \in Nat /\ V(k + 1) \in Nat /\ T(k + 1) < V(k + 1)
    BY <1>1, <1>10
  <2>2. c[k] \in Nat /\ dims[k] \in Nat /\ c[k] < dims[k]
    BY <1>1, <1>2, <2>1
  <2>5. T(k) = c[k] * V(k + 1) + T(k + 1) /\ V(k) = dims[k] * V(k + 1)
    BY <1>3, <1>8, <2>1
  <2>6. /\ c[k] * V(k + 1) + T(k + 1) \in Nat
        /\ c[k] * V(k + 1) + T(k + 1) < dims[k] * V(k + 1)
    BY <2>1, <2>2, Place
  <2>3. T(k) \in Nat /\ T(k) < V(k)
    BY <2>5, <2>6
  <2>4. V(k) \in Nat
    BY <1>3, <2>1, <2>2, Times
  <2> QED BY <2>1, <2>3, <2>4
<1> HIDE DEF P
<1>11. \A k \in 1 .. n + 1 : k \in P
  BY <1>1, <1>9, <1>10, DownTo
<1>12. \A k \in 1 .. n + 1 : T(k) \in Nat /\ V(k) \in Nat /\ T(k) < V(k)
  BY <1>11 DEF P
<1>13. \A d : Rest(c, dims, d) = T(d) /\ Weight(dims, d) = V(d)
  BY DEF Rest, Weight, T, V, f, row
<1> HIDE DEF n
<1>14. n = Len(dims) /\ row = rocket_row_strides(dims)
  BY DEF n, row
<1> QED BY <1>3, <1>4, <1>7, <1>8, <1>12, <1>13, <1>14

\* Two coordinates with the same offset are the same.
LEMMA DotInjective ==
    ASSUME NEW dims \in Seq(Nat), NEW c \in Coordinates(dims), NEW e \in Coordinates(dims),
           Dot(c, rocket_row_strides(dims)) = Dot(e, rocket_row_strides(dims))
    PROVE  c = e
<1> DEFINE n == Len(dims)
           P == {k \in 0 .. n : Rest(c, dims, k + 1) = Rest(e, dims, k + 1)
                                /\ (k > 0 => c[k] = e[k])}
<1>1. n \in Nat /\ DOMAIN dims = 1 .. n /\ c \in [1 .. n -> Nat] /\ e \in [1 .. n -> Nat]
  BY ShapeDomain DEF Coordinates
<1>2. 0 \in P
  BY <1>1, Tails
<1>3. ASSUME NEW k \in 1 .. n, k - 1 \in P PROVE k \in P
  <2> DEFINE V == Weight(dims, k + 1)
             t == Rest(c, dims, k + 1)
             u == Rest(e, dims, k + 1)
  <2>1. k + 1 \in 1 .. n + 1 /\ (k - 1) + 1 = k /\ k \in 0 .. n
    BY <1>1
  <2>2. V \in Nat /\ t \in Nat /\ u \in Nat /\ t < V /\ u < V
    BY <2>1, Tails
  <2>3. Rest(c, dims, k) = c[k] * V + t /\ Rest(e, dims, k) = e[k] * V + u
    BY Tails
  <2>4. Rest(c, dims, k) = Rest(e, dims, k)
    BY <1>3, <2>1
  <2>5. c[k] \in Nat /\ e[k] \in Nat
    BY <1>1
  <2> HIDE DEF V, t, u
  <2>7. /\ (c[k] * V + t) \div V = c[k] /\ (c[k] * V + t) % V = t
        /\ (e[k] * V + u) \div V = e[k] /\ (e[k] * V + u) % V = u
    BY <2>2, <2>5, DigitIs
  <2>8. c[k] * V + t = e[k] * V + u
    BY <2>3, <2>4
  <2>6. c[k] = e[k] /\ t = u
    BY <2>7, <2>8
  <2> QED BY <2>1, <2>6 DEF t, u
<1> HIDE DEF P
<1>4. \A k \in 0 .. n : k \in P
  BY <1>1, <1>2, <1>3, UpTo
<1>5. \A k \in 1 .. n : c[k] = e[k]
  BY <1>1, <1>4 DEF P
<1> QED BY <1>1, <1>5

\* A turn of the odometer is one more offset, until the last.
LEMMA TickNext ==
    ASSUME NEW dims \in Seq(Nat), Count(dims) > 0, NEW c \in Coordinates(dims),
           Dot(c, rocket_row_strides(dims)) < Count(dims) - 1
    PROVE  Dot(Tick(c, dims), rocket_row_strides(dims)) = Dot(c, rocket_row_strides(dims)) + 1
<1> DEFINE n == Len(dims)
           room == {d \in DOMAIN dims : c[d] + 1 < dims[d]}
           m == Max(room)
           T(d) == Rest(c, dims, d)
           V(d) == Weight(dims, d)
<1>1. n \in Nat /\ DOMAIN dims = 1 .. n
  BY ShapeDomain
<1>2. \A d \in 1 .. n : c[d] \in Nat /\ dims[d] \in Nat /\ c[d] < dims[d]
  BY <1>1, ShapeDomain DEF Coordinates
<1>3. /\ T(n + 1) = 0 /\ V(n + 1) = 1
      /\ \A d \in 1 .. n + 1 : T(d) \in Nat /\ V(d) \in Nat /\ T(d) < V(d)
      /\ \A d \in 1 .. n : T(d) = c[d] * V(d + 1) + T(d + 1) /\ V(d) = dims[d] * V(d + 1)
  BY Tails
<1>4. Dot(c, rocket_row_strides(dims)) = T(1) /\ Count(dims) = V(1)
  BY Tails
\* Where there is no room from an axis on, the rest is the largest.
<1>5. ASSUME NEW a \in 1 .. n + 1, \A d \in a .. n : d \notin room PROVE T(a) = V(a) - 1
  <2> DEFINE P == {d \in 1 .. n + 1 : d >= a => T(d) = V(d) - 1}
  <2> HIDE DEF T, V
  <2>1. n + 1 \in P
    BY <1>1, <1>3
  <2>2. ASSUME NEW k \in 1 .. (n + 1) - 1, k + 1 \in P PROVE k \in P
    <3>1. k \in 1 .. n /\ k + 1 \in 1 .. n + 1
      BY <1>1
    <3>2. CASE k >= a
      <4>1. T(k + 1) = V(k + 1) - 1
        BY <2>2, <3>1, <3>2
      <4>2. c[k] = dims[k] - 1
        <5>1. k \notin room
          BY <1>5, <3>1, <3>2
        <5> QED BY <1>1, <1>2, <3>1, <5>1
      <4>3. V(k + 1) \in Nat /\ dims[k] \in Nat /\ T(k) = c[k] * V(k + 1) + T(k + 1)
            /\ V(k) = dims[k] * V(k + 1)
        BY <1>2, <1>3, <3>1
      <4>4. (dims[k] - 1) * V(k + 1) = dims[k] * V(k + 1) - V(k + 1)
        BY <4>3
      <4>5. T(k) = V(k) - 1
        <5>1. T(k) = (dims[k] - 1) * V(k + 1) + (V(k + 1) - 1)
          BY <4>1, <4>2, <4>3
        <5>2. dims[k] * V(k + 1) \in Nat
          BY <4>3, Times
        <5> QED BY <4>3, <4>4, <5>1, <5>2
      <4> QED BY <3>1, <4>5
    <3>3. CASE ~(k >= a)
      BY <3>1, <3>3
    <3> QED BY <3>2, <3>3
  <2> HIDE DEF P
  <2>3. \A k \in 1 .. n + 1 : k \in P
    BY <1>1, <2>1, <2>2, DownTo
  <2> QED BY <2>3 DEF P
<1>6. room # {}
  <2>1. CASE room = {}
    <3>1. T(1) = V(1) - 1
      BY <1>1, <1>5, <2>1
    <3> HIDE DEF T, V
    <3> QED BY <1>3, <1>4, <3>1, <1>1
  <2> QED BY <2>1
<1>7. m \in room /\ \A d \in room : m >= d
  <2>1. room \subseteq 0 .. n
    BY <1>1
  <2>2. \E d \in room : \A e \in room : d >= e
    <3> HIDE DEF room
    <3> QED BY <1>1, <1>6, <2>1, GreatestNatural
  <2> HIDE DEF room
  <2> QED BY <2>2 DEF Max
<1> DEFINE t == Tick(c, dims)
           U(d) == Rest(t, dims, d)
<1>8. t = [d \in DOMAIN dims |-> IF d < m THEN c[d] ELSE IF d = m THEN c[d] + 1 ELSE 0]
  BY <1>6 DEF Tick
<1>9. t \in Coordinates(dims)
  BY TickInside
<1> HIDE DEF t
<1>10. /\ U(n + 1) = 0
       /\ \A d \in 1 .. n + 1 : U(d) \in Nat
       /\ \A d \in 1 .. n : U(d) = t[d] * V(d + 1) + U(d + 1)
       /\ Dot(t, rocket_row_strides(dims)) = U(1)
  BY <1>9, Tails
<1>11. m \in 1 .. n /\ m \in Nat
  BY <1>1, <1>7
<1>12. T(m + 1) = V(m + 1) - 1
  <2>1. \A d \in room : m >= d
    BY <1>7
  <2> HIDE DEF m, room, T, V
  <2>3. m + 1 \in 1 .. n + 1
    BY <1>1, <1>11
  <2>2. \A d \in m + 1 .. n : d \notin room
    BY <1>1, <1>11, <2>1
  <2> QED BY <1>5, <2>3, <2>2
<1> HIDE DEF m, room, T, V, U
<1>13. U(m + 1) = 0
  <2> DEFINE P == {d \in 1 .. n + 1 : d > m => U(d) = 0}
  <2>1. n + 1 \in P
    BY <1>1, <1>10
  <2>2. ASSUME NEW k \in 1 .. (n + 1) - 1, k + 1 \in P PROVE k \in P
    <3>1. k \in 1 .. n /\ k + 1 \in 1 .. n + 1
      BY <1>1
    <3>2. CASE k > m
      <4>1. U(k + 1) = 0 /\ t[k] = 0
        BY <1>1, <1>8, <1>11, <2>2, <3>1, <3>2
      <4>2. V(k + 1) \in Nat
        BY <1>3, <3>1
      <4> QED BY <1>10, <3>1, <4>1, <4>2
    <3>3. CASE ~(k > m)
      BY <3>1, <3>3
    <3> QED BY <3>2, <3>3
  <2> HIDE DEF P
  <2>3. \A k \in 1 .. n + 1 : k \in P
    BY <1>1, <2>1, <2>2, DownTo
  <2>4. m + 1 \in 1 .. n + 1 /\ m + 1 > m
    BY <1>1, <1>11
  <2> QED BY <2>3, <2>4 DEF P
<1>14. U(m) = T(m) + 1
  <2>1. t[m] = c[m] + 1
    BY <1>1, <1>8, <1>11
  <2>2. c[m] \in Nat /\ V(m + 1) \in Nat
    BY <1>2, <1>3, <1>11
  <2>3. (c[m] + 1) * V(m + 1) = c[m] * V(m + 1) + V(m + 1)
    BY <2>2
  <2>4. c[m] * V(m + 1) \in Nat
    BY <2>2, Times
  <2> QED BY <1>3, <1>10, <1>11, <1>12, <1>13, <2>1, <2>2, <2>3, <2>4
<1>15. U(1) = T(1) + 1
  <2> DEFINE P == {d \in 1 .. m : U(d) = T(d) + 1}
  <2>1. m \in P
    BY <1>11, <1>14
  <2>2. ASSUME NEW k \in 1 .. m - 1, k + 1 \in P PROVE k \in P
    <3>1. k \in 1 .. m /\ k \in 1 .. n /\ k < m /\ k + 1 \in 1 .. n + 1
      BY <1>1, <1>11
    <3>2. t[k] = c[k] /\ U(k + 1) = T(k + 1) + 1
      BY <1>1, <1>8, <2>2, <3>1
    <3>3. c[k] * V(k + 1) \in Nat /\ T(k + 1) \in Nat
      BY <1>2, <1>3, <3>1, Times
    <3> QED BY <1>3, <1>10, <3>1, <3>2, <3>3
  <2> HIDE DEF P
  <2>3. \A k \in 1 .. m : k \in P
    BY <1>11, <2>1, <2>2, DownTo
  <2>4. 1 \in P
    BY <1>11, <2>3
  <2> QED BY <2>4 DEF P
<1> QED BY <1>4, <1>10, <1>15 DEF t, T

\* The recursion of the odometer has the solution it is meant to have.
LEMMA OdometerSolves ==
    ASSUME NEW dims \in Seq(Nat), Count(dims) > 0
    PROVE  Odometer(dims) = [k \in Cells(dims) |-> IF k = 0 THEN Zeros(Len(dims))
                                                   ELSE Tick(Odometer(dims)[k - 1], dims)]
<1> DEFINE m == Count(dims) - 1
           Solves(at) == at = [k \in Cells(dims) |-> IF k = 0 THEN Zeros(Len(dims))
                                                     ELSE Tick(at[k - 1], dims)]
           C == Coordinates(dims)
           z == Zeros(Len(dims))
           step == [q \in (1 .. m) \X C |-> Tick(q[2], dims)]
<1>1. m \in Nat /\ Cells(dims) = 0 .. m
  BY CountNat DEF Cells
<1>2. z \in C /\ \A c \in C : Tick(c, dims) \in C
  BY TickInside
<1>3. \A k \in 1 .. m : \A v \in C : step[<<k, v>>] = Tick(v, dims) /\ step[<<k, v>>] \in C
  BY <1>2
<1> HIDE DEF step, m, C, z
<1>4. Iterates(m, C, z, step) # {}
  <2>1. z \in C /\ \A k \in 1 .. m : \A v \in C : step[<<k, v>>] \in C
    BY <1>2, <1>3
  <2> QED BY <1>1, <2>1, Recursion
<1>5. PICK f \in [0 .. m -> C] : f[0] = z /\ \A k \in 1 .. m : f[k] = step[<<k, f[k - 1]>>]
  BY <1>4 DEF Iterates
<1>6. \A k \in 0 .. m : f[k] = IF k = 0 THEN z ELSE Tick(f[k - 1], dims)
  <2> TAKE k \in 0 .. m
  <2>1. CASE k = 0
    BY <1>5, <2>1
  <2>2. CASE k # 0
    <3>1. k \in 1 .. m /\ k - 1 \in 0 .. m
      BY <1>1, <2>2
    <3>2. f[k - 1] \in C
      BY <1>5, <3>1
    <3> QED BY <1>3, <1>5, <2>2, <3>1, <3>2
  <2> QED BY <2>1, <2>2
<1>7. Solves(f)
  BY <1>1, <1>5, <1>6 DEF z
<1> QED BY <1>7 DEF Odometer

\* The odometer passes the coordinates in the order of their offsets.
LEMMA OdometerAt ==
    ASSUME NEW dims \in Seq(Nat)
    PROVE  \A k \in Cells(dims) :
              /\ Odometer(dims)[k] \in Coordinates(dims)
              /\ Dot(Odometer(dims)[k], rocket_row_strides(dims)) = k
<1> DEFINE m == Count(dims) - 1
           z == Zeros(Len(dims))
           at == Odometer(dims)
           row == rocket_row_strides(dims)
<1>1. Count(dims) \in Nat
  BY CountNat
<1>2. CASE Count(dims) = 0
  BY <1>2 DEF Cells
<1>3. CASE Count(dims) > 0
  <2>1. m \in Nat /\ Cells(dims) = 0 .. m
    BY <1>1, <1>3 DEF Cells
  <2>2. z \in Coordinates(dims) /\ \A c \in Coordinates(dims) : Tick(c, dims) \in Coordinates(dims)
    BY <1>3, TickInside
  <2>3. \A k \in 0 .. m : at[k] \in Coordinates(dims)
    BY <2>1, OdometerInside
  <2>4. \A k \in 0 .. m : at[k] = IF k = 0 THEN z ELSE Tick(at[k - 1], dims)
    <3>1. at = [k \in Cells(dims) |-> IF k = 0 THEN z ELSE Tick(at[k - 1], dims)]
      BY <1>3, OdometerSolves
    <3> HIDE DEF m, z, at
    <3>2. at = [k \in 0 .. m |-> IF k = 0 THEN z ELSE Tick(at[k - 1], dims)]
      BY <2>1, <3>1
    <3> QED BY <3>2
  <2>5. Dot(z, row) = 0
    <3> DEFINE f == [d \in DOMAIN z |-> z[d] * row[d]]
    <3>1. Len(dims) \in Nat /\ DOMAIN z = 1 .. Len(dims) /\ \A d \in 1 .. Len(dims) : z[d] = 0
      BY ShapeDomain DEF Zeros
    <3>2. \A d \in 1 .. Len(dims) : row[d] \in Nat
      BY RowStrides, Suffix
    <3>3. DOMAIN f = 1 .. Len(dims) /\ \A d \in 1 .. Len(dims) : f[d] = z[d] * row[d]
      BY <3>1
    <3> HIDE DEF f, row, z
    <3>4. \A d \in 1 .. Len(dims) : f[d] = 0
      BY <3>1, <3>2, <3>3
    <3>5. SumFunctionOnSet(f, 1 .. Len(dims)) = SumFunctionOnSet(f, {})
      <4>1. IsFiniteSet(1 .. Len(dims))
        BY <3>1, FS_Interval
      <4> QED BY <3>4, <4>1, SumSupport
    <3> QED BY <3>3, <3>5, SumEmpty DEF Dot, SumFunction, f
  <2> DEFINE P == {k \in 0 .. m : Dot(at[k], row) = k}
  <2> HIDE DEF at, row, z
  <2>6. 0 \in P
    BY <2>1, <2>4, <2>5
  <2>7. ASSUME NEW k \in 1 .. m, k - 1 \in P PROVE k \in P
    <3>1. k \in 0 .. m /\ k - 1 \in 0 .. m /\ k # 0 /\ k - 1 < m /\ (k - 1) + 1 = k
      BY <2>1
    <3>2. at[k] = Tick(at[k - 1], dims) /\ at[k - 1] \in Coordinates(dims) /\ Dot(at[k - 1], row) = k - 1
      BY <2>3, <2>4, <2>7, <3>1
    <3>3. Dot(Tick(at[k - 1], dims), row) = Dot(at[k - 1], row) + 1
      BY <1>3, <3>1, <3>2, TickNext DEF row
    <3> QED BY <3>1, <3>2, <3>3
  <2> HIDE DEF P, m
  <2>8. \A k \in 0 .. m : k \in P
    BY <2>1, <2>6, <2>7, UpTo
  <2> QED BY <2>1, <2>3, <2>8 DEF P, at, row
<1> QED BY <1>1, <1>2, <1>3

\* So it is at a coordinate where that one's offset is.
LEMMA OdometerOf ==
    ASSUME NEW dims \in Seq(Nat), NEW c \in Coordinates(dims)
    PROVE  Odometer(dims)[Dot(c, rocket_row_strides(dims))] = c
<1> DEFINE k == Dot(c, rocket_row_strides(dims))
<1>1. k \in Cells(dims)
  BY DotWithin
<1>2. Odometer(dims)[k] \in Coordinates(dims) /\ Dot(Odometer(dims)[k], rocket_row_strides(dims)) = k
  BY <1>1, OdometerAt
<1> QED BY <1>2, DotInjective

-----------------------------------------------------------------------------
(* What is left of an offset, axis by axis.                                *)

\* What Flat adds up over some of the axes: each coordinate times the extents after it
FlatTerm(c, dims, s) == [d \in s |-> c[d] * ProductOn(dims, {e \in s : e > d})]
FlatSum(c, dims, s) == SumFunctionOnSet(FlatTerm(c, dims, s), s)
Horner(acc, extent, digit) == acc * extent + digit
LastOf(m, s) == m \in s /\ \A d \in s : m >= d

\* Taking the last of them multiplies what the others add up to by its extent.
LEMMA FlatTake ==
    ASSUME NEW dims, NEW c, NEW s, IsFiniteSet(s),
           \A d \in s : d \in Int /\ dims[d] \in Int /\ c[d] \in Int,
           NEW m, LastOf(m, s)
    PROVE  FlatSum(c, dims, s) = Horner(FlatSum(c, dims, s \ {m}), dims[m], c[m])
<1> DEFINE r == s \ {m}
           f == FlatTerm(c, dims, s)
           g == FlatTerm(c, dims, r)
           A(t, d) == {e \in t : e > d}
<1>1. IsFiniteSet(s) /\ IsFiniteSet(r)
  <2>1. r \subseteq s
    OBVIOUS
  <2> QED BY <2>1, FS_Subset
<1>14. m \in s /\ \A d \in s : m >= d
  BY DEF LastOf
<1>2. m \in Int /\ dims[m] \in Int /\ c[m] \in Int /\ \A d \in s : d \in Int /\ dims[d] \in Int /\ c[d] \in Int
  BY <1>14
<1>3. \A d \in r : g[d] = c[d] * ProductOn(dims, A(r, d)) /\ ProductOn(dims, A(r, d)) \in Int
  <2> TAKE d \in r
  <2>1. A(r, d) \subseteq s /\ IsFiniteSet(A(r, d)) /\ \A e \in A(r, d) : dims[e] \in Int
    BY <1>1, <1>2, FS_Subset
  <2> QED BY <2>1, ProductInt DEF FlatTerm
<1>4. \A d \in r : g[d] \in Int
  <2> TAKE d \in r
  <2> DEFINE p == ProductOn(dims, A(r, d))
  <2>1. g[d] = c[d] * p /\ p \in Int /\ c[d] \in Int
    BY <1>2, <1>3
  <2> HIDE DEF g, p
  <2> QED BY <2>1
<1>5. \A d \in r : f[d] = dims[m] * g[d]
  <2> TAKE d \in r
  <2>1. m \in A(s, d) /\ A(s, d) \ {m} = A(r, d)
    <3>1. d # m /\ m >= d /\ d \in Int /\ m \in Int /\ m \in s
      BY <1>2, <1>14
    <3> QED BY <3>1
  <2>2. IsFiniteSet(A(s, d)) /\ \A e \in A(s, d) : dims[e] \in Int
    BY <1>1, <1>2, FS_Subset
  <2>3. f[d] = c[d] * ProductOn(dims, A(s, d))
    BY DEF FlatTerm
  <2>4. ProductOn(dims, A(s, d)) = dims[m] * ProductOn(dims, A(s, d) \ {m})
    <3> DEFINE B == A(s, d)
    <3> HIDE DEF B
    <3>1. IsFiniteSet(B) /\ (\A e \in B : dims[e] \in Int) /\ m \in B
      BY <2>1, <2>2 DEF B
    <3>2. \A e \in B : ProductOn(dims, B) = dims[e] * ProductOn(dims, B \ {e})
      BY <3>1, ProductTake
    <3> QED BY <3>1, <3>2 DEF B
  <2>5. f[d] = c[d] * (dims[m] * ProductOn(dims, A(r, d))) /\ g[d] = c[d] * ProductOn(dims, A(r, d))
        /\ ProductOn(dims, A(r, d)) \in Int /\ c[d] \in Int /\ dims[m] \in Int
    BY <1>2, <1>3, <2>1, <2>3, <2>4
  <2> DEFINE p == ProductOn(dims, A(r, d))
  <2> HIDE DEF p, f, g
  <2>6. c[d] * (dims[m] * p) = dims[m] * (c[d] * p)
    BY <2>5 DEF p
  <2> QED BY <2>5, <2>6 DEF p
<1>6. f[m] = c[m]
  <2>3. \A d \in s : ~(d > m)
    BY <1>2, <1>14
  <2>1. A(s, m) = {}
    BY <2>3
  <2>2. f[m] = c[m] * ProductOn(dims, A(s, m))
    BY <1>14 DEF FlatTerm
  <2>4. ProductOn(dims, A(s, m)) = 1
    BY <2>1, ProductEmpty
  <2> HIDE DEF A, f
  <2> QED BY <1>2, <2>2, <2>4
<1> HIDE DEF f, g
<1>7. \A d \in s : f[d] \in Int
  <2> TAKE d \in s
  <2>1. CASE d = m
    BY <1>2, <1>6, <2>1
  <2>2. CASE d # m
    <3>1. d \in r /\ g[d] \in Int /\ dims[m] \in Int
      BY <1>2, <1>4, <2>2
    <3>2. dims[m] * g[d] \in Int
      BY <3>1
    <3> QED BY <1>5, <3>1, <3>2
  <2> QED BY <2>1, <2>2
<1>8. SumFunctionOnSet(f, s) = f[m] + SumFunctionOnSet(f, r)
  <2>1. \A e \in s : SumFunctionOnSet(f, s) = f[e] + SumFunctionOnSet(f, s \ {e})
    BY <1>1, <1>7, SumTake
  <2> QED BY <1>14, <2>1
<1> DEFINE z == [d \in r |-> 0]
<1>9. SumFunctionOnSet(f, r) = SumFunctionOnSet(z, r) + dims[m] * SumFunctionOnSet(g, r)
  <2>1. \A d \in r : z[d] \in Int /\ g[d] \in Int /\ f[d] = z[d] + dims[m] * g[d]
    <3> TAKE d \in r
    <3>1. z[d] = 0 /\ f[d] = dims[m] * g[d] /\ dims[m] \in Int /\ g[d] \in Int
      BY <1>2, <1>4, <1>5
    <3> HIDE DEF z
    <3>2. dims[m] * g[d] \in Int
      BY <3>1
    <3> QED BY <3>1, <3>2
  <2> HIDE DEF z, r
  <2> QED BY <1>1, <1>2, <2>1, SumLinear
<1>10. SumFunctionOnSet(z, r) = 0
  <2>1. \A d \in r : z[d] \in Int /\ z[d] = 0
    OBVIOUS
  <2> HIDE DEF z, r
  <2>2. SumFunctionOnSet(z, r) = SumFunctionOnSet(z, {})
    BY <1>1, <2>1, SumSupport
  <2> QED BY <2>2, SumEmpty
<1>11. SumFunctionOnSet(g, r) \in Int
  BY <1>1, <1>4, SumInt
<1> DEFINE G == SumFunctionOnSet(g, r)
           F == SumFunctionOnSet(f, s)
<1>12. F = c[m] + (0 + dims[m] * G) /\ G \in Int
  BY <1>6, <1>8, <1>9, <1>10, <1>11
<1> HIDE DEF F, G
<1>13. F = G * dims[m] + c[m]
  BY <1>2, <1>12
<1> QED BY <1>13 DEF F, G, f, g, r, FlatSum, Horner

\* A permutation takes every axis, and none twice.
LEMMA PermIs ==
    ASSUME NEW n \in Nat, NEW perm \in Seq(Nat), Len(perm) = n, Range(perm) = 1 .. n
    PROVE  /\ DOMAIN perm = 1 .. n /\ IsFiniteSet(1 .. n)
           /\ \A d \in 1 .. n : perm[d] \in 1 .. n
           /\ \A e \in 1 .. n : \E d \in 1 .. n : perm[d] = e
           /\ \A d, e \in 1 .. n : perm[d] = perm[e] => d = e
<1> DEFINE R == 1 .. n
<1>1. DOMAIN perm = R /\ IsFiniteSet(R)
  BY ShapeDomain
<1>2. \A d \in R : perm[d] \in R
  BY <1>1 DEF Range
<1>3. \A e \in R : \E d \in R : perm[d] = e
  BY <1>1 DEF Range
<1>4. perm \in Surjection(R, R)
  <2>1. perm \in [R -> R]
    BY <1>1, <1>2
  <2> QED BY <1>3, <2>1 DEF Surjection
<1> HIDE DEF R
<1>5. perm \in Injection(R, R)
  BY <1>1, <1>4, FS_SurjSameCardinalityImpliesInj
<1>6. \A d, e \in R : perm[d] = perm[e] => d = e
  BY <1>1, <1>5 DEF Injection, IsInjective
<1> QED BY <1>1, <1>2, <1>3, <1>6 DEF R

\* A coordinate, and strides, taken in another order
Permuted(in, perm, idx, s, c) ==
    /\ in \in Seq(Nat) /\ perm \in Seq(Nat) /\ Len(perm) = Len(in) /\ Range(perm) = 1 .. Len(in)
    /\ DOMAIN idx = DOMAIN in /\ c \in [DOMAIN in -> Nat]
    /\ \A d \in DOMAIN in : /\ idx[d] \in Nat /\ idx[d] < in[perm[d]] /\ c[perm[d]] = idx[d]
                            /\ s[d] = rocket_row_strides(in)[perm[d]]

\* TRANSPOSE: the offset made with permuted strides is that of the permuted coordinate.
LEMMA TransposeDot ==
    ASSUME NEW in, NEW perm, NEW idx, NEW s, NEW c, Permuted(in, perm, idx, s, c)
    PROVE  c \in Coordinates(in) /\ Dot(idx, s) = Dot(c, rocket_row_strides(in))
<1> DEFINE row == rocket_row_strides(in)
           R == 1 .. Len(in)
           b == [e \in DOMAIN c |-> c[e] * row[e]]
           g == [d \in R |-> idx[d] * row[perm[d]]]
<1>3. in \in Seq(Nat) /\ perm \in Seq(Nat) /\ Len(perm) = Len(in) /\ Range(perm) = 1 .. Len(in)
  BY DEF Permuted
<1>1. Len(in) \in Nat /\ DOMAIN in = R /\ \A d \in R : in[d] \in Nat
  BY <1>3, ShapeDomain
<1>4. /\ DOMAIN idx = R /\ c \in [R -> Nat]
      /\ \A d \in R : /\ idx[d] \in Nat /\ idx[d] < in[perm[d]] /\ c[perm[d]] = idx[d]
                      /\ s[d] = row[perm[d]]
  BY <1>1 DEF Permuted
<1>2. /\ DOMAIN perm = R /\ IsFiniteSet(R)
      /\ \A d \in R : perm[d] \in R
      /\ \A e \in R : \E d \in R : perm[d] = e
      /\ \A d, e \in R : perm[d] = perm[e] => d = e
  BY <1>1, <1>3, PermIs
<1> HIDE DEF R
<1>8. \A e \in R : c[e] \in Nat /\ c[e] < in[e]
  <2> TAKE e \in R
  <2>1. PICK d \in R : perm[d] = e
    BY <1>2
  <2> QED BY <1>4, <2>1
<1>9. c \in Coordinates(in) /\ DOMAIN c = R
  BY <1>1, <1>4, <1>8 DEF Coordinates
<1>10. \A e \in R : b[e] \in Int /\ b[e] = c[e] * row[e]
  <2> TAKE e \in R
  <2>1. c[e] \in Nat /\ row[e] = ProductOn(in, (e + 1) .. Len(in))
        /\ ProductOn(in, (e + 1) .. Len(in)) \in Nat
    BY <1>1, <1>3, <1>8, RowStrides, Suffix DEF R
  <2>2. b[e] = c[e] * row[e]
    BY <1>9
  <2> HIDE DEF b, row
  <2> QED BY <2>1, <2>2, Times
<1>11. \A d \in R : b[perm[d]] \in Int /\ g[d] = b[perm[d]]
  BY <1>2, <1>4, <1>10
<1>12. DOMAIN g = R /\ DOMAIN b = R /\ DOMAIN idx = R
  BY <1>4, <1>9
<1>13. Dot(idx, s) = SumFunctionOnSet(g, R) /\ Dot(c, row) = SumFunctionOnSet(b, R)
  <2> QED BY <1>4, <1>12 DEF Dot, SumFunction, g, b
<1> HIDE DEF b, g, row
<1>15. SumFunctionOnSet(g, R) = SumFunctionOnSet(b, Renamed(perm, R))
  <2>1. IsFiniteSet(R) /\ \A d, e \in R : perm[d] = perm[e] => d = e
    BY <1>2
  <2> QED BY ONLY <2>1, <1>11, SumRenamed
<1>16. Renamed(perm, R) = R
  BY <1>2 DEF Renamed
<1> QED BY <1>9, <1>13, <1>15, <1>16 DEF row

\* A coordinate's digits are below the extents.
LEMMA CoordTyped ==
    ASSUME NEW dims \in Seq(Nat), NEW c \in Coordinates(dims)
    PROVE  \A d \in DOMAIN dims : c[d] \in Nat /\ dims[d] \in Nat /\ c[d] < dims[d]
BY DEF Coordinates

\* What the first k axes make of a coordinate
Top(c, dims, k) == FlatSum(c, dims, 1 .. k)

\* Axis by axis, the offset so far times the extent, and the index.
LEMMA TopStep ==
    ASSUME NEW dims \in Seq(Nat), NEW c \in Coordinates(dims)
    PROVE  /\ Top(c, dims, 0) = 0
           /\ \A k \in 1 .. Len(dims) : Top(c, dims, k) = Top(c, dims, k - 1) * dims[k] + c[k]
           /\ \A k \in 0 .. Len(dims) : Top(c, dims, k) \in Nat
<1> DEFINE n == Len(dims)
           P == {k \in 0 .. n : Top(c, dims, k) \in Nat}
<1>1. n \in Nat /\ DOMAIN dims = 1 .. n /\ \A d \in 1 .. n : c[d] \in Nat /\ dims[d] \in Nat
  BY CoordTyped, ShapeDomain
<1> HIDE DEF n
<1>2. Top(c, dims, 0) = 0
  <2>1. 1 .. 0 = {}
    OBVIOUS
  <2> QED BY <2>1, SumEmpty DEF Top, FlatSum
<1>3. ASSUME NEW k \in 1 .. n PROVE Top(c, dims, k) = Top(c, dims, k - 1) * dims[k] + c[k]
  <2> DEFINE s == 1 .. k
  <2>1. IsFiniteSet(s) /\ LastOf(k, s) /\ s \ {k} = 1 .. (k - 1)
    <3>1. k \in Int /\ 1 \in Int
      OBVIOUS
    <3>2. IsFiniteSet(s)
      BY <3>1, FS_Interval
    <3> QED BY <3>1, <3>2 DEF LastOf
  <2>2. \A d \in s : d \in Int /\ dims[d] \in Int /\ c[d] \in Int
    BY <1>1
  <2> HIDE DEF s
  <2>3. FlatSum(c, dims, s) = Horner(FlatSum(c, dims, s \ {k}), dims[k], c[k])
    BY ONLY <2>1, <2>2, FlatTake
  <2> QED BY <2>1, <2>3 DEF Top, Horner, s
<1>4. 0 \in P
  BY <1>1, <1>2
<1>5. ASSUME NEW k \in 1 .. n, k - 1 \in P PROVE k \in P
  <2>1. PICK t \in Nat, m \in Nat, d \in Nat : t = Top(c, dims, k - 1) /\ m = dims[k] /\ d = c[k]
    BY <1>1, <1>5
  <2>2. t * m \in Nat
    BY Times
  <2>3. Top(c, dims, k) = t * m + d
    BY <1>3, <2>1
  <2> QED BY <2>2, <2>3
<1>6. \A k \in 0 .. n : k \in P
  <2> HIDE DEF P
  <2> QED BY <1>1, <1>4, <1>5, UpTo
<1> QED BY <1>2, <1>3, <1>6 DEF n

\* It looks at the axes it is named for.
LEMMA TopSame ==
    ASSUME NEW dims, NEW c, NEW e, NEW k, \A d \in 1 .. k : c[d] = e[d]
    PROVE  Top(c, dims, k) = Top(e, dims, k)
BY DEF Top, FlatSum, FlatTerm

-----------------------------------------------------------------------------
(* Offsets of three digits, and of a segment among others.                 *)

\* The digits of an offset are the ones it was made of.
DigitsAre(W, C, h, w, c) ==
    /\ ((h * W + w) * C + c) % C = c /\ ((h * W + w) * C + c) \div C = h * W + w
    /\ (h * W + w) \div W = h /\ (h * W + w) % W = w

\* A pixel's row, column and channel are found back from its offset.
LEMMA Digits3Are ==
    ASSUME NEW W \in Nat, NEW C \in Nat, NEW h \in Nat, NEW w \in Nat, w < W, NEW c \in Nat, c < C
    PROVE  DigitsAre(W, C, h, w, c)
<1>1. h * W + w \in Nat
  BY Times
<1> DEFINE p == h * W + w
<1>2. (h * W + w) \div W = h /\ (h * W + w) % W = w
  BY DigitIs
<1>3. p \in Nat
  BY <1>1
<1> HIDE DEF p
<1>4. (p * C + c) \div C = p /\ (p * C + c) % C = c
  BY <1>3, DigitIs
<1> QED BY <1>2, <1>4 DEF p, DigitsAre

\* No two triples write the same offset.
SameOffset(W, C, h, w, c, g, v, b) == (h * W + w) * C + c = (g * W + v) * C + b

\* Two writings of one offset have the same digits.
LEMMA DigitsUnique ==
    ASSUME NEW W \in Nat, NEW C \in Nat, NEW h \in Nat, NEW w \in Nat, w < W, NEW c \in Nat, c < C,
           NEW g \in Nat, NEW v \in Nat, v < W, NEW b \in Nat, b < C,
           SameOffset(W, C, h, w, c, g, v, b)
    PROVE  h = g /\ w = v /\ c = b
<1>1. DigitsAre(W, C, h, w, c) /\ DigitsAre(W, C, g, v, b)
  BY Digits3Are
<1> DEFINE k == (h * W + w) * C + c
           l == (g * W + v) * C + b
           p == h * W + w
           r == g * W + v
<1>2. k = l
  BY DEF SameOffset
<1>3. k = l /\ k % C = c /\ l % C = b /\ k \div C = p /\ l \div C = r
      /\ p \div W = h /\ p % W = w /\ r \div W = g /\ r % W = v
  BY <1>1, <1>2 DEF DigitsAre
<1> HIDE DEF k, l, p, r
<1> QED BY <1>3

\* Coordinates that differ along one axis, of shapes that do
Alike(c, dims, e, eims, a) ==
    /\ dims \in Seq(Nat) /\ eims \in Seq(Nat) /\ Len(dims) = Len(eims) /\ a \in 1 .. Len(dims)
    /\ c \in Coordinates(dims) /\ e \in Coordinates(eims)
    /\ \A d \in 1 .. Len(dims) : d # a => dims[d] = eims[d] /\ c[d] = e[d]

\* What is before the axis and behind it is the same for both.
LEMMA AlikeAround ==
    ASSUME NEW dims, NEW c, NEW eims, NEW e, NEW a, Alike(c, dims, e, eims, a)
    PROVE  /\ Top(c, dims, a - 1) = Top(e, eims, a - 1)
           /\ Weight(dims, a + 1) = Weight(eims, a + 1) /\ Rest(c, dims, a + 1) = Rest(e, eims, a + 1)
<1> DEFINE n == Len(dims)
<1>1. /\ dims \in Seq(Nat) /\ eims \in Seq(Nat) /\ Len(dims) = Len(eims) /\ a \in 1 .. n /\ n \in Nat
      /\ c \in Coordinates(dims) /\ e \in Coordinates(eims)
      /\ \A d \in 1 .. n : d # a => dims[d] = eims[d] /\ c[d] = e[d]
  BY DEF Alike
<1>2. /\ Top(c, dims, 0) = 0 /\ Top(e, eims, 0) = 0
      /\ \A k \in 1 .. n : Top(c, dims, k) = Top(c, dims, k - 1) * dims[k] + c[k]
      /\ \A k \in 1 .. n : Top(e, eims, k) = Top(e, eims, k - 1) * eims[k] + e[k]
  <2>1. /\ Top(c, dims, 0) = 0
        /\ \A k \in 1 .. Len(dims) : Top(c, dims, k) = Top(c, dims, k - 1) * dims[k] + c[k]
    BY <1>1, TopStep
  <2>2. /\ Top(e, eims, 0) = 0
        /\ \A k \in 1 .. Len(eims) : Top(e, eims, k) = Top(e, eims, k - 1) * eims[k] + e[k]
    BY <1>1, TopStep
  <2> QED BY <1>1, <2>1, <2>2
<1>3. /\ Rest(c, dims, n + 1) = 0 /\ Weight(dims, n + 1) = 1
      /\ Rest(e, eims, n + 1) = 0 /\ Weight(eims, n + 1) = 1
      /\ \A d \in 1 .. n : Rest(c, dims, d) = c[d] * Weight(dims, d + 1) + Rest(c, dims, d + 1)
      /\ \A d \in 1 .. n : Weight(dims, d) = dims[d] * Weight(dims, d + 1)
      /\ \A d \in 1 .. n : Rest(e, eims, d) = e[d] * Weight(eims, d + 1) + Rest(e, eims, d + 1)
      /\ \A d \in 1 .. n : Weight(eims, d) = eims[d] * Weight(eims, d + 1)
  <2>1. /\ Rest(c, dims, Len(dims) + 1) = 0 /\ Weight(dims, Len(dims) + 1) = 1
        /\ \A d \in 1 .. Len(dims) : Rest(c, dims, d) = c[d] * Weight(dims, d + 1) + Rest(c, dims, d + 1)
        /\ \A d \in 1 .. Len(dims) : Weight(dims, d) = dims[d] * Weight(dims, d + 1)
    BY <1>1, Tails
  <2>2. /\ Rest(e, eims, Len(eims) + 1) = 0 /\ Weight(eims, Len(eims) + 1) = 1
        /\ \A d \in 1 .. Len(eims) : Rest(e, eims, d) = e[d] * Weight(eims, d + 1) + Rest(e, eims, d + 1)
        /\ \A d \in 1 .. Len(eims) : Weight(eims, d) = eims[d] * Weight(eims, d + 1)
    BY <1>1, Tails
  <2> QED BY <1>1, <2>1, <2>2
<1> HIDE DEF n
<1> DEFINE P == {k \in Nat : Top(c, dims, k) = Top(e, eims, k)}
           Q == {k \in Nat : /\ Weight(dims, n + 1 - k) = Weight(eims, n + 1 - k)
                             /\ Rest(c, dims, n + 1 - k) = Rest(e, eims, n + 1 - k)}
<1>4. \A k \in 0 .. (a - 1) : k \in P
  <2>1. 0 \in P
    BY <1>2
  <2>2. ASSUME NEW k \in 1 .. (a - 1), k - 1 \in P PROVE k \in P
    <3>1. k \in 1 .. n /\ k # a /\ k \in Nat
      BY <1>1
    <3>2. Top(c, dims, k - 1) = Top(e, eims, k - 1)
      BY <2>2
    <3> QED BY <1>1, <1>2, <3>1, <3>2
  <2>3. a - 1 \in Nat
    BY <1>1
  <2> HIDE DEF P
  <2> QED BY <2>1, <2>2, <2>3, UpTo
<1>5. \A k \in 0 .. (n - a) : k \in Q
  <2>1. 0 \in Q
    <3>1. n + 1 - 0 = n + 1
      BY <1>1
    <3> QED BY <1>3, <3>1
  <2>2. ASSUME NEW k \in 1 .. (n - a), k - 1 \in Q PROVE k \in Q
    <3> DEFINE d == n + 1 - k
    <3>1. d \in 1 .. n /\ d # a /\ k \in Nat /\ d + 1 = n + 1 - (k - 1)
      BY <1>1
    <3> HIDE DEF d
    <3>2. Weight(dims, d + 1) = Weight(eims, d + 1) /\ Rest(c, dims, d + 1) = Rest(e, eims, d + 1)
      BY <2>2, <3>1
    <3>3. dims[d] = eims[d] /\ c[d] = e[d]
      BY <1>1, <3>1
    <3>4. Weight(dims, d) = Weight(eims, d) /\ Rest(c, dims, d) = Rest(e, eims, d)
      BY <1>3, <3>1, <3>2, <3>3
    <3> QED BY <3>1, <3>4 DEF d
  <2>3. n - a \in Nat
    BY <1>1
  <2> HIDE DEF Q
  <2> QED BY <2>1, <2>2, <2>3, UpTo
<1>6. a - 1 \in P /\ n - a \in Q /\ n + 1 - (n - a) = a + 1
  <2>1. a - 1 \in 0 .. (a - 1) /\ n - a \in 0 .. (n - a) /\ n + 1 - (n - a) = a + 1
    BY <1>1
  <2> HIDE DEF P, Q
  <2> QED BY <1>4, <1>5, <2>1
<1> QED BY <1>6

\* Where each of the segments laid end to end starts
Start(g, i) == SumFunctionOnSet(g, 1 .. (i - 1))

\* The segments follow each other without a gap, and hold every index up to the end.
LEMMA Segments ==
    ASSUME NEW m \in Nat, NEW g, \A j \in 1 .. m : g[j] \in Nat
    PROVE  /\ \A i \in 1 .. (m + 1) : Start(g, i) \in Nat
           /\ \A i \in 1 .. m : Start(g, i + 1) = Start(g, i) + g[i]
           /\ \A i \in 1 .. m : \A j \in 1 .. m : i < j => Start(g, i) + g[i] <= Start(g, j)
           /\ \A k \in Nat : k < Start(g, m + 1) =>
                 \E i \in 1 .. m : Start(g, i) <= k /\ k < Start(g, i) + g[i]
<1>1. ASSUME NEW i \in 1 .. (m + 1) PROVE Start(g, i) \in Nat
  <2>1. IsFiniteSet(1 .. (i - 1))
    <3>1. i - 1 \in Int /\ 1 \in Int
      OBVIOUS
    <3> QED BY <3>1, FS_Interval
  <2>2. \A j \in 1 .. (i - 1) : g[j] \in Nat
    OBVIOUS
  <2> QED BY <2>1, <2>2, SumNat DEF Start
<1>2. ASSUME NEW i \in 1 .. m PROVE Start(g, i + 1) = Start(g, i) + g[i]
  <2> DEFINE S == 1 .. ((i + 1) - 1)
  <2>1. IsFiniteSet(S) /\ i \in S /\ S \ {i} = 1 .. (i - 1)
    <3>1. (i + 1) - 1 \in Int /\ 1 \in Int
      OBVIOUS
    <3>2. IsFiniteSet(S)
      BY <3>1, FS_Interval
    <3> QED BY <3>2
  <2>2. \A j \in S : g[j] \in Int
    OBVIOUS
  <2> HIDE DEF S
  <2>3. SumFunctionOnSet(g, S) = g[i] + SumFunctionOnSet(g, S \ {i})
    BY <2>1, <2>2, SumTake
  <2>4. Start(g, i) \in Nat /\ g[i] \in Nat
    BY <1>1
  <2>5. Start(g, i + 1) = SumFunctionOnSet(g, S) /\ Start(g, i) = SumFunctionOnSet(g, S \ {i})
    BY <2>1 DEF Start, S
  <2> QED BY ONLY <2>3, <2>4, <2>5
<1>3. ASSUME NEW i \in 1 .. m
      PROVE  \A k \in 0 .. (m - i) : Start(g, i + 1) <= Start(g, i + 1 + k)
  <2> DEFINE P == {k \in Nat : Start(g, i + 1) <= Start(g, i + 1 + k)}
  <2>1. 0 \in P
    <3>1. i + 1 + 0 = i + 1 /\ Start(g, i + 1) \in Nat
      BY <1>1
    <3> QED BY <3>1
  <2>2. ASSUME NEW k \in 1 .. (m - i), k - 1 \in P PROVE k \in P
    <3> DEFINE j == i + k
    <3>1. j \in 1 .. m /\ i + 1 + (k - 1) = j /\ i + 1 + k = j + 1 /\ k \in Nat
      OBVIOUS
    <3> HIDE DEF j
    <3>2. Start(g, i + 1) <= Start(g, j)
      BY <2>2, <3>1
    <3>3. Start(g, j + 1) = Start(g, j) + g[j] /\ Start(g, j) \in Nat /\ Start(g, i + 1) \in Nat /\ g[j] \in Nat
      BY <1>1, <1>2, <3>1
    <3>4. Start(g, i + 1) <= Start(g, j + 1)
      BY <3>2, <3>3
    <3> QED BY <3>1, <3>4
  <2>3. m - i \in Nat
    OBVIOUS
  <2> HIDE DEF P
  <2>4. \A k \in 0 .. (m - i) : k \in P
    BY <2>1, <2>2, <2>3, UpTo
  <2> QED BY <2>4 DEF P
<1>4. ASSUME NEW i \in 1 .. m, NEW j \in 1 .. m, i < j PROVE Start(g, i) + g[i] <= Start(g, j)
  <2>1. j - i - 1 \in 0 .. (m - i) /\ i + 1 + (j - i - 1) = j
    BY <1>4
  <2>2. Start(g, i + 1) <= Start(g, j)
    BY <1>3, <2>1
  <2> QED BY <1>2, <2>2
<1>5. ASSUME NEW k \in Nat
      PROVE  k < Start(g, m + 1) => \E i \in 1 .. m : Start(g, i) <= k /\ k < Start(g, i) + g[i]
  <2> DEFINE P == {j \in Nat : k < Start(g, j + 1) =>
                                  \E i \in 1 .. j : Start(g, i) <= k /\ k < Start(g, i) + g[i]}
  <2>1. 0 \in P
    <3>1. Start(g, 0 + 1) = 0
      <4>1. 1 .. ((0 + 1) - 1) = {}
        OBVIOUS
      <4> QED BY <4>1, SumEmpty DEF Start
    <3> QED BY <3>1
  <2>2. ASSUME NEW j \in 1 .. m, j - 1 \in P PROVE j \in P
    <3>1. k < Start(g, j) => \E i \in 1 .. (j - 1) : Start(g, i) <= k /\ k < Start(g, i) + g[i]
      <4>1. (j - 1) + 1 = j
        OBVIOUS
      <4> QED BY <2>2, <4>1
    <3>2. Start(g, j + 1) = Start(g, j) + g[j] /\ Start(g, j) \in Nat
      BY <1>1, <1>2
    <3>3. 1 .. (j - 1) \subseteq 1 .. j /\ j \in 1 .. j /\ j \in Nat
      OBVIOUS
    <3>4. k < Start(g, j + 1) => \E i \in 1 .. j : Start(g, i) <= k /\ k < Start(g, i) + g[i]
      BY <3>1, <3>2, <3>3
    <3> QED BY <3>3, <3>4
  <2> HIDE DEF P
  <2>3. m \in P
    BY <2>1, <2>2, UpTo
  <2> QED BY <2>3 DEF P
<1> QED BY <1>1, <1>2, <1>4, <1>5
=============================================================================

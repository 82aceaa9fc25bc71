---------------------------- MODULE FanOutProofs ----------------------------
(***************************************************************************)
(* Theorems about ParallelOh, for every number of rows and threads, and    *)
(* about FanOut, for every pool around it.                                 *)
(*                                                                         *)
(* One call: the argument is the comment's, "disjoint row bands".  Two     *)
(* bands never meet (Apart), the bands spawned cover the call (Covered),   *)
(* and a row has been written exactly when the worker of its band is past  *)
(* it (Written).                                                           *)
(*                                                                         *)
(* The pool: composed with the probe and with other interpreters, the      *)
(* followed call still is a ParallelOh and the probe a PoolProbe, so what  *)
(* is proved of one call holds under the pool.  The unsynchronised         *)
(* check-then-set of the probe is benign, and its report is exact: a       *)
(* call's tallies are counted as a set, and no call is between them once   *)
(* the process exits (TallyInv, ReportInv).                                *)
(***************************************************************************)
EXTENDS FanOut, FiniteSetTheorems, TLAPS

(* One call.                                                               *)

\* The workers that were spawned
Spawned == {w \in Workers : w < spawned}

\* The worker of r's band is past r
Past(r) == \E w \in Spawned : oh0(w) <= r /\ r < next[w]

CallerInv ==
    /\ pc \in {"entry", "inline"} => running = {} /\ spawned = 0
    /\ pc = "entry" => t = 0
    /\ pc = "inline" => t <= rows
    /\ pc = "spawn" => T > 1 /\ t = spawned /\ t <= T
    /\ pc = "join" => spawned > 0 /\ t <= spawned /\ oh0(spawned) >= rows
                      /\ \A w \in Workers : w < t => w \notin running
    /\ pc \in {"returned", "terminated"} => running = {}

BandsInv ==
    /\ running \subseteq Spawned
    /\ \A w \in Spawned : oh0(w) <= next[w] /\ next[w] <= oh1(w)
    /\ pc # "terminated" => \A w \in Spawned \ running : next[w] = oh1(w)

AppliedInv ==
    /\ pc \in {"entry", "inline"} => \A r \in Rows : applied[r] = IF r < t THEN 1 ELSE 0
    /\ pc \in {"spawn", "join", "terminated"} =>
          \A r \in Rows : applied[r] = IF Past(r) THEN 1 ELSE 0
    /\ pc = "returned" => \A r \in Rows : applied[r] = IF r < rows THEN 1 ELSE 0

IInv == TypeOK /\ CallerInv /\ BandsInv /\ AppliedInv

-----------------------------------------------------------------------------
(* The bands.                                                              *)

\* Division by a positive number is known by the multiples around the dividend.
LEMMA Quotient ==
    ASSUME NEW a \in Int, NEW s \in Nat \ {0}
    PROVE  /\ a \div s \in Int
           /\ (a \div s) * s <= a
           /\ a < (a \div s) * s + s
<1>1. s \in Int /\ s > 0
  OBVIOUS
<1>2. a \div s \in Int /\ a % s \in 0 .. (s - 1) /\ a = (s * (a \div s)) + (a % s)
  BY <1>1
<1> QED BY <1>1, <1>2

\* A multiplication by a natural number keeps the order.
LEMMA Monotone ==
    ASSUME NEW a \in Int, NEW b \in Int, a <= b, NEW s \in Nat
    PROVE  a * s \in Int /\ b * s \in Int /\ a * s <= b * s
<1>1. b - a \in Nat
  OBVIOUS
<1>2. (b - a) * s \in Nat
  BY <1>1
<1> QED BY <1>2

\* The thread count is positive and within the bounds; T bands of per rows cover
\* the call (the rounding up in parallel_oh).
LEMMA Sizes ==
    ASSUME rows \in 1 .. MaxRows, nthreads \in 0 .. MaxThreads
    PROVE  /\ T \in 1 .. MaxThreads /\ T <= rows
           /\ per \in Nat \ {0}
           /\ T * per >= rows
<1> USE BoundsAssumption
<1>1. T \in 1 .. MaxThreads /\ T <= rows
  BY DEF T, Smaller
<1> DEFINE d == (rows + T - 1) \div T
<1>2. d \in Int /\ d * T <= rows + T - 1 /\ rows + T - 1 < (d * T) + T
  <2>1. rows + T - 1 \in Int /\ T \in Nat \ {0}
    BY <1>1
  <2> QED BY <2>1, Quotient
<1>3. d = per
  BY DEF per
<1> HIDE DEF d
<1>4. d * T >= rows
  BY <1>1, <1>2
<1>5. d > 0
  <2> SUFFICES ASSUME d <= 0 PROVE FALSE
    BY <1>2
  <2>1. d * T <= 0 * T
    BY <1>1, <1>2, Monotone
  <2> QED BY <2>1, <1>1, <1>2, <1>4
<1> QED BY <1>1, <1>2, <1>3, <1>4, <1>5

\* A band starts at a natural number, ends inside the call and has at most per
\* rows; it is empty only from the end of the call on.
LEMMA Band1 ==
    ASSUME TypeOK, NEW w \in Nat
    PROVE  /\ oh0(w) \in Nat /\ oh1(w) \in Nat
           /\ oh1(w) <= rows /\ oh1(w) <= oh0(w) + per
           /\ oh0(w) >= oh1(w) => oh0(w) >= rows
           /\ oh0(w) <= rows => oh0(w) <= oh1(w)
<1>1. per \in Nat \ {0}
  BY Sizes DEF TypeOK
<1>2. w * per \in Nat
  BY <1>1
<1> QED BY <1>1, <1>2, BoundsAssumption DEF oh0, oh1, Smaller, TypeOK

\* "disjoint row bands": an earlier band ends before a later one begins.
LEMMA Apart ==
    ASSUME TypeOK, NEW v \in Nat, NEW w \in Nat, v < w
    PROVE  oh1(v) <= oh0(w)
<1>1. per \in Nat \ {0}
  BY Sizes DEF TypeOK
<1>2. (v + 1) * per <= w * per
  BY <1>1, Monotone
<1>3. (v + 1) * per = (v * per) + per
  BY <1>1
<1>4. oh1(v) <= oh0(v) + per /\ oh1(v) \in Nat
  BY Band1
<1> QED BY <1>1, <1>2, <1>3, <1>4 DEF oh0

\* When the spawning loop ends the bands before its variable cover the call.
LEMMA Covered ==
    ASSUME TypeOK, NEW n \in Nat, oh0(n) >= rows, NEW r \in 0 .. (rows - 1)
    PROVE  \E w \in 0 .. (n - 1) : oh0(w) <= r /\ r < oh1(w)
<1> DEFINE w == r \div per
<1>0. per \in Nat \ {0} /\ rows \in Nat
  BY Sizes DEF TypeOK
<1>1. w \in Int /\ w * per <= r /\ r < (w * per) + per
  BY <1>0, Quotient
<1> HIDE DEF w
<1>2. w >= 0
  <2> SUFFICES ASSUME w + 1 <= 0 PROVE FALSE
    BY <1>1
  <2>1. (w + 1) * per <= 0 * per
    BY <1>0, <1>1, Monotone
  <2>2. (w + 1) * per = (w * per) + per
    BY <1>0, <1>1
  <2> QED BY <2>1, <2>2, <1>0, <1>1
<1>3. w < n
  <2> SUFFICES ASSUME n <= w PROVE FALSE
    BY <1>1
  <2>1. n * per <= w * per
    BY <1>0, <1>1, Monotone
  <2> QED BY <2>1, <1>0, <1>1 DEF oh0
<1>4. oh0(w) <= r /\ r < oh1(w)
  BY <1>0, <1>1, <1>2 DEF oh0, oh1, Smaller
<1> QED BY <1>1, <1>2, <1>3, <1>4
-----------------------------------------------------------------------------
(* The invariant.                                                          *)

LEMMA InitInv == Init => IInv
<1> SUFFICES ASSUME Init PROVE IInv
  OBVIOUS
<1> USE BoundsAssumption DEF Init
<1>1. TypeOK
  BY DEF TypeOK, Workers, Rows
<1>2. Spawned = {}
  BY DEF Spawned, Workers
<1>3. CallerInv
  BY DEF CallerInv
<1>4. BandsInv
  BY <1>2 DEF BandsInv
<1>5. AppliedInv
  BY DEF AppliedInv, Rows
<1> QED BY <1>1, <1>3, <1>4, <1>5 DEF IInv

\* What a step leaves of the bands: they depend on the call alone.
LEMMA SameBands ==
    ASSUME UNCHANGED <<rows, nthreads>>
    PROVE  /\ T' = T /\ per' = per
           /\ \A w : oh0(w)' = oh0(w) /\ oh1(w)' = oh1(w)
BY DEF T, per, oh0, oh1, Smaller

\* The row a worker is about to write is a row of the call nobody is past.
LEMMA NextRowLeft ==
    ASSUME TypeOK, BandsInv, NEW w \in running, next[w] < oh1(w)
    PROVE  next[w] \in Rows /\ next[w] < rows /\ ~Past(next[w])
<1>0. w \in Workers /\ w \in Spawned /\ Workers \subseteq Nat /\ next[w] \in Nat
  BY BoundsAssumption DEF TypeOK, BandsInv, Workers
<1>1. oh1(w) \in Nat /\ oh1(w) <= rows
  BY <1>0, Band1
<1>2. oh0(w) <= next[w]
  BY <1>0 DEF BandsInv
<1>3. next[w] \in Rows /\ next[w] < rows
  BY <1>0, <1>1, BoundsAssumption DEF TypeOK, Rows
<1>4. ASSUME NEW v \in Spawned, oh0(v) <= next[w], next[w] < next[v] PROVE FALSE
  <2>0. v \in Nat /\ next[v] \in Nat /\ next[v] <= oh1(v) /\ v # w
    BY <1>0, <1>4 DEF TypeOK, BandsInv, Spawned
  <2>1. oh0(v) \in Nat /\ oh1(v) \in Nat /\ oh0(w) \in Nat
    BY <2>0, <1>0, Band1
  <2>2. CASE v < w
    <3>1. oh1(v) <= oh0(w)
      BY <2>0, <1>0, <2>2, Apart
    <3> QED BY <3>1, <2>0, <2>1, <1>0, <1>2, <1>4
  <2>3. CASE w < v
    <3>1. oh1(w) <= oh0(v)
      BY <2>0, <1>0, <2>3, Apart
    <3> QED BY <3>1, <2>1, <1>0, <1>1, <1>4
  <2> QED BY <2>0, <1>0, <2>2, <2>3
<1> QED BY <1>3, <1>4 DEF Past

\* Every step keeps the state's shape.
LEMMA StepTyped == ASSUME IInv, [Next]_vars PROVE TypeOK'
<1> USE BoundsAssumption DEF IInv, TypeOK
<1>0. T \in 1 .. MaxThreads /\ rows \in Nat
  BY Sizes
<1>1. CASE Enter
  BY <1>1 DEF Enter, Rows, Workers
<1>2. CASE InlineRow
  BY <1>2 DEF InlineRow, Rows, Workers
<1>3. CASE InlineReturn
  BY <1>3 DEF InlineReturn, Rows, Workers
<1>4. CASE Spawn
  <2>1. t \in Workers /\ spawned + 1 <= MaxThreads
    BY <1>0, <1>4 DEF Spawn, CallerInv, Workers
  <2>2. oh0(t) \in Nat
    BY Band1
  <2> QED BY <1>4, <2>1, <2>2 DEF Spawn
<1>5. CASE SpawnDone \/ SpawnThrows \/ Return
  BY <1>5 DEF SpawnDone, SpawnThrows, Return
<1>6. CASE Join
  BY <1>6 DEF Join
<1>7. ASSUME NEW w \in Workers, Worker(w) PROVE TypeOK'
  <2>1. CASE WorkerRow(w)
    <3>1. next[w] \in Rows
      BY <2>1, NextRowLeft DEF WorkerRow
    <3> QED BY <2>1, <3>1 DEF WorkerRow
  <2>2. CASE WorkerExit(w)
    BY <2>2 DEF WorkerExit
  <2> QED BY <1>7, <2>1, <2>2 DEF Worker
<1>8. CASE UNCHANGED vars
  BY <1>8 DEF vars, Rows, Workers
<1> QED BY <1>1, <1>2, <1>3, <1>4, <1>5, <1>6, <1>7, <1>8 DEF Next, Caller

\* The caller joins in order, so whatever is before its loop variable has ended.
LEMMA StepCaller == ASSUME IInv, [Next]_vars PROVE CallerInv'
<1> USE BoundsAssumption DEF IInv, CallerInv
<1>0. T \in 1 .. MaxThreads /\ rows \in Nat /\ spawned \in Nat /\ t \in Nat
  BY Sizes DEF TypeOK
<1>1. CASE Enter
  <2>1. pc' \in {"inline", "spawn"} /\ t' = 0 /\ spawned' = 0 /\ running' = {}
    BY <1>1 DEF Enter
  <2>2. pc' = "spawn" => T' > 1
    BY <1>0, <1>1, SameBands DEF Enter
  <2>3. t' <= rows' /\ t' <= T'
    BY <1>0, <1>1, SameBands DEF Enter
  <2> QED BY <2>1, <2>2, <2>3
<1>2. CASE InlineRow
  BY <1>0, <1>2 DEF InlineRow
<1>3. CASE InlineReturn
  BY <1>3 DEF InlineReturn
<1>4. CASE Spawn
  <2>1. T' = T
    BY <1>4, SameBands DEF Spawn
  <2> QED BY <1>0, <1>4, <2>1 DEF Spawn
<1>5. CASE SpawnDone
  <2>1. pc' = "join" /\ t' = 0 /\ spawned' = spawned /\ rows' = rows
    BY <1>5 DEF SpawnDone
  <2>2. oh0(spawned) >= rows
    <3>1. CASE t = T
      BY <1>0, <1>5, <3>1, Sizes DEF SpawnDone, TypeOK, oh0
    <3>2. CASE oh0(t) >= oh1(t)
      BY <1>0, <1>5, <3>2, Band1 DEF SpawnDone
    <3> QED BY <1>5, <3>1, <3>2 DEF SpawnDone
  <2>3. spawned > 0
    <3> SUFFICES ASSUME spawned = 0 PROVE FALSE
      BY <1>0
    <3>1. per \in Nat \ {0}
      BY Sizes DEF TypeOK
    <3> QED BY <2>2, <3>1, <1>0 DEF oh0, TypeOK
  <2>4. oh0(spawned)' = oh0(spawned)
    BY <1>5, SameBands DEF SpawnDone, oh0
  <2> QED BY <1>0, <2>1, <2>2, <2>3, <2>4 DEF Workers
<1>6. CASE SpawnThrows
  BY <1>6 DEF SpawnThrows
<1>7. CASE Join
  <2>1. pc' = "join" /\ t' = t + 1 /\ UNCHANGED <<spawned, rows, running, nthreads>>
    BY <1>7 DEF Join
  <2>2. oh0(spawned)' = oh0(spawned)
    BY <2>1, SameBands DEF oh0
  <2>3. \A w \in Workers : w < t + 1 => w \notin running
    BY <1>0, <1>7 DEF Join, Workers
  <2> QED BY <1>0, <1>7, <2>1, <2>2, <2>3 DEF Join
<1>8. CASE Return
  <2>1. running = {}
    BY <1>8 DEF Return, BandsInv, Spawned
  <2> QED BY <1>8, <2>1 DEF Return
<1>9. ASSUME NEW w \in Workers, Worker(w) PROVE CallerInv'
  <2>1. UNCHANGED <<rows, nthreads, pc, t, spawned>> /\ running' \subseteq running
    BY <1>9 DEF Worker, WorkerRow, WorkerExit
  <2>2. T' = T /\ oh0(spawned)' = oh0(spawned)
    BY <2>1, SameBands DEF oh0
  <2> QED BY <2>1, <2>2
<1>10. CASE UNCHANGED vars
  <2>1. T' = T /\ oh0(spawned)' = oh0(spawned)
    BY <1>10, SameBands DEF oh0, vars
  <2> QED BY <1>10, <2>1 DEF vars, Workers
<1> QED BY <1>1, <1>2, <1>3, <1>4, <1>5, <1>6, <1>7, <1>8, <1>9, <1>10 DEF Next, Caller

\* A worker is inside its own band, and at its end when it has ended.
LEMMA StepBands == ASSUME IInv, [Next]_vars PROVE BandsInv'
<1> USE BoundsAssumption DEF IInv
<1>0. UNCHANGED <<rows, nthreads>>
  BY DEF Next, Caller, vars, Worker, Enter, InlineRow, InlineReturn, Spawn, SpawnDone,
         SpawnThrows, Join, Return, WorkerRow, WorkerExit
<1>1. /\ \A w : oh0(w)' = oh0(w) /\ oh1(w)' = oh1(w)
      /\ Workers \subseteq Nat /\ next \in [Workers -> Nat] /\ running \subseteq Workers
  BY <1>0, SameBands DEF TypeOK, Workers
<1>2. CASE UNCHANGED <<next, running, spawned>> /\ (pc = "terminated" => pc' = "terminated")
  BY <1>1, <1>2 DEF BandsInv, Spawned
<1>3. CASE Spawn
  <2>1. t \in Workers /\ t = spawned /\ T \in 1 .. MaxThreads
    BY <1>3, Sizes DEF Spawn, CallerInv, TypeOK, Workers
  <2>2. oh0(t) \in Nat /\ oh1(t) \in Nat /\ oh0(t) < oh1(t)
    BY <1>3, <2>1, <1>1, Band1 DEF Spawn
  <2>3. Spawned' = Spawned \cup {t} /\ t \notin Spawned
    BY <1>3, <2>1 DEF Spawn, Spawned, Workers
  <2>4. running' = running \cup {t} /\ next' = [next EXCEPT ![t] = oh0(t)] /\ pc # "terminated"
    BY <1>3 DEF Spawn
  <2>5. \A w \in Spawned : next'[w] = next[w]
    BY <2>3, <2>4, <1>1 DEF Spawned
  <2>6. next'[t] = oh0(t)
    BY <2>1, <2>4, <1>1
  <2>7. running' \subseteq Spawned'
    BY <2>3, <2>4 DEF BandsInv
  <2>8. \A w \in Spawned \cup {t} : oh0(w) <= next'[w] /\ next'[w] <= oh1(w)
    BY <2>2, <2>5, <2>6 DEF BandsInv
  <2>9. \A w \in Spawned' \ running' : next'[w] = oh1(w)
    BY <2>3, <2>4, <2>5 DEF BandsInv
  <2> QED BY <1>1, <2>3, <2>7, <2>8, <2>9 DEF BandsInv
<1>4. CASE SpawnThrows
  BY <1>1, <1>4 DEF SpawnThrows, BandsInv, Spawned
<1>5. ASSUME NEW w \in Workers, WorkerRow(w) PROVE BandsInv'
  <2>1. next' = [next EXCEPT ![w] = next[w] + 1] /\ w \in running /\ next[w] < oh1(w)
        /\ UNCHANGED <<running, spawned, pc>>
    BY <1>5 DEF WorkerRow
  <2>2. w \in Spawned /\ Spawned' = Spawned /\ oh0(w) <= next[w]
    BY <2>1 DEF BandsInv, Spawned
  <2>3. next[w] \in Nat /\ oh0(w) \in Nat /\ oh1(w) \in Nat
    BY <1>1, Band1
  <2>4. next'[w] = next[w] + 1 /\ \A v \in Workers : v # w => next'[v] = next[v]
    BY <1>1, <2>1
  <2>5. oh0(w) <= next'[w] /\ next'[w] <= oh1(w)
    BY <2>1, <2>2, <2>3, <2>4
  <2>6. \A v \in Spawned : v \in Workers
    BY DEF Spawned
  <2> QED BY <1>1, <2>1, <2>2, <2>4, <2>5, <2>6 DEF BandsInv
<1>6. ASSUME NEW w \in Workers, WorkerExit(w) PROVE BandsInv'
  <2>1. running' = running \ {w} /\ w \in running /\ next[w] >= oh1(w)
        /\ UNCHANGED <<next, spawned, pc>>
    BY <1>6 DEF WorkerExit
  <2>2. w \in Spawned /\ Spawned' = Spawned
    BY <2>1 DEF BandsInv, Spawned
  <2>3. next[w] = oh1(w)
    <3>1. next[w] \in Nat /\ oh1(w) \in Nat
      BY <1>1, Band1
    <3> QED BY <2>1, <2>2, <3>1 DEF BandsInv
  <2> QED BY <1>1, <2>1, <2>2, <2>3 DEF BandsInv
<1> QED
  <2>1. Next => \/ UNCHANGED <<next, running, spawned>> /\ pc # "terminated"
                \/ Spawn \/ SpawnThrows
                \/ \E w \in Workers : WorkerRow(w) \/ WorkerExit(w)
    BY DEF Next, Caller, Worker, Enter, InlineRow, InlineReturn, SpawnDone, Join, Return
  <2> QED BY <2>1, <1>2, <1>3, <1>4, <1>5, <1>6 DEF vars

\* Past says which rows are written: a row of the call gains its only write when
\* its worker goes past it.
LEMMA StepApplied == ASSUME IInv, [Next]_vars PROVE AppliedInv'
<1> USE BoundsAssumption DEF IInv
<1>0. UNCHANGED <<rows, nthreads>>
  BY DEF Next, Caller, vars, Worker, Enter, InlineRow, InlineReturn, Spawn, SpawnDone,
         SpawnThrows, Join, Return, WorkerRow, WorkerExit
<1>1. /\ \A w : oh0(w)' = oh0(w) /\ oh1(w)' = oh1(w)
      /\ Workers \subseteq Nat /\ next \in [Workers -> Nat] /\ running \subseteq Workers
      /\ Rows \subseteq Nat /\ applied \in [Rows -> Nat] /\ rows \in Nat /\ t \in Nat
  BY <1>0, SameBands DEF TypeOK, Workers, Rows
<1>2. CASE UNCHANGED <<next, spawned, applied>> /\ pc \in {"spawn", "join", "terminated"}
           /\ pc' \in {"spawn", "join", "terminated"}
  <2>1. Spawned' = Spawned
    BY <1>2 DEF Spawned
  <2>2. \A r : Past(r)' <=> Past(r)
    BY <1>1, <1>2, <2>1 DEF Past
  <2> QED BY <1>2, <2>2 DEF AppliedInv
<1>3. CASE Enter
  <2>1. applied' = applied /\ t' = 0 /\ pc' \in {"inline", "spawn"} /\ spawned' = 0
    BY <1>3 DEF Enter, CallerInv
  <2>2. \A r \in Rows : applied[r] = 0
    BY <1>1, <1>3 DEF AppliedInv, Enter, CallerInv
  <2>3. \A r : ~Past(r)'
    BY <2>1, <1>1 DEF Past, Spawned
  <2>4. \A r \in Rows : ~(r < t')
    BY <2>1, <1>1
  <2> QED BY <2>1, <2>2, <2>3, <2>4 DEF AppliedInv
<1>4. CASE InlineRow
  <2>1. t \in Rows /\ pc' = "inline" /\ applied' = [applied EXCEPT ![t] = applied[t] + 1]
        /\ t' = t + 1
    BY <1>1, <1>4 DEF InlineRow, TypeOK, Rows
  <2>2. \A r \in Rows : applied[r] = IF r < t THEN 1 ELSE 0
    BY <1>4 DEF InlineRow, AppliedInv
  <2>3. \A r \in Rows : applied'[r] = IF r < t + 1 THEN 1 ELSE 0
    BY <1>1, <2>1, <2>2
  <2> QED BY <2>1, <2>3 DEF AppliedInv
<1>5. CASE InlineReturn
  BY <1>5 DEF InlineReturn, AppliedInv
<1>6. CASE Spawn
  <2>1. t \in Workers /\ t = spawned /\ T \in 1 .. MaxThreads
    BY <1>6, Sizes DEF Spawn, CallerInv, TypeOK, Workers
  <2>2. Spawned' = Spawned \cup {t} /\ t \notin Spawned
    BY <1>6, <2>1 DEF Spawn, Spawned, Workers
  <2>3. next' = [next EXCEPT ![t] = oh0(t)] /\ applied' = applied /\ pc' = "spawn"
    BY <1>6 DEF Spawn
  <2>4. next'[t] = oh0(t) /\ \A w \in Spawned : next'[w] = next[w]
    BY <1>1, <2>1, <2>2, <2>3 DEF Spawned
  <2>5. ASSUME NEW r \in Rows PROVE Past(r)' <=> Past(r)
    <3>1. ~(oh0(t) <= r /\ r < next'[t])
      <4>1. oh0(t) \in Nat
        BY <1>1, <2>1, Band1
      <4> QED BY <1>1, <2>4, <4>1
    <3> QED BY <1>1, <2>2, <2>4, <3>1 DEF Past
  <2> QED BY <1>6, <2>3, <2>5 DEF AppliedInv, Spawn
<1>7. CASE Return
  <2>1. pc' = "returned" /\ applied' = applied /\ t = spawned /\ pc = "join"
    BY <1>7 DEF Return
  <2>2. \A w \in Spawned : next[w] = oh1(w)
    BY <1>7, <2>1 DEF CallerInv, BandsInv, Spawned
  <2>3. ASSUME NEW r \in Rows PROVE Past(r) <=> r < rows
    <3>1. ASSUME r < rows PROVE Past(r)
      <4>1. oh0(spawned) >= rows /\ spawned \in Nat /\ spawned <= MaxThreads
        BY <2>1 DEF CallerInv, TypeOK
      <4>2. r \in 0 .. (rows - 1)
        BY <1>1, <3>1
      <4>3. PICK w \in 0 .. (spawned - 1) : oh0(w) <= r /\ r < oh1(w)
        BY <4>1, <4>2, Covered
      <4>4. w \in Spawned
        BY <4>1 DEF Spawned, Workers
      <4> QED BY <2>2, <4>3, <4>4 DEF Past
    <3>2. ASSUME Past(r) PROVE r < rows
      <4>1. PICK w \in Spawned : r < next[w]
        BY <3>2 DEF Past
      <4>2. oh1(w) \in Nat /\ oh1(w) <= rows
        BY <1>1, Band1 DEF Spawned
      <4> QED BY <1>1, <2>2, <4>1, <4>2
    <3> QED BY <3>1, <3>2
  <2> QED BY <1>0, <2>1, <2>3 DEF AppliedInv
<1>8. ASSUME NEW w \in Workers, WorkerRow(w) PROVE AppliedInv'
  <2>1. /\ applied' = [applied EXCEPT ![next[w]] = applied[next[w]] + 1]
        /\ next' = [next EXCEPT ![w] = next[w] + 1]
        /\ w \in running /\ next[w] < oh1(w)
        /\ UNCHANGED <<pc, spawned>>
    BY <1>8 DEF WorkerRow
  <2>2. w \in Spawned /\ Spawned' = Spawned /\ oh0(w) <= next[w] /\ next[w] \in Nat
    BY <1>1, <2>1 DEF BandsInv, Spawned
  <2>3. pc \in {"spawn", "join"}
    BY <2>1 DEF CallerInv, TypeOK
  <2>4. next[w] \in Rows /\ ~Past(next[w])
    BY <2>1, NextRowLeft
  <2>5. next'[w] = next[w] + 1 /\ \A v \in Spawned : v # w => next'[v] = next[v]
    BY <1>1, <2>1 DEF Spawned
  <2>6. ASSUME NEW r \in Rows PROVE Past(r)' <=> Past(r) \/ r = next[w]
    <3>1. r \in Nat /\ oh0(w) \in Nat
      BY <1>1, Band1
    <3>2. oh0(w) <= r /\ r < next[w] + 1 <=> (oh0(w) <= r /\ r < next[w]) \/ r = next[w]
      BY <3>1, <2>2
    <3> QED BY <1>1, <2>2, <2>5, <3>2 DEF Past
  <2>7. \A r \in Rows : applied[r] = IF Past(r) THEN 1 ELSE 0
    BY <2>3 DEF AppliedInv
  <2>8. applied'[next[w]] = 1 /\ \A r \in Rows : r # next[w] => applied'[r] = applied[r]
    BY <1>1, <2>1, <2>4, <2>7
  <2> QED BY <2>1, <2>3, <2>6, <2>7, <2>8 DEF AppliedInv
<1>9. ASSUME NEW w \in Workers, WorkerExit(w) PROVE AppliedInv'
  <2>1. pc \in {"spawn", "join"} /\ UNCHANGED <<next, spawned, applied, pc>>
    BY <1>9 DEF WorkerExit, CallerInv, TypeOK
  <2> QED BY <2>1, <1>2
<1>10. CASE SpawnDone \/ SpawnThrows \/ Join
  <2>1. pc \in {"spawn", "join"} /\ UNCHANGED <<next, spawned, applied>>
        /\ pc' \in {"spawn", "join", "terminated"}
    BY <1>10 DEF SpawnDone, SpawnThrows, Join
  <2> QED BY <2>1, <1>2
<1>11. CASE UNCHANGED vars
  <2>1. UNCHANGED <<pc, t, next, spawned, applied>>
    BY <1>11 DEF vars
  <2>2. CASE pc \in {"spawn", "join", "terminated"}
    BY <2>1, <2>2, <1>2
  <2>3. CASE pc \notin {"spawn", "join", "terminated"}
    BY <1>0, <2>1, <2>3 DEF AppliedInv
  <2> QED BY <2>2, <2>3
<1> QED BY <1>3, <1>4, <1>5, <1>6, <1>7, <1>8, <1>9, <1>10, <1>11 DEF Next, Caller, Worker

\* parallel_oh: the inductive invariant holds for every call.
THEOREM Invariance == Spec => []IInv
<1>1. IInv /\ [Next]_vars => IInv'
  BY StepTyped, StepCaller, StepBands, StepApplied DEF IInv
<1> QED BY InitInv, <1>1, PTL DEF Spec

-----------------------------------------------------------------------------
(* The properties.                                                         *)

\* The state's shape, for every number of rows and threads.
THEOREM Typed == Spec => []TypeOK
<1>1. IInv => TypeOK
  BY DEF IInv
<1> QED BY Invariance, <1>1, PTL

\* "disjoint row bands => no races": no row is written twice, and none outside the
\* call, for every split of the rows.
THEOREM Disjoint == Spec => []RowsOnce
<1>1. IInv => RowsOnce
  <2> SUFFICES ASSUME IInv, NEW r \in Rows
               PROVE  applied[r] <= (IF r < rows THEN 1 ELSE 0)
    BY DEF RowsOnce
  <2> USE BoundsAssumption DEF IInv
  <2>0. r \in Nat /\ rows \in Nat /\ t \in Nat /\ pc \in {"entry", "inline", "spawn", "join",
                                                       "returned", "terminated"}
    BY DEF TypeOK, Rows
  <2>1. CASE pc \in {"entry", "inline"}
    <3>1. t <= rows
      BY <2>0, <2>1 DEF CallerInv
    <3> QED BY <2>0, <2>1, <3>1 DEF AppliedInv
  <2>2. CASE pc \in {"spawn", "join", "terminated"}
    <3>1. ASSUME Past(r) PROVE r < rows
      <4>1. PICK w \in Spawned : r < next[w]
        BY <3>1 DEF Past
      <4>2. w \in Nat /\ next[w] \in Nat /\ next[w] <= oh1(w)
        BY DEF Spawned, Workers, TypeOK, BandsInv
      <4>3. oh1(w) \in Nat /\ oh1(w) <= rows
        BY <4>2, Band1
      <4> QED BY <2>0, <4>1, <4>2, <4>3
    <3> QED BY <2>2, <3>1 DEF AppliedInv
  <2>3. CASE pc = "returned"
    BY <2>3 DEF AppliedInv
  <2> QED BY <2>0, <2>1, <2>2, <2>3
<1> QED BY Invariance, <1>1, PTL

\* A call that returned wrote every row, and left no thread behind.
THEOREM Complete == Spec => []ReturnsComplete
<1>1. IInv => ReturnsComplete
  BY BoundsAssumption DEF IInv, ReturnsComplete, CallerInv, AppliedInv, TypeOK, Rows
<1> QED BY Invariance, <1>1, PTL

\* The rows no worker has written yet.
Left == {r \in 0 .. (rows - 1) : applied[r] = 0}

\* Writing a row takes it out of what is left; the return finds nothing left.
LEMMA StepPass ==
    ASSUME IInv, [Next]_vars
    PROVE  [Pass!Next]_<<rows, Left, pc = "returned">>
<1> USE BoundsAssumption DEF IInv
<1>0. rows \in Nat /\ t \in Nat /\ applied \in [Rows -> Nat] /\ 0 .. (rows - 1) \subseteq Rows
  BY DEF TypeOK, Rows
<1>1. ASSUME NEW r \in 0 .. (rows - 1), applied[r] = 0, pc # "returned", pc' # "returned",
             applied' = [applied EXCEPT ![r] = applied[r] + 1], rows' = rows
      PROVE  Pass!Apply
  <2>1. Left' = Left \ {r} /\ r \in Left
    BY <1>0, <1>1 DEF Left
  <2>2. (pc = "returned") = FALSE /\ (pc = "returned")' = FALSE
    BY <1>1
  <2> QED BY <1>1, <2>1, <2>2 DEF Left, Pass!Apply
<1>2. CASE InlineRow
  <2>1. applied[t] = 0 /\ t \in 0 .. (rows - 1)
    BY <1>0, <1>2 DEF InlineRow, AppliedInv
  <2> QED BY <1>1, <1>2, <2>1 DEF InlineRow, Pass!Next
<1>3. ASSUME NEW w \in Workers, WorkerRow(w) PROVE Pass!Next
  <2>1. next[w] \in Rows /\ next[w] < rows /\ ~Past(next[w])
    BY <1>3, NextRowLeft DEF WorkerRow
  <2>2. pc \in {"spawn", "join"}
    BY <1>3 DEF WorkerRow, CallerInv, TypeOK
  <2>3. applied[next[w]] = 0 /\ next[w] \in 0 .. (rows - 1)
    BY <2>1, <2>2, <1>0 DEF AppliedInv, Rows
  <2> QED BY <1>1, <1>3, <2>2, <2>3 DEF WorkerRow, Pass!Next
<1>4. ASSUME pc # "returned", pc' = "returned", UNCHANGED <<rows, applied>>, AppliedInv'
      PROVE  Pass!Next
  <2>1. Left = {} /\ Left' = Left
    BY <1>0, <1>4 DEF AppliedInv, Left
  <2>2. (pc = "returned") = FALSE /\ (pc = "returned")' = TRUE
    BY <1>4
  <2> QED BY <1>4, <2>1, <2>2 DEF Left, Pass!Return, Pass!Next
<1>5. CASE InlineReturn \/ Return
  BY <1>4, <1>5, StepApplied DEF InlineReturn, Return
<1>6. CASE UNCHANGED <<rows, applied>> /\ pc # "returned" /\ pc' # "returned"
  BY <1>6 DEF Left
<1>7. CASE Enter \/ Spawn \/ SpawnDone \/ SpawnThrows \/ Join
  BY <1>6, <1>7 DEF Enter, Spawn, SpawnDone, SpawnThrows, Join
<1>8. ASSUME NEW w \in Workers, WorkerExit(w) PROVE UNCHANGED <<rows, Left, pc = "returned">>
  BY <1>8 DEF WorkerExit, Left
<1>9. CASE UNCHANGED vars
  BY <1>9 DEF vars, Left
<1> QED BY <1>2, <1>3, <1>5, <1>7, <1>8, <1>9 DEF Next, Caller, Worker

\* The call implements one pass over the rows, whatever the interleaving of the
\* workers: each step is a step of OnePass or leaves it where it is.
THEOREM Refinement == Spec => ImplementsOnePass
<1>1. Init => Pass!Init
  BY BoundsAssumption DEF Init, Pass!Init, Rows
<1>2. IInv /\ [Next]_vars => [Pass!Next]_<<rows, Left, pc = "returned">>
  BY StepPass
<1> QED BY Invariance, <1>1, <1>2, PTL DEF Spec, ImplementsOnePass, Pass!Spec, Left

-----------------------------------------------------------------------------
(* The pool.                                                               *)

\* Composed, the call makes the steps of parallel_oh and no others.
LEMMA CallStep == ASSUME [FanOutNext]_all PROVE [Next]_vars
<1>1. ASSUME NEW c \in Callers, Interpreter(c) PROVE Next \/ UNCHANGED vars
  BY <1>1 DEF Interpreter, Call, OtherCall, Next, Caller
<1>2. ASSUME NEW w \in Workers, WorkerStep(w) PROVE Next
  BY <1>2 DEF WorkerStep, Next
<1>3. CASE ProcessExit \/ UNCHANGED all
  BY <1>3 DEF ProcessExit, all
<1> QED BY <1>1, <1>2, <1>3 DEF FanOutNext

\* Under a pool of interpreters the followed call is still a call of parallel_oh.
THEOREM FollowsCall == FanOutSpec => Spec
<1>1. FanOutInit => Init
  BY DEF FanOutInit
<1>2. [FanOutNext]_all => [Next]_vars
  BY CallStep
<1> QED BY <1>1, <1>2, PTL DEF FanOutSpec, Spec

\* Rows are written once, the call returns complete, and it implements one pass,
\* also while other interpreters fan out and ask the probe.
THEOREM Pooled ==
    FanOutSpec => []TypeOK /\ []RowsOnce /\ []ReturnsComplete /\ ImplementsOnePass
BY FollowsCall, Typed, Disjoint, Complete, Refinement, PTL

\* And the probe makes the steps of po_probe_on and its tallies, whoever calls it:
\* a fan-out that tallies spawned at least one worker.
LEMMA ProbeStep == ASSUME IInv, [FanOutNext]_all PROVE [Probe!Next]_probeVars
<1>1. ASSUME NEW c \in Callers, Probe!Ask(c) \/ Probe!TallyCall(c) \/ Probe!CallDone(c)
      PROVE  Probe!Next
  BY <1>1 DEF Probe!Next
<1>2. ASSUME NEW c \in Callers, NEW n \in 1 .. MaxThreads, Probe!TallyThreads(c, n)
      PROVE  Probe!Next
  BY <1>2 DEF Probe!Next
<1>3. ASSUME NEW c \in Callers, OtherCall(c) PROVE Probe!Next
  BY <1>1, <1>2, <1>3, PerCallAssumption DEF OtherCall
<1>4. CASE Call
  <2>1. me \in Callers
    BY DEF Callers
  <2>2. pc = "join" => spawned \in 1 .. MaxThreads
    BY BoundsAssumption DEF IInv, CallerInv, TypeOK
  <2> QED BY <1>1, <1>2, <1>4, <2>1, <2>2 DEF Call
<1>5. ASSUME NEW c \in Callers, Interpreter(c) PROVE [Probe!Next]_probeVars
  BY <1>3, <1>4, <1>5 DEF Interpreter
<1>6. ASSUME NEW w \in Workers, WorkerStep(w) PROVE UNCHANGED probeVars
  BY <1>6 DEF WorkerStep
<1>7. CASE ProcessExit
  BY <1>7 DEF ProcessExit, Probe!Next
<1>8. CASE UNCHANGED all
  BY <1>8 DEF all
<1> QED BY <1>5, <1>6, <1>7, <1>8 DEF FanOutNext

\* The probe as the pool uses it is a PoolProbe.
THEOREM FollowsProbe == FanOutSpec => Probe!Spec
<1>1. FanOutInit => Probe!Init
  BY DEF FanOutInit
<1>2. IInv /\ [FanOutNext]_all => [Probe!Next]_Probe!vars
  BY ProbeStep DEF probeVars, Probe!vars
<1>3. FanOutSpec => []IInv
  BY FollowsCall, Invariance, PTL
<1> QED BY <1>1, <1>2, <1>3, PTL DEF FanOutSpec, Probe!Spec

-----------------------------------------------------------------------------
(* The probe's race.                                                       *)

\* What a caller knows at each access: it got there by reading env, or a cell that
\* only ever holds what env says.
CallerKnows(c) ==
    /\ at[c] # "check" => calls[c] < Calls
    /\ at[c] \in {"exchange", "atexit"} => env
    /\ at[c] = "return" => g_po_probe >= 0
    /\ at[c] \in {"fanout", "threads"} => probe[c] /\ env

ProbeInv ==
    /\ Probe!TypeOK
    /\ g_po_probe >= 0 => g_po_probe = (IF env THEN 1 ELSE 0)
    /\ \A c \in Callers : CallerKnows(c)

\* The one caller whose exchange found FALSE adds the one handler.
HandlerInv ==
    /\ \A c \in Callers : at[c] = "atexit" => registered /\ handlers = 0
    /\ \A c, d \in Callers : at[c] = "atexit" /\ at[d] = "atexit" => c = d
    /\ handlers <= 1
    /\ handlers > 0 => registered

LEMMA ProbeInitInv == Probe!Init => ProbeInv /\ HandlerInv
<1> SUFFICES ASSUME Probe!Init PROVE ProbeInv /\ HandlerInv
  OBVIOUS
<1>1. Probe!TypeOK
  <2>1. {g_po_fanout, g_po_threads} \subseteq Nat
    BY DEF Probe!Init
  <2>2. /\ at \in [Callers -> {"check", "exchange", "atexit", "write", "return",
                              "fanout", "threads", "done"}]
        /\ probe \in [Callers -> BOOLEAN] /\ calls \in [Callers -> 0 .. Calls]
    BY CallersAssumption DEF Probe!Init
  <2> QED BY <2>1, <2>2 DEF Probe!Init, Probe!TypeOK
<1>2. \A c \in Callers : at[c] = "check"
  BY DEF Probe!Init
<1>3. g_po_probe = -1 /\ handlers = 0
  BY DEF Probe!Init
<1> QED BY <1>1, <1>2, <1>3 DEF ProbeInv, CallerKnows, HandlerInv

\* Every access keeps what every caller knows: the only two values ever stored in
\* g_po_probe are the unset one and env's, so a stale read says the same.
LEMMA ProbeInvStep == ASSUME ProbeInv, [Probe!Next]_probeVars PROVE ProbeInv'
<1> USE CallersAssumption, BoundsAssumption DEF ProbeInv, Probe!TypeOK, CallerKnows, Probe!Goto
<1>1. ASSUME NEW c \in Callers, Probe!Check(c) PROVE ProbeInv'
  BY <1>1 DEF Probe!Check
<1>2. ASSUME NEW c \in Callers, Probe!Exchange(c) PROVE ProbeInv'
  BY <1>2 DEF Probe!Exchange
<1>3. ASSUME NEW c \in Callers, Probe!Register(c) PROVE ProbeInv'
  BY <1>3 DEF Probe!Register
<1>4. ASSUME NEW c \in Callers, Probe!Write(c) PROVE ProbeInv'
  BY <1>4 DEF Probe!Write
<1>5. ASSUME NEW c \in Callers, Probe!ReturnProbe(c) PROVE ProbeInv'
  BY <1>5 DEF Probe!ReturnProbe
<1>6. ASSUME NEW c \in Callers, Probe!TallyCall(c) PROVE ProbeInv'
  BY <1>6 DEF Probe!TallyCall
<1>7. ASSUME NEW c \in Callers, NEW n \in 1 .. MaxThreads, Probe!TallyThreads(c, n)
      PROVE  ProbeInv'
  BY <1>7 DEF Probe!TallyThreads
<1>8. ASSUME NEW c \in Callers, Probe!CallDone(c) PROVE ProbeInv'
  BY <1>8 DEF Probe!CallDone
<1>9. CASE Probe!Exit
  BY <1>9 DEF Probe!Exit
<1>10. CASE UNCHANGED probeVars
  BY <1>10 DEF probeVars
<1> HIDE DEF ProbeInv
<1> QED BY <1>1, <1>2, <1>3, <1>4, <1>5, <1>6, <1>7, <1>8, <1>9, <1>10 DEF Probe!Next, Probe!Ask

\* The exchange is atomic: it answers FALSE once, and exits only take handlers away.
LEMMA HandlerInvStep ==
    ASSUME ProbeInv, HandlerInv, [Probe!Next]_probeVars
    PROVE  HandlerInv'
<1> USE DEF HandlerInv, ProbeInv, Probe!TypeOK, Probe!Goto
<1>1. ASSUME NEW c \in Callers, Probe!Exchange(c) PROVE HandlerInv'
  BY <1>1 DEF Probe!Exchange
<1>2. ASSUME NEW c \in Callers, Probe!Register(c) PROVE HandlerInv'
  BY <1>2 DEF Probe!Register
<1>3. ASSUME NEW c \in Callers, Probe!Check(c) \/ Probe!Write(c) \/ Probe!ReturnProbe(c)
                                \/ Probe!TallyCall(c) \/ Probe!CallDone(c)
      PROVE  HandlerInv'
  BY <1>3 DEF Probe!Check, Probe!Write, Probe!ReturnProbe, Probe!TallyCall, Probe!CallDone
<1>4. ASSUME NEW c \in Callers, NEW n \in 1 .. MaxThreads, Probe!TallyThreads(c, n)
      PROVE  HandlerInv'
  BY <1>4 DEF Probe!TallyThreads
<1>5. CASE Probe!Exit
  BY <1>5 DEF Probe!Exit
<1>6. CASE UNCHANGED probeVars
  BY <1>6 DEF probeVars
<1> HIDE DEF HandlerInv
<1> QED BY <1>1, <1>2, <1>3, <1>4, <1>5, <1>6 DEF Probe!Next, Probe!Ask

\* What the callers know holds under every pool of interpreters.
THEOREM ProbeInvariance == FanOutSpec => [](ProbeInv /\ HandlerInv)
<1>1. FanOutInit => ProbeInv /\ HandlerInv
  BY ProbeInitInv DEF FanOutInit
<1>2. IInv /\ ProbeInv /\ HandlerInv /\ [FanOutNext]_all => ProbeInv' /\ HandlerInv'
  BY ProbeStep, ProbeInvStep, HandlerInvStep
<1>3. FanOutSpec => []IInv
  BY FollowsCall, Invariance, PTL
<1> QED BY <1>1, <1>2, <1>3, PTL DEF FanOutSpec

\* The race on g_po_probe is benign, for every pool: no call is told anything but
\* what the environment says.
THEOREM Benign == FanOutSpec => []ProbeAgrees
<1>1. ProbeInv => ProbeAgrees
  BY DEF ProbeInv, CallerKnows, ProbeAgrees, Probe!ProbeAgrees
<1> QED BY ProbeInvariance, <1>1, PTL

\* "Register the exit dump EXACTLY once": at most one handler is ever registered,
\* however many callers see the cell unset.
THEOREM RegisteredOnce == FanOutSpec => []Probe!OneHandler
<1>1. HandlerInv => Probe!OneHandler
  BY DEF HandlerInv, Probe!OneHandler
<1> QED BY ProbeInvariance, <1>1, PTL

-----------------------------------------------------------------------------
(* The report.                                                             *)

\* How many of each caller's calls are tallied, and of how many the threads are
CallsTallied ==
    [c \in Callers |-> IF at[c] \in {"threads", "done"} THEN calls[c] + 1 ELSE calls[c]]
ThreadsTallied == [c \in Callers |-> IF at[c] = "done" THEN calls[c] + 1 ELSE calls[c]]

\* The calls these are, as <<caller, number>>
Numbered(count) == {x \in Callers \X (1 .. Calls) : x[2] <= count[x[1]]}

\* What the followed call's own threads add to PerCall
OwnThreads == IF ThreadsTallied[me] > 0 /\ spawned > 0 THEN spawned - PerCall ELSE 0

\* The tallies are the sizes of those two sets, each call counted once.
TallyInv ==
    env => /\ g_po_fanout = Cardinality(Numbered(CallsTallied))
           /\ g_po_threads = PerCall * Cardinality(Numbered(ThreadsTallied)) + OwnThreads

\* The followed call asks after it entered and tallies after its last join
FollowedInv ==
    /\ ~Followed => calls[me] = 0
    /\ pc \in {"entry", "inline"} => at[me] = "check"
    /\ env /\ ~Followed /\ at[me] \in {"threads", "done"} => pc = "join" /\ t = spawned
    /\ Followed /\ spawned > 0 => calls[me] > 0

Quiet == Followed /\ \A c \in Callers : at[c] = "check" /\ calls[c] = Calls

\* Whoever has been answered found the cell set, which follows the exchange; from
\* the exchange on there is somebody about to register, or one handler, or its line.
ReportInv ==
    /\ \A c \in Callers :
          calls[c] > 0 \/ at[c] \in {"return", "fanout", "threads", "done"} => g_po_probe >= 0
    /\ \A c \in Callers : at[c] \in {"write", "atexit"} /\ env => registered
    /\ g_po_probe >= 0 /\ env => registered
    /\ registered => env /\ Calls > 0
    /\ ~registered => printed = << >>
    /\ registered =>
          \/ printed = << >> /\ handlers = 0 /\ \E c \in Callers : at[c] = "atexit"
          \/ printed = << >> /\ handlers = 1
          \/ printed = << <<g_po_fanout, g_po_threads>> >> /\ handlers = 0 /\ Quiet

\* One more call of one caller is one more call.
LEMMA NumberedGrows ==
    ASSUME NEW f \in [Callers -> 0 .. Calls]
    PROVE  /\ IsFiniteSet(Numbered(f)) /\ Cardinality(Numbered(f)) \in Nat
           /\ \A c \in Callers : f[c] < Calls =>
                 Cardinality(Numbered([f EXCEPT ![c] = @ + 1])) = Cardinality(Numbered(f)) + 1
<1>1. IsFiniteSet(Callers \X (1 .. Calls))
  <2>1. IsFiniteSet(Callers)
    BY CallersAssumption, FS_AddElement DEF Callers
  <2>2. IsFiniteSet(1 .. Calls)
    BY CallersAssumption, FS_Interval
  <2> QED BY <2>1, <2>2, FS_Product
<1>2. IsFiniteSet(Numbered(f)) /\ Cardinality(Numbered(f)) \in Nat
  BY <1>1, FS_Subset, FS_CardinalityType DEF Numbered
<1>3. ASSUME NEW c \in Callers, f[c] < Calls
      PROVE  Cardinality(Numbered([f EXCEPT ![c] = @ + 1])) = Cardinality(Numbered(f)) + 1
  <2> DEFINE g == [f EXCEPT ![c] = @ + 1]
             x == <<c, f[c] + 1>>
  <2>1. f[c] \in 0 .. Calls /\ Calls \in Nat
    BY CallersAssumption
  <2>2. x \in Callers \X (1 .. Calls) /\ x \notin Numbered(f)
    BY <1>3, <2>1 DEF Numbered
  <2>3. \A k \in 1 .. Calls : k <= f[c] + 1 <=> k <= f[c] \/ k = f[c] + 1
    BY <2>1
  <2>4. ASSUME NEW d \in Callers, NEW k \in 1 .. Calls
        PROVE  k <= g[d] <=> k <= f[d] \/ <<d, k>> = x
    BY <2>1, <2>3
  <2>5. Numbered(g) = Numbered(f) \cup {x}
    <3> HIDE DEF g, x
    <3> QED BY <2>2, <2>4 DEF Numbered
  <2> QED BY <1>2, <2>2, <2>5, FS_AddElement
<1> QED BY <1>2, <1>3

\* The counts are those of calls within the bound: a caller past the check has one
\* left to make.
LEMMA TalliedTyped ==
    ASSUME ProbeInv
    PROVE  CallsTallied \in [Callers -> 0 .. Calls] /\ ThreadsTallied \in [Callers -> 0 .. Calls]
<1>1. ASSUME NEW c \in Callers
      PROVE  /\ calls[c] \in 0 .. Calls
             /\ at[c] # "check" => calls[c] + 1 \in 0 .. Calls
  BY CallersAssumption DEF ProbeInv, Probe!TypeOK, CallerKnows
<1> QED BY <1>1 DEF CallsTallied, ThreadsTallied

\* A tally counts the caller's call once, and no other step changes a count.
LEMMA TallyCounts ==
    ASSUME ProbeInv, NEW c \in Callers
    PROVE  /\ Probe!TallyCall(c) =>
                 /\ CallsTallied' = [CallsTallied EXCEPT ![c] = @ + 1]
                 /\ CallsTallied[c] < Calls
                 /\ ThreadsTallied' = ThreadsTallied
           /\ \A n \in 1 .. MaxThreads : Probe!TallyThreads(c, n) =>
                 /\ ThreadsTallied' = [ThreadsTallied EXCEPT ![c] = @ + 1]
                 /\ ThreadsTallied[c] = calls[c] /\ calls[c] < Calls
                 /\ CallsTallied' = CallsTallied
           /\ Probe!CallDone(c) \/ (env /\ Probe!Ask(c)) =>
                 CallsTallied' = CallsTallied /\ ThreadsTallied' = ThreadsTallied
<1> USE CallersAssumption DEF ProbeInv, Probe!TypeOK, CallerKnows, Probe!Goto
<1>1. ASSUME Probe!TallyCall(c)
      PROVE  /\ CallsTallied' = [CallsTallied EXCEPT ![c] = @ + 1]
             /\ CallsTallied[c] < Calls
             /\ ThreadsTallied' = ThreadsTallied
  BY <1>1 DEF Probe!TallyCall, CallsTallied, ThreadsTallied
<1>2. ASSUME NEW n \in 1 .. MaxThreads, Probe!TallyThreads(c, n)
      PROVE  /\ ThreadsTallied' = [ThreadsTallied EXCEPT ![c] = @ + 1]
             /\ ThreadsTallied[c] = calls[c] /\ calls[c] < Calls
             /\ CallsTallied' = CallsTallied
  BY <1>2 DEF Probe!TallyThreads, CallsTallied, ThreadsTallied
<1>3. ASSUME Probe!CallDone(c)
      PROVE  CallsTallied' = CallsTallied /\ ThreadsTallied' = ThreadsTallied
  BY <1>3 DEF Probe!CallDone, CallsTallied, ThreadsTallied
<1>4. ASSUME env, Probe!Ask(c)
      PROVE  CallsTallied' = CallsTallied /\ ThreadsTallied' = ThreadsTallied
  <2>1. PICK from, to \in {"check", "exchange", "atexit", "write", "return", "fanout"} :
            Probe!Goto(c, from, to)
    <3>1. Probe!ReturnProbe(c) => Probe!Goto(c, "return", "fanout")
      <4>1. at[c] = "return" => g_po_probe # 0
        BY <1>4
      <4> HIDE DEF ProbeInv
      <4> QED BY <4>1 DEF Probe!ReturnProbe
    <3>2. Probe!Check(c) =>
              \E to \in {"exchange", "write", "return"} : Probe!Goto(c, "check", to)
      BY DEF Probe!Check
    <3>3. Probe!Exchange(c) => \E to \in {"write", "atexit"} : Probe!Goto(c, "exchange", to)
      BY DEF Probe!Exchange
    <3> QED BY <1>4, <3>1, <3>2, <3>3 DEF Probe!Ask, Probe!Register, Probe!Write
  <2>2. /\ calls' = calls
        /\ \A d \in Callers : (at'[d] \in {"threads", "done"} <=> at[d] \in {"threads", "done"})
                              /\ (at'[d] = "done" <=> at[d] = "done")
    BY <1>4, <2>1 DEF Probe!Ask, Probe!Check, Probe!Exchange, Probe!Register, Probe!Write,
       Probe!ReturnProbe
  <2> QED BY <2>2 DEF CallsTallied, ThreadsTallied
<1> QED BY <1>1, <1>2, <1>3, <1>4

PoolInv == IInv /\ ProbeInv /\ HandlerInv /\ FollowedInv /\ TallyInv /\ ReportInv

\* A step of the pool: the followed call's own, a probe access of somebody, or both.
\* The accesses of the followed call stand where parallel_oh has them.
LEMMA PoolSteps ==
    ASSUME [FanOutNext]_all
    PROVE  \/ (Enter \/ InlineRow \/ InlineReturn) /\ UNCHANGED probeVars
           \/ (Spawn \/ SpawnDone \/ SpawnThrows \/ Join) /\ Asked /\ UNCHANGED probeVars
           \/ ~Followed /\ Return /\ Probe!CallDone(me)
           \/ ~Followed /\ pc = "spawn" /\ Probe!Ask(me) /\ UNCHANGED vars
           \/ /\ ~Followed /\ pc = "join" /\ t = spawned /\ UNCHANGED vars
              /\ Probe!TallyCall(me) \/ Probe!TallyThreads(me, spawned)
           \/ /\ UNCHANGED vars
              /\ \E c \in Callers :
                    /\ c # me \/ Followed
                    /\ \/ Probe!Ask(c) \/ Probe!TallyCall(c) \/ Probe!CallDone(c)
                       \/ Probe!TallyThreads(c, PerCall)
           \/ Followed /\ Probe!Exit /\ UNCHANGED vars
           \/ (\E w \in Workers : Worker(w)) /\ UNCHANGED probeVars
           \/ UNCHANGED all
<1>1. ASSUME NEW c \in Callers, Interpreter(c), c = me /\ ~Followed PROVE Call /\ ~Followed
  BY <1>1 DEF Interpreter
<1>2. ASSUME NEW c \in Callers, Interpreter(c), ~(c = me /\ ~Followed)
      PROVE  OtherCall(c) /\ (c # me \/ Followed)
  BY <1>2 DEF Interpreter
<1> QED BY <1>1, <1>2 DEF FanOutNext, Call, OtherCall, WorkerStep, ProcessExit

\* The followed call's rows and its joins leave its count of threads alone.
LEMMA FollowedStep ==
    ASSUME PoolInv, [FanOutNext]_all
    PROVE  FollowedInv'
<1> USE DEF PoolInv, FollowedInv, Followed
<1>0. /\ me \in Callers /\ at = [c \in Callers |-> at[c]] /\ calls \in [Callers -> 0 .. Calls]
      /\ Calls \in Nat
  BY CallersAssumption DEF ProbeInv, Probe!TypeOK, Callers
<1>1. CASE (Enter \/ InlineRow \/ InlineReturn) /\ UNCHANGED probeVars
  BY <1>1 DEF Enter, InlineRow, InlineReturn, probeVars, IInv, CallerInv
<1>2. CASE (Spawn \/ SpawnDone \/ SpawnThrows \/ Join) /\ Asked /\ UNCHANGED probeVars
  <2>1. t \in Nat /\ spawned \in Nat
    BY DEF IInv, TypeOK
  <2> QED BY <1>2, <2>1 DEF Spawn, SpawnDone, SpawnThrows, Join, probeVars
<1>3. CASE ~Followed /\ Return /\ Probe!CallDone(me)
  BY <1>0, <1>3 DEF Return, Probe!CallDone, Probe!Goto
<1>4. CASE ~Followed /\ pc = "spawn" /\ Probe!Ask(me) /\ UNCHANGED vars
  <2>1. env => ThreadsTallied' = ThreadsTallied /\ CallsTallied' = CallsTallied
    BY <1>0, <1>4, TallyCounts
  <2>2. calls' = calls
    BY <1>4 DEF Probe!Ask, Probe!Check, Probe!Exchange, Probe!Register, Probe!Write,
       Probe!ReturnProbe
  <2>3. env => at[me] \notin {"threads", "done"}
    BY <1>4
  <2>4. env => CallsTallied[me] = 0 /\ calls'[me] = 0
    BY <1>0, <1>4, <2>2, <2>3 DEF CallsTallied
  <2>5. env => at'[me] \notin {"threads", "done"}
    BY <1>0, <2>1, <2>4 DEF CallsTallied
  <2>6. env' = env
    BY <1>4 DEF Probe!Ask, Probe!Check, Probe!Exchange, Probe!Register, Probe!Write,
       Probe!ReturnProbe
  <2> QED BY <1>4, <2>2, <2>5, <2>6 DEF vars
<1>5. CASE /\ ~Followed /\ pc = "join" /\ t = spawned /\ UNCHANGED vars
           /\ Probe!TallyCall(me) \/ Probe!TallyThreads(me, spawned)
  BY <1>5 DEF vars, Probe!TallyCall, Probe!TallyThreads
<1>6. CASE /\ UNCHANGED vars
           /\ \E c \in Callers :
                 /\ c # me \/ Followed
                 /\ \/ Probe!Ask(c) \/ Probe!TallyCall(c) \/ Probe!CallDone(c)
                    \/ Probe!TallyThreads(c, PerCall)
  <2>1. PICK c \in Callers :
            /\ c # me \/ Followed
            /\ \/ Probe!Ask(c) \/ Probe!TallyCall(c) \/ Probe!CallDone(c)
               \/ Probe!TallyThreads(c, PerCall)
    BY <1>6
  <2>2. env' = env /\ (calls' = calls \/ calls' = [calls EXCEPT ![c] = @ + 1])
    BY <2>1 DEF Probe!Ask, Probe!Check, Probe!Exchange, Probe!Register, Probe!Write,
       Probe!ReturnProbe, Probe!TallyCall, Probe!CallDone, Probe!TallyThreads
  <2>3. c # me => at'[me] = at[me]
    BY <1>0, <2>1 DEF Probe!Ask, Probe!Check, Probe!Exchange, Probe!Register, Probe!Write,
       Probe!ReturnProbe, Probe!TallyCall, Probe!CallDone, Probe!TallyThreads, Probe!Goto
  <2>4. calls'[me] \in Nat /\ calls'[me] >= calls[me] /\ (c # me => calls'[me] = calls[me])
    BY <1>0, <2>2
  <2> QED BY <1>0, <1>6, <2>1, <2>2, <2>3, <2>4 DEF vars
<1>7. CASE Followed /\ Probe!Exit /\ UNCHANGED vars
  BY <1>7 DEF vars, Probe!Exit
<1>8. CASE (\E w \in Workers : Worker(w)) /\ UNCHANGED probeVars
  BY <1>8 DEF Worker, WorkerRow, WorkerExit, probeVars
<1>9. CASE UNCHANGED all
  BY <1>9 DEF all, vars, probeVars
<1> QED BY PoolSteps, <1>1, <1>2, <1>3, <1>4, <1>5, <1>6, <1>7, <1>8, <1>9

\* One more call of p threads, and n - p more than that.
LEMMA Corrected ==
    ASSUME NEW p \in Nat, NEW x \in Nat, NEW n \in Int, NEW o \in Int, NEW q \in Int,
           n + o = p + q
    PROVE  ((p * x) + o) + n = (p * (x + 1)) + q
<1>1. p * (x + 1) = (p * x) + p /\ p * x \in Int
  OBVIOUS
<1> QED BY <1>1

\* A tally of somebody else's call, or of me's later ones, is PerCall's; the followed
\* call's own is corrected by the difference.
LEMMA TallyStep ==
    ASSUME PoolInv, [FanOutNext]_all
    PROVE  TallyInv'
<1> USE DEF PoolInv
<1>0. /\ me \in Callers /\ calls \in [Callers -> 0 .. Calls] /\ Calls \in Nat
      /\ spawned \in Nat /\ PerCall \in Nat /\ g_po_fanout \in Nat /\ g_po_threads \in Nat
      /\ MaxThreads \in Nat
  BY CallersAssumption, PerCallAssumption, BoundsAssumption
     DEF ProbeInv, Probe!TypeOK, Callers, IInv, TypeOK
<1>1. /\ CallsTallied \in [Callers -> 0 .. Calls] /\ ThreadsTallied \in [Callers -> 0 .. Calls]
      /\ Cardinality(Numbered(CallsTallied)) \in Nat
      /\ Cardinality(Numbered(ThreadsTallied)) \in Nat
  BY TalliedTyped, NumberedGrows
<1>2. ASSUME UNCHANGED probeVars, spawned' = spawned \/ (~Followed /\ pc = "spawn")
      PROVE  TallyInv'
  <2>1. /\ CallsTallied' = CallsTallied /\ ThreadsTallied' = ThreadsTallied
        /\ UNCHANGED <<env, g_po_fanout, g_po_threads>>
    BY <1>2 DEF probeVars, CallsTallied, ThreadsTallied
  <2>2. env /\ ~Followed /\ pc = "spawn" => ThreadsTallied[me] = 0
    BY <1>0 DEF FollowedInv, ThreadsTallied
  <2>3. env => OwnThreads' = OwnThreads
    BY <1>2, <2>1, <2>2 DEF OwnThreads
  <2> QED BY <2>1, <2>3 DEF TallyInv, Numbered
<1>3. ASSUME NEW c \in Callers, Probe!Ask(c) \/ Probe!CallDone(c), spawned' = spawned
      PROVE  TallyInv'
  <2>1. UNCHANGED <<env, g_po_fanout, g_po_threads>>
    BY <1>3 DEF Probe!Ask, Probe!Check, Probe!Exchange, Probe!Register, Probe!Write,
       Probe!ReturnProbe, Probe!CallDone
  <2>2. env => CallsTallied' = CallsTallied /\ ThreadsTallied' = ThreadsTallied
    <3>1. Probe!CallDone(c) \/ (env /\ Probe!Ask(c)) =>
              CallsTallied' = CallsTallied /\ ThreadsTallied' = ThreadsTallied
      BY TallyCounts
    <3> QED BY <1>3, <3>1
  <2>3. env => OwnThreads' = OwnThreads
    BY <1>3, <2>2 DEF OwnThreads
  <2> QED BY <2>1, <2>2, <2>3 DEF TallyInv, Numbered
<1>4. ASSUME NEW c \in Callers, Probe!TallyCall(c), spawned' = spawned
      PROVE  TallyInv'
  <2>1. /\ CallsTallied' = [CallsTallied EXCEPT ![c] = @ + 1]
        /\ CallsTallied[c] < Calls
        /\ ThreadsTallied' = ThreadsTallied
    BY <1>4, TallyCounts
  <2>2. Cardinality(Numbered(CallsTallied')) = Cardinality(Numbered(CallsTallied)) + 1
    BY <1>1, <2>1, NumberedGrows
  <2>3. UNCHANGED <<env, g_po_threads>> /\ g_po_fanout' = g_po_fanout + 1
    BY <1>4 DEF Probe!TallyCall
  <2>4. OwnThreads' = OwnThreads
    BY <1>4, <2>1 DEF OwnThreads
  <2>5. /\ Cardinality(Numbered(CallsTallied))' = Cardinality(Numbered(CallsTallied'))
        /\ Cardinality(Numbered(ThreadsTallied))' = Cardinality(Numbered(ThreadsTallied))
    BY <2>1 DEF Numbered
  <2> QED BY <2>2, <2>3, <2>4, <2>5 DEF TallyInv
<1>5. ASSUME NEW c \in Callers, NEW n \in 1 .. MaxThreads, Probe!TallyThreads(c, n),
             spawned' = spawned,
             \/ n = PerCall /\ (c # me \/ Followed)
             \/ n = spawned /\ c = me /\ ~Followed
      PROVE  TallyInv'
  <2>1. /\ ThreadsTallied' = [ThreadsTallied EXCEPT ![c] = @ + 1]
        /\ ThreadsTallied[c] = calls[c] /\ calls[c] < Calls
        /\ CallsTallied' = CallsTallied
    BY <1>5, TallyCounts
  <2>2. Cardinality(Numbered(ThreadsTallied')) = Cardinality(Numbered(ThreadsTallied)) + 1
    BY <1>1, <2>1, NumberedGrows
  <2>3. UNCHANGED <<env, g_po_fanout>> /\ g_po_threads' = g_po_threads + n
    BY <1>5 DEF Probe!TallyThreads
  <2>4. ThreadsTallied[me] \in Nat /\ (c = me => ThreadsTallied'[me] = ThreadsTallied[me] + 1)
        /\ (c # me => ThreadsTallied'[me] = ThreadsTallied[me])
    BY <1>0, <1>1, <2>1
  <2>5. n + OwnThreads = PerCall + OwnThreads' /\ OwnThreads \in Int /\ OwnThreads' \in Int
    <3>1. CASE c # me
      BY <1>0, <1>5, <2>4, <3>1 DEF OwnThreads
    <3>2. CASE c = me /\ Followed
      <4>1. spawned > 0 => ThreadsTallied[me] > 0
        BY <2>1, <3>2 DEF FollowedInv
      <4> QED BY <1>0, <1>5, <2>4, <3>2, <4>1 DEF OwnThreads
    <3>3. CASE c = me /\ ~Followed
      <4>1. ThreadsTallied[me] = 0 /\ ThreadsTallied'[me] > 0
        BY <2>1, <2>4, <3>3 DEF FollowedInv
      <4>2. n = spawned /\ spawned > 0
        BY <1>5, <3>3
      <4> QED BY <1>0, <1>5, <4>1, <4>2 DEF OwnThreads
    <3> QED BY <3>1, <3>2, <3>3
  <2>6. /\ Cardinality(Numbered(CallsTallied))' = Cardinality(Numbered(CallsTallied))
        /\ Cardinality(Numbered(ThreadsTallied))' = Cardinality(Numbered(ThreadsTallied'))
    BY <2>1 DEF Numbered
  <2>7. env => g_po_threads' = (PerCall * Cardinality(Numbered(ThreadsTallied))') + OwnThreads'
    <3> DEFINE x == Cardinality(Numbered(ThreadsTallied))
               o == OwnThreads
               q == OwnThreads'
    <3>1. env => g_po_threads = (PerCall * x) + o
      BY DEF TallyInv
    <3>2. x \in Nat /\ n \in Int /\ o \in Int /\ q \in Int /\ PerCall \in Nat /\ n + o = PerCall + q
      <4>1. n \in Int
        BY <1>0
      <4>2. x \in Nat
        BY <1>1
      <4>3. o \in Int /\ q \in Int /\ n + o = PerCall + q
        BY <2>5
      <4>4. PerCall \in Nat
        BY <1>0
      <4> QED BY <4>1, <4>2, <4>3, <4>4
    <3>3. Cardinality(Numbered(ThreadsTallied))' = x + 1
      BY <2>2, <2>6
    <3>4. g_po_threads' = g_po_threads + n
      BY <2>3
    <3> HIDE DEF PoolInv, x, o, q
    <3>5. ((PerCall * x) + o) + n = (PerCall * (x + 1)) + q
      BY <3>2, Corrected
    <3>6. env => g_po_threads' = (PerCall * (x + 1)) + q
      BY <3>1, <3>4, <3>5
    <3> QED BY <3>3, <3>6 DEF q
  <2> QED BY <2>3, <2>6, <2>7 DEF TallyInv
<1>6. ~Followed /\ pc = "join" => spawned \in 1 .. MaxThreads
  BY <1>0 DEF IInv, CallerInv, TypeOK
<1>7. PerCall \in 1 .. MaxThreads
  BY PerCallAssumption
<1>8. CASE Followed /\ Probe!Exit /\ UNCHANGED vars
  BY <1>8 DEF Probe!Exit, vars, TallyInv, OwnThreads, CallsTallied, ThreadsTallied, Numbered
<1>9. CASE UNCHANGED all
  <2>1. UNCHANGED probeVars /\ spawned' = spawned
    BY <1>9 DEF all, vars
  <2> QED BY <1>2, <2>1
<1>10. CASE (Enter \/ InlineRow \/ InlineReturn) /\ UNCHANGED probeVars
  <2>1. UNCHANGED probeVars /\ spawned' = spawned
    BY <1>10 DEF Enter, InlineRow, InlineReturn
  <2> QED BY <1>2, <2>1
<1>11. CASE (Spawn \/ SpawnDone \/ SpawnThrows \/ Join) /\ Asked /\ UNCHANGED probeVars
  <2>1. UNCHANGED probeVars /\ (spawned' = spawned \/ (~Followed /\ pc = "spawn"))
    BY <1>11 DEF Spawn, SpawnDone, SpawnThrows, Join, Followed
  <2> QED BY <1>2, <2>1
<1>12. CASE (\E w \in Workers : Worker(w)) /\ UNCHANGED probeVars
  <2>1. UNCHANGED probeVars /\ spawned' = spawned
    BY <1>12 DEF Worker, WorkerRow, WorkerExit
  <2> QED BY <1>2, <2>1
<1>13. CASE ~Followed /\ Return /\ Probe!CallDone(me)
  BY <1>0, <1>3, <1>13 DEF Return
<1>14. CASE ~Followed /\ pc = "spawn" /\ Probe!Ask(me) /\ UNCHANGED vars
  BY <1>0, <1>3, <1>14 DEF vars
<1>15. CASE /\ ~Followed /\ pc = "join" /\ t = spawned /\ UNCHANGED vars
            /\ Probe!TallyCall(me) \/ Probe!TallyThreads(me, spawned)
  BY <1>0, <1>4, <1>5, <1>6, <1>15 DEF vars
<1>16. CASE /\ UNCHANGED vars
            /\ \E c \in Callers :
                  /\ c # me \/ Followed
                  /\ \/ Probe!Ask(c) \/ Probe!TallyCall(c) \/ Probe!CallDone(c)
                     \/ Probe!TallyThreads(c, PerCall)
  BY <1>3, <1>4, <1>5, <1>7, <1>16 DEF vars
<1> QED BY PoolSteps, <1>8, <1>9, <1>10, <1>11, <1>12, <1>13, <1>14, <1>15, <1>16

\* Once everything is quiet no caller makes an access.
LEMMA QuietIsQuiet ==
    ASSUME ProbeInv, Quiet, NEW c \in Callers
    PROVE  ~(Probe!Ask(c) \/ Probe!TallyCall(c) \/ Probe!CallDone(c)
             \/ \E n \in 1 .. MaxThreads : Probe!TallyThreads(c, n))
<1>1. at[c] = "check" /\ calls[c] = Calls /\ Calls \in Nat
  BY CallersAssumption DEF Quiet
<1> QED BY <1>1 DEF Probe!Ask, Probe!Check, Probe!Exchange, Probe!Register, Probe!Write,
     Probe!ReturnProbe, Probe!TallyCall, Probe!CallDone, Probe!TallyThreads, Probe!Goto

\* Each access keeps the report's one chance: the exchange opens it, the registration
\* takes it, and whoever is answered found the cell set.
LEMMA ReportAccess ==
    ASSUME ProbeInv, HandlerInv, ReportInv, NEW c \in Callers,
           \/ Probe!Ask(c) \/ Probe!TallyCall(c) \/ Probe!CallDone(c)
           \/ \E n \in 1 .. MaxThreads : Probe!TallyThreads(c, n)
    PROVE  ReportInv'
<1>1. ~Quiet
  BY QuietIsQuiet
<1> USE CallersAssumption
    DEF ProbeInv, Probe!TypeOK, CallerKnows, HandlerInv, ReportInv, Probe!Goto
<1>2. CASE Probe!Check(c)
  BY <1>1, <1>2 DEF Probe!Check
<1>3. CASE Probe!Exchange(c)
  <2>1. CASE registered
    BY <1>1, <1>3, <2>1 DEF Probe!Exchange
  <2>2. CASE ~registered
    <3>1. env /\ Calls > 0 /\ at[c] = "exchange" /\ at'[c] = "atexit"
      BY <1>3, <2>2 DEF Probe!Exchange
    <3>2. registered' /\ UNCHANGED <<env, g_po_probe, handlers, calls, printed>>
      BY <1>3 DEF Probe!Exchange
    <3>3. handlers = 0 /\ printed = << >>
      BY <2>2
    <3>4. \A d \in Callers : d # c => at'[d] = at[d]
      BY <1>3 DEF Probe!Exchange
    <3> QED BY <3>1, <3>2, <3>3, <3>4
  <2> QED BY <2>1, <2>2
<1>4. CASE Probe!Register(c)
  <2>1. /\ registered /\ printed = << >> /\ handlers = 0
        /\ handlers' = 1 /\ UNCHANGED <<env, g_po_probe, registered, calls, printed>>
    BY <1>1, <1>4 DEF Probe!Register
  <2>2. \A d \in Callers : (d # c => at'[d] = at[d]) /\ at'[c] = "write"
    BY <1>4 DEF Probe!Register
  <2> QED BY <2>1, <2>2
<1>5. CASE Probe!Write(c)
  BY <1>1, <1>5 DEF Probe!Write
<1>6. CASE Probe!ReturnProbe(c)
  BY <1>1, <1>6 DEF Probe!ReturnProbe
<1>7. CASE Probe!TallyCall(c)
  BY <1>1, <1>7 DEF Probe!TallyCall
<1>8. CASE \E n \in 1 .. MaxThreads : Probe!TallyThreads(c, n)
  BY <1>1, <1>8 DEF Probe!TallyThreads
<1>9. CASE Probe!CallDone(c)
  BY <1>1, <1>9 DEF Probe!CallDone
<1> HIDE DEF ReportInv
<1> QED BY <1>2, <1>3, <1>4, <1>5, <1>6, <1>7, <1>8, <1>9 DEF Probe!Ask

\* The exit runs the one handler with the probe on and everybody done.
LEMMA ReportExit ==
    ASSUME ProbeInv, HandlerInv, ReportInv, Followed, Probe!Exit, UNCHANGED vars
    PROVE  ReportInv'
<1>1. Quiet
  BY DEF Probe!Exit, Quiet
<1>2. handlers = 1 /\ registered /\ printed = << >> /\ env /\ Calls > 0
  BY DEF Probe!Exit, ReportInv, HandlerInv, ProbeInv, Probe!TypeOK
<1>3. me \in Callers /\ calls[me] > 0
  BY <1>1, <1>2 DEF Callers, Quiet
<1>4. g_po_probe = 1
  BY <1>2, <1>3 DEF ProbeInv, ReportInv
<1>5. printed' = << <<g_po_fanout, g_po_threads>> >> /\ handlers' = 0
  BY <1>2, <1>4 DEF Probe!Exit
<1>6. UNCHANGED <<env, g_po_probe, registered, g_po_fanout, g_po_threads, at, calls, pc>>
  BY DEF Probe!Exit, vars
<1>7. Quiet'
  BY <1>1, <1>6 DEF Quiet, Followed
<1> QED BY <1>2, <1>5, <1>6, <1>7 DEF ReportInv

LEMMA ReportStep ==
    ASSUME PoolInv, [FanOutNext]_all
    PROVE  ReportInv'
<1> USE DEF PoolInv
<1>1. me \in Callers
  BY DEF Callers
<1>2. ~Followed /\ pc = "join" => spawned \in 1 .. MaxThreads
  BY BoundsAssumption DEF IInv, CallerInv, TypeOK
<1>3. ASSUME UNCHANGED probeVars, pc = "returned" => pc' = "returned"
      PROVE  ReportInv'
  BY <1>3 DEF probeVars, ReportInv, Quiet, Followed
<1>4. CASE (Enter \/ InlineRow \/ InlineReturn) /\ UNCHANGED probeVars
  <2>1. UNCHANGED probeVars /\ pc # "returned"
    BY <1>4 DEF Enter, InlineRow, InlineReturn
  <2> QED BY <1>3, <2>1
<1>5. CASE (Spawn \/ SpawnDone \/ SpawnThrows \/ Join) /\ Asked /\ UNCHANGED probeVars
  <2>1. UNCHANGED probeVars /\ pc # "returned"
    BY <1>5 DEF Spawn, SpawnDone, SpawnThrows, Join
  <2> QED BY <1>3, <2>1
<1>6. CASE (\E w \in Workers : Worker(w)) /\ UNCHANGED probeVars
  <2>1. UNCHANGED probeVars /\ pc' = pc
    BY <1>6 DEF Worker, WorkerRow, WorkerExit
  <2> QED BY <1>3, <2>1
<1>7. CASE UNCHANGED all
  <2>1. UNCHANGED probeVars /\ pc' = pc
    BY <1>7 DEF all, vars
  <2> QED BY <1>3, <2>1
<1>8. CASE \/ ~Followed /\ Return /\ Probe!CallDone(me)
           \/ ~Followed /\ pc = "spawn" /\ Probe!Ask(me) /\ UNCHANGED vars
           \/ /\ ~Followed /\ pc = "join" /\ t = spawned /\ UNCHANGED vars
              /\ Probe!TallyCall(me) \/ Probe!TallyThreads(me, spawned)
  BY <1>1, <1>2, <1>8, ReportAccess
<1>9. CASE /\ UNCHANGED vars
           /\ \E c \in Callers :
                 /\ c # me \/ Followed
                 /\ \/ Probe!Ask(c) \/ Probe!TallyCall(c) \/ Probe!CallDone(c)
                    \/ Probe!TallyThreads(c, PerCall)
  BY <1>9, PerCallAssumption, ReportAccess
<1>10. CASE Followed /\ Probe!Exit /\ UNCHANGED vars
  BY <1>10, ReportExit
<1> QED BY PoolSteps, <1>4, <1>5, <1>6, <1>7, <1>8, <1>9, <1>10

LEMMA PoolInit == FanOutInit => FollowedInv /\ TallyInv /\ ReportInv
<1> SUFFICES ASSUME FanOutInit PROVE FollowedInv /\ TallyInv /\ ReportInv
  OBVIOUS
<1>1. /\ pc = "entry" /\ spawned = 0
      /\ \A c \in Callers : at[c] = "check" /\ calls[c] = 0
      /\ me \in Callers
      /\ g_po_probe = -1 /\ registered = FALSE /\ handlers = 0 /\ printed = << >>
      /\ g_po_fanout = 0 /\ g_po_threads = 0
  BY DEF FanOutInit, Init, Probe!Init, Callers
<1>2. FollowedInv
  BY <1>1 DEF FollowedInv, Followed
<1>3. ReportInv
  BY <1>1 DEF ReportInv
<1>4. TallyInv
  <2>1. Numbered(CallsTallied) = {} /\ Numbered(ThreadsTallied) = {}
    BY <1>1 DEF Numbered, CallsTallied, ThreadsTallied
  <2>2. Cardinality(Numbered(CallsTallied)) = 0 /\ Cardinality(Numbered(ThreadsTallied)) = 0
    BY <2>1, FS_EmptySet
  <2>3. OwnThreads = 0 /\ PerCall * 0 = 0
    BY <1>1, PerCallAssumption, BoundsAssumption DEF OwnThreads
  <2> QED BY <1>1, <2>2, <2>3 DEF TallyInv
<1> QED BY <1>2, <1>3, <1>4

\* When everybody is done, every call of every caller has been counted.
LEMMA AllTallied ==
    ASSUME ProbeInv, Quiet
    PROVE  /\ Cardinality(Numbered(CallsTallied)) = Calls * Cardinality(Callers)
           /\ Cardinality(Numbered(ThreadsTallied)) = Calls * Cardinality(Callers)
           /\ Calls * Cardinality(Callers) \in Nat
           /\ Calls > 0 => Calls * Cardinality(Callers) > 0
           /\ Calls = 0 => Calls * Cardinality(Callers) = 0
<1>1. \A c \in Callers : CallsTallied[c] = Calls /\ ThreadsTallied[c] = Calls
  BY DEF Quiet, CallsTallied, ThreadsTallied
<1>2. /\ Numbered(CallsTallied) = Callers \X (1 .. Calls)
      /\ Numbered(ThreadsTallied) = Callers \X (1 .. Calls)
  BY <1>1, CallersAssumption DEF Numbered
<1>3. IsFiniteSet(Callers) /\ Cardinality(Callers) \in Nat
  <2>1. IsFiniteSet(Callers)
    BY CallersAssumption, FS_AddElement DEF Callers
  <2> QED BY <2>1, FS_CardinalityType
<1>4. IsFiniteSet(1 .. Calls) /\ Cardinality(1 .. Calls) = Calls
  BY CallersAssumption, FS_Interval
<1>5. Cardinality(Callers \X (1 .. Calls)) = Cardinality(Callers) * Calls
  BY <1>3, <1>4, FS_Product
<1>6. Cardinality(Callers) > 0
  <2>1. Callers # {}
    BY DEF Callers
  <2> QED BY <1>3, <2>1, FS_EmptySet
<1>7. \A n, m \in Nat : n * m = m * n /\ n * m \in Nat /\ (n > 0 /\ m > 0 => n * m > 0) /\ 0 * m = 0
  OBVIOUS
<1> QED BY <1>2, <1>3, <1>5, <1>6, <1>7, CallersAssumption

\* What the pool knows holds of every pool of interpreters.
THEOREM PoolInvariance == FanOutSpec => []PoolInv
<1>1. FanOutInit => FollowedInv /\ TallyInv /\ ReportInv
  BY PoolInit
<1>2. PoolInv /\ [FanOutNext]_all => FollowedInv' /\ TallyInv' /\ ReportInv'
  BY FollowedStep, TallyStep, ReportStep
<1>3. FanOutSpec => [](IInv /\ ProbeInv /\ HandlerInv)
  BY FollowsCall, Invariance, ProbeInvariance, PTL
<1>4. PoolInv <=> IInv /\ ProbeInv /\ HandlerInv /\ FollowedInv /\ TallyInv /\ ReportInv
  BY DEF PoolInv
<1> QED BY <1>1, <1>2, <1>3, <1>4, PTL DEF FanOutSpec

\* The exit report of po_probe_on and parallel_oh, for every number of interpreters
\* and of calls, every interleaving of the unsynchronised accesses: with the probe on
\* it is printed exactly once, with every fan-out and every spawned thread in it.
THEOREM ReportsOnce == FanOutSpec => []ExitReportsOnce
<1>1. PoolInv => ExitReportsOnce
  <2> DEFINE total == Calls * Cardinality(Callers)
             threads == PerCall * total + (IF spawned > 0 THEN spawned - PerCall ELSE 0)
  <2> SUFFICES ASSUME PoolInv, Quiet, handlers = 0
               PROVE  printed = IF env /\ total > 0 THEN << <<total, threads>> >> ELSE << >>
    BY DEF ExitReportsOnce, Quiet
  <2> USE DEF PoolInv
  <2>1. me \in Callers /\ \A c \in Callers : at[c] = "check" /\ calls[c] = Calls
    BY DEF Quiet, Callers
  <2>2. CASE ~(env /\ total > 0)
    <3>1. ~registered
      BY <2>2, AllTallied DEF ReportInv
    <3> QED BY <2>2, <3>1 DEF ReportInv
  <2>3. CASE env /\ total > 0
    <3>1. Calls > 0
      BY <2>3, AllTallied, CallersAssumption
    <3>2. g_po_probe >= 0 /\ registered
      BY <2>1, <2>3, <3>1 DEF ReportInv
    <3>3. printed = << <<g_po_fanout, g_po_threads>> >>
      BY <2>1, <3>2 DEF ReportInv
    <3>4. ThreadsTallied[me] = Calls
      BY <2>1 DEF ThreadsTallied
    <3>5. OwnThreads = IF spawned > 0 THEN spawned - PerCall ELSE 0
      BY <3>1, <3>4 DEF OwnThreads
    <3>6. g_po_fanout = total /\ g_po_threads = threads
      BY <2>3, <3>5, AllTallied DEF TallyInv
    <3> HIDE DEF total, threads, PoolInv
    <3> QED BY <2>3, <3>3, <3>6
  <2> QED BY <2>2, <2>3
<1> QED BY <1>1, PoolInvariance, PTL
=============================================================================

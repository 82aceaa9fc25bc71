----------------------------- MODULE ParallelOh -----------------------------
(***************************************************************************)
(* parallel_oh (rocket_delegate.cpp): one call fans a band function out    *)
(* over the output rows.  The caller spawns one worker per non-empty band  *)
(* and blocks joining them in order; each worker applies the function to   *)
(* its rows.  Small calls run inline on the caller.  Spawning a thread may *)
(* throw: the vector of joinable threads is then destroyed and the process *)
(* terminates.  A step of a worker is one row: rows are what bands share   *)
(* or do not share.                                                        *)
(***************************************************************************)
EXTENDS Integers, FiniteSets

CONSTANTS
    MaxRows,        \* bound: rows of a call
    MaxThreads      \* the nthreads option (clamped to 1..8 at creation)

ASSUME BoundsAssumption == MaxRows \in Nat \ {0} /\ MaxThreads \in Nat \ {0}

VARIABLES
    rows,       \* OH
    nthreads,   \* the option's value
    large,      \* the call has the work that pays for threads
    pc,         \* the caller: "entry", "inline", "spawn", "join", "returned", "terminated"
    t,          \* the caller's loop variable
    next,       \* for each thread, the row its band function is at
    running,    \* the threads spawned and not finished
    spawned,    \* th.size()
    applied     \* for each row, how often the function was applied to it

vars == <<rows, nthreads, large, pc, t, next, running, spawned, applied>>

Rows == 0 .. (MaxRows - 1)
Workers == 0 .. (MaxThreads - 1)

Smaller(a, b) == IF a < b THEN a ELSE b

\* Mutant: one band too many
TExtra == 1 + Smaller(IF nthreads < 1 THEN 1 ELSE nthreads, rows)

T == LET asked == IF nthreads < 1 THEN 1 ELSE nthreads IN Smaller(asked, rows)
\* Mutant: the division rounds down
perDown == rows \div T

per == (rows + T - 1) \div T
oh0(w) == w * per

\* Mutant: the last band is not cut at OH
oh1Unclamped(w) == oh0(w) + per

oh1(w) == Smaller(rows, oh0(w) + per)
Band(w) == oh0(w) .. (oh1(w) - 1)

Init ==
    /\ rows \in 1 .. MaxRows
    /\ nthreads \in 0 .. MaxThreads
    /\ large \in BOOLEAN
    /\ pc = "entry" /\ t = 0
    /\ next = [w \in Workers |-> 0]
    /\ running = {} /\ spawned = 0
    /\ applied = [r \in Rows |-> 0]

Enter ==
    /\ pc = "entry"
    /\ pc' = IF T <= 1 \/ ~large THEN "inline" ELSE "spawn"
    /\ UNCHANGED <<rows, nthreads, large, t, next, running, spawned, applied>>

\* fn(0, OH) on the caller, t the row it is at
InlineRow ==
    /\ pc = "inline" /\ t < rows
    /\ applied' = [applied EXCEPT ![t] = @ + 1]
    /\ t' = t + 1
    /\ UNCHANGED <<rows, nthreads, large, pc, next, running, spawned>>

InlineReturn ==
    /\ pc = "inline" /\ t = rows
    /\ pc' = "returned"
    /\ UNCHANGED <<rows, nthreads, large, t, next, running, spawned, applied>>

\* One turn of the spawning loop, which an empty band ends
Spawn ==
    /\ pc = "spawn" /\ t < T /\ oh0(t) < oh1(t)
    /\ running' = running \cup {t}
    /\ next' = [next EXCEPT ![t] = oh0(t)]
    /\ spawned' = spawned + 1
    /\ t' = t + 1
    /\ UNCHANGED <<rows, nthreads, large, pc, applied>>

SpawnDone ==
    /\ pc = "spawn" /\ (t = T \/ oh0(t) >= oh1(t))
    /\ pc' = "join" /\ t' = 0
    /\ UNCHANGED <<rows, nthreads, large, next, running, spawned, applied>>

\* std::thread throws: unwinding destroys joinable threads, std::terminate
SpawnThrows ==
    /\ pc = "spawn" /\ t < T /\ oh0(t) < oh1(t)
    /\ pc' = "terminated"
    /\ running' = {}
    /\ UNCHANGED <<rows, nthreads, large, t, next, spawned, applied>>

\* Mutant: the caller does not wait
JoinDetached ==
    /\ pc = "join" /\ t < spawned
    /\ t' = t + 1
    /\ UNCHANGED <<rows, nthreads, large, pc, next, running, spawned, applied>>

Join ==
    /\ pc = "join" /\ t < spawned
    /\ t \notin running
    /\ t' = t + 1
    /\ UNCHANGED <<rows, nthreads, large, pc, next, running, spawned, applied>>

Return ==
    /\ pc = "join" /\ t = spawned
    /\ pc' = "returned"
    /\ UNCHANGED <<rows, nthreads, large, t, next, running, spawned, applied>>

WorkerRow(w) ==
    /\ w \in running /\ next[w] < oh1(w)
    /\ applied' = [applied EXCEPT ![next[w]] = @ + 1]
    /\ next' = [next EXCEPT ![w] = @ + 1]
    /\ UNCHANGED <<rows, nthreads, large, pc, t, running, spawned>>

WorkerExit(w) ==
    /\ w \in running /\ next[w] >= oh1(w)
    /\ running' = running \ {w}
    /\ UNCHANGED <<rows, nthreads, large, pc, t, next, spawned, applied>>

Worker(w) == WorkerRow(w) \/ WorkerExit(w)

Caller == \/ Enter \/ InlineRow \/ InlineReturn \/ Spawn \/ SpawnDone
          \/ SpawnThrows \/ Join \/ Return

Next == Caller \/ \E w \in Workers : Worker(w)

Spec == Init /\ [][Next]_vars

-----------------------------------------------------------------------------
\* The state's shape.
TypeOK ==
    /\ rows \in 1 .. MaxRows /\ nthreads \in 0 .. MaxThreads /\ large \in BOOLEAN
    /\ pc \in {"entry", "inline", "spawn", "join", "returned", "terminated"}
    /\ t \in Nat
    /\ next \in [Workers -> Nat]
    /\ running \subseteq Workers
    /\ spawned \in 0 .. MaxThreads
    /\ applied \in [Rows -> Nat]

\* The comment's "disjoint row bands => no races": no row is ever written twice,
\* by two threads or by one, and no row outside the call is written at all.
RowsOnce == \A r \in Rows : applied[r] <= (IF r < rows THEN 1 ELSE 0)

\* What the caller may rely on when the call returns: every row was written, and
\* no thread is left that could still use the function captured by reference.
ReturnsComplete ==
    pc = "returned" =>
        /\ \A r \in 0 .. (rows - 1) : applied[r] = 1
        /\ running = {}

-----------------------------------------------------------------------------
\* The call, whatever the interleaving, is one pass over the rows.
Pass == INSTANCE OnePass WITH
            left <- {r \in 0 .. (rows - 1) : applied[r] = 0},
            returned <- pc = "returned"

ImplementsOnePass == Pass!Spec
=============================================================================

------------------------------- MODULE FanOut -------------------------------
(***************************************************************************)
(* parallel_oh under a pool of interpreters (rocket_delegate.cpp): the     *)
(* first call of one interpreter, followed row by row (ParallelOh), with   *)
(* the probe it asks before it spawns and tallies into after it joins      *)
(* (PoolProbe), while the other interpreters make fan-outs of their own.   *)
(* A spawn that throws ends the process, whoever else is running.          *)
(***************************************************************************)
EXTENDS ParallelOh

CONSTANTS
    me,             \* the interpreter whose first call is followed
    Others,         \* the other interpreters
    Calls,          \* bound: fan-outs per interpreter
    PerCall         \* threads of a fan-out that is not followed

ASSUME CallersAssumption == Calls \in Nat /\ IsFiniteSet(Others) /\ me \notin Others
ASSUME PerCallAssumption == PerCall \in 1 .. MaxThreads

VARIABLES
    env, g_po_probe, registered, handlers, g_po_fanout, g_po_threads,
    at,             \* PoolProbe's pc
    probe, calls, printed

probeVars == <<env, g_po_probe, registered, handlers, g_po_fanout, g_po_threads,
               at, probe, calls, printed>>
all == <<vars, probeVars>>

Callers == Others \cup {me}

Probe == INSTANCE PoolProbe WITH pc <- at, Threads <- 1 .. MaxThreads

\* terminate() leaves nobody running
Alive == pc # "terminated"

\* The followed call is over, and me's further calls are like anybody's
Followed == pc = "returned"

\* po_probe_on() has returned to the followed call
Asked == at[me] \in {"fanout", "done"}

\* A large call asks the probe first, tallies after the last join, returns.
\* An inline call does not look at the probe.
Call ==
    \/ (Enter \/ InlineRow \/ InlineReturn) /\ UNCHANGED probeVars
    \/ pc = "spawn" /\ Probe!Ask(me) /\ UNCHANGED vars
    \/ (Spawn \/ SpawnDone \/ SpawnThrows \/ Join) /\ Asked /\ UNCHANGED probeVars
    \/ /\ pc = "join" /\ t = spawned
       /\ Probe!TallyCall(me) \/ Probe!TallyThreads(me, spawned)
       /\ UNCHANGED vars
    \/ Return /\ Probe!CallDone(me)

\* A fan-out that is not followed
OtherCall(c) ==
    /\ \/ Probe!Ask(c) \/ Probe!TallyCall(c) \/ Probe!CallDone(c)
       \/ Probe!TallyThreads(c, PerCall)
    /\ UNCHANGED vars

Interpreter(c) ==
    /\ Alive
    /\ IF c = me /\ ~Followed THEN Call ELSE OtherCall(c)

WorkerStep(w) == Worker(w) /\ UNCHANGED probeVars

\* exit() runs the handlers once the interpreters' threads are joined
ProcessExit == Followed /\ Probe!Exit /\ UNCHANGED vars

FanOutInit == Init /\ Probe!Init

FanOutNext == \/ \E c \in Callers : Interpreter(c)
              \/ \E w \in Workers : WorkerStep(w)
              \/ ProcessExit

\* The operating system schedules every interpreter's thread and every worker,
\* and exit() runs what was registered.
FanOutSpec == /\ FanOutInit /\ [][FanOutNext]_all
              /\ \A c \in Callers : WF_all(Interpreter(c))
              /\ \A w \in Workers : WF_all(WorkerStep(w))
              /\ WF_all(ProcessExit)

-----------------------------------------------------------------------------
\* The comment's claim that the race on g_po_probe is benign: whatever order the
\* threads reach it in, no call is told anything but what the environment says.
ProbeAgrees == Probe!ProbeAgrees

\* "Register the exit dump EXACTLY once": an exit prints the probe line once if
\* the probe is on and something fanned out, with every call and every thread
\* that was spawned tallied, else never.
ExitReportsOnce ==
    Followed /\ (\A c \in Callers : at[c] = "check" /\ calls[c] = Calls) /\ handlers = 0 =>
        LET total == Calls * Cardinality(Callers)
            threads == PerCall * total + (IF spawned > 0 THEN spawned - PerCall ELSE 0) IN
        printed = IF env /\ total > 0 THEN << <<total, threads>> >> ELSE << >>

\* Every interpreter finishes its calls and the report is printed, unless the
\* process was terminated: joining waits for workers that all finish, and the
\* probe never holds anybody up.
Finishes ==
    <>(\/ ~Alive
       \/ Followed /\ handlers = 0 /\ \A c \in Callers : calls[c] = Calls)
=============================================================================

------------------------------ MODULE PoolProbe ------------------------------
(***************************************************************************)
(* The exposure probe of parallel_oh (rocket_delegate.cpp): po_probe_on    *)
(* caches an environment variable in a plain int and registers the exit    *)
(* dump, and parallel_oh tallies its calls and threads in atomics.  Under  *)
(* a pool of interpreters several threads reach the check-then-set at the  *)
(* same time.  Each step below is one access to a shared variable; an      *)
(* aligned int is read and written whole on the target.                    *)
(***************************************************************************)
EXTENDS Integers, Sequences, FiniteSets

CONSTANTS
    Callers,        \* threads that run an interpreter
    Calls,          \* bound: fan-outs per caller
    Threads         \* the sizes a fan-out may have

VARIABLES
    env,            \* ROCKET_PROF_POOL asks for the probe
    g_po_probe,     \* -1 until cached, then 0 or 1
    registered,     \* the static atomic<bool>
    handlers,       \* how many exit dumps atexit holds
    g_po_fanout, g_po_threads,
    pc,             \* for each caller, the access it makes next
    probe,          \* for each caller, what po_probe_on returned to its last call
    calls,          \* for each caller, the fan-outs it completed
    printed         \* what the exit dumps printed: <<calls, threads>>, one each

vars == <<env, g_po_probe, registered, handlers, g_po_fanout, g_po_threads,
          pc, probe, calls, printed>>

Init ==
    /\ env \in BOOLEAN
    /\ g_po_probe = -1
    /\ registered = FALSE
    /\ handlers = 0
    /\ g_po_fanout = 0 /\ g_po_threads = 0
    /\ pc = [c \in Callers |-> "check"]
    /\ probe = [c \in Callers |-> FALSE]
    /\ calls = [c \in Callers |-> 0]
    /\ printed = << >>

Goto(c, from, to) == pc[c] = from /\ pc' = [pc EXCEPT ![c] = to]

\* Mutant: an unset environment variable is not cached
CheckUncached(c) ==
    /\ calls[c] < Calls
    /\ Goto(c, "check", IF g_po_probe < 0 /\ env THEN "exchange" ELSE "return")
    /\ UNCHANGED <<env, g_po_probe, registered, handlers, g_po_fanout, g_po_threads,
                   probe, calls, printed>>

\* if (g_po_probe < 0); an exchange is only evaluated when the probe is on
Check(c) ==
    /\ calls[c] < Calls
    /\ Goto(c, "check", IF g_po_probe >= 0 THEN "return" ELSE IF env THEN "exchange" ELSE "write")
    /\ UNCHANGED <<env, g_po_probe, registered, handlers, g_po_fanout, g_po_threads,
                   probe, calls, printed>>

\* Mutant: who asks registers, first or not
ExchangeIgnored(c) ==
    /\ Goto(c, "exchange", "atexit")
    /\ registered' = TRUE
    /\ UNCHANGED <<env, g_po_probe, handlers, g_po_fanout, g_po_threads,
                   probe, calls, printed>>

\* registered.exchange(true), atomic
Exchange(c) ==
    /\ Goto(c, "exchange", IF registered THEN "write" ELSE "atexit")
    /\ registered' = TRUE
    /\ UNCHANGED <<env, g_po_probe, handlers, g_po_fanout, g_po_threads,
                   probe, calls, printed>>

Register(c) ==
    /\ Goto(c, "atexit", "write")
    /\ handlers' = handlers + 1
    /\ UNCHANGED <<env, g_po_probe, registered, g_po_fanout, g_po_threads,
                   probe, calls, printed>>

\* Mutant: the answer is not stored, and the caller looks again
WriteLost(c) ==
    /\ Goto(c, "write", "check")
    /\ UNCHANGED <<env, g_po_probe, registered, handlers, g_po_fanout, g_po_threads,
                   probe, calls, printed>>

Write(c) ==
    /\ Goto(c, "write", "return")
    /\ g_po_probe' = IF env THEN 1 ELSE 0
    /\ UNCHANGED <<env, registered, handlers, g_po_fanout, g_po_threads,
                   probe, calls, printed>>

\* return g_po_probe, an int turned into a bool; then the fan-out runs
ReturnProbe(c) ==
    /\ Goto(c, "return", IF g_po_probe # 0 THEN "fanout" ELSE "done")
    /\ probe' = [probe EXCEPT ![c] = g_po_probe # 0]
    /\ UNCHANGED <<env, g_po_probe, registered, handlers, g_po_fanout, g_po_threads,
                   calls, printed>>

TallyCall(c) ==
    /\ Goto(c, "fanout", "threads")
    /\ g_po_fanout' = g_po_fanout + 1
    /\ UNCHANGED <<env, g_po_probe, registered, handlers, g_po_threads,
                   probe, calls, printed>>

\* th.size() of the call's threads
TallyThreads(c, n) ==
    /\ Goto(c, "threads", "done")
    /\ g_po_threads' = g_po_threads + n
    /\ UNCHANGED <<env, g_po_probe, registered, handlers, g_po_fanout,
                   probe, calls, printed>>

CallDone(c) ==
    /\ Goto(c, "done", "check")
    /\ calls' = [calls EXCEPT ![c] = @ + 1]
    /\ UNCHANGED <<env, g_po_probe, registered, handlers, g_po_fanout, g_po_threads,
                   probe, printed>>

\* exit() runs the handlers once the interpreters' threads are joined
Exit ==
    /\ \A c \in Callers : pc[c] = "check" /\ calls[c] = Calls
    /\ handlers > 0
    /\ printed' = IF g_po_probe <= 0 THEN printed
                  ELSE Append(printed, <<g_po_fanout, g_po_threads>>)
    /\ handlers' = handlers - 1
    /\ UNCHANGED <<env, g_po_probe, registered, g_po_fanout, g_po_threads, pc, probe, calls>>

\* po_probe_on() as a whole, access by access
Ask(c) == Check(c) \/ Exchange(c) \/ Register(c) \/ Write(c) \/ ReturnProbe(c)

Next == \/ Exit
        \/ \E c \in Callers : Ask(c) \/ TallyCall(c) \/ CallDone(c)
                            \/ \E n \in Threads : TallyThreads(c, n)

Spec == Init /\ [][Next]_vars

-----------------------------------------------------------------------------
\* The state's shape.
TypeOK ==
    /\ env \in BOOLEAN /\ registered \in BOOLEAN
    /\ g_po_probe \in {-1, 0, 1}
    /\ handlers \in Nat
    /\ {g_po_fanout, g_po_threads} \subseteq Nat
    /\ pc \in [Callers -> {"check", "exchange", "atexit", "write", "return",
                           "fanout", "threads", "done"}]
    /\ probe \in [Callers -> BOOLEAN]
    /\ calls \in [Callers -> 0 .. Calls]

\* The comment's claim that the race on g_po_probe is benign: whatever order the
\* threads reach it in, no call is told anything but what the environment says.
ProbeAgrees == \A c \in Callers : pc[c] \in {"fanout", "threads"} => probe[c] /\ env

\* The exit report is registered at most once, by the first thread to ask.
OneHandler == handlers <= 1
=============================================================================

------------------------------- MODULE OnePass -------------------------------
(***************************************************************************)
(* What parallel_oh (rocket_delegate.cpp) promises its caller: by the time *)
(* it returns, the band function has been applied to every row of 0..OH-1  *)
(* exactly once, as one pass over the rows would do, in some order, and    *)
(* nothing applies it afterwards.                                          *)
(***************************************************************************)
EXTENDS Integers

CONSTANT MaxRows        \* bound: rows of a call

VARIABLES
    rows,       \* OH, the rows of the call
    left,       \* the rows the function has not been applied to
    returned    \* the call is over

Init ==
    /\ rows \in 1 .. MaxRows
    /\ left = 0 .. (rows - 1)
    /\ returned = FALSE

Apply ==
    /\ ~returned
    /\ \E r \in left : left' = left \ {r}
    /\ UNCHANGED <<rows, returned>>

Return ==
    /\ ~returned
    /\ left = {}
    /\ returned' = TRUE
    /\ UNCHANGED <<rows, left>>

Next == Apply \/ Return

Spec == Init /\ [][Next]_<<rows, left, returned>>
=============================================================================

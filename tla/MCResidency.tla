---- MODULE MCResidency ----
(* TLC instances of Residency: the constants come from the cfg files. *)
EXTENDS Residency

AllKinds == {"Conv", "PwConv", "Native", "Add", "Reshape", "Concat", "Split", "Gather"}

\* The ops that keep the values and end the walk
BarrierKinds == {"Conv", "Split", "Gather"}
====

---- MODULE MCFanOut ----
(* TLC instance of FanOut: the interpreters are model values. *)
EXTENDS FanOut

CONSTANTS c1, c2, c3
OtherInterpreters == {c2, c3}
====

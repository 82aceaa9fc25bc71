---- MODULE MCRk3576Claim ----
(* TLC instances of Rk3576Claim: operator sets and PAD geometries. *)
EXTENDS Rk3576Claim

\* Models whose explicit pads precede VALID windows, as converters emit them
ValidOps == {"conv_valid", "conv_refused", "add", "pad", "cpu"}
SameOps == {"conv_same", "pad"}
PoolOps == {"avgpool", "pad"}
OnePad == {<<0, 1>>, <<1, 1>>}
BothPad == {<<1, 1>>}
====

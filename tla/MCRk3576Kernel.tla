---- MODULE MCRk3576Kernel ----
(* TLC instance of Rk3576Kernel: every kind of layer. *)
EXTENDS Rk3576Kernel

AllKinds == {"conv", "add", "concat"}
====

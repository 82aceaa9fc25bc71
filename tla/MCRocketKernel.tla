---- MODULE MCRocketKernel ----
(* TLC instances of RocketKernel: partitions as functions from node to kind. *)
EXTENDS RocketKernel

\* One node per packing loop, the int8-out conv whose threshold moves it between
\* routes, and a host op with an NPU attempt
MixedPartition == [n \in 1 .. 4 |->
    CASE n = 1 -> "pwconv" [] n = 2 -> "i8outconv" [] n = 3 -> "fc" [] n = 4 -> "aux_npu"]
====

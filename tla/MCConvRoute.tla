----------------------------- MODULE MCConvRoute -----------------------------
(* Three planes: one on the matmul's alignment below the writer's threshold,  *)
(* one off the alignment, one aligned and above the threshold.  The default   *)
(* options, and each switched off in turn.                                    *)
EXTENDS ConvRoute

MCShapes == {4, 6, 8}

Switches == {"native_int8", "dw_perc", "direct_i8out", "direct_perc", "mm_int8"}

MCOptionSets ==
    { [s \in Switches \cup {"pw_i8out_min_m"} |->
          IF s = "pw_i8out_min_m" THEN m ELSE s # off] :
      off \in Switches \cup {"none"}, m \in {0, 6} }
=============================================================================

------------------------------ MODULE ConvRoute ------------------------------
(***************************************************************************)
(* One convolution of an RK3588 partition, from the gate to the result     *)
(* (rocket_delegate.cpp).  analyze_conv claims it for the shape of the     *)
(* model and fixes its route flags; pack_weights packs, once, what those   *)
(* flags will need; Prepare packs resident matmul weights for the live     *)
(* shape; eval_node picks the route again, from the flags and the live     *)
(* shape, and reads what was packed.  An input resize comes between.       *)
(*                                                                         *)
(* The library's planners are external and pure: plans says which of its   *)
(* programs take the convolution at each shape.  A shape is the number of  *)
(* pixels IH*IW; OH*OW, which i8_perc compares, is taken to be the same,   *)
(* as it is wherever a later test compares it again (a 1x1 of stride 1).   *)
(***************************************************************************)
EXTENDS Integers

CONSTANTS
    Shapes,         \* the values of IH*IW an input may be resized to
    OptionSets      \* the option sets to consider

ASSUME ShapesAssumption == Shapes \subseteq Nat \ {0} /\ Shapes # {}

VARIABLES
    conv,           \* what the model says of the convolution
    opts,           \* the RocketOptions that steer it
    plans,          \* for each shape, the library programs that take it
    device,         \* whether an NPU opened
    shape,          \* the live IH*IW
    claimed_at,     \* the shape analyze_conv saw, 0 before
    flags,          \* the route flags of ConvNode
    packed,         \* the host operands pack_weights made
    mm_w, mm_M,     \* the fp16 resident weights (mm_w), or the int8 ones (mm_w_i8)
    stage, route, status

route_vars == <<conv, opts, plans, device, shape, claimed_at, flags, packed, mm_w, mm_M,
          stage, route, status>>

\* aligned: IC%32 = 0 and OC%16 = 0; centred: every filter zero point is the
\* symmetric one, 0 for int8 and 128 for uint8; zp_ok: in_zp fits its type.  The conv
\* has a bias.
Convs == [dw : BOOLEAN, types : {"float", "i8", "u8", "mixed"}, w_per_tensor : BOOLEAN,
          centred : BOOLEAN, zp_ok : BOOLEAN, pointwise : BOOLEAN, aligned : BOOLEAN]

Options == [native_int8 : BOOLEAN, dw_perc : BOOLEAN, direct_i8out : BOOLEAN,
            direct_perc : BOOLEAN, mm_int8 : BOOLEAN, pw_i8out_min_m : Nat]

ASSUME OptionsAssumption == OptionSets \subseteq Options

\* The planner of the fp16 conv, and that of the special program for its kind
Programs == {"conv", "special"}

NoFlags == [native |-> FALSE, native_u8 |-> FALSE, native_dw |-> FALSE, dw_perc |-> FALSE,
            u8_i8out |-> FALSE, i8_perc |-> FALSE]
Flags == [native : BOOLEAN, native_u8 : BOOLEAN, native_dw : BOOLEAN, dw_perc : BOOLEAN,
          u8_i8out : BOOLEAN, i8_perc : BOOLEAN]

Routes == {"none", "matmul_i8", "i8_perc", "native", "u8_i8out", "native_u8", "native_dw",
           "matmul", "general"}

IsQuant == conv.types # "float"
Aligned(M) == M % 4 = 0 /\ M >= 4

-----------------------------------------------------------------------------
(* analyze_conv.                                                           *)

mm_ok == ~conv.dw /\ ~IsQuant /\ conv.pointwise /\ conv.aligned /\ Aligned(shape)
conv_ok == "conv" \in plans[shape]
special_ok == "special" \in plans[shape]

\* Mutant: the per-channel entry is not asked whether it takes the shape
FlagsUnplanned ==
    LET n == opts.native_int8 /\ ~conv.dw /\ conv.types = "i8" /\ conv.centred /\ conv.zp_ok
    IN  [NoFlags EXCEPT !.native = n,
                        !.i8_perc = opts.direct_perc /\ n /\ ~conv.w_per_tensor]

\* Mutant: the per-channel entry is chosen for a filter that is not symmetric
FlagsUncentred ==
    LET on == opts.native_int8 /\ conv.zp_ok /\ ~conv.dw
    IN  [NoFlags EXCEPT !.native = on /\ conv.types = "i8" /\ conv.centred,
                        !.native_u8 = on /\ conv.types = "u8",
                        !.i8_perc = opts.direct_perc /\ on /\ conv.types = "i8"
                                    /\ ~conv.w_per_tensor /\ special_ok]

\* The flags analyze_conv sets when it fills a ConvNode at the live shape
RouteFlags ==
    LET on == opts.native_int8 /\ conv.zp_ok
        native == on /\ ~conv.dw /\ conv.types = "i8" /\ conv.centred
        native_u8 == on /\ ~conv.dw /\ conv.types = "u8"
        dw == on /\ conv.dw /\ conv.types \in {"i8", "u8"} /\ special_ok
        perc == dw /\ opts.dw_perc /\ conv.types = "i8" /\ ~conv.w_per_tensor /\ conv.centred
        large == opts.pw_i8out_min_m <= 0 \/ shape >= opts.pw_i8out_min_m
    IN  [native |-> native,
         native_u8 |-> native_u8,
         native_dw |-> (dw /\ conv.w_per_tensor) \/ perc,
         dw_perc |-> perc,
         u8_i8out |-> opts.direct_i8out /\ native_u8 /\ conv.w_per_tensor /\ special_ok,
         i8_perc |-> opts.direct_perc /\ native /\ ~conv.w_per_tensor /\ large /\ special_ok]

-----------------------------------------------------------------------------
(* pack_weights and the resident packs of Prepare.                         *)

\* Mutant: a filter the int8-out entries read gets no bias of its own
OperandsNoBias ==
    IF flags.native THEN {"w_i8", "eff_bias"}
    ELSE IF flags.native_u8 THEN {"w_i8_128", "eff_bias_u8"}
    ELSE IF flags.native_dw THEN {IF conv.types = "u8" THEN "w_i8_128" ELSE "w_i8"}
    ELSE {"w"} \cup (IF IsQuant THEN {"bias_f"} ELSE {})

\* What pack_weights leaves in the ConvNode; a filter recentered by 128 is told
\* from a raw one, and so are the two ways a bias is folded
Operands ==
    IF flags.native
    THEN {"w_i8", "eff_bias"} \cup (IF flags.i8_perc THEN {"bias_q"} ELSE {})
    ELSE IF flags.native_u8
    THEN {"w_i8_128", "eff_bias_u8"} \cup (IF flags.u8_i8out THEN {"bias_q"} ELSE {})
    ELSE IF flags.native_dw
    THEN {IF conv.types = "u8" THEN "w_i8_128" ELSE "w_i8", "bias_q"}
    ELSE {"w"} \cup (IF IsQuant THEN {"bias_f"} ELSE {})

conv_is_matmul == ~conv.dw /\ ~IsQuant /\ conv.pointwise /\ conv.aligned /\ Aligned(shape)

conv_is_matmul_i8 ==
    /\ ~(/\ opts.pw_i8out_min_m > 0 /\ shape >= opts.pw_i8out_min_m
         /\ flags.u8_i8out \/ flags.i8_perc)
    /\ flags.native \/ flags.native_u8
    /\ conv.pointwise /\ Aligned(shape)

\* The two loops never want the same conv; both need a device to pack
WantResident == conv_is_matmul \/ (conv_is_matmul_i8 /\ opts.mm_int8 /\ device)

\* Mutant: weights of another shape are kept
KeepsAnyShape == mm_w /\ WantResident

KeepsResident == mm_w /\ WantResident /\ mm_M = shape

-----------------------------------------------------------------------------
(* eval_node.                                                              *)

OnMatmul == mm_w /\ mm_M = shape

\* The first block of eval_node whose test holds
EvalRoute ==
    IF (flags.native \/ flags.native_u8) /\ OnMatmul THEN "matmul_i8"
    ELSE IF flags.native THEN IF flags.i8_perc THEN "i8_perc" ELSE "native"
    ELSE IF flags.native_u8 THEN IF flags.u8_i8out THEN "u8_i8out" ELSE "native_u8"
    ELSE IF flags.native_dw THEN "native_dw"
    ELSE IF ~IsQuant /\ OnMatmul THEN "matmul"
    ELSE "general"

\* What the block a route names reads of the packed operands
Reads(r) ==
    LET u8 == flags.native_u8 IN
    IF r \in {"matmul_i8", "native", "native_u8"}
    THEN IF u8 THEN {"w_i8_128", "eff_bias_u8"} ELSE {"w_i8", "eff_bias"}
    ELSE IF r \in {"i8_perc", "u8_i8out", "native_dw"}
    THEN {IF conv.types = "u8" THEN "w_i8_128" ELSE "w_i8", "bias_q"}
    ELSE {"w"} \cup (IF IsQuant THEN {"bias_f"} ELSE {})

\* Whether the library refuses the descriptor a route builds.  The native
\* depthwise and the uint8 int8-out blocks ask the planner themselves; any other
\* program's refusal is its call's return, and the CPU oracle refuses nothing.
Refuses(r) ==
    CASE r \in {"u8_i8out", "native_dw"} -> ~special_ok
      [] r = "i8_perc" -> device /\ ~special_ok
      [] r \in {"native", "native_u8", "general"} -> device /\ ~conv_ok
      [] OTHER -> FALSE

-----------------------------------------------------------------------------
RouteInit ==
    /\ conv \in {c \in Convs :
            /\ c.dw => ~c.pointwise
            /\ c.types \in {"float", "mixed"} => c.w_per_tensor /\ c.centred /\ c.zp_ok
            /\ c.aligned => c.types = "float" /\ c.pointwise}
    /\ opts \in OptionSets
    /\ plans \in [Shapes -> {{}, {"conv"}, Programs}]
    /\ device \in BOOLEAN
    /\ shape \in Shapes
    /\ claimed_at = 0 /\ flags = NoFlags /\ packed = {}
    /\ mm_w = FALSE /\ mm_M = 0
    /\ stage = "model" /\ route = "none" /\ status = "none"

\* The gate, and Init's second call of it with a ConvNode to fill
Claim ==
    /\ stage = "model"
    /\ mm_ok \/ conv_ok
    /\ claimed_at' = shape
    /\ flags' = IF IsQuant THEN RouteFlags ELSE NoFlags
    /\ stage' = "loaded"
    /\ UNCHANGED <<conv, opts, plans, device, shape, packed, mm_w, mm_M, route, status>>

\* External: the interpreter resizes an input, and prepares again
Resize ==
    /\ stage \in {"loaded", "ready"}
    /\ shape' \in Shapes
    /\ stage' = "loaded" /\ route' = "none" /\ status' = "none"
    /\ UNCHANGED <<conv, opts, plans, device, claimed_at, flags, packed, mm_w, mm_M>>

\* Filters once, then the resident packs: kept, dropped, made or not
Prepare ==
    /\ stage = "loaded"
    /\ packed' = IF packed = {} THEN Operands ELSE packed
    /\ \/ KeepsResident /\ UNCHANGED <<mm_w, mm_M>>
       \/ ~KeepsResident /\ WantResident /\ device /\ mm_w' = TRUE /\ mm_M' = shape
       \/ ~KeepsResident /\ mm_w' = FALSE /\ mm_M' \in {mm_M, shape}
    /\ stage' = "ready"
    /\ UNCHANGED <<conv, opts, plans, device, shape, claimed_at, flags, route, status>>

\* One inference of the live shape (another is the same again); a device may also
\* fail the call of its own accord
Eval ==
    /\ stage = "ready" /\ status = "none"
    /\ route' = EvalRoute
    /\ \/ status' = IF Refuses(EvalRoute) THEN "refused" ELSE "done"
       \/ device /\ status' = "failed"
    /\ UNCHANGED <<conv, opts, plans, device, shape, claimed_at, flags, packed, mm_w, mm_M,
                   stage>>

RouteNext == Claim \/ Resize \/ Prepare \/ Eval

RouteSpec == RouteInit /\ [][RouteNext]_route_vars

-----------------------------------------------------------------------------
\* The state's shape: the two int8 entries refine a native route each, the
\* per-channel depthwise refines native_dw, and no two native routes meet
\* (the fields of ConvNode).
RouteTypeOK ==
    /\ conv \in Convs /\ opts \in OptionSets /\ device \in BOOLEAN
    /\ plans \in [Shapes -> SUBSET Programs]
    /\ shape \in Shapes /\ claimed_at \in Shapes \cup {0}
    /\ flags \in Flags
    /\ flags.i8_perc => flags.native
    /\ flags.u8_i8out => flags.native_u8
    /\ flags.dw_perc => flags.native_dw
    /\ \A f, g \in {"native", "native_u8", "native_dw"} : flags[f] /\ flags[g] => f = g
    /\ mm_w \in BOOLEAN /\ mm_M \in Shapes \cup {0}
    /\ stage \in {"model", "loaded", "ready"}
    /\ route \in Routes /\ status \in {"none", "done", "refused", "failed"}

\* What the next inference reads was packed, under the recentring and the bias
\* folding its route expects: the flags were set for one shape, the operands packed
\* at another, and the route picked at a third (ConvNode, pack_weights, eval_node).
OperandsPacked == stage = "ready" => Reads(EvalRoute) \subseteq packed

\* Prepare's test for a general fp16 conv, by which it leaves tensors in fp16 NCHW,
\* agrees with the block eval_node will take, the only one that looks there.
ResidencyAgrees ==
    stage = "ready" =>
        LET general == ~mm_w /\ ~flags.native /\ ~flags.native_dw /\ ~flags.native_u8
        IN  general <=> EvalRoute = "general"

\* "IsNodeSupportedByDelegate never claims a node Init can't run": back at the shape
\* the gate saw, whatever the resizes in between left packed, no block of eval_node
\* builds a program the planner refuses.  A conv only the matmul took is promised
\* this only while its resident weights are there.
RunsAsClaimed ==
    stage = "ready" /\ shape = claimed_at /\ (conv_ok \/ mm_w) => ~Refuses(EvalRoute)
=============================================================================

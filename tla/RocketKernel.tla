---------------------------- MODULE RocketKernel ----------------------------
(***************************************************************************)
(* The life of one RK3588 partition kernel (RocketKernel in                *)
(* rocket_delegate.cpp): Prepare opens the device once and packs resident  *)
(* matmul weights, again after every resize; Eval runs the nodes on the    *)
(* route Prepare left them; the destructor frees what the driver holds.    *)
(* TFLite's interpreter, external, calls the entry points one at a time,   *)
(* resizes inputs between calls, and never invokes after a failed Prepare. *)
(*                                                                         *)
(* Kinds of node, by what the entry points tell apart:                     *)
(*   pwconv      float 1x1 conv with IC%32 = 0 and OC%16 = 0               *)
(*   i8conv      native 1x1 conv on the int32-raw route                    *)
(*   i8outconv   native 1x1 conv the int8-out direct writer may take       *)
(*   conv        any other conv route (general fp16, depthwise)            *)
(*   fc          FULLY_CONNECTED                                           *)
(*   aux_npu     a host op whose *_npu option is on                        *)
(*   aux_host    every other host op                                       *)
(***************************************************************************)
EXTENDS Integers

CONSTANTS
    NumNodes,       \* nodes_.size()
    Kind,           \* the kind of each node
    Planes,         \* the values IH*IW of a conv input may take
    Batches,        \* the values M of a FULLY_CONNECTED input may take
    NativeInt8,     \* option native_int8: without it no conv is native
    FcNpu,          \* option fc_npu
    MmInt8,         \* option mm_int8
    PwMinM,         \* option pw_i8out_min_m
    MaxEvals        \* bound: invokes in a behaviour

Kinds == {"pwconv", "i8conv", "i8outconv", "conv", "fc", "aux_npu", "aux_host"}
Nodes == 1 .. NumNodes

ASSUME NumNodesAssumption == NumNodes \in Nat \ {0}
ASSUME KindAssumption == Kind \in [Nodes -> Kinds]
ASSUME ShapesAssumption == Planes \subseteq Nat \ {0} /\ Batches \subseteq Nat \ {0}
ASSUME OptionsAssumption ==
    /\ FcNpu \in BOOLEAN /\ MmInt8 \in BOOLEAN /\ NativeInt8 \in BOOLEAN /\ PwMinM \in Nat
    /\ (\E n \in Nodes : Kind[n] \in {"i8conv", "i8outconv"}) => NativeInt8
ASSUME BoundAssumption == MaxEvals \in Nat

VARIABLES
    device,         \* whether there is an NPU to open: fixed, not kernel state
    plane,          \* the live plane TFLite resolved
    f_M,            \* FCNode::M, captured by Init
    phase, i,       \* the entry point running, and the node its loop is at
    fd,             \* fd_ with opened_: "unopened", "open", "absent", "closed"
    mm_ctx, mm_i8_ctx, conv_ctx, conv_pool,
    packed,         \* the convs whose filter is packed
    mm_w,           \* mm_w / mm_w_i8 is not null, per node
    mm_M,           \* the M those weights were packed for, per node
    bos,            \* driver side: resident weight objects alive, per node
    npu_ran,        \* npu_ran_
    ops_npu, ops_host,      \* the process-wide counters
    evals           \* invokes so far

shape == <<device, plane, f_M>>
driver == <<fd, mm_ctx, mm_i8_ctx, conv_ctx, conv_pool>>
weights == <<packed, mm_w, mm_M, bos>>
counts == <<npu_ran, ops_npu, ops_host, evals>>
vars == <<shape, phase, i, driver, weights, counts>>

CtxStates == {"null", "live", "freed"}
Preparing == {"pack", "mm", "fc", "i8", "store"}
Destroying == {"dtor_w", "dtor_mm", "dtor_w8", "dtor_i8", "dtor_conv", "dtor_fd", "gone"}
Phases == {"loaded", "failed", "ready", "eval"} \cup Preparing \cup Destroying

-----------------------------------------------------------------------------
(* Routing predicates.                                                     *)

IsConv(n) == Kind[n] \in {"pwconv", "i8conv", "i8outconv", "conv"}
IsI8(n) == Kind[n] \in {"i8conv", "i8outconv"}

Aligned(m) == m % 4 = 0 /\ m >= 4

conv_is_matmul(n) == Kind[n] = "pwconv" /\ Aligned(plane)

conv_is_matmul_i8(n) ==
    /\ ~(PwMinM > 0 /\ plane >= PwMinM /\ Kind[n] = "i8outconv")
    /\ IsI8(n)
    /\ Aligned(plane)

\* Mutant: the option and the shape decide, whether or not a device opened
fc_wants_by_option(n) == Kind[n] = "fc" /\ FcNpu /\ f_M % 4 = 0

fc_wants_npu(n) == Kind[n] = "fc" /\ FcNpu /\ fd = "open" /\ f_M % 4 = 0

Want(n) == conv_is_matmul(n) \/ conv_is_matmul_i8(n) \/ fc_wants_npu(n)

\* The M a node's resident weights are packed and looked up for
LiveM(n) == IF Kind[n] = "fc" THEN f_M ELSE plane

\* The context a node's weights live on
CtxOf(n) == IF IsI8(n) THEN mm_i8_ctx ELSE mm_ctx

\* The packing loops of Prepare, and the nodes each is about
InLoop(loop, n) ==
    \/ loop = "mm" /\ Kind[n] = "pwconv"
    \/ loop = "fc" /\ Kind[n] = "fc"
    \/ loop = "i8" /\ IsI8(n)

\* Eval's test for the resident matmul
OnMatmul(n) == mm_w[n] /\ mm_M[n] = LiveM(n)

-----------------------------------------------------------------------------
\* The kernel as rocket_kernel_init leaves it
Init ==
    /\ device \in BOOLEAN
    /\ plane \in Planes
    /\ f_M \in Batches
    /\ \A n \in Nodes : Kind[n] = "fc" => (f_M % 4 = 0 \/ f_M = 1)
    /\ phase = "loaded" /\ i = 0
    /\ fd = "unopened"
    /\ mm_ctx = "null" /\ mm_i8_ctx = "null" /\ conv_ctx = "null" /\ conv_pool = "null"
    /\ packed = {}
    /\ mm_w = [n \in Nodes |-> FALSE]
    /\ mm_M = [n \in Nodes |-> 0]
    /\ bos = [n \in Nodes |-> 0]
    /\ npu_ran = FALSE
    /\ ops_npu = 0 /\ ops_host = 0
    /\ evals = 0

\* External: the interpreter resolves new input shapes; it prepares before it invokes
Resize ==
    /\ phase \in {"loaded", "failed", "ready"}
    /\ plane' \in Planes
    /\ phase' = "loaded"
    /\ UNCHANGED <<device, f_M, i, driver, weights, counts>>

-----------------------------------------------------------------------------
(* Prepare: open the device once, then one loop over nodes_ per concern.   *)

AfterLoop(loop) ==
    IF loop = "pack" THEN "mm" ELSE IF loop = "mm" THEN "fc"
    ELSE IF loop = "fc" THEN "i8" ELSE "store"

\* Mutant: the loops run one node past the end
AdvancePast ==
    IF i <= NumNodes THEN i' = i + 1 /\ phase' = phase
                     ELSE i' = 1 /\ phase' = AfterLoop(phase)

Advance ==
    IF i < NumNodes THEN i' = i + 1 /\ phase' = phase
                    ELSE i' = 1 /\ phase' = AfterLoop(phase)

\* rocket_open may fail where there is an NPU, and opened_ remembers that it did:
\* no later Prepare tries again
PrepareBegin ==
    /\ phase \in {"loaded", "failed", "ready"}
    /\ phase' = "pack" /\ i' = 1
    /\ IF fd # "unopened" THEN UNCHANGED driver
       ELSE /\ fd' \in IF device THEN {"open", "absent"} ELSE {"absent"}
            /\ conv_ctx' \in {"null", "live"}
            /\ conv_pool' \in IF fd' = "open" /\ NativeInt8 THEN {"null", "live"} ELSE {"null"}
            /\ UNCHANGED <<mm_ctx, mm_i8_ctx>>
    /\ UNCHANGED <<shape, weights, counts>>

\* pack_weights for a conv not packed yet, which a missing constant makes fail
PackFilter ==
    /\ phase = "pack"
    /\ \/ /\ packed' = IF IsConv(i) THEN packed \cup {i} ELSE packed
          /\ Advance
       \/ /\ IsConv(i) /\ i \notin packed
          /\ phase' = "failed"
          /\ UNCHANGED <<packed, i>>
    /\ UNCHANGED <<shape, driver, mm_w, mm_M, bos, counts>>

\* The loops skip the nodes of other kinds, and the int8 loop is gated as a whole
Treats(loop, n) == InLoop(loop, n) /\ (loop = "i8" => MmInt8 /\ fd = "open")

SkipResident ==
    /\ phase \in {"mm", "fc", "i8"} /\ ~Treats(phase, i)
    /\ Advance
    /\ UNCHANGED <<shape, driver, weights, counts>>

\* Mutant: a resize is noticed only where it changes the route
StaleUnwanted(n) == mm_w[n] /\ ~Want(n)

\* Weights packed for another M, or for a node that no longer wants them
Stale(n) == mm_w[n] /\ (~Want(n) \/ mm_M[n] # LiveM(n))

\* A stale weight is freed; what is left is kept or nothing is wanted
DropResident ==
    /\ phase \in {"mm", "fc", "i8"} /\ Treats(phase, i)
    /\ Want(i) => mm_w[i] /\ ~Stale(i)
    /\ mm_w' = [mm_w EXCEPT ![i] = mm_w[i] /\ ~Stale(i)]
    /\ bos' = [bos EXCEPT ![i] = IF Stale(i) THEN @ - 1 ELSE @]
    /\ Advance
    /\ UNCHANGED <<shape, driver, packed, mm_M, counts>>

\* A stale weight is freed, the context is created if there is none, and the
\* weights are packed when the device and its scratch allow: best effort.  The
\* context opens descriptors of its own, so the fp16 loop, which no test of fd_
\* guards, may pack after a failed open.  The M is noted whatever the outcome.
PackResident ==
    /\ phase \in {"mm", "fc", "i8"} /\ Treats(phase, i)
    /\ Want(i) /\ (mm_w[i] => Stale(i))
    /\ \E ctx \in IF CtxOf(i) = "null" THEN {"null", "live"} ELSE {CtxOf(i)}, ok \in BOOLEAN :
         /\ ok => ctx = "live" /\ device
         /\ IF IsI8(i) THEN mm_i8_ctx' = ctx /\ mm_ctx' = mm_ctx
                       ELSE mm_ctx' = ctx /\ mm_i8_ctx' = mm_i8_ctx
         /\ mm_w' = [mm_w EXCEPT ![i] = ok]
         /\ mm_M' = [mm_M EXCEPT ![i] = IF ctx = "live" THEN LiveM(i) ELSE @]
         /\ bos' = [bos EXCEPT ![i] = @ - (IF mm_w[i] THEN 1 ELSE 0) + (IF ok THEN 1 ELSE 0)]
    /\ Advance
    /\ UNCHANGED <<shape, fd, conv_ctx, conv_pool, packed, counts>>

\* A FULLY_CONNECTED whose weight tensor has no data fails Prepare after the drop
FcNoData ==
    /\ phase = "fc" /\ Treats(phase, i)
    /\ Want(i) /\ (mm_w[i] => Stale(i))
    /\ mm_w' = [mm_w EXCEPT ![i] = FALSE]
    /\ bos' = [bos EXCEPT ![i] = @ - (IF mm_w[i] THEN 1 ELSE 0)]
    /\ phase' = "failed"
    /\ UNCHANGED <<shape, i, driver, packed, mm_M, counts>>

\* The internal buffers are sized, or one has no size
StoreBuffers ==
    /\ phase = "store"
    /\ phase' \in {"ready", "failed"}
    /\ UNCHANGED <<shape, i, driver, weights, counts>>

-----------------------------------------------------------------------------
(* Eval.                                                                   *)

EvalBegin ==
    /\ phase = "ready" /\ evals < MaxEvals
    /\ phase' = "eval" /\ i' = 1 /\ evals' = evals + 1
    /\ UNCHANGED <<shape, driver, weights, npu_ran, ops_npu, ops_host>>

\* Where a node may run.  A conv has no host fallback: its resident matmul runs on
\* the descriptors of mm_ctx; else the NPU computes it, or the driver's CPU oracle
\* when fd_ is not open.  An error is final.
OnNpu(n) ==
    \/ IsConv(n) /\ (OnMatmul(n) \/ fd = "open")
    \/ Kind[n] = "fc" /\ OnMatmul(n)
    \/ Kind[n] = "aux_npu" /\ fd = "open"

NextNode ==
    IF i < NumNodes THEN i' = i + 1 /\ phase' = phase ELSE i' = 1 /\ phase' = "ready"

\* Eval's tally of the node that just completed: a conv counts by the kernel's own
\* descriptor, whichever descriptors its matmul ran on
Count ==
    LET on_npu == (IsConv(i) /\ fd = "open") \/ npu_ran' IN
    /\ ops_npu' = IF on_npu THEN ops_npu + 1 ELSE ops_npu
    /\ ops_host' = IF on_npu THEN ops_host ELSE ops_host + 1

EvalOnNpu ==
    /\ phase = "eval" /\ OnNpu(i)
    /\ npu_ran' = ~IsConv(i)
    /\ Count /\ NextNode
    /\ UNCHANGED <<shape, driver, weights, evals>>

\* The host kernel or the CPU oracle, after a refused NPU attempt included
EvalOnHost ==
    /\ phase = "eval" /\ (IsConv(i) => ~OnNpu(i))
    /\ npu_ran' = FALSE
    /\ Count /\ NextNode
    /\ UNCHANGED <<shape, driver, weights, evals>>

\* A shape check or a conv's driver call fails: Eval returns, the node uncounted
EvalError ==
    /\ phase = "eval"
    /\ npu_ran' = FALSE
    /\ phase' = "ready"
    /\ UNCHANGED <<shape, i, driver, weights, ops_npu, ops_host, evals>>

-----------------------------------------------------------------------------
(* ~RocketKernel, from any state the interpreter may free the node in.     *)

FreeCtx(ctx) == IF ctx = "live" THEN "freed" ELSE ctx

\* Mutant: the int8 weights are forgotten
FreeFp16Weights(on_i8) ==
    bos' = [n \in Nodes |-> IF ~on_i8 /\ ~IsI8(n) /\ mm_w[n] THEN bos[n] - 1 ELSE bos[n]]

FreeWeights(on_i8) ==
    bos' = [n \in Nodes |-> IF IsI8(n) = on_i8 /\ mm_w[n] THEN bos[n] - 1 ELSE bos[n]]

\* Mutant: the context is freed before the weights on it
DtorContextFirst ==
    /\ phase \in {"loaded", "failed", "ready"}
    /\ phase' = "dtor_mm"
    /\ UNCHANGED <<shape, i, driver, weights, counts>>

DtorBegin ==
    /\ phase \in {"loaded", "failed", "ready"}
    /\ phase' = "dtor_w"
    /\ UNCHANGED <<shape, i, driver, weights, counts>>

DtorWeights ==
    /\ phase = "dtor_w" /\ phase' = "dtor_mm"
    /\ FreeWeights(FALSE)
    /\ UNCHANGED <<shape, i, driver, packed, mm_w, mm_M, counts>>

DtorMmCtx ==
    /\ phase = "dtor_mm" /\ phase' = "dtor_w8"
    /\ mm_ctx' = FreeCtx(mm_ctx)
    /\ UNCHANGED <<shape, i, fd, mm_i8_ctx, conv_ctx, conv_pool, weights, counts>>

DtorI8Weights ==
    /\ phase = "dtor_w8" /\ phase' = "dtor_i8"
    /\ FreeWeights(TRUE)
    /\ UNCHANGED <<shape, i, driver, packed, mm_w, mm_M, counts>>

DtorI8Ctx ==
    /\ phase = "dtor_i8" /\ phase' = "dtor_conv"
    /\ mm_i8_ctx' = FreeCtx(mm_i8_ctx)
    /\ UNCHANGED <<shape, i, fd, mm_ctx, conv_ctx, conv_pool, weights, counts>>

DtorConv ==
    /\ phase = "dtor_conv" /\ phase' = "dtor_fd"
    /\ conv_ctx' = FreeCtx(conv_ctx) /\ conv_pool' = FreeCtx(conv_pool)
    /\ UNCHANGED <<shape, i, fd, mm_ctx, mm_i8_ctx, weights, counts>>

DtorClose ==
    /\ phase = "dtor_fd" /\ phase' = "gone"
    /\ fd' = IF fd = "open" THEN "closed" ELSE fd
    /\ UNCHANGED <<shape, i, mm_ctx, mm_i8_ctx, conv_ctx, conv_pool, weights, counts>>

PrepareStep == \/ PrepareBegin \/ PackFilter \/ SkipResident \/ DropResident
               \/ PackResident \/ FcNoData \/ StoreBuffers
EvalStep == EvalBegin \/ EvalOnNpu \/ EvalOnHost \/ EvalError
DtorStep == \/ DtorBegin \/ DtorWeights \/ DtorMmCtx \/ DtorI8Weights
            \/ DtorI8Ctx \/ DtorConv \/ DtorClose

Next == Resize \/ PrepareStep \/ EvalStep \/ DtorStep

Spec == Init /\ [][Next]_vars

-----------------------------------------------------------------------------
\* The state's shape.
TypeOK ==
    /\ device \in BOOLEAN /\ plane \in Planes /\ f_M \in Batches
    /\ phase \in Phases /\ i \in 0 .. NumNodes
    /\ phase \in (Preparing \ {"store"}) \cup {"eval"} => i \in Nodes
    /\ fd \in {"unopened", "open", "absent", "closed"}
    /\ {mm_ctx, mm_i8_ctx, conv_ctx, conv_pool} \subseteq CtxStates
    /\ packed \subseteq Nodes
    /\ mm_w \in [Nodes -> BOOLEAN]
    /\ mm_M \in [Nodes -> Nat]
    /\ bos \in [Nodes -> {0, 1}]
    /\ npu_ran \in BOOLEAN
    /\ {ops_npu, ops_host, evals} \subseteq Nat

\* The driver's weight objects are exactly the ones the kernel points at, until
\* the destructor takes them; none outlives the context it lives on, nor the
\* conv buffers the descriptor they were made on (the order in ~RocketKernel,
\* through any number of resizes, failed packs and failed Prepares).
ResourcesOwned ==
    /\ phase \notin Destroying => \A n \in Nodes : bos[n] = IF mm_w[n] THEN 1 ELSE 0
    /\ \A n \in Nodes : bos[n] > 0 => CtxOf(n) = "live"
    /\ conv_ctx = "live" => fd \in {"open", "absent"}
    /\ conv_pool = "live" => fd = "open"

\* Once the destructor is done the driver holds nothing of this kernel's.
NothingLeaks ==
    phase = "gone" =>
        /\ \A n \in Nodes : bos[n] = 0
        /\ "live" \notin {mm_ctx, mm_i8_ctx, conv_ctx, conv_pool}
        /\ fd # "open"

\* An inference starts with every conv's filter packed, and the resident weights
\* there are belong to nodes whose live shape still wants them, packed for that
\* shape: what a resize left over was dropped (Prepare's stale checks).
EvalReady ==
    phase \in {"ready", "eval"} =>
        /\ \A n \in Nodes : IsConv(n) => n \in packed
        /\ \A n \in Nodes : mm_w[n] => Want(n) /\ OnMatmul(n)

\* A kernel whose one open failed, or that has not opened yet, reports no NPU work
\* and keeps FULLY_CONNECTED and the int8 matmul off the NPU for good, across every
\* re-Prepare, even where mm_ctx, which opens descriptors of its own, comes up.  A
\* float 1x1 conv is the exception: nothing gates its packing loop on fd_.
NoDeviceNoNpuWork ==
    fd \in {"unopened", "absent"} =>
        /\ ops_npu = 0
        /\ \A n \in Nodes : mm_w[n] => Kind[n] = "pwconv"
=============================================================================

# A TLA+ project for tflite-rocket

tflite-rocket is a TensorFlow Lite external delegate that runs operators on
the Rockchip NPUs. `rocket_delegate.cpp` holds the delegate and the RK3588
partition kernel, `rocket_rk3576_net.h` the RK3576 graph path, `rocket_convert.h`
and `rocket_ops.h` the layout, requantisation and host operator code. TFLite and
the driver library (`rocket_*` calls, planners included) are outside the
repository; they appear as the environment of the modules, constrained by what
the code relies on.

`PROJECT.json` lists the runs, the source lines of every definition, the hazards
and, for every checked property, a mutation of the model that breaks it.

## 1. Inventory

| component | state it keeps | operations | what is hard | what makes it correct |
|---|---|---|---|---|
| Delegate entry points (`rocket_delegate.cpp` 3784–4008) | options; three process-wide counts | create, destroy, Prepare (claim, hand nodes to TFLite), kernel registration, `rocket_delegate_counts` | option parsing at its bounds; the same gate called twice, for the claim and for Init | what is claimed is what a kernel can be built for: §3 AuxNode |
| RK3588 claim gates (479–1839) | none: predicates over the model's tensors | `analyze_conv`, `analyze_fc`, seventeen more | shape and type corner cases; runtime tensors; agreement with Eval | a claimed node runs, and is answered as TFLite means it: §3 ConvRoute, AuxNode |
| RK3588 partition kernel (1905–3766) | `fd_`, contexts, pool, resident weights per node, buffers, residency sets | Init, Prepare, Eval, destructor | re-preparation after a resize; packs that fail; order of teardown; fallbacks; tensors the kernel stores itself | §3 RocketKernel, Residency |
| one convolution (479–689, 2328–2352, 2542–3121) | route flags, packed operands, resident weights | claim, pack, route, run | flags fixed at load, weights packed once, route picked per inference | §3 ConvRoute |
| row fan-out (1841–1902) | none across calls | `parallel_oh` | band arithmetic; references into the caller's frame; a spawn that throws | §3 FanOut |
| exposure probe (1849–1875, 1883, 1895–1902) | a plain int, an atomic flag, two tallies | `po_probe_on`, `po_probe_dump` | interpreters on several threads | §3 FanOut |
| RK3576 claim and lowering (`rocket_rk3576_net.h` 80–645, 888–1128) | claimed set, layers, folded pads | `build_claim`, `Kernel::Init` | a fixpoint over the graph; a PAD that is a layer nowhere | §3 Rk3576Claim |
| RK3576 graph kernel (575–885, 1049–1139) | handles, plan, row-major buffers, descriptor | Prepare, Eval, destructor | results left in the device's layout; kicks over several layers; a plan that borrows handles | §3 Rk3576Kernel |
| host operators (`rocket_ops.h`, `rocket_delegate.cpp` 3155–3766) | none but what Init captured | the `eval_*` functions; element-wise, pooling, layout, reduction, row kernels; the NPU routes and the layouts they stage through | shapes that move after Init; odometers and strides; negative steps; windows at the border; padded matrices | the operator's definition at the live shapes, or a failed Invoke: §3 AuxNode |
| native int8/uint8 data path (`rocket_convert.h` 132–225, 630–1364) | filter, effective bias, box-sum flag of the node; buffers of the inference | pack, recentre and pad, multiply, window sums, write out | halo geometry, uneven SAME pads, four zero-point terms folded in three places, padded matmul rows | §3 NativeConv |
| float conversion (`rocket_convert.h`, the rest) | none | fp16 layout, scale, activation, rounding | float rounding, vector tails | equal to the reference loops |
| `glibc_compat.c`, `tools/`, `tests/`, `frigate/` | none | packaging and measurement | none of the program's logic | not modelled |

How they interact: TFLite calls the delegate's Prepare once per graph; that
runs the gates (or `build_claim` on an RK3576) and hands back a node set. TFLite
cuts it into partitions and creates one kernel per partition through Init. It
then calls that kernel's Prepare after each shape resolution and Eval per
inference, always from one thread per interpreter, and its destructor at
the end. Inside an Eval, `parallel_oh` forks and joins threads.
Interpreters of one process share only the counts and the probe.

## 2. Modules

| module | models | composed with |
|---|---|---|
| `RocketKernel` | lifetime of an RK3588 partition kernel | `RocketKernelProofs`, `MCRocketKernel` |
| `Residency` | internal tensors of that kernel and their layout | `ResidencyProofs`, `MCResidency` |
| `ConvRoute` | one convolution from claim to inference | `ConvProofs`, `MCConvRoute` |
| `NativeConv` | the integers of one native convolution, from the filter to the accumulator that is requantised | `ConvProofs`, `MCNativeConv` |
| `ParallelOh` | the fan-out of one call | implements `OnePass`, through `INSTANCE` |
| `OnePass` | abstract: a call that applies a function once to every row | |
| `PoolProbe` | the exposure probe under several interpreters | |
| `FanOut` | `ParallelOh` of one interpreter composed with the `PoolProbe` of all | `FanOutProofs` (and the theorems of one call), `MCFanOut` |
| `HostOps` | the host kernels as index arithmetic | |
| `TfliteOps` | external: what each operator means, coordinate by coordinate | EXTENDS `HostOps` for its terms |
| `AuxGates` | `analyze_*` of every operator but the convolutions, and what Init captures | EXTENDS `TfliteOps` |
| `AuxEval` | `eval_*` of those operators, NPU routes included | EXTENDS `AuxGates` |
| `AuxNode` | one such node from the options to the answer of an Invoke | EXTENDS `AuxEval`; `AuxNodeProofs`, `MCAuxNode` |
| `Rk3576Claim` | claim, partitioning and lowering | `Rk3576ClaimProofs`, `MCRk3576Claim` |
| `Rk3576Kernel` | the kernel that runs a lowered partition | `Rk3576KernelProofs`, `MCRk3576Kernel` |
| `IndexTheorems` | lemmas for the proofs: by induction, least elements, sums and products over finite sets, recursive functions; and the layout of tensors, over `HostOps`: offsets, odometers, which kernels keep inside | `ConvProofs`, `Rk3576ClaimProofs`, `AuxNodeProofs` |

The RK3588 modules are views of one class, split by the state a
property needs. `RocketKernel` has the driver's handles and, of shapes, the
plane; `Residency` has the graph and treats the set of nodes on the resident
matmul as an arbitrary choice of each Prepare, which covers every
combination of packs and failures `RocketKernel` can produce; `ConvRoute` has
every route of one node, and `NativeConv` what the native routes compute: its `way`
is a choice `ConvRoute` makes, over the same operands. `AuxNode` has the nodes that
hold no driver state of their own: what they compute, and at which shapes. What one assumes of another is listed in §6.

### Correspondence

*RocketKernel.* `phase` is the entry point running and, in Prepare and the
destructor, which of its loops; `i` is the loop index. `fd` merges `fd_` and
`opened_`. `mm_w[n]` says the node's `mm_w` (or `mm_w_i8`) pointer is set, `mm_M[n]`
the row count it was packed for; `bos[n]` is the driver's side, the weight
objects alive for the node. A pack may fail at will (scratch space, context
creation). `Resize` is the interpreter giving new shapes; Prepare then runs
again. `device` says there is an NPU to open. A `rocket_open` may fail all the same,
once and for all, since `opened_` remembers it; the matmul contexts open descriptors
of their own and may come up even then.

*Residency.* A partition is built node by node (`InitNode`), the partition's
outputs are then any set the interpreter may need, and `InitDone` runs the
topology guard. `written[t]` holds the storages in which the present inference
has written `t`; `val[t]` abstracts its value to exact, raw (an fp16 result not
yet rounded to its quantised grid), gain (a convolution's result from a raw one, through
operators the walk follows) and passed (a gain that went through an operator which keeps
values and ends the walk: SPLIT, RESIZE_NEAREST_NEIGHBOR or one that selects a value).

*ConvRoute.* `plans` is the library's verdict on the conv at each shape,
`flags` the booleans `analyze_conv` leaves in the `ConvNode`, `packed` the operands
`pack_weights` made, named with their recentring, and `EvalRoute` the chain of tests
in `eval_node`.

*NativeConv.* The phases are the stages of `pack_weights` and of the native blocks of
`eval_node`, and each variable is the buffer a stage fills. `way` is the route: the
raw convolution, the resident matmul, or an int8-out entry (per-tensor uint8,
per-channel int8, depthwise), which is external and takes the zero points itself.
Tensors are functions of coordinates; the transposes are then changes of argument.
`Half` stands for 128 and `Lane` for 32.

*ParallelOh / OnePass.* One step applies the band function to one row. `large` is
the work threshold. `OnePass` has a set of rows left and a flag; the refinement
mapping takes the rows not yet applied and `pc = "returned"`.

*PoolProbe.* One step per access to `g_po_probe`, `registered`, the exit list or a
tally.

*FanOut.* The first call of the interpreter `me` is followed row by row; it asks the
probe before its first spawn and tallies after its last join, as lines 1883–1899 do.
The other interpreters, and `me` afterwards, make calls of which only the probe is seen.

*HostOps, TfliteOps, AuxGates, AuxEval.* A kernel is a function from the output offsets
it writes to a term: the input offsets read together for it, and the divisor or position
that goes with them. `HostOps` computes these as the C loops do (odometers, running
strides, scatters), `TfliteOps` from coordinates; the results are compared as functions.
`AuxEval` adds the checks of the live shapes, the broadcast copies, and for the NPU
routes the transposes and padded matrices around the library call. The nearest-neighbour
coordinate is the one definition both sides share: its floating-point form has no
exact reference.

*AuxNode.* `stage` is how far TFLite got with the node, `x` what Init captured, `live`
the shapes of the moment. `Drift` is the case the layout operators' comment
(`rocket_delegate.cpp:3328`) names: a shape that moved under a dynamic operator upstream,
between two Invokes of the same kernel. The option `npu` stands for all the `*_npu` options.

*Rk3576Claim.* A model is built node by node; `Gate` is the kind gate,
`FixNode`/`FixPass` the in-place fixpoint in plan order; `Epoch` and
`PartitionOutput` are TFLite's partitioning; `InitPad`, `InitLayer`, `InitSkip`
are the loops of `Kernel::Init`. Planes have one dimension, since height and
width go through the same function.

*Rk3576Kernel.* `plan` is any result the planner contract admits: which layers
stay in the device's cube layout, which concatenations are realised by placement,
which runs of layers are one kick. `row` and `cube` are the results present in
this inference, by form.

## 3. What the runs show

| run | bounds | properties |
|---|---|---|
| `RocketKernel` | 4 nodes (one per packing loop and a host op with an NPU attempt), planes {4, 6, 8} around the alignment and the int8-out threshold, FC batches {1, 4}, one inference | `ResourcesOwned`: weight objects are exactly those pointed at, and live no longer than their context, nor the contexts than the device. `NothingLeaks`: nothing survives the destructor. `EvalReady`: an inference never starts on resident weights packed for another plane. `NoDeviceNoNpuWork`: a kernel whose open failed reports no NPU work, and keeps FULLY_CONNECTED and the int8 matmul off the NPU across every re-Prepare |
| `Residency` | every partition of 1–3 nodes over eight kinds, every output set | `ReadsFresh`: each reader looks in the storage its producer wrote in this inference. `StorageBound`: each NHWC access has a buffer. `OutputsDamped`: no output carries, through the operators the walk follows, the result of a conv fed by an unrounded one |
| `ConvRoute` | every conv description, three shapes, the default options and each switch off, every planner verdict | `OperandsPacked`: a route finds the operands it reads, in the recentring it expects. `ResidencyAgrees`: Prepare's idea of a general conv is eval_node's. `RunsAsClaimed`: back at the claimed shape, no route builds a program the planner refuses |
| `NativeConv` | bytes of two bits, every zero point, filters and inputs over the extremes of a byte, fifteen geometries: SAME and VALID, strides and dilations 1 and 2, uneven pads, 2x2 kernels, two inputs, two outputs, a depthwise, 1x1 | `AccumulatorsExact`: what is requantised is TFLite's accumulator, on the borders too. `DriverAgrees`: no inference is refused over its output size. `TapsInside`: windows and the separable sum stay in the plane |
| `FanOut` | 3 interpreters, one call each; the followed one has up to 5 rows, 4 threads; every interleaving | `RowsOnce`, `ReturnsComplete`, `ImplementsOnePass`; `ProbeAgrees`: the race on the cached probe changes no answer; `ExitReportsOnce`: the report is printed once, with every call and spawned thread in it; `Finishes` |
| `AuxNode` | a catalogue of 776 nodes, of every operator but the convolutions, with shapes on both sides of every gate; every reading of the options; one drift | `ClaimedAnswers`: a claimed node at its own shapes answers what TFLite means, by host or NPU. `DriftCaught`: at other shapes the Invoke fails or is still right, but for what `Unchecked` names. `AccessesInside`: reads and writes stay in the live tensors, also when the Invoke fails half-way, but for CONCAT and FULLY_CONNECTED at other shapes and for image operators on a tensor that became empty |
| `Rk3576Claim_fold` | every model of 1–3 nodes of VALID conv, unsupported conv, ADD, PAD, CPU op; strides 1 and 2; asymmetric and symmetric PAD | `ClaimExact`: the in-place fixpoint computes the set its comment states. `PadWithReaders`: a PAD and its readers land in one partition. `ClaimLowers`: no claimed node is refused by lowering. `OutputsHaveLayers`: some layer writes every partition output. `ClaimEnds` |
| `Rk3576Kernel` | every partition of 1–4 layers, every admissible plan, an error anywhere | `OperandsFresh`, `OutputsWritten`, `RefusalUnreached` (the refusal at the end of Prepare is the assertion its comment says), `PlanBorrows`, `LayersCounted` (each layer Eval's loop is past is counted once, alone or in a kick) |

Each module's `TypeOK` is checked once. Why the bounds suffice: the resident
state of `RocketKernel` is per node and the loops treat nodes alike, so one node of
each kind shows every interaction through the shared contexts; its theorems hold
for any number. Residency is decided by a producer and its readers, and
damping needs a producer, a resident consumer and an operator between it and the output;
three nodes hold that. An accumulator is a polynomial of degree one in each byte, each
filter byte and each zero point, so the extremes of a byte decide it, and the geometry
enters only by which taps are on the padding: the fifteen layers have windows wholly
inside, on one edge, on both, and windows that skip input. Five rows on one to four threads include bands that divide
evenly, a short last band and fewer bands than threads (5 rows on 4 threads); three
interpreters are one that registers, one that races it and one that finds the cell set.
The catalogue of `AuxNode` has for each operator every class its code tells apart: equal,
broadcast and refused shapes, each kind of strided-slice entry with both signs of the
step, windows with and without padding, integer and fractional resizes, rows that do and do not
fill the matmul's alignment. Nodes never meet there, so one node is enough; a second drift is
a first one from another live shape, and `live` only enters by its last value.
A fold involves a producer, the PAD and a reader. `N = 4` in `Rk3576Kernel` is the first
size with a placed concatenation of two layers and a reader; its one inference
is enough because `Eval` forgets every result when it begins.

`CHECK_DEADLOCK FALSE` is set except in `NativeConv`: lifetimes end (a destroyed kernel, a
returned call, a refused model) and the inference bound stops a behaviour.

### What the runs refute

* `Residency_barrier`: API.md (262–265) says that every operator but the ones the walk
  follows "is a barrier. The last convolution before an output therefore always reads a
  requantized input", and the comment at `rocket_delegate.cpp:2499` calls treating
  SPLIT as a barrier "the safe direction". The walk asks whether an output is
  reachable, so stopping answers no, and the conv stays resident. SPLIT copies values;
  RESIZE_NEAREST_NEIGHBOR gathers bytes between equal quantisations (1083–1088); a max
  pool between equal quantisations selects one. With either SPLIT or the last
  two as the only such kind the run refutes the claim; the trace is the one with SPLIT.
* `Rk3576Claim_same`: a PAD ahead of a SAME convolution is claimed, the folded
  pad replaces the SAME pad, the output size no longer matches and Init fails the
  model that would have run on the CPU.
* `Rk3576Claim_escape`: a PAD folded by all its readers that is also a model output
  is claimed; no layer writes it.
* `Rk3576Claim_average`: an average pool over a PAD divides by fewer taps than
  TFLite, for which the padded rows are part of the plane. The two `conv_same`
  and `avgpool` operators are in runs of their own for that reason, and
  `Rk3576Claim_fold` has the models without these shapes.

Further disagreements have no run. `FCNode::mm_M` is commented "resize guard"
(`rocket_delegate.cpp:445`), but is compared with the batch captured by Init, so it
guards against nothing; what a resize then does depends on whether the interpreter
keeps the kernel. The loop that packs float 1x1 convolutions (2059–2080) does not look at
`fd_`: after a failed `rocket_open` such a convolution may still be packed on `mm_ctx_`,
which opens descriptors of its own, run on the NPU, and be counted in `ops_host`, where the
comments at 95 and 2305 have a convolution without a device run on the CPU oracle.
`NoDeviceNoNpuWork` leaves this kind out. And the RK3576 Eval counts a concatenation realised by placement
in neither count (line 768), where API.md says `ops_host` "counts the rest". The comment at
`rocket_delegate.cpp:3330` promises that shapes which moved "must fail the Invoke, not
miscompute"; `AuxNode!Unchecked` lists where a kernel answers by the claimed shapes all the
same: a SLICE whose size was -1 keeps the claimed end, a strided slice its expansion, a PAD's
far border, FULLY_CONNECTED its rows, the rowwise operators their row length when the
count agrees, CUMSUM and CONCAT the axis of the claim when the rank moved, and a batch that
grew past one. CONCAT adds its extents up only
after the copies (line 3283), which is why `AccessesInside` excludes it after a drift.
The claim count is incremented (line 3891) before `ReplaceNodeSubsetsWithDelegateKernels`
can fail (3915). A zero-element RESHAPE, activation, PRELU or SLICE passes its gate and
fails its evaluation.

## 4. Fairness

Only two specifications have it. `FanOut!FanOutSpec`: each interpreter's thread
and each spawned worker is scheduled by the operating system and nothing in a band
function blocks, so weak fairness of each; and of the exit handlers, which `exit`
runs in turn. A worker waits for nobody and an interpreter only for its own workers, so no
strong fairness is needed. `Rk3576Claim`: the claim and the lowering are loops of one call, which continue
until they return. The others have none: whether an interpreter invokes again is
its own affair, and no property needs it.

## 5. Proofs

`RocketKernelProofs` proves `Typed`, `Ownership`, `Cleanup`, `Readiness` and
`NoDevice`, that is `TypeOK`, `ResourcesOwned`, `NothingLeaks`, `EvalReady` and
`NoDeviceNoNpuWork`, for every number and kind of node, every set of planes and batches
and every option. The assumptions are those of `RocketKernel`: at least one
node, positive sizes, and no native node when `native_int8` is off (which is how
`analyze_conv` sets the flags). None of the properties is inductive. `DriverInv` ties
`fd` to the phase and says resident weights exist only after the open, for the loop that
packs their kind, and after a failed open only for a float 1x1: `fc_wants_npu` and the gate
of the int8 loop are what the others need. `WeightsInv` and `FreedInv` say, for each stage of the
destructor, what has been freed: without the stages, `bos[n] > 0 => CtxOf(n) = "live"`
does not survive the freeing of a context. `LoopInv` is the loop invariant of
Prepare: nodes below `i` are settled in the present loop, all nodes in the loops that
are over; it is what a completed Prepare hands to Eval.

`ResidencyProofs` proves `Typed`, `Coherence`, `Bound` and `Barrier` (`TypeOK`,
`ReadsFresh`, `StorageBound`, `OutputsDamped`) for partitions of any length. `GraphInv` is what Init established;
`ResidentInv` is what each resident tensor satisfied when Prepare chose it (its
producer and every reader are general convs); `WrittenInv` says that nodes before `pc`
have written their outputs in the storage their readers will look in. The argument
is the code's own: topological order gives an earlier producer, `WrittenInv` gives its
write, and `ResidentInv` shows producer and reader choose the same storage. The
lemma `ResidentWriter` excludes the case of SPLIT, whose second output must not be
mistaken for another node's. `Barrier` follows a walk over the graph,
`tensor_reaches_output_undamped`, a recursive function over a graph of any shape, of which
nothing is known until some function is shown to satisfy its equation. The least set of
tensors closed under the walk's step gives one. `DampedInv` then says that a value off the
grid is only ever in tensors from which the walk reaches no output, whatever other kinds
the partition holds: what leaves a SPLIT or a gathering operator is `passed`, of which the
theorem, like the code, promises nothing.

`ConvProofs` proves, of `NativeConv`, `Agreement` and `Inside` (`DriverAgrees`, `TapsInside`) for
every kernel, stride, dilation, extent and padding rule. The state invariant is only
that the layer is one TFLite runs; the work is arithmetic on one axis. Quotients are
handled by the two multiples around the dividend (`Quotient`, `QuotientIs`), since the
stride is a variable: `OutDim` places TFLite's extent between those, `AxisAgrees` shows
the padded extent lies in the same interval, `AxisInside` bounds the last tap. `Typed`
(`TypeOK`) needs `BytesInv`, which adds that the model's tensors are bytes of their
type; `Recentred` then gives the signed range, over the halo (`PlaneBytes`) and the
padded channels (`RowBytes`), where `PixelOf` shows that a pixel number names a pixel.
`Exact` proves `AccumulatorsExact`, for filters and images of every size and content. It has
three parts. TFLite's sum leaves out the taps on the padding: with the zero point there, they
add nothing (`ReferenceIs`). A sum of products about one pair of origins is the sum about
another plus multiples of each factor's sum and of the number of taps (`ZeroPoints`); what the
host adds to the raw sum is just that difference (`CorrectedIs`). And each way's raw sum runs
over the taps of the window (`RawIs`, `EntryIs`; `MatmulIs`, whose zero channels add nothing and
whose rows are the pixels in order; `SeparableIs`, which takes a window column by column).
`AccInv` (`Phases`) says what each phase has left for the next. That sums over finite sets may
be split, reordered and scaled at all is proved in `IndexTheorems`.

`FanOutProofs` first proves of one call `Typed`, `Disjoint`, `Complete` and `Refinement`
(`TypeOK`, `RowsOnce`, `ReturnsComplete`, `ImplementsOnePass`) for any positive bounds on rows
and threads. `RowsOnce` alone is not inductive: it has to be known *why* a row was applied. The
invariant says so: `applied[r]` is one exactly where the worker of r's band is past r
(`Past`). `Apart` and `Covered` are the arithmetic of the rounded-up bands. The refinement
maps a worker's row to the abstract pass's, everything else to a stutter.

It then lifts these to the composition. `FollowsCall` and `FollowsProbe` show that
every step of `FanOut` is a step, or a stutter, of `ParallelOh` and of `PoolProbe`;
`Pooled` is then immediate. `Benign` (`ProbeAgrees`) rests on what each caller knows at its
program point, and `RegisteredOnce` on the flag being exchanged before the registration.
`ReportsOnce` (`ExitReportsOnce`) needs the value of two shared counters. `TallyInv` says that
each is the number of elements of a set, the pairs of a caller and one of its calls that has
passed the addition (`Numbered`), so that an addition is one new element, and no sum over
callers is needed. `FollowedInv` relates the followed call to its caller's place in the probe,
and `ReportInv` says that nobody is past the probe without the handler registered, if the
environment asks for it. The assumptions are `CallersAssumption` (finitely many other
interpreters, as a process has) and `PerCallAssumption` (an unfollowed call spawns between one
and `MaxThreads` threads).

Of `ConvRoute`, `ConvProofs` has `RouteTyped`, `Packed`, `Residency`, `RunsClaimed`
(`RouteTypeOK`, `OperandsPacked`, `ResidencyAgrees`, `RunsAsClaimed`) for every set of shapes
and options and every planner.
`FlagsInv` keeps what each flag implied when it was set, at the claimed shape, for the
later shapes; `ResidentInv` ties the resident weights to the shape they were packed for.

`Rk3576KernelProofs` proves the six invariants of its run for partitions of any length and
every plan the contract `MayPlan` admits. `PlanInv` is that contract; `RanInv` is Eval's
loop invariant: the layers before `i` have left their results in the form the plan
assigns. A kick covers several layers at once, so the step from `i` past its end needs
that the results inside it become present together. `Counted` (`LayersCounted`) needs that
every layer inside a kick has a handle (`KickHandles`: the links of a run are cubes, which the
contract makes of layers with handles only), so that stepping over them misses no host copy, and
takes the layers behind the loop as two finite sets that each turn extends.

`Rk3576ClaimProofs` proves `Typed` and `Exact` (`TypeOK`, `ClaimExact`). The point is that
the fixpoint, though in place and in the plan's order, cannot drop too much or stop too
early: a reader able to fold a PAD is a window, never a PAD, so it is itself never dropped and
the answer for each PAD is the same in every pass. From there it follows Init.
`Together` (`PadWithReaders`): TFLite groups the nodes of one side by epochs, which `Epoch`
defines by recursion over the plan. `EpochEquation` shows, along the plan, that the equation
has a solution; a window that folds a claimed PAD reads nothing else, so it enters the
PAD's own epoch (`EpochFollows`, `PadEpoch`). `LInv` (`LoweringInvariance`) says of the nodes already lowered that each claimed
one is a layer or a PAD of known geometry, and that `refused` names a cause.
Two properties of the runs are false of the code in general, as `Rk3576Claim_same` and
`Rk3576Claim_escape` show. For these the theorems say exactly how far: a
refusal always has a SAME convolution behind a folded PAD (`OnlySameRefused`), so that
`ClaimLowers` holds of every model without one (`LowersVALID`); an output without a layer is
always a PAD in the model's output list (`OnlyOutputsEscape`), so that `OutputsHaveLayers` holds
of every model that returns no such PAD (`HaveLayers`). The hypotheses are those under which
the passing run checks the two.

`AuxNodeProofs` proves `Typed` and `Accesses` (`TypeOK`, `AccessesInside`), and `Succeeds`, for
every catalogue of well-formed nodes: every rank, shape, window, permutation, spec and list of
inputs, any number of drifts, both readings of every option, host and NPU. The invariant (`Inductive`) is
simple, the evaluation is not. `IInv` says that from the claim on there is a node the gates took
(`Claimed`); that the kernel holds what Init captured of it, and the shapes are its own or a
drift's (`Built`); and that an answer is `eval` of these (`Evaluated`), packed weights being
Prepare's (`NotPacked`). Without `Claimed` nothing is known of the attributes, without `Built`
nothing relates what Eval kept to what it finds; `Built` also keeps that the outputs of a drift
are those of valid inputs. The rest is arithmetic. An offset built of
a coordinate and the strides is a number in the mixed radix of the extents (`DotInside`); the
odometer only ever holds a coordinate (`OdometerInside`). Each kernel then has a lemma
(`PoolWithin`, `TransposeConvWithin`, ...) under the conditions it needs of its arguments, and
each operator one (`PoolKept`, `SliceKept`, ...) that the gate, the capture and the checks of
the evaluation establish them, NPU staging included (`ThroughReads`, `PackedWithin`). Where two
copies lie side by side, as in CONCAT and SPLIT, partial sums of the extents bound them (`Laid`).
The spec of a STRIDED_SLICE is expanded by a recursion over its entries; `Recursion` gives it a
solution, and `ExpansionIs` says which entry each input axis gets.

`Succeeds` is the half of `ClaimedAnswers` that concerns the two sets of checks, those of
`analyze_*` at the claim and those of `eval_*` at each Invoke: at the shapes of the claim, and
with no output empty, no check of the evaluation refuses what the gate took, and every Invoke
before a drift is at these shapes (the conjunct `drifts = 0 => live = Own(node)` of `Built`).
Each operator has a lemma (`PoolRuns`, `SliceRun`, `ConcatRuns`, ...) that derives the
evaluation's checks from the gate's, and `EvalRuns` takes them together. For most the two are
the same test; a STRIDED_SLICE is gated on its spec and evaluated on the expansion, and
`ExpansionIs` is what relates them. The outputs must have elements because the evaluations refuse
an empty one that the gates accept (the hazard at `rocket_delegate.cpp:3305`).

`Meant` is the other half, and `DriftCaught` with it: for every operator but TRANSPOSE_CONV and
STRIDED_SLICE (`Compared`), the cells a kernel leaves are those the reference names, on the
host and through the NPU's layouts. The reference is written over coordinates and finds a
coordinate by CHOOSE, the kernels walk offsets; what joins them is that the offsets are a
bijection. `DotInjective` says that a coordinate is determined by its offset, `OdometerAt` that
the odometer's k-th coordinate has offset k, `FlatIs` that Horner's rule of the reference is the
inner product with the strides, and `CoordsAre` that the reference enumerates the same
coordinates. For images and matrices the same is `PixelAt`, `ChannelIs` and `MatrixIs`. Each
operator then has a lemma for its kernel (`SliceMeans`, `PoolPlanes`, `JoinedIs`, ...) and one,
`...Answers`, for its evaluation, which the checks reduce to the hypotheses of the first.
`Exact` says what an operator takes from the claim and must still be so at the shapes of the
moment: before a drift it is (`OwnExact`), after one it is the negation of `Unchecked`.

`IndexTheorems` begins with the lemmas by induction. The library's induction theorems take a
predicate as a parameter, which the provers cannot instantiate; but `WFMin` gives
a well-founded set of counterexamples a least one, and needs no predicate. `LeastNatural`,
`GreatestNatural` and `LeastSet` (the least of some finite sets) follow, and from them what
`SumFunctionOnSet` of the community modules computes: its value by recursion (`SumIs`), and
that a sum may be taken from any element, split, mapped, restricted to its support, and is
linear. The lemmas about offsets that hold of any tensor (`DotInside`, `OdometerAt`, the
`...Within` of the kernels) follow there; `AuxNodeProofs` has what needs a gate or an evaluation.

Left to TLC: liveness (`Finishes`, `ClaimEnds`), which the provers cannot do; and that the
kernels of TRANSPOSE_CONV and STRIDED_SLICE compute what the operator means. The first
accumulates each output cell over a scatter of taps, the second reads through an expansion made
by recursion; for these two the proofs have that nothing is read or written outside and that no
claimed node fails.

## 6. Assumptions and abstractions

* One call at a time on a kernel; no invoke after a failed Prepare. That is the
  interpreter's contract.
* `ConvRoute` takes `OH*OW = IH*IW` and a conv with a bias. The two planes are
  compared together only for a 1x1 of stride 1, where they are equal. A conv
  that only the resident matmul takes loses that route if its pack fails;
  `RunsAsClaimed` promises nothing for it then.
* `Residency` abstracts values to how far they are from the quantised grid;
  `Rk3576Claim` abstracts the type and quantisation tests of the gate to one
  verdict per node, and a node's name for its plane is its width.
* `Rk3576Kernel!MayPlan` is the planner's contract as Prepare describes its inputs
  and Eval uses its output.
* `NativeConv` stops at the accumulator. The scale, activation and rounding that follow
  are floating point, the same expression for every write-out. Every intermediate is
  taken to fit an int32, by the bound the code states (`rocket_convert.h:1304`). The
  int8-out entries are the library's, taken at their contract.
* `AuxNode` compares which elements an output is computed from, by which divisor and
  in which position, not the arithmetic on them. `ClaimedAnswers` is stated for outputs that
  have elements. An operand counts as constant when its data pointer is set, as the gates
  do. A `begin_mask` together with a shrunk axis is not in the catalogue. TFLite may
  or may not have resolved an output's shape when the delegate looks (`Unresolved`).
  `NodesAssumption` is what TFLite's parser gives a node: ranks, attributes of their types,
  positive windows and strides (`WellFormed`). `AccessesInside` leaves out an image operator with
  an empty tensor (`Emptied`): its loops take the batch to be one, and a batch of zero that a
  resize brings is not compared. It also leaves out CONCAT and FULLY_CONNECTED at shapes
  that are not the claimed ones, for the reasons in §3.
* `Rk3576Kernel` retries a failed Prepare as the code does, packing anew. In the code the
  first attempt's handles are then overwritten unfreed; the model does not show that leak,
  its `handles` being the set of layers that have one.
  A Prepare without a device, and the early return of one after a plan is made, are part of
  its action. The claim reads static shapes, so a resize is not modelled for this kernel.
* A plain `int` shared by threads is read and written whole (`PoolProbe`).
* Element values, file and device I/O, profiling output and timing are left out.

## 7. Not modelled

* Float values: fp16 layout conversion and rounding, the requantisation's scale,
  activation and rounding, bilinear weights, softmax and the curved activations. They
  are arithmetic on reals; the repository's `tests/convert_test.cpp` compares
  them with reference loops.
* The tests of the gates on types, scales, zero points and fused activations (one verdict
  per node), RESIZE_BILINEAR apart from RESIZE_NEAREST, and the options and the thread-count
  clamp that only select a convolution route or a speed (`ConvRoute` takes its options as
  parsed).
* The fallback of a failed resident pack when the planner takes the plane for the matmul only:
  whether such a shape exists depends on the library.
* A resize of the RK3576 kernel, whose claim reads static shapes.
* `glibc_compat.c`, `tools/`, `tests/`, `frigate/`: packaging, measurement, none of the
  program's logic. TFLite and the driver library are the environment.

What would be worth adding next: graphs of several auxiliary nodes and a convolution
through one kernel (`AuxNode` composed with `Residency`), for the case where a drift of one
node's shape reaches the internal buffers sized at Prepare.

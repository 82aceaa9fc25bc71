------------------------- MODULE RocketKernelProofs -------------------------
(***************************************************************************)
(* Theorems about RocketKernel for every partition, every set of shapes    *)
(* and every choice of options.  The inductive invariant follows the code: *)
(* DriverInv is what opening the device once establishes, WeightsInv and   *)
(* FreedInv are the order of the destructor, LoopInv is the loop invariant *)
(* of Prepare's loops, which a completed Prepare hands to Eval.            *)
(***************************************************************************)
EXTENDS RocketKernel, TLAPS

\* A node's resident weights, if any, are wanted and are for the live shape
Settled(n) == mm_w[n] => Want(n) /\ OnMatmul(n)

\* The phases in which a packing loop of the same Prepare is complete
LoopsAfter(loop) ==
    IF loop = "pack" THEN {"mm", "fc", "i8", "store", "ready", "eval"}
    ELSE IF loop = "mm" THEN {"fc", "i8", "store", "ready", "eval"}
    ELSE IF loop = "fc" THEN {"i8", "store", "ready", "eval"}
    ELSE {"store", "ready", "eval"}

DriverInv ==
    /\ fd = "unopened" => /\ phase \in {"loaded"} \cup Destroying
                          /\ conv_ctx = "null" /\ conv_pool = "null"
    /\ fd = "open" => device
    /\ fd = "closed" => phase = "gone"
    /\ \A n \in Nodes : mm_w[n] =>
          /\ \E loop \in {"mm", "fc", "i8"} : InLoop(loop, n)
          /\ fd # "unopened"
          /\ fd = "absent" => Kind[n] = "pwconv"
          /\ IsI8(n) => MmInt8

WeightsInv ==
    /\ phase \notin Destroying \/ phase = "dtor_w" =>
          \A n \in Nodes : bos[n] = IF mm_w[n] THEN 1 ELSE 0
    /\ phase \in {"dtor_mm", "dtor_w8"} =>
          \A n \in Nodes : bos[n] = IF IsI8(n) /\ mm_w[n] THEN 1 ELSE 0
    /\ phase \in {"dtor_i8", "dtor_conv", "dtor_fd", "gone"} => \A n \in Nodes : bos[n] = 0
    /\ \A n \in Nodes : bos[n] > 0 => CtxOf(n) = "live"

FreedInv ==
    /\ phase \in {"dtor_w8", "dtor_i8", "dtor_conv", "dtor_fd", "gone"} => mm_ctx # "live"
    /\ phase \in {"dtor_conv", "dtor_fd", "gone"} => mm_i8_ctx # "live"
    /\ phase \in {"dtor_fd", "gone"} => conv_ctx # "live" /\ conv_pool # "live"
    /\ phase = "gone" => fd # "open"
    /\ conv_ctx = "live" => fd \in {"open", "absent"}
    /\ conv_pool = "live" => fd = "open"

LoopInv ==
    /\ phase = "pack" => \A n \in Nodes : n < i /\ IsConv(n) => n \in packed
    /\ phase \in LoopsAfter("pack") => \A n \in Nodes : IsConv(n) => n \in packed
    /\ \A loop \in {"mm", "fc", "i8"} :
          /\ phase = loop => \A n \in Nodes : n < i /\ InLoop(loop, n) => Settled(n)
          /\ phase \in LoopsAfter(loop) => \A n \in Nodes : InLoop(loop, n) => Settled(n)

IInv == TypeOK /\ DriverInv /\ WeightsInv /\ FreedInv /\ LoopInv /\ NoDeviceNoNpuWork

\* A packing loop that is not over is followed by itself at the next node or by
\* the loop the code runs after it (the loops of Prepare).
LEMMA AdvanceTyped ==
    ASSUME phase \in Preparing \ {"store"}, i \in Nodes, Advance
    PROVE  phase' \in Preparing /\ i' \in Nodes
PROOF
  BY NumNodesAssumption DEF Advance, AfterLoop, Preparing, Nodes

\* Eval's loop goes to the next node or ends the invoke.
LEMMA NextNodeTyped ==
    ASSUME phase = "eval", i \in Nodes, NextNode
    PROVE  phase' \in {"eval", "ready"} /\ i' \in Nodes
PROOF
  BY NumNodesAssumption DEF NextNode, Nodes

\* Eval's tally keeps the two process-wide counters numbers.
LEMMA CountTyped ==
    ASSUME ops_npu \in Nat, ops_host \in Nat, Count
    PROVE  ops_npu' \in Nat /\ ops_host' \in Nat
PROOF
  <1>1. ops_npu' \in {ops_npu, ops_npu + 1} BY DEF Count
  <1>2. ops_host' \in {ops_host, ops_host + 1} BY DEF Count
  <1>3. QED BY <1>1, <1>2

\* Every step keeps the state typed; that a weight object's count stays 0 or 1
\* needs WeightsInv, since freeing subtracts.
LEMMA TypeStep ==
    ASSUME IInv, [Next]_vars
    PROVE  TypeOK'
PROOF
  <1> USE DEF IInv, TypeOK, Nodes, Phases, Preparing, Destroying, CtxStates, shape,
     driver, weights, counts
  <1>1. CASE Resize
    BY <1>1 DEF Resize
  <1>2. CASE PrepareBegin
    BY <1>2, NumNodesAssumption DEF PrepareBegin
  <1>3. CASE PackFilter
    <2>1. packed' \subseteq Nodes
      BY <1>3 DEF PackFilter
    <2>2. phase' \in Phases /\ i' \in 0 .. NumNodes
          /\ (phase' \in (Preparing \ {"store"}) \cup {"eval"} => i' \in Nodes)
      BY <1>3, AdvanceTyped DEF PackFilter
    <2>3. QED
      BY <1>3, <2>1, <2>2 DEF PackFilter
  <1>4. CASE SkipResident
    BY <1>4, AdvanceTyped DEF SkipResident
  <1>5. CASE DropResident
    BY <1>5, AdvanceTyped DEF DropResident, Stale, WeightsInv
  <1>6. CASE PackResident
    <2>1. mm_w' \in [Nodes -> BOOLEAN] /\ i \in Nodes
      BY <1>6 DEF PackResident
    <2>2. {mm_ctx', mm_i8_ctx'} \subseteq CtxStates
      BY <1>6 DEF PackResident, CtxOf
    <2>3. LiveM(i) \in Nat
      BY ShapesAssumption DEF LiveM
    <2>4. mm_M' \in [Nodes -> Nat]
      BY <1>6, <2>3 DEF PackResident
    <2>5. bos' \in [Nodes -> {0, 1}]
      BY <1>6, <2>1 DEF PackResident, WeightsInv
    <2>6. QED
      BY <1>6, <2>1, <2>2, <2>4, <2>5, AdvanceTyped DEF PackResident
  <1>7. CASE FcNoData
    BY <1>7 DEF FcNoData, WeightsInv, Stale
  <1>8. CASE StoreBuffers
    BY <1>8 DEF StoreBuffers
  <1>9. CASE EvalBegin
    BY <1>9, NumNodesAssumption DEF EvalBegin
  <1>10. CASE EvalOnNpu
    <2>1. ops_npu' \in Nat /\ ops_host' \in Nat
      BY <1>10, CountTyped DEF EvalOnNpu
    <2>2. npu_ran' \in BOOLEAN
      BY <1>10 DEF EvalOnNpu
    <2>3. QED
      BY <1>10, <2>1, <2>2, NextNodeTyped DEF EvalOnNpu
  <1>11. CASE EvalOnHost
    <2>1. ops_npu' \in Nat /\ ops_host' \in Nat
      BY <1>11, CountTyped DEF EvalOnHost
    <2>2. npu_ran' \in BOOLEAN
      BY <1>11 DEF EvalOnHost
    <2>3. phase' \in {"eval", "ready"} /\ i' \in Nodes
      BY <1>11, NextNodeTyped DEF EvalOnHost
    <2>4. UNCHANGED <<shape, driver, weights, evals>>
      BY <1>11 DEF EvalOnHost
    <2>5. QED
      BY <2>1, <2>2, <2>3, <2>4
  <1>12. CASE EvalError
    BY <1>12 DEF EvalError
  <1>13. CASE DtorBegin
    BY <1>13 DEF DtorBegin
  <1>14. CASE DtorWeights
    BY <1>14 DEF DtorWeights, FreeWeights, WeightsInv
  <1>15. CASE DtorMmCtx
    BY <1>15 DEF DtorMmCtx, FreeCtx
  <1>16. CASE DtorI8Weights
    BY <1>16 DEF DtorI8Weights, FreeWeights, WeightsInv
  <1>17. CASE DtorI8Ctx
    BY <1>17 DEF DtorI8Ctx, FreeCtx
  <1>18. CASE DtorConv
    BY <1>18 DEF DtorConv, FreeCtx
  <1>19. CASE DtorClose
    BY <1>19 DEF DtorClose
  <1>20. CASE UNCHANGED vars
    BY <1>20 DEF vars
  <1>21. QED
    BY <1>1, <1>2, <1>3, <1>4, <1>5, <1>6, <1>7, <1>8, <1>9, <1>10, <1>11, <1>12, <1>13,
       <1>14, <1>15, <1>16, <1>17, <1>18, <1>19, <1>20 DEF Next, PrepareStep, EvalStep,
       DtorStep

\* The device is opened once; after a failed open only a float 1x1 conv may have a
\* resident weight, and every other lives under the option of its loop.
LEMMA DriverStep ==
    ASSUME IInv, [Next]_vars
    PROVE  DriverInv'
PROOF
  <1> USE DEF IInv, TypeOK, DriverInv, Phases, Preparing, Destroying, CtxStates, shape,
     driver, weights, counts
  <1>1. CASE Resize
    BY <1>1 DEF Resize
  <1>2. CASE PrepareBegin
    BY <1>2 DEF PrepareBegin
  <1>3. CASE PackFilter
    BY <1>3, AdvanceTyped DEF PackFilter
  <1>4. CASE SkipResident
    BY <1>4, AdvanceTyped DEF SkipResident
  <1>5. CASE DropResident
    BY <1>5, AdvanceTyped DEF DropResident, Treats
  <1>6. CASE PackResident
    <2>1. mm_w' = [mm_w EXCEPT ![i] = mm_w'[i]] /\ mm_w'[i] \in BOOLEAN
      BY <1>6 DEF PackResident
    <2>2. phase' \in Preparing /\ i \in Nodes
      BY <1>6, AdvanceTyped DEF PackResident
    <2>3. \E loop \in {"mm", "fc", "i8"} : InLoop(loop, i)
      BY <1>6 DEF PackResident, Treats
    <2>4. fd # "unopened" /\ fd # "closed" /\ (fd = "absent" => Kind[i] = "pwconv")
      <3>1. fd # "unopened" /\ fd # "closed"
        BY <1>6 DEF PackResident
      <3>2. fd = "open" \/ Kind[i] = "pwconv"
        BY <1>6 DEF PackResident, Treats, InLoop, Want, IsI8, conv_is_matmul, conv_is_matmul_i8,
           fc_wants_npu
      <3>3. QED
        BY <3>1, <3>2
    <2>5. IsI8(i) => MmInt8
      BY <1>6 DEF PackResident, Treats, InLoop, IsI8
    <2>6. QED
      BY <1>6, <2>1, <2>2, <2>3, <2>4, <2>5 DEF PackResident
  <1>7. CASE FcNoData
    BY <1>7 DEF FcNoData
  <1>8. CASE StoreBuffers
    BY <1>8 DEF StoreBuffers
  <1>9. CASE EvalBegin
    BY <1>9 DEF EvalBegin
  <1>10. CASE EvalOnNpu
    BY <1>10, NextNodeTyped DEF EvalOnNpu
  <1>11. CASE EvalOnHost
    BY <1>11, NextNodeTyped DEF EvalOnHost
  <1>12. CASE EvalError
    BY <1>12 DEF EvalError
  <1>13. CASE DtorBegin
    BY <1>13 DEF DtorBegin
  <1>14. CASE DtorWeights
    BY <1>14 DEF DtorWeights
  <1>15. CASE DtorMmCtx
    BY <1>15 DEF DtorMmCtx
  <1>16. CASE DtorI8Weights
    BY <1>16 DEF DtorI8Weights
  <1>17. CASE DtorI8Ctx
    BY <1>17 DEF DtorI8Ctx
  <1>18. CASE DtorConv
    BY <1>18 DEF DtorConv, FreeCtx
  <1>19. CASE DtorClose
    BY <1>19 DEF DtorClose
  <1>20. CASE UNCHANGED vars
    BY <1>20 DEF vars
  <1>21. QED
    BY <1>1, <1>2, <1>3, <1>4, <1>5, <1>6, <1>7, <1>8, <1>9, <1>10, <1>11, <1>12, <1>13,
       <1>14, <1>15, <1>16, <1>17, <1>18, <1>19, <1>20 DEF Next, PrepareStep, EvalStep,
       DtorStep

\* The destructor frees each context and descriptor before it reports the next
\* stage, and nothing creates them once it has begun.
LEMMA FreedStep ==
    ASSUME IInv, [Next]_vars
    PROVE  FreedInv'
PROOF
  <1> USE DEF IInv, TypeOK, DriverInv, FreedInv, Phases, Preparing, Destroying, CtxStates,
     shape, driver, weights, counts
  <1>1. CASE Resize
    BY <1>1 DEF Resize
  <1>2. CASE PrepareBegin
    BY <1>2 DEF PrepareBegin
  <1>3. CASE PackFilter
    BY <1>3, AdvanceTyped DEF PackFilter
  <1>4. CASE SkipResident
    BY <1>4, AdvanceTyped DEF SkipResident
  <1>5. CASE DropResident
    BY <1>5, AdvanceTyped DEF DropResident
  <1>6. CASE PackResident
    BY <1>6, AdvanceTyped DEF PackResident
  <1>7. CASE FcNoData
    BY <1>7 DEF FcNoData
  <1>8. CASE StoreBuffers
    BY <1>8 DEF StoreBuffers
  <1>9. CASE EvalBegin
    BY <1>9 DEF EvalBegin
  <1>10. CASE EvalOnNpu
    BY <1>10, NextNodeTyped DEF EvalOnNpu
  <1>11. CASE EvalOnHost
    BY <1>11, NextNodeTyped DEF EvalOnHost
  <1>12. CASE EvalError
    BY <1>12 DEF EvalError
  <1>13. CASE DtorBegin
    BY <1>13 DEF DtorBegin
  <1>14. CASE DtorWeights
    BY <1>14 DEF DtorWeights
  <1>15. CASE DtorMmCtx
    BY <1>15 DEF DtorMmCtx, FreeCtx
  <1>16. CASE DtorI8Weights
    BY <1>16 DEF DtorI8Weights
  <1>17. CASE DtorI8Ctx
    BY <1>17 DEF DtorI8Ctx, FreeCtx
  <1>18. CASE DtorConv
    BY <1>18 DEF DtorConv, FreeCtx
  <1>19. CASE DtorClose
    BY <1>19 DEF DtorClose
  <1>20. CASE UNCHANGED vars
    BY <1>20 DEF vars
  <1>21. QED
    BY <1>1, <1>2, <1>3, <1>4, <1>5, <1>6, <1>7, <1>8, <1>9, <1>10, <1>11, <1>12, <1>13,
       <1>14, <1>15, <1>16, <1>17, <1>18, <1>19, <1>20 DEF Next, PrepareStep, EvalStep,
       DtorStep

\* Driver weight objects and the pointers to them agree through every drop, pack
\* and free, and each lives on a live context.
LEMMA WeightsStep ==
    ASSUME IInv, [Next]_vars
    PROVE  WeightsInv'
PROOF
  <1> USE DEF IInv, TypeOK, WeightsInv, CtxOf, Phases, Preparing, Destroying, CtxStates,
     shape, driver, weights, counts
  <1>1. CASE Resize
    BY <1>1 DEF Resize
  <1>2. CASE PrepareBegin
    BY <1>2 DEF PrepareBegin
  <1>3. CASE PackFilter
    BY <1>3, AdvanceTyped DEF PackFilter
  <1>4. CASE SkipResident
    BY <1>4, AdvanceTyped DEF SkipResident
  <1>5. CASE DropResident
    <2>1. phase' \in Preparing /\ i \in Nodes
      BY <1>5, AdvanceTyped DEF DropResident
    <2>2. mm_w'[i] <=> mm_w[i] /\ ~Stale(i)
      BY <1>5 DEF DropResident
    <2>3. bos'[i] = IF mm_w'[i] THEN 1 ELSE 0
      BY <1>5, <2>2 DEF DropResident, Stale
    <2>4. \A n \in Nodes \ {i} : mm_w'[n] = mm_w[n] /\ bos'[n] = bos[n]
      BY <1>5 DEF DropResident
    <2>5. \A n \in Nodes : bos'[n] = IF mm_w'[n] THEN 1 ELSE 0
      BY <2>1, <2>3, <2>4, <1>5 DEF DropResident
    <2>6. \A n \in Nodes : bos'[n] > 0 => (CtxOf(n) = "live")'
      BY <2>2, <2>3, <2>4, <1>5 DEF DropResident
    <2>7. QED
      BY <2>1, <2>5, <2>6
  <1>6. CASE PackResident
    BY <1>6, AdvanceTyped DEF PackResident, Stale
  <1>7. CASE FcNoData
    BY <1>7 DEF FcNoData, Stale
  <1>8. CASE StoreBuffers
    BY <1>8 DEF StoreBuffers
  <1>9. CASE EvalBegin
    BY <1>9 DEF EvalBegin
  <1>10. CASE EvalOnNpu
    BY <1>10, NextNodeTyped DEF EvalOnNpu
  <1>11. CASE EvalOnHost
    BY <1>11, NextNodeTyped DEF EvalOnHost
  <1>12. CASE EvalError
    BY <1>12 DEF EvalError
  <1>13. CASE DtorBegin
    BY <1>13 DEF DtorBegin
  <1>14. CASE DtorWeights
    BY <1>14 DEF DtorWeights, FreeWeights
  <1>15. CASE DtorMmCtx
    BY <1>15 DEF DtorMmCtx, FreeCtx
  <1>16. CASE DtorI8Weights
    BY <1>16 DEF DtorI8Weights, FreeWeights
  <1>17. CASE DtorI8Ctx
    BY <1>17 DEF DtorI8Ctx, FreeCtx
  <1>18. CASE DtorConv
    BY <1>18 DEF DtorConv
  <1>19. CASE DtorClose
    BY <1>19 DEF DtorClose
  <1>20. CASE UNCHANGED vars
    BY <1>20 DEF vars
  <1>21. QED
    BY <1>1, <1>2, <1>3, <1>4, <1>5, <1>6, <1>7, <1>8, <1>9, <1>10, <1>11, <1>12, <1>13,
       <1>14, <1>15, <1>16, <1>17, <1>18, <1>19, <1>20 DEF Next, PrepareStep, EvalStep,
       DtorStep

\* A device that did not open stays so until the destructor ends, and Eval counts
\* nothing as NPU work without one: a conv by its descriptor, the others because
\* neither their resident weights nor their attempts exist without it.
LEMMA CountsStep ==
    ASSUME IInv, [Next]_vars
    PROVE  NoDeviceNoNpuWork'
PROOF
  <1> USE DEF IInv, TypeOK, DriverInv, NoDeviceNoNpuWork, Preparing, Destroying, shape, driver,
     weights, counts
  <1>1. CASE Resize
    BY <1>1 DEF Resize
  <1>2. CASE PrepareBegin
    BY <1>2 DEF PrepareBegin
  <1>3. CASE PackFilter
    BY <1>3 DEF PackFilter
  <1>4. CASE SkipResident
    BY <1>4 DEF SkipResident
  <1>5. CASE DropResident
    BY <1>5 DEF DropResident
  <1>6. CASE PackResident
    BY <1>6, DriverStep DEF PackResident
  <1>7. CASE FcNoData
    BY <1>7 DEF FcNoData
  <1>8. CASE StoreBuffers
    BY <1>8 DEF StoreBuffers
  <1>9. CASE EvalBegin
    BY <1>9 DEF EvalBegin
  <1>10. CASE EvalOnNpu
    BY <1>10 DEF EvalOnNpu, Count, OnNpu, OnMatmul, IsConv
  <1>11. CASE EvalOnHost
    BY <1>11 DEF EvalOnHost, Count, OnNpu, IsConv
  <1>12. CASE EvalError
    BY <1>12 DEF EvalError
  <1>13. CASE DtorBegin
    BY <1>13 DEF DtorBegin
  <1>14. CASE DtorWeights
    BY <1>14 DEF DtorWeights
  <1>15. CASE DtorMmCtx
    BY <1>15 DEF DtorMmCtx
  <1>16. CASE DtorI8Weights
    BY <1>16 DEF DtorI8Weights
  <1>17. CASE DtorI8Ctx
    BY <1>17 DEF DtorI8Ctx
  <1>18. CASE DtorConv
    BY <1>18 DEF DtorConv
  <1>19. CASE DtorClose
    BY <1>19 DEF DtorClose
  <1>20. CASE UNCHANGED vars
    BY <1>20 DEF vars
  <1>21. QED
    BY <1>1, <1>2, <1>3, <1>4, <1>5, <1>6, <1>7, <1>8, <1>9, <1>10, <1>11, <1>12, <1>13,
       <1>14, <1>15, <1>16, <1>17, <1>18, <1>19, <1>20 DEF Next, PrepareStep, EvalStep,
       DtorStep

\* Settledness of a node reads nothing but its own weights, the shapes and the fd.
LEMMA SettledStable ==
    ASSUME NEW n \in Nodes, UNCHANGED <<plane, f_M, fd>>,
           mm_w'[n] = mm_w[n], mm_M'[n] = mm_M[n], Settled(n)
    PROVE  Settled(n)'
PROOF
  BY DEF Settled, Want, OnMatmul, LiveM, conv_is_matmul, conv_is_matmul_i8, fc_wants_npu

\* One iteration of a packing loop that leaves every settled node settled, and
\* settles its own node, keeps the loop invariants.
LEMMA LoopAdvance ==
    ASSUME TypeOK, LoopInv, phase \in {"mm", "fc", "i8"}, Advance, packed' = packed,
           \A n \in Nodes : Settled(n) => Settled(n)',
           \A n \in Nodes : n = i /\ InLoop(phase, n) => Settled(n)'
    PROVE  LoopInv'
PROOF
  <1>1. i \in Nodes /\ phase \in Preparing \ {"store"}
    BY DEF TypeOK, Preparing
  <1>2. \A n \in Nodes : IsConv(n) => n \in packed'
    BY DEF LoopInv, LoopsAfter
  <1>3. phase' # "pack"
    BY DEF Advance, AfterLoop
  <1>4. ASSUME NEW loop \in {"mm", "fc", "i8"}, phase' = loop,
               NEW n \in Nodes, n < i', InLoop(loop, n)
        PROVE  Settled(n)'
    <2>1. CASE phase' = phase /\ i' = i + 1
      <3>1. n < i \/ n = i
        BY <1>1, <1>4, <2>1 DEF Nodes
      <3>2. QED
        BY <1>4, <2>1, <3>1 DEF LoopInv
    <2>2. CASE i' = 1
      BY <1>4, <2>2 DEF Nodes
    <2>3. QED
      BY <2>1, <2>2 DEF Advance
  <1>5. ASSUME NEW loop \in {"mm", "fc", "i8"}, phase' \in LoopsAfter(loop),
               NEW n \in Nodes, InLoop(loop, n)
        PROVE  Settled(n)'
    <2>1. CASE phase \in LoopsAfter(loop)
      BY <1>5, <2>1 DEF LoopInv
    <2>2. CASE phase = loop
      <3>1. phase' # phase
        BY <1>5, <2>2 DEF LoopsAfter
      <3>2. i = NumNodes
        BY <1>1, <3>1, NumNodesAssumption DEF Advance, Nodes
      <3>3. n < i \/ n = i
        BY <1>1, <3>2, NumNodesAssumption DEF Nodes
      <3>4. QED
        BY <1>5, <2>2, <3>3 DEF LoopInv
    <2>3. QED
      BY <1>5, <2>1, <2>2 DEF LoopsAfter, Advance, AfterLoop
  <1>6. QED
    BY <1>2, <1>3, <1>4, <1>5 DEF LoopInv

\* The loop invariants of Prepare: filters packed up to i, nodes of each loop
\* settled up to i, and all of them once the loop is over, until shapes change.
LEMMA LoopStep ==
    ASSUME IInv, [Next]_vars
    PROVE  LoopInv'
PROOF
  <1> USE DEF IInv, TypeOK, LoopInv, LoopsAfter, Phases, Preparing, Destroying, shape,
     driver, weights, counts
  <1>1. CASE Resize
    BY <1>1 DEF Resize
  <1>2. CASE PrepareBegin
    <2>1. phase' = "pack" /\ i' = 1
      BY <1>2 DEF PrepareBegin
    <2>2. QED
      BY <2>1 DEF Nodes
  <1>3. CASE PackFilter
    <2>1. UNCHANGED <<plane, f_M, fd, mm_w, mm_M>> /\ packed \subseteq packed'
      BY <1>3 DEF PackFilter
    <2>2. CASE phase' = "failed"
      BY <1>3, <2>2 DEF PackFilter
    <2>3. CASE Advance /\ (IsConv(i) => i \in packed')
      <3>1. i \in Nodes
        BY <1>3 DEF PackFilter
      <3>2. CASE i' = i + 1 /\ phase' = phase
        <4>1. \A n \in Nodes : n < i' => n < i \/ n = i
          BY <3>1, <3>2 DEF Nodes
        <4>2. QED
          BY <1>3, <2>1, <2>3, <3>2, <4>1 DEF PackFilter
      <3>3. CASE i = NumNodes /\ i' = 1 /\ phase' = "mm"
        <4>1. \A n \in Nodes : n < i \/ n = i
          BY <3>3, NumNodesAssumption DEF Nodes
        <4>2. \A n \in Nodes : ~(n < i')
          BY <3>3 DEF Nodes
        <4>3. QED
          BY <1>3, <2>1, <2>3, <3>3, <4>1, <4>2 DEF PackFilter
      <3>4. QED
        BY <1>3, <2>3, <3>1, <3>2, <3>3, NumNodesAssumption DEF PackFilter, Advance,
           AfterLoop, Nodes
    <2>4. QED
      BY <1>3, <2>2, <2>3 DEF PackFilter
  <1>4. CASE SkipResident
    <2>1. \A n \in Nodes : Settled(n) => Settled(n)'
      BY <1>4, SettledStable DEF SkipResident
    <2>2. ASSUME NEW n \in Nodes, n = i, InLoop(phase, n)
          PROVE  Settled(n)'
      <3>1. IsI8(n) /\ ~(MmInt8 /\ fd = "open")
        BY <1>4, <2>2 DEF SkipResident, Treats, InLoop
      <3>2. fd # "closed" /\ Kind[n] # "pwconv"
        BY <1>4, <3>1 DEF DriverInv, SkipResident, IsI8
      <3>3. ~mm_w[n]
        BY <3>1, <3>2 DEF DriverInv
      <3>4. QED
        BY <1>4, <3>3 DEF Settled, SkipResident
    <2>3. QED
      BY <1>4, <2>1, <2>2, LoopAdvance DEF SkipResident
  <1>5. CASE DropResident
    <2>1. i \in Nodes /\ phase \in {"mm", "fc", "i8"} /\ Advance /\ packed' = packed
      BY <1>5 DEF DropResident
    <2>2. UNCHANGED <<plane, f_M, fd, mm_M>>
      BY <1>5 DEF DropResident
    <2>3. \A n \in Nodes \ {i} : mm_w'[n] = mm_w[n]
      BY <1>5 DEF DropResident
    <2>4. ASSUME NEW n \in Nodes, n = i
          PROVE  Settled(n)'
      <3>1. mm_w'[n] <=> mm_w[n] /\ ~Stale(n)
        BY <1>5, <2>4 DEF DropResident
      <3>2. CASE mm_w'[n]
        <4>1. mm_w'[n] = mm_w[n] /\ Settled(n)
          BY <3>1, <3>2, <2>1 DEF Stale, Settled, OnMatmul
        <4>2. QED
          BY <2>1, <2>2, <4>1, SettledStable
      <3>3. CASE ~mm_w'[n]
        BY <3>3 DEF Settled
      <3>4. QED
        BY <3>2, <3>3
    <2>5. \A n \in Nodes : Settled(n) => Settled(n)'
      BY <2>2, <2>3, <2>4, SettledStable
    <2>6. QED
      BY <2>1, <2>4, <2>5, LoopAdvance
  <1>6. CASE PackResident
    <2>1. i \in Nodes /\ phase \in {"mm", "fc", "i8"} /\ Advance /\ packed' = packed
      BY <1>6 DEF PackResident
    <2>2. UNCHANGED <<plane, f_M, fd>> /\ Want(i)
      BY <1>6 DEF PackResident
    <2>3. \A n \in Nodes \ {i} : mm_w'[n] = mm_w[n] /\ mm_M'[n] = mm_M[n]
      BY <1>6 DEF PackResident
    <2>4. mm_w'[i] => mm_M'[i] = LiveM(i)
      BY <1>6 DEF PackResident
    <2>5. ASSUME NEW n \in Nodes, n = i
          PROVE  Want(n)' /\ LiveM(n)' = LiveM(n)
      BY <2>2, <2>5 DEF Want, conv_is_matmul, conv_is_matmul_i8, fc_wants_npu, LiveM
    <2>6. \A n \in Nodes : n = i => Settled(n)'
      BY <2>4, <2>5 DEF Settled, OnMatmul
    <2>7. \A n \in Nodes : Settled(n) => Settled(n)'
      BY <2>2, <2>3, <2>6, SettledStable
    <2>8. QED
      BY <2>1, <2>6, <2>7, LoopAdvance
  <1>7. CASE FcNoData
    BY <1>7 DEF FcNoData
  <1>8. CASE StoreBuffers
    BY <1>8, SettledStable DEF StoreBuffers
  <1>9. CASE EvalBegin
    BY <1>9, SettledStable DEF EvalBegin
  <1>10. CASE EvalOnNpu
    BY <1>10, NextNodeTyped, SettledStable DEF EvalOnNpu
  <1>11. CASE EvalOnHost
    BY <1>11, NextNodeTyped, SettledStable DEF EvalOnHost
  <1>12. CASE EvalError
    BY <1>12, SettledStable DEF EvalError
  <1>13. CASE DtorBegin
    BY <1>13 DEF DtorBegin
  <1>14. CASE DtorWeights
    BY <1>14 DEF DtorWeights
  <1>15. CASE DtorMmCtx
    BY <1>15 DEF DtorMmCtx
  <1>16. CASE DtorI8Weights
    BY <1>16 DEF DtorI8Weights
  <1>17. CASE DtorI8Ctx
    BY <1>17 DEF DtorI8Ctx
  <1>18. CASE DtorConv
    BY <1>18 DEF DtorConv
  <1>19. CASE DtorClose
    BY <1>19 DEF DtorClose
  <1>20. CASE UNCHANGED vars
    BY <1>20, SettledStable DEF vars
  <1>21. QED
    BY <1>1, <1>2, <1>3, <1>4, <1>5, <1>6, <1>7, <1>8, <1>9, <1>10, <1>11, <1>12, <1>13,
       <1>14, <1>15, <1>16, <1>17, <1>18, <1>19, <1>20 DEF Next, PrepareStep, EvalStep,
       DtorStep

\* The kernel as rocket_kernel_init leaves it satisfies the invariant.
LEMMA Initially ==
    ASSUME Init
    PROVE  IInv
PROOF
  <1>1. TypeOK
    <2>1. i \in 0 .. NumNodes /\ mm_w \in [Nodes -> BOOLEAN]
          /\ mm_M \in [Nodes -> Nat] /\ bos \in [Nodes -> {0, 1}]
      BY NumNodesAssumption DEF Init
    <2>2. {mm_ctx, mm_i8_ctx, conv_ctx, conv_pool} \subseteq CtxStates
      BY DEF Init, CtxStates
    <2>3. {ops_npu, ops_host, evals} \subseteq Nat
      BY DEF Init
    <2>4. phase = "loaded" /\ phase \in Phases
      BY DEF Init, Phases
    <2>5. QED
      BY <2>1, <2>2, <2>3, <2>4 DEF Init, TypeOK, Preparing
  <1>2. DriverInv /\ FreedInv /\ NoDeviceNoNpuWork
    BY DEF Init, DriverInv, FreedInv, NoDeviceNoNpuWork, Destroying, Nodes
  <1>3. WeightsInv /\ LoopInv
    BY DEF Init, WeightsInv, LoopInv, LoopsAfter, Destroying
  <1>4. QED
    BY <1>1, <1>2, <1>3 DEF IInv

\* The safety properties are read off the invariant.
LEMMA Consequences ==
    ASSUME IInv
    PROVE  ResourcesOwned /\ NothingLeaks /\ EvalReady
PROOF
  <1>1. ResourcesOwned
    BY DEF IInv, WeightsInv, FreedInv, ResourcesOwned
  <1>2. NothingLeaks
    BY DEF IInv, WeightsInv, FreedInv, NothingLeaks
  <1>3. ASSUME phase \in {"ready", "eval"}, NEW n \in Nodes, mm_w[n]
        PROVE  Want(n) /\ OnMatmul(n)
    <2>1. PICK loop \in {"mm", "fc", "i8"} : InLoop(loop, n)
      BY <1>3 DEF IInv, DriverInv
    <2>2. Settled(n)
      BY <1>3, <2>1 DEF IInv, LoopInv, LoopsAfter
    <2>3. QED
      BY <1>3, <2>2 DEF Settled
  <1>4. EvalReady
    BY <1>3 DEF IInv, LoopInv, LoopsAfter, EvalReady
  <1>5. QED
    BY <1>1, <1>2, <1>4

\* Every reachable state satisfies the inductive invariant.
THEOREM Invariance == Spec => []IInv
PROOF
  <1>1. Init => IInv
    BY Initially
  <1>2. IInv /\ [Next]_vars => IInv'
    BY TypeStep, DriverStep, WeightsStep, FreedStep, LoopStep, CountsStep DEF IInv
  <1>3. QED
    BY <1>1, <1>2, PTL DEF Spec

\* Every reachable state is typed, for every partition and every shape.
THEOREM Typed == Spec => []TypeOK
PROOF
  <1>1. IInv => TypeOK
    BY DEF IInv
  <1>2. QED
    BY <1>1, Invariance, PTL

\* Driver weights are exactly the ones the kernel points at and never outlive
\* their context, for every partition, shape, option and order of entry points.
THEOREM Ownership == Spec => []ResourcesOwned
PROOF
  BY Consequences, Invariance, PTL

\* ~RocketKernel leaves nothing in the driver, whatever came before it: no Prepare,
\* a failed Prepare, any number of resizes and invokes.
THEOREM Cleanup == Spec => []NothingLeaks
PROOF
  BY Consequences, Invariance, PTL

\* Every invoke starts with all filters packed and no resident weight that is
\* stale for the live shapes.
THEOREM Readiness == Spec => []EvalReady
PROOF
  BY Consequences, Invariance, PTL

\* A kernel with no device open, because the one open failed or is still to come,
\* reports no NPU work and holds no resident weights but a float 1x1 conv's, for
\* every partition, shape, option and order of entry points.
THEOREM NoDevice == Spec => []NoDeviceNoNpuWork
PROOF
  <1>1. IInv => NoDeviceNoNpuWork
    BY DEF IInv
  <1>2. QED
    BY <1>1, Invariance, PTL

=============================================================================

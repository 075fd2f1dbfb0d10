-------------------------- MODULE ReductionProofs ---------------------------
(***************************************************************************)
(* Theorems about reduce(), for every set of pipelines and input ranges.   *)
(***************************************************************************)
EXTENDS Reduction, ArrivalProofs

\* The inductive invariant: that of the nested calls, and that nothing has
\* happened before the loop.
Inv ==
  /\ PipelineInv
  /\ TypeOK
  /\ pc = "start" => pos = 0 /\ stack = <<>> /\ ~threw

\* The arguments of a call are an item.
LEMMA ItemType ==
  ASSUME TypeOK, NEW i \in Nat, \A r \in 1..Len(inputs) : i \in 1..Len(inputs[r])
  PROVE  ItemAt(i) \in Item
<1>1. \A r \in 1..Len(inputs) : inputs[r][i] \in Item
  BY DEF TypeOK
<1>2. CASE Len(inputs) = 1
  BY <1>1, <1>2 DEF ItemAt
<1>3. CASE Len(inputs) # 1
  <2>1. \A r \in 1..Len(inputs) : Key(inputs[r][i]) \in Int
    BY <1>1, KeyType
  <2>2. ItemAt(i) = [r \in 1..Len(inputs) |-> Key(inputs[r][i])]
    BY <1>3 DEF ItemAt
  <2>3. Len(inputs) \in Nat
    BY DEF TypeOK
  <2>4. [r \in 1..Len(inputs) |-> Key(inputs[r][i])] \in Seq(Int)
    BY <2>1, <2>3
  <2> QED
    BY <2>2, <2>4 DEF Item
<1> QED
  BY <1>2, <1>3

LEMMA ItemAtType ==
  ASSUME TypeOK, IsNonEmpty \/ More, pos = 0 \/ More
  PROVE  ItemAt(pos + 1) \in Item
<1>1. inputs \in Seq(Seq(Item)) /\ pos \in Nat
  BY DEF TypeOK
<1>2. \A r \in 1..Len(inputs) : pos + 1 \in 1..Len(inputs[r])
  <2> TAKE r \in 1..Len(inputs)
  <2>1. inputs[r] \in Seq(Item)
    BY <1>1
  <2>2. pos < Len(inputs[r])
    <3>1. CASE More
      BY <3>1 DEF More
    <3>2. CASE pos = 0 /\ inputs[r] # <<>>
      BY <2>1, <3>2
    <3> QED
      BY <3>1, <3>2 DEF IsNonEmpty
  <2> QED
    BY <1>1, <2>1, <2>2
<1> QED
  BY <1>1, <1>2, ItemType

\* reduce() starts on an untouched pipeline.
LEMMA InitInv ==
  Init => Inv
<1> SUFFICES ASSUME Init
             PROVE  Inv
  OBVIOUS
<1>1. PICK r \in Reductions : PipelineInit(r.pipeline) /\ inputs = r.inputs
  BY DEF Init
<1>2. r.pipeline \in Seq(Stage) /\ r.inputs \in Seq(Seq(Item))
  BY ReductionsAssumption
<1>3. PipelineInv
  BY <1>1, <1>2, PipelineInitInv
<1>4. ending \in 1..(N + 1)
  BY <1>3 DEF Init, N, PipelineInv, PipelineTypeOK
<1> QED
  BY <1>1, <1>2, <1>3, <1>4 DEF Init, Inv, TypeOK, PipelineInv, PipelineInit

\* Feeding an item starts a reduction on the first stage.
LEMMA FeedInv ==
  ASSUME PipelineInv, TypeOK, stack = <<>>, ~threw, Feed,
         ItemAt(pos + 1) \in Item,
         UNCHANGED <<pipeline, layer, out, threw>>
  PROVE  PipelineInv' /\ pos' \in Nat
<1>1. stack' = <<Loop(1, <<ItemAt(pos + 1)>>)>> /\ pos' \in Nat
  BY DEF Feed, TypeOK
<1>2. <<ItemAt(pos + 1)>> \in Seq(Item)
  OBVIOUS
<1>3. N \in Nat
  BY DEF N, PipelineInv, PipelineTypeOK
<1>4. 1 \in 1..(N + 1) /\ \A i \in 1..N : ~(i < 1)
  BY <1>3
<1> QED
  BY <1>1, <1>2, <1>4, StartInv

\* Every step of reduce() preserves the invariant.
LEMMA NextInv ==
  Inv /\ [Next]_vars => Inv'
<1> SUFFICES ASSUME Inv, [Next]_vars
             PROVE  Inv'
  OBVIOUS
<1>0. /\ PipelineInv /\ TypeOK /\ PipelineTypeOK /\ N \in Nat
  BY DEF Inv, TypeOK, N, PipelineTypeOK
<1>1. ASSUME pipeline' = pipeline, PipelineInv', inputs' = inputs,
             pc' \in {"loop", "complete", "done"},
             pos' \in Nat, ending' \in 1..(N + 1)
      PROVE  Inv'
  BY <1>0, <1>1 DEF Inv, TypeOK, N, PipelineInv
<1>2. ASSUME UNCHANGED pipeVars
      PROVE  PipelineInv' /\ pipeline' = pipeline
  BY <1>0, <1>2
     DEF pipeVars, PipelineInv, PipelineTypeOK, Ready, StartedInside, WrapPrefix,
         Failing, N
<1>3. CASE ReduceEmpty
  BY <1>0, <1>1, <1>2, <1>3 DEF ReduceEmpty, TypeOK
<1>4. CASE FeedFirst
  <2>1. pos = 0 /\ stack = <<>> /\ ~threw /\ IsNonEmpty /\ Feed
    BY <1>4 DEF FeedFirst, Inv
  <2>2. ItemAt(pos + 1) \in Item
    BY <1>0, <2>1, ItemAtType
  <2>3. PipelineInv' /\ pos' \in Nat
    BY <1>0, <1>4, <2>1, <2>2, FeedInv DEF FeedFirst
  <2> QED
    BY <1>0, <1>1, <1>4, <2>3 DEF FeedFirst, TypeOK
<1>5. CASE FeedNext
  <2>1. stack = <<>> /\ ~threw /\ More /\ Feed
    BY <1>5 DEF FeedNext, Idle
  <2>2. ItemAt(pos + 1) \in Item
    BY <1>0, <2>1, ItemAtType
  <2>3. PipelineInv' /\ pos' \in Nat
    BY <1>0, <1>5, <2>1, <2>2, FeedInv DEF FeedNext
  <2> QED
    BY <1>0, <1>1, <1>5, <2>3 DEF FeedNext, TypeOK
<1>6. CASE EndOfLoop
  BY <1>0, <1>1, <1>2, <1>6 DEF EndOfLoop, TypeOK
<1>7. CASE CompleteStage
  <2>1. /\ stack = <<>> /\ ~threw /\ ending \in 1..N
        /\ stack' = <<Loop(ending + 1, Flush(pipeline[ending], layer[ending]))>>
        /\ UNCHANGED <<pipeline, layer, out, threw>>
    BY <1>0, <1>7 DEF CompleteStage, Idle, TypeOK
  <2>2. PipelineInv'
    BY <1>0, <2>1, CompletionInv
  <2> QED
    BY <1>0, <1>1, <1>7, <2>1, <2>2 DEF CompleteStage, TypeOK
<1>8. CASE Finish
  BY <1>0, <1>1, <1>2, <1>8 DEF Finish, TypeOK
<1>9. CASE Run
  <2>1. PipelineInv'
    BY <1>0, <1>9, PipelineStepInv DEF Run
  <2>2. pipeline' = pipeline
    BY <1>9 DEF Run, PipelineStep, CallStage, CallBase, Return, ThrowFirst,
                StepThenThrow, Unwind
  <2>3. stack # <<>>
    BY <1>9 DEF Run, PipelineStep, CallStage, CallBase, Return, ThrowFirst,
                StepThenThrow, Unwind, Due
  <2>4. pc \in {"loop", "complete", "done"}
    BY <1>0, <2>3 DEF Inv, TypeOK
  <2> QED
    BY <1>0, <1>1, <1>9, <2>1, <2>2, <2>4 DEF Run, TypeOK
<1>10. CASE UNCHANGED vars
  BY <1>0, <1>2, <1>10 DEF vars, pipeVars, Inv, TypeOK, PipelineInv, N
<1> QED
  BY <1>3, <1>4, <1>5, <1>6, <1>7, <1>8, <1>9, <1>10 DEF Next, Stop

\* The invariant holds in every state of every reduction.
THEOREM Invariance == Spec => []Inv
BY InitInv, NextInv, PTL DEF Spec

\* The layers, the calls in progress and the output keep the types that the
\* code gives them, for every pipeline of every length and every input: no
\* stage is called with what it cannot take, no completion reads data that was
\* never made.
THEOREM TypeCorrect == Spec => []TypeOK
<1>1. Inv => TypeOK
  BY DEF Inv
<1> QED
  BY <1>1, Invariance, PTL

\* A stage has data only when every stage before it has, in every reduction and
\* at every point of the nested calls: state_complete, which peels the data off
\* from the outside, meets all of it (state_wrapper.hpp).
THEOREM LayersNested == Spec => []WrapPrefix
<1>1. Inv => WrapPrefix
  BY DEF Inv, PipelineInv
<1> QED
  BY <1>1, Invariance, PTL

(***************************************************************************)
(* When reduce() stops                                                     *)
(***************************************************************************)

\* With a polite pipeline: every call is in time, and what the stages that are
\* not completed yet hold back can still be fed.
InvStop ==
  /\ Inv
  /\ Polite(pipeline)
  /\ StopInv
  /\ \A k \in ending..N : HoldsBack(k)
  /\ pc = "start" => \A k \in 1..N : ~layer[k].called

\* No stage has been called before the first input.
LEMMA InitStop ==
  Init /\ Polite(pipeline) => InvStop
<1> SUFFICES ASSUME Init, Polite(pipeline)
             PROVE  InvStop
  OBVIOUS
<1>1. Inv
  BY InitInv
<1>2. PICK r \in Reductions : PipelineInit(r.pipeline)
  BY DEF Init
<1>3. stack = <<>> /\ \A k \in 1..N : ~layer[k].called /\ ~layer[k].flag
  BY <1>2 DEF PipelineInit, N, Fresh
<1>4. N \in Nat /\ ending = 1
  BY <1>1 DEF Inv, TypeOK, PipelineTypeOK, N, Init
<1>5. 1..Len(stack) = {}
  BY <1>3
<1>6. StopInv
  BY <1>3, <1>5 DEF StopInv, Outwards, StartsInTime, Marks
<1>7. ASSUME NEW k \in ending..N
      PROVE  HoldsBack(k)
  <2>1. \A i \in (k + 1)..N : i \in 1..N
    BY <1>4
  <2>2. Calm(layer, k)
    BY <1>3, <2>1 DEF Calm, ReducedWith, DataIsReduced
  <2> QED
    BY <1>3, <2>2, CalmAtRest
<1> QED
  BY <1>1, <1>3, <1>6, <1>7 DEF InvStop

\* Feeding an item to a state that is not reduced is in time.
LEMMA FeedStop ==
  ASSUME InvStop, stack = <<>>, Feed, ItemAt(pos + 1) \in Item,
         ~ReducedWith(layer, 1),
         UNCHANGED <<pipeline, layer, ending>>
  PROVE  StopInv' /\ (\A k \in ending..N : HoldsBack(k))'
<1>1. stack' = <<Loop(1, <<ItemAt(pos + 1)>>)>>
  BY DEF Feed
<1>2. <<ItemAt(pos + 1)>> \in Seq(Item) /\ 1 \in Nat \ {0}
  OBVIOUS
<1>3. PipelineTypeOK /\ Marks(layer) /\ N' = N
  BY DEF InvStop, Inv, TypeOK, StopInv, N
<1>4. /\ StopInv'
      /\ \A k \in 1..N : (1 <= k /\ Calm(layer, k)) => HoldsBack(k)'
  BY <1>1, <1>2, <1>3, StartStop
<1>5. ASSUME NEW k \in ending..N
      PROVE  HoldsBack(k)'
  <2>1. k \in 1..N /\ 1 <= k
    BY DEF InvStop, Inv, TypeOK, N, PipelineTypeOK
  <2>2. Calm(layer, k)
    BY DEF InvStop, HoldsBack
  <2> QED
    BY <1>4, <2>1, <2>2
<1> QED
  BY <1>3, <1>4, <1>5

\* Every step of reduce() preserves it.
LEMMA NextStop ==
  InvStop /\ [Next]_vars => InvStop'
<1> SUFFICES ASSUME InvStop, [Next]_vars
             PROVE  InvStop'
  OBVIOUS
<1>0. /\ PipelineInv /\ TypeOK /\ PipelineTypeOK /\ N \in Nat /\ ending \in 1..(N + 1)
      /\ StopInv /\ Polite(pipeline) /\ \A k \in ending..N : HoldsBack(k)
  BY DEF InvStop, Inv, TypeOK, N, PipelineTypeOK
<1>1. Inv'
  BY NextInv DEF InvStop
<1>2. ASSUME UNCHANGED pipeVars, ending' = ending
      PROVE  StopInv' /\ (\A k \in ending..N : HoldsBack(k))'
  BY <1>0, <1>2
     DEF pipeVars, StopInv, Outwards, StartsInTime, Marks, Reduced, Unstopped, N,
         HoldsBack, Calm, ReducedWith
<1>3. ASSUME pipeline' = pipeline, pc' # "start",
             StopInv', (\A k \in ending..N : HoldsBack(k))'
      PROVE  InvStop'
  BY <1>0, <1>1, <1>3 DEF InvStop
<1>4. CASE ReduceEmpty
  BY <1>2, <1>3, <1>4 DEF ReduceEmpty, pipeVars
<1>5. CASE FeedFirst
  <2>1. /\ pos = 0 /\ stack = <<>> /\ IsNonEmpty /\ Feed
        /\ \A k \in 1..N : ~layer[k].called
    BY <1>5 DEF FeedFirst, InvStop, Inv
  <2>2. ItemAt(pos + 1) \in Item
    BY <1>0, <2>1, ItemAtType
  <2>3. ~ReducedWith(layer, 1)
    BY <2>1 DEF ReducedWith, DataIsReduced
  <2>4. UNCHANGED <<pipeline, layer, ending>> /\ pc' = "loop"
    BY <1>5 DEF FeedFirst
  <2>5. StopInv' /\ (\A k \in ending..N : HoldsBack(k))'
    BY <2>1, <2>2, <2>3, <2>4, FeedStop
  <2> QED
    BY <1>3, <2>4, <2>5
<1>6. CASE FeedNext
  <2>1. stack = <<>> /\ More /\ Feed /\ ~ReducedWith(layer, 1)
    BY <1>6 DEF FeedNext, Idle, Reduced, ReducedWith
  <2>2. ItemAt(pos + 1) \in Item
    BY <1>0, <2>1, ItemAtType
  <2>3. UNCHANGED <<pipeline, layer, ending>> /\ pc' = "loop"
    BY <1>6 DEF FeedNext
  <2>4. StopInv' /\ (\A k \in ending..N : HoldsBack(k))'
    BY <2>1, <2>2, <2>3, FeedStop
  <2> QED
    BY <1>3, <2>3, <2>4
<1>7. CASE EndOfLoop
  BY <1>2, <1>3, <1>7 DEF EndOfLoop, pipeVars
<1>8. CASE CompleteStage
  <2>1. /\ stack = <<>> /\ ending \in 1..N /\ ending' = ending + 1 /\ N' = N
        /\ stack' = <<Loop(ending + 1, Flush(pipeline[ending], layer[ending]))>>
        /\ pipeline' = pipeline /\ layer' = layer /\ pc' = "complete"
    BY <1>0, <1>8 DEF CompleteStage, Idle, N
  <2>2. HoldsBack(ending)
    BY <1>0, <2>1
  <2>3. PICK k \in 1..N : k = ending
    BY <2>1
  <2>4. /\ stack' = <<Loop(k + 1, Flush(pipeline[k], layer[k]))>>
        /\ HoldsBack(k)
    BY <2>1, <2>2, <2>3
  <2>5. StopInv' /\ \A i \in (k + 1)..N : HoldsBack(i) => HoldsBack(i)'
    BY <1>0, <2>1, <2>4, CompletionStop
  <2>6. \A i \in (k + 1)..N : HoldsBack(i)
    BY <1>0, <2>3
  <2> QED
    BY <1>3, <2>1, <2>3, <2>5, <2>6
<1>9. CASE Finish
  BY <1>2, <1>3, <1>9 DEF Finish, pipeVars
<1>10. CASE Run
  <2>1. StopInv' /\ \A k \in 1..N : HoldsBack(k) => HoldsBack(k)'
    BY <1>0, <1>10, PipelineStepStop DEF Run
  <2>2. pipeline' = pipeline /\ stack # <<>> /\ pc' = pc /\ ending' = ending
    BY <1>10 DEF Run, PipelineStep, CallStage, CallBase, Return, ThrowFirst,
                 StepThenThrow, Unwind, Due
  <2>3. pc' # "start"
    BY <2>2 DEF InvStop, Inv
  <2>4. N' = N /\ \A k \in ending..N : k \in 1..N
    BY <1>0, <2>2 DEF N
  <2> QED
    BY <1>0, <1>3, <2>1, <2>2, <2>3, <2>4
<1>11. CASE UNCHANGED vars
  <2>1. StopInv' /\ (\A k \in ending..N : HoldsBack(k))'
    BY <1>2, <1>11 DEF vars
  <2>2. pipeline' = pipeline /\ layer' = layer /\ pc' = pc /\ N' = N
    BY <1>11 DEF vars, pipeVars, N
  <2> QED
    BY <1>0, <1>1, <2>1, <2>2 DEF InvStop
<1> QED
  BY <1>4, <1>5, <1>6, <1>7, <1>8, <1>9, <1>10, <1>11 DEF Next, Stop

\* The invariant of polite pipelines holds in every state.
LEMMA InvarianceStop == Spec /\ Polite(pipeline) => []InvStop
BY InitStop, NextStop, PTL DEF Spec

\* In a polite pipeline of any length no stage is ever called with a state that
\* a stage after it has ended: every loop (reduce, reduce_nested, interpose,
\* product) and every completion (sorted, reversed, partition) asks in time.
THEOREM FeedsInTime == Spec /\ Polite(pipeline) => []NoFeedAfterReduced
<1>1. InvStop => NoFeedAfterReduced
  BY InTime DEF InvStop, Inv, TypeOK
<1> QED
  BY <1>1, InvarianceStop, PTL

\* Nor is a mark ever taken back, although take_while() clears its own with
\* every item that passes: it is not given one after a mark.
THEOREM ReducedForGood == Spec /\ Polite(pipeline) => StaysReduced
<1> DEFINE Stays == \A k \in 1..N : Reduced(k) => Reduced(k)'
<1>1. InvStop /\ [Next]_vars => [Stays]_vars
  <2> SUFFICES ASSUME InvStop, Next, NEW k \in 1..N, Reduced(k)
               PROVE  Reduced(k)'
    OBVIOUS
  <2>1. CASE layer' = layer /\ pipeline' = pipeline
    BY <2>1 DEF Reduced, N
  <2>2. CASE CallStage
    <3>1. /\ PipelineTypeOK /\ StopInv /\ Due
          /\ pipeline' = pipeline /\ N' = N
          /\ layer' = [layer EXCEPT ![Top.at] = Step(pipeline[Top.at], layer[Top.at],
                                                    Head(Top.todo)).layer]
      BY <2>2 DEF CallStage, InvStop, Inv, TypeOK, N
    <3>2. PICK i \in k..N : DataIsReduced(pipeline[i], layer[i])
      BY DEF Reduced
    <3>3. i # Top.at /\ i \in 1..N
      <4>1. ~Reduced(Top.at)
        BY <3>1, InTime DEF NoFeedAfterReduced
      <4>2. i \in 1..N
        BY DEF N, InvStop, Inv, TypeOK, PipelineTypeOK
      <4> QED
        BY <3>2, <4>1, <4>2 DEF Reduced
    <3>4. layer'[i] = layer[i]
      BY <3>1, <3>3 DEF PipelineTypeOK
    <3> QED
      BY <3>1, <3>2, <3>4 DEF Reduced
  <2> QED
    BY <2>1, <2>2
       DEF Next, ReduceEmpty, FeedFirst, FeedNext, EndOfLoop, CompleteStage, Finish,
           Run, Stop, PipelineStep, CallBase, Return, ThrowFirst, StepThenThrow,
           Unwind, vars, pipeVars
<1>2. StaysReduced <=> [][Stays]_vars
  BY DEF StaysReduced
<1>3. Spec => [][Next]_vars
  BY PTL DEF Spec
<1> HIDE DEF Stays
<1> QED
  BY <1>1, <1>2, <1>3, InvarianceStop, PTL

(***************************************************************************)
(* What reduce() comes to                                                  *)
(***************************************************************************)

\* The input after the first p items, the next so many calls of a generator.
Rest(p, calls) ==
  IF inputs = <<>>
  THEN [i \in 1..calls |-> <<>>]
  ELSE [i \in 1..(Shortest - p) |-> ItemAt(p + i)]

\* What reduce() will still feed to the pipeline.
Ahead(calls) == IF pc \in {"start", "loop"} THEN Rest(pos, calls) ELSE <<>>

\* What has come out, followed by what will still come out.
Total(calls) == out \o Coming(pipeline, layer, stack, Ahead(calls), ending..N)[N]

\* It is always what the stages make of the whole input, one after the other; n
\* is how often a generator has been called.
Promise ==
  ~Failing =>
    \E n \in Nat : \A m \in Nat : Total(m) = Through(pipeline, Input(n + m), TRUE)

\* In the end no call is in progress, and every stage that has data is completed.
AtEnd ==
  pc = "done" => /\ stack = <<>>
                 /\ ending = N + 1 \/ \A k \in 1..N : ~layer[k].called

\* The shortest range is one of the ranges, and none is shorter.
LEMMA ShortestDef ==
  ASSUME TypeOK, inputs # <<>>
  PROVE  /\ Shortest \in Nat
         /\ \A r \in 1..Len(inputs) : Shortest <= Len(inputs[r])
         /\ \E r \in 1..Len(inputs) : Shortest = Len(inputs[r])
<1> DEFINE T == {Len(inputs[r]) : r \in 1..Len(inputs)}
<1>1. inputs \in Seq(Seq(Item)) /\ \A r \in 1..Len(inputs) : Len(inputs[r]) \in Nat
  BY DEF TypeOK
<1>2. T \in SUBSET Nat /\ T # {}
  <2>1. 1 \in 1..Len(inputs)
    BY <1>1
  <2>2. Len(inputs[1]) \in T
    BY <2>1
  <2> QED
    BY <1>1, <2>2
<1>3. \E n \in T : \A t \in T : n <= t
  <2> HIDE DEF T
  <2> QED
    BY <1>2, LeastElement
<1>4. \E n \in T : \A r \in 1..Len(inputs) : n <= Len(inputs[r])
  BY <1>3
<1>5. Shortest \in T /\ \A r \in 1..Len(inputs) : Shortest <= Len(inputs[r])
  <2> HIDE DEF T
  <2>1. Shortest = CHOOSE n \in T : \A r \in 1..Len(inputs) : n <= Len(inputs[r])
    BY Zenon DEF Shortest, T
  <2> QED
    BY <1>4, <2>1
<1> QED
  BY <1>2, <1>5

\* What is left of the input is a sequence of items.
LEMMA RestType ==
  ASSUME TypeOK, NEW calls \in Nat, NEW p \in Nat
  PROVE  Rest(p, calls) \in Seq(Item)
<1>1. CASE inputs = <<>>
  <2>1. Rest(p, calls) = [i \in 1..calls |-> <<>>]
    BY <1>1 DEF Rest
  <2>2. <<>> \in Item
    BY DEF Item
  <2> QED
    BY <2>1, <2>2
<1>2. CASE inputs # <<>>
  <2>1. /\ Shortest \in Nat
        /\ \A r \in 1..Len(inputs) : Shortest <= Len(inputs[r])
    BY <1>2, ShortestDef
  <2>2. ASSUME NEW i \in 1..(Shortest - p)
        PROVE  ItemAt(p + i) \in Item
    <3>1. p + i \in 1..Shortest
      BY <2>1
    <3>2. \A r \in 1..Len(inputs) : Len(inputs[r]) \in Nat
      BY DEF TypeOK
    <3>3. \A r \in 1..Len(inputs) : p + i \in 1..Len(inputs[r])
      BY <2>1, <3>1, <3>2
    <3> QED
      BY <3>3, ItemType
  <2>3. PICK f : f = Rest(p, calls)
    OBVIOUS
  <2>4. f = [i \in 1..(Shortest - p) |-> ItemAt(p + i)]
    BY <1>2, <2>3 DEF Rest
  <2> QED
    <3>1. CASE p <= Shortest
      <4>1. PICK m \in Nat : m = Shortest - p
        BY <2>1, <3>1
      <4> QED
        BY <2>2, <2>3, <2>4, <4>1
    <3>2. CASE ~(p <= Shortest)
      <4>1. 1..(Shortest - p) = 1..0
        BY <2>1, <3>2
      <4>2. PICK m \in Nat : m = 0
        OBVIOUS
      <4>3. f \in [1..m -> Item]
        BY <2>4, <4>1, <4>2
      <4> QED
        BY <2>3, <4>3
    <3> QED
      BY <3>1, <3>2
<1> QED
  BY <1>1, <1>2

\* With every call of the first stage, the next item leaves the input.
LEMMA RestFed ==
  ASSUME TypeOK, IsNonEmpty \/ More, pos = 0 \/ More, NEW calls \in Nat
  PROVE  Rest(pos, calls + 1) =
           <<ItemAt(pos + 1)>> \o Rest(IF inputs = <<>> THEN pos ELSE pos + 1, calls)
<1>0. pos \in Nat /\ inputs \in Seq(Seq(Item))
  BY DEF TypeOK
<1>1. CASE inputs = <<>>
  <2>1. ItemAt(pos + 1) = <<>>
    <3>1. Len(inputs) = 0
      BY <1>1
    <3>2. ItemAt(pos + 1) = [r \in 1..0 |-> Key(inputs[r][pos + 1])]
      BY <3>1 DEF ItemAt
    <3> QED
      BY <3>2
  <2>2. /\ Rest(pos, calls + 1) = [i \in 1..(calls + 1) |-> <<>>]
        /\ Rest(pos, calls) = [i \in 1..calls |-> <<>>]
    BY <1>1 DEF Rest
  <2>3. [i \in 1..(calls + 1) |-> <<>>] = << <<>> >> \o [i \in 1..calls |-> <<>>]
    OBVIOUS
  <2> QED
    BY <1>1, <2>1, <2>2, <2>3
<1>2. CASE inputs # <<>>
  <2>1. /\ Shortest \in Nat
        /\ \E r \in 1..Len(inputs) : Shortest = Len(inputs[r])
    BY <1>2, ShortestDef
  <2>2. pos < Shortest
    <3>1. PICK r \in 1..Len(inputs) : Shortest = Len(inputs[r])
      BY <2>1
    <3>2. CASE More
      BY <3>1, <3>2 DEF More
    <3>3. CASE pos = 0 /\ IsNonEmpty
      <4>1. inputs[r] # <<>> /\ inputs[r] \in Seq(Item)
        BY <1>0, <3>1, <3>3 DEF IsNonEmpty
      <4>2. Len(inputs[r]) > 0
        BY <4>1
      <4> QED
        BY <3>1, <3>3, <4>2
    <3> QED
      BY <3>2, <3>3
  <2>3. PICK m \in Nat : Shortest - pos = m + 1 /\ Shortest - (pos + 1) = m
    <3>1. PICK s \in Nat, p \in Nat : s = Shortest /\ p = pos /\ p < s
      BY <1>0, <2>1, <2>2
    <3>2. s - (p + 1) \in Nat /\ s - p = (s - (p + 1)) + 1
      BY <3>1
    <3> QED
      BY <3>1, <3>2
  <2>4. /\ Rest(pos, calls + 1) = [i \in 1..(m + 1) |-> ItemAt(pos + i)]
        /\ Rest(pos + 1, calls) = [i \in 1..m |-> ItemAt((pos + 1) + i)]
    BY <1>2, <2>3 DEF Rest
  <2>5. \A i \in 1..m : (pos + 1) + i = pos + (i + 1)
    BY <1>0
  <2>6. Rest(pos + 1, calls) = [i \in 1..m |-> ItemAt(pos + (i + 1))]
    BY <2>4, <2>5
  <2>7. [i \in 1..(m + 1) |-> ItemAt(pos + i)] =
          <<ItemAt(pos + 1)>> \o [i \in 1..m |-> ItemAt(pos + (i + 1))]
    OBVIOUS
  <2> QED
    BY <1>2, <2>4, <2>6, <2>7
<1> QED
  BY <1>1, <1>2

\* After the last item of the shortest range nothing is left.
LEMMA RestOver ==
  ASSUME TypeOK, NEW calls \in Nat, \E r \in 1..Len(inputs) : Len(inputs[r]) <= pos
  PROVE  Rest(pos, calls) = <<>>
<1>1. inputs # <<>> /\ pos \in Nat
  BY DEF TypeOK
<1>2. Shortest \in Nat /\ Shortest <= pos
  <2>1. Shortest \in Nat /\ \A r \in 1..Len(inputs) : Shortest <= Len(inputs[r])
    BY <1>1, ShortestDef
  <2>2. \A r \in 1..Len(inputs) : Len(inputs[r]) \in Nat
    BY DEF TypeOK
  <2> QED
    BY <1>1, <2>1, <2>2
<1>3. 1..(Shortest - pos) = 1..0
  BY <1>1, <1>2
<1>4. Rest(pos, calls) = [i \in 1..0 |-> ItemAt(pos + i)]
  BY <1>1, <1>3 DEF Rest
<1> QED
  BY <1>4

\* What depends on the input ranges only does not change.
LEMMA SameInputs ==
  ASSUME inputs' = inputs, NEW calls, NEW p
  PROVE  Input(calls)' = Input(calls) /\ Rest(p, calls)' = Rest(p, calls)
<1>1. \A i : ItemAt(i)' = ItemAt(i)
  BY DEF ItemAt
<1>2. Shortest' = Shortest
  BY DEF Shortest
<1> QED
  BY <1>1, <1>2 DEF Input, Rest

\* A step keeps the promise if it changes nothing of the total, or if it is the
\* next call of the first stage.
LEMMA TotalKept ==
  ASSUME Promise, ~Failing' => ~Failing, pipeline' = pipeline, inputs' = inputs,
         NEW s \in Nat, ~Failing' => \A m \in Nat : Total(m)' = Total(m + s)
  PROVE  Promise'
<1> SUFFICES ASSUME ~Failing'
             PROVE  (\E n \in Nat : \A m \in Nat :
                       Total(m) = Through(pipeline, Input(n + m), TRUE))'
  BY DEF Promise
<1>1. PICK n \in Nat : \A m \in Nat : Total(m) = Through(pipeline, Input(n + m), TRUE)
  BY DEF Promise
<1>2. PICK k \in Nat : k = n + s
  OBVIOUS
<1>3. ASSUME NEW m \in Nat
      PROVE  Total(m)' = Through(pipeline', Input(k + m)', TRUE)
  <2>1. PICK a \in Nat : a = m + s
    OBVIOUS
  <2>2. PICK b \in Nat : b = n + a /\ b = k + m
    BY <1>2, <2>1
  <2>3. Total(m)' = Total(a)
    BY <2>1
  <2>4. Total(a) = Through(pipeline, Input(b), TRUE)
    BY <1>1, <2>2
  <2>5. Input(b)' = Input(b)
    BY SameInputs
  <2>6. Input(k + m)' = Input(b)'
    BY <2>2
  <2> QED
    BY <2>3, <2>4, <2>5, <2>6, Zenon
<1> QED
  BY <1>3

\* The promise is made at the start.
LEMMA InitOut ==
  Init /\ Polite(pipeline) => Promise /\ AtEnd
<1> SUFFICES ASSUME Init, Polite(pipeline)
             PROVE  Promise /\ AtEnd
  OBVIOUS
<1>1. Inv /\ TypeOK /\ PipelineInv /\ pipeline \in Seq(Stage)
  BY InitInv DEF Inv, PipelineInv, PipelineTypeOK
<1>2. /\ stack = <<>> /\ out = <<>> /\ \A k \in 1..N : layer[k] = Fresh
      /\ pc = "start" /\ pos = 0 /\ ending = 1 /\ N = Len(pipeline)
  BY DEF Init, PipelineInit, N
<1>3. ASSUME NEW m \in Nat
      PROVE  Total(m) = Through(pipeline, Input(0 + m), TRUE)
  <2>1. Rest(0, m) \in Seq(Item) /\ Rest(0, m) = Input(0 + m)
    <3>1. Rest(0, m) \in Seq(Item)
      BY <1>1, RestType
    <3>2. 0 + m = m
      OBVIOUS
    <3>3. CASE inputs = <<>>
      BY <3>1, <3>2, <3>3 DEF Rest, Input
    <3>4. CASE inputs # <<>>
      <4>1. Shortest \in Nat
        BY <1>1, <3>4, ShortestDef
      <4>2. Shortest - 0 = Shortest /\ \A i \in 1..Shortest : 0 + i = i
        BY <4>1
      <4>3. Rest(0, m) = [i \in 1..Shortest |-> ItemAt(i)]
        BY <3>4, <4>2 DEF Rest
      <4> QED
        BY <3>1, <3>2, <3>4, <4>3 DEF Input
    <3> QED
      BY <3>1, <3>3, <3>4
  <2>2. Ahead(m) = Rest(0, m)
    BY <1>2 DEF Ahead
  <2> DEFINE closing == ending..N
             coming == Coming(pipeline, layer, stack, Ahead(m), closing)[N]
  <2>3. coming = Through(pipeline, Rest(0, m), TRUE)
    <3>1. PICK xs \in Seq(Item) : xs = Rest(0, m)
      BY <2>1
    <3>2. \A k \in 1..Len(pipeline) : layer[k] = Fresh /\ (k \in closing) = TRUE
      BY <1>1, <1>2
    <3>3. Coming(pipeline, layer, <<>>, xs, closing)[Len(pipeline)] =
            Through(pipeline, xs, TRUE)
      <4> HIDE DEF closing
      <4> QED
        BY <1>1, <3>2, ComingThrough
    <3> QED
      BY <1>2, <2>2, <3>1, <3>3
  <2>4. coming \in Seq(Item)
    <3> HIDE DEF closing
    <3> QED
      BY <1>1, <2>1, <2>2, ComingType
  <2>5. Total(m) = <<>> \o coming
    BY <1>2 DEF Total
  <2> HIDE DEF coming
  <2> QED
    BY <2>1, <2>3, <2>4, <2>5, NoItems
<1>4. \E n \in Nat : \A m \in Nat : Total(m) = Through(pipeline, Input(n + m), TRUE)
  BY <1>3
<1> QED
  BY <1>2, <1>4 DEF Promise, AtEnd

\* What is ahead is a sequence of items.
LEMMA AheadType ==
  ASSUME TypeOK, NEW calls \in Nat
  PROVE  Ahead(calls) \in Seq(Item)
<1>1. pos \in Nat
  BY DEF TypeOK
<1>2. Rest(pos, calls) \in Seq(Item)
  BY <1>1, RestType
<1> QED
  BY <1>2 DEF Ahead

\* An item that is fed waits for the first stage, and no longer in the ranges.
LEMMA FeedOut ==
  ASSUME InvStop, Promise, stack = <<>>, ~threw, Feed,
         IsNonEmpty \/ More, pos = 0 \/ More, pc \in {"start", "loop"}, pc' = "loop",
         UNCHANGED <<pipeline, layer, out, threw, inputs, ending>>
  PROVE  Promise'
<1>1. /\ TypeOK /\ PipelineInv /\ N' = N /\ N = Len(pipeline)
      /\ pipeline \in Seq(Stage) /\ Able(pipeline, layer) /\ pos \in Nat
  BY LayersAble DEF InvStop, Inv, PipelineInv, PipelineTypeOK, TypeOK, N
<1>2. PICK x \in Item : x = ItemAt(pos + 1)
  BY <1>1, ItemAtType
<1>3. PICK p \in Nat : p = IF inputs = <<>> THEN pos ELSE pos + 1
  BY <1>1
<1>4. stack' = <<Loop(1, <<x>>)>> /\ pos' = p
  BY <1>2, <1>3 DEF Feed
<1>5. stack' = <<Loop(1, <<x>>)>> /\ stack = <<>>
  BY <1>4
<1>6. ASSUME NEW m \in Nat
      PROVE  Total(m)' = Total(m + 1)
  <2>1. PICK ahead \in Seq(Item), ahead2 \in Seq(Item) :
          ahead = Ahead(m + 1) /\ ahead2 = Ahead(m)' /\ ahead = <<x>> \o ahead2
    <3>1. Rest(p, m) \in Seq(Item)
      BY <1>1, RestType
    <3>2. m + 1 \in Nat
      OBVIOUS
    <3>3. Rest(pos, m + 1) \in Seq(Item)
      BY <1>1, <3>2, RestType
    <3>4. Rest(pos, m + 1) = <<x>> \o Rest(p, m)
      BY <1>1, <1>2, <1>3, RestFed
    <3>5. Rest(p, m)' = Rest(p, m)
      BY SameInputs
    <3>6. Ahead(m)' = Rest(p, m)' /\ Ahead(m + 1) = Rest(pos, m + 1)
      BY <1>4 DEF Ahead
    <3> QED
      BY <3>1, <3>3, <3>4, <3>5, <3>6, Zenon
  <2>2. \A closing : Coming(pipeline, layer, <<Loop(1, <<x>>)>>, ahead2, closing)[Len(pipeline)] =
                       Coming(pipeline, layer, <<>>, <<x>> \o ahead2, closing)[Len(pipeline)]
    BY <1>1, FeedKeeps
  <2>3. /\ Total(m + 1) = out \o Coming(pipeline, layer, <<>>, <<x>> \o ahead2, ending..N)[N]
        /\ Total(m)' = out \o Coming(pipeline, layer, <<Loop(1, <<x>>)>>, ahead2, ending..N)[N]
    BY <1>1, <1>5, <2>1 DEF Total
  <2> QED
    BY <1>1, <2>2, <2>3, Zenon
<1>7. ~Failing
  BY DEF Failing
<1>8. 1 \in Nat
  OBVIOUS
<1> QED
  BY <1>6, <1>7, <1>8, TotalKept

\* When the loop ends, either nothing is ahead or a stage has ended the reduction.
LEMMA EndOfLoopOut ==
  ASSUME InvStop, Promise, EndOfLoop
  PROVE  Promise'
<1>1. /\ TypeOK /\ PipelineInv /\ N' = N /\ N = Len(pipeline)
      /\ pipeline \in Seq(Stage) /\ Able(pipeline, layer) /\ stack \in Seq(Frame)
      /\ \A r \in 1..Len(inputs) : Len(inputs[r]) \in Nat
  BY LayersAble
     DEF InvStop, Inv, PipelineInv, PipelineTypeOK, TypeOK, N, EndOfLoop, pipeVars
<1>2. /\ pc = "loop" /\ stack = <<>> /\ ~threw /\ pc' = "complete" /\ pos \in Nat
      /\ UNCHANGED <<pipeline, layer, stack, out, threw, inputs, pos, ending>>
  BY <1>1 DEF EndOfLoop, Idle, pipeVars, TypeOK
<1>3. ASSUME NEW m \in Nat
      PROVE  Total(m)' = Total(m + 0)
  <2>1. PICK ahead \in Seq(Item), none \in Seq(Item) :
          ahead = Ahead(m) /\ none = <<>> /\ none = Ahead(m)'
    <3>1. Ahead(m) \in Seq(Item)
      BY <1>1, AheadType
    <3>2. Ahead(m)' = <<>> /\ <<>> \in Seq(Item)
      BY <1>2 DEF Ahead
    <3> QED
      BY <3>1, <3>2, Zenon
  <2>2. Coming(pipeline, layer, stack, ahead, ending..N)[Len(pipeline)] =
          Coming(pipeline, layer, stack, none, ending..N)[Len(pipeline)]
    <3>1. CASE Reduced(1)
      <4>1. PICK j \in 1..Len(pipeline) : DataIsReduced(pipeline[j], layer[j])
        BY <1>1, <3>1 DEF Reduced
      <4>2. SameQueued(j + 1, Len(pipeline) + 1, stack, stack)
        BY DEF SameQueued
      <4>3. PICK closing : closing = ending..N
        OBVIOUS
      <4>4. Coming(pipeline, layer, stack, ahead, closing)[Len(pipeline)] =
              Coming(pipeline, layer, stack, none, closing)[Len(pipeline)]
        <5>1. pipeline \in Seq(Stage) /\ stack \in Seq(Frame) /\ Able(pipeline, layer)
          BY <1>1
        <5>2. DataIsReduced(pipeline[j], layer[j])
          BY <4>1
        <5>3. ahead \in Seq(Item) /\ none \in Seq(Item) /\ j \in 1..Len(pipeline)
          OBVIOUS
        <5>4. SameFrom(Coming(pipeline, layer, stack, ahead, closing),
                       Coming(pipeline, layer, stack, none, closing), j, Len(pipeline))
          BY ONLY <4>2, <5>1, <5>2, <5>3, ComingStopped
        <5>5. Len(pipeline) \in j..Len(pipeline)
          BY <1>1
        <5> QED
          BY <5>4, <5>5 DEF SameFrom
      <4> QED
        BY <4>3, <4>4
    <3>2. CASE ~More
      <4>1. \E r \in 1..Len(inputs) : Len(inputs[r]) <= pos
        BY <1>1, <1>2, <3>2 DEF More
      <4>2. ahead = none
        BY <1>1, <1>2, <2>1, <4>1, RestOver DEF Ahead
      <4> QED
        BY <4>2
    <3> QED
      BY <3>1, <3>2 DEF EndOfLoop
  <2>3. /\ Total(m) = out \o Coming(pipeline, layer, stack, ahead, ending..N)[N]
        /\ Total(m)' = out \o Coming(pipeline, layer, stack, none, ending..N)[N]
    BY <1>1, <1>2, <2>1 DEF Total
  <2>4. m + 0 = m
    OBVIOUS
  <2> QED
    BY <1>1, <2>2, <2>3, <2>4, Zenon
<1>4. ~Failing
  BY <1>2 DEF Failing
<1>5. 0 \in Nat /\ pipeline' = pipeline /\ inputs' = inputs
  BY <1>2
<1> QED
  BY <1>3, <1>4, <1>5, TotalKept

\* What a completed stage held back is fed to the next one.
LEMMA CompleteStageOut ==
  ASSUME InvStop, Promise, CompleteStage
  PROVE  Promise'
<1>1. /\ TypeOK /\ PipelineTypeOK /\ PipelineInv /\ N' = N /\ N = Len(pipeline)
      /\ pipeline \in Seq(Stage) /\ Able(pipeline, layer) /\ ending \in 1..(N + 1)
      /\ N \in Nat
  BY LayersAble
     DEF InvStop, Inv, PipelineInv, PipelineTypeOK, TypeOK, N, CompleteStage
<1>2. /\ pc = "complete" /\ stack = <<>> /\ ~threw /\ pc' = "complete"
      /\ ending <= N /\ ending' = ending + 1
      /\ UNCHANGED <<pipeline, layer, out, threw, inputs, pos>>
      /\ stack' = <<Loop(ending + 1, Flush(pipeline[ending], layer[ending]))>>
  BY DEF CompleteStage, Idle
<1>3. PICK k \in 1..Len(pipeline) : k = ending
  BY <1>1, <1>2
<1>4. PICK fr : fr = Loop(k + 1, Flush(pipeline[k], layer[k])) /\ stack' = <<fr>>
  BY <1>2, <1>3
<1>5. Coming(pipeline, layer, <<fr>>, <<>>, (k + 1)..Len(pipeline))[Len(pipeline)] =
        Coming(pipeline, layer, <<>>, <<>>, k..Len(pipeline))[Len(pipeline)]
  <2>1. layer \in [1..Len(pipeline) -> Layer]
    BY <1>1 DEF PipelineTypeOK
  <2> QED
    BY <1>1, <1>4, <2>1, CompletionKeeps
<1>6. ASSUME NEW m \in Nat
      PROVE  Total(m)' = Total(m + 0)
  <2>1. m + 0 = m /\ Ahead(m) = <<>> /\ Ahead(m)' = <<>>
    BY <1>2 DEF Ahead
  <2>2. Total(m) = out \o Coming(pipeline, layer, <<>>, <<>>, k..Len(pipeline))[Len(pipeline)]
    BY <1>1, <1>2, <1>3, <2>1 DEF Total
  <2>3. Total(m)' =
          out \o Coming(pipeline, layer, <<fr>>, <<>>, (k + 1)..Len(pipeline))[Len(pipeline)]
    BY <1>1, <1>2, <1>3, <1>4, <2>1 DEF Total
  <2> QED
    BY <1>5, <2>1, <2>2, <2>3, Zenon
<1>7. ~Failing
  BY <1>2 DEF Failing
<1>8. 0 \in Nat /\ pipeline' = pipeline /\ inputs' = inputs
  BY <1>2
<1> QED
  BY <1>6, <1>7, <1>8, TotalKept

\* A step of the nested calls keeps the total (StepKeeps).
LEMMA RunOut ==
  ASSUME InvStop, Promise, Run
  PROVE  Promise'
<1>1. /\ TypeOK /\ PipelineInv /\ StopInv /\ PipelineStep /\ N' = N
      /\ UNCHANGED <<pipeline, inputs, pc, pos, ending>>
  <2>1. pipeline' = pipeline
    BY DEF Run, PipelineStep, CallStage, CallBase, Return, ThrowFirst, StepThenThrow,
           Unwind
  <2> QED
    BY <2>1 DEF InvStop, Inv, Run, N
<1>2. ~Failing' => ~Failing
  BY <1>1, StillFailing
<1>3. ASSUME ~Failing', NEW m \in Nat
      PROVE  Total(m)' = Total(m + 0)
  <2>1. PICK ahead \in Seq(Item) : ahead = Ahead(m)
    BY <1>1, AheadType
  <2>2. Ahead(m)' = ahead
    <3>1. Rest(pos, m)' = Rest(pos, m)
      <4>1. PICK p : p = pos
        OBVIOUS
      <4>2. Rest(p, m)' = Rest(p, m)
        BY <1>1, SameInputs
      <4>3. Rest(pos, m)' = Rest(p, m)'
        BY <1>1, <4>1
      <4> QED
        BY <4>1, <4>2, <4>3
    <3> QED
      BY <1>1, <2>1, <3>1 DEF Ahead
  <2>3. \A closing : out' \o Coming(pipeline, layer', stack', ahead, closing)[N] =
                     out \o Coming(pipeline, layer, stack, ahead, closing)[N]
    BY <1>1, <1>3, StepKeeps
  <2>4. m + 0 = m
    OBVIOUS
  <2>5. /\ Total(m)' = out' \o Coming(pipeline, layer', stack', ahead, ending..N)[N]
        /\ Total(m) = out \o Coming(pipeline, layer, stack, ahead, ending..N)[N]
    BY <1>1, <2>1, <2>2 DEF Total
  <2> QED
    BY <2>3, <2>4, <2>5, Zenon
<1>4. 0 \in Nat
  OBVIOUS
<1> QED
  BY <1>1, <1>2, <1>3, <1>4, TotalKept

\* With a polite pipeline: what has come out and what is still to come are, taken
\* together, what the stages make of the input.
InvOut == InvStop /\ Promise /\ AtEnd

\* Every step of reduce() keeps the promise.
LEMMA NextOut ==
  InvOut /\ [Next]_vars => InvOut'
<1> SUFFICES ASSUME InvOut, [Next]_vars
             PROVE  InvOut'
  OBVIOUS
<1>0. /\ InvStop /\ Promise /\ AtEnd
      /\ pc = "start" => pos = 0 /\ stack = <<>> /\ ~threw /\ \A k \in 1..N : ~layer[k].called
  BY DEF InvOut, InvStop, Inv
<1>1. InvStop'
  BY <1>0, NextStop
<1>2. ASSUME UNCHANGED <<pipeVars, inputs, pos, ending>>,
             \A m \in Nat : Ahead(m)' = Ahead(m)
      PROVE  Promise'
  <2>1. ASSUME NEW m \in Nat
        PROVE  Total(m)' = Total(m + 0)
    <3>1. m + 0 = m /\ Ahead(m)' = Ahead(m) /\ N' = N
      BY <1>2 DEF pipeVars, N
    <3> QED
      BY <1>2, <3>1 DEF Total, pipeVars
  <2>2. Failing' = Failing
    BY <1>2 DEF Failing, pipeVars
  <2>3. 0 \in Nat /\ pipeline' = pipeline /\ inputs' = inputs
    BY <1>2 DEF pipeVars
  <2> QED
    BY <1>0, <2>1, <2>2, <2>3, TotalKept
<1>3. ASSUME Promise', pc' # "done"
      PROVE  InvOut'
  BY <1>1, <1>3 DEF InvOut, AtEnd
<1>4. CASE ReduceEmpty
  <2>1. /\ pc = "start" /\ pc' = "done" /\ ~IsNonEmpty
        /\ UNCHANGED <<pipeVars, inputs, pos, ending>>
    BY <1>4 DEF ReduceEmpty
  <2>2. ASSUME NEW m \in Nat
        PROVE  Ahead(m)' = Ahead(m)
    <3>1. Ahead(m) = Rest(pos, m) /\ Ahead(m)' = <<>>
      BY <2>1 DEF Ahead
    <3>2. TypeOK /\ pos = 0
      BY <1>0, <2>1 DEF InvStop, Inv
    <3>3. \E r \in 1..Len(inputs) : Len(inputs[r]) <= pos
      BY <2>1, <3>2 DEF IsNonEmpty
    <3> QED
      BY <3>1, <3>2, <3>3, RestOver
  <2>3. Promise'
    BY <1>2, <2>1, <2>2
  <2>4. stack' = <<>> /\ layer' = layer /\ N' = N /\ \A k \in 1..N : ~layer[k].called
    BY <1>0, <2>1 DEF pipeVars, N
  <2>5. AtEnd'
    BY <2>4 DEF AtEnd
  <2> QED
    BY <1>1, <2>3, <2>5 DEF InvOut
<1>5. CASE FeedFirst
  <2>1. /\ stack = <<>> /\ ~threw /\ Feed /\ IsNonEmpty /\ pos = 0
        /\ pc = "start" /\ pc' = "loop"
        /\ UNCHANGED <<pipeline, layer, out, threw, inputs, ending>>
    BY <1>0, <1>5 DEF FeedFirst
  <2>2. Promise'
    BY <1>0, <2>1, FeedOut
  <2> QED
    BY <1>3, <2>1, <2>2
<1>6. CASE FeedNext
  <2>1. /\ stack = <<>> /\ ~threw /\ Feed /\ More
        /\ pc = "loop" /\ pc' = "loop"
        /\ UNCHANGED <<pipeline, layer, out, threw, inputs, ending>>
    BY <1>6 DEF FeedNext, Idle
  <2>2. Promise'
    BY <1>0, <2>1, FeedOut
  <2> QED
    BY <1>3, <2>1, <2>2
<1>7. CASE EndOfLoop
  <2>1. Promise' /\ pc' = "complete"
    BY <1>0, <1>7, EndOfLoopOut DEF EndOfLoop
  <2> QED
    BY <1>3, <2>1
<1>8. CASE CompleteStage
  <2>1. Promise' /\ pc' = "complete"
    BY <1>0, <1>8, CompleteStageOut DEF CompleteStage
  <2> QED
    BY <1>3, <2>1
<1>9. CASE Finish
  <2>1. /\ pc = "complete" /\ pc' = "done" /\ stack = <<>> /\ ending = N + 1
        /\ UNCHANGED <<pipeVars, inputs, pos, ending>>
    BY <1>9 DEF Finish, Idle
  <2>2. \A m \in Nat : Ahead(m)' = Ahead(m)
    BY <2>1 DEF Ahead
  <2>3. Promise'
    BY <1>2, <2>1, <2>2
  <2>4. AtEnd'
    BY <2>1 DEF AtEnd, pipeVars, N
  <2> QED
    BY <1>1, <2>3, <2>4 DEF InvOut
<1>10. CASE Run
  <2>1. stack # <<>> /\ pc' = pc
    BY <1>10 DEF Run, PipelineStep, CallStage, CallBase, Return, ThrowFirst,
                 StepThenThrow, Unwind, Due
  <2>2. pc' # "done"
    BY <1>0, <2>1 DEF AtEnd
  <2>3. Promise'
    BY <1>0, <1>10, RunOut
  <2> QED
    BY <1>3, <2>2, <2>3
<1>11. CASE UNCHANGED vars
  <2>1. /\ UNCHANGED <<pipeVars, inputs, pos, ending, pc>>
        /\ UNCHANGED <<stack, layer>> /\ N' = N
    BY <1>11 DEF vars, pipeVars, N
  <2>2. ASSUME NEW m \in Nat
        PROVE  Ahead(m)' = Ahead(m)
    <3>1. PICK p : p = pos
      OBVIOUS
    <3>2. Rest(p, m)' = Rest(p, m)
      BY <2>1, SameInputs
    <3>3. Rest(pos, m)' = Rest(p, m)'
      BY <2>1, <3>1
    <3> QED
      BY <2>1, <3>1, <3>2, <3>3 DEF Ahead
  <2>3. Promise'
    BY <1>2, <2>1, <2>2
  <2>4. AtEnd'
    BY <1>0, <2>1 DEF AtEnd
  <2> QED
    BY <1>1, <2>3, <2>4 DEF InvOut
<1> QED
  BY <1>4, <1>5, <1>6, <1>7, <1>8, <1>9, <1>10, <1>11 DEF Next, Stop

LEMMA InvarianceOut == Spec /\ Polite(pipeline) => []InvOut
<1>1. Init /\ Polite(pipeline) => InvOut
  BY InitStop, InitOut DEF InvOut
<1> QED
  BY <1>1, NextOut, PTL DEF Spec

\* When reduce() has returned, nothing is still to come.
LEMMA NothingLeft ==
  ASSUME InvOut, pc = "done", ~threw, NEW m \in Nat
  PROVE  Total(m) = out
<1>1. /\ TypeOK /\ PipelineInv /\ pipeline \in Seq(Stage) /\ Able(pipeline, layer)
      /\ N = Len(pipeline) /\ N \in Nat /\ ending \in 1..(N + 1) /\ out \in Seq(Item)
      /\ stack = <<>>
      /\ ending = N + 1 \/ \A k \in 1..N : ~layer[k].called
  BY LayersAble
     DEF InvOut, InvStop, Inv, PipelineInv, PipelineTypeOK, TypeOK, N, AtEnd
<1>2. PICK stk \in Seq(Frame), k \in 1..(Len(pipeline) + 1) : stk = <<>> /\ k = N + 1
  <2>1. <<>> \in Seq(Frame) /\ N + 1 \in 1..(Len(pipeline) + 1)
    BY <1>1
  <2> QED
    BY <2>1
<1>3. PICK closing : closing = ending..N
  OBVIOUS
<1>4. \A i \in 1..k : Queued(i)[stk] = <<>>
  BY <1>2, QueuedEmpty
<1>5. \A i \in 1..(k - 1) : i \in closing => ~layer[i].called
  BY <1>1, <1>2, <1>3
<1>6. Coming(pipeline, layer, stk, <<>>, closing)[k - 1] = <<>>
  <2>1. pipeline \in Seq(Stage) /\ Able(pipeline, layer)
    BY <1>1
  <2> QED
    BY ONLY <1>4, <1>5, <2>1, stk \in Seq(Frame), k \in 1..(Len(pipeline) + 1),
            NothingComes
<1>7. Ahead(m) = <<>>
  BY DEF Ahead
<1>8. Total(m) = out \o <<>>
  BY <1>1, <1>2, <1>3, <1>6, <1>7 DEF Total
<1> QED
  BY <1>1, <1>8, NoItems

\* In any polite pipeline of any length, over any input ranges: what reaches the
\* reducing function is what the last stage makes of all that the one before it
\* makes, and so on, each called until it ends the reduction and completed at the
\* end.  Calls that are nested, states that are wrapped in each other, loops that
\* stop early and completions from the outside inwards add and lose nothing.
THEOREM ComposesStages == Spec /\ Polite(pipeline) => []OutputMeetsStages
<1>1. InvOut => OutputMeetsStages
  <2> SUFFICES ASSUME InvOut, pc = "done", ~threw, inputs # <<>>
               PROVE  out = Through(pipeline, Input(0), TRUE)
    BY DEF OutputMeetsStages
  <2>1. PICK n \in Nat :
          \A m \in Nat : Total(m) = Through(pipeline, Input(n + m), TRUE)
    <3>1. ~Failing
      BY DEF InvOut, AtEnd, Failing
    <3> QED
      BY <3>1 DEF InvOut, Promise
  <2>2. Total(0) = Through(pipeline, Input(n + 0), TRUE)
    BY <2>1
  <2>3. Total(0) = out
    BY NothingLeft
  <2>4. Input(n + 0) = Input(0)
    BY DEF Input
  <2> QED
    BY <2>2, <2>3, <2>4
<1> QED
  BY <1>1, InvarianceOut, PTL

\* Without input ranges the same is true of the first so many calls, and of any
\* number beyond: what came out is all that could ever come out.
GeneratorMeetsStages ==
  (pc = "done" /\ ~threw /\ inputs = <<>>) =>
    \E n \in Nat : \A m \in Nat :
      m >= n => out = Through(pipeline, [i \in 1..m |-> <<>>], TRUE)

THEOREM ComposesGenerators == Spec /\ Polite(pipeline) => []GeneratorMeetsStages
<1>1. InvOut => GeneratorMeetsStages
  <2> SUFFICES ASSUME InvOut, pc = "done", ~threw, inputs = <<>>
               PROVE  \E n \in Nat : \A m \in Nat :
                        m >= n => out = Through(pipeline, [i \in 1..m |-> <<>>], TRUE)
    BY DEF GeneratorMeetsStages
  <2>1. PICK n \in Nat :
          \A m \in Nat : Total(m) = Through(pipeline, Input(n + m), TRUE)
    <3>1. ~Failing
      BY DEF InvOut, AtEnd, Failing
    <3> QED
      BY <3>1 DEF InvOut, Promise
  <2>2. ASSUME NEW m \in Nat, m >= n
        PROVE  out = Through(pipeline, [i \in 1..m |-> <<>>], TRUE)
    <3>1. PICK k \in Nat : n + k = m
      <4>1. m - n \in Nat /\ n + (m - n) = m
        BY <2>2
      <4> QED
        BY <4>1
    <3>2. Total(k) = Through(pipeline, Input(n + k), TRUE)
      BY <2>1
    <3>3. Total(k) = out
      BY NothingLeft
    <3>4. Input(n + k) = [i \in 1..m |-> <<>>]
      BY <3>1 DEF Input
    <3> QED
      BY <3>2, <3>3, <3>4
  <2> QED
    BY <2>2
<1> QED
  BY <1>1, InvarianceOut, PTL

(***************************************************************************)
(* How far reduce() gets                                                   *)
(***************************************************************************)

\* given is what every stage has been called with so far.
Accounts(given) ==
  /\ Account(given, pipeline, layer, stack, Passing(pipeline, Input(0), TRUE),
             Coming(pipeline, layer, stack, Ahead(0), ending..N), ending)
  /\ pos = Entered(given, stack)

\* An item arrives at a stage that cannot take it.
Refuses(stages, xs) ==
  \E k \in 1..Len(stages) : \E i \in 1..Len(Arriving(stages, k, xs, TRUE)) :
    Throws(stages[k], Fresh, Arriving(stages, k, xs, TRUE)[i])

\* The input goes in one item at a time, and once the stages before `ending` are
\* completed no call goes to them.
InTurn ==
  /\ \A i \in 1..Len(stack) :
       /\ ending <= stack[i].at
       /\ stack[i].at = 1 => \/ stack[i].todo = <<>>
                             \/ stack[i].mode = "first" /\ Tail(stack[i].todo) = <<>>
  /\ pc \in {"start", "loop"} => ending = 1

\* With a polite pipeline over input ranges: of what would arrive at every stage in
\* the end, it has been called with the first items and will be called with those
\* that it needs.
InvReached ==
  /\ InvOut
  /\ InTurn
  /\ inputs # <<>> =>
       /\ ~Failing => \E given : Accounts(given)
       /\ Failing => Refuses(pipeline, Input(0))

\* The input ranges have one sequence of items.
LEMMA InputType ==
  ASSUME TypeOK, inputs # <<>>
  PROVE  Input(0) \in Seq(Item) /\ Rest(0, 0) = Input(0)
<1>1. Rest(0, 0) \in Seq(Item)
  BY RestType
<1>2. Shortest \in Nat
  BY ShortestDef
<1>3. Shortest - 0 = Shortest /\ \A i \in 1..Shortest : 0 + i = i
  BY <1>2
<1>4. Rest(0, 0) = [i \in 1..Shortest |-> ItemAt(i)]
  BY <1>3 DEF Rest
<1> QED
  BY <1>1, <1>4 DEF Input

\* What the account of a state is about.
LEMMA AccountTypes ==
  ASSUME InvReached
  PROVE  /\ pipeline \in Seq(Stage) /\ Able(pipeline, layer) /\ N = Len(pipeline)
         /\ stack \in Seq(Frame) /\ ending \in Nat \ {0} /\ ending <= N + 1
         /\ N \in Nat /\ TypeOK /\ PipelineTypeOK /\ PipelineInv /\ StopInv
<1>1. TypeOK /\ PipelineTypeOK /\ PipelineInv /\ StopInv
  BY DEF InvReached, InvOut, InvStop, Inv, TypeOK
<1>2. Able(pipeline, layer)
  BY <1>1, LayersAble DEF PipelineInv
<1>3. pipeline \in Seq(Stage) /\ stack \in Seq(Frame) /\ N = Len(pipeline) /\ N \in Nat
  BY <1>1 DEF PipelineTypeOK, N
<1>4. ending \in 1..(N + 1)
  BY <1>1 DEF TypeOK
<1> QED
  BY <1>1, <1>2, <1>3, <1>4

\* At the start nothing has gone in.
LEMMA InitReached ==
  Init /\ Polite(pipeline) => InvReached
<1> SUFFICES ASSUME Init, Polite(pipeline)
             PROVE  InvReached
  OBVIOUS
<1>1. InvOut
  BY InitStop, InitOut DEF InvOut
<1>2. TypeOK /\ PipelineTypeOK /\ pipeline \in Seq(Stage)
  BY <1>1 DEF InvOut, InvStop, Inv, TypeOK, PipelineTypeOK
<1>3. /\ stack = <<>> /\ \A k \in 1..N : layer[k] = Fresh
      /\ ~threw /\ pc = "start" /\ pos = 0 /\ ending = 1 /\ N = Len(pipeline)
  BY DEF Init, PipelineInit, N
<1>4. InTurn /\ ~Failing
  BY <1>3 DEF InTurn, Failing
<1>5. ASSUME inputs # <<>>
      PROVE  \E given : Accounts(given)
  <2>1. Ahead(0) = Input(0) /\ Input(0) \in Seq(Item)
    BY <1>2, <1>3, <1>5, InputType DEF Ahead
  <2>2. PICK xs \in Seq(Item) : xs = Input(0)
    BY <2>1
  <2>3. PICK closing : closing = ending..N
    OBVIOUS
  <2>4. \A k \in 1..Len(pipeline) : layer[k] = Fresh /\ (k \in closing) = TRUE
    BY <1>3, <2>3
  <2>5. PICK given : given = [k \in 1..(Len(pipeline) + 1) |-> <<>>]
    OBVIOUS
  <2>6. Account(given, pipeline, layer, <<>>, Passing(pipeline, xs, TRUE),
                Coming(pipeline, layer, <<>>, xs, closing), 1)
    BY <1>2, <2>4, <2>5, AccountStart
  <2>7. Entered(given, <<>>) = 0
    <3>1. given[1] = <<>>
      BY <1>2, <2>5, LenType
    <3>2. Queued(1)[<<>>] = <<>>
      BY QueuedEmpty
    <3> QED
      BY <3>1, <3>2 DEF Entered
  <2>8. Accounts(given)
    BY <1>3, <2>1, <2>2, <2>3, <2>6, <2>7 DEF Accounts
  <2> QED
    BY <2>8
<1> QED
  BY <1>1, <1>4, <1>5 DEF InvReached

\* Feeding: the item that is ahead waits for the first stage.
LEMMA FeedReached ==
  ASSUME InvReached, inputs # <<>>, stack = <<>>, ~threw, Feed,
         IsNonEmpty \/ More, pos = 0 \/ More, pc \in {"start", "loop"}, pc' = "loop",
         UNCHANGED <<pipeline, layer, out, threw, inputs, ending>>
  PROVE  (\E given : Accounts(given))'
<1>1. /\ TypeOK /\ N' = N /\ N = Len(pipeline) /\ pipeline \in Seq(Stage)
      /\ Able(pipeline, layer) /\ pos \in Nat /\ ending = 1
  BY AccountTypes DEF TypeOK, N, InvReached, InTurn
<1>2. PICK x \in Item : x = ItemAt(pos + 1)
  BY <1>1, ItemAtType
<1>3. PICK p \in Nat : p = pos + 1
  BY <1>1
<1>4. stack' = <<Loop(1, <<x>>)>> /\ pos' = p
  BY <1>2, <1>3 DEF Feed
<1>5. PICK ahead \in Seq(Item), ahead2 \in Seq(Item) :
        ahead = Ahead(0) /\ ahead2 = Ahead(0)' /\ ahead = <<x>> \o ahead2
  <2>1. Rest(p, 0) \in Seq(Item) /\ Rest(pos, 0) \in Seq(Item)
    BY <1>1, RestType
  <2>2. Rest(pos, 1) = <<x>> \o Rest(p, 0)
    <3>1. 0 + 1 = 1 /\ 0 \in Nat
      OBVIOUS
    <3>2. Rest(pos, 0 + 1) = <<ItemAt(pos + 1)>> \o Rest(IF inputs = <<>> THEN pos ELSE pos + 1, 0)
      BY <1>1, <3>1, RestFed
    <3> QED
      BY <1>2, <1>3, <3>1, <3>2, Zenon
  <2>3. Rest(pos, 1) = Rest(pos, 0)
    BY DEF Rest
  <2>4. Rest(p, 0)' = Rest(p, 0)
    BY SameInputs
  <2>5. Ahead(0)' = Rest(p, 0)' /\ Ahead(0) = Rest(pos, 0)
    BY <1>4 DEF Ahead
  <2> QED
    BY <2>1, <2>2, <2>3, <2>4, <2>5, Zenon
<1>6. PICK given : Accounts(given)
  BY DEF InvReached, Failing
<1>7. PICK fr \in Frame : fr = Loop(1, <<x>>) /\ fr.at = 1 /\ fr.todo = <<x>>
  <2>1. 1 \in Nat \ {0} /\ <<x>> \in Seq(Item)
    OBVIOUS
  <2>2. Loop(1, <<x>>) \in Frame
    BY <2>1, LoopType
  <2>3. Loop(1, <<x>>).at = 1 /\ Loop(1, <<x>>).todo = <<x>>
    BY DEF Loop
  <2> QED
    BY <2>2, <2>3
<1>8. PICK stk \in Seq(Frame), stk2 \in Seq(Frame) : stk = <<>> /\ stk2 = <<fr>>
  <2>1. <<>> \in Seq(Frame) /\ <<fr>> \in Seq(Frame)
    OBVIOUS
  <2> QED
    BY <2>1
<1>9. PICK closing, all : closing = ending..N /\ all = Passing(pipeline, Input(0), TRUE)
  OBVIOUS
<1>10. \A at : Queued(at)[stk] = <<>> /\ Queued(at)[stk2] = IF at = 1 THEN <<x>> ELSE <<>>
  <2> TAKE at
  <2>1. Queued(1)[stk2] = <<x>>
    <3>1. Queued(fr.at)[<<fr>>] = fr.todo
      BY QueuedOne
    <3> QED
      BY <1>7, <1>8, <3>1, Zenon
  <2>2. ASSUME at # 1
        PROVE  Queued(at)[stk2] = <<>>
    <3>1. \A i \in 1..Len(stk2) : stk2[i].at # at
      BY <1>7, <1>8, <2>2
    <3> QED
      BY <3>1, NothingWaits
  <2>3. Queued(at)[stk] = <<>>
    BY <1>8, QueuedEmpty
  <2> QED
    BY <2>1, <2>2, <2>3
<1>11. SameInput(stk, ahead, stk2, ahead2) /\ SameQueued(2, Len(pipeline) + 1, stk, stk2)
  <2>1. <<>> \o ahead = ahead
    BY NoItems
  <2>2. SameInput(stk, ahead, stk2, ahead2)
    <3>1. Queued(1)[stk] = <<>> /\ Queued(1)[stk2] = <<x>>
      BY <1>10
    <3> QED
      BY <1>5, <2>1, <3>1, Zenon DEF SameInput
  <2>3. \A k \in 2..(Len(pipeline) + 1) : k # 1
    OBVIOUS
  <2> QED
    BY <1>10, <2>2, <2>3 DEF SameQueued
<1>12. Account(given, pipeline, layer, stk, all, Coming(pipeline, layer, stk, ahead, closing), 1)
  BY <1>1, <1>5, <1>6, <1>8, <1>9, Zenon DEF Accounts
<1>13. Account(given, pipeline, layer, stk2, all, Coming(pipeline, layer, stk2, ahead2, closing), 1)
  BY <1>1, <1>11, <1>12, AccountAlike
<1>14. Entered(given, stk2) = Entered(given, stk) + 1
  <2>1. Len(given[1]) \in Nat
    <3>1. given[1] \in Seq(Item)
      <4>1. 1 \in 1..(Len(pipeline) + 1)
        BY <1>1
      <4>2. given \in [1..(Len(pipeline) + 1) -> Seq(Item)]
        BY <1>12, Zenon DEF Account
      <4> QED
        BY <4>1, <4>2
    <3> QED
      BY <3>1
  <2>2. Queued(1)[stk] = <<>> /\ Queued(1)[stk2] = <<x>>
    BY <1>10
  <2>3. Len(<<>>) = 0 /\ Len(<<x>>) = 1
    OBVIOUS
  <2>4. /\ Entered(given, stk) = Len(given[1]) + 0
        /\ Entered(given, stk2) = Len(given[1]) + 1
    BY <2>2, <2>3, Zenon DEF Entered
  <2> QED
    BY <2>1, <2>4
<1>15. Input(0)' = Input(0)
  BY SameInputs
<1>16. pos' = Entered(given, stk2)
  <2>1. pos = Entered(given, stk)
    BY <1>6, <1>8, Zenon DEF Accounts
  <2> QED
    BY <1>3, <1>4, <1>14, <2>1
<1>17. stack' = stk2
  BY <1>4, <1>7, <1>8
<1>18. Accounts(given)'
  BY <1>1, <1>5, <1>9, <1>15, <1>16, <1>13, <1>17, Zenon DEF Accounts
<1> QED
  BY <1>18

\* The loop ends when nothing is ahead, or when no stage will take what is.
LEMMA EndOfLoopReached ==
  ASSUME InvReached, inputs # <<>>, EndOfLoop
  PROVE  (\E given : Accounts(given))'
<1>1. /\ TypeOK /\ N' = N /\ N = Len(pipeline) /\ pipeline \in Seq(Stage)
      /\ Able(pipeline, layer)
  BY AccountTypes DEF N, EndOfLoop, pipeVars
<1>2. /\ pc = "loop" /\ stack = <<>> /\ ~threw /\ pc' = "complete" /\ pos \in Nat
      /\ UNCHANGED <<pipeline, layer, stack, out, threw, inputs, pos, ending>>
      /\ ending = 1
  BY <1>1 DEF EndOfLoop, Idle, pipeVars, TypeOK, InvReached, InTurn
<1>3. PICK given : Accounts(given)
  BY <1>2 DEF InvReached, Failing
<1>4. PICK closing, all : closing = ending..N /\ all = Passing(pipeline, Input(0), TRUE)
  OBVIOUS
<1>5. PICK stk \in Seq(Frame), ahead \in Seq(Item), none \in Seq(Item) :
        stk = <<>> /\ ahead = Ahead(0) /\ none = <<>> /\ none = Ahead(0)'
  <2>1. <<>> \in Seq(Frame) /\ <<>> \in Seq(Item) /\ Ahead(0)' = <<>>
    BY <1>2 DEF Ahead
  <2>2. Ahead(0) \in Seq(Item)
    BY <1>1, AheadType
  <2> QED
    BY <2>1, <2>2
<1>6. Account(given, pipeline, layer, stk, all, Coming(pipeline, layer, stk, ahead, closing), 1)
  BY <1>1, <1>2, <1>3, <1>4, <1>5, Zenon DEF Accounts
<1>7. Account(given, pipeline, layer, stk, all, Coming(pipeline, layer, stk, none, closing), 1)
  <2>1. CASE Reduced(1)
    <3>1. PICK m \in 1..Len(pipeline) : DataIsReduced(pipeline[m], layer[m])
      BY <1>1, <2>1 DEF Reduced
    <3>2. PICK j \in 1..Len(pipeline) : j = 1 /\ m \in j..Len(pipeline)
      BY <3>1
    <3>3. Drops(j, Len(pipeline) + 1, stk, ahead, stk, none)
      BY <3>2 DEF Drops
    <3>4. PICK from \in Nat \ {0} : from = 1 /\ from <= j
      BY <3>2
    <3>5. Account(given, pipeline, layer, stk, all,
                  Coming(pipeline, layer, stk, ahead, closing), from)
      BY <1>6, <3>4
    <3>6. Account(given, pipeline, layer, stk, all,
                  Coming(pipeline, layer, stk, none, closing), from)
      BY <1>1, <3>1, <3>2, <3>3, <3>4, <3>5, AccountDropped
    <3> QED
      BY <3>4, <3>6
  <2>2. CASE ~More
    <3>1. \A r \in 1..Len(inputs) : Len(inputs[r]) \in Nat
      BY <1>1 DEF TypeOK
    <3>2. \E r \in 1..Len(inputs) : Len(inputs[r]) <= pos
      BY <1>1, <1>2, <2>2, <3>1 DEF More
    <3>3. Rest(pos, 0) = <<>>
      BY <1>1, <3>2, RestOver
    <3>4. ahead = none
      BY <1>2, <1>5, <3>3 DEF Ahead
    <3> QED
      BY <1>6, <3>4
  <2> QED
    BY <2>1, <2>2 DEF EndOfLoop
<1>8. Input(0)' = Input(0)
  BY <1>2, SameInputs
<1>9. Accounts(given)'
  <2>1. pos' = Entered(given, stack')
    BY <1>2, <1>3 DEF Accounts
  <2> QED
    BY <1>1, <1>2, <1>4, <1>5, <1>7, <1>8, <2>1, Zenon DEF Accounts
<1> QED
  BY <1>9

\* What a completed stage held back waits for the next one.
LEMMA CompleteStageReached ==
  ASSUME InvReached, inputs # <<>>, CompleteStage
  PROVE  (\E given : Accounts(given))'
<1>1. /\ TypeOK /\ N' = N /\ N = Len(pipeline) /\ pipeline \in Seq(Stage) /\ N \in Nat
      /\ Able(pipeline, layer) /\ ending \in Nat \ {0} /\ layer \in [1..Len(pipeline) -> Layer]
  BY AccountTypes DEF N, CompleteStage, PipelineTypeOK
<1>2. /\ pc = "complete" /\ stack = <<>> /\ ~threw /\ pc' = "complete"
      /\ ending <= N /\ ending' = ending + 1
      /\ UNCHANGED <<pipeline, layer, out, threw, inputs, pos>>
      /\ stack' = <<Loop(ending + 1, Flush(pipeline[ending], layer[ending]))>>
  BY DEF CompleteStage, Idle
<1>3. PICK given : Accounts(given)
  BY <1>2 DEF InvReached, Failing
<1>4. PICK k \in 1..Len(pipeline) : k = ending
  BY <1>1, <1>2
<1>5. PICK fr \in Frame : fr = Loop(k + 1, Flush(pipeline[k], layer[k])) /\ fr.at = k + 1
  <2>1. stack' \in Seq(Frame)
    <3>1. Inv'
      BY NextInv DEF InvReached, InvOut, InvStop, Next
    <3> QED
      BY <3>1 DEF Inv, TypeOK, PipelineTypeOK
  <2>2. stack'[1] \in Frame /\ stack'[1] = Loop(k + 1, Flush(pipeline[k], layer[k]))
    BY <1>2, <1>4, <2>1
  <2> QED
    BY <2>2 DEF Loop
<1>6. PICK stk \in Seq(Frame), stk2 \in Seq(Frame) : stk = <<>> /\ stk2 = <<fr>>
  <2>1. <<>> \in Seq(Frame) /\ <<fr>> \in Seq(Frame)
    OBVIOUS
  <2> QED
    BY <2>1
<1>7. PICK closing, closing2, all :
        /\ closing = k..Len(pipeline) /\ closing2 = (k + 1)..Len(pipeline)
        /\ all = Passing(pipeline, Input(0), TRUE)
  OBVIOUS
<1>8. PICK coming : /\ coming = Coming(pipeline, layer, stk, <<>>, closing)
                    /\ coming = Coming(pipeline, layer, stk2, <<>>, closing2)
  <2>1. Coming(pipeline, layer, <<fr>>, <<>>, (k + 1)..Len(pipeline)) =
          Coming(pipeline, layer, <<>>, <<>>, k..Len(pipeline))
    BY <1>1, <1>5, CompletionKeeps
  <2> QED
    BY <1>6, <1>7, <2>1, Zenon
<1>9. Ahead(0) = <<>> /\ Ahead(0)' = <<>> /\ ending = k /\ ending' = k + 1
  BY <1>2, <1>4 DEF Ahead
<1>10. Account(given, pipeline, layer, stk, all, coming, k) /\ pos = Entered(given, stk)
  BY <1>1, <1>2, <1>3, <1>6, <1>7, <1>8, <1>9, Zenon DEF Accounts
<1>11. ASSUME NEW at, at # k + 1
       PROVE  Queued(at)[stk] = Queued(at)[stk2]
  <2>1. \A i \in 1..Len(stk2) : stk2[i].at # at
    BY <1>5, <1>6, <1>11
  <2>2. Queued(at)[stk2] = <<>>
    BY <2>1, NothingWaits
  <2> QED
    BY <1>6, <2>2, QueuedEmpty
<1>12. Account(given, pipeline, layer, stk2, all, coming, k + 1)
  <2>1. PICK from \in Nat \ {0}, from2 \in Nat \ {0} : from = k /\ from2 = k + 1 /\ from <= from2
    <3>1. k \in Nat \ {0} /\ k + 1 \in Nat \ {0} /\ k <= k + 1
      OBVIOUS
    <3> QED
      BY <3>1
  <2>2. SameQueued(from2 + 1, Len(pipeline), stk, stk2)
    <3>1. \A i \in (from2 + 1)..Len(pipeline) : i # k + 1
      BY <2>1
    <3> QED
      BY <1>11, <3>1 DEF SameQueued
  <2>3. Account(given, pipeline, layer, stk, all, coming, from)
    BY <1>10, <2>1
  <2>4. Account(given, pipeline, layer, stk2, all, coming, from2)
    BY <1>1, <2>1, <2>2, <2>3, AccountBehind
  <2> QED
    BY <2>1, <2>4
<1>13. pos = Entered(given, stk2)
  <2>1. 1 # k + 1
    OBVIOUS
  <2>2. Queued(1)[stk] = Queued(1)[stk2]
    BY <1>11, <2>1
  <2> QED
    BY <1>10, <2>2 DEF Entered
<1>14. Input(0)' = Input(0)
  BY <1>2, SameInputs
<1>15. stack' = stk2
  BY <1>2, <1>4, <1>5, <1>6
<1>16. Accounts(given)'
  BY <1>1, <1>2, <1>7, <1>8, <1>9, <1>12, <1>13, <1>14, <1>15, Zenon DEF Accounts
<1> QED
  BY <1>16

\* What the stages have been called with after a step of the nested calls.
LEMMA RunReached ==
  ASSUME InvReached, inputs # <<>>, Run, ~Failing'
  PROVE  (\E given : Accounts(given))'
<1>1. /\ TypeOK /\ N' = N /\ N = Len(pipeline) /\ pipeline \in Seq(Stage) /\ N \in Nat
      /\ Able(pipeline, layer) /\ PipelineInv /\ StopInv /\ PipelineTypeOK /\ PipelineStep
      /\ UNCHANGED <<pipeline, inputs, pc, pos, ending>> /\ stack \in Seq(Frame)
  <2>1. pipeline' = pipeline
    BY DEF Run, PipelineStep, CallStage, CallBase, Return, ThrowFirst, StepThenThrow,
           Unwind
  <2> QED
    BY <2>1, AccountTypes DEF Run, N
<1>2. PipelineInv'
  BY <1>1, PipelineStepInv
<1>3. stack' \in Seq(Frame)
  BY <1>2 DEF PipelineInv, PipelineTypeOK
<1>4. PICK given : Accounts(given)
  BY <1>1, StillFailing DEF InvReached
<1>5. PICK from \in Nat \ {0} : from = ending
  BY AccountTypes
<1>6. PICK closing, all :
        closing = ending..N /\ all = Passing(pipeline, Input(0), TRUE) /\ from = ending
  BY <1>5
<1>7. PICK ahead \in Seq(Item) : ahead = Ahead(0) /\ ahead = Ahead(0)'
  <2>1. Ahead(0) \in Seq(Item)
    BY <1>1, AheadType
  <2>2. Ahead(0)' = Ahead(0)
    <3>1. PICK p : p = pos
      OBVIOUS
    <3>2. Rest(p, 0)' = Rest(p, 0)
      BY <1>1, SameInputs
    <3>3. Rest(pos, 0)' = Rest(p, 0)'
      BY <1>1, <3>1
    <3> QED
      BY <1>1, <3>1, <3>2, <3>3 DEF Ahead
  <2> QED
    BY <2>1, <2>2
<1>8. PICK stk, stk2, layers, layers2 :
        /\ stk \in Seq(Frame) /\ stk2 \in Seq(Frame)
        /\ stk = stack /\ stk2 = stack' /\ layers = layer /\ layers2 = layer'
  BY <1>1, <1>3
<1>9. /\ Account(given, pipeline, layers, stk, all,
                 Coming(pipeline, layers, stk, ahead, closing), from)
      /\ pos = Entered(given, stk)
  BY <1>1, <1>4, <1>6, <1>7, <1>8, Zenon DEF Accounts
<1>10. \A i \in 1..Len(stack) : from <= stack[i].at
  BY <1>6 DEF InvReached, InTurn
<1>11. ASSUME NEW given2, pos = Entered(given2, stk2),
              Account(given2, pipeline, layers2, stk2, all,
                      Coming(pipeline, layers2, stk2, ahead, closing), from)
       PROVE  (\E g : Accounts(g))'
  <2>1. Input(0)' = Input(0)
    BY <1>1, SameInputs
  <2>2. Accounts(given2)'
    BY <1>1, <1>6, <1>7, <1>8, <1>11, <2>1, Zenon DEF Accounts
  <2> QED
    BY <2>2
<1>12. Account(Noted(given), pipeline, layers2, stk2, all,
               Coming(pipeline, layers2, stk2, ahead, closing), from)
  <2>1. Account(given, pipeline, layer, stack, all,
                Coming(pipeline, layer, stack, ahead, closing), from)
    BY <1>8, <1>9, Zenon
  <2>2. Account(Noted(given), pipeline, layer', stack', all,
                Coming(pipeline, layer', stack', ahead, closing), from)
    BY <1>1, <1>10, <2>1, StepAccounts
  <2> QED
    BY <1>8, <2>2, Zenon
<1>13. given \in [1..(Len(pipeline) + 1) -> Seq(Item)]
  BY <1>9, Zenon DEF Account
<1>14. ASSUME Due, NEW k \in 1..(Len(pipeline) + 1), NEW x \in Item, NEW xs,
              k = Top.at, x = Head(Top.todo), Advances(stk, stk2, k, x, xs)
       PROVE  Entered(Noted(given), stk2) = Entered(given, stk)
  <2>1. Noted(given) = Taken(given, k, x)
    BY <1>14 DEF Noted
  <2> QED
    BY <1>1, <1>8, <1>13, <1>14, <2>1, EnteredTaken
<1>15. CASE CallStage
  <2>1. Due
    BY <1>15 DEF CallStage
  <2>2. PICK k, x, runs :
          /\ k \in 1..Len(pipeline) /\ x \in Item
          /\ k = Top.at /\ x = Head(Top.todo)
          /\ Advances(stk, stk2, k, x, Issued(runs))
    BY <1>1, <1>2, <1>8, <1>15, CallStageTakes
  <2>3. k \in 1..(Len(pipeline) + 1)
    BY <2>2, LenType
  <2>4. Entered(Noted(given), stk2) = Entered(given, stk)
    BY <1>14, <2>1, <2>2, <2>3
  <2> QED
    BY <1>9, <1>11, <1>12, <2>4
<1>16. CASE CallBase
  <2>1. Due
    BY <1>16 DEF CallBase
  <2>2. PICK k, x, xs :
          /\ k \in Nat /\ x \in Item
          /\ k = Len(pipeline) + 1 /\ k = Top.at /\ x = Head(Top.todo)
          /\ Advances(stk, stk2, k, x, xs)
    BY <1>1, <1>2, <1>8, <1>16, CallBaseTakes
  <2>3. k \in 1..(Len(pipeline) + 1)
    BY <2>2, LenType
  <2>4. Entered(Noted(given), stk2) = Entered(given, stk)
    BY <1>14, <2>1, <2>2, <2>3
  <2> QED
    BY <1>9, <1>11, <1>12, <2>4
<1>17. CASE Return
  <2>1. /\ stack # <<>> /\ Top.mode # "throw" /\ ~Due
        /\ stk2 = Tail(stk) /\ Noted(given) = given
    BY <1>8, <1>17 DEF Return, Noted
  <2>2. /\ Top \in Frame /\ Top = Head(stk) /\ Top = stack[1] /\ 1 \in 1..Len(stack)
        /\ Top.at \in Nat \ {0} /\ stk # <<>>
    BY <1>1, <1>8, <2>1, TopType DEF Top, Frame
  <2>3. 1 # Top.at \/ Top.todo = <<>>
    BY <2>1, <2>2 DEF InvReached, InTurn, Due
  <2>4. Queued(1)[stk] = Queued(1)[stk2]
    <3>1. Queued(1)[stk] = (IF Head(stk).at = 1 THEN Head(stk).todo ELSE <<>>) \o Queued(1)[Tail(stk)]
      BY <1>8, <2>2, QueuedDef
    <3>2. Queued(1)[stk] = <<>> \o Queued(1)[stk2]
      BY <2>1, <2>2, <2>3, <3>1, Zenon
    <3>3. Queued(1)[stk2] \in Seq(Item)
      BY <1>8, QueuedType
    <3> QED
      BY <3>2, <3>3, NoItems, Zenon
  <2>5. Entered(Noted(given), stk2) = Entered(given, stk)
    BY <2>1, <2>4 DEF Entered
  <2> QED
    BY <1>9, <1>11, <1>12, <2>5
<1>18. ~ThrowFirst /\ ~Unwind
  BY DEF ThrowFirst, Unwind, Failing
<1>19. ~StepThenThrow
  BY <1>1, <1>2, WillThrow
<1> QED
  BY <1>1, <1>15, <1>16, <1>17, <1>18, <1>19 DEF PipelineStep

\* A reduction in progress after a call that is new: started by the call, or the
\* one that made it, with one item less.
Moved(fr) ==
  /\ Due
  /\ \/ fr.at = Top.at + 1 /\ fr.mode = "first" /\ fr.at # 1
     \/ /\ fr.at = Top.at /\ fr.todo = Tail(Top.todo)
        /\ fr.mode = "next" \/ StepThenThrow

LEMMA FramesAfter ==
  ASSUME PipelineInv, StopInv, PipelineStep, NEW i \in 1..Len(stack')
  PROVE  (\E j \in 1..Len(stack) : stack'[i] = stack[j]) \/ Moved(stack'[i])
<1>1. PipelineTypeOK /\ stack \in Seq(Frame)
  BY DEF PipelineInv, PipelineTypeOK
<1>2. ASSUME NEW a \in Seq(Frame), stack # <<>>, stack' = a \o Tail(stack),
             \A m \in 1..Len(a) : Moved(a[m])
      PROVE  (\E j \in 1..Len(stack) : stack'[i] = stack[j]) \/ Moved(stack'[i])
  <2>1. \/ \E m \in 1..Len(a) : stack'[i] = a[m]
        \/ \E j \in 2..Len(stack) : stack'[i] = stack[j]
    BY <1>1, <1>2, Replaced
  <2>2. \A j \in 2..Len(stack) : j \in 1..Len(stack)
    OBVIOUS
  <2> QED
    BY <1>2, <2>1, <2>2
<1>3. CASE Due
  <2>1. /\ stack # <<>> /\ Top \in Frame /\ Top.at \in Nat \ {0} /\ Head(Top.todo) \in Item
        /\ Top.at <= N + 1 /\ N \in Nat
        /\ Advanced \in Frame /\ Advanced.at = Top.at /\ Advanced.mode = "next"
        /\ Advanced.todo = Tail(Top.todo)
    BY <1>1, <1>3, DueTop DEF Advanced, Frame
  <2>2. Moved(Advanced)
    BY <1>3, <2>1 DEF Moved
  <2>3. \A todo : Moved(Loop(Top.at + 1, todo))
    BY <1>3, <2>1 DEF Moved, Loop
  <2>4. CASE CallStage
    <3> DEFINE x == Head(Top.todo)
               called == Step(pipeline[Top.at], layer[Top.at], x)
               nested == Loops(Top.at + 1, called.runs)
    <3>1. stack' = nested \o <<Advanced>> \o Tail(stack) /\ Top.at <= N
      BY <2>4 DEF CallStage
    <3>2. called.runs \in Ran
      <4>1. Top.at \in 1..Len(pipeline)
        <5>1. Top.at \in 1..N
          BY <2>1, <3>1, Position, Zenon
        <5> QED
          BY <5>1, Zenon DEF N
      <4>2. pipeline[Top.at] \in Stage
        BY <1>1, <4>1 DEF PipelineTypeOK
      <4>3. layer[Top.at] \in Possible(pipeline[Top.at])
        <5>1. Able(pipeline, layer)
          BY LayersAble DEF PipelineInv
        <5> QED
          BY <4>1, <5>1, Zenon DEF Able
      <4>4. ~Throws(pipeline[Top.at], layer[Top.at], x)
        BY <2>4 DEF CallStage
      <4> QED
        BY <2>1, <4>2, <4>3, <4>4, CallPossible
    <3>3. /\ nested \in Seq(Frame)
          /\ \A m \in 1..Len(nested) : \E todo : nested[m] = Loop(Top.at + 1, todo)
      <4>1. Top.at + 1 \in Nat \ {0}
        BY <2>1
      <4>2. PICK runs \in Ran : runs = called.runs
        BY <3>2
      <4>3. /\ Loops(Top.at + 1, runs) \in Seq(Frame)
            /\ Len(Loops(Top.at + 1, runs)) = Len(runs)
            /\ \A m \in 1..Len(runs) : Loops(Top.at + 1, runs)[m] = Loop(Top.at + 1, runs[m])
        BY <4>1, LoopsType
      <4> HIDE DEF called
      <4>4. nested = Loops(Top.at + 1, runs)
        BY <4>2
      <4> HIDE DEF nested
      <4> QED
        BY <4>3, <4>4
    <3> HIDE DEF nested
    <3>4. PICK inner \in Seq(Frame), fr \in Frame : inner = nested /\ fr = Advanced
      BY <2>1, <3>3
    <3>5. PICK a \in Seq(Frame) : a = inner \o <<fr>>
      <4>1. inner \o <<fr>> \in Seq(Frame)
        OBVIOUS
      <4> QED
        BY <4>1, Zenon
    <3>6. ASSUME NEW m \in 1..Len(a)
          PROVE  Moved(a[m])
      <4>1. (\E h \in 1..Len(inner) : a[m] = inner[h]) \/ a[m] = fr
        BY ONLY <3>5, inner \in Seq(Frame), fr \in Frame, m \in 1..Len(a)
      <4>2. ASSUME NEW h \in 1..Len(inner), a[m] = inner[h]
            PROVE  Moved(a[m])
        <5>1. PICK todo : inner[h] = Loop(Top.at + 1, todo)
          BY <3>3, <3>4
        <5> QED
          BY <2>3, <4>2, <5>1, Zenon
      <4> QED
        BY <2>2, <3>4, <4>1, <4>2, Zenon
    <3> QED
      BY <1>2, <2>1, <3>1, <3>5, <3>6, <3>4, Zenon
  <2>5. CASE CallBase
    <3>1. stack' = <<Advanced>> \o Tail(stack)
      BY <2>5 DEF CallBase
    <3>2. PICK a \in Seq(Frame) : a = <<Advanced>>
      <4>1. PICK fr \in Frame : fr = Advanced
        BY <2>1
      <4>2. <<fr>> \in Seq(Frame)
        OBVIOUS
      <4> QED
        BY <4>1, <4>2, Zenon
    <3>3. \A m \in 1..Len(a) : Moved(a[m])
      BY <2>2, <3>2
    <3> QED
      BY <1>2, <2>1, <3>1, <3>2, <3>3
  <2>6. CASE StepThenThrow
    <3>1. stack' = <<Loop(Top.at + 1, <<Head(Top.todo)>>),
                     [Advanced EXCEPT !.mode = "throw"]>> \o Tail(stack)
      BY <2>6 DEF StepThenThrow
    <3>2. PICK fr \in Frame, fr2 \in Frame :
            /\ fr = Loop(Top.at + 1, <<Head(Top.todo)>>)
            /\ fr2 = [Advanced EXCEPT !.mode = "throw"]
      <4>1. [Advanced EXCEPT !.mode = "throw"] \in Frame
        BY <2>1 DEF Frame
      <4>2. Top.at + 1 \in Nat \ {0} /\ <<Head(Top.todo)>> \in Seq(Item)
        BY <2>1
      <4>3. Loop(Top.at + 1, <<Head(Top.todo)>>) \in Frame
        BY <4>2, LoopType
      <4> QED
        BY <4>1, <4>3
    <3>3. Moved(fr) /\ Moved(fr2)
      <4>1. fr2.at = Top.at /\ fr2.todo = Tail(Top.todo)
        BY <2>1, <3>2 DEF Frame
      <4> QED
        BY <1>3, <2>3, <2>6, <3>2, <4>1 DEF Moved
    <3>4. PICK a \in Seq(Frame) : a = <<fr, fr2>>
      <4>1. <<fr, fr2>> \in Seq(Frame)
        OBVIOUS
      <4> QED
        BY <4>1, Zenon
    <3>5. \A m \in 1..Len(a) : Moved(a[m])
      BY <3>3, <3>4
    <3> QED
      BY <1>2, <2>1, <3>1, <3>2, <3>4, <3>5
  <2>7. CASE ThrowFirst
    BY <2>7 DEF ThrowFirst
  <2>8. ~Return /\ ~Unwind
    BY <1>3 DEF Return, Unwind, Due
  <2> QED
    BY <2>4, <2>5, <2>6, <2>7, <2>8 DEF PipelineStep
<1>4. CASE ~Due
  <2>1. CASE Return
    <3>1. stack # <<>> /\ stack' = <<>> \o Tail(stack) /\ <<>> \in Seq(Frame)
      BY <1>1, <2>1 DEF Return
    <3>2. PICK a \in Seq(Frame) : a = <<>> /\ 1..Len(a) = {}
      <4>1. Len(<<>>) = 0 /\ 1..0 = {}
        OBVIOUS
      <4> QED
        BY <3>1, <4>1, Zenon
    <3> QED
      BY <1>2, <3>1, <3>2
  <2>2. CASE Unwind
    BY <2>2 DEF Unwind
  <2> QED
    BY <1>4, <2>1, <2>2
       DEF PipelineStep, CallStage, CallBase, ThrowFirst, StepThenThrow
<1> QED
  BY <1>3, <1>4

\* A step of the nested calls leaves those in turn.
LEMMA RunInTurn ==
  ASSUME InvReached, Run
  PROVE  InTurn'
<1>1. /\ PipelineInv /\ PipelineTypeOK /\ StopInv /\ PipelineStep /\ InTurn
      /\ pc' = pc /\ ending' = ending /\ ending \in Nat \ {0}
  BY AccountTypes DEF Run, InvReached
<1>2. ASSUME NEW i \in 1..Len(stack')
      PROVE  /\ ending <= stack'[i].at
             /\ stack'[i].at = 1 => \/ stack'[i].todo = <<>>
                                    \/ stack'[i].mode = "first" /\ Tail(stack'[i].todo) = <<>>
  <2>1. CASE \E j \in 1..Len(stack) : stack'[i] = stack[j]
    BY <1>1, <2>1 DEF InTurn
  <2>2. CASE Moved(stack'[i])
    <3>1. /\ Due /\ Top = stack[1] /\ 1 \in 1..Len(stack) /\ Top.at \in Nat
          /\ Top.todo # <<>>
      BY <1>1, <2>2, DueTop DEF Moved
    <3>2. /\ ending <= Top.at
          /\ Top.at = 1 => Tail(Top.todo) = <<>>
      BY <1>1, <3>1 DEF InTurn
    <3>3. CASE stack'[i].at = Top.at + 1 /\ stack'[i].mode = "first" /\ stack'[i].at # 1
      BY <1>1, <3>1, <3>2, <3>3
    <3>4. CASE stack'[i].at = Top.at /\ stack'[i].todo = Tail(Top.todo)
      BY <3>2, <3>4
    <3> QED
      BY <2>2, <3>3, <3>4 DEF Moved
  <2> QED
    BY <1>1, <2>1, <2>2, FramesAfter
<1> QED
  BY <1>1, <1>2 DEF InTurn

\* An exception is about to leave the pipeline only because of an item that arrives
\* at a stage which cannot take it.
LEMMA RunRefuses ==
  ASSUME InvReached, inputs # <<>>, Run, Failing'
  PROVE  Refuses(pipeline, Input(0))'
<1>1. /\ PipelineInv /\ PipelineTypeOK /\ StopInv /\ PipelineStep /\ N = Len(pipeline)
      /\ pipeline \in Seq(Stage) /\ Able(pipeline, layer) /\ TypeOK
      /\ pipeline' = pipeline /\ inputs' = inputs
  <2>1. pipeline' = pipeline
    BY DEF Run, PipelineStep, CallStage, CallBase, Return, ThrowFirst, StepThenThrow,
           Unwind
  <2> QED
    BY <2>1, AccountTypes DEF Run
<1>2. Input(0)' = Input(0)
  BY <1>1, SameInputs
<1>3. SUFFICES Refuses(pipeline, Input(0))
  BY <1>1, <1>2, Zenon
<1>4. SUFFICES ASSUME ~Failing
               PROVE  Refuses(pipeline, Input(0))
  BY DEF InvReached
<1>5. Due /\ Top.at <= N /\ Throws(pipeline[Top.at], layer[Top.at], Head(Top.todo))
  <2>1. CASE ThrowFirst
    BY <2>1 DEF ThrowFirst
  <2>2. CASE StepThenThrow
    BY <2>2 DEF StepThenThrow, Throws
  <2>3. CASE Unwind
    <3>1. stack # <<>> /\ stack \in Seq(Frame) /\ Top.mode = "throw"
      BY <1>1, <2>3 DEF Unwind, PipelineTypeOK
    <3>2. 1 \in 1..Len(stack) /\ Top = stack[1]
      BY <3>1 DEF Top
    <3> QED
      BY <1>4, <3>1, <3>2 DEF Failing
  <2>4. CASE ~ThrowFirst /\ ~StepThenThrow /\ ~Unwind
    <3>1. threw' = threw
      BY <1>1, <2>4 DEF PipelineStep, CallStage, CallBase, Return
    <3>2. PICK i \in 1..Len(stack') : stack'[i].mode = "throw"
      BY <1>4, <3>1 DEF Failing
    <3>3. CASE \E j \in 1..Len(stack) : stack'[i] = stack[j]
      BY <1>4, <3>2, <3>3 DEF Failing
    <3>4. CASE Moved(stack'[i])
      BY <2>4, <3>2, <3>4 DEF Moved
    <3> QED
      BY <1>1, <3>3, <3>4, FramesAfter
  <2> QED
    BY <2>1, <2>2, <2>3, <2>4
<1>6. /\ stack \in Seq(Frame) /\ Top \in Frame /\ Top.at \in Nat \ {0} /\ N \in Nat
      /\ Head(Top.todo) \in Item /\ Top = stack[1] /\ 1 \in 1..Len(stack)
      /\ Tail(stack) \in Seq(Frame) /\ stack = <<Top>> \o Tail(stack)
      /\ Top.todo = <<Head(Top.todo)>> \o Advanced.todo /\ Advanced \in Frame
  BY <1>1, <1>5, DueTop, TopAndRest
<1>7. PICK k \in 1..Len(pipeline), x \in Item : k = Top.at /\ x = Head(Top.todo)
  <2>1. Top.at \in 1..N
    BY <1>5, <1>6, Position, Zenon
  <2> QED
    BY <1>1, <1>6, <2>1, Zenon
<1>8. PICK rest \in Seq(Item) : Queued(k)[stack] = <<x>> \o rest
  <2>1. PICK stk \in Seq(Frame), fr \in Frame, a \in Seq(Item), b \in Seq(Item) :
          /\ stk = Tail(stack) /\ fr = Top
          /\ a = Advanced.todo /\ b = Queued(k)[stk]
    <3>1. Advanced.todo \in Seq(Item)
      BY <1>6 DEF Frame
    <3>2. Queued(k)[Tail(stack)] \in Seq(Item)
      BY <1>6, QueuedType
    <3> QED
      BY <1>6, <3>1, <3>2, Zenon
  <2>2. Queued(k)[<<fr>> \o stk] = (IF fr.at = k THEN fr.todo ELSE <<>>) \o Queued(k)[stk]
    BY QueuedMore
  <2>3. Queued(k)[stack] = (<<x>> \o a) \o b
    BY <1>6, <1>7, <2>1, <2>2, Zenon
  <2>4. a \o b \in Seq(Item) /\ (<<x>> \o a) \o b = <<x>> \o (a \o b)
    OBVIOUS
  <2> QED
    BY <2>3, <2>4, Zenon
<1>9. PICK given : Accounts(given)
  BY <1>4 DEF InvReached
<1>10. PICK from \in Nat \ {0} : from = ending /\ from <= k
  <2>1. ending \in Nat \ {0} /\ ending <= stack[1].at
    BY <1>6, AccountTypes DEF InvReached, InTurn
  <2> QED
    BY <1>6, <1>7, <2>1
<1>11. PICK ahead, closing, xs :
         ahead \in Seq(Item) /\ ahead = Ahead(0) /\ closing = ending..N /\ xs = Input(0)
  <2>1. Ahead(0) \in Seq(Item)
    BY <1>1, AheadType
  <2> QED
    BY <2>1
<1>12. Account(given, pipeline, layer, stack, Passing(pipeline, xs, TRUE),
               Coming(pipeline, layer, stack, ahead, closing), from)
  BY <1>9, <1>10, <1>11, Zenon DEF Accounts
<1>13. Untouched(pipeline, k, layer, stack)
  BY <1>1, <1>5, <1>7, DueUntouched
<1>14. Arrives(pipeline, k, xs, TRUE, x)
  BY <1>1, <1>6, <1>8, <1>10, <1>11, <1>12, <1>13, AccountNext
<1>15. Throws(pipeline[k], Fresh, x)
  <2>1. pipeline[k] \in Stage
    BY <1>1
  <2>2. layer[k] \in Possible(pipeline[k])
    BY <1>1, Zenon DEF Able
  <2> QED
    BY <1>5, <1>7, <2>1, <2>2, ThrowsFresh
<1>16. Refuses(pipeline, xs)
  BY <1>14, <1>15, Zenon DEF Refuses, Arrives
<1> QED
  BY <1>11, <1>16

\* A step of the driver that makes no call and changes nothing of the input that is
\* ahead.
LEMMA IdleReached ==
  ASSUME InvReached, InvOut', UNCHANGED <<pipeVars, inputs, pos, ending>>,
         inputs # <<>> => Ahead(0)' = Ahead(0),
         pc' \in {"start", "loop"} => pc \in {"start", "loop"}
  PROVE  InvReached'
<1>1. /\ pipeline' = pipeline /\ layer' = layer /\ stack' = stack /\ threw' = threw
      /\ inputs' = inputs /\ pos' = pos /\ ending' = ending /\ N' = N
      /\ Input(0)' = Input(0)
  BY SameInputs DEF pipeVars, N
<1>2. Failing' <=> Failing
  BY <1>1 DEF Failing
<1>3. InTurn'
  BY <1>1 DEF InvReached, InTurn
<1>4. ASSUME NEW given, Accounts(given), inputs # <<>>
      PROVE  Accounts(given)'
  BY <1>1, <1>4, Zenon DEF Accounts
<1>5. Refuses(pipeline, Input(0)) => Refuses(pipeline, Input(0))'
  BY <1>1, Zenon
<1>6. (\E given : Accounts(given)) /\ inputs # <<>> => (\E given : Accounts(given))'
  BY <1>4
<1> QED
  BY <1>1, <1>2, <1>3, <1>5, <1>6, Zenon DEF InvReached

\* A step of the driver that starts a reduction.
LEMMA CallReached ==
  ASSUME InvReached, InvOut', inputs' = inputs, threw' = threw, ~threw,
         NEW at, NEW todo, stack' = <<Loop(at, todo)>>, ending' <= at,
         at = 1 => todo = <<>> \/ Tail(todo) = <<>>,
         pc' \in {"start", "loop"} => ending' = 1,
         inputs # <<>> => (\E given : Accounts(given))'
  PROVE  InvReached'
<1>1. ~Failing'
  BY DEF Failing, Loop
<1>2. InTurn'
  BY DEF InTurn, Loop
<1> QED
  BY <1>1, <1>2, Zenon DEF InvReached

LEMMA NextReached ==
  InvReached /\ [Next]_vars => InvReached'
<1> SUFFICES ASSUME InvReached, [Next]_vars
             PROVE  InvReached'
  OBVIOUS
<1>1. /\ InvOut' /\ TypeOK
      /\ pc = "start" => pos = 0 /\ stack = <<>> /\ ~threw
  BY NextOut, AccountTypes DEF InvReached, InvOut, InvStop, Inv
<1>2. CASE ReduceEmpty
  <2>1. /\ pc = "start" /\ pc' = "done" /\ ~IsNonEmpty /\ pos = 0
        /\ UNCHANGED <<pipeVars, inputs, pos, ending>>
    BY <1>1, <1>2 DEF ReduceEmpty
  <2>2. Ahead(0)' = Ahead(0)
    <3>1. Ahead(0) = Rest(pos, 0) /\ Ahead(0)' = <<>>
      BY <2>1 DEF Ahead
    <3>2. \E r \in 1..Len(inputs) : Len(inputs[r]) <= pos
      BY <1>1, <2>1 DEF IsNonEmpty
    <3> QED
      BY <1>1, <3>1, <3>2, RestOver
  <2> QED
    BY <1>1, <2>1, <2>2, IdleReached
<1>3. CASE FeedFirst \/ FeedNext
  <2>1. /\ stack = <<>> /\ ~threw /\ Feed /\ (IsNonEmpty \/ More) /\ (pos = 0 \/ More)
        /\ pc \in {"start", "loop"} /\ pc' = "loop"
        /\ UNCHANGED <<pipeline, layer, out, threw, inputs, ending>>
    BY <1>1, <1>3 DEF FeedFirst, FeedNext, Idle
  <2>2. inputs # <<>> => (\E given : Accounts(given))'
    BY <2>1, FeedReached
  <2>3. PICK at, todo : /\ stack' = <<Loop(at, todo)>>
                        /\ at = 1 /\ Tail(todo) = <<>>
    <3>1. Tail(<<ItemAt(pos + 1)>>) = <<>>
      OBVIOUS
    <3> QED
      BY <2>1, <3>1, Zenon DEF Feed
  <2>4. ending' = 1
    BY <2>1 DEF InvReached, InTurn
  <2>5. ending' <= at
    BY <2>3, <2>4
  <2> QED
    BY <1>1, <2>1, <2>2, <2>3, <2>4, <2>5, CallReached
<1>4. CASE EndOfLoop
  <2>1. /\ pc = "loop" /\ pc' = "complete" /\ stack' = <<>> /\ ~threw' /\ inputs' = inputs
    BY <1>4 DEF EndOfLoop, Idle, pipeVars
  <2>2. inputs # <<>> => (\E given : Accounts(given))'
    BY <1>4, EndOfLoopReached
  <2>3. ~Failing' /\ InTurn'
    BY <2>1 DEF Failing, InTurn
  <2> QED
    BY <1>1, <2>1, <2>2, <2>3, Zenon DEF InvReached
<1>5. CASE CompleteStage
  <2>1. /\ pc' = "complete" /\ ~threw /\ threw' = threw /\ inputs' = inputs
        /\ ending' = ending + 1
        /\ stack' = <<Loop(ending + 1, Flush(pipeline[ending], layer[ending]))>>
    BY <1>5 DEF CompleteStage, Idle
  <2>2. inputs # <<>> => (\E given : Accounts(given))'
    BY <1>5, CompleteStageReached
  <2>3. ending \in Nat \ {0}
    BY AccountTypes
  <2>4. PICK at, todo : /\ stack' = <<Loop(at, todo)>>
                        /\ at = ending + 1
    BY <2>1
  <2>5. at # 1 /\ ending' <= at
    BY <2>1, <2>3, <2>4
  <2> QED
    BY <1>1, <2>1, <2>2, <2>4, <2>5, CallReached
<1>6. CASE Finish
  <2>1. /\ pc = "complete" /\ pc' = "done"
        /\ UNCHANGED <<pipeVars, inputs, pos, ending>>
    BY <1>6 DEF Finish
  <2>2. Ahead(0)' = Ahead(0)
    BY <2>1 DEF Ahead
  <2> QED
    BY <1>1, <2>1, <2>2, IdleReached
<1>7. CASE Run
  <2>1. inputs' = inputs
    BY <1>7 DEF Run
  <2>2. InTurn'
    BY <1>7, RunInTurn
  <2>3. inputs # <<>> /\ ~Failing' => (\E given : Accounts(given))'
    BY <1>7, RunReached
  <2>4. inputs # <<>> /\ Failing' => Refuses(pipeline, Input(0))'
    BY <1>7, RunRefuses
  <2> QED
    BY <1>1, <2>1, <2>2, <2>3, <2>4, Zenon DEF InvReached
<1>8. CASE UNCHANGED vars
  <2>1. UNCHANGED <<pipeVars, inputs, pos, ending>> /\ pc' = pc
    BY <1>8 DEF vars
  <2>2. Ahead(0)' = Ahead(0)
    <3>1. PICK p : p = pos
      OBVIOUS
    <3>2. Rest(p, 0)' = Rest(p, 0)
      BY <2>1, SameInputs
    <3>3. Rest(pos, 0)' = Rest(p, 0)'
      BY <2>1, <3>1
    <3> QED
      BY <2>1, <3>1, <3>2, <3>3 DEF Ahead
  <2> QED
    BY <1>1, <2>1, <2>2, IdleReached
<1> QED
  BY <1>2, <1>3, <1>4, <1>5, <1>6, <1>7, <1>8 DEF Next, Stop

LEMMA InvarianceReached == Spec /\ Polite(pipeline) => []InvReached
BY InitReached, NextReached, PTL DEF Spec

\* When reduce() has returned, every stage has been called with what arrives at it.
LEMMA AllReached ==
  ASSUME InvReached, inputs # <<>>, pc = "done", ~threw
  PROVE  /\ pos = Len(Arriving(pipeline, 1, Input(0), TRUE))
         /\ \A k \in 1..N :
              layer[k] = After(pipeline[k])[Arriving(pipeline, k, Input(0), TRUE)][Fresh]
         /\ ~Refuses(pipeline, Input(0))
<1>1. /\ pipeline \in Seq(Stage) /\ Able(pipeline, layer)
      /\ N = Len(pipeline) /\ N \in Nat /\ ending \in Nat \ {0} /\ ending <= N + 1
      /\ stack = <<>>
      /\ ending = N + 1 \/ \A k \in 1..N : ~layer[k].called
  BY AccountTypes DEF InvReached, InvOut, AtEnd
<1>2. PICK given : Accounts(given)
  BY <1>1 DEF InvReached, Failing
<1>3. PICK xs, closing : xs = Input(0) /\ closing = ending..N
  OBVIOUS
<1>4. PICK stk \in Seq(Frame), none \in Seq(Item) :
         stk = <<>> /\ none = <<>> /\ none = Ahead(0)
  <2>1. <<>> \in Seq(Frame) /\ <<>> \in Seq(Item)
    OBVIOUS
  <2>2. Ahead(0) = <<>>
    BY DEF Ahead
  <2> QED
    BY <2>1, <2>2, Zenon
<1>5. /\ xs = Input(0) /\ closing = ending..N
      /\ stk = <<>> /\ none = <<>> /\ none = Ahead(0)
  BY <1>3, <1>4
<1>6. /\ Account(given, pipeline, layer, stk, Passing(pipeline, xs, TRUE),
                 Coming(pipeline, layer, stk, none, closing), ending)
      /\ pos = Entered(given, stk)
  BY <1>1, <1>2, <1>5, Zenon DEF Accounts
<1>7. given \in [1..(Len(pipeline) + 1) -> Seq(Item)]
  BY <1>6, Zenon DEF Account
<1>8. ASSUME NEW k \in 1..(Len(pipeline) + 1)
      PROVE  Arriving(pipeline, k, xs, TRUE) = given[k] /\ given[k] \in Seq(Item)
  <2>1. Coming(pipeline, layer, stk, none, closing)[k - 1] = <<>>
    <3>1. \A i \in 1..k : Queued(i)[stk] = <<>>
      BY <1>5, QueuedEmpty
    <3>2. \A i \in 1..(k - 1) : i \in closing => ~layer[i].called
      BY <1>1, <1>5
    <3>3. Coming(pipeline, layer, stk, <<>>, closing)[k - 1] = <<>>
      BY <1>1, <3>1, <3>2, NothingComes
    <3> QED
      BY <1>5, <3>3, Zenon
  <2>2. PICK ys \in Seq(Item) : ys = given[k]
    BY <1>7
  <2>3. Unended(pipeline, k, ys) /\ Gets(pipeline, k, ys, Passing(pipeline, xs, TRUE)[k - 1], <<>>)
    BY <1>6, <2>1, <2>2, Zenon DEF Account
  <2>4. Arriving(pipeline, k, xs, TRUE) = ys
    BY <2>3, ArrivingIs
  <2> QED
    BY <2>2, <2>4
<1>9. ASSUME NEW k \in 1..Len(pipeline)
      PROVE  /\ layer[k] = After(pipeline[k])[Arriving(pipeline, k, xs, TRUE)][Fresh]
             /\ \A i \in 1..Len(Arriving(pipeline, k, xs, TRUE)) :
                  ~Throws(pipeline[k], Fresh, Arriving(pipeline, k, xs, TRUE)[i])
  <2>1. k \in 1..(Len(pipeline) + 1)
    BY LenType
  <2>2. PICK ys \in Seq(Item) : ys = given[k] /\ ys = Arriving(pipeline, k, xs, TRUE)
    BY <1>8, <2>1
  <2>3. Remembers(pipeline[k], layer[k], ys)
    BY <1>6, <2>2, Zenon DEF Account
  <2>4. pipeline[k] \in Stage
    BY <1>1
  <2>5. layer[k] \in Possible(pipeline[k])
    BY <1>1, Zenon DEF Able
  <2>6. After(pipeline[k])[ys \o none][Fresh] = After(pipeline[k])[none][layer[k]]
    BY <2>3, Zenon DEF Remembers
  <2>7. After(pipeline[k])[none][layer[k]] = layer[k]
    BY <1>5, <2>4, <2>5, AfterNothing
  <2>8. ys \o none = ys
    BY <1>5, NoItems
  <2>9. layer[k] = After(pipeline[k])[ys][Fresh]
    BY <2>6, <2>7, <2>8, Zenon
  <2> QED
    BY <2>2, <2>3, <2>9, Zenon DEF Remembers
<1>10. pos = Len(Arriving(pipeline, 1, xs, TRUE))
  <2>1. 1 \in 1..(Len(pipeline) + 1)
    BY LenType
  <2>2. PICK ys \in Seq(Item) : ys = given[1] /\ ys = Arriving(pipeline, 1, xs, TRUE)
    BY <1>8, <2>1
  <2>3. Queued(1)[stk] = <<>>
    BY <1>5, QueuedEmpty
  <2>4. Len(ys) + 0 = Len(ys) /\ Len(<<>>) = 0
    OBVIOUS
  <2>5. pos = Len(ys)
    BY <1>6, <2>2, <2>3, <2>4, Zenon DEF Entered
  <2> QED
    BY <2>2, <2>5, Zenon
<1>11. ~Refuses(pipeline, xs)
  BY <1>9, Zenon DEF Refuses
<1> QED
  BY <1>1, <1>5, <1>9, <1>10, <1>11, Zenon

\* In any polite pipeline of any length, over any input ranges: every stage has been
\* called with exactly what arrives at it, which its data remember, and of the ranges
\* no item has been consumed beyond the one with which a stage ended the reduction.
THEOREM ReachesStages == Spec /\ Polite(pipeline) => []StagesReached
<1>1. InvReached => StagesReached
  BY AllReached DEF StagesReached
<1> QED
  BY <1>1, InvarianceReached, PTL

\* And reduce() throws exactly if one of the items that arrive cannot be taken: the
\* data in the pipeline, and not the order of its nested calls and completions,
\* decides.
THEOREM ThrowsRightly == Spec /\ Polite(pipeline) => []ThrowsOnArrival
<1>1. InvReached => ThrowsOnArrival
  <2> SUFFICES ASSUME InvReached, Returned, inputs # <<>>
               PROVE  threw <=> Refuses(pipeline, Input(0))
    BY DEF ThrowsOnArrival, Refuses, N
  <2>1. CASE threw
    BY <2>1 DEF InvReached, Failing
  <2>2. CASE ~threw
    BY <2>2, AllReached DEF Returned
  <2> QED
    BY <2>1, <2>2
<1> QED
  BY <1>1, InvarianceReached, PTL
=============================================================================

--------------------------- MODULE SequenceProofs ----------------------------
(***************************************************************************)
(* Proofs about Sequence for every transducer, any ranges and any number   *)
(* of iterators.                                                           *)
(***************************************************************************)
EXTENDS Sequence, ArrivalProofs

Owner == Iterators \cup {Nobody}

\* What an iterator variable may contain.
Contents(stages, it) ==
  /\ it \in IteratorData
  /\ Sound(stages, it.layer)
  /\ it.owner \in [1..Len(stages) -> Owner]
  /\ it.pos = 0 \/ it.pos < Len(it.cache)

IteratorsOK ==
  /\ iterators \in [Iterators -> IteratorData]
  /\ \A i \in Iterators : Contents(pipeline, iterators[i])

\* The accumulator inside the reductor of an iterator, one that is being
\* constructed as well, is the iterator itself.
OwnAccumulator ==
  \A i \in Iterators :
    (iterators[i].live \/ active = i) => iterators[i].target = i

\* Nothing is in progress unless an iterator is pulling; an exception has left it.
ActiveOK ==
  /\ active \in Owner
  /\ active = Nobody => stack = <<>>
  /\ threw => stack = <<>>

Inv ==
  /\ PipelineInv
  /\ IteratorsOK
  /\ OwnAccumulator
  /\ ActiveOK
  /\ ranges \in Seq(Seq(Item))

(***************************************************************************)
(* What the operations put into an iterator                                *)
(***************************************************************************)

\* Sound layers are the sequence that the type of a state asks for.
LEMMA SoundLayers ==
  ASSUME PipelineTypeOK, NEW layers, Sound(pipeline, layers)
  PROVE  layers \in Seq(Layer)
<1>1. N \in Nat
  BY DEF N, PipelineTypeOK
<1>2. layers \in [1..N -> Layer]
  BY DEF Sound, N
<1> QED
  BY <1>1, <1>2

LEMMA UnusedSound ==
  ASSUME PipelineTypeOK
  PROVE  Sound(pipeline, Unused)
BY FreshSound DEF Unused

LEMMA DeadContents ==
  ASSUME PipelineTypeOK
  PROVE  Contents(pipeline, Dead)
<1>1. Sound(pipeline, Unused) /\ Unused \in Seq(Layer)
  BY UnusedSound, SoundLayers
<1>2. <<>> \in Seq(Item) /\ N \in Nat /\ Nobody \in Owner
  BY DEF N, PipelineTypeOK, Owner
<1> DEFINE owner == [k \in 1..N |-> Nobody]
<1>3. owner \in Seq(Owner) /\ owner \in [1..Len(pipeline) -> Owner]
  BY <1>2 DEF N
<1> HIDE DEF owner
<1>4. Dead = [live |-> FALSE, pos |-> 0, cache |-> <<>>, layer |-> Unused,
              target |-> Nobody, owner |-> owner, index |-> 0, calls |-> 0]
  BY DEF Dead, owner
<1>5. Dead \in IteratorData
  BY <1>1, <1>2, <1>3, <1>4 DEF IteratorData, Owner
<1>6. /\ Dead.layer = Unused /\ Dead.owner = owner /\ Dead.pos = 0
      /\ Len(Dead.cache) = 0
  BY <1>4
<1> QED
  BY <1>1, <1>3, <1>5, <1>6 DEF Contents

\* An iterator variable is given another content.
LEMMA PutInv ==
  ASSUME IteratorsOK, NEW i \in Iterators, NEW it, Contents(pipeline, it),
         iterators' = [iterators EXCEPT ![i] = it], pipeline' = pipeline
  PROVE  IteratorsOK'
<1>1. it \in IteratorData
  BY DEF Contents
<1>2. iterators' \in [Iterators -> IteratorData]
  BY <1>1 DEF IteratorsOK
<1>3. \A j \in Iterators : iterators'[j] = IF j = i THEN it ELSE iterators[j]
  BY DEF IteratorsOK
<1>4. \A j \in Iterators : Contents(pipeline', iterators'[j])
  BY <1>3 DEF IteratorsOK
<1> QED
  BY <1>2, <1>4 DEF IteratorsOK

(***************************************************************************)
(* The invariant is inductive                                              *)
(***************************************************************************)

LEMMA InitInv ==
  Init => Inv
<1> SUFFICES ASSUME Init
             PROVE  Inv
  OBVIOUS
<1>1. PICK s \in Sequences :
        PipelineInit(Adapting(s.ranges) \o s.xform) /\ ranges = s.ranges
  BY DEF Init
<1>2. s.xform \in Seq(Stage) /\ s.ranges \in Seq(Seq(Item))
  BY SequencesAssumption
<1>3. Adapting(s.ranges) \in Seq(Stage)
  <2>1. \A r \in 1..Len(s.ranges) :
          [Plain("iter") EXCEPT !.range = s.ranges[r]] \in Stage
    <3> TAKE r \in 1..Len(s.ranges)
    <3>1. s.ranges[r] \in Seq(Item)
      BY <1>2
    <3> DEFINE st == Plain("iter")
    <3>2. "iter" \in Kinds /\ {} \in SUBSET Int
      BY DEF Kinds
    <3>3. st \in Stage
      BY <3>2 DEF Plain, Stage
    <3> HIDE DEF st
    <3>4. [st EXCEPT !.range = s.ranges[r]] \in Stage
      BY <3>1, <3>3 DEF Stage
    <3> QED
      BY <3>4 DEF st
  <2>2. Len(s.ranges) \in Nat
    BY <1>2
  <2> QED
    BY <2>1, <2>2 DEF Adapting
<1>4. Adapting(s.ranges) \o s.xform \in Seq(Stage)
  BY <1>2, <1>3
<1>5. PipelineInv /\ PipelineTypeOK
  BY <1>1, <1>4, PipelineInitInv DEF PipelineInv
<1>6. iterators = [i \in Iterators |-> Dead] /\ active = Nobody
  BY DEF Init
<1>7. Contents(pipeline, Dead)
  BY <1>5, DeadContents
<1>8. IteratorsOK
  BY <1>6, <1>7 DEF IteratorsOK, Contents
<1>9. OwnAccumulator
  BY <1>6, IteratorsAssumption DEF OwnAccumulator, Dead
<1>10. ActiveOK
  BY <1>1, <1>6 DEF ActiveOK, Owner, PipelineInit
<1> QED
  BY <1>1, <1>2, <1>5, <1>8, <1>9, <1>10 DEF Inv

\* Operations that start and end at rest, and the start of begin().
LEMMA AtRestInv ==
  ASSUME Inv, Free, IteratorsOK', OwnAccumulator', active' \in Owner,
         UNCHANGED <<pipeVars, ranges>>
  PROVE  Inv'
<1>1. PipelineInv'
  BY DEF Inv, pipeVars, PipelineInv, PipelineTypeOK, Ready, StartedInside,
         WrapPrefix, Failing, N
<1>2. ActiveOK'
  BY DEF Inv, ActiveOK, Free, pipeVars
<1> QED
  BY <1>1, <1>2 DEF Inv

\* A state is put away or taken out while no call is in progress.
LEMMA SwapInv ==
  ASSUME Inv, stack = <<>>, ~threw, IteratorsOK', OwnAccumulator',
         active' \in Owner, NEW layers, Sound(pipeline, layers),
         layer' = layers, out' \in Seq(Item),
         UNCHANGED <<pipeline, stack, threw, ranges>>
  PROVE  Inv'
<1>1. threw' = FALSE
  BY Zenon DEF Inv, PipelineInv, PipelineTypeOK
<1>2. PipelineInv'
  BY <1>1, TakeOutInv DEF Inv
<1>3. ActiveOK'
  BY DEF ActiveOK
<1> QED
  BY <1>2, <1>3 DEF Inv

\* begin(), copies and destruction.
LEMMA LifeInv ==
  ASSUME Inv, NEW i \in Iterators,
         Begin(i) \/ Destroy(i) \/ \E j \in Iterators : Copy(i, j)
  PROVE  Inv'
<1>1. /\ PipelineTypeOK /\ IteratorsOK /\ OwnAccumulator /\ Contents(pipeline, Dead)
      /\ iterators \in [Iterators -> IteratorData] /\ active \in Owner
  BY DeadContents DEF Inv, PipelineInv, IteratorsOK, ActiveOK
<1>2. CASE Begin(i)
  <2> DEFINE new == [Dead EXCEPT !.target = i]
  <2>1. new \in IteratorData /\ new.target = i
    BY <1>1 DEF Contents, IteratorData
  <2>2. /\ new.layer = Dead.layer /\ new.owner = Dead.owner
        /\ new.pos = Dead.pos /\ new.cache = Dead.cache
    BY <1>1 DEF Contents, IteratorData
  <2>3. Contents(pipeline, new)
    BY <1>1, <2>1, <2>2 DEF Contents
  <2> HIDE DEF new
  <2>4. iterators' = [iterators EXCEPT ![i] = new] /\ active' = i /\ pipeline' = pipeline
    BY <1>2 DEF Begin, pipeVars, new
  <2>5. IteratorsOK'
    BY <1>1, <2>3, <2>4, PutInv
  <2>6. OwnAccumulator'
    BY <1>1, <2>1, <2>4 DEF OwnAccumulator
  <2> QED
    BY <1>2, <2>4, <2>5, <2>6, AtRestInv DEF Begin, Owner
<1>3. CASE Destroy(i)
  <2>1. /\ iterators' = [iterators EXCEPT ![i] = Dead] /\ active' = active
        /\ pipeline' = pipeline /\ active = Nobody
    BY <1>3 DEF Destroy, pipeVars, Free
  <2>2. IteratorsOK'
    BY <1>1, <2>1, PutInv
  <2>3. OwnAccumulator'
    BY <1>1, <2>1, IteratorsAssumption DEF OwnAccumulator, Dead
  <2> QED
    BY <1>1, <1>3, <2>1, <2>2, <2>3, AtRestInv DEF Destroy
<1>4. ASSUME NEW j \in Iterators, Copy(i, j)
      PROVE  Inv'
  <2> DEFINE it == iterators[i]
             new == [it EXCEPT !.target = j]
  <2>1. Contents(pipeline, it) /\ it \in IteratorData
    BY <1>1 DEF IteratorsOK
  <2> HIDE DEF it
  <2>2. new \in IteratorData /\ new.target = j
    BY <1>1, <2>1 DEF IteratorData
  <2>3. /\ new.layer = it.layer /\ new.owner = it.owner
        /\ new.pos = it.pos /\ new.cache = it.cache
    BY <2>1 DEF IteratorData
  <2>4. Contents(pipeline, new)
    BY <2>1, <2>2, <2>3 DEF Contents
  <2> HIDE DEF new
  <2>5. /\ iterators' = [iterators EXCEPT ![j] = new] /\ active' = active
        /\ pipeline' = pipeline /\ active = Nobody
    BY <1>4 DEF Copy, pipeVars, Free, new, it
  <2>6. IteratorsOK'
    BY <1>1, <2>4, <2>5, PutInv
  <2>7. OwnAccumulator'
    BY <1>1, <2>2, <2>5, IteratorsAssumption DEF OwnAccumulator
  <2> QED
    BY <1>1, <1>4, <2>5, <2>6, <2>7, AtRestInv DEF Copy
<1> QED
  BY <1>2, <1>3, <1>4

\* pop(): the next element of the cache, or the start of a pull.
LEMMA IncrementInv ==
  ASSUME Inv, NEW i \in Iterators, Increment(i)
  PROVE  Inv'
<1>1. /\ PipelineTypeOK /\ IteratorsOK /\ OwnAccumulator
      /\ iterators \in [Iterators -> IteratorData] /\ active \in Owner
  BY DEF Inv, PipelineInv, IteratorsOK, ActiveOK
<1>2. /\ stack = <<>> /\ ~threw /\ active = Nobody /\ iterators[i].live
      /\ out' = out /\ out \in Seq(Item)
      /\ UNCHANGED <<pipeline, stack, out, threw, ranges>>
  BY <1>1 DEF Increment, Free, Inv, ActiveOK, PipelineTypeOK
<1> DEFINE it == iterators[i]
           popped == [it EXCEPT !.pos = @ + 1, !.index = @ + 1]
<1>3. Contents(pipeline, it) /\ it \in IteratorData /\ it.target = i
  BY <1>1, <1>2 DEF IteratorsOK, OwnAccumulator
<1>4. \/ /\ popped.pos < Len(it.cache)
         /\ iterators' = [iterators EXCEPT ![i] = popped]
         /\ layer' = layer /\ active' = active
      \/ /\ iterators' = [iterators EXCEPT ![i] = [popped EXCEPT !.pos = 0, !.cache = <<>>]]
         /\ layer' = it.layer /\ active' = i
  BY DEF Increment
<1> HIDE DEF it
<1>5. /\ popped \in IteratorData /\ popped.target = i /\ popped.layer = it.layer
      /\ popped.owner = it.owner /\ popped.cache = it.cache
  <2>1. it.pos + 1 \in Nat /\ it.index + 1 \in Nat
    BY <1>3 DEF IteratorData
  <2>2. popped \in IteratorData
    BY <1>3, <2>1 DEF IteratorData
  <2> QED
    BY <1>3, <2>2 DEF IteratorData
<1> HIDE DEF popped
<1>6. CASE /\ popped.pos < Len(it.cache)
           /\ iterators' = [iterators EXCEPT ![i] = popped]
           /\ layer' = layer /\ active' = active
  <2>1. popped.pos \in Nat /\ Len(it.cache) \in Nat
    BY <1>3, <1>5 DEF IteratorData
  <2>2. Contents(pipeline, popped)
    BY <1>3, <1>5, <1>6, <2>1 DEF Contents
  <2>3. IteratorsOK'
    BY <1>1, <1>2, <1>6, <2>2, PutInv
  <2>4. OwnAccumulator'
    BY <1>1, <1>2, <1>5, <1>6 DEF OwnAccumulator
  <2>5. Sound(pipeline, layer)
    BY <1>2, ReturnedSound DEF Inv
  <2> QED
    BY <1>1, <1>2, <1>6, <2>3, <2>4, <2>5, SwapInv
<1>7. CASE /\ iterators' = [iterators EXCEPT ![i] = [popped EXCEPT !.pos = 0, !.cache = <<>>]]
           /\ layer' = it.layer /\ active' = i
  <2> DEFINE new == [popped EXCEPT !.pos = 0, !.cache = <<>>]
  <2>1. /\ new \in IteratorData /\ new.target = i /\ new.layer = it.layer
        /\ new.owner = it.owner /\ new.pos = 0 /\ new.cache = <<>>
    <3>1. <<>> \in Seq(Item) /\ 0 \in Nat
      OBVIOUS
    <3>2. new \in IteratorData
      BY <1>5, <3>1 DEF IteratorData
    <3> QED
      BY <1>5, <3>2 DEF IteratorData
  <2>2. iterators' = [iterators EXCEPT ![i] = new]
    BY <1>7
  <2> HIDE DEF new
  <2>3. Contents(pipeline, new)
    BY <1>3, <2>1 DEF Contents
  <2>4. IteratorsOK'
    BY <1>1, <1>2, <2>2, <2>3, PutInv
  <2>5. OwnAccumulator'
    BY <1>1, <1>2, <1>7, <2>1, <2>2, IteratorsAssumption DEF OwnAccumulator
  <2>6. Sound(pipeline, it.layer)
    BY <1>3 DEF Contents
  <2> QED
    BY <1>2, <1>7, <2>4, <2>5, <2>6, SwapInv DEF Owner
<1> QED
  BY <1>4, <1>6, <1>7

\* One more call of the reductor.
LEMMA PullInv ==
  ASSUME Inv, Pull
  PROVE  Inv'
<1>1. /\ PipelineInv /\ PipelineTypeOK /\ IteratorsOK /\ OwnAccumulator
      /\ iterators \in [Iterators -> IteratorData]
  BY DEF Inv, PipelineInv, IteratorsOK
<1>2. /\ active \in Iterators /\ stack = <<>> /\ ~threw
      /\ stack' = <<Loop(1, <<(<<>>)>>)>> /\ iterators' = CallCounted
      /\ UNCHANGED <<pipeline, layer, out, threw, ranges, active>>
  BY DEF Pull, Resting, Inv, ActiveOK, Owner
<1>3. threw' = FALSE
  BY <1>1, <1>2, Zenon DEF PipelineTypeOK
<1>4. PipelineInv'
  <2>1. Sound(pipeline, layer) /\ <<>> \in Item /\ out' \in Seq(Item)
    BY <1>1, <1>2, ReturnedSound, EmptyType DEF PipelineTypeOK
  <2> QED
    BY <1>1, <1>2, <1>3, <2>1, FeedSoundInv
<1> DEFINE it == iterators[active]
           calls == IF it.calls < MaxCalls THEN it.calls + 1 ELSE it.calls
           new == [it EXCEPT !.calls = calls]
<1>5. Contents(pipeline, it) /\ it \in IteratorData /\ it.target = active
  BY <1>1, <1>2 DEF IteratorsOK, OwnAccumulator
<1>6. iterators' = [iterators EXCEPT ![active] = new]
  BY <1>2 DEF CallCounted
<1> HIDE DEF it
<1>7. calls \in Nat
  BY <1>5, IteratorsAssumption DEF IteratorData
<1> HIDE DEF calls
<1>8. new \in IteratorData
  BY <1>5, <1>7 DEF IteratorData
<1>9. /\ new.target = active /\ new.layer = it.layer /\ new.owner = it.owner
      /\ new.pos = it.pos /\ new.cache = it.cache
  BY <1>5 DEF IteratorData
<1> HIDE DEF new
<1>10. Contents(pipeline, new)
  BY <1>5, <1>8, <1>9 DEF Contents
<1>11. IteratorsOK'
  BY <1>1, <1>2, <1>6, <1>10, PutInv
<1>12. OwnAccumulator'
  <2> SUFFICES ASSUME NEW j \in Iterators,
                      iterators'[j].live \/ active' = j
               PROVE  iterators'[j].target = j
    BY DEF OwnAccumulator
  <2>1. CASE j = active
    BY <1>1, <1>2, <1>6, <1>9, <2>1
  <2>2. CASE j # active
    BY <1>1, <1>2, <1>6, <2>2 DEF OwnAccumulator
  <2> QED
    BY <2>1, <2>2
<1>13. ActiveOK'
  BY <1>2, <1>3, IteratorsAssumption DEF ActiveOK, Owner
<1> QED
  BY <1>2, <1>4, <1>11, <1>12, <1>13 DEF Inv

\* The pull is done: its state and its outputs go into the iterator.
LEMMA PulledInv ==
  ASSUME Inv, Pulled
  PROVE  Inv'
<1>1. /\ PipelineInv /\ PipelineTypeOK /\ IteratorsOK /\ OwnAccumulator
      /\ iterators \in [Iterators -> IteratorData]
  BY DEF Inv, PipelineInv, IteratorsOK
<1>2. /\ active \in Iterators /\ stack = <<>> /\ ~threw
      /\ layer' = Unused /\ out' = <<>> /\ active' = Nobody
      /\ UNCHANGED <<pipeline, stack, threw, ranges>>
  BY DEF Pulled, Resting, Inv, ActiveOK, Owner
<1> DEFINE it == iterators[active]
           owners == Owners(it)
           kept == [it EXCEPT !.live = TRUE, !.layer = layer, !.owner = owners]
           new == [kept EXCEPT !.cache = @ \o out]
<1>3. Contents(pipeline, it) /\ it \in IteratorData /\ it.target = active
  BY <1>1, <1>2 DEF IteratorsOK, OwnAccumulator
<1>4. iterators' = [[iterators EXCEPT ![active] = kept] EXCEPT
                      ![it.target].cache = @ \o out]
  BY DEF Pulled
<1> HIDE DEF kept
<1>5. iterators' = [iterators EXCEPT ![active] = new]
  BY <1>1, <1>2, <1>3, <1>4
<1>6. N \in Nat /\ owners \in [1..N -> Owner]
  <2>1. N \in Nat /\ it.owner \in [1..N -> Owner]
    BY <1>1, <1>3 DEF N, PipelineTypeOK, Contents
  <2> QED
    BY <1>2, <2>1 DEF Owners, Owner
<1> HIDE DEF owners, it
<1>7. owners \in Seq(Owner)
  BY <1>6
<1>8. Sound(pipeline, layer) /\ layer \in Seq(Layer)
  BY <1>1, <1>2, ReturnedSound, SoundLayers
<1>9. kept \in IteratorData
  BY <1>3, <1>7, <1>8 DEF IteratorData, Owner, kept
<1>10. /\ kept.layer = layer /\ kept.owner = owners /\ kept.target = active
       /\ kept.pos = it.pos /\ kept.cache = it.cache
  BY <1>3 DEF IteratorData, kept
<1>11. /\ kept.cache \in Seq(Item) /\ kept.cache \o out \in Seq(Item)
       /\ Len(kept.cache \o out) = Len(kept.cache) + Len(out) /\ Len(out) \in Nat
  BY <1>1, <1>9 DEF IteratorData, PipelineTypeOK
<1>12. new \in IteratorData
  BY <1>9, <1>11 DEF IteratorData
<1>13. /\ new.layer = layer /\ new.owner = owners /\ new.target = active
       /\ new.pos = it.pos /\ new.cache = kept.cache \o out
  BY <1>9, <1>10 DEF IteratorData
<1> HIDE DEF new
<1>14. new.pos = 0 \/ new.pos < Len(new.cache)
  <2>1. /\ it.pos \in Nat /\ Len(it.cache) \in Nat
        /\ it.pos = 0 \/ it.pos < Len(it.cache)
    BY <1>3 DEF Contents, IteratorData
  <2> QED
    BY <1>10, <1>11, <1>13, <2>1
<1>15. Contents(pipeline, new)
  BY <1>6, <1>8, <1>12, <1>13, <1>14 DEF Contents, N
<1>16. IteratorsOK'
  BY <1>1, <1>2, <1>5, <1>15, PutInv
<1>17. OwnAccumulator'
  <2> SUFFICES ASSUME NEW j \in Iterators,
                      iterators'[j].live \/ active' = j
               PROVE  iterators'[j].target = j
    BY DEF OwnAccumulator
  <2>1. CASE j = active
    BY <1>1, <1>2, <1>5, <1>13, <2>1
  <2>2. CASE j # active
    BY <1>1, <1>2, <1>5, <2>2, IteratorsAssumption DEF OwnAccumulator
  <2> QED
    BY <2>1, <2>2
<1>18. Sound(pipeline, Unused) /\ out' \in Seq(Item) /\ active' \in Owner
  BY <1>1, <1>2, UnusedSound DEF Owner
<1> QED
  BY <1>2, <1>16, <1>17, <1>18, SwapInv

\* The calls in progress change nothing but the state at work.
LEMMA RunInv ==
  ASSUME Inv, Run
  PROVE  Inv'
<1>1. /\ PipelineInv /\ PipelineStep /\ active # Nobody
      /\ UNCHANGED <<ranges, iterators, active>>
  BY DEF Run, Inv
<1>2. PipelineInv'
  BY <1>1, PipelineStepInv
<1>3. pipeline' = pipeline /\ stack # <<>>
  BY <1>1 DEF PipelineStep, CallStage, CallBase, Return, ThrowFirst,
              StepThenThrow, Unwind, Due
<1>4. threw' => stack' = <<>>
  <2>1. ~threw
    BY <1>3 DEF Inv, ActiveOK
  <2> QED
    BY <1>1, <2>1 DEF PipelineStep, CallStage, CallBase, Return, ThrowFirst,
                      StepThenThrow, Unwind
<1>5. IteratorsOK' /\ OwnAccumulator'
  BY <1>1, <1>3 DEF Inv, IteratorsOK, OwnAccumulator
<1> QED
  BY <1>1, <1>2, <1>4, <1>5 DEF Inv, ActiveOK

LEMMA NextInv ==
  Inv /\ [Next]_seqVars => Inv'
<1> SUFFICES ASSUME Inv, [Next]_seqVars
             PROVE  Inv'
  OBVIOUS
<1>1. CASE Work
  BY <1>1, PullInv, RunInv, PulledInv DEF Work
<1>2. ASSUME NEW i \in Iterators, Begin(i) \/ Increment(i) \/ Destroy(i)
      PROVE  Inv'
  BY <1>2, LifeInv, IncrementInv
<1>3. ASSUME NEW i \in Iterators, NEW j \in Iterators, Copy(i, j)
      PROVE  Inv'
  BY <1>3, LifeInv
<1>4. CASE UNCHANGED seqVars
  BY <1>4 DEF seqVars, pipeVars, Inv, PipelineInv, PipelineTypeOK, Ready,
              StartedInside, WrapPrefix, Failing, N, IteratorsOK, OwnAccumulator,
              ActiveOK
<1> QED
  BY <1>1, <1>2, <1>3, <1>4 DEF Next, Stop

\* The invariant holds whatever the program does with its iterators.
THEOREM Invariance == Spec => []Inv
BY InitInv, NextInv, PTL DEF Spec

\* The data of every iterator keeps the types that the code gives it, for every
\* transducer and any ranges, and unless it is at its end an iterator is at an
\* element of its cache: operator* never reads past it (sequence.hpp).
THEOREM TypeCorrect == Spec => []TypeOK
<1>1. Inv => TypeOK
  BY DEF Inv, PipelineInv, IteratorsOK, Contents, ActiveOK, Owner, TypeOK
<1> QED
  BY <1>1, Invariance, PTL

\* Whatever was copied from whatever, the reductor of an iterator writes to the
\* cache of that iterator and no other (the copy constructor's current(this)).
THEOREM AccumulatorsOwned == Spec => []OwnAccumulator
<1>1. Inv => OwnAccumulator
  BY DEF Inv
<1> QED
  BY <1>1, Invariance, PTL

(***************************************************************************)
(* When an iterator stops                                                  *)
(***************************************************************************)

\* With a polite pipeline: every call is in time.  (Nothing is ever completed.)
InvStop ==
  /\ Inv
  /\ Polite(pipeline)
  /\ StopInv
  /\ \A i \in Iterators : Marks(iterators[i].layer)

LEMMA UnusedMarks ==
  Marks(Unused) /\ Marks(Dead.layer)
BY DEF Marks, Unused, Dead, Fresh

LEMMA InitStop ==
  Init /\ Polite(pipeline) => InvStop
<1> SUFFICES ASSUME Init, Polite(pipeline)
             PROVE  InvStop
  OBVIOUS
<1>1. Inv
  BY InitInv
<1>2. stack = <<>> /\ layer = Unused
  BY DEF Init, PipelineInit, Unused, N
<1>3. 1..Len(stack) = {}
  BY <1>2
<1>4. StopInv
  BY <1>2, <1>3, UnusedMarks DEF StopInv, Outwards, StartsInTime
<1>5. \A i \in Iterators : Marks(iterators[i].layer)
  BY UnusedMarks DEF Init
<1> QED
  BY <1>1, <1>4, <1>5 DEF InvStop

\* No call is in progress after the step.
LEMMA IdleStop ==
  ASSUME InvStop, Inv', stack' = <<>>, pipeline' = pipeline,
         Marks(layer'), \A i \in Iterators : Marks(iterators'[i].layer)
  PROVE  InvStop'
<1>1. N' = N /\ 1..Len(stack') = {}
  BY DEF N
<1>2. StopInv'
  BY <1>1 DEF StopInv, Outwards, StartsInTime, Marks
<1>3. \A i \in Iterators : Marks(iterators[i].layer)'
  BY <1>1 DEF Marks
<1> QED
  BY <1>2, <1>3 DEF InvStop

\* begin(), increments, copies and destruction, up to the first call they make.
LEMMA OperationStop ==
  ASSUME InvStop, Inv', NEW i \in Iterators,
         \/ Begin(i) \/ Increment(i) \/ Destroy(i)
         \/ \E j \in Iterators : Copy(i, j)
  PROVE  InvStop'
<1>1. /\ iterators \in [Iterators -> IteratorData] /\ Marks(layer)
      /\ iterators[i] \in IteratorData /\ Marks(iterators[i].layer)
      /\ Dead \in IteratorData /\ Marks(Dead.layer)
      /\ \A j \in Iterators : Marks(iterators[j].layer)
  BY DeadContents, UnusedMarks
     DEF InvStop, Inv, IteratorsOK, StopInv, PipelineInv, Contents
<1>2. Free => stack = <<>>
  BY DEF InvStop, Inv, ActiveOK, Free
<1>3. ASSUME NEW j \in Iterators, NEW it, Marks(it.layer),
             iterators' = [iterators EXCEPT ![j] = it]
      PROVE  \A k \in Iterators : Marks(iterators'[k].layer)
  BY <1>1, <1>3
<1>4. CASE Begin(i)
  <2> DEFINE new == [Dead EXCEPT !.target = i]
  <2>1. new.layer = Dead.layer
    BY <1>1 DEF IteratorData
  <2>2. iterators' = [iterators EXCEPT ![i] = new]
    BY <1>4 DEF Begin
  <2> HIDE DEF new
  <2>3. \A k \in Iterators : Marks(iterators'[k].layer)
    BY <1>1, <1>3, <2>1, <2>2
  <2> QED
    BY <1>1, <1>2, <1>4, <2>3, IdleStop DEF Begin, pipeVars
<1>5. CASE Destroy(i)
  <2>1. \A k \in Iterators : Marks(iterators'[k].layer)
    BY <1>1, <1>3, <1>5 DEF Destroy
  <2> QED
    BY <1>1, <1>2, <1>5, <2>1, IdleStop DEF Destroy, pipeVars
<1>6. ASSUME NEW j \in Iterators, Copy(i, j)
      PROVE  InvStop'
  <2> DEFINE new == [iterators[i] EXCEPT !.target = j]
  <2>1. new.layer = iterators[i].layer
    BY <1>1 DEF IteratorData
  <2>2. iterators' = [iterators EXCEPT ![j] = new]
    BY <1>6 DEF Copy
  <2> HIDE DEF new
  <2>3. \A k \in Iterators : Marks(iterators'[k].layer)
    BY <1>1, <1>3, <2>1, <2>2
  <2> QED
    BY <1>1, <1>2, <1>6, <2>3, IdleStop DEF Copy, pipeVars
<1>7. CASE Increment(i)
  <2> DEFINE it == iterators[i]
             popped == [it EXCEPT !.pos = @ + 1, !.index = @ + 1]
             new == IF popped.pos < Len(it.cache) THEN popped
                    ELSE [popped EXCEPT !.pos = 0, !.cache = <<>>]
  <2>1. popped.layer = it.layer /\ [popped EXCEPT !.pos = 0, !.cache = <<>>].layer = it.layer
    BY <1>1 DEF IteratorData
  <2>2. iterators' = [iterators EXCEPT ![i] = new] /\ (layer' = layer \/ layer' = it.layer)
    BY <1>7 DEF Increment
  <2>3. Marks(new.layer) /\ Marks(layer')
    BY <1>1, <2>1, <2>2
  <2> HIDE DEF new
  <2>4. \A k \in Iterators : Marks(iterators'[k].layer)
    BY <1>1, <1>3, <2>2, <2>3
  <2> QED
    BY <1>2, <1>7, <2>3, <2>4, IdleStop DEF Increment
<1> QED
  BY <1>4, <1>5, <1>6, <1>7

\* The reductor is only called while it is not reduced.
LEMMA WorkStop ==
  ASSUME InvStop, Inv', Work
  PROVE  InvStop'
<1>1. /\ Inv /\ PipelineInv /\ PipelineTypeOK /\ StopInv /\ Marks(layer)
      /\ Polite(pipeline) /\ iterators \in [Iterators -> IteratorData]
      /\ \A i \in Iterators : Marks(iterators[i].layer)
  BY DEF InvStop, Inv, PipelineInv, IteratorsOK, StopInv
<1>2. active # Nobody => active \in Iterators /\ iterators[active] \in IteratorData
  BY <1>1 DEF Inv, ActiveOK, Owner
<1>3. ASSUME StopInv', pipeline' = pipeline,
             \A i \in Iterators : iterators'[i].layer = iterators[i].layer
      PROVE  InvStop'
  BY <1>1, <1>3 DEF InvStop, Marks, N
<1>4. CASE Pull
  <2>1. /\ stack' = <<Loop(1, <<(<<>>)>>)>> /\ pipeline' = pipeline /\ layer' = layer
        /\ ~ReducedWith(layer, 1) /\ iterators' = CallCounted
        /\ active \in Iterators /\ iterators[active] \in IteratorData
    BY <1>2, <1>4 DEF Pull, Resting, Reduced, ReducedWith
  <2>2. <<(<<>>)>> \in Seq(Item) /\ 1 \in Nat \ {0}
    <3>1. <<>> \in Item
      BY EmptyType
    <3> QED
      BY <3>1
  <2>3. StopInv'
    BY <1>1, <2>1, <2>2, StartStop
  <2> DEFINE calls == IF iterators[active].calls < MaxCalls
                      THEN iterators[active].calls + 1 ELSE iterators[active].calls
             new == [iterators[active] EXCEPT !.calls = calls]
  <2>4. iterators' = [iterators EXCEPT ![active] = new]
    BY <2>1 DEF CallCounted
  <2> HIDE DEF calls
  <2>5. new.layer = iterators[active].layer
    BY <2>1 DEF IteratorData
  <2> HIDE DEF new
  <2>6. \A i \in Iterators : iterators'[i].layer = iterators[i].layer
    BY <1>1, <2>1, <2>4, <2>5
  <2> QED
    BY <1>3, <2>1, <2>3, <2>6
<1>5. CASE Run
  <2>1. StopInv'
    BY <1>1, <1>5, PipelineStepStop DEF Run
  <2>2. pipeline' = pipeline
    BY <1>5 DEF Run, PipelineStep, CallStage, CallBase, Return, ThrowFirst,
                StepThenThrow, Unwind
  <2> QED
    BY <1>3, <1>5, <2>1, <2>2 DEF Run
<1>6. CASE Pulled
  <2> DEFINE it == iterators[active]
             owners == Owners(it)
             kept == [it EXCEPT !.live = TRUE, !.layer = layer, !.owner = owners]
             new == [kept EXCEPT !.cache = @ \o out]
  <2>1. /\ active \in Iterators /\ it \in IteratorData /\ it.target = active
        /\ stack' = <<>> /\ pipeline' = pipeline /\ layer' = Unused
    BY <1>1, <1>2, <1>6 DEF Pulled, Resting, Inv, OwnAccumulator
  <2>2. iterators' = [[iterators EXCEPT ![active] = kept] EXCEPT
                        ![it.target].cache = @ \o out]
    BY <1>6 DEF Pulled
  <2> HIDE DEF owners
  <2>3. kept.layer = layer /\ new.layer = layer
    BY <2>1 DEF IteratorData
  <2> HIDE DEF kept
  <2>4. iterators' = [iterators EXCEPT ![active] = new]
    BY <1>1, <2>1, <2>2
  <2> HIDE DEF new
  <2>5. \A i \in Iterators : Marks(iterators'[i].layer)
    BY <1>1, <2>1, <2>3, <2>4
  <2> QED
    BY <2>1, <2>5, UnusedMarks, IdleStop
<1> QED
  BY <1>4, <1>5, <1>6 DEF Work

LEMMA NextStop ==
  InvStop /\ [Next]_seqVars => InvStop'
<1> SUFFICES ASSUME InvStop, [Next]_seqVars
             PROVE  InvStop'
  OBVIOUS
<1>1. Inv'
  BY NextInv DEF InvStop
<1>2. CASE Work
  BY <1>1, <1>2, WorkStop
<1>3. ASSUME NEW i \in Iterators, Begin(i) \/ Increment(i) \/ Destroy(i)
      PROVE  InvStop'
  BY <1>1, <1>3, OperationStop
<1>4. ASSUME NEW i \in Iterators, NEW j \in Iterators, Copy(i, j)
      PROVE  InvStop'
  BY <1>1, <1>4, OperationStop
<1>5. CASE UNCHANGED seqVars
  BY <1>1, <1>5 DEF seqVars, pipeVars, InvStop, StopInv, Outwards, StartsInTime,
                    Marks, Reduced, Unstopped, N
<1> QED
  BY <1>2, <1>3, <1>4, <1>5 DEF Next, Stop

\* Whatever the program does with its iterators over a polite transducer, no
\* stage is called with a state that a stage after it has ended: pull() looks at
\* the reductor before it calls it, and the calls inside ask as well.
THEOREM FeedsInTime == Spec /\ Polite(pipeline) => []NoFeedAfterReduced
<1>1. InvStop => NoFeedAfterReduced
  BY InTime DEF InvStop, Inv, PipelineInv
<1> QED
  BY <1>1, InitStop, NextStop, PTL DEF Spec

(***************************************************************************)
(* What an iterator shows                                                  *)
(***************************************************************************)

\* The elements that it has been at before (gone), those in its cache or on their way
\* there (got) and those still to come are what the stages make of the calls; n is
\* how many calls there have been, and the layers remember these.
Told(stages, it, layers, stk, got, n, gone) ==
  /\ Len(gone) = Gone(it)
  /\ Tallied(it) => n = it.calls
  /\ \A m \in Nat :
       gone \o (got \o Coming(stages, layers, stk, Pulses(m), {})[Len(stages)]) =
         Through(stages, Pulses(n + m), FALSE)
  /\ Recalled(stages, layers, stk, Pulses(n))

Tells(stages, it, layers, stk, got) ==
  \E n \in Nat : \E gone \in Seq(Item) : Told(stages, it, layers, stk, got, n, gone)

\* The calls before the last one had made nothing new and had not ended it.
Lazy(stages, it) ==
  (Tallied(it) /\ it.calls > 0) =>
    /\ Len(Through(stages, Pulses(it.calls - 1), FALSE)) <= it.index
    /\ ~EndsFrom(stages, 1, Pulses(it.calls - 1))

Uncalled(it) == Tallied(it) /\ it.calls = 0

Ended(stages, layers) ==
  \E k \in 1..Len(stages) : DataIsReduced(stages[k], layers[k])

\* An iterator that is not at work has nothing in its cache only if it has ended.
Rested(stages, it) ==
  it.live => /\ Tells(stages, it, it.layer, <<>>, it.cache)
             /\ Lazy(stages, it)
             /\ ~Uncalled(it)
             /\ it.cache = <<>> => Ended(stages, it.layer)

\* The iterator at work has shown all that it had.
Busy(stages, it, layers, stk, got, failing) ==
  /\ it.pos = 0 /\ it.cache = <<>>
  /\ Lazy(stages, it)
  /\ Uncalled(it) => /\ stk = <<>> /\ got = <<>>
                     /\ \A k \in 1..Len(stages) : layers[k] = Fresh
  /\ ~failing => Tells(stages, it, layers, stk, got)

InvYield ==
  /\ InvStop
  /\ \A i \in Iterators : i # active => Rested(pipeline, iterators[i])
  /\ active # Nobody => Busy(pipeline, iterators[active], layer, stack, out, Failing)
  /\ (active = Nobody /\ ~threw) => layer = Unused /\ out = <<>>

LEMMA PulsesType ==
  ASSUME NEW m \in Nat
  PROVE  /\ Pulses(m) \in Seq(Item)
         /\ Pulses(0) = <<>>
         /\ <<(<<>>)>> \o Pulses(m) = Pulses(m + 1)
         /\ Append(Pulses(m), <<>>) = Pulses(m + 1)
<1>1. <<>> \in Item
  BY EmptyType
<1>2. PICK x \in Item : x = <<>>
  BY <1>1
<1>3. ASSUME NEW n \in Nat
      PROVE  Pulses(n) = [i \in 1..n |-> x] /\ [i \in 1..n |-> x] \in Seq(Item)
  BY <1>2 DEF Pulses
<1>4. <<x>> \o [i \in 1..m |-> x] = [i \in 1..(m + 1) |-> x]
  OBVIOUS
<1>5. [i \in 1..0 |-> x] = <<>>
  OBVIOUS
<1>6. m + 1 \in Nat /\ 0 \in Nat
  OBVIOUS
<1>7. <<x>> \o Pulses(m) = Pulses(m + 1)
  BY <1>3, <1>4, <1>6
<1>8. Pulses(m) \in Seq(Item) /\ Pulses(0) = <<>>
  BY <1>3, <1>5, <1>6
<1>9. Append([i \in 1..m |-> x], x) = [i \in 1..(m + 1) |-> x]
  OBVIOUS
<1>10. Append(Pulses(m), x) = Pulses(m + 1)
  BY <1>3, <1>6, <1>9
<1> QED
  BY <1>2, <1>7, <1>8, <1>10

\* What is told depends on few fields of the iterator.
LEMMA TellsSame ==
  ASSUME NEW stages, NEW it, NEW it2, NEW layers, NEW stk, NEW got,
         Tells(stages, it, layers, stk, got),
         Gone(it2) = Gone(it), it2.calls = it.calls
  PROVE  Tells(stages, it2, layers, stk, got)
<1>1. PICK n \in Nat, gone \in Seq(Item) : Told(stages, it, layers, stk, got, n, gone)
  BY DEF Tells
<1>2. Told(stages, it2, layers, stk, got, n, gone)
  BY <1>1 DEF Told, Tallied
<1> QED
  BY <1>2 DEF Tells

\* At first there is nothing to tell.
LEMMA TellsNothing ==
  ASSUME PipelineTypeOK, NEW it, Gone(it) = 0, it.calls = 0
  PROVE  Tells(pipeline, it, Unused, <<>>, <<>>)
<1>1. pipeline \in Seq(Stage) /\ <<>> \in Seq(Item) /\ 0 \in Nat /\ Len(<<>>) = 0
  BY DEF PipelineTypeOK
<1>2. ASSUME NEW m \in Nat
      PROVE  <<>> \o (<<>> \o Coming(pipeline, Unused, <<>>, Pulses(m), {})[Len(pipeline)]) =
               Through(pipeline, Pulses(0 + m), FALSE)
  <2>1. PICK xs \in Seq(Item) : xs = Pulses(m)
    BY PulsesType
  <2>2. \A k \in 1..Len(pipeline) : Unused[k] = Fresh /\ (k \in {}) = FALSE
    BY DEF Unused, N
  <2>3. /\ Able(pipeline, Unused)
        /\ Coming(pipeline, Unused, <<>>, xs, {})[Len(pipeline)] =
             Through(pipeline, xs, FALSE)
    BY <1>1, <2>2, ComingThrough
  <2>4. PICK ys \in Seq(Item) :
          ys = Coming(pipeline, Unused, <<>>, xs, {})[Len(pipeline)]
    BY <1>1, <2>3, RestingType
  <2>5. <<>> \o (<<>> \o ys) = ys /\ 0 + m = m
    BY NoItems
  <2> QED
    BY <2>1, <2>3, <2>4, <2>5, Zenon
<1>3. Recalled(pipeline, Unused, <<>>, Pulses(0))
  <2>1. \A k \in 1..Len(pipeline) : Unused[k] = Fresh
    BY DEF Unused, N
  <2>2. Recalled(pipeline, Unused, <<>>, <<>>)
    BY <1>1, <2>1, RecalledUnused
  <2>3. Pulses(0) = <<>>
    BY <1>1, PulsesType
  <2> QED
    BY <2>2, <2>3, Zenon
<1>4. Told(pipeline, it, Unused, <<>>, <<>>, 0, <<>>)
  BY <1>1, <1>2, <1>3, Zenon DEF Told
<1> QED
  BY <1>1, <1>4 DEF Tells

\* While no call is in progress, what has come out is what the calls have made.
LEMMA ToldSoFar ==
  ASSUME NEW stages \in Seq(Stage), NEW it, NEW layers, Able(stages, layers),
         NEW got \in Seq(Item), NEW n \in Nat, NEW gone \in Seq(Item),
         Told(stages, it, layers, <<>>, got, n, gone)
  PROVE  Through(stages, Pulses(n), FALSE) = gone \o got
<1>1. gone \o (got \o Coming(stages, layers, <<>>, Pulses(0), {})[Len(stages)]) =
        Through(stages, Pulses(n + 0), FALSE)
  BY DEF Told
<1>2. Pulses(0) = <<>> /\ n + 0 = n
  BY PulsesType
<1>3. Coming(stages, layers, <<>>, <<>>, {})[Len(stages)] = <<>>
  BY NothingAhead
<1>4. got \o <<>> = got
  BY NoItems
<1> QED
  BY <1>1, <1>2, <1>3, <1>4, Zenon

\* One call more is on its way and one less is ahead.
LEMMA PullTells ==
  ASSUME NEW stages \in Seq(Stage), NEW it, NEW it2, NEW layers, Able(stages, layers),
         NEW got \in Seq(Item), Tells(stages, it, layers, <<>>, got),
         Gone(it2) = Gone(it), it.calls \in Nat, MaxCalls \in Nat,
         it2.calls = IF it.calls < MaxCalls THEN it.calls + 1 ELSE it.calls
  PROVE  Tells(stages, it2, layers, <<Loop(1, <<(<<>>)>>)>>, got)
<1>1. PICK n \in Nat, gone \in Seq(Item) : Told(stages, it, layers, <<>>, got, n, gone)
  BY DEF Tells
<1>2. PICK k \in Nat : k = n + 1
  OBVIOUS
<1>3. Len(gone) = Gone(it2) /\ (Tallied(it2) => k = it2.calls)
  BY <1>1, <1>2 DEF Told, Tallied
<1>4. ASSUME NEW m \in Nat
      PROVE  gone \o (got \o Coming(stages, layers, <<Loop(1, <<(<<>>)>>)>>, Pulses(m), {})[Len(stages)]) =
               Through(stages, Pulses(k + m), FALSE)
  <2>1. PICK x \in Item : x = <<>>
    BY EmptyType
  <2>2. PICK xs \in Seq(Item) : xs = Pulses(m) /\ <<x>> \o xs = Pulses(m + 1)
    BY <2>1, PulsesType
  <2>3. Coming(stages, layers, <<Loop(1, <<x>>)>>, xs, {})[Len(stages)] =
          Coming(stages, layers, <<>>, <<x>> \o xs, {})[Len(stages)]
    BY FeedKeeps
  <2>4. PICK j \in Nat : j = m + 1 /\ n + j = k + m
    BY <1>2
  <2>5. gone \o (got \o Coming(stages, layers, <<>>, Pulses(j), {})[Len(stages)]) =
          Through(stages, Pulses(n + j), FALSE)
    BY <1>1 DEF Told
  <2> QED
    BY <2>1, <2>2, <2>3, <2>4, <2>5, Zenon
<1>5. Recalled(stages, layers, <<Loop(1, <<(<<>>)>>)>>, Pulses(k))
  <2>1. PICK x \in Item : x = <<>>
    BY EmptyType
  <2>2. PICK xs \in Seq(Item) : xs = Pulses(n) /\ Append(xs, x) = Pulses(n + 1)
    BY <2>1, PulsesType
  <2>3. Recalled(stages, layers, <<>>, xs)
    BY <1>1, <2>2, Zenon DEF Told
  <2>4. Recalled(stages, layers, <<Loop(1, <<x>>)>>, Append(xs, x))
    BY <2>3, RecalledFed
  <2> QED
    BY <1>2, <2>1, <2>2, <2>4, Zenon
<1>6. Told(stages, it2, layers, <<Loop(1, <<(<<>>)>>)>>, got, k, gone)
  BY <1>3, <1>4, <1>5, Zenon DEF Told
<1> QED
  BY <1>6 DEF Tells

\* The cache is used up: its elements are gone.
LEMMA PopTells ==
  ASSUME NEW stages \in Seq(Stage), NEW it, NEW it2, NEW layers, Able(stages, layers),
         NEW got \in Seq(Item), Tells(stages, it, layers, <<>>, got),
         Gone(it2) = Gone(it) + Len(got), it2.calls = it.calls
  PROVE  Tells(stages, it2, layers, <<>>, <<>>)
<1>1. PICK n \in Nat, gone \in Seq(Item) : Told(stages, it, layers, <<>>, got, n, gone)
  BY DEF Tells
<1>2. PICK past \in Seq(Item) : past = gone \o got
  <2>1. gone \o got \in Seq(Item)
    OBVIOUS
  <2> QED
    BY <2>1, Zenon
<1>3. Len(past) = Len(gone) + Len(got)
  BY <1>2
<1>4. Len(past) = Gone(it2) /\ (Tallied(it2) => n = it2.calls)
  BY <1>1, <1>3 DEF Told, Tallied
<1>5. ASSUME NEW m \in Nat
      PROVE  past \o (<<>> \o Coming(stages, layers, <<>>, Pulses(m), {})[Len(stages)]) =
               Through(stages, Pulses(n + m), FALSE)
  <2>1. PICK xs \in Seq(Item) : xs = Pulses(m)
    BY PulsesType
  <2>2. PICK ys \in Seq(Item) : ys = Coming(stages, layers, <<>>, xs, {})[Len(stages)]
    BY RestingType
  <2>3. gone \o (got \o ys) = Through(stages, Pulses(n + m), FALSE)
    BY <1>1, <2>1, <2>2, Zenon DEF Told
  <2>4. (gone \o got) \o ys = gone \o (got \o ys)
    BY Associative, SMTT(30)
  <2>5. <<>> \o ys = ys
    BY NoItems
  <2> QED
    BY <1>2, <2>1, <2>2, <2>3, <2>4, <2>5, Zenon
<1>6. Recalled(stages, layers, <<>>, Pulses(n))
  BY <1>1, Zenon DEF Told
<1>7. Told(stages, it2, layers, <<>>, <<>>, n, past)
  BY <1>4, <1>5, <1>6, Zenon DEF Told
<1> QED
  BY <1>7 DEF Tells

LEMMA InitYield ==
  Init /\ Polite(pipeline) => InvYield
<1> SUFFICES ASSUME Init, Polite(pipeline)
             PROVE  InvYield
  OBVIOUS
<1>1. InvStop
  BY InitStop
<1>2. active = Nobody /\ layer = Unused /\ out = <<>>
  BY DEF Init, PipelineInit, Unused, N
<1>3. \A i \in Iterators : ~iterators[i].live
  BY DEF Init, Dead
<1> QED
  BY <1>1, <1>2, <1>3 DEF InvYield, Rested

\* An operation at rest is over at once: one iterator has another content.
LEMMA RestYield ==
  ASSUME InvYield, InvStop', Free, NEW i \in Iterators, NEW it,
         iterators' = [iterators EXCEPT ![i] = it], Rested(pipeline, it),
         UNCHANGED <<pipeline, layer, out, threw, active>>
  PROVE  InvYield'
<1>1. /\ iterators \in [Iterators -> IteratorData]
      /\ \A j \in Iterators : j # active => Rested(pipeline, iterators[j])
      /\ active = Nobody /\ layer = Unused /\ out = <<>> /\ ~threw
  BY DEF InvYield, InvStop, Inv, IteratorsOK, Free
<1>2. ASSUME NEW j \in Iterators, j # active'
      PROVE  Rested(pipeline', iterators'[j])
  <2>1. iterators'[j] = IF j = i THEN it ELSE iterators[j]
    BY <1>1
  <2>2. j # active
    BY <1>2
  <2> QED
    BY <1>1, <2>1, <2>2
<1>3. Unused' = Unused
  BY DEF Unused, N
<1> QED
  BY <1>1, <1>2, <1>3 DEF InvYield

\* An iterator starts to work, or works on.
LEMMA WorkYield ==
  ASSUME InvYield, InvStop', NEW i \in Iterators, NEW it,
         iterators' = [iterators EXCEPT ![i] = it], active' = i,
         active \in {Nobody, i}, pipeline' = pipeline,
         Busy(pipeline, it, layer', stack', out', Failing')
  PROVE  InvYield'
<1>1. /\ iterators \in [Iterators -> IteratorData]
      /\ \A j \in Iterators : j # active => Rested(pipeline, iterators[j])
  BY DEF InvYield, InvStop, Inv, IteratorsOK
<1>2. ASSUME NEW j \in Iterators, j # active'
      PROVE  Rested(pipeline', iterators'[j])
  <2>1. iterators'[j] = iterators[j] /\ j # active
    BY <1>1, <1>2, IteratorsAssumption
  <2> QED
    BY <1>1, <2>1
<1>3. iterators'[i] = it
  BY <1>1
<1>4. Busy(pipeline', iterators'[active'], layer', stack', out', Failing')
  BY <1>3
<1>5. active' # Nobody
  BY IteratorsAssumption
<1> QED
  BY <1>2, <1>4, <1>5 DEF InvYield

LEMMA IteratorType ==
  ASSUME Inv, NEW i \in Iterators
  PROVE  /\ iterators[i] \in IteratorData
         /\ Contents(pipeline, iterators[i])
         /\ Able(pipeline, iterators[i].layer)
         /\ pipeline \in Seq(Stage)
<1>1. pipeline \in Seq(Stage)
  BY DEF Inv, PipelineInv, PipelineTypeOK
<1> QED
  BY <1>1, SoundAble DEF Inv, IteratorsOK, Contents

\* Nothing is in progress between the operations.
LEMMA FreeState ==
  ASSUME InvYield, Free
  PROVE  /\ stack = <<>> /\ out = <<>> /\ layer = Unused /\ active = Nobody
         /\ ~threw /\ ~Failing
<1>1. stack = <<>> /\ out = <<>> /\ layer = Unused /\ active = Nobody /\ ~threw
  BY DEF InvYield, InvStop, Inv, ActiveOK, Free
<1>2. 1..Len(stack) = {}
  BY <1>1
<1> QED
  BY <1>1, <1>2 DEF Failing

LEMMA BeginYield ==
  ASSUME InvYield, InvStop', NEW i \in Iterators, Begin(i)
  PROVE  InvYield'
<1>1. /\ PipelineTypeOK /\ Dead \in IteratorData
      /\ stack = <<>> /\ out = <<>> /\ layer = Unused /\ active = Nobody
      /\ stack' = stack /\ out' = out /\ layer' = layer /\ pipeline' = pipeline
      /\ active' = i
  BY FreeState, DeadContents
     DEF Begin, pipeVars, InvYield, InvStop, Inv, PipelineInv, Contents
<1> DEFINE new == [Dead EXCEPT !.target = i]
<1>2. iterators' = [iterators EXCEPT ![i] = new]
  BY DEF Begin
<1>3. /\ new.pos = Dead.pos /\ new.cache = Dead.cache /\ new.index = Dead.index
      /\ new.calls = Dead.calls
  BY <1>1 DEF IteratorData
<1> HIDE DEF new
<1>4. new.pos = 0 /\ new.cache = <<>> /\ new.index = 0 /\ new.calls = 0
  BY <1>3 DEF Dead
<1>5. Gone(new) = 0 /\ Lazy(pipeline, new)
  BY <1>4 DEF Gone, Lazy
<1>6. Tells(pipeline, new, Unused, <<>>, <<>>)
  BY <1>1, <1>4, <1>5, TellsNothing
<1>7. \A k \in 1..Len(pipeline) : layer'[k] = Fresh
  BY <1>1 DEF Unused, N
<1>8. Busy(pipeline, new, layer', stack', out', Failing')
  BY <1>1, <1>4, <1>5, <1>6, <1>7 DEF Busy
<1> QED
  BY <1>1, <1>2, <1>8, WorkYield

LEMMA DestroyYield ==
  ASSUME InvYield, InvStop', NEW i \in Iterators, Destroy(i)
  PROVE  InvYield'
<1>1. Rested(pipeline, Dead)
  BY DEF Rested, Dead
<1> QED
  BY <1>1, RestYield DEF Destroy, pipeVars

\* A copy stands where the original stands.
LEMMA CopyYield ==
  ASSUME InvYield, InvStop', NEW i \in Iterators, NEW j \in Iterators, Copy(i, j)
  PROVE  InvYield'
<1>1. PICK it \in IteratorData : it = iterators[i]
  BY IteratorType DEF InvYield, InvStop
<1>2. Rested(pipeline, it)
  BY <1>1, FreeState, IteratorsAssumption DEF Copy, InvYield
<1> DEFINE new == [it EXCEPT !.target = j]
<1>3. /\ new.live = it.live /\ new.pos = it.pos /\ new.cache = it.cache
      /\ new.index = it.index /\ new.calls = it.calls /\ new.layer = it.layer
  BY DEF IteratorData
<1>4. iterators' = [iterators EXCEPT ![j] = new]
  BY <1>1 DEF Copy
<1> HIDE DEF new
<1>5. Gone(new) = Gone(it) /\ Lazy(pipeline, new) = Lazy(pipeline, it)
  BY <1>3 DEF Gone, Lazy, Tallied
<1>6. ASSUME new.live
      PROVE  Tells(pipeline, new, new.layer, <<>>, new.cache)
  <2>1. Tells(pipeline, it, it.layer, <<>>, it.cache)
    BY <1>2, <1>3, <1>6 DEF Rested
  <2>2. Tells(pipeline, new, it.layer, <<>>, it.cache)
    BY <1>3, <1>5, <2>1, TellsSame
  <2> QED
    BY <1>3, <2>2
<1>7. Rested(pipeline, new)
  BY <1>2, <1>3, <1>5, <1>6 DEF Rested, Uncalled, Tallied
<1> QED
  BY <1>4, <1>7, RestYield DEF Copy, pipeVars

\* The next element, from the cache or, when that is used up, from another pull.
LEMMA IncrementYield ==
  ASSUME InvYield, InvStop', NEW i \in Iterators, Increment(i)
  PROVE  InvYield'
<1>1. PICK it \in IteratorData : it = iterators[i]
  BY IteratorType DEF InvYield, InvStop
<1>2. /\ Rested(pipeline, it) /\ it.live
      /\ ~(it.pos = 0 /\ it.cache = <<>>)
      /\ stack = <<>> /\ out = <<>> /\ layer = Unused /\ active = Nobody
  BY <1>1, FreeState, IteratorsAssumption DEF Increment, InvYield, AtEnd
<1>3. /\ Able(pipeline, it.layer) /\ pipeline \in Seq(Stage)
      /\ it.pos = 0 \/ it.pos < Len(it.cache)
  BY <1>1, IteratorType DEF InvYield, InvStop, Contents
<1>4. /\ it.pos \in Nat /\ it.index \in Nat /\ it.calls \in Nat
      /\ it.cache \in Seq(Item) /\ Len(it.cache) \in Nat
  BY DEF IteratorData
<1>5. it.pos < Len(it.cache)
  <2>1. it.cache # <<>> => Len(it.cache) > 0
    BY <1>4
  <2> QED
    BY <1>2, <1>3, <1>4, <2>1
<1>6. Tells(pipeline, it, it.layer, <<>>, it.cache) /\ Lazy(pipeline, it) /\ ~Uncalled(it)
  BY <1>2 DEF Rested
<1>7. PICK n \in Nat : n = it.index + 1
  BY <1>4
<1>8. PICK p \in Nat : p = it.pos + 1
  BY <1>4
<1>9. ASSUME NEW new, new.index = n, new.calls = it.calls
      PROVE  Lazy(pipeline, new) /\ ~Uncalled(new)
  <2>1. ~Uncalled(new)
    BY <1>6, <1>9 DEF Uncalled, Tallied
  <2>2. ASSUME Tallied(new), new.calls > 0
        PROVE  /\ Len(Through(pipeline, Pulses(new.calls - 1), FALSE)) <= new.index
               /\ ~EndsFrom(pipeline, 1, Pulses(new.calls - 1))
    <3>1. PICK c \in Nat : c = it.calls - 1
      BY <1>4, <1>9, <2>2
    <3>2. PICK xs \in Seq(Item) : xs = Pulses(c)
      BY PulsesType
    <3>3. PICK d \in Nat : d = Len(Through(pipeline, xs, FALSE))
      <4>1. Len(Through(pipeline, xs, FALSE)) \in Nat
        BY <1>3, ThroughType, LenType
      <4> QED
        BY <4>1
    <3>4. d <= it.index /\ ~EndsFrom(pipeline, 1, Pulses(c))
      BY <1>6, <1>9, <2>2, <3>1, <3>2, <3>3 DEF Lazy, Tallied
    <3>5. d <= n
      BY <1>4, <1>7, <3>4
    <3> QED
      BY <1>9, <3>1, <3>2, <3>3, <3>4, <3>5
  <2> QED
    BY <2>1, <2>2 DEF Lazy
<1> DEFINE popped == [it EXCEPT !.pos = @ + 1, !.index = @ + 1]
           pulled == [popped EXCEPT !.pos = 0, !.cache = <<>>]
<1>10. popped \in IteratorData
  <2>1. it.pos + 1 \in Nat /\ it.index + 1 \in Nat
    BY <1>4
  <2> QED
    BY <2>1 DEF IteratorData
<1>11. /\ popped.pos = p /\ popped.index = n /\ popped.calls = it.calls
       /\ popped.layer = it.layer /\ popped.cache = it.cache /\ popped.live = it.live
  BY <1>7, <1>8 DEF IteratorData
<1>12. \/ /\ popped.pos < Len(it.cache)
          /\ iterators' = [iterators EXCEPT ![i] = popped]
          /\ layer' = layer /\ active' = active
       \/ /\ ~(popped.pos < Len(it.cache))
          /\ iterators' = [iterators EXCEPT ![i] = pulled]
          /\ layer' = it.layer /\ active' = i
  BY <1>1 DEF Increment
<1>13. UNCHANGED <<pipeline, stack, out, threw>> /\ Free
  BY DEF Increment
<1> HIDE DEF popped
<1>14. /\ pulled.pos = 0 /\ pulled.cache = <<>> /\ pulled.index = n
       /\ pulled.calls = it.calls
  BY <1>10, <1>11 DEF IteratorData
<1> HIDE DEF pulled
<1>15. CASE popped.pos < Len(it.cache)
  <2>1. /\ iterators' = [iterators EXCEPT ![i] = popped]
        /\ layer' = layer /\ active' = active
    BY <1>12, <1>15
  <2>2. Gone(popped) = Gone(it)
    <3>1. n - p = it.index - it.pos
      BY <1>4, <1>7, <1>8
    <3> QED
      BY <1>11, <3>1 DEF Gone
  <2>3. Tells(pipeline, popped, popped.layer, <<>>, popped.cache)
    <3>1. Tells(pipeline, popped, it.layer, <<>>, it.cache)
      BY <1>6, <1>11, <2>2, TellsSame
    <3> QED
      BY <1>11, <3>1
  <2>4. Lazy(pipeline, popped) /\ ~Uncalled(popped)
    BY <1>9, <1>11
  <2>5. Rested(pipeline, popped)
    BY <1>2, <1>11, <2>3, <2>4 DEF Rested
  <2> QED
    BY <1>13, <2>1, <2>5, RestYield
<1>16. CASE ~(popped.pos < Len(it.cache))
  <2>1. /\ iterators' = [iterators EXCEPT ![i] = pulled]
        /\ layer' = it.layer /\ active' = i
    BY <1>12, <1>16
  <2>2. Gone(pulled) = Gone(it) + Len(it.cache)
    <3>1. ~(p < Len(it.cache))
      BY <1>11, <1>16
    <3>2. Len(it.cache) = p
      BY <1>4, <1>5, <1>8, <3>1
    <3>3. n - 0 = (it.index - it.pos) + Len(it.cache)
      BY <1>4, <1>7, <1>8, <3>2
    <3> QED
      BY <1>14, <3>3 DEF Gone
  <2>3. Tells(pipeline, pulled, it.layer, <<>>, <<>>)
    BY <1>3, <1>4, <1>6, <1>14, <2>2, PopTells
  <2>4. Lazy(pipeline, pulled) /\ ~Uncalled(pulled)
    BY <1>9, <1>14
  <2>5. Busy(pipeline, pulled, layer', stack', out', Failing')
    BY <1>2, <1>13, <1>14, <2>1, <2>3, <2>4 DEF Busy
  <2> QED
    BY <1>2, <1>13, <2>1, <2>5, WorkYield
<1> QED
  BY <1>15, <1>16

\* The iterator at work, unless an exception is on its way.
LEMMA WorkState ==
  ASSUME InvYield, active # Nobody
  PROVE  /\ active \in Iterators /\ iterators[active] \in IteratorData
         /\ iterators[active].target = active
         /\ Busy(pipeline, iterators[active], layer, stack, out, Failing)
         /\ PipelineInv /\ PipelineTypeOK /\ StopInv /\ pipeline \in Seq(Stage)
         /\ Able(pipeline, layer)
<1>1. PipelineInv /\ PipelineTypeOK /\ StopInv /\ pipeline \in Seq(Stage)
  BY DEF InvYield, InvStop, Inv, PipelineInv, PipelineTypeOK
<1>2. active \in Iterators
  BY DEF InvYield, InvStop, Inv, ActiveOK, Owner
<1> QED
  BY <1>1, <1>2, IteratorType, LayersAble
     DEF InvYield, InvStop, Inv, OwnAccumulator, PipelineInv

\* The call is made after everything that the ones before it have made was shown.
LEMMA PullYield ==
  ASSUME InvYield, InvStop', Pull
  PROVE  InvYield'
<1>1. /\ active # Nobody /\ stack = <<>> /\ ~threw /\ ~Reduced(1)
      /\ stack' = <<Loop(1, <<(<<>>)>>)>> /\ iterators' = CallCounted
      /\ UNCHANGED <<pipeline, layer, out, threw, ranges, active>>
  BY DEF Pull, Resting
<1>2. ~Failing
  <2>1. 1..Len(stack) = {}
    BY <1>1
  <2> QED
    BY <1>1, <2>1 DEF Failing
<1>3. PICK it \in IteratorData : it = iterators[active]
  BY <1>1, WorkState
<1>4. /\ active \in Iterators /\ it.target = active
      /\ Busy(pipeline, it, layer, <<>>, out, FALSE)
      /\ pipeline \in Seq(Stage) /\ Able(pipeline, layer)
  BY <1>1, <1>2, <1>3, WorkState DEF Busy
<1>5. out = <<>>
  BY <1>3, <1>4 DEF Pull, Waiting
<1>6. it.calls \in Nat /\ it.index \in Nat /\ MaxCalls \in Nat
  BY IteratorsAssumption DEF IteratorData
<1>7. PICK calls \in Nat : calls = IF it.calls < MaxCalls THEN it.calls + 1 ELSE it.calls
  BY <1>6
<1> DEFINE new == [it EXCEPT !.calls = calls]
<1>8. iterators' = [iterators EXCEPT ![active] = new]
  BY <1>1, <1>3, <1>7 DEF CallCounted
<1>9. /\ new.pos = it.pos /\ new.cache = it.cache /\ new.index = it.index
      /\ new.calls = calls
  BY DEF IteratorData
<1> HIDE DEF new
<1>10. it.pos = 0 /\ it.cache = <<>> /\ Tells(pipeline, it, layer, <<>>, <<>>)
  BY <1>4, <1>5 DEF Busy
<1>11. Gone(new) = Gone(it)
  BY <1>9 DEF Gone
<1>12. Tells(pipeline, new, layer, <<Loop(1, <<(<<>>)>>)>>, <<>>)
  <2>1. <<>> \in Seq(Item)
    OBVIOUS
  <2> QED
    BY <1>4, <1>6, <1>7, <1>9, <1>10, <1>11, <2>1, PullTells
<1>13. Lazy(pipeline, new)
  <2> SUFFICES ASSUME Tallied(new), new.calls > 0
               PROVE  /\ Len(Through(pipeline, Pulses(new.calls - 1), FALSE)) <= new.index
                      /\ ~EndsFrom(pipeline, 1, Pulses(new.calls - 1))
    BY DEF Lazy
  <2>1. calls < MaxCalls /\ calls > 0
    BY <1>9 DEF Tallied
  <2>2. it.calls < MaxCalls /\ calls - 1 = it.calls
    BY <1>6, <1>7, <2>1
  <2>3. PICK n \in Nat, gone \in Seq(Item) :
          Told(pipeline, it, layer, <<>>, <<>>, n, gone)
    BY <1>10 DEF Tells
  <2>4. n = it.calls /\ Len(gone) = it.index - it.pos
    BY <2>2, <2>3 DEF Told, Tallied, Gone
  <2>5. Len(gone) = it.index
    BY <1>6, <1>10, <2>4
  <2>6. Through(pipeline, Pulses(n), FALSE) = gone
    <3>1. PICK none \in Seq(Item) : none = <<>>
      <4>1. <<>> \in Seq(Item)
        OBVIOUS
      <4> QED
        BY <4>1, Zenon
    <3>2. Told(pipeline, it, layer, <<>>, none, n, gone)
      BY <2>3, <3>1, Zenon
    <3>3. Through(pipeline, Pulses(n), FALSE) = gone \o none
      BY <1>4, <3>2, ToldSoFar, ZenonT(40)
    <3>4. gone \o <<>> = gone
      BY NoItems
    <3> QED
      BY <3>1, <3>3, <3>4, Zenon
  <2>7. Len(Through(pipeline, Pulses(calls - 1), FALSE)) = it.index
    BY <2>2, <2>4, <2>5, <2>6, Zenon
  <2>8. Len(Through(pipeline, Pulses(new.calls - 1), FALSE)) = new.index
    BY <1>9, <2>7, Zenon
  <2>9. new.index <= new.index
    BY <1>6, <1>9
  <2>10. ~EndsFrom(pipeline, 1, Pulses(n))
    <3>1. PICK xs \in Seq(Item) : xs = Pulses(n)
      BY PulsesType
    <3>2. Recalled(pipeline, layer, <<>>, xs)
      BY <2>3, <3>1, Zenon DEF Told
    <3>3. Ended(pipeline, layer) <=> EndsFrom(pipeline, 1, xs)
      BY <1>4, <3>2, RecalledIs DEF Ended
    <3>4. ~Ended(pipeline, layer)
      BY <1>1, <1>4 DEF Reduced, Ended, N
    <3> QED
      BY <3>1, <3>3, <3>4
  <2>11. ~EndsFrom(pipeline, 1, Pulses(new.calls - 1))
    BY <1>9, <2>2, <2>4, <2>10, Zenon
  <2> QED
    BY <2>8, <2>9, <2>11, Zenon
<1>14. ~Uncalled(new)
  BY <1>6, <1>7, <1>9 DEF Uncalled, Tallied
<1>15. Busy(pipeline, new, layer', stack', out', Failing')
  BY <1>1, <1>5, <1>9, <1>10, <1>12, <1>13, <1>14 DEF Busy
<1> QED
  BY <1>1, <1>4, <1>8, <1>15, WorkYield

\* A step inside a call tells nothing new.
LEMMA RunTells ==
  ASSUME PipelineInv, StopInv, PipelineStep, ~Failing', NEW it,
         Tells(pipeline, it, layer, stack, out)
  PROVE  Tells(pipeline, it, layer', stack', out')
<1>1. PICK n \in Nat, gone \in Seq(Item) :
        Told(pipeline, it, layer, stack, out, n, gone)
  BY DEF Tells
<1>2. ASSUME NEW m \in Nat
      PROVE  gone \o (out' \o Coming(pipeline, layer', stack', Pulses(m), {})[Len(pipeline)]) =
               Through(pipeline, Pulses(n + m), FALSE)
  <2>1. PICK xs \in Seq(Item) : xs = Pulses(m)
    BY PulsesType
  <2>2. out' \o Coming(pipeline, layer', stack', xs, {})[Len(pipeline)] =
          out \o Coming(pipeline, layer, stack, xs, {})[Len(pipeline)]
    BY StepKeeps DEF N
  <2>3. gone \o (out \o Coming(pipeline, layer, stack, xs, {})[Len(pipeline)]) =
          Through(pipeline, Pulses(n + m), FALSE)
    BY <1>1, <2>1, Zenon DEF Told
  <2> QED
    BY <2>1, <2>2, <2>3, Zenon
<1>3. Recalled(pipeline, layer', stack', Pulses(n))
  <2>1. PICK xs \in Seq(Item) : xs = Pulses(n)
    BY PulsesType
  <2>2. Recalled(pipeline, layer, stack, xs)
    BY <1>1, <2>1, Zenon DEF Told
  <2>3. Recalled(pipeline, layer', stack', xs)
    BY <2>2, RecalledRun
  <2> QED
    BY <2>1, <2>3, Zenon
<1>4. Told(pipeline, it, layer', stack', out', n, gone)
  BY <1>1, <1>2, <1>3, Zenon DEF Told
<1> QED
  BY <1>4 DEF Tells

LEMMA RunYield ==
  ASSUME InvYield, InvStop', Run
  PROVE  InvYield'
<1>1. /\ active # Nobody /\ PipelineStep /\ iterators' = iterators
      /\ active' = active
  BY DEF Run
<1>2. PICK it \in IteratorData : it = iterators[active]
  BY <1>1, WorkState
<1>3. /\ active \in Iterators /\ PipelineInv /\ StopInv
      /\ Busy(pipeline, it, layer, stack, out, Failing)
      /\ iterators \in [Iterators -> IteratorData]
  BY <1>1, <1>2, WorkState DEF InvYield, InvStop, Inv, IteratorsOK
<1>4. stack # <<>> /\ pipeline' = pipeline
  BY <1>1 DEF PipelineStep, CallStage, CallBase, Return, ThrowFirst,
              StepThenThrow, Unwind, Due
<1>5. ~Uncalled(it) /\ it.pos = 0 /\ it.cache = <<>> /\ Lazy(pipeline, it)
  BY <1>3, <1>4 DEF Busy
<1>6. ASSUME ~Failing'
      PROVE  Tells(pipeline, it, layer', stack', out')
  <2>1. ~Failing
    BY <1>1, <1>3, <1>6, StillFailing
  <2>2. Tells(pipeline, it, layer, stack, out)
    BY <1>3, <2>1 DEF Busy
  <2> QED
    BY <1>1, <1>3, <1>6, <2>2, RunTells
<1>7. Busy(pipeline, it, layer', stack', out', Failing')
  BY <1>5, <1>6 DEF Busy
<1>8. iterators' = [iterators EXCEPT ![active] = it]
  BY <1>1, <1>2, <1>3
<1> QED
  BY <1>1, <1>3, <1>4, <1>7, <1>8, WorkYield

\* What has come out is in the cache, and if nothing has the reduction has ended.
LEMMA PulledYield ==
  ASSUME InvYield, InvStop', Pulled
  PROVE  InvYield'
<1>1. /\ active # Nobody /\ stack = <<>> /\ ~threw
      /\ layer' = Unused /\ out' = <<>> /\ active' = Nobody
      /\ UNCHANGED <<pipeline, stack, threw, ranges>>
      /\ ~Waiting \/ Reduced(1)
  BY DEF Pulled, Resting
<1>2. ~Failing
  <2>1. 1..Len(stack) = {}
    BY <1>1
  <2> QED
    BY <1>1, <2>1 DEF Failing
<1>3. PICK it \in IteratorData : it = iterators[active]
  BY <1>1, WorkState
<1>4. /\ active \in Iterators /\ it.target = active
      /\ Busy(pipeline, it, layer, stack, out, Failing)
      /\ PipelineTypeOK /\ out \in Seq(Item) /\ N \in Nat /\ N = Len(pipeline)
      /\ iterators \in [Iterators -> IteratorData]
      /\ \A j \in Iterators : j # active => Rested(pipeline, iterators[j])
  BY <1>1, <1>3, WorkState
     DEF InvYield, InvStop, Inv, IteratorsOK, PipelineTypeOK, N
<1>5. /\ it.pos = 0 /\ it.cache = <<>> /\ Lazy(pipeline, it)
      /\ Tells(pipeline, it, layer, <<>>, out)
  BY <1>1, <1>2, <1>4 DEF Busy
<1>6. out = <<>> => Ended(pipeline, layer)
  <2>1. ASSUME out = <<>>
        PROVE  Reduced(1)
    BY <1>1, <2>1 DEF Waiting
  <2>2. Reduced(1) => Ended(pipeline, layer)
    BY <1>4 DEF Reduced, Ended
  <2> QED
    BY <2>1, <2>2
<1>7. ~Uncalled(it)
  <2> SUFFICES ASSUME Uncalled(it)
               PROVE  FALSE
    OBVIOUS
  <2>1. out = <<>> /\ \A k \in 1..Len(pipeline) : layer[k] = Fresh
    BY <1>4 DEF Busy
  <2>2. PICK k \in 1..Len(pipeline) : DataIsReduced(pipeline[k], layer[k])
    BY <1>6, <2>1 DEF Ended
  <2> QED
    BY <2>1, <2>2 DEF DataIsReduced, Fresh
<1> DEFINE owners == Owners(it)
           kept == [it EXCEPT !.live = TRUE, !.layer = layer, !.owner = owners]
           new == [kept EXCEPT !.cache = @ \o out]
<1>8. iterators' = [[iterators EXCEPT ![active] = kept] EXCEPT
                      ![it.target].cache = @ \o out]
  BY <1>3 DEF Pulled
<1> HIDE DEF owners
<1>9. /\ kept.layer = layer /\ kept.pos = it.pos /\ kept.cache = it.cache
      /\ kept.index = it.index /\ kept.calls = it.calls
  BY DEF IteratorData
<1>10. /\ new.layer = layer /\ new.pos = it.pos /\ new.cache = it.cache \o out
       /\ new.index = it.index /\ new.calls = it.calls
  BY <1>9 DEF IteratorData
<1> HIDE DEF kept
<1>11. iterators' = [iterators EXCEPT ![active] = new]
  BY <1>4, <1>8
<1> HIDE DEF new
<1>12. <<>> \o out = out
  BY <1>4, NoItems
<1>13. new.cache = out
  BY <1>5, <1>10, <1>12, Zenon
<1>14. Gone(new) = Gone(it)
  BY <1>10 DEF Gone
<1>15. Tells(pipeline, new, layer, <<>>, out)
  BY <1>5, <1>10, <1>14, TellsSame
<1>16. Tells(pipeline, new, new.layer, <<>>, new.cache)
  BY <1>10, <1>13, <1>15, Zenon
<1>17. Lazy(pipeline, new) /\ ~Uncalled(new)
  BY <1>5, <1>7, <1>10 DEF Lazy, Uncalled, Tallied
<1>18. Rested(pipeline, new)
  BY <1>6, <1>10, <1>13, <1>16, <1>17 DEF Rested
<1>19. ASSUME NEW j \in Iterators
       PROVE  Rested(pipeline', iterators'[j])
  <2>1. iterators'[j] = IF j = active THEN new ELSE iterators[j]
    BY <1>4, <1>11
  <2> QED
    BY <1>1, <1>4, <1>18, <2>1
<1>20. Unused' = Unused
  BY <1>1 DEF Unused, N
<1> QED
  BY <1>1, <1>19, <1>20 DEF InvYield

LEMMA NextYield ==
  InvYield /\ [Next]_seqVars => InvYield'
<1> SUFFICES ASSUME InvYield, [Next]_seqVars
             PROVE  InvYield'
  OBVIOUS
<1>1. InvStop'
  BY NextStop DEF InvYield
<1>2. CASE Work
  BY <1>1, <1>2, PullYield, RunYield, PulledYield DEF Work
<1>3. ASSUME NEW i \in Iterators, Begin(i) \/ Increment(i) \/ Destroy(i)
      PROVE  InvYield'
  BY <1>1, <1>3, BeginYield, IncrementYield, DestroyYield
<1>4. ASSUME NEW i \in Iterators, NEW j \in Iterators, Copy(i, j)
      PROVE  InvYield'
  BY <1>1, <1>4, CopyYield
<1>5. CASE UNCHANGED seqVars
  <2>1. /\ pipeline' = pipeline /\ layer' = layer /\ stack' = stack /\ out' = out
        /\ threw' = threw /\ iterators' = iterators /\ active' = active
    BY <1>5 DEF seqVars, pipeVars
  <2>2. Failing' = Failing /\ Unused' = Unused
    BY <2>1 DEF Failing, Unused, N
  <2> QED
    BY <1>1, <2>1, <2>2 DEF InvYield
<1> QED
  BY <1>2, <1>3, <1>4, <1>5 DEF Next, Stop

LEMMA Yielded ==
  ASSUME InvYield, Free, NEW i \in Iterators, iterators[i].live
  PROVE  /\ Rested(pipeline, iterators[i])
         /\ \E n \in Nat : \E gone \in Seq(Item) :
              Told(pipeline, iterators[i], iterators[i].layer, <<>>, iterators[i].cache, n, gone)
<1>1. Rested(pipeline, iterators[i])
  BY FreeState, IteratorsAssumption DEF InvYield
<1> QED
  BY <1>1 DEF Rested, Tells

\* For every transducer that is polite and whose data may be copied, any ranges and
\* any number of iterators, whatever they are copied from and whatever the others do:
\* an iterator yields what the stages make of the calls of its reductor, one stage
\* after the other (sequence_data in sequence.hpp).
THEOREM YieldsStages == Spec /\ Polite(pipeline) => []CacheMeetsStages
<1>1. InvYield => CacheMeetsStages
  <2> SUFFICES ASSUME InvYield, Free, NEW i \in Iterators,
                      iterators[i].live, Tallied(iterators[i])
               PROVE  /\ Len(Made(iterators[i].calls)) =
                           Gone(iterators[i]) + Len(iterators[i].cache)
                      /\ \A k \in 1..Len(iterators[i].cache) :
                           iterators[i].cache[k] =
                             Made(iterators[i].calls)[Gone(iterators[i]) + k]
    BY DEF CacheMeetsStages
  <2>1. PICK it \in IteratorData : it = iterators[i]
    BY IteratorType DEF InvYield, InvStop
  <2>2. PICK n \in Nat, gone \in Seq(Item) :
          Told(pipeline, it, it.layer, <<>>, it.cache, n, gone)
    BY <2>1, Yielded
  <2>3. /\ Able(pipeline, it.layer) /\ pipeline \in Seq(Stage) /\ it.cache \in Seq(Item)
    BY <2>1, IteratorType DEF InvYield, InvStop, IteratorData
  <2>4. n = it.calls /\ Len(gone) = Gone(it)
    BY <2>1, <2>2 DEF Told
  <2>5. Made(it.calls) = gone \o it.cache
    BY <2>2, <2>3, <2>4, ToldSoFar, ZenonT(40) DEF Made
  <2>6. PICK made \in Seq(Item) : made = gone \o it.cache
    <3>1. gone \o it.cache \in Seq(Item)
      BY <2>3
    <3> QED
      BY <3>1, Zenon
  <2>7. /\ Len(made) = Len(gone) + Len(it.cache)
        /\ \A k \in 1..Len(it.cache) : it.cache[k] = made[Len(gone) + k]
    BY <2>3, <2>6
  <2>8. Made(it.calls) = made
    BY <2>5, <2>6
  <2> QED
    BY <2>1, <2>4, <2>7, <2>8
<1> QED
  BY <1>1, InitYield, NextYield, PTL DEF Spec

\* And the reductor is called only when the iterator has yielded all that the calls
\* before have made, and not once these have ended the reduction (pull in
\* sequence.hpp).
THEOREM LazyStages == Spec /\ Polite(pipeline) => []LazyOverStages
<1>1. InvYield => LazyOverStages
  <2> SUFFICES ASSUME InvYield, Free, NEW i \in Iterators,
                      iterators[i].live, Tallied(iterators[i])
               PROVE  /\ iterators[i].calls > 0
                      /\ Len(Made(iterators[i].calls - 1)) <= iterators[i].index
                      /\ ~EndsFrom(pipeline, 1, Pulses(iterators[i].calls - 1))
    BY DEF LazyOverStages
  <2>1. iterators[i].calls \in Nat
    BY IteratorType DEF InvYield, InvStop, IteratorData
  <2>2. Rested(pipeline, iterators[i])
    BY Yielded
  <2>3. ~Uncalled(iterators[i]) /\ Lazy(pipeline, iterators[i])
    BY <2>2 DEF Rested
  <2>4. iterators[i].calls > 0
    BY <2>1, <2>3 DEF Uncalled
  <2> QED
    BY <2>3, <2>4 DEF Lazy, Made
<1> QED
  BY <1>1, InitYield, NextYield, PTL DEF Spec

\* An iterator is at its end only when its calls have ended the reduction and the
\* stages would make nothing more of any number of further calls: however long the ranges are, and however many calls
\* it took, there it has yielded everything.
EndIsFinal ==
  (Free /\ Shareable) =>
    \A i \in Iterators :
      (iterators[i].live /\ AtEnd(i)) =>
        \E n \in Nat : /\ Tallied(iterators[i]) => n = iterators[i].calls
                       /\ EndsFrom(pipeline, 1, Pulses(n))
                       /\ \A m \in Nat : Len(Made(n + m)) = iterators[i].index

\* Nothing comes of further calls of layers that have ended the reduction.
LEMMA NothingMore ==
  ASSUME NEW stages \in Seq(Stage), NEW layers, Able(stages, layers),
         Ended(stages, layers), NEW xs \in Seq(Item)
  PROVE  Coming(stages, layers, <<>>, xs, {})[Len(stages)] = <<>>
<1>1. PICK j \in 1..Len(stages) : DataIsReduced(stages[j], layers[j])
  BY DEF Ended
<1>2. PICK stk \in Seq(Frame) : stk = <<>>
  <2>1. <<>> \in Seq(Frame)
    OBVIOUS
  <2> QED
    BY <2>1, Zenon
<1>3. PICK none \in Seq(Item) : none = <<>>
  <2>1. <<>> \in Seq(Item)
    OBVIOUS
  <2> QED
    BY <2>1, Zenon
<1>4. SameQueued(j + 1, Len(stages) + 1, stk, stk)
  BY DEF SameQueued
<1>5. Coming(stages, layers, stk, xs, {})[Len(stages)] =
        Coming(stages, layers, stk, none, {})[Len(stages)]
  <2>1. SameFrom(Coming(stages, layers, stk, xs, {}),
                 Coming(stages, layers, stk, none, {}), j, Len(stages))
    BY <1>1, <1>4, ComingStopped
  <2>2. Len(stages) \in j..Len(stages)
    OBVIOUS
  <2> QED
    BY <2>1, <2>2 DEF SameFrom
<1>6. Coming(stages, layers, <<>>, <<>>, {})[Len(stages)] = <<>>
  BY NothingAhead
<1> QED
  BY <1>2, <1>3, <1>5, <1>6, Zenon

\* A sequence over a polite transducer is over when its iterators say so: the end,
\* which is recognised by position and cache alone (sequence.hpp), leaves nothing out
\* that more calls would have made.
THEOREM EndsForGood == Spec /\ Polite(pipeline) => []EndIsFinal
<1>1. InvYield => EndIsFinal
  <2> SUFFICES ASSUME InvYield, Free, NEW i \in Iterators,
                      iterators[i].live, AtEnd(i)
               PROVE  \E n \in Nat :
                        /\ Tallied(iterators[i]) => n = iterators[i].calls
                        /\ EndsFrom(pipeline, 1, Pulses(n))
                        /\ \A m \in Nat : Len(Made(n + m)) = iterators[i].index
    BY DEF EndIsFinal
  <2>1. PICK it \in IteratorData : it = iterators[i]
    BY IteratorType DEF InvYield, InvStop
  <2>2. PICK n \in Nat, gone \in Seq(Item) :
          Told(pipeline, it, it.layer, <<>>, it.cache, n, gone)
    BY <2>1, Yielded
  <2>3. /\ Able(pipeline, it.layer) /\ pipeline \in Seq(Stage)
        /\ it.pos = 0 /\ it.cache = <<>> /\ it.index \in Nat
    BY <2>1, IteratorType DEF InvYield, InvStop, IteratorData, AtEnd
  <2>4. Ended(pipeline, it.layer)
    BY <2>1, <2>3, Yielded DEF Rested
  <2>5. Len(gone) = it.index /\ (Tallied(it) => n = it.calls)
    BY <2>2, <2>3 DEF Told, Gone
  <2>6. ASSUME NEW m \in Nat
        PROVE  Made(n + m) = gone
    <3>1. PICK xs \in Seq(Item) : xs = Pulses(m)
      BY PulsesType
    <3>2. Coming(pipeline, it.layer, <<>>, xs, {})[Len(pipeline)] = <<>>
      BY <2>3, <2>4, NothingMore
    <3>3. gone \o (it.cache \o Coming(pipeline, it.layer, <<>>, xs, {})[Len(pipeline)]) =
            Through(pipeline, Pulses(n + m), FALSE)
      BY <2>2, <3>1, Zenon DEF Told
    <3>4. gone \o <<>> = gone
      BY NoItems
    <3>5. <<>> \o <<>> = <<>>
      OBVIOUS
    <3>6. Through(pipeline, Pulses(n + m), FALSE) = gone
      BY <2>3, <3>2, <3>3, <3>4, <3>5, Zenon
    <3> QED
      BY <3>6 DEF Made
  <2>7. \A m \in Nat : Len(Made(n + m)) = it.index
    BY <2>5, <2>6, Zenon
  <2>8. EndsFrom(pipeline, 1, Pulses(n))
    <3>1. PICK xs \in Seq(Item) : xs = Pulses(n)
      BY PulsesType
    <3>2. Recalled(pipeline, it.layer, <<>>, xs)
      BY <2>2, <2>3, <3>1, Zenon DEF Told
    <3>3. EndsFrom(pipeline, 1, xs)
      BY <2>3, <2>4, <3>2, RecalledIs DEF Ended
    <3> QED
      BY <3>1, <3>3
  <2> QED
    BY <2>1, <2>5, <2>7, <2>8
<1> QED
  BY <1>1, InitYield, NextYield, PTL DEF Spec
=============================================================================

--------------------------- MODULE ReductorProofs ----------------------------
(***************************************************************************)
(* Proofs about Reductor for every transducer, any number of reductors and *)
(* any inputs.                                                             *)
(***************************************************************************)
EXTENDS Reductor, ArrivalProofs

\* What a reductor variable may contain: a sound state, whether it is at rest,
\* still being made, or has been moved from.
Contents(stages, red) == red \in ReductorData /\ Sound(stages, red.layer)

ReductorsOK ==
  /\ reductors \in [Reductors -> ReductorData]
  /\ \A r \in Reductors : Contents(pipeline, reductors[r])

\* Nothing is in progress unless an operation is; an exception has left it; and
\* the result of a push has a place.
WorkOK ==
  /\ work \in Operation
  /\ Free => stack = <<>> /\ ~threw
  /\ threw => stack = <<>>
  /\ work.kind = "push" => work.to \in Reductors

Inv ==
  /\ PipelineInv
  /\ ReductorsOK
  /\ WorkOK
  /\ erased \in Nat
  /\ oops \in BOOLEAN

(***************************************************************************)
(* What the operations put into a reductor                                 *)
(***************************************************************************)

LEMMA UnusedSound ==
  ASSUME PipelineTypeOK
  PROVE  Sound(pipeline, Unused)
BY FreshSound DEF Unused

\* Sound layers are the sequence that the type of a state asks for.
LEMMA SoundLayers ==
  ASSUME PipelineTypeOK, NEW layers, Sound(pipeline, layers)
  PROVE  layers \in Seq(Layer) /\ Len(layers) = N
<1>1. N \in Nat
  BY DEF N, PipelineTypeOK
<1>2. layers \in [1..N -> Layer]
  BY DEF Sound, N
<1> QED
  BY <1>1, <1>2

LEMMA NoneContents ==
  ASSUME PipelineTypeOK
  PROVE  Contents(pipeline, None)
<1>1. Sound(pipeline, Unused) /\ Unused \in Seq(Layer)
  BY UnusedSound, SoundLayers
<1>2. <<>> \in Seq(Item)
  OBVIOUS
<1>3. None \in ReductorData
  BY <1>1, <1>2 DEF None, ReductorData
<1> QED
  BY <1>1, <1>3 DEF Contents, None

\* A reductor only changes its status ...
LEMMA StatusContents ==
  ASSUME NEW red, Contents(pipeline, red),
         NEW status \in {"none", "live", "moved"}
  PROVE  Contents(pipeline, [red EXCEPT !.status = status])
<1>1. [red EXCEPT !.status = status] \in ReductorData
  BY DEF Contents, ReductorData
<1>2. [red EXCEPT !.status = status].layer = red.layer
  BY DEF Contents, ReductorData
<1> QED
  BY <1>1, <1>2 DEF Contents

\* ... or is about to be fed.
LEMMA ExtendedContents ==
  ASSUME NEW red, Contents(pipeline, red), NEW x \in Item
  PROVE  Contents(pipeline, Extended(red, x))
<1>1. Append(red.pushed, x) \in Seq(Item)
  BY DEF Contents, ReductorData
<1>2. Extended(red, x) \in ReductorData
  BY <1>1 DEF Contents, ReductorData, Extended
<1>3. Extended(red, x).layer = red.layer
  BY DEF Contents, ReductorData, Extended
<1> QED
  BY <1>2, <1>3 DEF Contents

LEMMA RemainsContents ==
  ASSUME PipelineTypeOK, NEW red, Contents(pipeline, red)
  PROVE  Contents(pipeline, Remains(red))
<1>1. Contents(pipeline, [None EXCEPT !.status = "moved"])
  BY NoneContents, StatusContents
<1> QED
  BY <1>1 DEF Remains

\* A reductor variable is given another content.
LEMMA PutInv ==
  ASSUME ReductorsOK, NEW r \in Reductors, NEW red, Contents(pipeline, red),
         reductors' = [reductors EXCEPT ![r] = red], pipeline' = pipeline
  PROVE  ReductorsOK'
<1>1. red \in ReductorData
  BY DEF Contents
<1>2. reductors' \in [Reductors -> ReductorData]
  BY <1>1 DEF ReductorsOK
<1>3. \A s \in Reductors : reductors'[s] = IF s = r THEN red ELSE reductors[s]
  BY DEF ReductorsOK
<1>4. \A s \in Reductors : Contents(pipeline', reductors'[s])
  BY <1>3 DEF ReductorsOK
<1> QED
  BY <1>2, <1>4 DEF ReductorsOK

\* A change of the layers in which each reductor keeps its place.
LEMMA MapInv ==
  ASSUME ReductorsOK, NEW f, reductors' = [r \in Reductors |-> f[r]],
         \A r \in Reductors : Contents(pipeline, f[r]), pipeline' = pipeline
  PROVE  ReductorsOK'
<1>1. \A r \in Reductors : f[r] \in ReductorData
  BY DEF Contents
<1> QED
  BY <1>1 DEF ReductorsOK

\* What is in progress is the same, and nothing was in progress before.
LEMMA FreeInv ==
  ASSUME Inv, Free, ReductorsOK', UNCHANGED <<pipeVars, work, erased, oops>>
  PROVE  Inv'
<1>1. PipelineInv'
  BY DEF Inv, pipeVars, PipelineInv, PipelineTypeOK, Ready, StartedInside,
         WrapPrefix, Failing, N
<1>2. WorkOK'
  BY DEF Inv, WorkOK, Free, pipeVars
<1> QED
  BY <1>1, <1>2 DEF Inv

\* An operation starts to feed a sound state.
LEMMA CallingInv ==
  ASSUME Inv, Free, ReductorsOK',
         NEW of \in Reductors \cup {Nobody}, NEW to \in Reductors,
         NEW layers, Sound(pipeline, layers), NEW x \in Item,
         Calling(of, to, layers, x),
         UNCHANGED <<pipeline, out, threw, erased, oops>>
  PROVE  Inv'
<1>1. /\ PipelineInv /\ stack = <<>> /\ ~threw /\ out \in Seq(Item)
      /\ layer' = layers /\ stack' = <<Loop(1, <<x>>)>>
      /\ work' = [kind |-> "push", of |-> of, to |-> to, ending |-> 1]
  BY DEF Inv, WorkOK, Calling, PipelineInv, PipelineTypeOK
<1>2. threw' = FALSE
  <2>1. threw \in BOOLEAN /\ threw' = threw
    BY Zenon DEF Inv, PipelineInv, PipelineTypeOK
  <2> QED
    BY <1>1, <2>1
<1>3. PipelineInv'
  BY <1>1, <1>2, FeedSoundInv
<1>4. work' \in Operation
  BY <1>1 DEF Operation
<1>5. WorkOK'
  BY <1>1, <1>2, <1>4 DEF WorkOK, Free
<1> QED
  BY <1>3, <1>5 DEF Inv

\* Completion starts with a sound state, on which nothing has been called yet.
LEMMA CompletingInv ==
  ASSUME Inv, Free, ReductorsOK',
         NEW of \in Reductors, NEW layers, Sound(pipeline, layers),
         layer' = layers,
         work' = [kind |-> "complete", of |-> of, to |-> Nobody, ending |-> 1],
         UNCHANGED <<pipeline, stack, out, threw, erased, oops>>
  PROVE  Inv'
<1>1. PipelineInv /\ stack = <<>> /\ ~threw /\ out \in Seq(Item)
  BY DEF Inv, WorkOK, PipelineInv, PipelineTypeOK
<1>2. threw' = FALSE
  <2>1. threw \in BOOLEAN /\ threw' = threw
    BY Zenon DEF Inv, PipelineInv, PipelineTypeOK
  <2> QED
    BY <1>1, <2>1
<1>3. PipelineInv'
  BY <1>1, <1>2, TakeOutInv
<1>4. work' \in Operation
  BY DEF Operation
<1>5. WorkOK'
  BY <1>1, <1>2, <1>4 DEF WorkOK, Free
<1> QED
  BY <1>3, <1>5 DEF Inv

\* An operation ends: nothing is in progress any more.
LEMMA ClearedInv ==
  ASSUME Inv, stack = <<>>, ReductorsOK', Cleared, stack' = stack,
         threw' = FALSE, UNCHANGED <<pipeline, erased, oops>>
  PROVE  Inv'
<1>1. PipelineInv /\ PipelineTypeOK
  BY DEF Inv, PipelineInv
<1>2. layer' = Unused /\ out' \in Seq(Item) /\ work' = Rest
  BY DEF Cleared
<1>3. PipelineInv'
  BY <1>1, <1>2, UnusedSound, TakeOutInv
<1>4. Rest \in Operation
  BY DEF Rest, Operation
<1>5. WorkOK'
  BY <1>2, <1>4 DEF WorkOK, Rest
<1> QED
  BY <1>3, <1>5 DEF Inv

(***************************************************************************)
(* The invariant is inductive                                              *)
(***************************************************************************)

LEMMA InitInv ==
  Init => Inv
<1> SUFFICES ASSUME Init
             PROVE  Inv
  OBVIOUS
<1>1. PICK t \in Transducers : PipelineInit(t.stages) /\ erased = t.erased
  BY DEF Init
<1>2. t.stages \in Seq(Stage) /\ t.erased \in Nat
  BY TransducersAssumption
<1>3. PipelineInv /\ PipelineTypeOK
  BY <1>1, <1>2, PipelineInitInv DEF PipelineInv
<1>4. ReductorsOK
  <2>1. reductors = [r \in Reductors |-> None]
    BY DEF Init
  <2>2. Contents(pipeline, None)
    BY <1>3, NoneContents
  <2> QED
    BY <2>1, <2>2 DEF ReductorsOK, Contents
<1>5. WorkOK
  <2>1. work = Rest /\ stack = <<>> /\ ~threw
    BY <1>1 DEF Init, PipelineInit
  <2>2. Rest \in Operation /\ Rest.kind = "none"
    BY DEF Rest, Operation
  <2> QED
    BY <2>1, <2>2 DEF WorkOK
<1>6. oops \in BOOLEAN
  BY Zenon DEF Init
<1> QED
  BY <1>1, <1>2, <1>3, <1>4, <1>5, <1>6 DEF Inv

\* The operations that are done in one step.
LEMMA AtOnceInv ==
  ASSUME Inv, NEW r \in Reductors,
         \/ MakeEmpty(r) \/ Destroy(r)
         \/ \E x \in Values : SetCurrent(r, x)
         \/ \E s \in Reductors : Copy(r, s)
  PROVE  Inv'
<1>1. /\ PipelineTypeOK /\ ReductorsOK /\ Contents(pipeline, reductors[r])
      /\ Contents(pipeline, None)
  BY NoneContents DEF Inv, PipelineInv, ReductorsOK
<1>2. CASE MakeEmpty(r)
  <2>1. Contents(pipeline, [None EXCEPT !.status = "live"])
    BY <1>1, StatusContents
  <2>2. ReductorsOK'
    BY <1>1, <1>2, <2>1, PutInv DEF MakeEmpty, pipeVars
  <2> QED
    BY <1>2, <2>2, FreeInv DEF MakeEmpty
<1>3. CASE Destroy(r)
  <2>1. ReductorsOK'
    BY <1>1, <1>3, PutInv DEF Destroy, pipeVars
  <2> QED
    BY <1>3, <2>1, FreeInv DEF Destroy
<1>4. ASSUME NEW x \in Values, SetCurrent(r, x)
      PROVE  Inv'
  <2> DEFINE red == reductors[r]
             unknown == red.mistyped \/ Mistypes(red)
             new == [red EXCEPT !.acc = x, !.base = x, !.since = Len(red.pushed),
                                !.changes = @ + 1, !.mistyped = unknown]
  <2>1. reductors' = [reductors EXCEPT ![r] = new]
    BY <1>4 DEF SetCurrent
  <2>2. unknown \in BOOLEAN
    BY Zenon
  <2>3. x \in Seq(Item)
    BY <1>4, ReductorsAssumption
  <2>4. red \in ReductorData /\ Sound(pipeline, red.layer)
    BY <1>1 DEF Contents
  <2> HIDE DEF unknown, red
  <2>5. Len(red.pushed) \in Nat /\ red.changes + 1 \in Nat
    BY <2>4 DEF ReductorData
  <2>6. new \in ReductorData /\ new.layer = red.layer
    BY <2>2, <2>3, <2>4, <2>5 DEF ReductorData
  <2>7. Contents(pipeline, new)
    BY <2>4, <2>6 DEF Contents
  <2> HIDE DEF new
  <2>8. ReductorsOK'
    BY <1>1, <1>4, <2>1, <2>7, PutInv DEF SetCurrent, pipeVars
  <2> QED
    BY <1>4, <2>8, FreeInv DEF SetCurrent
<1>5. ASSUME NEW s \in Reductors, Copy(r, s)
      PROVE  Inv'
  <2> DEFINE own == Copyable(reductors[r].layer)
             new == [reductors[r] EXCEPT !.own = own]
  <2>1. reductors' = [reductors EXCEPT ![s] = new]
    BY <1>5 DEF Copy
  <2>2. own \in BOOLEAN
    BY Zenon DEF Copyable
  <2> HIDE DEF own
  <2>3. new \in ReductorData /\ new.layer = reductors[r].layer
    BY <1>1, <2>2 DEF Contents, ReductorData
  <2>4. Contents(pipeline, new)
    BY <1>1, <2>3 DEF Contents
  <2> HIDE DEF new
  <2>5. ReductorsOK'
    BY <1>1, <1>5, <2>1, <2>4, PutInv DEF Copy, pipeVars
  <2> QED
    BY <1>5, <2>5, FreeInv DEF Copy
<1> QED
  BY <1>2, <1>3, <1>4, <1>5

\* The operations that feed the step, up to its call.
LEMMA FeedingInv ==
  ASSUME Inv, NEW r \in Reductors, NEW x \in Inputs,
         \/ Make(r, x) \/ Push(r, x) \/ \E s \in Reductors : Advance(r, s, x)
  PROVE  Inv'
<1>1. /\ PipelineTypeOK /\ ReductorsOK /\ Contents(pipeline, reductors[r])
      /\ Contents(pipeline, None) /\ x \in Item
  BY NoneContents, ReductorsAssumption DEF Inv, PipelineInv, ReductorsOK
<1>2. Contents(pipeline, Extended(reductors[r], x))
  BY <1>1, ExtendedContents
<1>3. CASE Make(r, x)
  <2>1. Contents(pipeline, Extended(None, x))
    BY <1>1, ExtendedContents
  <2>2. ReductorsOK'
    BY <1>1, <1>3, <2>1, PutInv DEF Make
  <2>3. Sound(pipeline, Unused)
    BY <1>1, UnusedSound
  <2> QED
    BY <1>1, <1>3, <2>2, <2>3, CallingInv DEF Make
<1>4. CASE Push(r, x)
  <2> DEFINE new == [Extended(reductors[r], x) EXCEPT !.status = "moved"]
  <2>1. Contents(pipeline, new)
    BY <1>2, StatusContents
  <2>2. reductors' = [reductors EXCEPT ![r] = new]
    BY <1>4 DEF Push
  <2> HIDE DEF new
  <2>3. ReductorsOK'
    BY <1>1, <1>4, <2>1, <2>2, PutInv DEF Push
  <2> QED
    BY <1>1, <1>4, <2>3, CallingInv DEF Push, Contents
<1>5. ASSUME NEW s \in Reductors, Advance(r, s, x)
      PROVE  Inv'
  <2> DEFINE new == [Extended(reductors[r], x) EXCEPT !.status = "none"]
  <2>1. Contents(pipeline, new)
    BY <1>2, StatusContents
  <2>2. reductors' = [reductors EXCEPT ![s] = new]
    BY <1>5 DEF Advance
  <2> HIDE DEF new
  <2>3. ReductorsOK'
    BY <1>1, <1>5, <2>1, <2>2, PutInv DEF Advance
  <2> QED
    BY <1>1, <1>5, <2>3, CallingInv DEF Advance, Contents
<1> QED
  BY <1>3, <1>4, <1>5

\* The operations that complete a state, up to its first layer.
LEMMA EndingInv ==
  ASSUME Inv, NEW r \in Reductors, Complete(r) \/ CompleteMoved(r)
  PROVE  Inv'
<1>1. ReductorsOK /\ Contents(pipeline, reductors[r])
  BY DEF Inv, ReductorsOK
<1>2. CASE Complete(r)
  <2>1. ReductorsOK'
    BY <1>1, <1>2 DEF Complete, ReductorsOK
  <2> QED
    BY <1>1, <1>2, <2>1, CompletingInv DEF Complete, Contents
<1>3. CASE CompleteMoved(r)
  <2> DEFINE new == [reductors[r] EXCEPT !.status = "moved"]
  <2>1. Contents(pipeline, new)
    BY <1>1, StatusContents
  <2>2. reductors' = [reductors EXCEPT ![r] = new]
    BY <1>3 DEF CompleteMoved
  <2> HIDE DEF new
  <2>3. ReductorsOK'
    BY <1>1, <1>3, <2>1, <2>2, PutInv DEF CompleteMoved
  <2> QED
    BY <1>1, <1>3, <2>3, CompletingInv DEF CompleteMoved, Contents
<1> QED
  BY <1>2, <1>3

\* A step of the calls in progress changes nothing but the state at work.
LEMMA RunningInv ==
  ASSUME Inv, ~Free, stack # <<>>, PipelineInv', pipeline' = pipeline,
         threw' => stack' = <<>>,
         UNCHANGED <<erased, reductors, work>>, oops' \in BOOLEAN
  PROVE  Inv'
<1>1. ReductorsOK'
  BY DEF Inv, ReductorsOK
<1>2. WorkOK'
  BY DEF Inv, WorkOK, Free
<1> QED
  BY <1>1, <1>2 DEF Inv

\* What happens between the start of an operation and its end.
LEMMA ProgressInv ==
  ASSUME Inv, CompleteStage \/ Oops \/ Run
  PROVE  Inv'
<1>1. /\ PipelineInv /\ PipelineTypeOK /\ ReductorsOK /\ WorkOK
      /\ erased \in Nat /\ work \in Operation
  BY DEF Inv, PipelineInv, WorkOK
<1>2. oops \in BOOLEAN
  BY Zenon DEF Inv
<1>3. CASE CompleteStage
  <2> DEFINE k == work.ending
  <2>1. /\ stack = <<>> /\ ~threw /\ k \in 1..N /\ ~Free
        /\ stack' = <<Loop(k + 1, Flush(pipeline[k], layer[k]))>>
        /\ UNCHANGED <<pipeline, layer, out, threw>>
    <3>1. N \in Nat /\ k \in Nat \ {0}
      BY <1>1 DEF N, PipelineTypeOK, Operation
    <3> QED
      BY <1>3, <3>1 DEF CompleteStage, Resting
  <2>2. PipelineInv'
    BY <1>1, <2>1, CompletionInv
  <2>3. k + 1 \in Nat \ {0}
    BY <2>1
  <2>4. work' \in Operation /\ work'.kind = "complete"
    BY <1>1, <1>3, <2>3 DEF CompleteStage, Operation
  <2>5. WorkOK' /\ ReductorsOK'
    BY <1>1, <1>3, <2>1, <2>4 DEF CompleteStage, WorkOK, Free, ReductorsOK
  <2> QED
    BY <1>1, <1>2, <1>3, <2>2, <2>5 DEF CompleteStage, Inv
<1>4. CASE Oops
  <2>1. Due /\ ~Free /\ stack # <<>> /\ Top.mode # "throw" /\ ~threw
    <3>1. Due /\ work.of # Nobody
      BY <1>4 DEF Oops, Unknown
    <3>2. stack # <<>> /\ Top.mode # "throw"
      BY <3>1 DEF Due
    <3> QED
      BY <1>1, <3>1, <3>2 DEF WorkOK
  <2>2. Top \in Frame /\ Advanced \in Frame /\ Advanced.at = Top.at
    <3>1. Top.todo # <<>>
      BY <2>1 DEF Due
    <3> QED
      BY <1>1, <2>1, <3>1, TopType
  <2>3. <<Advanced>> \in Seq(Frame) /\ \A r \in 1..Len(<<Advanced>>) :
                                        <<Advanced>>[r].at = Top.at
    BY <2>2
  <2>4. /\ stack' = <<Advanced>> \o Tail(stack)
        /\ UNCHANGED <<pipeline, layer, out, threw, erased, reductors, work>>
        /\ out' \in Seq(Item) /\ Top.todo # <<>>
    BY <1>1, <1>4, <2>1 DEF Oops, PipelineTypeOK, Due
  <2>5. PipelineInv'
    BY <1>1, <2>1, <2>3, <2>4, SameLayersInv
  <2>6. oops' \in BOOLEAN
    BY <1>4, Zenon DEF Oops
  <2> QED
    BY <2>1, <2>4, <2>5, <2>6, RunningInv
<1>5. CASE Run
  <2>1. PipelineStep /\ ~Free /\ UNCHANGED <<erased, reductors, work, oops>>
    BY <1>5 DEF Run
  <2>2. PipelineInv'
    BY <1>1, <2>1, PipelineStepInv
  <2>3. pipeline' = pipeline /\ stack # <<>>
    BY <2>1 DEF PipelineStep, CallStage, CallBase, Return, ThrowFirst,
                StepThenThrow, Unwind, Due
  <2>4. threw' => stack' = <<>>
    <3>1. ~threw
      BY <1>1, <2>3 DEF WorkOK
    <3> QED
      BY <2>1, <3>1 DEF PipelineStep, CallStage, CallBase, Return, ThrowFirst,
                        StepThenThrow, Unwind
  <2> QED
    BY <1>2, <2>1, <2>2, <2>3, <2>4, RunningInv
<1> QED
  BY <1>3, <1>4, <1>5

\* The end of an operation: its state is put away, or forgotten.
LEMMA EndedInv ==
  ASSUME Inv, Pushed \/ Completed \/ Catch
  PROVE  Inv'
<1>1. /\ PipelineInv /\ PipelineTypeOK /\ ReductorsOK /\ WorkOK
  BY DEF Inv, PipelineInv
<1>2. \A r \in Reductors : /\ Contents(pipeline, reductors[r])
                           /\ Contents(pipeline, Remains(reductors[r]))
  BY <1>1, RemainsContents DEF ReductorsOK
<1>3. CASE Pushed
  <2>1. stack = <<>> /\ ~threw /\ work.to \in Reductors /\ threw' = FALSE
    <3>1. stack = <<>> /\ ~threw /\ work.to \in Reductors /\ threw' = threw
      BY <1>1, <1>3 DEF Pushed, Resting, WorkOK
    <3> QED
      BY <1>1, <3>1, Zenon DEF PipelineTypeOK
  <2> DEFINE to == reductors[work.to]
             own == to.own /\ (work.of = work.to \/ Copyable(layer))
             new == [to EXCEPT !.status = "live", !.layer = layer,
                               !.acc = @ \o out, !.own = own]
  <2>2. reductors' = [reductors EXCEPT ![work.to] = new]
    BY <1>3 DEF Pushed
  <2>3. own \in BOOLEAN
    BY Zenon
  <2>4. Sound(pipeline, layer) /\ layer \in Seq(Layer)
    BY <1>1, <2>1, ReturnedSound, SoundLayers
  <2>5. to \in ReductorData
    BY <1>2, <2>1 DEF Contents
  <2> HIDE DEF own, to
  <2>6. to.acc \o out \in Seq(Item)
    BY <1>1, <2>5 DEF ReductorData, PipelineTypeOK
  <2>7. new \in ReductorData /\ new.layer = layer
    BY <2>3, <2>4, <2>5, <2>6 DEF ReductorData
  <2>8. Contents(pipeline, new)
    BY <2>4, <2>7 DEF Contents
  <2> HIDE DEF new
  <2>9. ReductorsOK'
    BY <1>1, <1>3, <2>1, <2>2, <2>8, PutInv DEF Pushed
  <2> QED
    BY <1>3, <2>1, <2>9, ClearedInv DEF Pushed
<1>4. CASE Completed
  <2>1. stack = <<>> /\ threw' = FALSE
    <3>1. stack = <<>> /\ ~threw /\ threw' = threw
      BY <1>4 DEF Completed, AtResult, Resting
    <3> QED
      BY <1>1, <3>1, Zenon DEF PipelineTypeOK
  <2>2. ReductorsOK'
    BY <1>2, <1>4 DEF Completed, ReductorsOK, Contents
  <2> QED
    BY <1>4, <2>1, <2>2, ClearedInv DEF Completed
<1>5. CASE Catch
  <2>1. stack = <<>> /\ threw' = FALSE
    BY <1>1, <1>5 DEF Catch, WorkOK
  <2>2. Contents(pipeline, None)
    BY <1>1, NoneContents
  <2>3. ReductorsOK'
    BY <1>2, <1>5, <2>2 DEF Catch, ReductorsOK, Contents
  <2> QED
    BY <1>5, <2>1, <2>3, ClearedInv DEF Catch
<1> QED
  BY <1>3, <1>4, <1>5

LEMMA NextInv ==
  Inv /\ [Next]_redVars => Inv'
<1> SUFFICES ASSUME Inv, [Next]_redVars
             PROVE  Inv'
  OBVIOUS
<1>1. CASE Work
  BY <1>1, ProgressInv, EndedInv DEF Work
<1>2. ASSUME NEW r \in Reductors,
             \/ MakeEmpty(r) \/ Destroy(r) \/ Complete(r) \/ CompleteMoved(r)
             \/ \E x \in Inputs : Make(r, x) \/ Push(r, x)
             \/ \E x \in Values : SetCurrent(r, x)
      PROVE  Inv'
  BY <1>2, AtOnceInv, FeedingInv, EndingInv
<1>3. ASSUME NEW r \in Reductors, NEW s \in Reductors,
             Copy(r, s) \/ \E x \in Inputs : Advance(r, s, x)
      PROVE  Inv'
  BY <1>3, AtOnceInv, FeedingInv
<1>4. CASE UNCHANGED redVars
  BY <1>4 DEF redVars, pipeVars, Inv, PipelineInv, PipelineTypeOK, Ready,
              StartedInside, WrapPrefix, Failing, N, ReductorsOK, WorkOK, Free
<1> QED
  BY <1>1, <1>2, <1>3, <1>4 DEF Next

\* The invariant holds whatever the program does with its reductors.
THEOREM Invariance == Spec => []Inv
BY InitInv, NextInv, PTL DEF Spec

\* The state of every reductor, the operations in progress and what they have
\* given out keep the types that the code gives them, and every state has one
\* layer for each stage, whatever is made, fed, changed, copied, completed or
\* interrupted by an exception (reductor.hpp).
THEOREM TypeCorrect == Spec => []TypeOK
<1>1. Inv => TypeOK
  <2> SUFFICES ASSUME Inv
               PROVE  TypeOK
    OBVIOUS
  <2>1. /\ PipelineTypeOK /\ erased \in Nat /\ work \in Operation
        /\ reductors \in [Reductors -> ReductorData]
    BY DEF Inv, PipelineInv, WorkOK, ReductorsOK
  <2>2. oops \in BOOLEAN
    BY Zenon DEF Inv
  <2>3. \A r \in Reductors : Len(reductors[r].layer) = N
    BY <2>1, SoundLayers DEF Inv, ReductorsOK, Contents
  <2> QED
    BY <2>1, <2>2, <2>3 DEF TypeOK
<1> QED
  BY <1>1, Invariance, PTL

\* Every layer of every reductor is inside those of the stages before it, after
\* any sequence of operations and exceptions: operator() and complete() of
\* reductor.hpp find all the data that was held back.
THEOREM StatesStaySound == Spec => []StatesSound
<1>1. Inv => StatesSound
  BY DEF Inv, ReductorsOK, Contents, StatesSound
<1> QED
  BY <1>1, Invariance, PTL

(***************************************************************************)
(* When a reductor stops                                                   *)
(***************************************************************************)

\* Every state that a reductor keeps is one between two calls.
StatesRest == \A r \in Reductors : AtRest(reductors[r].layer)

\* With a polite pipeline: every call is in time, and what the stages that are
\* not completed yet hold back can still be fed.
InvStop ==
  /\ Inv
  /\ Polite(pipeline)
  /\ StopInv
  /\ StatesRest
  /\ \A k \in 1..N : work.ending <= k => HoldsBack(k)
  /\ work.kind # "complete" => work.ending = 1

\* What most operations do to a reductor leaves its layers alone.
LEMMA LayersKept ==
  ASSUME NEW red \in ReductorData, NEW x, NEW status, NEW own
  PROVE  /\ [red EXCEPT !.status = status].layer = red.layer
         /\ [red EXCEPT !.own = own].layer = red.layer
         /\ Extended(red, x).layer = red.layer
         /\ [Extended(red, x) EXCEPT !.status = status].layer = red.layer
BY DEF ReductorData, Extended

\* A variable that nothing, or what was moved from, is in has an unused state.
LEMMA NoneAtRest ==
  ASSUME PipelineTypeOK, NEW x, NEW status
  PROVE  /\ AtRest(Unused)
         /\ AtRest(None.layer)
         /\ AtRest([None EXCEPT !.status = status].layer)
         /\ AtRest(Extended(None, x).layer)
<1>1. AtRest(Unused)
  BY FreshAtRest DEF Unused
<1>2. None \in ReductorData /\ None.layer = Unused
  BY NoneContents DEF Contents, None
<1> QED
  BY <1>1, <1>2, LayersKept

\* A reductor variable is given another content.
LEMMA PutRest ==
  ASSUME Inv, StatesRest, NEW r \in Reductors, NEW red, AtRest(red.layer),
         reductors' = [reductors EXCEPT ![r] = red], pipeline' = pipeline
  PROVE  StatesRest'
<1>1. N' = N
  BY DEF N
<1>2. ASSUME NEW s \in Reductors
      PROVE  AtRest(reductors'[s].layer)
  BY DEF Inv, ReductorsOK, StatesRest
<1>3. ASSUME NEW layers, AtRest(layers)
      PROVE  AtRest(layers)'
  BY <1>1, <1>3 DEF AtRest, Marks, Calm, ReducedWith
<1> QED
  BY <1>2, <1>3 DEF StatesRest

LEMMA InitStop ==
  Init /\ Polite(pipeline) => InvStop
<1> SUFFICES ASSUME Init, Polite(pipeline)
             PROVE  InvStop
  OBVIOUS
<1>1. Inv /\ PipelineTypeOK
  BY InitInv DEF Inv, PipelineInv
<1>2. AtRest(Unused) /\ AtRest(None.layer)
  BY <1>1, NoneAtRest
<1>3. stack = <<>> /\ layer = Unused /\ work = Rest
  BY DEF Init, PipelineInit, Unused, N
<1>4. 1..Len(stack) = {}
  BY <1>3
<1>5. StopInv
  BY <1>2, <1>3, <1>4 DEF StopInv, Outwards, StartsInTime, AtRest
<1>6. \A k \in 1..N : HoldsBack(k)
  BY <1>2, <1>3, CalmAtRest DEF AtRest
<1>7. StatesRest
  BY <1>2 DEF StatesRest, Init
<1>8. work.ending = 1
  BY <1>3 DEF Rest
<1> QED
  BY <1>1, <1>5, <1>6, <1>7, <1>8 DEF InvStop

\* What is in progress is the same.
LEMMA FreeStop ==
  ASSUME InvStop, Inv', StatesRest', UNCHANGED <<pipeVars, work>>
  PROVE  InvStop'
<1>1. /\ N' = N /\ pipeline' = pipeline /\ layer' = layer /\ stack' = stack
  BY DEF pipeVars, N
<1>2. StopInv'
  BY <1>1 DEF InvStop, StopInv, Outwards, StartsInTime, Marks, Reduced, Unstopped
<1>3. \A k \in 1..N : HoldsBack(k) => HoldsBack(k)'
  BY <1>1 DEF HoldsBack, Calm, ReducedWith
<1> QED
  BY <1>1, <1>2, <1>3 DEF InvStop

\* An operation starts to feed a state that is at rest and not reduced.
LEMMA CallingStop ==
  ASSUME InvStop, Inv', StatesRest', NEW of, NEW to, NEW layers, NEW x \in Item,
         AtRest(layers), ~ReducedWith(layers, 1),
         Calling(of, to, layers, x), pipeline' = pipeline
  PROVE  InvStop'
<1>1. /\ layer' = layers /\ stack' = <<Loop(1, <<x>>)>>
      /\ work'.ending = 1 /\ N' = N
  BY DEF Calling, N
<1>2. PipelineTypeOK
  BY DEF InvStop, Inv, PipelineInv
<1>3. StopInv' /\ \A k \in 1..N : HoldsBack(k)'
  BY <1>1, <1>2, FeedAtRestStop
<1> QED
  BY <1>1, <1>3 DEF InvStop

\* A state that is at rest is taken out, or forgotten.
LEMMA TakenOutStop ==
  ASSUME InvStop, Inv', StatesRest', NEW layers, AtRest(layers),
         layer' = layers, stack' = <<>>, work'.ending = 1, pipeline' = pipeline
  PROVE  InvStop'
<1>1. StopInv' /\ \A k \in 1..N : HoldsBack(k)'
  BY TakeOutStop
<1>2. N' = N
  BY DEF N
<1> QED
  BY <1>1, <1>2 DEF InvStop

\* A state that promises more is not reduced.
LEMMA PromisingStop ==
  ASSUME NEW r \in Reductors, Pushable(r)
  PROVE  ~ReducedWith(reductors[r].layer, 1)
BY DEF Pushable, Promising, ReducedWith

\* The operations of the program, up to the first call that they make.
LEMMA OperationStop ==
  ASSUME InvStop, Inv', NEW r \in Reductors,
         \/ MakeEmpty(r) \/ Destroy(r) \/ Complete(r) \/ CompleteMoved(r)
         \/ \E x \in Values : SetCurrent(r, x)
         \/ \E s \in Reductors : Copy(r, s)
         \/ \E x \in Inputs : \/ Make(r, x) \/ Push(r, x)
                             \/ \E s \in Reductors : Advance(r, s, x)
  PROVE  InvStop'
<1>1. /\ Inv /\ PipelineTypeOK /\ StatesRest
      /\ AtRest(reductors[r].layer) /\ reductors[r] \in ReductorData
      /\ AtRest(Unused) /\ AtRest(None.layer)
      /\ AtRest([None EXCEPT !.status = "live"].layer)
  BY NoneAtRest DEF InvStop, Inv, PipelineInv, ReductorsOK, StatesRest
<1>2. CASE MakeEmpty(r)
  <2>1. StatesRest'
    BY <1>1, <1>2, PutRest DEF MakeEmpty, pipeVars
  <2> QED
    BY <1>2, <2>1, FreeStop DEF MakeEmpty
<1>3. CASE Destroy(r)
  <2>1. StatesRest'
    BY <1>1, <1>3, PutRest DEF Destroy, pipeVars
  <2> QED
    BY <1>3, <2>1, FreeStop DEF Destroy
<1>4. CASE Complete(r)
  <2>1. StatesRest'
    BY <1>1, <1>4 DEF Complete, StatesRest, AtRest, Marks, Calm, ReducedWith, N
  <2>2. /\ layer' = reductors[r].layer /\ stack' = <<>> /\ work'.ending = 1
        /\ pipeline' = pipeline
    BY <1>1, <1>4 DEF Complete, Inv, WorkOK
  <2> QED
    BY <1>1, <2>1, <2>2, TakenOutStop
<1>5. CASE CompleteMoved(r)
  <2> DEFINE new == [reductors[r] EXCEPT !.status = "moved"]
  <2>1. AtRest(new.layer)
    BY <1>1, LayersKept
  <2>2. reductors' = [reductors EXCEPT ![r] = new] /\ pipeline' = pipeline
    BY <1>5 DEF CompleteMoved
  <2> HIDE DEF new
  <2>3. StatesRest'
    BY <1>1, <2>1, <2>2, PutRest
  <2>4. layer' = reductors[r].layer /\ stack' = <<>> /\ work'.ending = 1
    BY <1>1, <1>5 DEF CompleteMoved, Inv, WorkOK
  <2> QED
    BY <1>1, <2>2, <2>3, <2>4, TakenOutStop
<1>6. ASSUME NEW x \in Values, SetCurrent(r, x)
      PROVE  InvStop'
  <2> DEFINE red == reductors[r]
             new == [red EXCEPT !.acc = x, !.base = x, !.since = Len(red.pushed),
                                !.changes = @ + 1,
                                !.mistyped = @ \/ Mistypes(red)]
  <2>1. new.layer = red.layer
    BY <1>1 DEF ReductorData
  <2>2. reductors' = [reductors EXCEPT ![r] = new]
    BY <1>6 DEF SetCurrent
  <2> HIDE DEF new
  <2>3. StatesRest'
    BY <1>1, <1>6, <2>1, <2>2, PutRest DEF SetCurrent, pipeVars
  <2> QED
    BY <1>6, <2>3, FreeStop DEF SetCurrent
<1>7. ASSUME NEW s \in Reductors, Copy(r, s)
      PROVE  InvStop'
  <2> DEFINE own == Copyable(reductors[r].layer)
             new == [reductors[r] EXCEPT !.own = own]
  <2>1. AtRest(new.layer)
    BY <1>1, LayersKept
  <2>2. reductors' = [reductors EXCEPT ![s] = new]
    BY <1>7 DEF Copy
  <2> HIDE DEF new
  <2>3. StatesRest'
    BY <1>1, <1>7, <2>1, <2>2, PutRest DEF Copy, pipeVars
  <2> QED
    BY <1>7, <2>3, FreeStop DEF Copy
<1>8. ASSUME NEW x \in Inputs, Make(r, x)
      PROVE  InvStop'
  <2>1. AtRest(Extended(None, x).layer) /\ x \in Item
    BY <1>1, NoneAtRest, ReductorsAssumption
  <2>2. StatesRest'
    BY <1>1, <1>8, <2>1, PutRest DEF Make
  <2>3. ~ReducedWith(Unused, 1)
    BY FreshPromising DEF Unused
  <2> QED
    BY <1>1, <1>8, <2>1, <2>2, <2>3, CallingStop DEF Make
<1>9. ASSUME NEW x \in Inputs, Push(r, x)
      PROVE  InvStop'
  <2> DEFINE new == [Extended(reductors[r], x) EXCEPT !.status = "moved"]
  <2>1. AtRest(new.layer) /\ x \in Item
    BY <1>1, LayersKept, ReductorsAssumption
  <2>2. reductors' = [reductors EXCEPT ![r] = new]
    BY <1>9 DEF Push
  <2> HIDE DEF new
  <2>3. StatesRest'
    BY <1>1, <1>9, <2>1, <2>2, PutRest DEF Push
  <2>4. ~ReducedWith(reductors[r].layer, 1)
    BY <1>9, PromisingStop DEF Push
  <2> QED
    BY <1>1, <1>9, <2>1, <2>3, <2>4, CallingStop DEF Push
<1>10. ASSUME NEW x \in Inputs, NEW s \in Reductors, Advance(r, s, x)
      PROVE  InvStop'
  <2> DEFINE new == [Extended(reductors[r], x) EXCEPT !.status = "none"]
  <2>1. AtRest(new.layer) /\ x \in Item
    BY <1>1, LayersKept, ReductorsAssumption
  <2>2. reductors' = [reductors EXCEPT ![s] = new]
    BY <1>10 DEF Advance
  <2> HIDE DEF new
  <2>3. StatesRest'
    BY <1>1, <1>10, <2>1, <2>2, PutRest DEF Advance
  <2>4. ~ReducedWith(reductors[r].layer, 1)
    BY <1>10, PromisingStop DEF Advance
  <2> QED
    BY <1>1, <1>10, <2>1, <2>3, <2>4, CallingStop DEF Advance
<1> QED
  BY <1>2, <1>3, <1>4, <1>5, <1>6, <1>7, <1>8, <1>9, <1>10

\* What happens in an operation.
LEMMA WorkStop ==
  ASSUME InvStop, Inv', Work
  PROVE  InvStop'
<1>1. /\ Inv /\ PipelineInv /\ PipelineTypeOK /\ StatesRest /\ StopInv
      /\ Polite(pipeline) /\ AtRest(Unused) /\ N \in Nat /\ work \in Operation
      /\ \A r \in Reductors : AtRest(reductors[r].layer)
  <2>1. /\ Inv /\ PipelineInv /\ PipelineTypeOK /\ StatesRest /\ StopInv
        /\ Polite(pipeline) /\ work \in Operation
    BY DEF InvStop, Inv, PipelineInv, WorkOK
  <2>2. N \in Nat
    BY <2>1 DEF N, PipelineTypeOK
  <2>3. AtRest(Unused)
    BY <2>1, NoneAtRest
  <2> QED
    BY <2>1, <2>2, <2>3 DEF StatesRest
<1>2. ASSUME NEW layers, AtRest(layers), pipeline' = pipeline
      PROVE  AtRest(layers)'
  BY <1>2 DEF AtRest, Marks, Calm, ReducedWith, N
<1>3. CASE CompleteStage
  <2>1. /\ stack = <<>> /\ work.ending \in 1..N
        /\ stack' = <<Loop(work.ending + 1,
                           Flush(pipeline[work.ending], layer[work.ending]))>>
        /\ UNCHANGED <<pipeline, layer, reductors>> /\ N' = N
        /\ work'.ending = work.ending + 1 /\ work'.kind = "complete"
    <3>1. work.ending \in Nat \ {0} /\ work.ending <= N
      BY <1>1, <1>3 DEF CompleteStage, Operation
    <3>2. work'.ending = work.ending + 1 /\ work'.kind = "complete"
      BY <1>1, <1>3 DEF CompleteStage, Operation
    <3> QED
      BY <1>1, <1>3, <3>1, <3>2 DEF CompleteStage, Resting, N
  <2>2. PICK k \in 1..N : k = work.ending
    BY <2>1
  <2>3. HoldsBack(k) /\ \A i \in (k + 1)..N : HoldsBack(i)
    BY <1>1, <2>1, <2>2 DEF InvStop
  <2>4. StopInv' /\ \A i \in (k + 1)..N : HoldsBack(i) => HoldsBack(i)'
    BY <1>1, <2>1, <2>2, <2>3, CompletionStop
  <2>5. \A i \in 1..N' : work'.ending <= i => HoldsBack(i)'
    <3> TAKE i \in 1..N'
    <3>1. work'.ending <= i => i \in (k + 1)..N
      BY <1>1, <2>1, <2>2
    <3> QED
      BY <2>3, <2>4, <3>1
  <2>6. StatesRest'
    BY <1>1, <1>2, <2>1 DEF StatesRest
  <2> QED
    BY <1>1, <2>1, <2>4, <2>5, <2>6 DEF InvStop
<1>4. ASSUME StopInv', \A k \in 1..N : HoldsBack(k) => HoldsBack(k)',
             UNCHANGED <<pipeline, work, reductors>>
      PROVE  InvStop'
  <2>1. StatesRest'
    BY <1>1, <1>2, <1>4 DEF StatesRest
  <2>2. N' = N
    BY <1>4 DEF N
  <2> QED
    BY <1>1, <1>4, <2>1, <2>2 DEF InvStop
<1>5. CASE Oops
  <2>1. /\ Due /\ stack' = <<Advanced>> \o Tail(stack)
        /\ UNCHANGED <<pipeline, layer, work, reductors>>
    BY <1>5 DEF Oops, Unknown
  <2>2. /\ stack # <<>> /\ Advanced \in Frame /\ Advanced.at = Top.at
        /\ Advanced.mode = "next"
    BY <1>1, <2>1, DueTop
  <2>3. <<Advanced>> \in Seq(Frame) /\ Len(<<Advanced>>) <= 1
    BY <2>2
  <2>4. \A r \in 1..Len(<<Advanced>>) :
          <<Advanced>>[r].at = Top.at /\ <<Advanced>>[r].mode = "next"
    BY <2>2
  <2>5. StopInv' /\ \A k \in 1..N : HoldsBack(k) => HoldsBack(k)'
    BY <1>1, <2>1, <2>2, <2>3, <2>4, SameLayersStop
  <2> QED
    BY <1>4, <2>1, <2>5
<1>6. CASE Run
  <2>1. StopInv' /\ \A k \in 1..N : HoldsBack(k) => HoldsBack(k)'
    BY <1>1, <1>6, PipelineStepStop DEF Run
  <2>2. pipeline' = pipeline
    BY <1>6 DEF Run, PipelineStep, CallStage, CallBase, Return, ThrowFirst,
                StepThenThrow, Unwind
  <2> QED
    BY <1>4, <1>6, <2>1, <2>2 DEF Run
<1>7. ASSUME Cleared, stack = <<>>, stack' = stack, pipeline' = pipeline, StatesRest'
      PROVE  InvStop'
  BY <1>1, <1>7, TakenOutStop DEF InvStop, Cleared, Rest
<1>8. CASE Pushed
  <2>1. stack = <<>> /\ stack' = stack /\ pipeline' = pipeline /\ Cleared
    BY <1>8 DEF Pushed, Resting
  <2>2. AtRest(layer)
    <3>1. work.ending = 1
      BY <1>8 DEF Pushed, InvStop
    <3>2. \A k \in 1..N : HoldsBack(k)
      BY <3>1 DEF InvStop
    <3> QED
      BY <1>1, <2>1, <3>2, ReturnedAtRest
  <2> DEFINE to == reductors[work.to]
             new == [to EXCEPT !.status = "live", !.layer = layer, !.acc = @ \o out,
                       !.own = @ /\ (work.of = work.to \/ Copyable(layer))]
  <2>3. /\ reductors' = [reductors EXCEPT ![work.to] = new]
        /\ work.to \in Reductors
    BY <1>1, <1>8 DEF Pushed, Inv, WorkOK
  <2>4. new.layer = layer
    BY <1>1, <2>3 DEF Inv, ReductorsOK, ReductorData
  <2> HIDE DEF new
  <2>5. StatesRest'
    BY <1>1, <2>1, <2>2, <2>3, <2>4, PutRest
  <2> QED
    BY <1>7, <2>1, <2>5
<1>9. \A r \in Reductors : AtRest(Remains(reductors[r]).layer) /\ AtRest(None.layer)
  BY <1>1, NoneAtRest DEF Remains
<1>10. CASE Completed
  <2>1. stack = <<>> /\ stack' = stack /\ pipeline' = pipeline /\ Cleared
    BY <1>10 DEF Completed, AtResult, Resting
  <2>2. \A r \in Reductors : AtRest(reductors'[r].layer)
    BY <1>9, <1>10 DEF Completed
  <2>3. StatesRest'
    BY <1>2, <2>1, <2>2 DEF StatesRest
  <2> QED
    BY <1>7, <2>1, <2>3
<1>11. CASE Catch
  <2>1. stack = <<>> /\ stack' = stack /\ pipeline' = pipeline /\ Cleared
    BY <1>1, <1>11 DEF Catch, Inv, WorkOK
  <2>2. \A r \in Reductors : AtRest(reductors'[r].layer)
    BY <1>9, <1>11 DEF Catch
  <2>3. StatesRest'
    BY <1>2, <2>1, <2>2 DEF StatesRest
  <2> QED
    BY <1>7, <2>1, <2>3
<1> QED
  BY <1>3, <1>5, <1>6, <1>8, <1>10, <1>11 DEF Work

LEMMA NextStop ==
  InvStop /\ [Next]_redVars => InvStop'
<1> SUFFICES ASSUME InvStop, [Next]_redVars
             PROVE  InvStop'
  OBVIOUS
<1>1. Inv'
  BY NextInv DEF InvStop
<1>2. CASE Work
  BY <1>1, <1>2, WorkStop
<1>3. ASSUME NEW r \in Reductors,
             \/ MakeEmpty(r) \/ Destroy(r) \/ Complete(r) \/ CompleteMoved(r)
             \/ \E x \in Inputs : Make(r, x) \/ Push(r, x)
             \/ \E x \in Values : SetCurrent(r, x)
      PROVE  InvStop'
  BY <1>1, <1>3, OperationStop
<1>4. ASSUME NEW r \in Reductors, NEW s \in Reductors,
             Copy(r, s) \/ \E x \in Inputs : Advance(r, s, x)
      PROVE  InvStop'
  BY <1>1, <1>4, OperationStop
<1>5. CASE UNCHANGED redVars
  <2>1. StatesRest'
    BY <1>5 DEF redVars, pipeVars, InvStop, StatesRest, AtRest, Marks, Calm,
                ReducedWith, N
  <2> QED
    BY <1>1, <1>5, <2>1, FreeStop DEF redVars
<1> QED
  BY <1>2, <1>3, <1>4, <1>5 DEF Next

\* Whatever the program does with its reductors over a polite transducer, no
\* stage is called with a state that a stage after it has ended: operator() and
\* complete() of reductor.hpp go on from a state that says whether it may be fed.
THEOREM FeedsInTime == Spec /\ Polite(pipeline) => []NoFeedAfterReduced
<1>1. InvStop => NoFeedAfterReduced
  BY InTime DEF InvStop, Inv, PipelineInv
<1> QED
  BY <1>1, InitStop, NextStop, PTL DEF Spec

(***************************************************************************)
(* What a reductor shows                                                   *)
(***************************************************************************)

\* Which stages are still to be completed.
Closing(stages, closed) == {k \in 1..Len(stages) : closed}

\* What the stages have made before current(x) came (before), of what was pushed
\* since (after), what is on its way (got) and what comes of the inputs that may be
\* pushed yet (ahead) is what they make of all these inputs.
Told(stages, red, layers, stk, got, ahead, closed, closing, before, after) ==
  /\ before = Through(stages, SubSeq(red.pushed, 1, red.since), FALSE)
  /\ red.acc = red.base \o after
  /\ before \o (after \o (got \o Coming(stages, layers, stk, ahead, closing)[Len(stages)])) =
       Through(stages, red.pushed \o ahead, closed)

Tells(stages, red, layers, stk, got, ahead, closed, closing) ==
  \E before \in Seq(Item) : \E after \in Seq(Item) :
    Told(stages, red, layers, stk, got, ahead, closed, closing, before, after)

\* Whatever is pushed yet, and whether it is completed then; and what was pushed
\* accounts for the layers.
Keeps(stages, red, layers, stk, got) ==
  /\ red.since <= Len(red.pushed)
  /\ Recalled(stages, layers, stk, red.pushed)
  /\ \A ahead \in Seq(Item) : \A closed \in BOOLEAN :
       Tells(stages, red, layers, stk, got, ahead, closed, Closing(stages, closed))

Rested(stages, red) == Keeps(stages, red, red.layer, <<>>, <<>>)

Pushing ==
  work.kind = "push" =>
    /\ (work.of # Nobody /\ reductors[work.of].mistyped) => reductors[work.to].mistyped
    /\ (~Failing /\ ~reductors[work.to].mistyped) =>
         Keeps(pipeline, reductors[work.to], layer, stack, out)

Completing ==
  work.kind = "complete" =>
    /\ work.of \in Reductors
    /\ (~Failing /\ ~reductors[work.of].mistyped) =>
         Tells(pipeline, reductors[work.of], layer, stack, out, <<>>, TRUE,
               (work.ending)..Len(pipeline))

InvShow ==
  /\ InvStop
  /\ \A r \in Reductors :
       (Live(r) /\ ~reductors[r].mistyped) => Rested(pipeline, reductors[r])
  /\ Pushing
  /\ Completing
  /\ Free => out = <<>>

\* What is appended behind the same items is the same.
LEMMA Cancel ==
  ASSUME NEW xs \in Seq(Item), NEW ys \in Seq(Item), NEW zs \in Seq(Item),
         xs \o ys = xs \o zs
  PROVE  ys = zs
<1>1. /\ Len(xs) \in Nat /\ Len(ys) \in Nat /\ Len(zs) \in Nat
      /\ Len(xs \o ys) = Len(xs) + Len(ys) /\ Len(xs \o zs) = Len(xs) + Len(zs)
  OBVIOUS
<1>2. Len(xs) + Len(ys) = Len(xs) + Len(zs)
  BY <1>1, Zenon
<1>3. Len(ys) = Len(zs)
  BY <1>1, <1>2
<1>4. ASSUME NEW i \in 1..Len(ys)
      PROVE  ys[i] = zs[i]
  <2>1. (xs \o ys)[Len(xs) + i] = ys[i]
    BY <1>1
  <2>2. (xs \o zs)[Len(xs) + i] = zs[i]
    BY <1>1, <1>3
  <2> QED
    BY <2>1, <2>2, Zenon
<1> QED
  BY <1>3, <1>4

LEMMA NothingItself ==
  /\ <<>> \in Seq(Item)
  /\ <<>> \o <<>> = <<>>
  /\ SubSeq(<<>>, 1, 0) = <<>>
OBVIOUS

\* A reductor that is given nothing, over states that nothing was fed to.
LEMMA UnusedTells ==
  ASSUME PipelineTypeOK, NEW red, red.pushed = <<>>, red.since = 0,
         red.acc = <<>>, red.base = <<>>
  PROVE  Keeps(pipeline, red, Unused, <<>>, <<>>)
<1>1. pipeline \in Seq(Stage)
  BY DEF PipelineTypeOK
<1>2. PICK none \in Seq(Item) : none = <<>>
  BY NothingItself, Zenon
<1>3. \A k \in 1..Len(pipeline) : Unused[k] = Fresh
  BY DEF Unused, N
<1>4. ASSUME NEW closed \in BOOLEAN, NEW ahead \in Seq(Item)
      PROVE  /\ Able(pipeline, Unused)
             /\ Coming(pipeline, Unused, <<>>, ahead, Closing(pipeline, closed))[Len(pipeline)] =
                  Through(pipeline, ahead, closed)
  <2> DEFINE closing == Closing(pipeline, closed)
             layers == Unused
  <2>1. /\ \A k \in 1..Len(pipeline) : (k \in closing) = closed
        /\ \A k \in 1..Len(pipeline) : layers[k] = Fresh
    BY <1>3 DEF Closing
  <2> HIDE DEF closing, layers
  <2>2. /\ Able(pipeline, layers)
        /\ Coming(pipeline, layers, <<>>, ahead, closing)[Len(pipeline)] =
             Through(pipeline, ahead, closed)
    BY <1>1, <2>1, ComingThrough
  <2> QED
    BY <2>2 DEF closing, layers
<1>5. Through(pipeline, none, FALSE) = <<>>
  <2>1. \A k \in 1..Len(pipeline) : k \notin Closing(pipeline, FALSE)
    BY DEF Closing
  <2>2. Coming(pipeline, Unused, <<>>, <<>>, Closing(pipeline, FALSE))[Len(pipeline)] = <<>>
    BY <1>1, <1>2, <1>4, <2>1, NothingAhead
  <2>3. FALSE \in BOOLEAN
    OBVIOUS
  <2>4. Coming(pipeline, Unused, <<>>, none, Closing(pipeline, FALSE))[Len(pipeline)] =
          Through(pipeline, none, FALSE)
    BY <1>4, <2>3, Zenon
  <2> QED
    BY <1>2, <2>2, <2>4, Zenon
<1>6. ASSUME NEW ahead \in Seq(Item), NEW closed \in BOOLEAN
      PROVE  Tells(pipeline, red, Unused, <<>>, <<>>, ahead, closed, Closing(pipeline, closed))
  <2>1. PICK ys \in Seq(Item) : ys = Through(pipeline, ahead, closed)
    BY <1>1, ThroughType, Zenon
  <2>2. <<>> \o ys = ys /\ <<>> \o ahead = ahead
    BY NoItems
  <2>3. none = Through(pipeline, SubSeq(red.pushed, 1, red.since), FALSE)
    BY <1>2, <1>5, NothingItself, Zenon
  <2>4. red.acc = red.base \o none
    BY <1>2, NothingItself, Zenon
  <2>5. none \o (none \o (<<>> \o Coming(pipeline, Unused, <<>>, ahead, Closing(pipeline, closed))[Len(pipeline)])) =
          Through(pipeline, red.pushed \o ahead, closed)
    BY <1>2, <1>4, <2>1, <2>2, Zenon
  <2>6. Told(pipeline, red, Unused, <<>>, <<>>, ahead, closed, Closing(pipeline, closed), none, none)
    BY <2>3, <2>4, <2>5, Zenon DEF Told
  <2> QED
    BY <2>6 DEF Tells
<1>7. red.since <= Len(red.pushed)
  OBVIOUS
<1>8. Recalled(pipeline, Unused, <<>>, red.pushed)
  BY <1>1, <1>3, RecalledUnused
<1> QED
  BY <1>6, <1>7, <1>8 DEF Keeps

\* What is told depends on few fields of the reductor.
LEMMA TellsSame ==
  ASSUME NEW stages, NEW red, NEW red2, NEW layers, NEW stk, NEW got, NEW ahead,
         NEW closed, NEW closing,
         Tells(stages, red, layers, stk, got, ahead, closed, closing),
         red2.pushed = red.pushed, red2.since = red.since, red2.base = red.base,
         red2.acc = red.acc
  PROVE  Tells(stages, red2, layers, stk, got, ahead, closed, closing)
<1>1. PICK before \in Seq(Item), after \in Seq(Item) :
        Told(stages, red, layers, stk, got, ahead, closed, closing, before, after)
  BY DEF Tells
<1>2. Told(stages, red2, layers, stk, got, ahead, closed, closing, before, after)
  BY <1>1, Zenon DEF Told
<1> QED
  BY <1>2 DEF Tells

LEMMA KeepsSame ==
  ASSUME NEW stages, NEW red, NEW red2, NEW layers, NEW stk, NEW got,
         Keeps(stages, red, layers, stk, got),
         red2.pushed = red.pushed, red2.since = red.since, red2.base = red.base,
         red2.acc = red.acc
  PROVE  Keeps(stages, red2, layers, stk, got)
<1>1. ASSUME NEW ahead \in Seq(Item), NEW closed \in BOOLEAN
      PROVE  Tells(stages, red2, layers, stk, got, ahead, closed, Closing(stages, closed))
  BY TellsSame DEF Keeps
<1>2. red2.since <= Len(red2.pushed) /\ Recalled(stages, layers, stk, red2.pushed)
  BY DEF Keeps
<1> QED
  BY <1>1, <1>2 DEF Keeps

\* An item is on its way that was ahead before.
LEMMA FeedTells ==
  ASSUME NEW stages \in Seq(Stage), NEW layers, Able(stages, layers), NEW x \in Item,
         NEW red, NEW red2, red.pushed \in Seq(Item), red.since \in Nat,
         Keeps(stages, red, layers, <<>>, <<>>), red2.pushed = Append(red.pushed, x),
         red2.since = red.since, red2.base = red.base, red2.acc = red.acc
  PROVE  Keeps(stages, red2, layers, <<Loop(1, <<x>>)>>, <<>>)
<1>1. PICK xs \in Seq(Item) : xs = red.pushed
  OBVIOUS
<1>2. red.since <= Len(xs)
  BY <1>1 DEF Keeps
<1>3. ASSUME NEW ahead \in Seq(Item), NEW closed \in BOOLEAN
      PROVE  Tells(stages, red2, layers, <<Loop(1, <<x>>)>>, <<>>, ahead, closed,
                   Closing(stages, closed))
  <2>1. PICK more \in Seq(Item) : more = <<x>> \o ahead
    BY Appended, Zenon
  <2>2. PICK before \in Seq(Item), after \in Seq(Item) :
          Told(stages, red, layers, <<>>, <<>>, more, closed, Closing(stages, closed),
               before, after)
    BY DEF Keeps, Tells
  <2>3. Coming(stages, layers, <<Loop(1, <<x>>)>>, ahead, Closing(stages, closed))[Len(stages)] =
          Coming(stages, layers, <<>>, more, Closing(stages, closed))[Len(stages)]
    BY <2>1, FeedKeeps
  <2>4. SubSeq(red2.pushed, 1, red2.since) = SubSeq(red.pushed, 1, red.since)
    BY <1>1, <1>2, Appended, SMTT(30)
  <2>5. red2.pushed \o ahead = red.pushed \o more
    <3>1. Append(xs, x) \o ahead = xs \o (<<x>> \o ahead)
      BY Appended, ZenonT(40)
    <3> QED
      BY <1>1, <2>1, <3>1, Zenon
  <2>6. Told(stages, red2, layers, <<Loop(1, <<x>>)>>, <<>>, ahead, closed,
             Closing(stages, closed), before, after)
    BY <2>2, <2>3, <2>4, <2>5, Zenon DEF Told
  <2> QED
    BY <2>6 DEF Tells
<1>4. red2.since <= Len(red2.pushed)
  <2>1. Len(xs) \in Nat /\ Len(red2.pushed) \in Nat /\ Len(xs) <= Len(red2.pushed)
    BY <1>1, Appended, LenType
  <2> QED
    BY <1>2, <2>1
<1>5. Recalled(stages, layers, <<Loop(1, <<x>>)>>, red2.pushed)
  <2>1. Recalled(stages, layers, <<>>, red.pushed)
    BY DEF Keeps
  <2> QED
    BY <2>1, RecalledFed
<1> QED
  BY <1>3, <1>4, <1>5 DEF Keeps

Associates(xs, ys, zs) == (xs \o ys) \o zs = xs \o (ys \o zs)

LEMMA JoinsAssociate ==
  \A xs \in Seq(Item) : \A ys \in Seq(Item) : \A zs \in Seq(Item) : Associates(xs, ys, zs)
BY Associative DEF Associates

\* What has come out goes into the accumulator.
Gathers(red, red2, got) ==
  /\ red2.acc = red.acc \o got
  /\ red2.pushed = red.pushed /\ red2.since = red.since /\ red2.base = red.base

LEMMA GatherTells ==
  ASSUME NEW stages \in Seq(Stage), NEW layers, Able(stages, layers),
         NEW got \in Seq(Item), NEW red, NEW red2, red.base \in Seq(Item),
         Keeps(stages, red, layers, <<>>, got), Gathers(red, red2, got)
  PROVE  Keeps(stages, red2, layers, <<>>, <<>>)
<1>1. PICK base \in Seq(Item) : base = red.base
  OBVIOUS
<1>2. ASSUME NEW ahead \in Seq(Item), NEW closed \in BOOLEAN
      PROVE  Tells(stages, red2, layers, <<>>, <<>>, ahead, closed, Closing(stages, closed))
  <2>1. PICK before \in Seq(Item), after \in Seq(Item) :
          Told(stages, red, layers, <<>>, got, ahead, closed, Closing(stages, closed),
               before, after)
    BY DEF Keeps, Tells
  <2>2. PICK ys \in Seq(Item) :
          ys = Coming(stages, layers, <<>>, ahead, Closing(stages, closed))[Len(stages)]
    BY RestingType
  <2>3. PICK after2 \in Seq(Item) :
          /\ (base \o after) \o got = base \o after2
          /\ before \o (after2 \o (<<>> \o ys)) = before \o (after \o (got \o ys))
    <3>1. after \o got \in Seq(Item)
      OBVIOUS
    <3>2. Associates(base, after, got) /\ Associates(after, got, ys)
      BY JoinsAssociate, Zenon
    <3>3. /\ (base \o after) \o got = base \o (after \o got)
          /\ (after \o got) \o ys = after \o (got \o ys)
      BY <3>2, Zenon DEF Associates
    <3>4. <<>> \o ys = ys
      BY NoItems
    <3> QED
      BY <3>1, <3>3, <3>4, Zenon
  <2>4. red2.acc = red2.base \o after2
    BY <1>1, <2>1, <2>3, Zenon DEF Told, Gathers
  <2>5. before \o (after2 \o (<<>> \o Coming(stages, layers, <<>>, ahead, Closing(stages, closed))[Len(stages)])) =
          Through(stages, red2.pushed \o ahead, closed)
    BY <2>1, <2>2, <2>3, Zenon DEF Told, Gathers
  <2>6. Told(stages, red2, layers, <<>>, <<>>, ahead, closed, Closing(stages, closed),
             before, after2)
    BY <2>1, <2>4, <2>5, Zenon DEF Told, Gathers
  <2> QED
    BY <2>6 DEF Tells
<1>3. red2.since <= Len(red2.pushed) /\ Recalled(stages, layers, <<>>, red2.pushed)
  BY DEF Keeps, Gathers
<1> QED
  BY <1>2, <1>3 DEF Keeps

\* What was given and made so far.
LEMMA SoFar ==
  ASSUME NEW stages \in Seq(Stage), NEW layers, Able(stages, layers), NEW red,
         red.pushed \in Seq(Item), Keeps(stages, red, layers, <<>>, <<>>)
  PROVE  \E before \in Seq(Item) : \E after \in Seq(Item) :
           /\ before = Through(stages, SubSeq(red.pushed, 1, red.since), FALSE)
           /\ red.acc = red.base \o after
           /\ before \o after = Through(stages, red.pushed, FALSE)
<1>1. PICK xs \in Seq(Item) : xs = red.pushed
  OBVIOUS
<1>2. PICK none \in Seq(Item) : none = <<>>
  BY NothingItself, Zenon
<1>3. FALSE \in BOOLEAN
  OBVIOUS
<1>4. Tells(stages, red, layers, <<>>, <<>>, none, FALSE, Closing(stages, FALSE))
  BY <1>3, Zenon DEF Keeps
<1>5. PICK before \in Seq(Item), after \in Seq(Item) :
        Told(stages, red, layers, <<>>, <<>>, none, FALSE, Closing(stages, FALSE), before, after)
  BY <1>4 DEF Tells
<1>6. \A k \in 1..Len(stages) : k \notin Closing(stages, FALSE)
  BY DEF Closing
<1>7. Coming(stages, layers, <<>>, <<>>, Closing(stages, FALSE))[Len(stages)] = <<>>
  BY <1>6, NothingAhead
<1>8. xs \o <<>> = xs /\ after \o <<>> = after /\ <<>> \o <<>> = <<>>
  BY NoItems, NothingItself
<1>9. before \o after = Through(stages, red.pushed, FALSE)
  BY <1>1, <1>2, <1>5, <1>7, <1>8, Zenon DEF Told
<1> QED
  BY <1>5, <1>9, Zenon DEF Told

LEMMA WholePrefix ==
  ASSUME NEW xs \in Seq(Item)
  PROVE  SubSeq(xs, 1, Len(xs)) = xs
OBVIOUS

\* current(x): all that was made so far is what was made before.
LEMMA ChangeTells ==
  ASSUME NEW stages \in Seq(Stage), NEW layers, Able(stages, layers), NEW red,
         red.pushed \in Seq(Item), red.base \in Seq(Item),
         Keeps(stages, red, layers, <<>>, <<>>),
         NEW x \in Seq(Item), NEW red2, red2.pushed = red.pushed,
         red2.since = Len(red.pushed), red2.base = x, red2.acc = x
  PROVE  Keeps(stages, red2, layers, <<>>, <<>>)
<1>1. PICK xs \in Seq(Item), base \in Seq(Item) : xs = red.pushed /\ base = red.base
  OBVIOUS
<1>2. PICK before \in Seq(Item), after \in Seq(Item) :
        /\ before = Through(stages, SubSeq(red.pushed, 1, red.since), FALSE)
        /\ red.acc = red.base \o after
        /\ before \o after = Through(stages, red.pushed, FALSE)
  BY SoFar
<1>3. PICK past \in Seq(Item) : past = before \o after
  <2>1. before \o after \in Seq(Item)
    OBVIOUS
  <2> QED
    BY <2>1, Zenon
<1>4. PICK none \in Seq(Item) : none = <<>>
  BY NothingItself, Zenon
<1>5. past = Through(stages, SubSeq(red2.pushed, 1, red2.since), FALSE)
  <2>1. SubSeq(xs, 1, Len(xs)) = xs
    BY WholePrefix
  <2> QED
    BY <1>1, <1>2, <1>3, <2>1, Zenon
<1>6. red2.acc = red2.base \o none
  <2>1. x \o <<>> = x
    BY NoItems
  <2> QED
    BY <1>4, <2>1, Zenon
<1>7. ASSUME NEW ahead \in Seq(Item), NEW closed \in BOOLEAN
      PROVE  Tells(stages, red2, layers, <<>>, <<>>, ahead, closed, Closing(stages, closed))
  <2>1. PICK before2 \in Seq(Item), after2 \in Seq(Item) :
          Told(stages, red, layers, <<>>, <<>>, ahead, closed, Closing(stages, closed),
               before2, after2)
    BY DEF Keeps, Tells
  <2>2. before2 = before
    BY <1>2, <2>1, Zenon DEF Told
  <2>3. after2 = after
    <3>1. base \o after2 = base \o after
      BY <1>1, <1>2, <2>1, Zenon DEF Told
    <3> QED
      BY <3>1, Cancel
  <2>4. PICK ys \in Seq(Item) :
          ys = Coming(stages, layers, <<>>, ahead, Closing(stages, closed))[Len(stages)]
    BY RestingType
  <2>5. before \o (after \o ys) = Through(stages, red2.pushed \o ahead, closed)
    <3>1. <<>> \o ys = ys
      BY NoItems
    <3> QED
      BY <2>1, <2>2, <2>3, <2>4, <3>1, Zenon DEF Told
  <2>6. past \o ys = before \o (after \o ys)
    <3>1. Associates(before, after, ys)
      BY JoinsAssociate, Zenon
    <3> QED
      BY <1>3, <3>1, Zenon DEF Associates
  <2>7. none \o (<<>> \o ys) = ys
    <3>1. <<>> \o ys = ys
      BY NoItems
    <3> QED
      BY <1>4, <3>1, Zenon
  <2>8. past \o (none \o (<<>> \o Coming(stages, layers, <<>>, ahead, Closing(stages, closed))[Len(stages)])) =
          Through(stages, red2.pushed \o ahead, closed)
    BY <2>4, <2>5, <2>6, <2>7, Zenon
  <2>9. Told(stages, red2, layers, <<>>, <<>>, ahead, closed, Closing(stages, closed),
             past, none)
    BY <1>5, <1>6, <2>8, Zenon DEF Told
  <2> QED
    BY <2>9 DEF Tells
<1>8. red2.since <= Len(red2.pushed)
  <2>1. Len(xs) \in Nat /\ red2.since = Len(xs) /\ Len(red2.pushed) = Len(xs)
    BY <1>1
  <2> QED
    BY <2>1
<1>9. Recalled(stages, layers, <<>>, red2.pushed)
  BY DEF Keeps
<1> QED
  BY <1>7, <1>8, <1>9 DEF Keeps

\* A step inside a call tells nothing new.
LEMMA RunTells ==
  ASSUME PipelineInv, StopInv, PipelineStep, ~Failing', NEW red,
         NEW ahead \in Seq(Item), NEW closed, NEW closing,
         Tells(pipeline, red, layer, stack, out, ahead, closed, closing)
  PROVE  Tells(pipeline, red, layer', stack', out', ahead, closed, closing)
<1>1. PICK before \in Seq(Item), after \in Seq(Item) :
        Told(pipeline, red, layer, stack, out, ahead, closed, closing, before, after)
  BY DEF Tells
<1>2. out' \o Coming(pipeline, layer', stack', ahead, closing)[Len(pipeline)] =
        out \o Coming(pipeline, layer, stack, ahead, closing)[Len(pipeline)]
  BY StepKeeps DEF N
<1>3. Told(pipeline, red, layer', stack', out', ahead, closed, closing, before, after)
  BY <1>1, <1>2, Zenon DEF Told
<1> QED
  BY <1>3 DEF Tells

\* A stage is completed: what it has held back is on its way.
LEMMA CompletionTells ==
  ASSUME NEW stages \in Seq(Stage), NEW layers \in [1..Len(stages) -> Layer],
         Able(stages, layers), NEW k \in 1..Len(stages), NEW got, NEW red,
         Tells(stages, red, layers, <<>>, got, <<>>, TRUE, k..Len(stages))
  PROVE  Tells(stages, red, layers,
               <<Loop(k + 1, Flush(stages[k], layers[k]))>>, got, <<>>, TRUE,
               (k + 1)..Len(stages))
<1>1. PICK before \in Seq(Item), after \in Seq(Item) :
        Told(stages, red, layers, <<>>, got, <<>>, TRUE, k..Len(stages), before, after)
  BY DEF Tells
<1>2. PICK loop : loop = Loop(k + 1, Flush(stages[k], layers[k]))
  OBVIOUS
<1>3. Coming(stages, layers, <<loop>>, <<>>, (k + 1)..Len(stages))[Len(stages)] =
        Coming(stages, layers, <<>>, <<>>, k..Len(stages))[Len(stages)]
  BY <1>2, CompletionKeeps
<1>4. Told(stages, red, layers, <<loop>>, got, <<>>, TRUE, (k + 1)..Len(stages),
           before, after)
  BY <1>1, <1>3, Zenon DEF Told
<1> QED
  BY <1>2, <1>4 DEF Tells

\* What was made since then is what is left of all that was made.
LEMMA LeftOver ==
  ASSUME NEW before \in Seq(Item), NEW after \in Seq(Item), NEW all,
         all = before \o after
  PROVE  SubSeq(all, Len(before) + 1, Len(all)) = after
OBVIOUS

LEMMA ReductorType ==
  ASSUME Inv, NEW r \in Reductors
  PROVE  /\ reductors[r] \in ReductorData
         /\ Able(pipeline, reductors[r].layer)
         /\ pipeline \in Seq(Stage) /\ PipelineTypeOK
         /\ reductors \in [Reductors -> ReductorData]
<1>1. pipeline \in Seq(Stage) /\ PipelineTypeOK
  BY DEF Inv, PipelineInv, PipelineTypeOK
<1> QED
  BY <1>1, SoundAble DEF Inv, ReductorsOK, Contents

\* What is at rest shows what it should.
RestedShow ==
  \A r \in Reductors :
    (Live(r) /\ ~reductors[r].mistyped) => Rested(pipeline, reductors[r])

LEMMA PutShow ==
  ASSUME InvShow, NEW r \in Reductors, NEW red,
         reductors' = [reductors EXCEPT ![r] = red], pipeline' = pipeline,
         (red.status = "live" /\ ~red.mistyped) => Rested(pipeline, red)
  PROVE  RestedShow'
<1>1. reductors \in [Reductors -> ReductorData]
  BY DEF InvShow, InvStop, Inv, ReductorsOK
<1>2. ASSUME NEW s \in Reductors, reductors'[s].status = "live", ~reductors'[s].mistyped
      PROVE  Rested(pipeline', reductors'[s])
  <2>1. CASE s = r
    <3>1. reductors'[s] = red
      BY <1>1, <2>1
    <3> QED
      BY <1>2, <3>1
  <2>2. CASE s # r
    <3>1. reductors'[s] = reductors[s]
      BY <1>1, <2>2
    <3> QED
      BY <1>2, <3>1 DEF InvShow, Live
  <2> QED
    BY <2>1, <2>2
<1> QED
  BY <1>2 DEF RestedShow, Live

\* Nothing is in progress before or after.
LEMMA FreeShow ==
  ASSUME InvShow, InvStop', Free, RestedShow', UNCHANGED <<pipeVars, work>>
  PROVE  InvShow'
<1>1. work'.kind = "none" /\ out' = <<>>
  BY DEF InvShow, Free, pipeVars
<1> QED
  BY <1>1 DEF InvShow, RestedShow, Pushing, Completing

\* An operation is done.
LEMMA ClearedShow ==
  ASSUME InvShow, InvStop', Cleared, RestedShow'
  PROVE  InvShow'
<1>1. work'.kind = "none" /\ out' = <<>>
  BY DEF Cleared, Rest
<1> QED
  BY <1>1 DEF InvShow, RestedShow, Pushing, Completing

LEMMA InitShow ==
  Init /\ Polite(pipeline) => InvShow
<1> SUFFICES ASSUME Init, Polite(pipeline)
             PROVE  InvShow
  OBVIOUS
<1>1. InvStop
  BY InitStop
<1>2. work.kind = "none" /\ out = <<>>
  BY DEF Init, PipelineInit, Rest
<1>3. \A r \in Reductors : ~Live(r)
  BY DEF Init, None, Live
<1> QED
  BY <1>1, <1>2, <1>3 DEF InvShow, Pushing, Completing

\* The operations that are done in one step.
LEMMA AtOnceShow ==
  ASSUME InvShow, InvStop', NEW r \in Reductors,
         \/ MakeEmpty(r) \/ Destroy(r)
         \/ \E x \in Values : SetCurrent(r, x)
         \/ \E s \in Reductors : Copy(r, s)
  PROVE  InvShow'
<1>1. /\ PipelineTypeOK /\ pipeline \in Seq(Stage)
      /\ Able(pipeline, reductors[r].layer) /\ reductors[r] \in ReductorData
      /\ None \in ReductorData
  BY ReductorType, NoneContents DEF InvShow, InvStop, Contents
<1>2. (Live(r) /\ ~reductors[r].mistyped) => Rested(pipeline, reductors[r])
  BY DEF InvShow
<1>3. CASE MakeEmpty(r)
  <2> DEFINE new == [None EXCEPT !.status = "live"]
  <2>1. /\ new.pushed = None.pushed /\ new.since = None.since /\ new.acc = None.acc
        /\ new.base = None.base /\ new.layer = None.layer
    BY <1>1 DEF ReductorData
  <2>2. reductors' = [reductors EXCEPT ![r] = new]
    BY <1>3 DEF MakeEmpty
  <2> HIDE DEF new
  <2>3. /\ new.pushed = <<>> /\ new.since = 0 /\ new.acc = <<>> /\ new.base = <<>>
        /\ new.layer = Unused
    BY <2>1 DEF None
  <2>4. Keeps(pipeline, new, Unused, <<>>, <<>>)
    BY <1>1, <2>3, UnusedTells
  <2>5. Rested(pipeline, new)
    BY <2>3, <2>4, Zenon DEF Rested
  <2>6. RestedShow'
    BY <1>3, <2>2, <2>5, PutShow DEF MakeEmpty, pipeVars
  <2> QED
    BY <1>3, <2>6, FreeShow DEF MakeEmpty
<1>4. CASE Destroy(r)
  <2>1. None.status = "none"
    BY DEF None
  <2>2. RestedShow'
    BY <1>4, <2>1, PutShow DEF Destroy, pipeVars
  <2> QED
    BY <1>4, <2>2, FreeShow DEF Destroy
<1>5. ASSUME NEW x \in Values, SetCurrent(r, x)
      PROVE  InvShow'
  <2> DEFINE red == reductors[r]
             unknown == red.mistyped \/ Mistypes(red)
             new == [red EXCEPT !.acc = x, !.base = x, !.since = Len(red.pushed),
                                !.changes = @ + 1, !.mistyped = unknown]
  <2>1. reductors' = [reductors EXCEPT ![r] = new]
    BY <1>5 DEF SetCurrent
  <2>2. x \in Seq(Item) /\ Live(r)
    BY <1>5, ReductorsAssumption DEF SetCurrent
  <2>3. /\ red.pushed \in Seq(Item) /\ red.base \in Seq(Item)
    BY <1>1 DEF ReductorData
  <2>4. /\ new.pushed = red.pushed /\ new.since = Len(red.pushed) /\ new.acc = x
        /\ new.base = x /\ new.layer = red.layer /\ (new.mistyped <=> unknown)
    <3> HIDE DEF unknown
    <3>1. new.mistyped = unknown
      BY <1>1, Zenon DEF ReductorData
    <3> QED
      BY <1>1, <3>1 DEF ReductorData
  <2>5. ~new.mistyped => ~red.mistyped
    BY <2>4
  <2> HIDE DEF new, unknown
  <2>6. ASSUME ~new.mistyped
        PROVE  Rested(pipeline, new)
    <3>1. Keeps(pipeline, red, red.layer, <<>>, <<>>)
      BY <1>2, <2>2, <2>5, <2>6 DEF Rested
    <3>2. Keeps(pipeline, new, red.layer, <<>>, <<>>)
      BY <1>1, <2>2, <2>3, <2>4, <3>1, ChangeTells
    <3> QED
      BY <2>4, <3>2, Zenon DEF Rested
  <2>7. RestedShow'
    BY <1>5, <2>1, <2>6, PutShow DEF SetCurrent, pipeVars
  <2> QED
    BY <1>5, <2>7, FreeShow DEF SetCurrent
<1>6. ASSUME NEW s \in Reductors, Copy(r, s)
      PROVE  InvShow'
  <2> DEFINE red == reductors[r]
             own == Copyable(red.layer)
             new == [red EXCEPT !.own = own]
  <2>1. reductors' = [reductors EXCEPT ![s] = new] /\ Live(r)
    BY <1>6 DEF Copy
  <2> HIDE DEF own
  <2>2. /\ new.pushed = red.pushed /\ new.since = red.since /\ new.acc = red.acc
        /\ new.base = red.base /\ new.layer = red.layer /\ new.mistyped = red.mistyped
    BY <1>1 DEF ReductorData
  <2> HIDE DEF new
  <2>3. ASSUME ~new.mistyped
        PROVE  Rested(pipeline, new)
    <3>1. Keeps(pipeline, red, red.layer, <<>>, <<>>)
      BY <1>2, <2>1, <2>2, <2>3 DEF Rested
    <3>2. Keeps(pipeline, new, red.layer, <<>>, <<>>)
      BY <2>2, <3>1, KeepsSame
    <3> QED
      BY <2>2, <3>2, Zenon DEF Rested
  <2>4. RestedShow'
    BY <1>6, <2>1, <2>3, PutShow DEF Copy, pipeVars
  <2> QED
    BY <1>6, <2>4, FreeShow DEF Copy
<1> QED
  BY <1>3, <1>4, <1>5, <1>6

\* An operation starts to feed the state of a reductor, or one that is unused.
LEMMA CallingShow ==
  ASSUME InvShow, InvStop', Free, NEW of, NEW to \in Reductors,
         NEW layers, Able(pipeline, layers), NEW x \in Item, NEW red, NEW new,
         red.pushed \in Seq(Item), red.since \in Nat,
         ~red.mistyped => Keeps(pipeline, red, layers, <<>>, <<>>),
         new.pushed = Append(red.pushed, x), new.since = red.since,
         new.base = red.base, new.acc = red.acc, new.mistyped <=> red.mistyped,
         new.status # "live", reductors' = [reductors EXCEPT ![to] = new],
         (of # Nobody /\ reductors'[of].mistyped) => red.mistyped,
         Calling(of, to, layers, x), pipeline' = pipeline, out' = out
  PROVE  InvShow'
<1>1. /\ pipeline \in Seq(Stage) /\ reductors'[to] = new /\ out = <<>>
  BY ReductorType DEF InvShow, InvStop
<1>2. RestedShow'
  BY PutShow
<1>3. /\ work'.kind = "push" /\ work'.of = of /\ work'.to = to
      /\ layer' = layers /\ stack' = <<Loop(1, <<x>>)>>
  BY DEF Calling
<1>4. ASSUME ~new.mistyped
      PROVE  Keeps(pipeline, new, layers, <<Loop(1, <<x>>)>>, <<>>)
  <2>1. Keeps(pipeline, red, layers, <<>>, <<>>)
    BY <1>4
  <2> QED
    BY <1>1, <2>1, FeedTells
<1>5. Pushing'
  BY <1>1, <1>3, <1>4 DEF Pushing
<1>6. Completing'
  BY <1>3 DEF Completing
<1>7. ~Free'
  BY <1>3 DEF Free
<1> QED
  BY <1>2, <1>5, <1>6, <1>7 DEF InvShow, RestedShow

LEMMA FeedingShow ==
  ASSUME InvShow, InvStop', NEW r \in Reductors, NEW x \in Inputs,
         \/ Make(r, x) \/ Push(r, x) \/ \E s \in Reductors : Advance(r, s, x)
  PROVE  InvShow'
<1>1. /\ PipelineTypeOK /\ pipeline \in Seq(Stage) /\ x \in Item
      /\ Able(pipeline, reductors[r].layer) /\ reductors[r] \in ReductorData
      /\ None \in ReductorData /\ reductors \in [Reductors -> ReductorData]
  BY ReductorType, NoneContents, ReductorsAssumption DEF InvShow, InvStop, Contents
<1>2. (Live(r) /\ ~reductors[r].mistyped) => Rested(pipeline, reductors[r])
  BY DEF InvShow
<1>3. ASSUME NEW red \in ReductorData, NEW status
      PROVE  LET new  == Extended(red, x)
                 new2 == [new EXCEPT !.status = status]
             IN  /\ new.pushed = Append(red.pushed, x) /\ new.since = red.since
                 /\ new.base = red.base /\ new.acc = red.acc
                 /\ new.mistyped = red.mistyped /\ new.status = red.status
                 /\ new2.pushed = Append(red.pushed, x) /\ new2.since = red.since
                 /\ new2.base = red.base /\ new2.acc = red.acc
                 /\ new2.mistyped = red.mistyped /\ new2.status = status
                 /\ red.pushed \in Seq(Item) /\ red.since \in Nat
  BY DEF ReductorData, Extended
<1>4. CASE Make(r, x)
  <2> DEFINE new == Extended(None, x)
  <2>1. /\ reductors' = [reductors EXCEPT ![r] = new] /\ pipeline' = pipeline
        /\ out' = out /\ Free /\ Calling(Nobody, r, Unused, x)
    BY <1>4 DEF Make
  <2>2. /\ new.pushed = Append(None.pushed, x) /\ new.since = None.since
        /\ new.base = None.base /\ new.acc = None.acc
        /\ new.mistyped = None.mistyped /\ new.status = None.status
        /\ None.pushed \in Seq(Item) /\ None.since \in Nat
    BY <1>1, <1>3
  <2> HIDE DEF new
  <2>3. /\ None.pushed = <<>> /\ None.since = 0 /\ None.acc = <<>>
        /\ None.base = <<>> /\ None.status = "none"
    BY DEF None
  <2>4. Keeps(pipeline, None, Unused, <<>>, <<>>)
    BY <1>1, <2>3, UnusedTells
  <2>5. Able(pipeline, Unused)
    BY <1>1, UnusedSound, SoundAble
  <2> QED
    BY <1>1, <2>1, <2>2, <2>3, <2>4, <2>5, CallingShow
<1>5. CASE Push(r, x)
  <2> DEFINE red == reductors[r]
             new == [Extended(red, x) EXCEPT !.status = "moved"]
  <2>1. /\ reductors' = [reductors EXCEPT ![r] = new] /\ pipeline' = pipeline
        /\ out' = out /\ Free /\ Calling(r, r, red.layer, x) /\ Live(r)
    BY <1>5 DEF Push, Pushable
  <2>2. /\ new.pushed = Append(red.pushed, x) /\ new.since = red.since
        /\ new.base = red.base /\ new.acc = red.acc
        /\ new.mistyped = red.mistyped /\ new.status = "moved"
        /\ red.pushed \in Seq(Item) /\ red.since \in Nat
    BY <1>1, <1>3
  <2> HIDE DEF new
  <2>3. ~red.mistyped => Keeps(pipeline, red, red.layer, <<>>, <<>>)
    BY <1>2, <2>1 DEF Rested
  <2>4. reductors'[r].mistyped => red.mistyped
    BY <1>1, <2>1, <2>2
  <2> QED
    BY <1>1, <2>1, <2>2, <2>3, <2>4, CallingShow
<1>6. ASSUME NEW s \in Reductors, Advance(r, s, x)
      PROVE  InvShow'
  <2> DEFINE red == reductors[r]
             new == [Extended(red, x) EXCEPT !.status = "none"]
  <2>1. /\ reductors' = [reductors EXCEPT ![s] = new] /\ pipeline' = pipeline
        /\ out' = out /\ Free /\ Calling(r, s, red.layer, x) /\ Live(r)
    BY <1>6 DEF Advance, Pushable
  <2>2. /\ new.pushed = Append(red.pushed, x) /\ new.since = red.since
        /\ new.base = red.base /\ new.acc = red.acc
        /\ new.mistyped = red.mistyped /\ new.status = "none"
        /\ red.pushed \in Seq(Item) /\ red.since \in Nat
    BY <1>1, <1>3
  <2> HIDE DEF new
  <2>3. ~red.mistyped => Keeps(pipeline, red, red.layer, <<>>, <<>>)
    BY <1>2, <2>1 DEF Rested
  <2>4. reductors'[r].mistyped => red.mistyped
    BY <1>1, <2>1, <2>2
  <2> QED
    BY <1>1, <2>1, <2>2, <2>3, <2>4, CallingShow
<1> QED
  BY <1>4, <1>5, <1>6

\* complete(), up to its first stage.
LEMMA EndingShow ==
  ASSUME InvShow, InvStop', NEW r \in Reductors, Complete(r) \/ CompleteMoved(r)
  PROVE  InvShow'
<1>1. /\ pipeline \in Seq(Stage) /\ reductors[r] \in ReductorData
      /\ reductors \in [Reductors -> ReductorData]
  BY ReductorType DEF InvShow, InvStop
<1>2. /\ Live(r) /\ stack = <<>> /\ out = <<>> /\ layer' = reductors[r].layer
      /\ work' = [kind |-> "complete", of |-> r, to |-> Nobody, ending |-> 1]
      /\ UNCHANGED <<pipeline, stack, out>>
  BY DEF Complete, CompleteMoved, InvShow, InvStop, Inv, WorkOK
<1> DEFINE moved == [reductors[r] EXCEPT !.status = "moved"]
<1>3. /\ moved.pushed = reductors[r].pushed /\ moved.since = reductors[r].since
      /\ moved.base = reductors[r].base /\ moved.acc = reductors[r].acc
      /\ moved.mistyped = reductors[r].mistyped /\ moved.status = "moved"
  BY <1>1 DEF ReductorData
<1>4. reductors' = reductors \/ reductors' = [reductors EXCEPT ![r] = moved]
  BY DEF Complete, CompleteMoved
<1> HIDE DEF moved
<1>5. RestedShow'
  <2>1. CASE reductors' = reductors
    BY <1>2, <2>1 DEF InvShow, RestedShow, Live
  <2>2. CASE reductors' = [reductors EXCEPT ![r] = moved]
    BY <1>2, <1>3, <2>2, PutShow
  <2> QED
    BY <1>4, <2>1, <2>2
<1>6. reductors'[r] = reductors[r] \/ reductors'[r] = moved
  BY <1>1, <1>4
<1>7. ASSUME ~reductors'[r].mistyped
      PROVE  Tells(pipeline, reductors'[r], reductors[r].layer, <<>>, <<>>, <<>>, TRUE,
                   1..Len(pipeline))
  <2>1. Keeps(pipeline, reductors[r], reductors[r].layer, <<>>, <<>>)
    BY <1>2, <1>3, <1>6, <1>7 DEF InvShow, Rested
  <2>2. <<>> \in Seq(Item) /\ TRUE \in BOOLEAN
    OBVIOUS
  <2>3. Tells(pipeline, reductors[r], reductors[r].layer, <<>>, <<>>, <<>>, TRUE,
              Closing(pipeline, TRUE))
    BY <2>1, <2>2, Zenon DEF Keeps
  <2>4. Closing(pipeline, TRUE) = 1..Len(pipeline)
    BY DEF Closing
  <2>5. Tells(pipeline, reductors[r], reductors[r].layer, <<>>, <<>>, <<>>, TRUE,
              1..Len(pipeline))
    BY <2>3, <2>4, Zenon
  <2>6. CASE reductors'[r] = reductors[r]
    BY <2>5, <2>6, Zenon
  <2>7. CASE reductors'[r] = moved
    <3>1. Tells(pipeline, moved, reductors[r].layer, <<>>, <<>>, <<>>, TRUE,
                1..Len(pipeline))
      BY <1>3, <2>5, TellsSame
    <3> QED
      BY <2>7, <3>1, Zenon
  <2> QED
    BY <1>6, <2>6, <2>7
<1>8. work'.kind = "complete" /\ work'.of = r /\ work'.ending = 1
  BY <1>2
<1>9. Completing'
  <2>1. layer' = reductors[r].layer /\ stack' = <<>> /\ out' = <<>>
    BY <1>2
  <2> QED
    BY <1>2, <1>7, <1>8, <2>1 DEF Completing
<1>10. Pushing' /\ ~Free'
  BY <1>8 DEF Pushing, Free
<1> QED
  BY <1>5, <1>9, <1>10 DEF InvShow, RestedShow

\* What happens in an operation leaves the reductors alone.
LEMMA ProgressShow ==
  ASSUME InvShow, InvStop', UNCHANGED <<pipeline, reductors>>, ~Free', Pushing', Completing'
  PROVE  InvShow'
BY DEF InvShow, Live

\* A stage is completed.
LEMMA CompleteStageShow ==
  ASSUME InvShow, InvStop', CompleteStage
  PROVE  InvShow'
<1>1. /\ PipelineTypeOK /\ Able(pipeline, layer) /\ pipeline \in Seq(Stage)
      /\ layer \in [1..Len(pipeline) -> Layer] /\ work \in Operation
  BY LayersAble DEF InvShow, InvStop, Inv, PipelineInv, PipelineTypeOK, N, WorkOK
<1>2. PICK k \in 1..Len(pipeline) : k = work.ending
  <2>1. work.ending \in Nat \ {0} /\ work.ending <= Len(pipeline)
    BY <1>1 DEF CompleteStage, Operation, N
  <2> QED
    BY <1>1, <2>1
<1>3. /\ stack = <<>> /\ ~threw /\ work.kind = "complete"
      /\ stack' = <<Loop(k + 1, Flush(pipeline[k], layer[k]))>>
      /\ UNCHANGED <<pipeline, layer, out, reductors>>
  BY <1>2 DEF CompleteStage, Resting
<1>4. work'.kind = "complete" /\ work'.of = work.of /\ work'.ending = k + 1
  BY <1>1, <1>2 DEF CompleteStage, Operation
<1>5. ~Failing
  BY <1>3 DEF Failing
<1>6. work.of \in Reductors
  BY <1>3 DEF InvShow, Completing
<1>7. ASSUME ~reductors[work.of].mistyped
      PROVE  Tells(pipeline, reductors[work.of], layer,
                   <<Loop(k + 1, Flush(pipeline[k], layer[k]))>>, out, <<>>, TRUE,
                   (k + 1)..Len(pipeline))
  <2>1. Tells(pipeline, reductors[work.of], layer, <<>>, out, <<>>, TRUE, k..Len(pipeline))
    BY <1>2, <1>3, <1>5, <1>7 DEF InvShow, Completing
  <2> QED
    BY <1>1, <2>1, CompletionTells
<1>8. Completing'
  BY <1>3, <1>4, <1>6, <1>7 DEF Completing
<1>9. Pushing' /\ ~Free'
  BY <1>4 DEF Pushing, Free
<1> QED
  BY <1>3, <1>8, <1>9, ProgressShow

\* A transducer<> that does not know its state does nothing: then the result is not
\* known to it either.
LEMMA OopsShow ==
  ASSUME InvShow, InvStop', Oops
  PROVE  InvShow'
<1>1. /\ work.of # Nobody /\ reductors[work.of].mistyped
      /\ UNCHANGED <<pipeline, reductors, work>>
  BY DEF Oops, Unknown
<1>2. ~Free
  BY DEF Oops, Unknown, Due, InvShow, InvStop, Inv, WorkOK
<1>3. Pushing' /\ Completing' /\ ~Free'
  BY <1>1, <1>2 DEF InvShow, Pushing, Completing, Free
<1> QED
  BY <1>1, <1>3, ProgressShow

\* A step of the calls in progress.
LEMMA RunShow ==
  ASSUME InvShow, InvStop', Run
  PROVE  InvShow'
<1>1. /\ PipelineInv /\ StopInv /\ PipelineStep /\ ~Free
      /\ UNCHANGED <<reductors, work>>
  BY DEF Run, InvShow, InvStop, Inv
<1>2. pipeline' = pipeline
  BY <1>1 DEF PipelineStep, CallStage, CallBase, Return, ThrowFirst, StepThenThrow,
              Unwind
<1>3. ~Failing' => ~Failing
  BY <1>1, StillFailing
<1>4. ASSUME ~Failing', NEW red, Keeps(pipeline, red, layer, stack, out)
      PROVE  Keeps(pipeline, red, layer', stack', out')
  <2>1. ASSUME NEW ahead \in Seq(Item), NEW closed \in BOOLEAN
        PROVE  Tells(pipeline, red, layer', stack', out', ahead, closed,
                     Closing(pipeline, closed))
    <3>1. Tells(pipeline, red, layer, stack, out, ahead, closed, Closing(pipeline, closed))
      BY <1>4 DEF Keeps
    <3> QED
      BY <1>1, <1>4, <3>1, RunTells
  <2>2. red.since <= Len(red.pushed)
    BY <1>4 DEF Keeps
  <2>3. Recalled(pipeline, layer', stack', red.pushed)
    BY <1>1, <1>4, RecalledRun DEF Keeps
  <2> QED
    BY <2>1, <2>2, <2>3 DEF Keeps
<1>5. Pushing'
  BY <1>1, <1>2, <1>3, <1>4 DEF InvShow, Pushing
<1>6. ASSUME ~Failing', NEW red, NEW closing,
             Tells(pipeline, red, layer, stack, out, <<>>, TRUE, closing)
      PROVE  Tells(pipeline, red, layer', stack', out', <<>>, TRUE, closing)
  <2>1. PICK none \in Seq(Item) : none = <<>>
    BY NothingItself, Zenon
  <2>2. Tells(pipeline, red, layer, stack, out, none, TRUE, closing)
    BY <1>6, <2>1, Zenon
  <2>3. Tells(pipeline, red, layer', stack', out', none, TRUE, closing)
    BY <1>1, <1>6, <2>2, RunTells
  <2> QED
    BY <2>1, <2>3, Zenon
<1>7. Completing'
  BY <1>1, <1>2, <1>3, <1>6 DEF InvShow, Completing
<1>8. ~Free'
  BY <1>1 DEF Free
<1> QED
  BY <1>1, <1>2, <1>5, <1>7, <1>8, ProgressShow

\* The result of a push.
LEMMA PushedShow ==
  ASSUME InvShow, InvStop', Pushed
  PROVE  InvShow'
<1>1. /\ work.to \in Reductors /\ stack = <<>> /\ ~Failing /\ out \in Seq(Item)
      /\ pipeline' = pipeline /\ Cleared /\ work.kind = "push"
      /\ Able(pipeline, layer) /\ pipeline \in Seq(Stage)
  BY LayersAble DEF InvShow, InvStop, Inv, PipelineInv, PipelineTypeOK, WorkOK, Pushed,
                    Resting, Failing
<1> DEFINE to == reductors[work.to]
           own == to.own /\ (work.of = work.to \/ Copyable(layer))
           new == [to EXCEPT !.status = "live", !.layer = layer, !.acc = @ \o out,
                             !.own = own]
<1>2. to \in ReductorData
  BY <1>1, ReductorType DEF InvShow, InvStop
<1>3. reductors' = [reductors EXCEPT ![work.to] = new]
  BY DEF Pushed
<1>4. ~to.mistyped => Keeps(pipeline, to, layer, <<>>, out)
  BY <1>1 DEF InvShow, Pushing
<1> HIDE DEF own, to
<1>5. /\ new.pushed = to.pushed /\ new.since = to.since /\ new.base = to.base
      /\ new.acc = to.acc \o out /\ new.layer = layer /\ new.mistyped = to.mistyped
      /\ to.base \in Seq(Item)
  BY <1>2 DEF ReductorData
<1> HIDE DEF new
<1>6. ASSUME ~new.mistyped
      PROVE  Rested(pipeline, new)
  <2>1. Gathers(to, new, out)
    BY <1>5, Zenon DEF Gathers
  <2>2. Keeps(pipeline, to, layer, <<>>, out)
    BY <1>4, <1>5, <1>6
  <2>3. Keeps(pipeline, new, layer, <<>>, <<>>)
    BY <1>1, <1>5, <2>1, <2>2, GatherTells
  <2> QED
    BY <1>5, <2>3, Zenon DEF Rested
<1>7. RestedShow'
  BY <1>1, <1>3, <1>6, PutShow
<1> QED
  BY <1>1, <1>7, ClearedShow

\* The end of an operation without a result.
LEMMA EndedShow ==
  ASSUME InvShow, InvStop', Completed \/ Catch
  PROVE  InvShow'
<1>1. pipeline' = pipeline /\ Cleared
  BY DEF Completed, Catch
<1>2. ASSUME NEW r \in Reductors, reductors'[r].status = "live"
      PROVE  reductors'[r] = reductors[r]
  <2>1. None.status = "none" /\ [None EXCEPT !.status = "moved"].status = "moved"
    BY DEF None
  <2>2. reductors'[r] \in {None, Remains(reductors[r])}
    BY DEF Completed, Catch
  <2> QED
    BY <1>2, <2>1, <2>2 DEF Remains
<1>3. RestedShow'
  BY <1>1, <1>2 DEF InvShow, RestedShow, Live
<1> QED
  BY <1>1, <1>3, ClearedShow

LEMMA NextShow ==
  InvShow /\ [Next]_redVars => InvShow'
<1> SUFFICES ASSUME InvShow, [Next]_redVars
             PROVE  InvShow'
  OBVIOUS
<1>1. InvStop'
  BY NextStop DEF InvShow
<1>2. CASE Work
  BY <1>1, <1>2, CompleteStageShow, OopsShow, RunShow, PushedShow, EndedShow DEF Work
<1>3. ASSUME NEW r \in Reductors,
             \/ MakeEmpty(r) \/ Destroy(r) \/ Complete(r) \/ CompleteMoved(r)
             \/ \E x \in Inputs : Make(r, x) \/ Push(r, x)
             \/ \E x \in Values : SetCurrent(r, x)
      PROVE  InvShow'
  BY <1>1, <1>3, AtOnceShow, FeedingShow, EndingShow
<1>4. ASSUME NEW r \in Reductors, NEW s \in Reductors,
             Copy(r, s) \/ \E x \in Inputs : Advance(r, s, x)
      PROVE  InvShow'
  BY <1>1, <1>4, AtOnceShow, FeedingShow
<1>5. CASE UNCHANGED redVars
  <2>1. /\ UNCHANGED <<pipeline, layer, stack, out, threw, reductors, work>>
    BY <1>5 DEF redVars, pipeVars
  <2>2. Failing' = Failing
    BY <2>1 DEF Failing
  <2> QED
    BY <1>1, <2>1, <2>2 DEF InvShow, Live, Pushing, Completing, Free
<1> QED
  BY <1>2, <1>3, <1>4, <1>5 DEF Next

(***************************************************************************)
(* What current() and complete() return                                    *)
(***************************************************************************)

\* Over a polite transducer, current() of a reductor at rest shows what the stages
\* make, one after the other, of everything that was pushed, after what was put
\* there by current(x) in place of what they had made before; whatever was copied,
\* completed, destroyed or interrupted by an exception meanwhile, and whether or not
\* a copy was pushed further (reductor.hpp).
THEOREM CurrentStages ==
  Spec /\ Polite(pipeline) => []CurrentMeetsStages
<1>1. InvShow => CurrentMeetsStages
  <2> SUFFICES ASSUME InvShow, NEW r \in Reductors, Live(r), ~reductors[r].mistyped
               PROVE  reductors[r].acc = Given(reductors[r], FALSE)
    BY DEF CurrentMeetsStages
  <2> DEFINE red == reductors[r]
  <2>1. /\ red \in ReductorData /\ Able(pipeline, red.layer) /\ pipeline \in Seq(Stage)
    BY ReductorType DEF InvShow, InvStop
  <2>2. Keeps(pipeline, red, red.layer, <<>>, <<>>)
    BY DEF InvShow, Rested
  <2> HIDE DEF red
  <2>3. red.pushed \in Seq(Item)
    BY <2>1 DEF ReductorData
  <2>4. PICK before \in Seq(Item), after \in Seq(Item) :
          /\ before = Through(pipeline, SubSeq(red.pushed, 1, red.since), FALSE)
          /\ red.acc = red.base \o after
          /\ before \o after = Through(pipeline, red.pushed, FALSE)
    BY <2>1, <2>2, <2>3, SoFar
  <2>5. SubSeq(Through(pipeline, red.pushed, FALSE), Len(before) + 1,
               Len(Through(pipeline, red.pushed, FALSE))) = after
    <3>1. Through(pipeline, red.pushed, FALSE) = before \o after
      BY <2>4, Zenon
    <3> QED
      BY <3>1, LeftOver
  <2>6. red.acc = Given(red, FALSE)
    BY <2>4, <2>5, Zenon DEF Given
  <2> QED
    BY <2>6 DEF red
<1> QED
  BY <1>1, InitShow, NextShow, PTL DEF Spec

\* Over a polite transducer, complete() returns what the stages make of a sequence
\* that ends with the last input pushed (complete of reductor.hpp).
THEOREM CompleteStages ==
  Spec /\ Polite(pipeline) => []CompleteMeetsStages
<1>1. InvShow => CompleteMeetsStages
  <2> SUFFICES ASSUME InvShow, AtResult, ~reductors[work.of].mistyped
               PROVE  reductors[work.of].acc \o out = Given(reductors[work.of], TRUE)
    BY DEF CompleteMeetsStages
  <2> DEFINE red == reductors[work.of]
  <2>1. /\ work.kind = "complete" /\ work.ending = Len(pipeline) + 1 /\ stack = <<>>
        /\ ~Failing
    BY DEF AtResult, Resting, Failing, N
  <2>2. /\ work.of \in Reductors
        /\ Tells(pipeline, red, layer, <<>>, out, <<>>, TRUE,
                 (Len(pipeline) + 1)..Len(pipeline))
    BY <2>1 DEF InvShow, Completing
  <2>3. red \in ReductorData /\ pipeline \in Seq(Stage)
    BY <2>2, ReductorType DEF InvShow, InvStop
  <2>4. Able(pipeline, layer)
    BY LayersAble DEF InvShow, InvStop, Inv, PipelineInv
  <2> HIDE DEF red
  <2>5. PICK before \in Seq(Item), after \in Seq(Item) :
          Told(pipeline, red, layer, <<>>, out, <<>>, TRUE,
               (Len(pipeline) + 1)..Len(pipeline), before, after)
    BY <2>2 DEF Tells
  <2>6. Coming(pipeline, layer, <<>>, <<>>, (Len(pipeline) + 1)..Len(pipeline))[Len(pipeline)] = <<>>
    <3>1. \A k \in 1..Len(pipeline) : k \notin (Len(pipeline) + 1)..Len(pipeline)
      OBVIOUS
    <3> QED
      BY <2>3, <2>4, <3>1, NothingAhead
  <2>7. PICK base \in Seq(Item), given \in Seq(Item), got \in Seq(Item) :
          base = red.base /\ given = red.pushed /\ got = out
    BY <2>3 DEF ReductorData, InvShow, InvStop, Inv, PipelineInv, PipelineTypeOK
  <2>8. /\ got \o <<>> = got /\ given \o <<>> = given
    BY NoItems
  <2>9. before \o (after \o got) = Through(pipeline, red.pushed, TRUE)
    BY <2>5, <2>6, <2>7, <2>8, Zenon DEF Told
  <2>10. red.acc \o out = red.base \o (after \o got)
    <3>1. Associates(base, after, got)
      BY JoinsAssociate, Zenon
    <3> QED
      BY <2>5, <2>7, <3>1, Zenon DEF Told, Associates
  <2>11. SubSeq(Through(pipeline, red.pushed, TRUE), Len(before) + 1,
                Len(Through(pipeline, red.pushed, TRUE))) = after \o got
    <3>1. after \o got \in Seq(Item)
      OBVIOUS
    <3> QED
      BY <2>9, <3>1, LeftOver
  <2>12. red.acc \o out = Given(red, TRUE)
    BY <2>5, <2>10, <2>11, Zenon DEF Told, Given
  <2> QED
    BY <2>12 DEF red
<1> QED
  BY <1>1, InitShow, NextShow, PTL DEF Spec

\* Over a polite transducer, operator bool of a reductor at rest says whether what was
\* pushed has ended the reduction, and what its stages remember is what arrived at
\* them: no copy, completion or change of current() makes it go on too long, stop too
\* early, or forget or see anything else (reductor.hpp).
THEOREM EndsRightly ==
  Spec /\ Polite(pipeline) => []EndsWithStages
<1>1. InvShow => EndsWithStages
  <2> SUFFICES ASSUME InvShow, NEW r \in Reductors, Live(r), ~reductors[r].mistyped
               PROVE  /\ Promising(r) <=> ~EndsFrom(pipeline, 1, reductors[r].pushed)
                      /\ \A k \in 1..N :
                           reductors[r].layer[k] =
                             After(pipeline[k])
                               [Arriving(pipeline, k, reductors[r].pushed, FALSE)][Fresh]
    BY DEF EndsWithStages
  <2> DEFINE red == reductors[r]
  <2>1. /\ red \in ReductorData /\ Able(pipeline, red.layer) /\ pipeline \in Seq(Stage)
    BY ReductorType DEF InvShow, InvStop
  <2>2. Recalled(pipeline, red.layer, <<>>, red.pushed)
    BY DEF InvShow, Rested, Keeps
  <2>3. red.pushed \in Seq(Item)
    BY <2>1 DEF ReductorData
  <2>4. /\ (\E k \in 1..Len(pipeline) : DataIsReduced(pipeline[k], red.layer[k]))
             <=> EndsFrom(pipeline, 1, red.pushed)
        /\ \A k \in 1..Len(pipeline) :
             red.layer[k] = After(pipeline[k])[Arriving(pipeline, k, red.pushed, FALSE)][Fresh]
    <3> HIDE DEF red
    <3> QED
      BY <2>1, <2>2, <2>3, RecalledIs
  <2> QED
    BY <2>4 DEF Promising, N
<1> QED
  BY <1>1, InitShow, NextShow, PTL DEF Spec
=============================================================================

------------------------------ MODULE Reductor -------------------------------
(***************************************************************************)
(* Reductors: a reducing function and its state in one object, which the   *)
(* program feeds, looks at, changes, copies and completes as it likes      *)
(* (reductor.hpp).  The first stages of the pipeline may be in a           *)
(* transducer<>, which keeps their layers, and the state below them, in an *)
(* any_state (transducer/transducer.hpp).                                  *)
(*                                                                         *)
(* The variables of Pipeline hold the state that the operation at work has *)
(* taken out of its reductor, or a copy of it.                             *)
(***************************************************************************)
EXTENDS Pipeline, Stagewise

CONSTANTS
  Transducers,  \* the transducers considered, and how much of them is erased
  Reductors,    \* the reductor variables of the program
  Nobody,       \* no reductor: a value outside of Reductors
  Inputs,       \* what the program feeds
  Values,       \* what it changes the visible state to
  MaxPushed,    \* bound: how many inputs a reductor is given
  MaxChanges    \* bound: how many times its visible state is changed

ASSUME TransducersAssumption ==
  \A t \in Transducers : t.stages \in Seq(Stage) /\ t.erased \in Nat

ASSUME ReductorsAssumption ==
  /\ Nobody \notin Reductors
  /\ Inputs \subseteq Item /\ Values \subseteq Seq(Item) /\ MaxPushed \in Nat
  /\ MaxChanges \in Nat

VARIABLES
  erased,      \* the first stages, which are in a transducer<>; never changes
  reductors,   \* the reductors of the program
  work,        \* the operation in progress
  oops         \* from_any_state has met a state that it does not know

redVars == <<pipeVars, erased, reductors, work, oops>>

\* The state of a reductor: the layers and, under them, the accumulator (what
\* current() shows).  mistyped: the state inside any_state has neither the type
\* that the reducing function returns nor that of a completed state.
\* The other fields are not in the code, they are for the properties: what was
\* pushed, the value that current(x) put there last and how much had been pushed
\* by then, how often, and whether all the data is surely the reductor's own.
ReductorData ==
  [status : {"none", "live", "moved"}, layer : Seq(Layer), acc : Seq(Item),
   mistyped : BOOLEAN, pushed : Seq(Item), base : Seq(Item), since : Nat,
   changes : Nat, own : BOOLEAN]

Unused == [k \in 1..N |-> Fresh]

None == [status |-> "none", layer |-> Unused, acc |-> <<>>, mistyped |-> FALSE,
         pushed |-> <<>>, base |-> <<>>, since |-> 0, changes |-> 0,
         own |-> TRUE]

\* The operation works on the state of `of` and leaves the result in `to`.
Operation ==
  [kind : {"none", "push", "complete"}, of : Reductors \cup {Nobody},
   to : Reductors \cup {Nobody}, ending : Nat \ {0}]

Rest == [kind |-> "none", of |-> Nobody, to |-> Nobody, ending |-> 1]

Init ==
  /\ \E t \in Transducers : PipelineInit(t.stages) /\ erased = t.erased
  /\ reductors = [r \in Reductors |-> None]
  /\ work = Rest
  /\ oops = FALSE

Free == work.kind = "none"

Live(r) == reductors[r].status = "live"

\* The first stage, or the reducing function, behind a transducer<>.  The any_state
\* that keeps the state in there ends here: its innermost content has the type
\* that this step returns (reduce_t), or that of a completed state (complete_t).
Boundary == erased + 1

\* operator bool
Promising(r) ==
  \A k \in 1..N : ~DataIsReduced(pipeline[k], reductors[r].layer[k])

\* A copy of this data points into the closures of the original.
Copyable(layers) ==
  \A k \in 1..N : layers[k].called => ~PointsToClosure(pipeline[k])

-----------------------------------------------------------------------------

\* make_empty_reductor
MakeEmpty(r) ==
  /\ Free
  /\ reductors[r].status = "none"
  /\ reductors' = [reductors EXCEPT ![r] = [None EXCEPT !.status = "live"]]
  /\ UNCHANGED <<pipeVars, erased, work, oops>>

\* The step is called with the state of `of` and an input.
Calling(of, to, layers, x) ==
  /\ work' = [kind |-> "push", of |-> of, to |-> to, ending |-> 1]
  /\ layer' = layers
  /\ stack' = <<Loop(1, <<x>>)>>

Extended(red, x) == [red EXCEPT !.pushed = Append(@, x)]

\* make_reductor: the first input is fed while the reductor is constructed, on
\* the step of the caller.
Make(r, x) ==
  /\ Free
  /\ reductors[r].status = "none"
  /\ Calling(Nobody, r, Unused, x)
  /\ reductors' = [reductors EXCEPT ![r] = Extended(None, x)]
  /\ UNCHANGED <<pipeline, out, threw, erased, oops>>

\* operator() does not ask whether the state is reduced.  The program does, with
\* operator bool, as the drivers of the library do before they feed.
Pushable(r) == Live(r) /\ Promising(r) /\ Len(reductors[r].pushed) < MaxPushed

\* operator() of an object that may change: its state is moved into the step.
Push(r, x) ==
  /\ Free
  /\ Pushable(r)
  /\ Calling(r, r, reductors[r].layer, x)
  /\ reductors' = [reductors EXCEPT ![r] = [Extended(@, x) EXCEPT !.status = "moved"]]
  /\ UNCHANGED <<pipeline, out, threw, erased, oops>>

\* Mutant: the original is advanced.
AdvanceInPlace(r, s, x) ==
  /\ Free
  /\ Pushable(r) /\ reductors[s].status = "none"
  /\ Calling(r, s, reductors[r].layer, x)
  /\ reductors' = [reductors EXCEPT ![r] = Extended(@, x),
                                    ![s] = [Extended(reductors[r], x) EXCEPT
                                              !.status = "none"]]
  /\ UNCHANGED <<pipeline, out, threw, erased, oops>>

\* operator() of a const object: the same on a copy, which is the result.
Advance(r, s, x) ==
  /\ Free
  /\ Pushable(r) /\ reductors[s].status = "none"
  /\ Calling(r, s, reductors[r].layer, x)
  /\ reductors' = [reductors EXCEPT ![s] = [Extended(reductors[r], x) EXCEPT
                                              !.status = "none"]]
  /\ UNCHANGED <<pipeline, out, threw, erased, oops>>

Copy(r, s) ==
  /\ Free
  /\ Live(r) /\ reductors[s].status = "none"
  /\ reductors' = [reductors EXCEPT ![s] =
                     [reductors[r] EXCEPT !.own = Copyable(reductors[r].layer)]]
  /\ UNCHANGED <<pipeVars, erased, work, oops>>

Destroy(r) ==
  /\ Free
  /\ reductors[r].status # "none"
  /\ reductors' = [reductors EXCEPT ![r] = None]
  /\ UNCHANGED <<pipeVars, erased, work, oops>>

\* What state_rewrap of the any_state puts under its layers is x in an any_state.
\* That has another type than before if the stages behind the transducer<> wrap
\* the state.
Mistypes(red) ==
  /\ erased \in 1..(N - 1)
  /\ red.layer[Boundary].called
  /\ \E k \in Boundary..N : ~Bare(pipeline[k])

\* current(x): the accumulator under the layers becomes x.
SetCurrent(r, x) ==
  /\ Free
  /\ Live(r) /\ reductors[r].changes < MaxChanges
  /\ LET red == reductors[r] IN
     reductors' =
       [reductors EXCEPT ![r] =
          [red EXCEPT !.acc = x, !.base = x, !.since = Len(red.pushed),
                      !.changes = @ + 1,
                      !.mistyped = @ \/ Mistypes(red)]]
  /\ UNCHANGED <<pipeVars, erased, work, oops>>

\* complete() of a const object (sorted cannot do that: it does not compile) ...
Complete(r) ==
  /\ Free
  /\ Live(r)
  /\ \A k \in 1..N : pipeline[k].kind # "sorted"
  /\ work' = [kind |-> "complete", of |-> r, to |-> Nobody, ending |-> 1]
  /\ layer' = reductors[r].layer
  /\ UNCHANGED <<pipeline, stack, out, threw, erased, reductors, oops>>

\* ... and of one that is moved from.
CompleteMoved(r) ==
  /\ Free
  /\ Live(r)
  /\ work' = [kind |-> "complete", of |-> r, to |-> Nobody, ending |-> 1]
  /\ layer' = reductors[r].layer
  /\ reductors' = [reductors EXCEPT ![r].status = "moved"]
  /\ UNCHANGED <<pipeline, stack, out, threw, erased, oops>>

Resting == ~Free /\ stack = <<>> /\ ~threw

\* Mutant: what a stage held back is given to the stage after the next one.
CompleteTooDeep ==
  /\ Resting
  /\ work.kind = "complete" /\ work.ending <= N
  /\ stack' = <<Loop(work.ending + 2,
                     Flush(pipeline[work.ending], layer[work.ending]))>>
  /\ work' = [work EXCEPT !.ending = @ + 1]
  /\ UNCHANGED <<pipeline, layer, out, threw, erased, reductors, oops>>

CompleteStage ==
  /\ Resting
  /\ work.kind = "complete" /\ work.ending <= N
  /\ stack' = <<Loop(work.ending + 1,
                     Flush(pipeline[work.ending], layer[work.ending]))>>
  /\ work' = [work EXCEPT !.ending = @ + 1]
  /\ UNCHANGED <<pipeline, layer, out, threw, erased, reductors, oops>>

\* from_any_state leaves a state alone whose type it does not know (with
\* assertions, the program ends here).
Unknown ==
  /\ Due
  /\ Top.at = Boundary
  /\ work.of # Nobody /\ reductors[work.of].mistyped

Oops ==
  /\ Unknown
  /\ oops' = TRUE
  /\ stack' = <<Advanced>> \o Tail(stack)
  /\ UNCHANGED <<pipeline, layer, out, threw, erased, reductors, work>>

Run ==
  /\ ~Free
  /\ ~Unknown
  /\ PipelineStep
  /\ UNCHANGED <<erased, reductors, work, oops>>

Cleared == layer' = Unused /\ out' = <<>> /\ work' = Rest

\* The state that the step returns goes into the reductor.
Pushed ==
  /\ Resting
  /\ work.kind = "push"
  /\ LET to == reductors[work.to] IN
     reductors' =
       [reductors EXCEPT ![work.to] =
          [to EXCEPT !.status = "live", !.layer = layer, !.acc = @ \o out,
                     !.own = @ /\ (work.of = work.to \/ Copyable(layer))]]
  /\ Cleared
  /\ UNCHANGED <<pipeline, stack, threw, erased, oops>>

\* Nothing is known of the state that was moved from.
Remains(red) ==
  IF red.status = "moved" THEN [None EXCEPT !.status = "moved"] ELSE red

\* The whole state has been completed: complete() returns the accumulator.
AtResult == Resting /\ work.kind = "complete" /\ work.ending = N + 1

\* Mutant: the state of a const reductor is completed in its place.
CompletedInPlace ==
  /\ AtResult
  /\ reductors' =
       [r \in Reductors |->
          IF r = work.of /\ Live(r) THEN [reductors[r] EXCEPT !.layer = layer]
          ELSE Remains(reductors[r])]
  /\ Cleared
  /\ UNCHANGED <<pipeline, stack, threw, erased, oops>>

Completed ==
  /\ AtResult
  /\ reductors' = [r \in Reductors |-> Remains(reductors[r])]
  /\ Cleared
  /\ UNCHANGED <<pipeline, stack, threw, erased, oops>>

\* The program catches the exception that has left the operation.  The result
\* does not exist, and what was moved from stays so.
Catch ==
  /\ threw
  /\ threw' = FALSE
  /\ reductors' =
       [r \in Reductors |->
          IF r = work.to /\ r # work.of THEN None ELSE Remains(reductors[r])]
  /\ Cleared
  /\ UNCHANGED <<pipeline, stack, erased, oops>>

Work == CompleteStage \/ Oops \/ Run \/ Pushed \/ Completed \/ Catch

Next ==
  \/ Work
  \/ \E r \in Reductors :
       \/ MakeEmpty(r) \/ Destroy(r) \/ Complete(r) \/ CompleteMoved(r)
       \/ \E x \in Inputs : Make(r, x) \/ Push(r, x)
       \/ \E x \in Values : SetCurrent(r, x)
  \/ \E r, s \in Reductors :
       Copy(r, s) \/ \E x \in Inputs : Advance(r, s, x)

Spec == Init /\ [][Next]_redVars

-----------------------------------------------------------------------------

\* The values of every variable have the types that the code gives them, and
\* what is at rest has no state of its own.
TypeOK ==
  /\ PipelineTypeOK
  /\ erased \in Nat
  /\ reductors \in [Reductors -> ReductorData]
  /\ \A r \in Reductors : Len(reductors[r].layer) = N
  /\ work \in Operation
  /\ oops \in BOOLEAN

\* No copy, change, completion or exception leaves a reductor with a state in
\* which a stage has data and a stage before it has none, or one has data that it
\* throws instead of building: what feeds or completes it reaches every layer.
StatesSound ==
  \A r \in Reductors : Sound(pipeline, reductors[r].layer)

\* What the stages, one after the other, make of everything a reductor was given,
\* after what they had made before current(x) replaced it.
Given(red, closed) ==
  LET all    == Through(pipeline, red.pushed, closed)
      before == Through(pipeline, SubSeq(red.pushed, 1, red.since), FALSE)
  IN  red.base \o SubSeq(all, Len(before) + 1, Len(all))

\* A reductor at rest shows that, however it came about and whatever has become of
\* the others, of a completion or of an exception; unless a transducer<> does not
\* know its state any more (reductor_base in reductor.hpp).
CurrentMeetsStages ==
  Free =>
    \A r \in Reductors :
      (Live(r) /\ reductors[r].own /\ ~reductors[r].mistyped) =>
        reductors[r].acc = Given(reductors[r], FALSE)

\* complete() returns what the stages make of a sequence that ends there: every
\* stage hands what it has held back to the stages after it, and is completed
\* before they are.
CompleteMeetsStages ==
  AtResult =>
    LET red == reductors[work.of] IN
    (red.own /\ ~red.mistyped) => red.acc \o out = Given(red, TRUE)

\* A reductor at rest may be fed exactly as long as no stage ends the reduction in
\* what it was given, and every stage is left as it is after the calls with what
\* arrives at it: what is pushed further, or completed, is no reductor's but its own
\* (operator bool of reductor.hpp).
EndsWithStages ==
  Free =>
    \A r \in Reductors :
      LET red == reductors[r] IN
      (Live(r) /\ red.own /\ ~red.mistyped) =>
        /\ Promising(r) <=> ~EndsFrom(pipeline, 1, red.pushed)
        /\ \A k \in 1..N :
             red.layer[k] =
               After(pipeline[k])[Arriving(pipeline, k, red.pushed, FALSE)][Fresh]

\* A transducer<> never meets a state of a type that it has not put there
\* (the assertion in transducer/transducer.hpp).  See reductor_erased.
NeverOops == ~oops
=============================================================================

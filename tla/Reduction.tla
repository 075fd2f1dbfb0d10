----------------------------- MODULE Reduction ------------------------------
(***************************************************************************)
(* reduce(), and transduce(), into(), into_vector() and run(), which only  *)
(* differ in the reducing function they put under the pipeline: feed the   *)
(* input ranges to the pipeline until they end or the state is reduced,    *)
(* then complete the state from the outermost stage inwards.               *)
(*                                                                         *)
(* No input range makes a generator: the pipeline is called with no        *)
(* arguments until the state is reduced.  Several ranges are traversed in  *)
(* parallel up to the end of the shortest.                                 *)
(***************************************************************************)
EXTENDS Pipeline, Stagewise

CONSTANT Reductions   \* the calls considered: a pipeline and its input ranges

ASSUME ReductionsAssumption ==
  \A r \in Reductions : /\ r.pipeline \in Seq(Stage)
                        /\ r.inputs \in Seq(Seq(Item))

VARIABLES
  inputs,   \* the input ranges; never changes
  pc,       \* "start", "loop", "complete" or "done"
  pos,      \* how many items of the ranges have been consumed
  ending    \* the stage that state_complete deals with next

vars == <<pipeVars, inputs, pc, pos, ending>>

\* is_non_empty: with no ranges at all there is always input.
IsNonEmpty == \A r \in 1..Len(inputs) : inputs[r] # <<>>

\* No iterator has reached its end (tuple_all_neq).
More == \A r \in 1..Len(inputs) : pos < Len(inputs[r])

\* The arguments of the i-th call: an item of the one range, or one value of
\* each range.
ItemAt(i) ==
  IF Len(inputs) = 1
  THEN inputs[1][i]
  ELSE [r \in 1..Len(inputs) |-> Key(inputs[r][i])]

Init ==
  /\ \E r \in Reductions : PipelineInit(r.pipeline) /\ inputs = r.inputs
  /\ pc = "start"
  /\ pos = 0
  /\ ending = 1

Feed ==
  /\ stack' = <<Loop(1, <<ItemAt(pos + 1)>>)>>
  /\ pos' = IF inputs = <<>> THEN pos ELSE pos + 1

\* An empty range: the initial state is the result, and nothing is completed.
ReduceEmpty ==
  /\ pc = "start"
  /\ ~IsNonEmpty
  /\ pc' = "done"
  /\ UNCHANGED <<pipeVars, inputs, pos, ending>>

\* The first items go in before the state is asked anything.
FeedFirst ==
  /\ pc = "start"
  /\ IsNonEmpty
  /\ Feed
  /\ pc' = "loop"
  /\ UNCHANGED <<pipeline, layer, out, threw, inputs, ending>>

Idle == stack = <<>> /\ ~threw

\* Mutant: the loop does not ask state_is_reduced.
FeedNextUnasked ==
  /\ pc = "loop"
  /\ Idle
  /\ More
  /\ Feed
  /\ UNCHANGED <<pipeline, layer, out, threw, inputs, pc, ending>>

FeedNext ==
  /\ pc = "loop"
  /\ Idle
  /\ ~Reduced(1)
  /\ More
  /\ Feed
  /\ UNCHANGED <<pipeline, layer, out, threw, inputs, pc, ending>>

EndOfLoop ==
  /\ pc = "loop"
  /\ Idle
  /\ Reduced(1) \/ ~More
  /\ pc' = "complete"
  /\ UNCHANGED <<pipeVars, inputs, pos, ending>>

\* Mutant: what a stage held back is given to the stage after the next one.
CompleteTooDeep ==
  /\ pc = "complete"
  /\ Idle
  /\ ending <= N
  /\ stack' = <<Loop(ending + 2, Flush(pipeline[ending], layer[ending]))>>
  /\ ending' = ending + 1
  /\ UNCHANGED <<pipeline, layer, out, threw, inputs, pc, pos>>

\* state_complete of one stage: what it held back goes to the next step, then
\* the state underneath is completed.
CompleteStage ==
  /\ pc = "complete"
  /\ Idle
  /\ ending <= N
  /\ stack' = <<Loop(ending + 1, Flush(pipeline[ending], layer[ending]))>>
  /\ ending' = ending + 1
  /\ UNCHANGED <<pipeline, layer, out, threw, inputs, pc, pos>>

Finish ==
  /\ pc = "complete"
  /\ Idle
  /\ ending = N + 1
  /\ pc' = "done"
  /\ UNCHANGED <<pipeVars, inputs, pos, ending>>

Run == PipelineStep /\ UNCHANGED <<inputs, pc, pos, ending>>

\* reduce() has returned or thrown.
Returned == pc = "done" \/ threw

Stop == Returned /\ UNCHANGED vars

Next ==
  \/ ReduceEmpty \/ FeedFirst \/ FeedNext \/ EndOfLoop
  \/ CompleteStage \/ Finish \/ Run \/ Stop

Spec == Init /\ [][Next]_vars

\* The program is one thread that runs until it returns.
FairSpec == Spec /\ WF_vars(Next)

-----------------------------------------------------------------------------

\* The values of every variable have the types that the code gives them.
TypeOK ==
  /\ PipelineTypeOK
  /\ inputs \in Seq(Seq(Item))
  /\ pc \in {"start", "loop", "complete", "done"}
  /\ pos \in Nat
  /\ ending \in 1..(N + 1)

\* Where the shortest of the ranges ends.
Shortest ==
  CHOOSE n \in {Len(inputs[r]) : r \in 1..Len(inputs)} :
    \A r \in 1..Len(inputs) : n <= Len(inputs[r])

\* The whole input as one sequence.  The calls that a generator gets carry no
\* arguments; so many of them are considered.
Input(calls) ==
  IF inputs = <<>>
  THEN [i \in 1..calls |-> <<>>]
  ELSE [i \in 1..Shortest |-> ItemAt(i)]

\* reduce() of f | g is what g makes of all that f makes of the whole input, each
\* completed at the end: what the nested calls, which stop all stages at once and
\* complete them from the outside, come to (compose.hpp, transduce.hpp).
OutputMeetsStages ==
  (pc = "done" /\ ~threw /\ inputs # <<>> /\ Polite(pipeline)) =>
    out = Through(pipeline, Input(0), TRUE)

\* Every stage is called with what those before it make of the whole input, up to
\* the item with which it or a stage behind it ends the reduction: not one more,
\* as its data show, and of the ranges not one item more is consumed.
StagesReached ==
  (pc = "done" /\ ~threw /\ inputs # <<>> /\ Polite(pipeline)) =>
    /\ pos = Len(Arriving(pipeline, 1, Input(0), TRUE))
    /\ \A k \in 1..N :
         layer[k] = After(pipeline[k])[Arriving(pipeline, k, Input(0), TRUE)][Fresh]

\* An exception leaves reduce() exactly if an item arrives at a stage that cannot
\* take it: never for one behind the item that ends the reduction, and always for
\* one that a completion still feeds.
ThrowsOnArrival ==
  (Returned /\ inputs # <<>> /\ Polite(pipeline)) =>
    (threw <=>
       \E k \in 1..N : \E i \in 1..Len(Arriving(pipeline, k, Input(0), TRUE)) :
         Throws(pipeline[k], Fresh, Arriving(pipeline, k, Input(0), TRUE)[i]))

\* A state that is reduced stays so: no later call takes the mark back.
StaysReduced ==
  [][\A k \in 1..N : Reduced(k) => Reduced(k)']_vars
=============================================================================

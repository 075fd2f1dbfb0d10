------------------------------ MODULE Pipeline ------------------------------
(***************************************************************************)
(* A composed transducer at work: the nested calls                         *)
(*                                                                         *)
(*   stage 1 -> stage 2 -> ... -> stage N -> reducing function             *)
(*                                                                         *)
(* that one input item sets off, one call per step, so that every point at *)
(* which the code asks state_is_reduced is a state of its own.  The calls  *)
(* are driven from outside: by reduce() in Reduction, and by the           *)
(* completion that follows it.                                             *)
(*                                                                         *)
(* comp(f, g)(step) is f(g(step)): the pipeline is the sequence of its     *)
(* stages in the order in which f | g writes them.                         *)
(***************************************************************************)
EXTENDS Stages

VARIABLES
  pipeline,   \* the stages; never changes
  layer,      \* layer[k]: the data stage k wrapped around the state
  stack,      \* the reductions in progress, the innermost first
  out,        \* the items given to the reducing function under the stages
  threw       \* an exception has left the pipeline

pipeVars == <<pipeline, layer, stack, out, threw>>

N == Len(pipeline)

\* A reduction in progress: the call of stage `at` (N + 1: of the reducing
\* function) with each item of todo.  "first": the next item goes in
\* unconditionally; "next": the loop asks state_is_reduced before it;
\* "throw": the exception that take() throws once its other argument is done.
Frame == [at : Nat \ {0}, todo : Seq(Item), mode : {"first", "next", "throw"}]

Loop(at, todo) == [at |-> at, todo |-> todo, mode |-> "first"]

Loops(at, runs) == [i \in 1..Len(runs) |-> Loop(at, runs[i])]

\* state_is_reduced of the state that stage `at` is called with: a wrapper is
\* reduced when its data is or the state inside it is.
Reduced(at) == \E k \in at..N : DataIsReduced(pipeline[k], layer[k])

PipelineInit(p) ==
  /\ pipeline = p
  /\ layer = [k \in 1..Len(p) |-> Fresh]
  /\ stack = <<>>
  /\ out = <<>>
  /\ threw = FALSE

(***************************************************************************)
(* Actions                                                                 *)
(***************************************************************************)

Top == Head(stack)

\* Mutant (see Stages): the loops never ask state_is_reduced.
DueUnasked == stack # <<>> /\ Top.mode # "throw" /\ Top.todo # <<>>

\* The innermost reduction calls its step with its next item.
Due ==
  /\ stack # <<>>
  /\ Top.mode # "throw"
  /\ Top.todo # <<>>
  /\ Top.mode = "first" \/ ~Reduced(Top.at)

Advanced == [Top EXCEPT !.todo = Tail(@), !.mode = "next"]

\* A stage is called: it updates its layer and starts its own reductions.  (The
\* code wraps the new data around the state that those reductions return; until
\* then nobody asks for it, since they only see the state underneath.)
CallStage ==
  /\ Due
  /\ Top.at <= N
  /\ ~Throws(pipeline[Top.at], layer[Top.at], Head(Top.todo))
  /\ LET k      == Top.at
         called == Step(pipeline[k], layer[k], Head(Top.todo))
     IN  /\ layer' = [layer EXCEPT ![k] = called.layer]
         /\ stack' = Loops(k + 1, called.runs) \o <<Advanced>> \o Tail(stack)
  /\ UNCHANGED <<pipeline, out, threw>>

\* The reducing function under the last stage is called (output, and
\* emplacing_back, append to a collection).
CallBase ==
  /\ Due
  /\ Top.at = N + 1
  /\ out' = Append(out, Head(Top.todo))
  /\ stack' = <<Advanced>> \o Tail(stack)
  /\ UNCHANGED <<pipeline, layer, threw>>

\* The reduction is over: out of items, or reduced when it asked.
Return ==
  /\ stack # <<>>
  /\ Top.mode # "throw"
  /\ ~Due
  /\ stack' = Tail(stack)
  /\ UNCHANGED <<pipeline, layer, out, threw>>

\* A stage throws before it calls the next step.
ThrowFirst ==
  /\ Due
  /\ Top.at <= N
  /\ Throws(pipeline[Top.at], layer[Top.at], Head(Top.todo))
  /\ stack' = <<>>
  /\ threw' = TRUE
  /\ UNCHANGED <<pipeline, layer, out>>

\* take() calls the next step and throws afterwards: the same source under a
\* compiler that evaluates arguments in the other order.
StepThenThrow ==
  /\ Due
  /\ Top.at <= N
  /\ ThrowsFirst(pipeline[Top.at], layer[Top.at])
  /\ MayStepBeforeThrowing(pipeline[Top.at])
  /\ stack' = <<Loop(Top.at + 1, <<Head(Top.todo)>>),
                [Advanced EXCEPT !.mode = "throw"]>> \o Tail(stack)
  /\ UNCHANGED <<pipeline, layer, out, threw>>

\* The exception leaves every reduction in progress.
Unwind ==
  /\ stack # <<>>
  /\ Top.mode = "throw"
  /\ stack' = <<>>
  /\ threw' = TRUE
  /\ UNCHANGED <<pipeline, layer, out>>

PipelineStep ==
  CallStage \/ CallBase \/ Return \/ ThrowFirst \/ StepThenThrow \/ Unwind

-----------------------------------------------------------------------------

PipelineTypeOK ==
  /\ pipeline \in Seq(Stage)
  /\ layer \in [1..N -> Layer]
  /\ stack \in Seq(Frame)
  /\ \A i \in 1..Len(stack) : stack[i].at <= N + 1
  /\ out \in Seq(Item)
  /\ threw \in BOOLEAN

\* No insistent stage stands before one that stops the reduction.
Polite(stages) ==
  \A i, j \in 1..Len(stages) :
    i < j => ~(Insistent(stages[i]) /\ Stopper(stages[j]))

\* No stage is called with a state that is reduced already: every loop and
\* every completion asks in time (reduce_nested, interpose, product, ...).
NoFeedAfterReduced == Due => ~Reduced(Top.at)

\* An exception is about to leave, or has left, the pipeline.
Failing == threw \/ \E i \in 1..Len(stack) : stack[i].mode = "throw"

\* The layers are wrapped around each other: a stage keeps data only inside
\* the data of the stages before it.  state_complete, which peels the layers
\* off from the outside, reaches every one of them.
WrapPrefix ==
  ~Failing =>
  \A j \in 1..N : \A i \in 1..j : layer[j].called => layer[i].called

\* The layers of a state between two calls, for a driver that keeps it: they are
\* wrapped around each other, and none is one that could not be built.
Sound(stages, layers) ==
  /\ layers \in [1..Len(stages) -> Layer]
  /\ \A k \in 1..Len(stages) : layers[k].called => ~ThrowsFirst(stages[k], Fresh)
  /\ \A j \in 1..Len(stages) : \A i \in 1..j : layers[j].called => layers[i].called
=============================================================================

# A verification of zug's transducers

zug (`src/zug/`) is a header-only C++ library of *transducers*: transformations
of sequences that know nothing of where the items come from or go to.  This
project models how the library runs them in TLA+, checks the model with TLC and
proves the most general facts about it with TLAPS.

There is one thread and no I/O in the core.  What makes the library hard to get
right is the *state protocol*: a stage of a pipeline keeps its data wrapped
around the state that travels through it, the wrapping appears with the first
call, calls may be skipped, any stage may mark the state as reduced while loops
of other stages are in the middle of feeding it, and when the input has ended
what the stages held back has to come out, in order, through stages that may
have ended or may throw.  Each stage is easily tested alone.  The properties
here are about pipelines.

## Inventory

| Part | State | Operations | What is hard | What makes it correct |
|---|---|---|---|---|
| Drivers: `reduce`, `transduce`, `into`, `into_vector`, `run` | position in the input ranges, the state | feed an item, ask `state_is_reduced`, complete | no range (a generator), several ranges, an empty range; stopping exactly in time | output is the composition of what the stages promise; no item is consumed in vain; it returns |
| Composition: `comp`, `operator\|` | none; nests the calls | call the next step | inner loops against early termination | nobody feeds a reduced state |
| State protocol: `state_traits`, `state_wrapper`, `skip`, `maybe_reduced`, `with_state` | layers of data around the state | wrap, unwrap, data, is_reduced, complete, skip, call | a layer exists only after the first call; a skipped call leaves a state of another shape | layers are nested like the stages; a reduced state stays reduced; completion reaches every layer |
| Stages (`transducer/*.hpp`) | a count, a flag, a vector, iterators | one call; `state_wrapper_complete` | first call, boundaries, completion, exceptions | each meets its documentation in every pipeline |
| `reductor` | the layers and the accumulator under them | push in place or on a copy, `current`, `current(x)`, `complete` of a const object or a moved one, copy | rebuilds a wrapped state around another accumulator; an exception leaves a reductor without its state | agrees with `reduce` item by item, independently of the others |
| `sequence` | per iterator: the outputs of the last call, a position in them, a reductor | increment, compare, copy | laziness, copying in the middle, the end without completion | yields a prefix of what `into` writes |
| `any_state` | storage, its size, a holder | construct, copy, move, assign, `as` | storage reused for values of other sizes; empty states | the content is the value last assigned; storage is large enough |
| `transducer<>` | a type-erased step; the state in an `any_state` | as a composed transducer, over `any_state` | the type of the state is told at run time | agrees with the statically typed pipeline; never meets a state it does not know |
| Streams: `read`, `readbuf`, `write`, `writebuf` | a stream | read or write one item | end of file, failure, the first call | everything is read and no more; separators only between items; the reduction ends |
| `each`, `replace`, `zip`, `unzip`, `random_sample` | none, a table, or an engine | one call | a key that is not in the table; an action for an item that comes too late | the action is called once with every item that reaches it |
| `meta/`, `compat/`, `detail/` utilities | none at run time | types | only the compiler | |

Interactions are calls only: a driver calls the first stage, each stage calls
the next one zero, one or many times, the last calls the reducing function;
data travels forwards in the arguments and back in the returned state.

## Modules

* **Stages** translates every transducer to an operator `Step…(st, l, x)` of the
  stage's parameters, its layer of data and an item.  It gives the new layer and
  the *reductions* that the code runs on the next step: each a sequence of
  items of which the first goes in unconditionally, and the others after the
  code has asked `state_is_reduced`.  So a plain call is one reduction of one
  item, `skip` is none, `product`, `cat`, `interleave` and `interpose` are one
  reduction of several items, `chainl` is two reductions (between which the code
  does not ask).  `DataIsReduced`, `Throws` and `Flush` (`state_complete`) are
  tables by kind, as the code dispatches on tags.
* **Pipeline** runs these nested calls one step at a time: `stack` holds the
  reductions in progress, innermost first.  Every point where the code asks
  `state_is_reduced` is a state of the model.  Actions: `CallStage`, `CallBase`
  (the reducing function under the stages), `Return`, `ThrowFirst`,
  `StepThenThrow` and `Unwind`.
  `Sound` says what the layers of a state are that a driver puts away between calls.
* **Reduction** is the driver: `ReduceEmpty`, `FeedFirst`, `FeedNext`,
  `EndOfLoop`, `CompleteStage` for each layer from the outside in, `Finish`.
* **Streams** is the abstract specification: what the documentation says each
  transducer makes of a *whole* sequence, without states, and the composition of
  that over a pipeline.
* **Stagewise** is another abstract specification, between the code and Streams: what one
  stage makes of a whole sequence when it is called with item after item (`Makes`), and
  the pipeline as the composition of its stages, one whole sequence after the other
  (`Passing`, `Through`).  It has the states of the stages, but no nesting, no wrapping of
  one state in another, no skipped calls, and no loop that stops in its middle.  Each
  of the three drivers is held against it.  `After` is the data with which such a stage
  is left, `EndsFrom` says that some stage from one on ends the reduction in the course of
  a sequence, and `Arriving` is the part of a sequence that a stage is called with
  because of that.
* **Catalogue** holds the stages that the runs combine, and the types that tell
  which combinations compile.
* **MCReduction** and **MCStreams** choose pipelines and inputs for TLC, and hold the
  properties that compare Reduction with Streams; MCStreams those about what a
  reduction leaves outside: in streams, and in the actions of `each` and `sink`.
* **Reductor** is the driver that the program itself holds: any number of reductors,
  each a state at rest, and `work`, the operation in progress.  Pipeline's variables
  hold the state that the operation has taken out of its reductor, or a copy of it.
  Actions: `MakeEmpty`, `Make`, `Push`, `Advance` (`operator()` of a const object),
  `Copy`, `Destroy`, `SetCurrent`, `Complete` and `CompleteMoved` begin an operation
  or are one; `Run`, `CompleteStage` and `Oops` are its steps; `Pushed`, `Completed`
  and `Catch` end it.  The first `erased` stages may be in a `transducer<>`; whether
  its `any_state` still has one of the two types that it knows is `mistyped`.
* **MCReductor** chooses transducers for TLC and compares the reductors with Streams.
* **Sequence** is the third driver: iterators that pull.  An iterator is a record
  (`sequence_data`): a position, a cache, the layers of its reductor, and `target`,
  the iterator to which the accumulator inside the reductor points.  Pipeline's
  variables hold the reductor that is at work.  Actions: `Begin` (the constructor,
  up to its `pull()`), `Increment` (`pop()`), `Pull` (one call of the reductor),
  `Run` (what happens in the pipeline), `Pulled` (the loop of `pull()` ends),
  `Copy` (which ends in `reductor.current(this)`: the copy's own accumulator under
  the same layers), `Destroy`.  `owner` records into whose closures the data of
  each stage points.
* **MCSequence** chooses sequences for TLC and compares the iterators with Streams.
* **Boxes** is the abstract specification of `any_state`: every object is a box
  with a value, or nothing.  `call` is the last call that has returned: what was done
  to which object, with which value or other object.  What a box contains after it
  is what this call asks for: a value given is the value held, a copy has what its
  original has, a move takes it along.
* **AnyState** is `any_state` with its buffers: an object is a pointer and a size, a
  buffer has a size and a holder in it.  One action for each constructor and
  assignment and for the destructor; `Allocate`, `PutInPlace` and `WithoutBuffer`
  are what `realloc_`, placement new and `delete[]` do.  A step that the
  language leaves undefined sets `fault`, and the model stops there.  `call` is a
  history variable: Next records in it what the program asked for, beside the actions
  that model what the code does then, so that the mapping to Boxes is held to it.
* **MCAnyState** gives TLC the sizes of three types.
* **StagesProofs**, **PipelineProofs**, **StagewiseProofs**, **ArrivalProofs**,
  **ReductionProofs**, **ReductorProofs**, **SequenceProofs**, **AnyStateProofs** hold the
  proofs.

Reduction, Reductor and Sequence all extend Pipeline, which extends Stages: three
drivers of the same nested calls.  AnyState stands alone: it is the storage of a
state, whatever the state is.

### How data is abstracted

An *item* is the sequence of values that travel together: the arguments of one
call, or the elements of one vector argument.  Values are integers.  Mappings
are "add n", predicates are membership of the first value in a set, which is
enough to tell one predicate from another, to make consecutive items equal or
different, and to notice an item lost, repeated or out of place.  `Layer` is a
record with the fields that any stage needs; `called` tells that the state has
been through the stage (that the wrapper exists).

A new layer is recorded when the call starts, while the code wraps it around the
state that comes back.  Nothing between the two asks for it: the calls inside
only see the state underneath, which is also why `Reduced(at)` looks at the
stages from `at` on only.

`take(0)` throws in the second of two arguments of a call whose first argument
calls the next step.  The order is the compiler's choice: the model has both
(`ThrowFirst`, `StepThenThrow`).

A stream, an action or an engine is not part of the reduction's state, but only its
stage uses it, so that the model keeps it in that stage's layer: what is left in an
input stream, what was written to an output stream, the calls of an action, the
number of calls that an engine has answered.  A token of a stream is well formed or
not; one that is not makes the stream fail and stays in it, as with `operator>>`.
`ThrowsFirst` are the exceptions of a first call, `Throws` those and the one of
`replace_all_safe`, which any call may meet.

`take` counts down in the type of its argument: with an unsigned type the
count wraps (`Decrement`).

### Which pipelines exist

`OutType` in Catalogue follows the types as the compiler does: `cat` needs a range,
`replace` one argument, `zip` two or more, and so on; what `readbuf` passes on is a
view into a buffer that the next call overwrites, and only goes to stages that use
it at once.  `Compiles` is about the states: `partition_by` only compiles as the
last stage, and `partition` only if no stage after it wraps the state, unless
`filter` or `cat` is in between (its completion calls a step whose state may have
been skipped).  Both were found out with g++.

`Polite` keeps the stages that are `Insistent` away from later stages that end the
reduction.  These are `chainr`, `chainl` and `partition_by`: they feed the next step at
a point where they do not ask whether the state is reduced, and more comes out then
than the documentation says.  The run `reduce_take` shows this for `chainr`;
`reduce_inputs` contains the impolite pairs of both chains as well and checks
(`OutputMeetsStreams`) that only something is added; all other runs exclude them by name.
(`partition_by` flushes its last group unasked, but no program has it before a
stopper, since `partition_by` only compiles as the last stage; the theorems are about
all sequences of stages and need it excluded.)

The model was compared with the program: the outputs that TLC computed for 8940
pairs of a pipeline and an input (all singles and pairs of the catalogue that
compile, the impolite ones included) and for 1985 with streams, actions and tables
were those of the compiled library.  What the model says of a `transducer<>` after
`current(x)` was compared in the same way, with and without assertions.

## Runs

All runs of pipelines have `UnsignedMax = 7` (a three-bit unsigned type, enough for
a count of 2 to go below zero and wrap).  Those of Reduction have `PulseBound = 6` (a
generator of the runs is ended by a stage after at most 4 calls; the reference is
computed over 6).

| Run | Pipelines and inputs | Checks |
|---|---|---|
| `reduce_ranges` | all polite pairs from a catalogue of 29 stages, and the polite triples of the 16 stages that loop, hold back, drop or stop; one range of 0 to 3 items | `StagesMeetStreams`, `OutputMeetsStages`, `StagesReached`, `NoFeedAfterReduced`, `StaysReduced`, `WrapPrefix`, `TypeOK` |
| `reduce_inputs` | generators; two ranges in parallel (lengths 0 to 2 each); ranges of vectors with empty ones among them; stages that throw in every position, `replace_all_safe` in the middle of others; `chainr` and `chainl` before stages that stop | `OutputMeetsStreams`, `StagesMeetStreams`, `ThrowsWhenReached`, `ThrowsOnArrival`, `Returns` |
| `streams` | `read` and `readbuf` over every stream of up to 3 tokens or characters, malformed ones among them, in front of stages that delay, multiply and stop, with an action or an output stream behind; the same stages, `zip`, `replace` and `random_sample` along input ranges | `OutputMeetsStreams`, `EffectsMeetStreams`, `ReadsNoFurther`, `Returns` |
| `reduce_take` | `chain(r) \| take(2)`, `chain(r) \| take_while(p)` | `StopsForGood` is violated |
| `reduce_range` | `range(a, 6, d)`, d from 1 to 3 | `RangeCovers` is violated |
| `reductor` | two reductors over transducers of one or two stages, some of them with the first stage in a `transducer<>` | `CurrentMeetsStreams`, `CurrentMeetsStages`, `CompleteMeetsStreams`, `CompleteMeetsStages`, `EndsWithStages`, `StatesSound`, `NoFeedAfterReduced`, `TypeOK` |
| `reductor_erased` | two reductors over `transducer<> \| take(3)` | `NeverOops` is violated |
| `sequence_lazy` | two iterators over a sequence: every stage and most polite pairs that may be copied over one range, stages over two, and generators; up to 4 increments each | `YieldsPromised`, `CacheMeetsStages`, `PullsNoMore`, `LazyOverStages`, `NoFeedAfterReduced`, `Answers`, `TypeOK` |
| `sequence_cycle` | `sequence(cycle(r), r')` | `OwnData` is violated |
| `sequence_partition` | `sequence(partition(2), r)`, r of 2 and 3 items | `GroupsAll` is violated |
| `any_state` | three objects, three buffers, values of three sizes | `Implements`, `OneOwner`, `TypeOK` |
| `any_state_overflow` | the same | `HoldsAnyValue` is violated |

Why the bounds are enough: every counter and buffer in the catalogue is at most
2, so that with three items it is below, at and beyond its boundary, and fills a
second time; a range of two items is the least in which a loop can be stopped in
its middle; a stage only ever meets the stages after it through "is it reduced"
and "feed", so that interference takes a stage that loops, one that stops, and
one between them that drops, delays or multiplies: three stages.

For the streams: `StreamLength = 3` with `read` of one and two tokens and buffers of
one to three characters has streams that end before, at and after a whole number of
calls, and a malformed token in each of these places.

For Reductor: `MaxPushed = 3` inputs for each reductor, as for a range; `MaxChanges = 1`
change of the visible state, which may come before the first input, between any two
and after the last; the properties compare a reductor with what it was fed itself, and
it can only be disturbed by one other at a time: two.  The two are interchangeable
(`SYMMETRY`; only invariants are checked there).

For Sequence: `MaxIndex = 4`, one more than the elements that most of these
sequences have, so that the end is reached; an infinite one has been through
every boundary of its stages by then, with counts of at most 2.  `PulseBound = 12`
calls give an infinite sequence of the run more than 5 elements, and a finite one
all that it has.  `MaxCalls` only keeps the count of calls that `PullsNoMore` reads
finite; 13 is beyond what a correct iterator reaches.  Two iterators are enough for
a copy and its original.  A pull runs to its end before the program goes on, so
the iterators interleave between pulls only.  The pairs leave out five stages that
do to a neighbour what another stage does (`Telling`).

For AnyState: the sizes are those of `int`, a pair of `long` and `std::string` with
64-bit pointers, where the second value is as large as the first one's holder,
and smaller than its own.  Three objects are needed for a copy of what another
one was moved out of; every object owns at most one buffer, so three buffers are
always enough.  Objects and buffers are interchangeable (`SYMMETRY`; `Implements` is a
safety property, checked step by step).

* `OutputMeetsStreams`: what arrives in the collection is `Composed(pipeline,
  input, TRUE)`, neither more nor less, in that order.  If an insistent stage stands
  before one that stops, what is promised is a beginning of what arrives.
* `OutputMeetsStages`: the same in terms of the single stages.  What arrives is what the
  last stage makes, on its own, of all that the stage before it makes, and so on up to the
  whole input.
* `StagesReached`: each stage has been called with exactly what reaches it
  (`Arriving`): what those before it make of the whole input, up to the item with which
  it or a stage behind it ends the reduction.  Its data are what these calls leave, and no
  item of the ranges has been taken that is not needed for that.
* `StagesMeetStreams`: what a single stage makes of a sequence, with and without its
  completion, the part of it that it is called with, and which inputs end the
  reduction (`EndsFrom`), are what the documentation says.  With this,
  `OutputMeetsStages` gives the output, `StagesReached` the items consumed, and
  `EndsWithStages` when a reductor is done, in terms of Streams: those three are
  theorems, this one is about the code of one stage at a time.
* `NoFeedAfterReduced`: no loop and no completion feeds a state that is
  reduced.  `StaysReduced` is its consequence for `take_while`, whose mark can be
  taken back, and for unsigned `take`.
* `WrapPrefix`: a stage has data only if the stages before it have, so that
  completion, which goes from the outside in, reaches everything held back.
  `StatesSound` says it of every reductor, after copies and exceptions.
* `ThrowsWhenReached`: an exception (`take(0)`, `cycle` over an empty range, a key that
  is not in the table of `replace_all_safe`) comes if and only if such an item gets
  that far, even in a completion, and what was written before it is a beginning of
  the right output.  `ThrowsOnArrival` is the first half of it in terms of `Arriving`.
* `EffectsMeetStreams`: an action was called with, and an output stream contains,
  every item that reached the stage (`Reaching`: up to the one that ended the
  reduction), with separators between the items only.
* `ReadsNoFurther`: an input stream was read for the calls that the reduction makes
  and no further; a malformed token is still in it.
* `Returns`: every reduction ends, also over a stream that has failed.
* `CurrentMeetsStreams`, `CompleteMeetsStreams`: a reductor shows, and returns when
  completed, what the transducer promises for the inputs that this reductor was given; after `current(x)`, x goes in the place of
  what had come out by then.  A reductor whose state a `transducer<>` no longer knows
  keeps x for good (with assertions the program ends instead, see below).
* `CurrentMeetsStages`, `CompleteMeetsStages`: the same in terms of the single stages: what
  they make, one whole sequence after the other, of what was pushed (`Given`).
* `EndsWithStages`: a reductor at rest is done exactly once what was pushed into this
  one ends the reduction, and each of its stages remembers exactly what arrived there.  It
  fails if `operator()` or `complete()` of a const reductor works on the state in place.
* `YieldsPromised`: an iterator that was incremented k times shows element k + 1 of
  `Composed(pipeline, pulses, FALSE)`, and equals `end()` if there is none,
  whatever was copied and destroyed meanwhile.  It fails if a copied reductor
  writes to the cache of the original.
* `CacheMeetsStages`: what an iterator has been at and what is in its cache are, in this
  order, all that the stages make of as many calls as its reductor has had; `Shareable`
  leaves out the transducers whose data points into a closure (see below).
* `PullsNoMore`: the element shown was not there one call of the reductor earlier,
  and nothing was called after the end.  `LazyOverStages` is the same in terms of the
  stages.
* `Answers`: `begin()` and `operator++` return.
* `OneOwner`: each buffer has one owner, which knows its size, and contains a
  holder that fits: nothing is leaked, freed twice, or too small for what is in it.
* `Implements`: the objects are boxes: each shows the value that it was given last, or
  what was copied or moved into it, and keeps it whatever happens to the others;
  refinement of Boxes, with `Visible` as the mapping.  It fails if an assignment leaves
  the old value in a buffer that is large enough, or if a copy shares one.

**Fairness.** `FairSpec` of Reduction has weak fairness of the whole next-state
relation: the program is one thread that goes on until it returns.  Without that
nothing needs to end; with it a generator ends only because the model's stages end
it.  Sequence has weak fairness of `Work`, what an increment in progress does: the
program may leave an iterator alone for ever, but a call it has made goes on until
it returns.  Reductor states none: its calls are those of Reduction, one at a time.

**What the runs leave out.**  `sequence_lazy` takes no stage whose data points into
its own closure (`PointsToClosure`: `chain`, `sorted`, `reversed`, `cycle` and `iter` as
a stage of the transducer): copies of those are what `sequence_cycle` is about.
The adapted ranges are `iter` stages as well, and are in every run: they point
into ranges that no iterator owns.  In Reductor `own` tells whether all of that data
is the reductor's own; nothing is promised of a reductor for which it is FALSE.
`any_state` and the theorem `ImplementsBoxes`
have `CopiesEmpty = FALSE`: no object that owns no buffer (default constructed, or
moved from) is copied.  Copy-constructing one always clones into a null pointer;
assigning an empty object to one that was moved from constructs a null holder in
the buffer that it has given away.  The actions model both; they are out of the
promise.  After a step that is undefined, nothing is promised either: `Implements`
says that the objects are boxes up to there, `HoldsAnyValue` that one such step is
met.

**What the violations show.** `chain(range)` feeds the first element of its range
at completion to a state that may be reduced already: `chain(r) | take(2)`
writes three elements over an input of two or more.  With `take_while` the mark
itself is taken back by the element, and the output resumes.  `range(0, 5, 2)`
computes 5 / 2 = 2 elements and misses 4.
After `current(x)` on a reductor over `transducer<> | take(n)` the `any_state` contains
the layer of `take` around another `any_state`: `from_any_state` has no case for that
type, and the next input ends in `assert(!"oops!")`, or is lost with `NDEBUG`.
A copied iterator over `cycle` goes on in the range of the original up to the end
of its own (the program reads past a heap block).  `sequence(partition(2), r)` has
one element for an r of three, `into` has two.  Copying an `any_state` to an empty
one allocates `sizeof(T)` for a holder that also has a table of virtual functions
(the program writes past a heap block).  All of these were also seen
in the compiled program: by its output, as a failed assertion, or with an address
sanitizer.

## Proofs

TLAPS proves for *every* set of pipelines of any length, any input ranges and any
word size:

* `TypeCorrect` of Reduction: `Spec => []TypeOK`;
* `LayersNested`: `Spec => []WrapPrefix`;
* `TypeCorrect` and `StatesStaySound` of Reductor: `Spec => []TypeOK` and
  `Spec => []StatesSound`, for any number of reductors and any operations on them;
* `TypeCorrect` and `AccumulatorsOwned` of Sequence: `Spec => []TypeOK`, which includes
  that an iterator not at its end is at an element of its cache, and
  `Spec => []OwnAccumulator`, for any number of iterators;
* `FeedsInTime` of Reduction, Reductor and Sequence, in each
  `Spec /\ Polite(pipeline) => []NoFeedAfterReduced`: in no polite pipeline is a stage
  ever called with a state that is reduced, whatever drives it;
* `ReducedForGood`: `Spec /\ Polite(pipeline) => StaysReduced` of Reduction;
* `ComposesStages`: `Spec /\ Polite(pipeline) => []OutputMeetsStages`, that reduce() of a
  polite pipeline, over any input ranges, writes what its stages make one after the other;
* `ReachesStages`: `Spec /\ Polite(pipeline) => []StagesReached`, that every stage is called
  with what reaches it and no more, and no item of the ranges is consumed in vain;
* `ThrowsRightly`: `Spec /\ Polite(pipeline) => []ThrowsOnArrival`, that an exception reaches
  the program if and only if an item arrives at a stage that cannot take it;
* `ComposesGenerators`: that of the output without input ranges, where what came out is what the
  stages make of the first n calls for some n, and of any larger number of calls;
* `CurrentStages` and `CompleteStages`: `Spec /\ Polite(pipeline) => []CurrentMeetsStages`
  and `[]CompleteMeetsStages` of Reductor, that `current()` shows, and `complete()` returns,
  what the stages make of what this reductor was given;
* `EndsRightly`: `Spec /\ Polite(pipeline) => []EndsWithStages` of Reductor, that it is done,
  and that its stages remember, as these inputs have it and no others;
* `YieldsStages`, `LazyStages` and `EndsForGood`: `[]CacheMeetsStages`, `[]LazyOverStages`
  and `[]EndIsFinal` of Sequence with a polite pipeline, that an iterator yields what the
  stages make, that it calls its reductor only for an element that is not there yet and
  as long as the calls have not ended the reduction, and that at its end they have, and
  there is nothing that any number of calls would still make;

and for any number of objects, buffers and values of any size:

* `TypeCorrect` and `BuffersOwned`: `Spec => []TypeOK` and
  `Spec => [](TypeOK /\ OneOwner)` of AnyState;
* `ImplementsBoxes`: AnyState implements Boxes, if `CopiesEmpty` is FALSE: after every
  call that returns, each object shows what the calls on it and on the objects it was
  copied or moved from ask for.

The only assumptions are those of the modules: `UnsignedMax` is a positive
number, `Reductions`, `Transducers` and `Sequences` are pipelines of stages with
ranges of items, `Nobody` is no reductor or iterator, a holder is
larger than its value and at least as large as the empty one, and the contents of
a box that are no values are three different ones.

`StagesProofs` proves what a call returns (`StepType`: a layer that counts as
called, and reductions of items; one lemma each for the stages that read from a stream
or write to one) and what a completion feeds (`FlushType`).  The sorted completion needs that sorting is a permutation: ranks of different
positions differ (`RankInjective`) and are positions (`RankType`), so by the
pigeonhole theorem every rank is taken (`SortedItemsType`).

Neither property is inductive.  The invariant is `PipelineInv` (PipelineProofs):

* `PipelineTypeOK` and `WrapPrefix` themselves;
* `StartedInside`: a reduction in progress on stage k that still has items was
  started with every stage before k called.  Without it a call of stage k could
  create a layer with nothing around it;
* `Ready`: a stage that has data does not throw when fresh.  Without it a `cycle`
  over an empty range might look for an element to take.

`WrapPrefix` and `StartedInside` say nothing once an exception is on its way
(`Failing`): `StepThenThrow` has called the next stage without having a layer.
The proof has one lemma per kind of step: `CallStageInv` (a stage is called),
`SameLayersInv` (a reduction gets on or ends), `StepThenThrowInv` and `ThrownInv`
(exceptions).  For the drivers there are `StartInv` (a reduction is started),
`CompletionInv` (a layer is completed, where `WrapPrefix` is needed to know that a
stage with something to flush is inside all the others), and three about states that
are put away: `ReturnedSound` (what a call has returned without an exception is
`Sound`), `FeedSoundInv` and `TakeOutInv` (a sound state may be fed, completed or left
alone).  ReductionProofs adds the actions of `reduce`.

ReductorProofs and SequenceProofs keep, besides `PipelineInv`, that every state at
rest is `Sound` (`Contents`), and that nothing is in progress while no operation is:
`WorkOK` and `ActiveOK`.  That an exception leaves no calls behind is part of these:
`Catch` would otherwise put the program at rest in the middle of a call.  `PutInv` is
the lemma for a variable that is given another content; `SetCurrent`, `Copy` and
`Pushed` keep the layers of a sound state, `Pulled` needs `OwnAccumulator` to know into
which iterator the outputs go.

**When a pipeline stops.**  That nobody feeds a reduced state needs more.  PipelineProofs
has the part of it that all drivers share.  `StopInv` is about the calls in progress:

* `Outwards`: a reduction further out on the stack is at an earlier stage, so that the
  stages from the top's on, which `Reduced` looks at, include those of all calls that
  have returned into it;
* `StartsInTime`: only the innermost reduction may be about to feed an item unasked, and
  then its step is not reduced, or nothing behind it can ever stop.  The second reduction
  of `chainl` is started together with the first and waits under it: it is the reason
  why `chainl` must be polite, and for the second alternative;
* `Marks`: a `scan` without a limit never marks the state, so that `Stopper` names all
  stages that can.

`Positions` says how a stack changes when its top is replaced, `StepSingle` that every
other stage starts one reduction at most, and `ReducedStops` that with `Marks` only a
`Stopper` can be reduced.  `CallStageStop`, `SameLayersStop`, `StepThenThrowStop`
and `ThrownStop` are the kinds of steps, `PipelineStepStop` all of them.

A completion feeds its first item unasked too.  `HoldsBack(k)`, for the stages that the
driver has not completed yet, says why that is in time: an eager stage (`sorted`,
`reversed`) has let nothing through, so that no later stage has been called, and
`partition` has an empty group once a later stage has ended the reduction, or is at work
(it clears the group before it sends it).  `Calm` is the part of it that holds of a state
at rest; with `Marks` it is `AtRest`, which ReductorProofs keeps for every reductor.
`FlushInTime` concludes that what is flushed goes to a state that is not reduced, and
uses `Polite` for `chainr` and `partition_by`; `CompletionStop` is the step of the
driver.  A stage that has been completed promises nothing any more, so that in Reduction
and Reductor the invariant speaks of the stages from `ending` on.  Sequence never
completes a state and needs `StopInv` and the marks only.

`ReducedForGood` follows: layers only change where a stage is called, and the
stage called is not behind a mark.

**What comes out.**  `ComposesStages` is the composition theorem of the library: nesting
the calls, wrapping the states in each other, ending all loops at once and completing from
the outside inwards amounts to running the stages one after the other over whole
sequences.  The invariant (`InvOut`, ReductionProofs) is that what has come out already
and what is still to come make up one and the same sequence in every state:
`Total(calls) = Through(pipeline, Input(calls), TRUE)`, for every number of calls that a
generator may still get.  What is still to come is computed by `Coming(pipeline, layer,
stack, ahead, closing)` (StagewiseProofs), stage by stage from the outside: stage k
will be called with what comes out of stage k - 1, then with what waits for it in the
reductions in progress (`Queued(at)`, from the inside outwards), and be completed if it
has not been.  One step of the nested calls moves an item from one of these to
another, and `StepKeeps` proves for each that the sum stays what it was.  Where a call
is left out because the state is reduced (a loop that stops), the lemma is that
nothing could have come of it: a stage that has ended takes no item, and nor do
those before it get anything through (this is where `FeedsInTime` and `ReducedForGood`
are needed, and why the pipeline has to be polite).  `AtEnd` says that no item of
the input is left uncalled for except behind a mark.

**What is consumed, and what throws.**  The states of the program do not show what
`StagesReached` is about: after a call nobody can tell any more with what a stage was
called.  The invariant (`InvReached`, ReductionProofs) says that *there is* an account of it:
sequences `given`, one for each stage and one for the collection, such that (`Account`,
ArrivalProofs)

* `Remembers`: the layer of every stage is what the calls with its sequence leave, and it
  can take each of these items;
* `Gets`: of what the stages before k make of the whole input, `given[k]` comes first and
  what waits for stage k and is still to come (`Coming`) makes up the rest, unless the
  reduction is over for it;
* `Unended`: the items in `given[k]` did not end the reduction before the last of them;
* `Foresees`: whether the stages from k on end the reduction within some more items for
  stage k can be told from the beginning of their sequence (`EndsFrom`), and from the
  states in which they are now (`WillEnd`), and the answers agree.

An item that goes into a stage is added to its sequence (`AccountTaken`, with `AccountCalled`
and `AccountOut` for the two kinds of step), and the other sequences stay what they are.
Where the rest of a loop is dropped, or the input is, because the state is reduced, all of
them do (`AccountDropped`): `Foresees` says that they are complete.  When nothing is in
progress or ahead, `given[k]` is `Arriving(pipeline, k, Input(0))` (`ArrivingIs`), and with
`Remembers` that is the property.  The number of items taken from the ranges is that of
`given[1]` and those that wait for the first stage (`Entered`).

Of `ThrowsOnArrival` one direction follows from `Remembers`: when reduce() has returned,
every item that arrives has been taken.  For the other, `AccountNext` says that an item
that is about to go into a stage arrives there, in the end; so that a step that throws is
one of an item which the stage cannot take (`Refuses`).  `InTurn` keeps that the
input goes in one item at a time, and that no call goes back to a completed stage.

**The other drivers.**  A reductor and an iterator promise the same of a state that is put
away, copied, and taken out again by anybody, with an accumulator that is replaced in
between.  What has to be kept is therefore said of every state at rest, whatever becomes
of it:

* for Reductor (`InvShow`): with every layer as it is, and for *all* inputs that
  may be pushed yet and whether or not it is completed then, what the stages had made before
  `current(x)` came, what the accumulator has got since, and what is still to come make up
  what they make of all the inputs (`Keeps`; `Told` is one of these equations).  A push
  moves an input from those ahead into the calls in progress, `current(x)` moves what was
  made since into what was made before, and a copy has the same layers.  Once a completion
  has begun nothing is ahead any more, and the equation is about the stages that are still
  to be completed (`Completing`), while the reductor that is completed, if it is a const one,
  keeps its own.  It is not claimed of a reductor that is `mistyped`, nor of one that was
  moved from, and an exception on its way (`Failing`) suspends it until `Catch` drops the
  result.
* for Sequence (`InvYield`): there are elements that the iterator has been at, as many as
  its index and position say, which with the cache and what is still to come of *any*
  number of further calls are what the stages make of all the calls (`Tells`).  `pop()` moves
  elements of the cache to those it has been at; `OwnAccumulator` makes sure that what comes
  out goes into this cache.  With it go `Lazy`, and that the layers of an iterator at its end
  are marked as reduced, which is why nothing more can come (`NothingMore`).

Both keep an account of the stages as well (`Recalled`, ArrivalProofs).  Here the input
is not known in advance: the account is the same *for all* inputs that may still come,
with what has been given so far in front of them.  An item that is fed leaves it as it is
(`RecalledFed`), since the item only moves from those ahead to those that wait; a step
inside a call adds to it what the step takes (`RecalledRun`), by the same lemma that
`reduce` uses, `StepAccounts`.  At rest, with nothing more to come, `Foresees` compares the
states of the stages with what was given, and `ArrivingIs` says what they remember
(`RecalledIs`).  A copy, or another current value, has the same layers, and a completion
works on the layers of the result: the account of the reductor itself is not touched.

FeedTells, GatherTells, ChangeTells, RunTells and CompletionTells (ReductorProofs), PullTells,
PopTells and RunTells (SequenceProofs) are the steps; all rest on `StepKeeps`, `FeedKeeps`
and `CompletionKeeps`.

Makes, Passing and Coming are functions defined by recursion over sequences and numbers.
The library's induction principles are about a predicate, which no installed prover
can instantiate; the same principle about a *set* of numbers is first-order, and follows
from strict inclusion of finite sets being well-founded (`LeastElement`,
`IntervalInduction`).  With it `Recursion` proves that such a function exists and
satisfies its definition, and from there come the laws that the invariant needs: what
Makes does with one item more in front and with a sequence in two parts, that Passing
goes from stage to stage, that Coming depends on the stages from k on only.

In AnyState `StoreTypeOK /\ OneOwner` is inductive; `CallTyped` adds the type of what
is remembered of the calls.  What an object owns is told from
what it merely points to by `size_`; the steps are reduced to four kinds: a new
buffer (`AllocateInv`), a holder put in place (`PutInPlaceInv`), owners that are
exchanged (`RenamingInv`, for moves and swaps), and a step that is undefined
(`UndefinedInv`).  For the refinement the invariant `Filled` is needed as well: no
buffer contains a null holder, else an assignment from it would need a storage of
size 0 and be put into whatever an empty object points to.  `AllocateShows`,
`PutInPlaceShows` and `AssignShows` say what a step changes in what the users see,
`ShownSame` that it changes nothing for the others, and `ReturnedSame` that a step
that is not undefined is the call of Boxes that was asked for, with what it was given,
and an undefined one is none: `NextShows` puts these together, operation by operation.

Only model-checked: everything that mentions Streams, and `Returns` and `Answers`
(liveness); and of a reductor that is `mistyped` that it keeps its value, which is part of
`CurrentMeetsStreams`.  Streams folds over sequences with operators as parameters, which takes an
induction for each of its forty definitions; what is proved instead is that a pipeline is
its stages one after the other, and TLC compares each stage with Streams.

## Plan

Done, in this order: Stages, Pipeline, Reduction, Streams; Sequence on Pipeline;
AnyState and Boxes, with the refinement proved; the stages that read, write, act,
replace and sample; Reductor on Pipeline, with a `transducer<>` in front; the types
and nesting of Reductor and Sequence as theorems; `NoFeedAfterReduced` for all drivers
and `StaysReduced` as theorems for polite pipelines; the output of `reduce` as that of its
stages, one after the other, as a theorem, and then what reductors show and sequences
yield; what its stages are called with, and when it throws; and when reductors are done
and iterators pull.

What is left:

1. When a push, a completion or a pull throws: `ThrowsOnArrival` for the other drivers.
2. One `transducer<>` inside another, and the forwarding of the state traits as
   operations of AnyState.
3. The closures of a `transducer<>`, which decide what the data of stages in it points
   to after a copy.

## Not modelled

* Moves of items: a moved item is an item.  `partition_by` forwards an r-value twice
  (see the hazards).  Of iterators only the move in `begin()` is modelled.
* What data that points into a closure is after a copy: `owner` and `own` say whom
  it points to, not what is read there.
* A `transducer<>` inside a `transducer<>`.
* `complete()` of a const reductor over `sorted`, and pipelines that `Compiles` excludes
  in their statically typed form: they do not compile.
* `product` over an empty range: its construction throws, before there is a transducer.
* A negative count for `drop`: the model steps as the code does, but no run
  has one.
* The failure of an output stream: the code does not look at it.
* A push onto a reductor that is reduced already.  `operator()` does not ask
  (reductor.hpp:67-87); the model's program does (`Pushable`), with `operator bool`, as
  `reduce` and `sequence` do before they feed.  What the properties of Reductor say is
  what the library does inside such a push, a copy, a change or a completion.
* Copies of the engine of `random_sample`, which is in the closure of its step: `partition`
  and `partition_by` keep a copy of the step for their completion, and `make_reductor`
  makes its first call on the step it copies.  The model counts the calls in the
  stage's layer, which is the same as long as only one copy of the step is called; no run
  has `random_sample` behind `partition`, or in a reductor.
* The reducing functions `first` and `last`, which keep a value and no data.
* The loops of `reduce_nested` that the macros `ZUG_REDUCE_TAIL_RECURSIVE`,
  `ZUG_REDUCE_WITH_ACCUMULATE` and `ZUG_REDUCE_ALWAYS_VARIADIC` select instead of the
  default ones.
* `meta/`, `compat/` and the other utilities, which exist only at compile time.

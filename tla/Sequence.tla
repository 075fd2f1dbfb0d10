------------------------------ MODULE Sequence ------------------------------
(***************************************************************************)
(* sequence(): input iterators that pull their elements through a          *)
(* transducer, one reductor call at a time, and keep the outputs of the    *)
(* last productive call in a cache (sequence.hpp).                         *)
(*                                                                         *)
(* Every iterator owns a reductor whose accumulator is a pointer to the    *)
(* iterator itself: the step under the pipeline appends to the cache of    *)
(* whatever iterator that pointer names.  The adapted ranges become iter() *)
(* stages in front of the transducer.  The reductor is never completed.    *)
(*                                                                         *)
(* The variables of Pipeline hold the reductor of the iterator at work.    *)
(***************************************************************************)
EXTENDS Pipeline, Stagewise

CONSTANTS
  Sequences,   \* the ranges considered: the adapted ranges and the transducer
  Iterators,   \* the iterator variables of the program
  Nobody,      \* no iterator: a value outside of Iterators
  MaxIndex,    \* bound: how far an iterator is incremented
  MaxCalls     \* bound: how far the calls of its reductor are counted

ASSUME SequencesAssumption ==
  \A s \in Sequences : /\ s.xform \in Seq(Stage)
                       /\ s.ranges \in Seq(Seq(Item))

ASSUME IteratorsAssumption ==
  Nobody \notin Iterators /\ MaxIndex \in Nat /\ MaxCalls \in Nat

VARIABLES
  ranges,      \* the adapted ranges; never changes
  iterators,   \* the data of every iterator (sequence_data)
  active       \* the iterator whose pull() is in progress, or Nobody

seqVars == <<pipeVars, ranges, iterators, active>>

\* pos, cache and the reductor's state: its layers and its accumulator, target.
\* owner[k] is the iterator whose closures the data of stage k points into.
\* index (increments so far) and calls (of the reductor) are not in the code:
\* they are for the properties.
IteratorData ==
  [live : BOOLEAN, pos : Nat, cache : Seq(Item), layer : Seq(Layer),
   target : Iterators \cup {Nobody}, owner : Seq(Iterators \cup {Nobody}),
   index : Nat, calls : Nat]

Unused == [k \in 1..N |-> Fresh]

Dead == [live |-> FALSE, pos |-> 0, cache |-> <<>>, layer |-> Unused,
         target |-> Nobody, owner |-> [k \in 1..N |-> Nobody],
         index |-> 0, calls |-> 0]

\* The first stages iterate over the adapted ranges, which nobody owns.
Adapted(k) == k <= Len(ranges)

Adapting(rs) ==
  [r \in 1..Len(rs) |-> [Plain("iter") EXCEPT !.range = rs[r]]]

Init ==
  /\ \E s \in Sequences : /\ PipelineInit(Adapting(s.ranges) \o s.xform)
                          /\ ranges = s.ranges
  /\ iterators = [i \in Iterators |-> Dead]
  /\ active = Nobody

Free == active = Nobody /\ ~threw

\* It has the position and the cache size of end(), which are 0.
AtEnd(i) == iterators[i].pos = 0 /\ iterators[i].cache = <<>>

\* operator*
Shown(i) == iterators[i].cache[iterators[i].pos + 1]

\* begin(): the constructor starts to pull.  The iterator exists once it is done.
Begin(i) ==
  /\ Free
  /\ ~iterators[i].live
  /\ iterators' = [iterators EXCEPT ![i] = [Dead EXCEPT !.target = i]]
  /\ active' = i
  /\ UNCHANGED <<pipeVars, ranges>>

\* Mutant: the position of the last element outlives the cache.
IncrementInPlace(i) ==
  /\ Free
  /\ iterators[i].live /\ ~AtEnd(i) /\ iterators[i].index < MaxIndex
  /\ LET it     == iterators[i]
         popped == [it EXCEPT !.pos = @ + 1, !.index = @ + 1]
     IN  IF popped.pos < Len(it.cache)
         THEN /\ iterators' = [iterators EXCEPT ![i] = popped]
              /\ UNCHANGED <<layer, active>>
         ELSE /\ iterators' = [iterators EXCEPT ![i] = [popped EXCEPT !.cache = <<>>]]
              /\ layer' = it.layer
              /\ active' = i
  /\ UNCHANGED <<pipeline, stack, out, threw, ranges>>

\* pop(): the next cached element, or pull() after the last one.
Increment(i) ==
  /\ Free
  /\ iterators[i].live /\ ~AtEnd(i) /\ iterators[i].index < MaxIndex
  /\ LET it     == iterators[i]
         popped == [it EXCEPT !.pos = @ + 1, !.index = @ + 1]
     IN  IF popped.pos < Len(it.cache)
         THEN /\ iterators' = [iterators EXCEPT ![i] = popped]
              /\ UNCHANGED <<layer, active>>
         ELSE /\ iterators' =
                   [iterators EXCEPT ![i] = [popped EXCEPT !.pos = 0, !.cache = <<>>]]
              /\ layer' = it.layer
              /\ active' = i
  /\ UNCHANGED <<pipeline, stack, out, threw, ranges>>

Resting == active # Nobody /\ stack = <<>> /\ ~threw

\* The cache of the iterator at work is still empty.
Waiting == out = <<>> \/ iterators[active].target # active

CallCounted ==
  [iterators EXCEPT ![active].calls = IF @ < MaxCalls THEN @ + 1 ELSE @]

\* Mutant: the reductor is called even if it has ended.
PullUnasked ==
  /\ Resting
  /\ Waiting
  /\ stack' = <<Loop(1, <<(<<>>)>>)>>
  /\ iterators' = CallCounted
  /\ UNCHANGED <<pipeline, layer, out, threw, ranges, active>>

\* Mutant: the reductor is called until it ends.
PullGreedily ==
  /\ Resting
  /\ ~Reduced(1)
  /\ stack' = <<Loop(1, <<(<<>>)>>)>>
  /\ iterators' = CallCounted
  /\ UNCHANGED <<pipeline, layer, out, threw, ranges, active>>

\* pull(): one more call of the reductor, with no arguments.
Pull ==
  /\ Resting
  /\ Waiting /\ ~Reduced(1)
  /\ stack' = <<Loop(1, <<(<<>>)>>)>>
  /\ iterators' = CallCounted
  /\ UNCHANGED <<pipeline, layer, out, threw, ranges, active>>

Run == active # Nobody /\ PipelineStep /\ UNCHANGED <<ranges, iterators, active>>

\* Where the data that this pull created points to.  A new iterator is pulled
\* as a temporary that begin() moves into its place.
Owners(it) ==
  [k \in 1..N |->
     IF it.layer[k].called \/ ~layer[k].called \/ ~PointsToClosure(pipeline[k])
     THEN it.owner[k]
     ELSE IF ~it.live /\ PointsToMember(pipeline[k]) THEN Nobody ELSE active]

\* pull() is done: the outputs are in the cache that the accumulator names.
Pulled ==
  /\ Resting
  /\ ~Waiting \/ Reduced(1)
  /\ LET it   == iterators[active]
         kept == [it EXCEPT !.live = TRUE, !.layer = layer, !.owner = Owners(it)]
         here == [iterators EXCEPT ![active] = kept]
     IN  iterators' = [here EXCEPT ![it.target].cache = @ \o out]
  /\ layer' = Unused
  /\ out' = <<>>
  /\ active' = Nobody
  /\ UNCHANGED <<pipeline, stack, threw, ranges>>

\* Mutant: the copied reductor keeps the accumulator of the original.
CopySharing(i, j) ==
  /\ Free
  /\ iterators[i].live /\ ~iterators[j].live
  /\ iterators' = [iterators EXCEPT ![j] = iterators[i]]
  /\ UNCHANGED <<pipeVars, ranges, active>>

\* The copy constructor, which operator++(int) uses as well: everything is
\* copied, then reductor.current(this) puts the copy's own accumulator under
\* the layers.  (Assignment does not compile for transducers made of lambdas.)
Copy(i, j) ==
  /\ Free
  /\ iterators[i].live /\ ~iterators[j].live
  /\ iterators' = [iterators EXCEPT ![j] = [iterators[i] EXCEPT !.target = j]]
  /\ UNCHANGED <<pipeVars, ranges, active>>

Destroy(i) ==
  /\ Free
  /\ iterators[i].live
  /\ iterators' = [iterators EXCEPT ![i] = Dead]
  /\ UNCHANGED <<pipeVars, ranges, active>>

\* An exception has left the increment or begin(): what was moved from stays so.
Stop == threw /\ UNCHANGED seqVars

\* What the iterator at work does on its own.
Work == Pull \/ Run \/ Pulled

Next ==
  \/ Work \/ Stop
  \/ \E i \in Iterators : Begin(i) \/ Increment(i) \/ Destroy(i)
  \/ \E i, j \in Iterators : Copy(i, j)

Spec == Init /\ [][Next]_seqVars

\* An increment that has begun runs until it is done.
FairSpec == Spec /\ WF_seqVars(Work)

-----------------------------------------------------------------------------

\* The values of every variable have the types that the code gives them, and an
\* iterator that is not at its end is at an element of its cache.
TypeOK ==
  /\ PipelineTypeOK
  /\ ranges \in Seq(Seq(Item))
  /\ active \in Iterators \cup {Nobody}
  /\ iterators \in [Iterators -> IteratorData]
  /\ \A i \in Iterators :
       iterators[i].pos = 0 \/ iterators[i].pos < Len(iterators[i].cache)

\* A sequence has no input but the calls of the reductor, without arguments.
Pulses(n) == [k \in 1..n |-> <<>>]

\* What the stages make of that many calls, one stage after the other.
Made(calls) == Through(pipeline, Pulses(calls), FALSE)

\* The elements that an iterator was at before those of its cache.
Gone(it) == it.index - it.pos

Tallied(it) == it.calls < MaxCalls

\* No data of the transducer points into a closure: a copy of it goes on like the
\* original (see OwnData for the others).
Shareable == \A k \in 1..N : PointsToClosure(pipeline[k]) => Adapted(k)

\* What an iterator has been at and what is in its cache is, in this order, all
\* that the stages have made of the calls of its reductor so far: no element is
\* lost, repeated or put out of order by the cache, by copies of the iterator in
\* the middle of it, or by those of others (sequence_data, sequence.hpp).
CacheMeetsStages ==
  (Free /\ Shareable) =>
    \A i \in Iterators :
      LET it == iterators[i] IN
      (it.live /\ Tallied(it)) =>
        /\ Len(Made(it.calls)) = Gone(it) + Len(it.cache)
        /\ \A k \in 1..Len(it.cache) : it.cache[k] = Made(it.calls)[Gone(it) + k]

\* The last of these calls was needed: the ones before it had made nothing that
\* the iterator has not been at, and had not ended the reduction.
LazyOverStages ==
  (Free /\ Shareable) =>
    \A i \in Iterators :
      LET it == iterators[i] IN
      (it.live /\ Tallied(it)) =>
        /\ it.calls > 0
        /\ Len(Made(it.calls - 1)) <= it.index
        /\ ~EndsFrom(pipeline, 1, Pulses(it.calls - 1))

\* Iterators share nothing but the adapted ranges: the data in the state of one
\* points into its own closures only.
OwnData ==
  \A i \in Iterators : \A k \in 1..N :
    (iterators[i].live /\ iterators[i].layer[k].called
       /\ PointsToClosure(pipeline[k]) /\ ~Adapted(k))
    => iterators[i].owner[k] = i
=============================================================================

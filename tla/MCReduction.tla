---------------------------- MODULE MCReduction -----------------------------
(***************************************************************************)
(* Reduction for TLC: the pipelines and inputs that each run considers,    *)
(* and the properties that compare the code with Streams.                  *)
(***************************************************************************)
EXTENDS Reduction, Catalogue

CONSTANT PulseBound  \* the calls a generator is compared over

Accepted(stages, t) == WellTyped(stages, t) /\ Polite(stages)

(***************************************************************************)
(* reduce_ranges: every accepted pair of the catalogue, and what stands    *)
(* between a stage that loops over the next one and a stage that stops the *)
(* reduction; one input range.                                             *)
(***************************************************************************)

Of(pipelines, ranges) ==
  {[pipeline |-> p, inputs |-> <<r>>] : p \in pipelines, r \in ranges}

Hard == {
  Predicated("filter", {1, 3}), Ranged("product", Tails), Plain("interleave"),
  Counted("interpose", 3), Ranged("chainl", Tails), Ranged("chainr", Tails),
  Plain("sorted"), Counted("partition", 2), Predicated("partition_by", {1, 3}),
  Plain("cat"), Counted("map", 1), Plain("dedupe"), Counted("take_nth", 2),
  Counted("take", 2), Predicated("take_while", {1, 3}), Ranged("iter", Tails)}

PairsAndTriples ==
  Of({p \in {<<a, b>> : a, b \in Catalogue} \cup
            {<<a, b, c>> : a, b, c \in Hard} : Accepted(p, 1)},
     Ranges(3, {1, 2}) \cup Ranges(2, {1, 2, 3}) \cup
     {Scalars(s) : s \in {<<1, 2, 3>>, <<3, 2, 1>>, <<2, 3, 1>>, <<3, 1, 3>>}})

(***************************************************************************)
(* reduce_inputs: generators, ranges in parallel, ranges of vectors,       *)
(* stages that throw, and stages that insist before one that stops.        *)
(***************************************************************************)

Sources == {
  range(0, 3, 1), range(1, 6, 2), range(3, 0, -1), range(2, 2, 1),
  repeatn(2, 7), <<Ranged("iter", Tails)>>, <<Ranged("iter", <<>>)>>,
  <<Ranged("cycle", Tails), Counted("take", 3)>>,
  <<Ranged("cycle", <<>>), Counted("take", 3)>>,
  <<count(1, 1), scan(0, 2)>>,
  <<Ranged("iter", Tails), Counted("repeat", 2)>>}

Generators == {g \o t : g \in Sources, t \in {<<>>} \cup {<<s>> : s \in Catalogue}}

\* What delays, multiplies or cuts off the items before and after a stage.
Around == {Counted("map", 0), Ranged("product", Tails), Plain("sorted"),
           Counted("take", 1), Predicated("filter", {1, 3}),
           Counted("interpose", 3), Predicated("take_while", {1})}

Consumers ==
  {<<s>> : s \in Catalogue} \cup {mapcat(1), map_indexed(1)} \cup
  {<<a, Counted("take", n)>> : a \in Catalogue, n \in 0..1} \cup
  {<<Counted("take", 0), a>> : a \in Catalogue} \cup
  {<<a, replacing("replace_all_safe", {1, 3}, 1), b>> : a, b \in Around}

Vectors == {<< <<1, 2>>, <<>>, <<3>> >>, << <<>>, <<2, 1>> >>, << <<>> >>}

\* The lists of ranges that a pipeline compiles for, given what it accepts.
InputsFor(p) ==
  (IF p \in Generators /\ Accepted(p, 0) THEN {<<>>} ELSE {}) \cup
  (IF p \in Consumers /\ Accepted(p, 2)
   THEN {<<a, b>> : a, b \in Ranges(2, {1, 2})} ELSE {}) \cup
  (IF p \in Consumers /\ Accepted(p, 1)
   THEN {<<r>> : r \in Ranges(2, {1, 2})} ELSE {}) \cup
  (IF p \in Consumers /\ Accepted(p, Vector) THEN {<<v>> : v \in Vectors} ELSE {})

Impolite ==
  Of({p \in {<<a, b>> : a, b \in Catalogue} :
        WellTyped(p, 1) /\ Insistent(p[1]) /\ Stopper(p[2])},
     Ranges(3, {1, 2}))

Various ==
  Impolite \cup
  UNION {{[pipeline |-> p, inputs |-> i] : i \in InputsFor(p)} :
           p \in Generators \cup Consumers}

(***************************************************************************)
(* The runs that compare the code with its documentation.                  *)
(***************************************************************************)

ChainThenStop ==
  Of({<<Ranged("chainr", Tails), s>> :
        s \in {Counted("take", 2), Predicated("take_while", {1, 3})}},
     Ranges(3, {1, 2}))

RangeStop == 6

SteppedRanges ==
  {[pipeline |-> range(a, RangeStop, d), inputs |-> <<>>] : a \in 0..3, d \in 1..3}

-----------------------------------------------------------------------------

\* The whole input, the calls of a generator up to PulseBound.
WholeInput == Input(PulseBound)

\* The stage may throw.
Refusing(st) == Empty(st) \/ st.kind = "replace_all_safe"

\* What reaches the reducing function is what the documentation of the stages
\* promises for the whole input: nothing is lost, repeated or reordered by
\* early termination, first calls, skips, nested loops or completion.  A stage that
\* feeds a state which is reduced (chainl in the middle of the input, chainr in the
\* completion) only adds to it: what was promised comes out first, unharmed.
OutputMeetsStreams ==
  (pc = "done" /\ ~threw) =>
    LET promised == Composed(pipeline, WholeInput, TRUE)
    IN  IF Polite(pipeline) THEN out = promised ELSE IsPrefix(promised, out)

\* The pipeline with something in every stage.
Lenient ==
  [k \in 1..N |-> IF Empty(pipeline[k]) THEN Counted("take", 1) ELSE pipeline[k]]

\* What stage k is called with: what the stages before it let through, up to
\* the item with which a stage from k on ends the reduction.
Reaching(k) ==
  LET all     == Composed(SubSeq(Lenient, 1, k - 1), WholeInput, TRUE)
      ends(n) == Exhausted(SubSeq(Lenient, k, N), SubSeq(all, 1, n))
      needed  == CHOOSE n \in 0..Len(all) :
                   /\ n = Len(all) \/ (n > 0 /\ ends(n))
                   /\ \A m \in 1..(n - 1) : ~ends(m)
  IN  SubSeq(all, 1, needed)

\* A stage on its own, called with the whole sequence that reaches it: what it
\* makes of that by its calls, and by its completion, is what its documentation
\* promises, for every stage with all that may come out of those before it; and it
\* is called up to the item that lets it or a stage behind it end the reduction,
\* which an input does exactly if its documentation says that it needs no more.
\* (That the nested calls come to the same as these single stages is proved for
\* every pipeline, see OutputMeetsStages, StagesReached and EndsWithStages.)
StagesMeetStreams ==
  (pc = "start" /\ \A k \in 1..N : ~Refusing(pipeline[k])) =>
    /\ \A k \in 1..N :
         /\ \A completed \in BOOLEAN :
              Passing(pipeline, WholeInput, completed)[k] =
                Composed(SubSeq(pipeline, 1, k), WholeInput, completed)
         /\ Arriving(pipeline, k, WholeInput, TRUE) = Reaching(k)
    /\ WholeInput # <<>> =>
         (EndsFrom(pipeline, 1, WholeInput) <=> Exhausted(pipeline, WholeInput))

\* The item makes the stage throw.
Refused(st, x) == Empty(st) \/ (st.kind = "replace_all_safe" /\ ~Found(st, x))

\* An exception comes exactly when an item reaches a take() or cycle() with
\* nothing in it, or a table that has no such key, however late (in a
\* completion, say) and not if the reduction ends before; and what into() has
\* written by then is a beginning of what it would have written otherwise.
ThrowsWhenReached ==
  (Returned /\ Polite(pipeline)) =>
    /\ threw <=> \E k \in 1..N : \E i \in 1..Len(Reaching(k)) :
                    Refused(pipeline[k], Reaching(k)[i])
    /\ threw => IsPrefix(out, Composed(Lenient, WholeInput, TRUE))

\* take(n) as the last stage lets n elements through and finishes
\* (transducer/take.hpp); take_while lets items through until one does not
\* pass, then stops (transducer/take_while.hpp).  See reduce_take.
StopsForGood ==
  pc = "done" =>
    LET last      == pipeline[N]
        reaching  == Composed(SubSeq(pipeline, 1, N - 1), WholeInput, TRUE)
        passes(x) == Passes(last, x)
    IN  /\ last.kind = "take" => Len(out) <= last.n
        /\ last.kind = "take_while" =>
             out = SubSeq(reaching, 1, Leading(reaching, passes))

\* range(start, stop, step) produces the numbers in [start, stop) in steps of
\* size step (transducer/range.hpp).  See reduce_range.
RangeCovers ==
  pc = "done" =>
    LET start == pipeline[1].n
        step  == pipeline[1].m
    IN  Len(out) = Cardinality({v \in start..(RangeStop - 1) :
                                   (v - start) % step = 0})

\* Every reduction returns, generators included once a stage ends them.
Returns == <>Returned
=============================================================================

----------------------------- MODULE MCReductor -----------------------------
(***************************************************************************)
(* Reductor for TLC: the transducers that each run considers, and the      *)
(* properties that compare the reductors with Streams.                     *)
(***************************************************************************)
EXTENDS Reductor, Catalogue

CONSTANTS r1, r2

TwoInputs == {<<1>>, <<2>>}
NewValue  == {<< <<9>> >>}

Names == Permutations({r1, r2})

Whole(p) == [stages |-> p, erased |-> 0]

(***************************************************************************)
(* reductor: a stage of every sort, alone and in front of one that stops,  *)
(* and transducer<> with stages behind it that wrap the state or leave it  *)
(* bare.                                                                   *)
(***************************************************************************)

Alone == {Predicated("filter", {1, 3}), Ranged("product", Tails), Counted("take", 2),
          Ranged("chainr", Tails), Plain("sorted"),
          Counted("partition", 2), Predicated("partition_by", {1, 3}), scan(0, 2),
          Ranged("iter", Tails), Ranged("cycle", Tails)}

Before == {Ranged("product", Tails), Plain("reversed"), Predicated("filter", {1, 3})}

Behind == {Counted("interpose", 3), Predicated("take_while", {1}), Counted("take", 0)}

Erasable == {Predicated("take_while", {1}), Counted("interpose", 7),
             Ranged("chainl", Tails)}

AfterErased == {<<Predicated("filter", {1})>>, <<Ranged("product", Tails)>>}

Forgetful == {<<Counted("map", 1), Counted("take", 2)>>,
              <<Counted("partition", 2), Counted("take", 2)>>}

Held ==
  {Whole(p) : p \in {p \in {<<a>> : a \in Alone} \cup
                           {<<a, b>> : a \in Before, b \in Behind} :
                       WellTyped(p, 1) /\ Polite(p)}}
  \cup
  {[stages |-> <<a>> \o t, erased |-> 1] : a \in Erasable, t \in AfterErased}
  \cup
  {[stages |-> p, erased |-> 1] :
     p \in Forgetful \cup {<<Counted("partition", 2), Plain("cat")>>}}

(***************************************************************************)
(* reductor_erased: the run that compares the code with its documentation. *)
(***************************************************************************)

Erased == {[stages |-> <<Counted("map", 1), Counted("take", 3)>>, erased |-> 1]}

-----------------------------------------------------------------------------

\* What the transducer gives for everything a reductor was given, after what
\* it gave before current(x) replaced it.
Promised(red, closed) ==
  LET all    == Composed(pipeline, red.pushed, closed)
      before == Composed(pipeline, SubSeq(red.pushed, 1, red.since), FALSE)
  IN  red.base \o SubSeq(all, Len(before) + 1, Len(all))

\* A reductor at rest shows what the transducer promises for the inputs it was
\* given so far, after the value it was changed to, however it came about:
\* constructed empty or with an input, advanced in place or as a copy, and
\* whatever became of the others, of a completion or of an exception.  Only if a
\* transducer<> does not know its state any more does that value stay for good.
CurrentMeetsStreams ==
  Free =>
    \A r \in Reductors :
      LET red == reductors[r] IN
      (Live(r) /\ red.own) =>
        red.acc = IF red.mistyped THEN red.base ELSE Promised(red, FALSE)

\* complete() returns what the transducer promises for a sequence that ends
\* there, with the same exception; a reductor that is completed twice, or goes on
\* afterwards, is none the worse for it.
CompleteMeetsStreams ==
  AtResult =>
    LET red == reductors[work.of] IN
    red.own =>
      red.acc \o out = IF red.mistyped THEN red.base ELSE Promised(red, TRUE)
=============================================================================

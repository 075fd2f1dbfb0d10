----------------------------- MODULE MCSequence -----------------------------
(***************************************************************************)
(* Sequence for TLC: the ranges that each run considers, and the           *)
(* properties that compare the iterators with Streams.                     *)
(***************************************************************************)
EXTENDS Sequence, Catalogue

CONSTANT PulseBound  \* the calls that an infinite sequence is compared over

(***************************************************************************)
(* sequence_lazy: everything whose copies do not point to the original.    *)
(***************************************************************************)

Copyable == {st \in Catalogue : ~PointsToClosure(st)}

\* Those that do something to a neighbour that no other stage does.
Telling == Copyable \ {take_unsigned(2), scan(0, 0), Counted("repeat", 3),
                       Plain("sink"), Plain("enumerate")}

Transducers ==
  {p \in {<<s>> : s \in Copyable} \cup {<<a, b>> : a, b \in Telling} : Polite(p)}

OneRange ==
  {[xform |-> p, ranges |-> <<Scalars(r)>>] :
     p \in {p \in Transducers : WellTyped(p, 1)},
     r \in {<<1, 1, 2>>, <<2, 3, 1>>}}
  \cup {[xform |-> <<s>>, ranges |-> <<(<<>>)>>] :
           s \in {s \in Copyable : WellTyped(<<s>>, 1)}}

TwoRanges ==
  {[xform |-> p, ranges |-> <<Scalars(<<1, 2>>), Scalars(r)>>] :
     p \in {<<s>> : s \in {s \in Copyable : WellTyped(<<s>>, 2)}},
     r \in {<<>>, <<3>>, <<3, 1, 2>>}}

NoRange ==
  {[xform |-> p, ranges |-> <<>>] :
     p \in {<<count(0, 1)>>, <<count(1, 1), Counted("take_nth", 2)>>,
            <<Plain("enumerate"), Counted("partition", 2)>>,
            <<count(0, 1), Counted("drop", 2), Ranged("product", Tails)>>,
            <<count(0, 1), Counted("interpose", 7)>>,
            <<count(1, 2), Predicated("take_while", {1, 3})>>,
            range(0, 3, 1), repeatn(2, 7), <<Counted("take", 0)>>}}

Lazy == OneRange \cup TwoRanges \cup NoRange

(***************************************************************************)
(* The runs that compare the code with its documentation.                  *)
(***************************************************************************)

Cycled == {[xform |-> <<Ranged("cycle", Tails)>>, ranges |-> <<Scalars(<<1, 2, 3>>)>>]}

Grouped == {[xform |-> <<Counted("partition", 2)>>, ranges |-> <<Scalars(r)>>] :
              r \in {<<1, 2>>, <<1, 2, 3>>}}

-----------------------------------------------------------------------------

\* All that the transducer gives for them as long as nothing completes it.
Promised == Composed(pipeline, Pulses(PulseBound), FALSE)

\* An iterator that has been incremented k times shows the element k + 1 of
\* what the transducer promises, whatever was cached, copied and destroyed
\* meanwhile, and it equals end() exactly if there is no such element.
YieldsPromised ==
  Free =>
    \A i \in Iterators :
      iterators[i].live =>
        IF AtEnd(i)
        THEN iterators[i].index = Len(Promised)
        ELSE Shown(i) = Promised[iterators[i].index + 1]

\* An iterator is lazy: it has called the reductor no more often than it must
\* to have an element to show, and never again after the reduction ended.
PullsNoMore ==
  Free =>
    \A i \in Iterators :
      iterators[i].calls > 0 =>
        LET before == Pulses(iterators[i].calls - 1) IN
        /\ Len(Composed(pipeline, before, FALSE)) <= iterators[i].index
        /\ ~Exhausted(pipeline, before)

\* begin() and operator++ return: pull() finds an element or the end.
Answers == (active # Nobody) ~> (active = Nobody \/ threw)

\* partition groups the elements of the sequence (transducer/partition.hpp):
\* no element is left out, as with into().  See sequence_partition.
GroupsAll ==
  Free =>
    \A i \in Iterators :
      (iterators[i].live /\ AtEnd(i)) =>
        iterators[i].index = Len(Composed(pipeline, Pulses(PulseBound), TRUE))
=============================================================================

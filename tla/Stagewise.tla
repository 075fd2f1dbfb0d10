----------------------------- MODULE Stagewise ------------------------------
(***************************************************************************)
(* Every stage on its own: what it makes of a whole sequence when it is    *)
(* called with one item after the other, until it ends the reduction, and  *)
(* completed at the end.  Nothing here is nested, skipped or interrupted:  *)
(* a pipeline is the composition of its stages, one whole sequence after   *)
(* the other.  That the nested calls of Pipeline come to the same is what  *)
(* the composition of transducers promises.                                *)
(***************************************************************************)
EXTENDS Stages

\* The layers a stage may have: one that answers its first call with an
\* exception never has any.
Possible(st) == {l \in Layer : l.called => ~ThrowsFirst(st, Fresh)}

\* The items of the reductions that one call starts, which are two at most.
Issued(runs) ==
  IF runs = <<>> THEN <<>>
  ELSE IF Tail(runs) = <<>> THEN runs[1]
  ELSE runs[1] \o runs[2]

\* What a stage with the layer l makes of the items xs, and, if it is completed
\* then (closed), of what it still holds.  After it has ended the reduction it
\* takes no item, and after an exception neither.
Makes(st, closed) ==
  LET made[xs \in Seq(Item)] ==
        [l \in Possible(st) |->
           IF xs = <<>> \/ DataIsReduced(st, l) \/ Throws(st, l, Head(xs))
           THEN IF closed THEN Flush(st, l) ELSE <<>>
           ELSE LET called == Step(st, l, Head(xs))
                IN  Issued(called.runs) \o made[Tail(xs)][called.layer]]
  IN  made

\* The layer with which the stage is left after these calls: after all of them, or
\* after the one that ended the reduction, or before the one that it cannot take.
After(st) ==
  LET left[xs \in Seq(Item)] ==
        [l \in Possible(st) |->
           IF xs = <<>> \/ DataIsReduced(st, l) \/ Throws(st, l, Head(xs))
           THEN l
           ELSE left[Tail(xs)][Step(st, l, Head(xs)).layer]]
  IN  left

\* What comes out of the first k stages, for every k.
Passing(stages, xs, closed) ==
  LET ys[k \in 0..Len(stages)] ==
        IF k = 0 THEN xs ELSE Makes(stages[k], closed)[ys[k - 1]][Fresh]
  IN  ys

Through(stages, xs, closed) == Passing(stages, xs, closed)[Len(stages)]

\* The same for the stages from lo on, if the first of them is called with the
\* items xs and none is completed.
Onwards(stages, lo, xs) ==
  LET ys[k \in 0..Len(stages)] ==
        IF k < lo THEN xs ELSE Makes(stages[k], FALSE)[ys[k - 1]][Fresh]
  IN  ys

\* One of the stages from lo on ends the reduction in these calls.
EndsFrom(stages, lo, xs) ==
  \E k \in lo..Len(stages) :
    DataIsReduced(stages[k], After(stages[k])[Onwards(stages, lo, xs)[k - 1]][Fresh])

\* What stage k is called with, of the input xs: what the stages before it make of
\* all the input, up to the item with which a stage from k on ends the reduction.
Arriving(stages, k, xs, completed) ==
  LET all     == Passing(stages, xs, completed)[k - 1]
      ends(n) == EndsFrom(stages, k, SubSeq(all, 1, n))
      needed  == CHOOSE n \in 0..Len(all) : /\ n = Len(all) \/ ends(n)
                                            /\ \A m \in 0..(n - 1) : ~ends(m)
  IN  SubSeq(all, 1, needed)
=============================================================================

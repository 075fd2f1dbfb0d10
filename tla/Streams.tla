------------------------------ MODULE Streams -------------------------------
(***************************************************************************)
(* What the documentation of each transducer promises, as a function from  *)
(* the whole sequence of its inputs to the whole sequence of its outputs.  *)
(* Nothing here knows of states, layers or reductions: this is the         *)
(* reference that Reduction is compared with.                              *)
(*                                                                         *)
(* closed tells whether the sequence has ended and been completed; an open *)
(* sequence may go on, so that what waits for its end is not there yet.    *)
(***************************************************************************)
EXTENDS Stages, SequencesExt

\* The elements of xs at the positions that P accepts.
Picked(xs, P(_)) ==
  FoldLeftDomain(LAMBDA ys, i : IF P(i) THEN Append(ys, xs[i]) ELSE ys, <<>>, xs)

Mapped(xs, F(_)) == [i \in 1..Len(xs) |-> F(xs[i])]

\* The number of leading elements that P accepts.
Leading(xs, P(_)) ==
  CHOOSE n \in 0..Len(xs) :
    /\ \A i \in 1..n : P(xs[i])
    /\ n < Len(xs) => ~P(xs[n + 1])

Least(a, b) == IF a < b THEN a ELSE b

Sum(xs) == FoldLeft(LAMBDA a, x : a + Key(x), 0, xs)

\* The groups of n elements; the last one is whole only in a closed sequence.
Groups(xs, n, closed) ==
  LET whole == Len(xs) \div n
      last  == closed /\ Len(xs) % n # 0
      group(g) == SubSeq(xs, (g - 1) * n + 1, Least(g * n, Len(xs)))
  IN  [g \in 1..(whole + IF last THEN 1 ELSE 0) |-> FlattenSeq(group(g))]

\* The maximal runs of consecutive elements with one mapping.
Runs(xs, F(_), closed) ==
  LET starts == SelectSeq([i \in 1..Len(xs) |-> i],
                  LAMBDA i : i = 1 \/ F(xs[i]) # F(xs[i - 1]))
      last(g) == IF g = Len(starts) THEN Len(xs) ELSE starts[g + 1] - 1
      runs   == [g \in 1..Len(starts) |->
                   FlattenSeq(SubSeq(xs, starts[g], last(g)))]
  IN  IF closed \/ runs = <<>> THEN runs ELSE Front(runs)

\* How many times read() finds m good tokens in its stream, and what they are.
Readable(st) ==
  Leading(st.range, LAMBDA x : Passes(st, x)) \div st.m

ReadAt(st, i) ==
  [j \in 1..st.m |-> Key(st.range[(i - 1) * st.m + j])]

\* The buffers of readbuf(): the last one is not full, and may be empty.
Buffers(st) == Len(st.range) \div st.n + 1

BufferAt(st, i) ==
  FlattenSeq(SubSeq(st.range, (i - 1) * st.n + 1, Least(i * st.n, Len(st.range))))

Stream(st, xs, closed) ==
  LET passes(x) == Passes(st, x)
      atMost(n) == SubSeq(xs, 1, Least(n, Len(xs)))
      from(n)   == SubSeq(xs, n, Len(xs))
      k         == st.kind
  IN  CASE k = "map" -> Mapped(xs, LAMBDA x : <<Key(x) + st.n>>)
        [] k = "filter" -> SelectSeq(xs, passes)
        [] k = "sink" -> Mapped(xs, LAMBDA x : <<>>)
        [] k \in {"cat", "interleave"} ->
             FlattenSeq(Mapped(xs, LAMBDA x : Mapped(x, LAMBDA v : <<v>>)))
        [] k = "product" ->
             FlattenSeq(Mapped(xs, LAMBDA x :
                                     Mapped(st.range, LAMBDA y : x \o y)))
        [] k = "repeat" -> Mapped(xs, LAMBDA x : x \o <<st.n>>)
        [] k = "take" -> atMost(st.n)
        [] k = "take_while" -> atMost(Leading(xs, passes))
        [] k = "take_nth" -> Picked(xs, LAMBDA i : (i - 1) % st.n = 0)
        [] k = "drop" -> from(st.n + 1)
        [] k = "drop_while" -> from(Leading(xs, passes) + 1)
        [] k = "dedupe" -> Picked(xs, LAMBDA i : i = 1 \/ xs[i] # xs[i - 1])
        [] k = "distinct" ->
             Picked(xs, LAMBDA i : \A j \in 1..(i - 1) : xs[j] # xs[i])
        [] k = "interpose" ->
             [i \in 1..(IF xs = <<>> THEN 0 ELSE 2 * Len(xs) - 1) |->
                IF i % 2 = 0 THEN <<st.n>> ELSE xs[(i + 1) \div 2]]
        [] k = "chainr" -> IF closed /\ xs # <<>> THEN xs \o st.range ELSE xs
        [] k = "chainl" -> IF xs # <<>> THEN st.range \o xs ELSE xs
        [] k = "sorted" ->
             IF closed THEN SortSeq(xs, LAMBDA x, y : Key(x) < Key(y)) ELSE <<>>
        [] k = "reversed" -> IF closed THEN Reverse(xs) ELSE <<>>
        [] k = "partition" -> Groups(xs, st.n, closed)
        [] k = "partition_by" -> Runs(xs, passes, closed)
        [] k = "count" ->
             [i \in 1..Len(xs) |-> xs[i] \o <<st.n + (i - 1) * st.m>>]
        [] k = "enumerate" -> [i \in 1..Len(xs) |-> <<st.n + i - 1>> \o xs[i]]
        [] k = "scan" ->
             [i \in 1..(IF st.m > 0 THEN Least(st.m, Len(xs)) ELSE Len(xs)) |->
                <<st.n + Sum(SubSeq(xs, 1, i))>>]
        [] k = "iter" ->
             [i \in 1..Least(Len(xs), Len(st.range)) |-> xs[i] \o st.range[i]]
        [] k = "cycle" ->
             [i \in 1..Len(xs) |->
                xs[i] \o st.range[((i - 1) % Len(st.range)) + 1]]
        [] k \in {"zip", "unzip", "each", "write", "writebuf"} -> xs
        [] k = "random_sample" -> Picked(xs, LAMBDA i : i \in st.pass)
        [] k = "replace" ->
             Mapped(xs, LAMBDA x : IF Found(st, x) THEN <<Key(x) + st.n>> ELSE x)
        [] k \in {"replace_all", "replace_all_safe"} ->
             Mapped(xs, LAMBDA x : <<IF Found(st, x) THEN Key(x) + st.n ELSE 0>>)
        [] k = "read" ->
             [i \in 1..Least(Len(xs), Readable(st)) |-> xs[i] \o ReadAt(st, i)]
        [] k = "readbuf" /\ st.m <= 0 ->
             [i \in 1..Least(Len(xs), Buffers(st)) |-> xs[i] \o BufferAt(st, i)]
        [] k = "readbuf" /\ st.m > 0 -> xs

\* xs one after the other, with sep in between.
Joined(xs, sep) ==
  FlattenSeq([i \in 1..(IF xs = <<>> THEN 0 ELSE 2 * Len(xs) - 1) |->
                IF i % 2 = 0 THEN << <<sep>> >> ELSE xs[(i + 1) \div 2]])

\* What a stage leaves outside when xs goes through it: the calls of an action,
\* or the text in an output stream.
Effect(st, xs) ==
  CASE st.kind \in {"each", "sink"} -> xs
    [] st.kind = "write" ->
         Joined(Mapped(xs, LAMBDA x : Joined(Mapped(x, LAMBDA v : << <<v>> >>), st.m)),
                st.n)
    [] st.kind = "writebuf" -> FlattenSeq(Mapped(xs, Singles))

\* A pipeline is the composition of its stages, the first one innermost.
Composed(stages, xs, closed) ==
  FoldLeft(LAMBDA ys, st : Stream(st, ys, closed), xs, stages)

\* The stage has seen all the input it will ever let through.
Satisfied(st, xs) ==
  CASE st.kind = "take" -> Len(xs) >= st.n
    [] st.kind = "take_while" -> \E i \in 1..Len(xs) : ~Passes(st, xs[i])
    [] st.kind = "iter" -> xs # <<>> /\ Len(xs) >= Len(st.range)
    [] st.kind = "scan" -> st.m > 0 /\ Len(xs) >= st.m
    [] st.kind = "read" -> Len(xs) > Readable(st)
    [] st.kind = "readbuf" -> st.m <= 0 /\ Len(xs) >= Buffers(st)
    [] OTHER -> FALSE

\* A stage with nothing in it: it answers its first input with an exception.
Empty(st) == \/ st.kind = "take" /\ st.n = 0
             \/ st.kind = "cycle" /\ st.range = <<>>

\* Some stage is satisfied once the pipeline has been given xs.
Exhausted(stages, xs) ==
  \E k \in 1..Len(stages) :
    Satisfied(stages[k], Composed(SubSeq(stages, 1, k - 1), xs, FALSE))
=============================================================================

------------------------------- MODULE Stages -------------------------------
(***************************************************************************)
(* The transducers of src/zug/transducer/, one operator each, as what a    *)
(* single call of the reducing function they return does.                  *)
(*                                                                         *)
(* A transducer turns the reducing function `step` of the next stage into  *)
(* one of its own.  Called with a state and an item it (1) updates the     *)
(* layer of data that it wrapped around the state (wrap_state, state_data, *)
(* with_state, maybe_reduced) and (2) runs one or more reductions on       *)
(* `step`.  Step(st, l, x) gives both: the new layer, and `runs`, the      *)
(* reductions in the order in which the code starts them.  A reduction is  *)
(* the sequence of items it may feed: the first is fed unconditionally,    *)
(* and before each further one the loop asks state_is_reduced.  A plain    *)
(* call of `step` is a reduction of one item, skip() is no reduction.      *)
(*                                                                         *)
(* Data.  An item is the sequence of values that travel together: the      *)
(* arguments of one call, or the elements of a vector that is one          *)
(* argument.  Values are integers; functions and predicates given to the   *)
(* stages are "add n" and membership of the item's first value in a set.   *)
(***************************************************************************)
EXTENDS Integers, Sequences, FiniteSets

CONSTANT UnsignedMax   \* the largest value of an unsigned integral type

ASSUME UnsignedMaxAssumption == UnsignedMax \in Nat \ {0}

Item == Seq(Int)

Kinds == {"map", "filter", "sink", "cat", "interleave", "product", "repeat",
          "take", "take_while", "take_nth", "drop", "drop_while", "dedupe",
          "distinct", "interpose", "chainr", "chainl", "sorted", "reversed",
          "partition", "partition_by", "count", "enumerate", "scan", "iter",
          "cycle", "zip", "unzip", "random_sample", "replace", "replace_all",
          "replace_all_safe", "each", "read", "readbuf", "write", "writebuf"}

\* A stage and the values its closure captured: n is the number the stage was
\* given, m a second one (the delta of count, the take() around the function
\* of scan), pass the items its predicate accepts, range its range argument,
\* unsigned whether n has an unsigned type.  A table maps the keys in pass to
\* key + n; an engine lets the calls in pass through.  A stream has the tokens
\* or characters of range in it, of which those in pass are well formed.
Stage == [kind : Kinds, n : Int, m : Int, pass : SUBSET Int,
          range : Seq(Item), unsigned : BOOLEAN]

\* The layer a stage keeps around the state.  called is FALSE for a state that
\* has not been through the stage yet; the other fields are its data.  The
\* stages that act on a stream, a function or an engine of their own keep here
\* what is left in it (read, readbuf) or what it has been given so far.
Layer == [called : BOOLEAN, count : Int, flag : BOOLEAN,
          kept : Seq(Item), group : Item]

Fresh == [called |-> FALSE, count |-> 0, flag |-> FALSE,
          kept |-> <<>>, group |-> <<>>]

(***************************************************************************)
(* Auxiliary operators                                                     *)
(***************************************************************************)

\* What the predicates, mappings and comparisons of the model look at.
Key(x) == IF x = <<>> THEN 0 ELSE x[1]

Passes(st, x) == Key(x) \in st.pass

\* state_data(s, init): the data of a wrapped state, init() of a fresh one.
CountOr(l, init) == IF l.called THEN l.count ELSE init
KeptOr(l, init)  == IF l.called THEN l.kept ELSE init

\* Every call of a stage that keeps data leaves a wrapped state behind
\* (wrap_state); for the others called only says that the state went through.
Wrapped(l, runs) == [layer |-> [l EXCEPT !.called = TRUE], runs |-> runs]

Call(x) == << <<x>> >>   \* one plain call of the next step
Skip    == << >>         \* no call at all

\* count - 1 in the type of n.
Decrement(st, count) ==
  IF st.unsigned THEN (count - 1) % (UnsignedMax + 1) ELSE count - 1

Singles(x) == [i \in 1..Len(x) |-> <<x[i]>>]

(***************************************************************************)
(* A definition whose comment starts with "Mutant:" is not part of the     *)
(* model: it is a plausible bug in the definition that follows it, with    *)
(* which a property of a run must fail.                                    *)
(***************************************************************************)

(***************************************************************************)
(* Stages that keep no data around the state                               *)
(***************************************************************************)

StepMap(st, l, x) == Wrapped(l, Call(<<Key(x) + st.n>>))

StepFilter(st, l, x) == Wrapped(l, IF Passes(st, x) THEN Call(x) ELSE Skip)

\* sink gives its inputs to the action, which is remembered as for each, and then
\* excites the next step with none.
StepSink(st, l, x) == Wrapped([l EXCEPT !.kept = Append(@, x)], Call(<<>>))

\* cat reduces the range it is given on the next step (reduce_nested).
StepCat(st, l, x) == Wrapped(l, IF x = <<>> THEN Skip ELSE <<Singles(x)>>)

\* interleave feeds its arguments one by one, the first unconditionally.
StepInterleave(st, l, x) == Wrapped(l, <<Singles(x)>>)

\* Mutant: the combinations are fed without asking in between.
ProductUnasked(st, l, x) ==
  Wrapped(l, [i \in 1..Len(st.range) |-> <<x \o st.range[i]>>])

StepProduct(st, l, x) ==
  Wrapped(l, << [i \in 1..Len(st.range) |-> x \o st.range[i]] >>)

StepRepeat(st, l, x) == Wrapped(l, Call(Append(x, st.n)))

(***************************************************************************)
(* Stages that stop the reduction                                          *)
(***************************************************************************)

StepTake(st, l, x) ==
  Wrapped([l EXCEPT !.count = Decrement(st, CountOr(l, st.n))], Call(x))

\* Mutant: the mark is returned without a wrapper around the state.
TakeWhileBare(st, l, x) ==
  [layer |-> [l EXCEPT !.flag = ~Passes(st, x)],
   runs |-> IF Passes(st, x) THEN Call(x) ELSE Skip]

\* not_reduced() clears the mark that an earlier reduced() left.
StepTakeWhile(st, l, x) ==
  Wrapped([l EXCEPT !.flag = ~Passes(st, x)],
          IF Passes(st, x) THEN Call(x) ELSE Skip)

StepIter(st, l, x) ==
  LET rest == KeptOr(l, st.range) IN
  IF rest = <<>>
  THEN Wrapped([l EXCEPT !.kept = <<>>], Skip)
  ELSE Wrapped([l EXCEPT !.kept = Tail(rest)], Call(x \o Head(rest)))

\* m > 0: the function given to scan is itself limited by take(m), and the
\* outer reduction ends with it.
StepScan(st, l, x) ==
  LET acc  == CountOr(l, st.n) + Key(x)
      seen == Append(l.kept, x)
  IN  Wrapped([l EXCEPT !.count = acc, !.kept = seen,
                        !.flag = st.m > 0 /\ Len(seen) >= st.m],
              Call(<<acc>>))

(***************************************************************************)
(* Stages whose first call differs from the later ones, and counters       *)
(***************************************************************************)

\* Mutant: the count starts again from 0.
TakeNthFromZero(st, l, x) ==
  IF l.called /\ l.count # st.n
  THEN Wrapped([l EXCEPT !.count = @ + 1], Skip)
  ELSE Wrapped([l EXCEPT !.count = 0], Call(x))

StepTakeNth(st, l, x) ==
  IF l.called /\ l.count # st.n
  THEN Wrapped([l EXCEPT !.count = @ + 1], Skip)
  ELSE Wrapped([l EXCEPT !.count = 1], Call(x))

StepDrop(st, l, x) ==
  LET count == CountOr(l, st.n) IN
  IF count # 0
  THEN Wrapped([l EXCEPT !.count = Decrement(st, count)], Skip)
  ELSE Wrapped([l EXCEPT !.count = count], Call(x))

\* flag: an element that does not pass has been seen ("taking").
StepDropWhile(st, l, x) ==
  LET taking == l.flag \/ ~Passes(st, x) IN
  Wrapped([l EXCEPT !.flag = taking], IF taking THEN Call(x) ELSE Skip)

StepDedupe(st, l, x) ==
  IF l.called /\ l.kept = <<x>>
  THEN Wrapped(l, Skip)
  ELSE Wrapped([l EXCEPT !.kept = <<x>>], Call(x))

StepDistinct(st, l, x) ==
  IF \E i \in 1..Len(l.kept) : l.kept[i] = x
  THEN Wrapped(l, Skip)
  ELSE Wrapped([l EXCEPT !.kept = Append(@, x)], Call(x))

\* Mutant: the element follows the separator unasked.
InterposeUnasked(st, l, x) ==
  Wrapped(l, IF l.called THEN << << <<st.n>> >>, <<x>> >> ELSE Call(x))

\* From the second call on the separator goes first, and the element follows
\* only if the separator did not end the reduction.
StepInterpose(st, l, x) ==
  Wrapped(l, IF l.called THEN << << <<st.n>>, x >> >> ELSE Call(x))

\* Mutant: the incremented count is passed on.
CountPreincremented(st, l, x) ==
  LET count == CountOr(l, st.n) + st.m IN
  Wrapped([l EXCEPT !.count = count], Call(Append(x, count)))

StepCount(st, l, x) ==
  LET count == CountOr(l, st.n) IN
  Wrapped([l EXCEPT !.count = count + st.m], Call(Append(x, count)))

StepEnumerate(st, l, x) ==
  LET count == CountOr(l, st.n) IN
  Wrapped([l EXCEPT !.count = count + 1], Call(<<count>> \o x))

StepCycle(st, l, x) ==
  LET rest == KeptOr(l, st.range)
      from == IF rest = <<>> THEN st.range ELSE rest
  IN  Wrapped([l EXCEPT !.kept = Tail(from)], Call(x \o Head(from)))

(***************************************************************************)
(* Stages that hold items back or add some                                 *)
(***************************************************************************)

StepChainr(st, l, x) == Wrapped(l, Call(x))

\* The range is reduced first; the input follows whatever that did.
StepChainl(st, l, x) ==
  Wrapped(l, IF l.called \/ st.range = <<>>
             THEN Call(x) ELSE <<st.range, <<x>> >>)

StepEager(st, l, x) == Wrapped([l EXCEPT !.kept = Append(@, x)], Skip)

\* count is the number of elements in the vector being filled.
StepPartition(st, l, x) ==
  LET size  == CountOr(l, 0) + 1
      group == l.group \o x
  IN  IF size = st.n
      THEN Wrapped([l EXCEPT !.count = 0, !.group = <<>>], Call(group))
      ELSE Wrapped([l EXCEPT !.count = size, !.group = group], Skip)

\* Mutant: the new element is pushed before the finished group goes out.
PartitionByPushFirst(st, l, x) ==
  LET mapped   == Passes(st, x)
      complete == l.called /\ mapped # l.flag
      group    == l.group \o x
  IN  Wrapped([l EXCEPT !.flag = mapped,
                        !.group = IF complete THEN <<>> ELSE group],
              IF complete THEN Call(group) ELSE Skip)

\* flag is the mapping of the last element; the finished group goes out when
\* an element that starts the next one arrives.
StepPartitionBy(st, l, x) ==
  LET mapped   == Passes(st, x)
      complete == l.called /\ mapped # l.flag
  IN  Wrapped([l EXCEPT !.flag = mapped,
                        !.group = IF complete THEN x ELSE @ \o x],
              IF complete THEN Call(l.group) ELSE Skip)

(***************************************************************************)
(* Stages that repack, replace or drop what they are called with           *)
(***************************************************************************)

\* A tuple and a list of arguments are the same item: zip and unzip turn one
\* into the other.
StepRepack(st, l, x) == Wrapped(l, Call(x))

Found(st, x) == Key(x) \in st.pass

\* lookup_or_key: what is not in the table stays as it is.
StepReplace(st, l, x) ==
  Wrapped(l, IF Found(st, x) THEN Call(<<Key(x) + st.n>>) ELSE Call(x))

\* operator[] makes up a value for a key that is not in the table; at() throws
\* (Throws), so that replace_all_safe only gets here with a key that is.
StepReplaceAll(st, l, x) ==
  Wrapped(l, Call(<<IF Found(st, x) THEN Key(x) + st.n ELSE 0>>))

\* The engine decides, once for every call.  The code keeps it in the step, and
\* steps are copied: behind partition or in make_reductor, which go on with a copy
\* of it, the calls would not be counted as they are here.
StepRandomSample(st, l, x) ==
  LET call == l.count + 1 IN
  Wrapped([l EXCEPT !.count = call], IF call \in st.pass THEN Call(x) ELSE Skip)

(***************************************************************************)
(* Stages with an effect outside: an action, an input or output stream     *)
(***************************************************************************)

\* The action is called with the item before the next step is.
StepEach(st, l, x) == Wrapped([l EXCEPT !.kept = Append(@, x)], Call(x))

\* Of the next m tokens, those that are read before one is missing or malformed.
TokensRead(st, rest) ==
  Cardinality({k \in 1..st.m :
                 k <= Len(rest) /\ \A i \in 1..k : Passes(st, rest[i])})

\* Mutant: what could not be read goes along as 0.
ReadUnchecked(st, l, x) ==
  LET rest == KeptOr(l, st.range)
      k    == TokensRead(st, rest)
  IN  Wrapped([l EXCEPT !.kept = SubSeq(rest, k + 1, Len(rest)), !.flag = k # st.m],
              Call(x \o [i \in 1..st.m |-> IF i <= k THEN Key(rest[i]) ELSE 0]))

\* Mutant: eof() is asked instead of fail().
ReadUntilEof(st, l, x) ==
  LET rest == KeptOr(l, st.range)
      k    == TokensRead(st, rest)
      left == SubSeq(rest, k + 1, Len(rest))
  IN  IF k = st.m
      THEN Wrapped([l EXCEPT !.kept = left, !.flag = FALSE],
                   Call(x \o [i \in 1..k |-> Key(rest[i])]))
      ELSE Wrapped([l EXCEPT !.kept = left, !.flag = left = <<>>], Skip)

\* read<T1, ..., Tm>: one value of each type goes along with the input.  If one
\* cannot be read, those before it are lost and the stream stays as it is.
StepRead(st, l, x) ==
  LET rest == KeptOr(l, st.range)
      k    == TokensRead(st, rest)
      left == SubSeq(rest, k + 1, Len(rest))
  IN  IF k = st.m
      THEN Wrapped([l EXCEPT !.kept = left, !.flag = FALSE],
                   Call(x \o [i \in 1..k |-> Key(rest[i])]))
      ELSE Wrapped([l EXCEPT !.kept = left, !.flag = TRUE], Skip)

\* A buffer of up to n characters goes along, an empty one as well, and only
\* the end of the stream ends the reduction: m > 0 is a stream that has failed
\* in another way, and gives empty buffers for ever.
StepReadbuf(st, l, x) ==
  LET rest  == KeptOr(l, st.range)
      short == Len(rest) < st.n \/ st.n < 0   \* as an unsigned size
      got   == IF st.m > 0 THEN 0 ELSE IF short THEN Len(rest) ELSE st.n
  IN  Wrapped([l EXCEPT !.kept = SubSeq(rest, got + 1, Len(rest)),
                        !.flag = st.m <= 0 /\ short],
              Call(x \o [i \in 1..got |-> Key(rest[i])]))

\* The arguments of one input, with the separator m between them.
Arguments(st, x) ==
  [i \in 1..(IF x = <<>> THEN 0 ELSE 2 * Len(x) - 1) |->
     IF i % 2 = 0 THEN <<st.m>> ELSE <<x[(i + 1) \div 2]>>]

\* Mutant: the separator goes in front of an input even if it is the first.
WriteSeparatingAlways(st, l, x) ==
  Wrapped([l EXCEPT !.kept = @ \o << <<st.n>> >> \o Arguments(st, x)], Call(x))

\* The separator n is written from the second call on.
StepWrite(st, l, x) ==
  LET separator == IF l.called THEN << <<st.n>> >> ELSE <<>> IN
  Wrapped([l EXCEPT !.kept = @ \o separator \o Arguments(st, x)], Call(x))

StepWritebuf(st, l, x) ==
  Wrapped([l EXCEPT !.kept = @ \o Singles(x)], Call(x))

Step(st, l, x) ==
  CASE st.kind = "map"          -> StepMap(st, l, x)
    [] st.kind = "filter"       -> StepFilter(st, l, x)
    [] st.kind = "sink"         -> StepSink(st, l, x)
    [] st.kind = "cat"          -> StepCat(st, l, x)
    [] st.kind = "interleave"   -> StepInterleave(st, l, x)
    [] st.kind = "product"      -> StepProduct(st, l, x)
    [] st.kind = "repeat"       -> StepRepeat(st, l, x)
    [] st.kind = "take"         -> StepTake(st, l, x)
    [] st.kind = "take_while"   -> StepTakeWhile(st, l, x)
    [] st.kind = "take_nth"     -> StepTakeNth(st, l, x)
    [] st.kind = "drop"         -> StepDrop(st, l, x)
    [] st.kind = "drop_while"   -> StepDropWhile(st, l, x)
    [] st.kind = "dedupe"       -> StepDedupe(st, l, x)
    [] st.kind = "distinct"     -> StepDistinct(st, l, x)
    [] st.kind = "interpose"    -> StepInterpose(st, l, x)
    [] st.kind = "chainr"       -> StepChainr(st, l, x)
    [] st.kind = "chainl"       -> StepChainl(st, l, x)
    [] st.kind = "sorted"       -> StepEager(st, l, x)
    [] st.kind = "reversed"     -> StepEager(st, l, x)
    [] st.kind = "partition"    -> StepPartition(st, l, x)
    [] st.kind = "partition_by" -> StepPartitionBy(st, l, x)
    [] st.kind = "count"        -> StepCount(st, l, x)
    [] st.kind = "enumerate"    -> StepEnumerate(st, l, x)
    [] st.kind = "scan"         -> StepScan(st, l, x)
    [] st.kind = "iter"         -> StepIter(st, l, x)
    [] st.kind = "cycle"        -> StepCycle(st, l, x)
    [] st.kind \in {"zip", "unzip"} -> StepRepack(st, l, x)
    [] st.kind = "random_sample" -> StepRandomSample(st, l, x)
    [] st.kind = "replace"      -> StepReplace(st, l, x)
    [] st.kind \in {"replace_all", "replace_all_safe"} -> StepReplaceAll(st, l, x)
    [] st.kind = "each"         -> StepEach(st, l, x)
    [] st.kind = "read"         -> StepRead(st, l, x)
    [] st.kind = "readbuf"      -> StepReadbuf(st, l, x)
    [] st.kind = "write"        -> StepWrite(st, l, x)
    [] st.kind = "writebuf"     -> StepWritebuf(st, l, x)

(***************************************************************************)
(* state_is_reduced, exceptions and state_complete                         *)
(***************************************************************************)

\* The stages that end the reduction with a mark of their own (maybe_reduced).
Marking == {"take_while", "scan", "read", "readbuf"}

\* Mutant: take() is reduced one item too late.
TakeReducedLate(st, l) ==
  /\ l.called
  /\ \/ st.kind = "take" /\ l.count < 0
     \/ st.kind = "iter" /\ l.kept = <<>>
     \/ st.kind \in Marking /\ l.flag

\* Mutant: an exhausted iter() is not reduced.
IterNeverReduced(st, l) ==
  /\ l.called
  /\ \/ st.kind = "take" /\ l.count <= 0
     \/ st.kind \in Marking /\ l.flag

\* state_wrapper_data_is_reduced for the tags that define it, and the mark of
\* maybe_reduced.
DataIsReduced(st, l) ==
  /\ l.called
  /\ \/ st.kind = "take" /\ l.count <= 0
     \/ st.kind = "iter" /\ l.kept = <<>>
     \/ st.kind \in Marking /\ l.flag

\* Mutant: take(0) is let through.
ThrowsBelowZero(st, l) ==
  /\ ~l.called
  /\ \/ st.kind = "take" /\ st.n < 0
     \/ st.kind = "cycle" /\ st.range = <<>>

\* The stage throws empty_transducer_error while it builds its first data.
ThrowsFirst(st, l) ==
  /\ ~l.called
  /\ \/ st.kind = "take" /\ st.n <= 0
     \/ st.kind = "cycle" /\ st.range = <<>>

\* Any call of replace_all_safe may throw std::out_of_range.
Throws(st, l, x) ==
  ThrowsFirst(st, l) \/ (st.kind = "replace_all_safe" /\ ~Found(st, x))

\* take() calls the next step and builds its data in two arguments of one call
\* of wrap_state: the compiler chooses which happens first.
MayStepBeforeThrowing(st) == st.kind = "take"

\* The position of s[i] once s is sorted.
Rank(s, i) ==
  Cardinality({j \in 1..Len(s) : \/ Key(s[j]) < Key(s[i])
                                 \/ Key(s[j]) = Key(s[i]) /\ j <= i})

SortedItems(s) ==
  [r \in 1..Len(s) |-> s[CHOOSE i \in 1..Len(s) : Rank(s, i) = r]]

ReversedItems(s) == [i \in 1..Len(s) |-> s[Len(s) + 1 - i]]

\* What state_complete feeds to the next step before it completes the state
\* underneath: nothing for a state that never went through the stage.
Flush(st, l) ==
  CASE ~l.called -> <<>>
    [] l.called /\ st.kind = "chainr" -> st.range
    [] l.called /\ st.kind = "sorted" -> SortedItems(l.kept)
    [] l.called /\ st.kind = "reversed" -> ReversedItems(l.kept)
    [] l.called /\ st.kind \in {"partition", "partition_by"} ->
         IF l.group = <<>> THEN <<>> ELSE <<l.group>>
    [] OTHER -> <<>>

\* A stage that feeds the next one at a point where it does not ask whether
\* the state is reduced: chainr and partition_by when they complete, chainl after
\* the range that it prepends.
Insistent(st) == st.kind \in {"chainr", "chainl", "partition_by"}

\* A stage that may mark the state as reduced.
Stopper(st) == \/ st.kind \in {"take", "take_while", "iter", "read", "readbuf"}
               \/ st.kind = "scan" /\ st.m > 0

\* The stage leaves the state without a wrapper of its own.
Bare(st) == st.kind \in {"map", "filter", "sink", "cat", "interleave", "product",
                         "repeat", "zip", "unzip", "random_sample", "replace",
                         "replace_all", "replace_all_safe", "each", "writebuf"}

\* The data of the stage points to the step or the range in its own closure.
PointsToClosure(st) == st.kind \in {"chainr", "sorted", "reversed", "cycle", "iter"}

\* Such data that a move leaves behind: the addresses of members.  (Iterators
\* into a container move along with it.)
PointsToMember(st) == st.kind \in {"chainr", "sorted", "reversed"}

(***************************************************************************)
(* The transducers as the library's users write them                       *)
(***************************************************************************)

Plain(kind) == [kind |-> kind, n |-> 0, m |-> 0, pass |-> {},
                range |-> <<>>, unsigned |-> FALSE]

Counted(kind, n)     == [Plain(kind) EXCEPT !.n = n]
Predicated(kind, p)  == [Plain(kind) EXCEPT !.pass = p]
Ranged(kind, r)      == [Plain(kind) EXCEPT !.range = r]
take_unsigned(n)     == [Counted("take", n) EXCEPT !.unsigned = TRUE]
count(init, delta)   == [Counted("count", init) EXCEPT !.m = delta]
scan(init, bound)    == [Counted("scan", init) EXCEPT !.m = bound]

replacing(kind, keys, n) == [Predicated(kind, keys) EXCEPT !.n = n]
read(tokens, good, m)    == [Ranged("read", tokens) EXCEPT !.pass = good, !.m = m]
readbuf(text, size)      == [Ranged("readbuf", text) EXCEPT !.n = size]
readbuf_failed(size)     == [readbuf(<<>>, size) EXCEPT !.m = 1]
write(in_sep, arg_sep)   == [Counted("write", in_sep) EXCEPT !.m = arg_sep]

\* Transducers that the library composes out of others are pipelines.
mapcat(n)            == <<Plain("cat"), Counted("map", n)>>
map_indexed(n)       == <<count(0, 1), Counted("map", n)>>
repeatn(n, v)        == <<Counted("repeat", v), Counted("take", n)>>
remove(p, values)    == <<Predicated("filter", values \ p)>>

\* Integer division of C++ rounds towards zero.
Quotient(a, b) ==
  LET abs(i) == IF i < 0 THEN -i ELSE i
      q      == abs(a) \div abs(b)
  IN  IF (a < 0) # (b < 0) THEN -q ELSE q

\* range(start, stop, step): count() limited to a number of elements.
range(start, stop, step) ==
  LET length == Quotient(stop - start, step) IN
  <<count(start, step), Counted("take", IF length < 0 THEN 0 ELSE length)>>
=============================================================================

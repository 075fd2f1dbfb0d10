----------------------------- MODULE Catalogue ------------------------------
(***************************************************************************)
(* The transducers and inputs that TLC's runs choose from.                 *)
(***************************************************************************)
EXTENDS Streams

Scalars(s) == [i \in 1..Len(s) |-> <<s[i]>>]

(***************************************************************************)
(* The type of what travels between the stages, as the compiler checks it: *)
(* the number of scalar arguments, 10 more for a tuple of them, -1 for one *)
(* vector, and -3 for a view into the buffer of readbuf, which is gone     *)
(* with the next call; -2 does not compile.                                *)
(***************************************************************************)
Vector == -1
IllTyped == -2
View == -3

Arity == 0..9
Tuples == 10..19

OutType(st, t) ==
  LET k == st.kind IN
  CASE t = IllTyped -> IllTyped
    [] k \in {"partition", "partition_by"} /\ t = 1 -> Vector
    [] k \in {"sorted", "reversed", "interpose", "chainr", "chainl"} /\ t = 1 -> 1
    [] k = "cat" /\ t \in {Vector, View} -> 1
    [] k \in {"interleave", "map", "scan"} /\ t \in Arity \ {0} -> 1
    [] k = "map" /\ t \notin Arity -> 1
    [] k \in {"product", "repeat", "count", "enumerate", "iter", "cycle"}
         /\ t \in Arity -> t + 1
    [] k \in {"take_while", "filter", "drop_while", "random_sample"} /\ t # 0 -> t
    [] k = "dedupe" /\ t \notin {0, View} -> t
    [] k = "distinct" /\ t \in Arity \ {0} -> t
    [] k \in {"take", "take_nth", "drop", "each"} -> t
    [] k \in {"replace", "replace_all", "replace_all_safe"} /\ t = 1 -> 1
    [] k = "zip" /\ t \in Arity \ {0, 1} -> t + 10
    [] k = "unzip" /\ t \in Tuples -> t - 10
    [] k \in {"zip", "unzip"} /\ t = 1 -> 1
    [] k = "read" /\ t \in Arity -> t + st.m
    [] k = "readbuf" /\ t = 0 -> View
    [] k = "write" /\ t \in Arity -> t
    [] k = "writebuf" /\ t \in {Vector, View} -> t
    [] k = "sink" -> 0
    [] OTHER -> IllTyped

TypeAfter(stages, t) == FoldLeft(LAMBDA a, st : OutType(st, a), t, stages)

Tails == Scalars(<<3, 1>>)

Catalogue == {
  Counted("map", 1), Predicated("filter", {1, 3}), Plain("cat"),
  Plain("interleave"), Ranged("product", Tails), Counted("repeat", 3),
  Counted("take", 1), Counted("take", 2), take_unsigned(2),
  Predicated("take_while", {1, 3}), Counted("take_nth", 2), Counted("drop", 1),
  Predicated("drop_while", {1}), Plain("dedupe"), Plain("distinct"),
  Counted("interpose", 3), Ranged("chainr", Tails), Ranged("chainl", Tails),
  Plain("sorted"), Plain("reversed"), Counted("partition", 2),
  Predicated("partition_by", {1, 3}), count(0, 2), Plain("enumerate"),
  scan(0, 0), scan(0, 2), Ranged("iter", Tails), Ranged("cycle", Tails),
  Plain("sink")}

\* partition_by compiles with the reducing function behind it, and with no
\* further stage; partition with no stage that unwraps the state it gets, since
\* that may be a skip_state when partition completes.
Compiles(stages) ==
  \A i, j \in 1..Len(stages) :
    i < j =>
      /\ stages[i].kind # "partition_by"
      /\ stages[i].kind = "partition" =>
           \/ Bare(stages[j])
           \/ \E k \in (i + 1)..(j - 1) : stages[k].kind \in {"filter", "cat"}

WellTyped(stages, t) == TypeAfter(stages, t) # IllTyped /\ Compiles(stages)

Ranges(n, values) == UNION {[1..k -> {<<v>> : v \in values}] : k \in 0..n}
=============================================================================

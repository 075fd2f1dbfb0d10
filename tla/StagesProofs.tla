---------------------------- MODULE StagesProofs ----------------------------
(***************************************************************************)
(* Lemmas about the operators of Stages: what a call of a stage and its    *)
(* completion return, for every stage, layer and item.                     *)
(***************************************************************************)
EXTENDS Stages, FiniteSetTheorems, TLAPS

Ran == Seq(Seq(Item))

\* A result of Step: the layer of a called stage, and reductions of items.
Result(r) ==
  /\ r.layer \in Layer
  /\ r.layer.called
  /\ r.runs \in Ran

(***************************************************************************)
(* Sequences of items                                                      *)
(***************************************************************************)

\* One call, and no call, are sequences of reductions.
LEMMA CallType ==
  ASSUME NEW x \in Item
  PROVE  Call(x) \in Ran /\ Skip \in Ran
BY DEF Call, Skip, Ran

\* The single values of an item are items.
LEMMA SinglesType ==
  ASSUME NEW x \in Item
  PROVE  Singles(x) \in Seq(Item)
BY DEF Singles, Item

\* A wrapped layer with its reductions is a result.
LEMMA WrappedType ==
  ASSUME NEW l \in Layer, NEW runs \in Ran
  PROVE  Result(Wrapped(l, runs))
BY DEF Result, Wrapped, Layer

\* The first value of an item is an integer.
LEMMA KeyType ==
  ASSUME NEW x \in Item
  PROVE  Key(x) \in Int
BY DEF Key, Item

(***************************************************************************)
(* Sorting                                                                 *)
(***************************************************************************)

\* A sequence has as many positions as elements.
LEMMA PositionsFinite ==
  ASSUME NEW s \in Seq(Item)
  PROVE  /\ IsFiniteSet(1..Len(s))
         /\ Cardinality(1..Len(s)) = Len(s)
<1>1. /\ 1 \in Int /\ Len(s) \in Int /\ Len(s) \in Nat
  OBVIOUS
<1>2. Cardinality(1..Len(s)) = IF 1 > Len(s) THEN 0 ELSE Len(s) - 1 + 1
  BY ONLY <1>1, FS_Interval
<1>3. IsFiniteSet(1..Len(s))
  BY FS_Interval
<1> QED
  BY <1>1, <1>2, <1>3

\* A rank is a position.
LEMMA RankType ==
  ASSUME NEW s \in Seq(Item), NEW i \in 1..Len(s)
  PROVE  Rank(s, i) \in 1..Len(s)
<1> DEFINE upTo == {j \in 1..Len(s) : \/ Key(s[j]) < Key(s[i])
                                      \/ Key(s[j]) = Key(s[i]) /\ j <= i}
<1>1. /\ IsFiniteSet(1..Len(s))
      /\ Cardinality(1..Len(s)) = Len(s)
  BY PositionsFinite
<1>2. /\ IsFiniteSet(upTo)
      /\ Cardinality(upTo) <= Len(s)
  BY <1>1, FS_Subset
<1>3. upTo # {}
  OBVIOUS
<1>4. Cardinality(upTo) \in Nat \ {0}
  BY <1>2, <1>3, FS_CardinalityType, FS_EmptySet
<1> QED
  BY <1>2, <1>4 DEF Rank

\* Different positions have different ranks.
LEMMA RankInjective ==
  ASSUME NEW s \in Seq(Item), NEW i \in 1..Len(s), NEW k \in 1..Len(s),
         Rank(s, i) = Rank(s, k)
  PROVE  i = k
<1> DEFINE upTo(h) == {j \in 1..Len(s) : \/ Key(s[j]) < Key(s[h])
                                         \/ Key(s[j]) = Key(s[h]) /\ j <= h}
<1>1. \A h \in 1..Len(s) : Key(s[h]) \in Int
  BY KeyType
<1>2. IsFiniteSet(upTo(i)) /\ IsFiniteSet(upTo(k))
  <2>1. IsFiniteSet(1..Len(s))
    BY FS_Interval
  <2> QED
    BY <2>1, FS_Subset
<1>3. Cardinality(upTo(i)) = Cardinality(upTo(k))
  BY DEF Rank
<1>4. upTo(i) \subseteq upTo(k) \/ upTo(k) \subseteq upTo(i)
  BY <1>1
<1>5. upTo(i) = upTo(k)
  <2>1. CASE upTo(i) \subseteq upTo(k)
    BY <2>1, <1>2, <1>3, FS_Subset
  <2>2. CASE upTo(k) \subseteq upTo(i)
    BY <2>2, <1>2, <1>3, FS_Subset
  <2> QED
    BY <2>1, <2>2, <1>4
<1>6. i \in upTo(k) /\ k \in upTo(i)
  BY <1>1, <1>5
<1> QED
  BY <1>1, <1>6

\* Every rank is taken: sorting keeps the length and invents nothing.
LEMMA SortedItemsType ==
  ASSUME NEW s \in Seq(Item)
  PROVE  SortedItems(s) \in Seq(Item)
<1> DEFINE positions == 1..Len(s)
           rank == [i \in positions |-> Rank(s, i)]
<1>1. IsFiniteSet(positions)
  BY FS_Interval
<1>2. rank \in Injection(positions, positions)
  BY RankType, RankInjective DEF Injection, IsInjective
<1>3. rank \in Surjection(positions, positions)
  BY <1>1, <1>2, FS_Injection
<1>4. \A r \in positions : \E i \in positions : Rank(s, i) = r
  BY <1>3 DEF Surjection
<1>5. \A r \in positions :
        (CHOOSE i \in positions : Rank(s, i) = r) \in positions
  BY <1>4
<1> QED
  BY <1>5 DEF SortedItems

(***************************************************************************)
(* The call of a stage                                                     *)
(***************************************************************************)

\* The data of a wrapped state, or the initial data, has the type of both.
LEMMA DataType ==
  ASSUME NEW l \in Layer, NEW c \in Int, NEW kept \in Seq(Item)
  PROVE  CountOr(l, c) \in Int /\ KeptOr(l, kept) \in Seq(Item)
BY DEF CountOr, KeptOr, Layer

\* A count that goes down stays an integer, wrapped around or not.
LEMMA DecrementType ==
  ASSUME NEW st \in Stage, NEW c \in Int
  PROVE  Decrement(st, c) \in Int
BY UnsignedMaxAssumption DEF Decrement

\* One reduction is a sequence of reductions.
LEMMA OneRun ==
  ASSUME NEW run \in Seq(Item)
  PROVE  <<run>> \in Ran
BY DEF Ran

\* The items that the stages make out of their inputs and numbers.
LEMMA ConcatType ==
  ASSUME NEW x \in Item, NEW y \in Item
  PROVE  x \o y \in Item
BY DEF Item

LEMMA AppendType ==
  ASSUME NEW x \in Item, NEW v \in Int
  PROVE  Append(x, v) \in Item /\ <<v>> \o x \in Item
BY DEF Item

LEMMA SingleType ==
  ASSUME NEW v \in Int
  PROVE  <<v>> \in Item
BY DEF Item

LEMMA EmptyType ==
  <<>> \in Item /\ <<>> \in Seq(Item)
BY DEF Item

\* Updating the data of a layer gives a layer.
LEMMA SetCount ==
  ASSUME NEW l \in Layer, NEW c \in Int
  PROVE  [l EXCEPT !.count = c] \in Layer
BY DEF Layer

LEMMA SetFlag ==
  ASSUME NEW l \in Layer, NEW f \in BOOLEAN
  PROVE  [l EXCEPT !.flag = f] \in Layer
BY DEF Layer

LEMMA SetKept ==
  ASSUME NEW l \in Layer, NEW kept \in Seq(Item)
  PROVE  [l EXCEPT !.kept = kept] \in Layer
BY DEF Layer

LEMMA SetGroup ==
  ASSUME NEW l \in Layer, NEW c \in Int, NEW f \in BOOLEAN, NEW g \in Item
  PROVE  /\ [l EXCEPT !.count = c, !.group = g] \in Layer
         /\ [l EXCEPT !.flag = f, !.group = g] \in Layer
BY DEF Layer

\* The first values of the first items make an item, and the others are left.
LEMMA TakenType ==
  ASSUME NEW s \in Seq(Item), NEW k \in Nat, k <= Len(s)
  PROVE  /\ [i \in 1..k |-> Key(s[i])] \in Item
         /\ SubSeq(s, k + 1, Len(s)) \in Seq(Item)
<1>1. \A i \in 1..k : Key(s[i]) \in Int
  BY KeyType
<1>2. [i \in 1..k |-> Key(s[i])] \in Item
  BY <1>1 DEF Item
<1>3. SubSeq(s, k + 1, Len(s)) \in Seq(Item)
  OBVIOUS
<1> QED
  BY <1>2, <1>3

\* read() reads no more tokens than there are.
LEMMA TokensReadType ==
  ASSUME NEW st \in Stage, NEW rest \in Seq(Item)
  PROVE  TokensRead(st, rest) \in Nat /\ TokensRead(st, rest) <= Len(rest)
<1> DEFINE good == {k \in 1..st.m :
                      k <= Len(rest) /\ \A i \in 1..k : Passes(st, rest[i])}
<1>1. good \subseteq 1..Len(rest)
  <2>1. st.m \in Int /\ Len(rest) \in Nat
    BY DEF Stage
  <2> QED
    BY <2>1
<1>2. /\ IsFiniteSet(1..Len(rest))
      /\ Cardinality(1..Len(rest)) = Len(rest)
  BY PositionsFinite
<1> HIDE DEF good
<1>3. /\ IsFiniteSet(good)
      /\ Cardinality(good) <= Len(rest)
  BY <1>1, <1>2, FS_Subset
<1>4. Cardinality(good) \in Nat
  BY <1>3, FS_CardinalityType
<1> QED
  BY <1>3, <1>4 DEF TokensRead, good

\* The layer and the item of a stage that takes from an input stream.
LEMMA StreamLayer ==
  ASSUME NEW l \in Layer, NEW kept \in Seq(Item), NEW f \in BOOLEAN
  PROVE  [l EXCEPT !.kept = kept, !.flag = f] \in Layer
BY DEF Layer

\* What write() and writebuf() add to the text is items.
LEMMA ArgumentsType ==
  ASSUME NEW st \in Stage, NEW x \in Item
  PROVE  Arguments(st, x) \in Seq(Item)
<1> DEFINE size == IF x = <<>> THEN 0 ELSE 2 * Len(x) - 1
           piece(i) == IF i % 2 = 0 THEN <<st.m>> ELSE <<x[(i + 1) \div 2]>>
<1>1. size \in Nat
  BY DEF Item
<1>2. ASSUME NEW i \in 1..size
      PROVE  piece(i) \in Item
  <2>1. st.m \in Int
    BY DEF Stage
  <2>2. CASE i % 2 = 0
    BY <2>1, <2>2, SingleType
  <2>3. CASE i % 2 # 0
    <3>1. (i + 1) \div 2 \in 1..Len(x)
      BY <2>3, EmptyType DEF Item
    <3>2. x[(i + 1) \div 2] \in Int
      BY <3>1 DEF Item
    <3> QED
      BY <2>3, <3>2, SingleType
  <2> QED
    BY <2>2, <2>3
<1> HIDE DEF size, piece
<1>3. [i \in 1..size |-> piece(i)] \in Seq(Item)
  BY <1>1, <1>2
<1> QED
  BY <1>3 DEF Arguments, size, piece

\* A stage that is called with a layer and an item returns a layer that counts
\* as called, and reductions of items on the next stage.
LEMMA StepType ==
  ASSUME NEW st \in Stage, NEW l \in Layer, NEW x \in Item,
         st.kind = "cycle" => st.range # <<>>
  PROVE  Result(Step(st, l, x))
<1>0. /\ Call(x) \in Ran /\ Skip \in Ran
      /\ Key(x) \in Int
      /\ Passes(st, x) \in BOOLEAN
      /\ st.n \in Int /\ st.m \in Int /\ st.range \in Seq(Item)
      /\ CountOr(l, st.n) \in Int /\ CountOr(l, 0) \in Int
      /\ KeptOr(l, st.range) \in Seq(Item)
  <2>1. st.n \in Int /\ st.m \in Int /\ st.range \in Seq(Item) /\ 0 \in Int
    BY DEF Stage
  <2>2. CountOr(l, st.n) \in Int /\ KeptOr(l, st.range) \in Seq(Item)
    BY <2>1, DataType
  <2>3. CountOr(l, 0) \in Int
    BY DEF CountOr, Layer
  <2>4. Passes(st, x) \in BOOLEAN
    BY DEF Passes
  <2> QED
    BY <2>1, <2>2, <2>3, <2>4, CallType, KeyType
<1>1. Result(StepMap(st, l, x))
  <2>1. <<Key(x) + st.n>> \in Item
    <3>1. Key(x) + st.n \in Int
      BY <1>0
    <3> QED
      BY <3>1, SingleType
  <2> QED
    BY <2>1, CallType, WrappedType DEF StepMap
<1>2. Result(StepFilter(st, l, x)) /\ Result(StepChainr(st, l, x))
  BY <1>0, WrappedType DEF StepFilter, StepChainr
<1>3. Result(StepSink(st, l, x))
  <2>1. Call(<<>>) \in Ran
    BY EmptyType, CallType
  <2>2. [l EXCEPT !.kept = Append(l.kept, x)] \in Layer
    <3>1. Append(l.kept, x) \in Seq(Item)
      BY DEF Layer
    <3> QED
      BY <3>1, SetKept
  <2> QED
    BY <2>1, <2>2, WrappedType DEF StepSink
<1>4. Result(StepCat(st, l, x)) /\ Result(StepInterleave(st, l, x))
  <2>1. <<Singles(x)>> \in Ran
    BY SinglesType, OneRun
  <2> QED
    BY <1>0, <2>1, WrappedType DEF StepCat, StepInterleave
<1>5. Result(StepProduct(st, l, x))
  <2>1. \A i \in 1..Len(st.range) : x \o st.range[i] \in Item
    <3>1. ASSUME NEW i \in 1..Len(st.range)
          PROVE  x \o st.range[i] \in Item
      <4>1. st.range[i] \in Item
        BY <1>0
      <4> QED
        BY <4>1, ConcatType
    <3> QED
      BY <3>1
  <2>2. [i \in 1..Len(st.range) |-> x \o st.range[i]] \in Seq(Item)
    BY <1>0, <2>1
  <2> QED
    BY <2>2, OneRun, WrappedType DEF StepProduct
<1>6. Result(StepRepeat(st, l, x))
  <2>1. Append(x, st.n) \in Item
    BY <1>0, AppendType
  <2> QED
    BY <2>1, CallType, WrappedType DEF StepRepeat
<1>7. Result(StepTake(st, l, x))
  <2>1. Decrement(st, CountOr(l, st.n)) \in Int
    BY <1>0, DecrementType
  <2>2. [l EXCEPT !.count = Decrement(st, CountOr(l, st.n))] \in Layer
    BY <2>1, SetCount
  <2> QED
    BY <1>0, <2>2, WrappedType DEF StepTake
<1>8. Result(StepTakeWhile(st, l, x)) /\ Result(StepDropWhile(st, l, x))
  <2>1. \A f \in BOOLEAN : [l EXCEPT !.flag = f] \in Layer
    BY SetFlag
  <2>2. (l.flag \/ ~Passes(st, x)) \in BOOLEAN /\ (~Passes(st, x)) \in BOOLEAN
    OBVIOUS
  <2>3. Result(StepTakeWhile(st, l, x))
    BY <1>0, <2>1, <2>2, WrappedType DEF StepTakeWhile
  <2>4. Result(StepDropWhile(st, l, x))
    BY <1>0, <2>1, <2>2, WrappedType DEF StepDropWhile
  <2> QED
    BY <2>3, <2>4
<1>9. Result(StepIter(st, l, x))
  <2> DEFINE rest == KeptOr(l, st.range)
  <2>1. [l EXCEPT !.kept = <<>>] \in Layer
    BY EmptyType, SetKept
  <2>2. CASE rest = <<>>
    BY <1>0, <2>1, <2>2, WrappedType DEF StepIter
  <2>3. CASE rest # <<>>
    <3>1. Head(rest) \in Item /\ Tail(rest) \in Seq(Item)
      BY <1>0, <2>3
    <3>2. x \o Head(rest) \in Item
      BY <3>1, ConcatType
    <3>3. [l EXCEPT !.kept = Tail(rest)] \in Layer
      BY <3>1, SetKept
    <3> QED
      BY <2>3, <3>2, <3>3, CallType, WrappedType DEF StepIter
  <2> QED
    BY <2>2, <2>3
<1>10. Result(StepScan(st, l, x))
  <2> DEFINE acc  == CountOr(l, st.n) + Key(x)
             seen == Append(l.kept, x)
             over == st.m > 0 /\ Len(seen) >= st.m
  <2>1. acc \in Int /\ seen \in Seq(Item) /\ over \in BOOLEAN
    BY <1>0 DEF Layer
  <2>2. [l EXCEPT !.count = acc, !.kept = seen, !.flag = over] \in Layer
    BY <2>1 DEF Layer
  <2>3. <<acc>> \in Item
    BY <2>1, SingleType
  <2> HIDE DEF acc, seen, over
  <2>4. Result(Wrapped([l EXCEPT !.count = acc, !.kept = seen, !.flag = over],
                       Call(<<acc>>)))
    BY <2>2, <2>3, CallType, WrappedType
  <2> QED
    BY <2>4 DEF StepScan, acc, seen, over
<1>11. Result(StepTakeNth(st, l, x))
  <2>1. [l EXCEPT !.count = l.count + 1] \in Layer /\ [l EXCEPT !.count = 1] \in Layer
    <3>1. l.count + 1 \in Int /\ 1 \in Int
      BY DEF Layer
    <3> QED
      BY <3>1, SetCount
  <2> QED
    BY <1>0, <2>1, WrappedType DEF StepTakeNth
<1>12. Result(StepDrop(st, l, x))
  <2>1. Decrement(st, CountOr(l, st.n)) \in Int
    BY <1>0, DecrementType
  <2>2. /\ [l EXCEPT !.count = Decrement(st, CountOr(l, st.n))] \in Layer
        /\ [l EXCEPT !.count = CountOr(l, st.n)] \in Layer
    BY <1>0, <2>1, SetCount
  <2> QED
    BY <1>0, <2>2, WrappedType DEF StepDrop
<1>13. Result(StepDedupe(st, l, x)) /\ Result(StepDistinct(st, l, x))
  <2>1. /\ [l EXCEPT !.kept = <<x>>] \in Layer
        /\ [l EXCEPT !.kept = Append(l.kept, x)] \in Layer
    <3>1. <<x>> \in Seq(Item) /\ Append(l.kept, x) \in Seq(Item)
      BY DEF Layer
    <3> QED
      BY <3>1, SetKept
  <2> QED
    BY <1>0, <2>1, WrappedType DEF StepDedupe, StepDistinct
<1>14. Result(StepInterpose(st, l, x))
  <2>1. <<st.n>> \in Item
    BY <1>0, SingleType
  <2>2. << <<st.n>>, x >> \in Seq(Item)
    BY <2>1
  <2> QED
    BY <1>0, <2>2, OneRun, WrappedType DEF StepInterpose
<1>15. Result(StepCount(st, l, x)) /\ Result(StepEnumerate(st, l, x))
  <2>1. /\ [l EXCEPT !.count = CountOr(l, st.n) + st.m] \in Layer
        /\ [l EXCEPT !.count = CountOr(l, st.n) + 1] \in Layer
    <3>1. CountOr(l, st.n) + st.m \in Int /\ CountOr(l, st.n) + 1 \in Int
      BY <1>0
    <3> QED
      BY <3>1, SetCount
  <2>2. /\ Append(x, CountOr(l, st.n)) \in Item
        /\ <<CountOr(l, st.n)>> \o x \in Item
    BY <1>0, AppendType
  <2> QED
    BY <2>1, <2>2, CallType, WrappedType DEF StepCount, StepEnumerate
<1>16. st.kind = "cycle" => Result(StepCycle(st, l, x))
  <2> DEFINE rest == KeptOr(l, st.range)
             from == IF rest = <<>> THEN st.range ELSE rest
  <2> HAVE st.kind = "cycle"
  <2>1. from \in Seq(Item) /\ from # <<>>
    BY <1>0
  <2>2. Head(from) \in Item /\ Tail(from) \in Seq(Item)
    BY <2>1
  <2>3. x \o Head(from) \in Item
    BY <2>2, ConcatType
  <2>4. [l EXCEPT !.kept = Tail(from)] \in Layer
    BY <2>2, SetKept
  <2> QED
    BY <2>3, <2>4, CallType, WrappedType DEF StepCycle
<1>17. Result(StepChainl(st, l, x))
  <2>1. <<st.range, <<x>> >> \in Ran
    BY <1>0 DEF Ran
  <2> QED
    BY <1>0, <2>1, WrappedType DEF StepChainl
<1>18. Result(StepEager(st, l, x))
  <2>1. [l EXCEPT !.kept = Append(l.kept, x)] \in Layer
    <3>1. Append(l.kept, x) \in Seq(Item)
      BY DEF Layer
    <3> QED
      BY <3>1, SetKept
  <2> QED
    BY <1>0, <2>1, WrappedType DEF StepEager
<1>19. Result(StepPartition(st, l, x)) /\ Result(StepPartitionBy(st, l, x))
  <2>1. l.group \in Item /\ l.group \o x \in Item
    <3>1. l.group \in Item
      BY DEF Layer
    <3> QED
      BY <3>1, ConcatType
  <2>2. /\ Call(l.group) \in Ran
        /\ Call(l.group \o x) \in Ran
    BY <2>1, CallType
  <2>3. Result(StepPartition(st, l, x))
    <3>1. /\ [l EXCEPT !.count = 0, !.group = <<>>] \in Layer
          /\ [l EXCEPT !.count = CountOr(l, 0) + 1, !.group = l.group \o x]
               \in Layer
      <4>1. 0 \in Int /\ CountOr(l, 0) + 1 \in Int
        BY <1>0
      <4> QED
        BY <2>1, <4>1, EmptyType, SetGroup
    <3> QED
      BY <1>0, <2>2, <3>1, WrappedType DEF StepPartition
  <2>4. Result(StepPartitionBy(st, l, x))
    <3>1. /\ [l EXCEPT !.flag = Passes(st, x), !.group = x] \in Layer
          /\ [l EXCEPT !.flag = Passes(st, x), !.group = l.group \o x] \in Layer
      BY <1>0, <2>1, SetGroup
    <3> QED
      BY <1>0, <2>2, <3>1, WrappedType DEF StepPartitionBy
  <2> QED
    BY <2>3, <2>4
<1>20. Result(StepRepack(st, l, x))
  BY <1>0, WrappedType DEF StepRepack
<1>21. Result(StepReplace(st, l, x)) /\ Result(StepReplaceAll(st, l, x))
  <2>1. Key(x) + st.n \in Int /\ 0 \in Int
    BY <1>0
  <2>2. <<Key(x) + st.n>> \in Item /\ <<0>> \in Item
    BY <2>1, SingleType
  <2>3. Call(<<Key(x) + st.n>>) \in Ran /\ Call(<<0>>) \in Ran
    BY <2>2, CallType
  <2>4. Result(StepReplace(st, l, x))
    BY <1>0, <2>3, WrappedType DEF StepReplace
  <2>5. <<IF Found(st, x) THEN Key(x) + st.n ELSE 0>> \in Item
    BY <2>2
  <2>6. Call(<<IF Found(st, x) THEN Key(x) + st.n ELSE 0>>) \in Ran
    BY <2>5, CallType
  <2> QED
    BY <2>4, <2>6, WrappedType DEF StepReplaceAll
<1>22. Result(StepRandomSample(st, l, x))
  <2>1. [l EXCEPT !.count = l.count + 1] \in Layer
    <3>1. l.count + 1 \in Int
      BY DEF Layer
    <3> QED
      BY <3>1, SetCount
  <2> QED
    BY <1>0, <2>1, WrappedType DEF StepRandomSample
<1>23. Result(StepEach(st, l, x))
  <2>1. [l EXCEPT !.kept = Append(l.kept, x)] \in Layer
    <3>1. Append(l.kept, x) \in Seq(Item)
      BY DEF Layer
    <3> QED
      BY <3>1, SetKept
  <2> QED
    BY <1>0, <2>1, WrappedType DEF StepEach
<1>24. Result(StepRead(st, l, x))
  <2> DEFINE rest == KeptOr(l, st.range)
             k    == TokensRead(st, rest)
             left == SubSeq(rest, k + 1, Len(rest))
             item == [i \in 1..k |-> Key(rest[i])]
  <2>1. k \in Nat /\ k <= Len(rest)
    BY <1>0, TokensReadType
  <2>2. item \in Item /\ left \in Seq(Item)
    <3> HIDE DEF k
    <3> QED
      BY <1>0, <2>1, TakenType
  <2> HIDE DEF left, item
  <2>3. Call(x \o item) \in Ran
    <3>1. x \o item \in Item
      BY <2>2, ConcatType
    <3> QED
      BY <3>1, CallType
  <2>4. /\ [l EXCEPT !.kept = left, !.flag = FALSE] \in Layer
        /\ [l EXCEPT !.kept = left, !.flag = TRUE] \in Layer
    BY <2>2, StreamLayer
  <2>5. /\ Result(Wrapped([l EXCEPT !.kept = left, !.flag = FALSE], Call(x \o item)))
        /\ Result(Wrapped([l EXCEPT !.kept = left, !.flag = TRUE], Skip))
    BY <1>0, <2>3, <2>4, WrappedType
  <2> QED
    BY <2>5 DEF StepRead, left, item
<1>25. Result(StepReadbuf(st, l, x))
  <2> DEFINE rest  == KeptOr(l, st.range)
             short == Len(rest) < st.n \/ st.n < 0
             got   == IF st.m > 0 THEN 0 ELSE IF short THEN Len(rest) ELSE st.n
             left  == SubSeq(rest, got + 1, Len(rest))
             item  == [i \in 1..got |-> Key(rest[i])]
             over  == st.m <= 0 /\ short
  <2>1. got \in Nat /\ got <= Len(rest) /\ over \in BOOLEAN
    BY <1>0
  <2>2. item \in Item /\ left \in Seq(Item)
    <3> HIDE DEF got
    <3> QED
      BY <1>0, <2>1, TakenType
  <2> HIDE DEF left, item, over
  <2>3. x \o item \in Item
    BY <2>2, ConcatType
  <2>4. [l EXCEPT !.kept = left, !.flag = over] \in Layer
    BY <2>1, <2>2, StreamLayer
  <2>5. Result(Wrapped([l EXCEPT !.kept = left, !.flag = over], Call(x \o item)))
    BY <2>3, <2>4, CallType, WrappedType
  <2> QED
    BY <2>5 DEF StepReadbuf, left, item, over
<1>26. Result(StepWrite(st, l, x)) /\ Result(StepWritebuf(st, l, x))
  <2>1. l.kept \in Seq(Item)
    BY DEF Layer
  <2>2. <<st.n>> \in Item
    BY <1>0, SingleType
  <2>3. \A sep \in {<< <<st.n>> >>, <<>>} :
          [l EXCEPT !.kept = l.kept \o sep \o Arguments(st, x)] \in Layer
    <3>1. ASSUME NEW sep \in {<< <<st.n>> >>, <<>>}
          PROVE  l.kept \o sep \o Arguments(st, x) \in Seq(Item)
      <4>1. << <<st.n>> >> \in Seq(Item)
        BY <2>2
      <4>2. sep \in Seq(Item)
        BY <4>1, EmptyType
      <4>3. Arguments(st, x) \in Seq(Item)
        BY ArgumentsType
      <4> QED
        BY <2>1, <4>2, <4>3
    <3> QED
      BY <3>1, SetKept
  <2>4. [l EXCEPT !.kept = l.kept \o Singles(x)] \in Layer
    <3>1. l.kept \o Singles(x) \in Seq(Item)
      BY <2>1, SinglesType
    <3> QED
      BY <3>1, SetKept
  <2> QED
    BY <1>0, <2>3, <2>4, WrappedType DEF StepWrite, StepWritebuf
<1> QED
  <2>1. st.kind \in Kinds
    BY DEF Stage
  <2> QED
    BY <1>1, <1>2, <1>3, <1>4, <1>5, <1>6, <1>7, <1>8, <1>9, <1>10, <1>11,
       <1>12, <1>13, <1>14, <1>15, <1>16, <1>17, <1>18, <1>19, <1>20, <1>21,
       <1>22, <1>23, <1>24, <1>25, <1>26, <2>1
       DEF Step, Kinds

\* What a completion feeds to the next stage is a sequence of items.
LEMMA FlushType ==
  ASSUME NEW st \in Stage, NEW l \in Layer
  PROVE  Flush(st, l) \in Seq(Item)
<1>1. /\ st.range \in Seq(Item) /\ l.group \in Item
      /\ SortedItems(l.kept) \in Seq(Item)
  BY SortedItemsType DEF Stage, Layer
<1>2. ReversedItems(l.kept) \in Seq(Item)
  <2>1. l.kept \in Seq(Item)
    BY DEF Layer
  <2> QED
    BY <2>1 DEF ReversedItems
<1> QED
  BY <1>1, <1>2 DEF Flush
=============================================================================

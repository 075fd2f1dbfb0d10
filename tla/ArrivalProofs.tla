--------------------------- MODULE ArrivalProofs ----------------------------
(***************************************************************************)
(* What arrives at every stage: facts about Stagewise's After, EndsFrom    *)
(* and Arriving, and the account of a pipeline in the middle of its nested *)
(* calls that connects what the stages have been called with so far, what  *)
(* their layers remember of it, and what they will be called with.  It is  *)
(* kept by every step, whatever drives the pipeline.                       *)
(***************************************************************************)
EXTENDS StagewiseProofs

(***************************************************************************)
(* With which layer a sequence leaves a stage                              *)
(***************************************************************************)

\* After is a function of the items and the layer that satisfies its definition.
LEMMA AfterDef ==
  ASSUME NEW st \in Stage
  PROVE  /\ After(st) \in [Seq(Item) -> [Possible(st) -> Possible(st)]]
         /\ \A xs \in Seq(Item), l \in Possible(st) :
              After(st)[xs][l] =
                IF xs = <<>> \/ DataIsReduced(st, l) \/ Throws(st, l, Head(xs))
                THEN l
                ELSE After(st)[Tail(xs)][Step(st, l, Head(xs)).layer]
<1> DEFINE S == [Possible(st) -> Possible(st)]
           body(xs, l, left) ==
             IF xs = <<>> \/ DataIsReduced(st, l) \/ Throws(st, l, Head(xs))
             THEN l
             ELSE left[Tail(xs)][Step(st, l, Head(xs)).layer]
           more(x, m) ==
             [l \in Possible(st) |->
                IF DataIsReduced(st, l) \/ Throws(st, l, x)
                THEN l
                ELSE m[Step(st, l, x).layer]]
           start == [l \in Possible(st) |-> l]
           h == [p \in Item \X S |-> more(p[1], p[2])]
<1>1. start \in S
  OBVIOUS
<1>2. ASSUME NEW x \in Item, NEW m \in S
      PROVE  more(x, m) \in S
  <2> SUFFICES ASSUME NEW l \in Possible(st), ~Throws(st, l, x)
               PROVE  m[Step(st, l, x).layer] \in Possible(st)
    OBVIOUS
  <2>1. Step(st, l, x).layer \in Possible(st)
    BY CallPossible
  <2> QED
    BY <2>1
<1>3. h \in [Item \X S -> S]
  <2> HIDE DEF S, more
  <2> QED
    BY <1>2
<1>4. \A x \in Item, m \in S : h[<<x, m>>] = more(x, m)
  <2> HIDE DEF S, more
  <2> QED
    OBVIOUS
<1>5. PICK f \in [Seq(Item) -> S] : Unfolds(f, Item, start, h)
  <2> HIDE DEF S, start, h
  <2> QED
    BY <1>1, <1>3, SequenceRecursion, Zenon
<1>6. \A xs \in Seq(Item) : f[xs] = [l \in Possible(st) |-> body(xs, l, f)]
  <2> SUFFICES ASSUME NEW xs \in Seq(Item)
               PROVE  f[xs] = [l \in Possible(st) |-> body(xs, l, f)]
    OBVIOUS
  <2>1. CASE xs = <<>>
    <3>1. f[xs] = start
      BY <1>5, <2>1 DEF Unfolds
    <3> QED
      BY <2>1, <3>1
  <2>2. CASE xs # <<>>
    <3>1. Head(xs) \in Item /\ Tail(xs) \in Seq(Item)
      BY <2>2
    <3>2. f[Tail(xs)] \in S
      BY <3>1
    <3>3. f[xs] = more(Head(xs), f[Tail(xs)])
      <4> HIDE DEF S, more, h
      <4> QED
        BY <1>4, <1>5, <2>2, <3>1, <3>2 DEF Unfolds
    <3> QED
      BY <2>2, <3>3
  <2> QED
    BY <2>1, <2>2
<1> DEFINE Is(g) == g = [xs \in Seq(Item) |-> [l \in Possible(st) |-> body(xs, l, g)]]
<1>7. Is(f)
  <2>1. f = [xs \in Seq(Item) |-> f[xs]]
    OBVIOUS
  <2> HIDE DEF S, body
  <2> QED
    BY <1>6, <2>1
<1>8. Is(After(st))
  <2>1. After(st) = CHOOSE g : Is(g)
    BY DEF After
  <2> HIDE DEF Is
  <2> QED
    BY <1>7, <2>1
<1> DEFINE g == After(st)
<1> HIDE DEF g
<1>9. \A xs \in Seq(Item) : g[xs] = [l \in Possible(st) |-> body(xs, l, g)]
  <2> HIDE DEF body
  <2> QED
    BY <1>8 DEF g
<1>10. \A xs \in Seq(Item) : g[xs] \in S
  <2> DEFINE T == {xs \in Seq(Item) : g[xs] \in S}
  <2>1. <<>> \in T
    <3>1. g[<<>>] = start
      <4>1. <<>> \in Seq(Item)
        OBVIOUS
      <4>2. g[<<>>] = [l \in Possible(st) |-> body(<<>>, l, g)]
        <5> HIDE DEF body
        <5> QED
          BY <1>9, <4>1
      <4> QED
        BY <4>2
    <3> HIDE DEF start, S
    <3> QED
      BY <1>1, <3>1
  <2>2. ASSUME NEW xs \in Seq(Item), xs # <<>>, Tail(xs) \in T
        PROVE  xs \in T
    <3>1. Head(xs) \in Item /\ g[Tail(xs)] \in S
      BY <2>2
    <3>2. g[xs] = more(Head(xs), g[Tail(xs)])
      BY <1>9, <2>2
    <3> HIDE DEF more, S
    <3> QED
      BY <1>2, <3>1, <3>2
  <2>3. Seq(Item) \subseteq T
    <3> HIDE DEF T
    <3> QED
      BY <2>1, <2>2, SequenceInduction
  <2> QED
    BY <2>3
<1>11. g \in [Seq(Item) -> S]
  <2>1. g = [xs \in Seq(Item) |-> [l \in Possible(st) |-> body(xs, l, g)]]
    BY <1>8 DEF g
  <2> HIDE DEF S, body
  <2> QED
    BY <1>10, <2>1
<1>12. \A xs \in Seq(Item), l \in Possible(st) : g[xs][l] = body(xs, l, g)
  <2> HIDE DEF body
  <2> QED
    BY <1>9
<1> QED
  BY <1>11, <1>12 DEF g

\* The first of the items is the next call ...
LEMMA AfterCall ==
  ASSUME NEW st \in Stage, NEW l \in Possible(st),
         NEW x \in Item, NEW xs \in Seq(Item),
         ~DataIsReduced(st, l), ~Throws(st, l, x)
  PROVE  After(st)[<<x>> \o xs][l] = After(st)[xs][Step(st, l, x).layer]
<1> DEFINE ys == <<x>> \o xs
<1>1. ys \in Seq(Item) /\ ys # <<>> /\ Head(ys) = x /\ Tail(ys) = xs
  BY Prepended
<1> HIDE DEF ys
<1>2. After(st)[ys][l] = After(st)[xs][Step(st, l, x).layer]
  BY <1>1, AfterDef
<1> QED
  BY <1>2 DEF ys

\* ... unless there is none, or the stage has ended the reduction.
LEMMA AfterNothing ==
  ASSUME NEW st \in Stage, NEW l \in Possible(st),
         NEW xs \in Seq(Item), xs = <<>> \/ DataIsReduced(st, l)
  PROVE  After(st)[xs][l] = l
BY AfterDef

(***************************************************************************)
(* Which stages will end the reduction                                     *)
(***************************************************************************)

\* What will go into the stages from lo on when the first of them is called with
\* the items xs: what waits for each, and then what the one before makes.
Flow(stages, lo, layers, stk, xs) ==
  LET ys[k \in 0..Len(stages)] ==
        IF k < lo
        THEN xs
        ELSE Queued(k + 1)[stk] \o Makes(stages[k], FALSE)[ys[k - 1]][layers[k]]
  IN  ys

\* What the definition says of ys.
Flows(ys, stages, lo, layers, stk, xs) ==
  /\ ys \in [0..Len(stages) -> Seq(Item)]
  /\ ys[lo - 1] = xs
  /\ \A k \in lo..Len(stages) :
       ys[k] = Queued(k + 1)[stk] \o Makes(stages[k], FALSE)[ys[k - 1]][layers[k]]

LEMMA FlowDef ==
  ASSUME NEW stages \in Seq(Stage), NEW layers, Able(stages, layers),
         NEW lo \in 1..(Len(stages) + 1), NEW stk \in Seq(Frame), NEW xs \in Seq(Item)
  PROVE  Flows(Flow(stages, lo, layers, stk, xs), stages, lo, layers, stk, xs)
<1> DEFINE m == Len(stages)
           S == Seq(Item)
           next(k, ys) == Queued(k + 1)[stk] \o Makes(stages[k], FALSE)[ys][layers[k]]
           h == [p \in S \X (1..m) |-> IF p[2] < lo THEN xs ELSE next(p[2], p[1])]
           Is(g) == g = [k \in 0..m |-> IF k < lo THEN xs ELSE next(k, g[k - 1])]
<1>1. ASSUME NEW k \in 1..m, NEW ys \in S
      PROVE  next(k, ys) \in S
  <2>1. stages[k] \in Stage /\ layers[k] \in Possible(stages[k])
    BY DEF Able
  <2>2. PICK made \in Seq(Item) : made = Makes(stages[k], FALSE)[ys][layers[k]]
    BY <2>1, MakesType
  <2>3. PICK queued \in Seq(Item) : queued = Queued(k + 1)[stk]
    BY QueuedType
  <2>4. queued \o made \in Seq(Item)
    OBVIOUS
  <2> QED
    BY <2>2, <2>3, <2>4
<1>2. m \in Nat /\ lo \in 1..(m + 1) /\ xs \in S
  OBVIOUS
<1> HIDE DEF S, next, m
<1>3. h \in [S \X (1..m) -> S]
  BY <1>1, <1>2
<1>4. \A k \in 1..m, ys \in S : h[<<ys, k>>] = IF k < lo THEN xs ELSE next(k, ys)
  OBVIOUS
<1> HIDE DEF h
<1>5. PICK f \in [0..m -> S] : Defined(f, m, xs, h)
  BY <1>2, <1>3, Recursion
<1>6. Is(f)
  <2>1. \A k \in 0..m : (k = 0 => k < lo) /\ (k # 0 => k \in 1..m /\ k - 1 \in 0..m)
    BY <1>2
  <2>2. \A k \in 0..m : f[k] = IF k < lo THEN xs ELSE next(k, f[k - 1])
    BY <1>4, <1>5, <2>1 DEF Defined
  <2>3. f = [k \in 0..m |-> f[k]]
    OBVIOUS
  <2> QED
    BY <2>2, <2>3
<1>7. Is(Flow(stages, lo, layers, stk, xs))
  <2>1. Flow(stages, lo, layers, stk, xs) = CHOOSE g : Is(g)
    BY DEF Flow, next, m
  <2> HIDE DEF Is
  <2> QED
    BY <1>6, <2>1
<1> DEFINE g == Flow(stages, lo, layers, stk, xs)
<1> HIDE DEF g
<1>8. \A k \in 0..m : g[k] = IF k < lo THEN xs ELSE next(k, g[k - 1])
  BY <1>7 DEF g
<1>9. \A k \in 0..m : g[k] \in S
  <2>1. \A k \in 1..m : g[k - 1] \in S => g[k] = h[<<g[k - 1], k>>]
    <3>1. \A k \in 1..m : k \in 0..m
      BY <1>2
    <3> QED
      BY <1>4, <1>8, <3>1
  <2>2. g[0] = xs
    <3>1. 0 \in 0..m /\ 0 < lo
      BY <1>2
    <3> QED
      BY <1>8, <3>1
  <2> QED
    BY <1>2, <1>3, <2>1, <2>2, RecursionType
<1>10. g \in [0..m -> S]
  BY <1>7, <1>9 DEF g
<1>11. g[lo - 1] = xs /\ \A k \in lo..m : g[k] = next(k, g[k - 1])
  <2>1. lo - 1 \in 0..m /\ lo - 1 < lo /\ \A k \in lo..m : k \in 0..m /\ ~(k < lo)
    BY <1>2
  <2> QED
    BY <1>8, <2>1
<1> QED
  BY <1>10, <1>11 DEF g, next, m, S, Flows

\* Two flows are the same from one stage on, if they are there and nothing differs
\* further on.
LEMMA FlowsSame ==
  ASSUME NEW f, NEW g, NEW stages \in Seq(Stage), NEW lo \in Nat, NEW o \in Nat, lo - 1 <= o,
         NEW layers, NEW layers2, NEW stk, NEW stk2, NEW xs, NEW xs2,
         Flows(f, stages, lo, layers, stk, xs),
         Flows(g, stages, lo, layers2, stk2, xs2), f[o] = g[o],
         NEW hi, hi <= Len(stages), hi \in Int,
         SameBetween(o, hi, layers, stk, {}, layers2, stk2, {})
  PROVE  SameFrom(f, g, o, hi)
<1> SUFFICES ASSUME NEW m \in o..hi
             PROVE  f[m] = g[m]
  BY DEF SameFrom
<1>1. Alike(f, g, o, m)
  <2> SUFFICES ASSUME NEW k \in (o + 1)..m, f[k - 1] = g[k - 1]
               PROVE  f[k] = g[k]
    BY DEF Alike
  <2>1. k \in lo..Len(stages) /\ k \in (o + 1)..hi
    OBVIOUS
  <2>2. layers[k] = layers2[k] /\ Queued(k + 1)[stk] = Queued(k + 1)[stk2]
    BY <2>1 DEF SameBetween
  <2> QED
    BY <2>1, <2>2 DEF Flows
<1>2. m \in Nat /\ o <= m
  OBVIOUS
<1> QED
  BY <1>1, <1>2, SameCourse

\* One of the stages from lo on will end the reduction.
WillEnd(stages, lo, layers, stk, xs) ==
  \E i \in lo..Len(stages) :
    DataIsReduced(stages[i],
                  After(stages[i])[Flow(stages, lo, layers, stk, xs)[i - 1]][layers[i]])

\* The layers differ only before lo, and what waits only before lo + 1 and for the
\* reducing function.
SameBehind(stages, lo, layers, stk, layers2, stk2) ==
  /\ \A k \in lo..Len(stages) : layers[k] = layers2[k]
  /\ \A k \in (lo + 1)..Len(stages) : Queued(k)[stk] = Queued(k)[stk2]

\* What changes before stage lo changes nothing of that.
LEMMA WillEndSame ==
  ASSUME NEW stages \in Seq(Stage), NEW layers, Able(stages, layers),
         NEW layers2, Able(stages, layers2),
         NEW lo \in 1..(Len(stages) + 1), NEW stk \in Seq(Frame), NEW stk2 \in Seq(Frame),
         NEW xs \in Seq(Item), SameBehind(stages, lo, layers, stk, layers2, stk2)
  PROVE  WillEnd(stages, lo, layers, stk, xs) <=> WillEnd(stages, lo, layers2, stk2, xs)
<1> DEFINE f == Flow(stages, lo, layers, stk, xs)
           g == Flow(stages, lo, layers2, stk2, xs)
<1>1. Flows(f, stages, lo, layers, stk, xs) /\ Flows(g, stages, lo, layers2, stk2, xs)
  BY FlowDef
<1> SUFFICES \A i \in lo..Len(stages) : f[i - 1] = g[i - 1] /\ layers[i] = layers2[i]
  BY DEF WillEnd
<1> HIDE DEF f, g
<1>2. PICK o \in Nat, hi \in Int : o = lo - 1 /\ hi = Len(stages) - 1
  <2>1. Len(stages) \in Nat
    BY LenType
  <2>2. lo - 1 \in Nat /\ Len(stages) - 1 \in Int
    BY ONLY <2>1, lo \in 1..(Len(stages) + 1)
  <2> QED
    BY ONLY <2>2
<1>3. SameFrom(f, g, o, hi)
  <2>1. f[o] = g[o]
    BY <1>1, <1>2 DEF Flows
  <2>2. SameBetween(o, hi, layers, stk, {}, layers2, stk2, {})
    <3>1. \A k \in (o + 1)..hi : k \in lo..Len(stages) /\ k + 1 \in (lo + 1)..Len(stages)
      BY <1>2
    <3> QED
      BY <3>1 DEF SameBetween, SameBehind
  <2>3. lo \in Nat /\ lo - 1 <= o /\ hi <= Len(stages)
    BY <1>2
  <2> QED
    BY <1>1, <2>1, <2>2, <2>3, FlowsSame
<1>4. \A i \in lo..Len(stages) : i - 1 \in o..hi
  BY <1>2
<1> QED
  BY <1>3, <1>4 DEF SameFrom, SameBehind

\* A stage that has ended the reduction needs no more items to do so.
LEMMA WillEndReduced ==
  ASSUME NEW stages \in Seq(Stage), NEW layers, Able(stages, layers),
         NEW lo \in 1..(Len(stages) + 1), NEW stk \in Seq(Frame), NEW xs \in Seq(Item),
         NEW j \in lo..Len(stages), DataIsReduced(stages[j], layers[j])
  PROVE  WillEnd(stages, lo, layers, stk, xs)
<1>1. Flows(Flow(stages, lo, layers, stk, xs), stages, lo, layers, stk, xs)
  BY FlowDef
<1>2. j \in 1..Len(stages) /\ j - 1 \in 0..Len(stages)
  OBVIOUS
<1>3. PICK ys \in Seq(Item) : ys = Flow(stages, lo, layers, stk, xs)[j - 1]
  BY <1>1, <1>2 DEF Flows
<1>4. stages[j] \in Stage /\ layers[j] \in Possible(stages[j])
  BY <1>2 DEF Able
<1>5. After(stages[j])[ys][layers[j]] = layers[j]
  BY <1>4, AfterNothing
<1> QED
  BY <1>3, <1>5 DEF WillEnd

\* None does if nothing goes in and nothing waits behind the first of them, unless
\* it already has.
LEMMA WillEndOfNothing ==
  ASSUME NEW stages \in Seq(Stage), NEW layers, Able(stages, layers),
         NEW lo \in 1..(Len(stages) + 1), NEW stk \in Seq(Frame),
         \A k \in (lo + 1)..Len(stages) : Queued(k)[stk] = <<>>,
         WillEnd(stages, lo, layers, stk, <<>>)
  PROVE  \E j \in lo..Len(stages) : DataIsReduced(stages[j], layers[j])
<1> DEFINE f == Flow(stages, lo, layers, stk, <<>>)
           g == [i \in 0..Len(stages) |-> <<>>]
<1>1. <<>> \in Seq(Item)
  OBVIOUS
<1>2. Flows(f, stages, lo, layers, stk, <<>>)
  BY <1>1, FlowDef
<1>3. PICK i \in lo..Len(stages) : DataIsReduced(stages[i], After(stages[i])[f[i - 1]][layers[i]])
  BY DEF WillEnd
<1> HIDE DEF f
<1>4. PICK o \in Nat, m \in Nat : o = lo - 1 /\ m = i - 1 /\ o <= m
  <2>1. Len(stages) \in Nat
    BY LenType
  <2>2. lo - 1 \in Nat /\ i - 1 \in Nat /\ lo - 1 <= i - 1
    BY ONLY <2>1, lo \in 1..(Len(stages) + 1), i \in lo..Len(stages)
  <2> QED
    BY ONLY <2>2
<1>5. Alike(f, g, o, m)
  <2> SUFFICES ASSUME NEW k \in (o + 1)..m, f[k - 1] = g[k - 1]
               PROVE  f[k] = g[k]
    BY DEF Alike
  <2>1. /\ k \in lo..Len(stages) /\ k \in 1..Len(stages) /\ k + 1 \in (lo + 1)..Len(stages)
        /\ k \in 0..Len(stages) /\ k - 1 \in 0..Len(stages)
    BY <1>4
  <2>2. f[k - 1] = <<>>
    BY <2>1
  <2>3. stages[k] \in Stage /\ layers[k] \in Possible(stages[k])
    BY <2>1 DEF Able
  <2>4. Makes(stages[k], FALSE)[<<>>][layers[k]] = <<>>
    BY <2>3, MakesOfNothing
  <2>5. f[k] = <<>> \o <<>>
    BY <1>2, <2>1, <2>2, <2>4 DEF Flows
  <2> QED
    BY <2>1, <2>5
<1>6. f[m] = g[m]
  <2>1. f[o] = g[o]
    BY <1>2, <1>4 DEF Flows
  <2>2. o <= m
    BY <1>4
  <2>3. PICK c, d : c = f /\ d = g
    OBVIOUS
  <2>4. Alike(c, d, o, m) /\ c[o] = d[o]
    BY <1>5, <2>1, <2>3, Zenon
  <2>5. c[m] = d[m]
    BY ONLY <2>2, <2>4, o \in Nat, m \in Nat, SameCourse
  <2> QED
    BY <2>3, <2>5, Zenon
<1>7. f[i - 1] = <<>>
  BY <1>4, <1>6
<1>8. stages[i] \in Stage /\ layers[i] \in Possible(stages[i])
  <2>1. i \in 1..Len(stages)
    OBVIOUS
  <2> QED
    BY <2>1 DEF Able
<1>9. After(stages[i])[<<>>][layers[i]] = layers[i]
  BY <1>1, <1>8, AfterNothing
<1> QED
  BY <1>3, <1>7, <1>9

\* The items ys, and x again if it was taken by stage lo.
WithTaken(lo, k, x, ys) == IF lo = k THEN <<x>> \o ys ELSE ys

\* A call of a stage changes nothing of that: what it takes goes in no longer.
LEMMA WillEndCalled ==
  ASSUME NEW stages \in Seq(Stage), NEW k \in 1..Len(stages), NEW x \in Item, NEW runs,
         NEW layers, NEW layers2, Called(stages, k, x, layers, layers2, runs),
         NEW stk \in Seq(Frame), NEW stk2 \in Seq(Frame),
         Advances(stk, stk2, k, x, Issued(runs)),
         NEW lo \in 1..k, NEW xs \in Seq(Item), NEW xs2 \in Seq(Item),
         xs = WithTaken(lo, k, x, xs2)
  PROVE  WillEnd(stages, lo, layers, stk, xs) <=> WillEnd(stages, lo, layers2, stk2, xs2)
<1> DEFINE f == Flow(stages, lo, layers, stk, xs)
           g == Flow(stages, lo, layers2, stk2, xs2)
           left(i) == After(stages[i])[f[i - 1]][layers[i]]
           left2(i) == After(stages[i])[g[i - 1]][layers2[i]]
<1>1. /\ Able(stages, layers) /\ Able(stages, layers2)
      /\ ~DataIsReduced(stages[k], layers[k]) /\ ~Throws(stages[k], layers[k], x)
      /\ runs = Step(stages[k], layers[k], x).runs
      /\ layers2[k] = Step(stages[k], layers[k], x).layer
      /\ \A i \in 1..Len(stages) : i # k => layers2[i] = layers[i]
  BY DEF Called
<1>2. /\ Queued(k)[stk] = <<x>> \o Queued(k)[stk2]
      /\ Queued(k + 1)[stk] = <<>> /\ Queued(k + 1)[stk2] = Issued(runs)
      /\ \A at \in Nat : (at # k /\ at # k + 1) => Queued(at)[stk] = Queued(at)[stk2]
  BY DEF Advances
<1>3. Flows(f, stages, lo, layers, stk, xs) /\ Flows(g, stages, lo, layers2, stk2, xs2)
  <2>1. lo \in 1..(Len(stages) + 1)
    OBVIOUS
  <2> QED
    BY <1>1, <2>1, FlowDef
<1> SUFFICES \A i \in lo..Len(stages) : left(i) = left2(i)
  BY Zenon DEF WillEnd
<1> HIDE DEF f, g
<1>4. k \in 1..Len(stages) /\ lo \in 1..k /\ Len(stages) \in Nat
  OBVIOUS
<1>5. ASSUME lo # k
      PROVE  SameFrom(f, g, lo - 1, k - 2)
  <2>1. PICK o \in Nat, hi \in Int : o = lo - 1 /\ hi = k - 2 /\ lo - 1 <= o /\ hi <= Len(stages)
    <3>1. lo - 1 \in Nat /\ k - 2 \in Int /\ lo - 1 <= lo - 1 /\ k - 2 <= Len(stages)
      BY ONLY <1>4
    <3> QED
      BY ONLY <3>1
  <2>2. f[o] = g[o] /\ lo \in Nat
    BY <1>3, <1>4, <1>5, <2>1 DEF Flows, WithTaken
  <2>3. SameBetween(o, hi, layers, stk, {}, layers2, stk2, {})
    <3>1. \A i \in (o + 1)..hi : /\ i \in 1..Len(stages) /\ i # k
                                 /\ i + 1 \in Nat /\ i + 1 # k /\ i + 1 # k + 1
      BY <1>4, <2>1
    <3> QED
      BY <1>1, <1>2, <3>1 DEF SameBetween
  <2>4. SameFrom(f, g, o, hi)
    BY <1>3, <2>1, <2>2, <2>3, FlowsSame
  <2> QED
    BY <2>1, <2>4
<1>6. g[k - 1] \in Seq(Item) /\ f[k - 1] = <<x>> \o g[k - 1]
  <2>1. g[k - 1] \in Seq(Item)
    <3>1. k - 1 \in 0..Len(stages)
      BY <1>4
    <3> QED
      BY <1>3, <3>1 DEF Flows
  <2>2. CASE lo = k
    BY <1>3, <2>1, <2>2 DEF Flows, WithTaken
  <2>3. CASE lo # k
    <3>1. PICK j \in lo..(k - 1) : j = k - 1 /\ j + 1 = k /\ j - 1 = k - 2
      BY <1>4, <2>3
    <3>2. /\ j - 1 \in 0..Len(stages) /\ j \in 1..Len(stages) /\ j # k /\ j \in lo..Len(stages)
          /\ j - 1 \in (lo - 1)..(k - 2)
      BY <1>4, <3>1
    <3>3. f[j - 1] = g[j - 1]
      BY <1>5, <2>3, <3>2 DEF SameFrom
    <3>4. PICK made \in Seq(Item) : made = Makes(stages[j], FALSE)[f[j - 1]][layers[j]]
      <4>1. stages[j] \in Stage /\ layers[j] \in Possible(stages[j])
        BY <1>1, <3>2 DEF Able
      <4>2. f[j - 1] \in Seq(Item)
        BY <1>3, <3>2 DEF Flows
      <4> QED
        BY <4>1, <4>2, MakesType
    <3>5. /\ f[j] = Queued(j + 1)[stk] \o made
          /\ g[j] = Queued(j + 1)[stk2] \o made
      BY <1>1, <1>3, <3>2, <3>3, <3>4 DEF Flows
    <3>6. PICK queued \in Seq(Item) : queued = Queued(k)[stk2]
      BY QueuedType
    <3>7. (<<x>> \o queued) \o made = <<x>> \o (queued \o made)
      <4>1. <<x>> \in Seq(Item)
        OBVIOUS
      <4> QED
        BY <4>1, Associative, SMTT(30)
    <3>8. f[j] = <<x>> \o g[j]
      BY <1>2, <3>1, <3>5, <3>6, <3>7, Zenon
    <3> QED
      BY <2>1, <3>1, <3>8
  <2> QED
    BY <2>2, <2>3
<1>7. PICK st \in Stage, l \in Possible(stages[k]), ys \in Seq(Item) :
        st = stages[k] /\ l = layers[k] /\ ys = g[k - 1] /\ l \in Possible(st)
  BY <1>1, <1>6 DEF Able
<1>8. ~DataIsReduced(st, l) /\ ~Throws(st, l, x) /\ f[k - 1] = <<x>> \o ys
  BY <1>1, <1>6, <1>7, Zenon
<1>9. left(k) = left2(k)
  <2>1. After(st)[<<x>> \o ys][l] = After(st)[ys][Step(st, l, x).layer]
    BY <1>7, <1>8, AfterCall
  <2> QED
    BY <1>1, <1>7, <1>8, <2>1, Zenon
<1>10. SameFrom(f, g, k, Len(stages))
  <2>1. Makes(st, FALSE)[<<x>> \o ys][l] =
          Issued(Step(st, l, x).runs) \o Makes(st, FALSE)[ys][Step(st, l, x).layer]
    BY <1>7, <1>8, MakesCall, ZenonT(40)
  <2>2. k \in lo..Len(stages) /\ k \in Nat /\ lo \in Nat /\ lo - 1 <= k
    BY <1>4
  <2>3. /\ f[k] = Queued(k + 1)[stk] \o Makes(stages[k], FALSE)[f[k - 1]][layers[k]]
        /\ g[k] = Queued(k + 1)[stk2] \o Makes(stages[k], FALSE)[g[k - 1]][layers2[k]]
    BY <1>3, <2>2 DEF Flows
  <2>4. f[k] = <<>> \o g[k]
    BY <1>1, <1>2, <1>7, <1>8, <2>1, <2>3, Zenon
  <2>5. f[k] = g[k]
    <3>1. k \in 0..Len(stages)
      BY <1>4
    <3>2. g[k] \in Seq(Item)
      BY <1>3, <3>1 DEF Flows
    <3> QED
      BY <2>4, <3>2, NoItems, Zenon
  <2>6. SameBetween(k, Len(stages), layers, stk, {}, layers2, stk2, {})
    <3>1. \A i \in (k + 1)..Len(stages) : /\ i \in 1..Len(stages) /\ i # k
                                          /\ i + 1 \in Nat /\ i + 1 # k /\ i + 1 # k + 1
      BY <1>4
    <3> QED
      BY <1>1, <1>2, <3>1 DEF SameBetween
  <2>7. Len(stages) <= Len(stages) /\ Len(stages) \in Int
    BY <1>4
  <2> QED
    BY <1>3, <2>2, <2>5, <2>6, <2>7, FlowsSame
<1>11. ASSUME NEW i \in lo..Len(stages), i # k
       PROVE  left(i) = left2(i)
  <2>1. i \in 1..Len(stages)
    BY <1>4
  <2>2. f[i - 1] = g[i - 1]
    <3>1. CASE i < k
      <4>1. lo # k /\ i - 1 \in (lo - 1)..(k - 2)
        BY <1>4, <3>1
      <4> QED
        BY <1>5, <4>1 DEF SameFrom
    <3>2. CASE i > k
      <4>1. i - 1 \in k..Len(stages)
        BY <1>4, <3>2
      <4> QED
        BY <1>10, <4>1 DEF SameFrom
    <3> QED
      BY <1>4, <1>11, <3>1, <3>2
  <2> QED
    BY <1>1, <1>11, <2>1, <2>2
<1> QED
  BY <1>9, <1>11

\* Before any call this is what EndsFrom says.
LEMMA EndsFromFlow ==
  ASSUME NEW stages \in Seq(Stage), NEW lo \in 1..(Len(stages) + 1), NEW xs \in Seq(Item),
         NEW layers, \A k \in 1..Len(stages) : layers[k] = Fresh
  PROVE  EndsFrom(stages, lo, xs) <=> WillEnd(stages, lo, layers, <<>>, xs)
<1> DEFINE m == Len(stages)
           f == Flow(stages, lo, layers, <<>>, xs)
           next(k, ys) == Makes(stages[k], FALSE)[ys][Fresh]
           Is(g) == g = [k \in 0..m |-> IF k < lo THEN xs ELSE next(k, g[k - 1])]
           first == [k \in 0..m |-> IF k < lo THEN xs ELSE f[k]]
           o == Onwards(stages, lo, xs)
<1>1. Able(stages, layers)
  BY FreshPossible DEF Able
<1>2. m \in Nat /\ <<>> \in Seq(Frame) /\ lo \in 1..(m + 1)
  OBVIOUS
<1>3. Flows(f, stages, lo, layers, <<>>, xs)
  BY <1>1, <1>2, FlowDef
<1> HIDE DEF f
<1>4. f[lo - 1] = xs /\ f \in [0..m -> Seq(Item)]
  BY <1>3 DEF Flows
<1>5. ASSUME NEW k \in lo..m
      PROVE  f[k] = next(k, f[k - 1])
  <2>1. k \in 1..m /\ k - 1 \in 0..m
    BY <1>2
  <2>2. stages[k] \in Stage /\ layers[k] = Fresh /\ Fresh \in Possible(stages[k])
    BY <2>1, FreshPossible
  <2>3. f[k - 1] \in Seq(Item)
    BY <1>4, <2>1
  <2>4. next(k, f[k - 1]) \in Seq(Item)
    BY <2>2, <2>3, MakesType
  <2>5. Queued(k + 1)[<<>>] = <<>>
    BY QueuedEmpty
  <2>6. f[k] = <<>> \o next(k, f[k - 1])
    BY <1>3, <2>2, <2>5 DEF Flows
  <2> HIDE DEF next
  <2> QED
    BY <2>4, <2>6
<1> HIDE DEF next, m
<1>6. Is(first)
  <2>1. ASSUME NEW k \in 0..m
        PROVE  first[k] = IF k < lo THEN xs ELSE next(k, first[k - 1])
    <3>1. CASE k < lo
      BY <3>1
    <3>2. CASE ~(k < lo)
      <4>1. k \in lo..m /\ k - 1 \in 0..m /\ (k - 1 < lo <=> k - 1 = lo - 1)
        BY <1>2, <3>2
      <4>2. first[k - 1] = f[k - 1]
        BY <1>4, <4>1
      <4> QED
        BY <1>5, <3>2, <4>1, <4>2
    <3> QED
      BY <3>1, <3>2
  <2>2. first = [k \in 0..m |-> first[k]]
    OBVIOUS
  <2> HIDE DEF first
  <2> QED
    BY <2>1, <2>2
<1>7. Is(o)
  <2>1. o = CHOOSE g : Is(g)
    BY DEF Onwards, next, m
  <2> HIDE DEF Is, o
  <2> QED
    BY <1>6, <2>1
<1> HIDE DEF o
<1>8. o[lo - 1] = xs /\ \A k \in lo..m : o[k] = next(k, o[k - 1])
  <2>1. lo - 1 \in 0..m /\ lo - 1 < lo /\ \A k \in lo..m : k \in 0..m /\ ~(k < lo)
    BY <1>2
  <2> QED
    BY <1>7, <2>1
<1>9. ASSUME NEW i \in lo..m
      PROVE  f[i - 1] = o[i - 1] /\ layers[i] = Fresh
  <2>1. PICK a \in Nat, b \in Nat : a = lo - 1 /\ b = i - 1 /\ a <= b /\ b <= m
    <3>1. lo - 1 \in Nat /\ i - 1 \in Nat /\ lo - 1 <= i - 1 /\ i - 1 <= m
      BY <1>2
    <3> QED
      BY ONLY <3>1
  <2>2. Alike(f, o, a, b)
    <3> SUFFICES ASSUME NEW k \in (a + 1)..b, f[k - 1] = o[k - 1]
                 PROVE  f[k] = o[k]
      BY DEF Alike
    <3>1. k \in lo..m
      BY <1>2, <2>1
    <3> QED
      BY <1>5, <1>8, <3>1
  <2>3. f[a] = o[a]
    BY <1>4, <1>8, <2>1
  <2>4. f[b] = o[b]
    BY <2>1, <2>2, <2>3, SameCourse
  <2>5. i \in 1..Len(stages)
    BY <1>2 DEF m
  <2> QED
    BY <2>1, <2>4, <2>5
<1> QED
  BY <1>9 DEF EndsFrom, WillEnd, f, o, m

(***************************************************************************)
(* What arrives at every stage                                             *)
(***************************************************************************)

\* No stage from k on has ended the reduction before the last of the items xs.
Unended(stages, k, xs) ==
  \A n \in 0..(Len(xs) - 1) : ~EndsFrom(stages, k, SubSeq(xs, 1, n))

\* A stage that has been called with the items xs has the layer l, and has refused
\* none of them.
Remembers(st, l, xs) ==
  /\ \A i \in 1..Len(xs) : ~Throws(st, Fresh, xs[i])
  /\ \A ys \in Seq(Item) : After(st)[xs \o ys][Fresh] = After(st)[ys][l]

\* Once stage k has been called with xs, the stages from k on will end the
\* reduction exactly if they end it in these calls and those that follow.
Foresees(stages, k, layers, stk, xs) ==
  \A ys \in Seq(Item) :
    EndsFrom(stages, k, xs \o ys) <=> WillEnd(stages, k, layers, stk, ys)

\* After xs the stage will get the rest of all, or the reduction is over for it.
Gets(stages, k, xs, all, coming) ==
  \/ all = xs \o coming
  \/ EndsFrom(stages, k, xs) /\ \E zs \in Seq(Item) : all = xs \o zs

\* given[k] is what stage k has been called with, of all[k - 1], which would go into
\* it in the end; the stages before `from` are completed.
Account(given, stages, layers, stk, all, coming, from) ==
  /\ given \in [1..(Len(stages) + 1) -> Seq(Item)]
  /\ \A k \in 1..(Len(stages) + 1) : /\ Unended(stages, k, given[k])
                                     /\ Gets(stages, k, given[k], all[k - 1], coming[k - 1])
  /\ \A k \in 1..Len(stages) : Remembers(stages[k], layers[k], given[k])
  /\ \A k \in from..(Len(stages) + 1) : Foresees(stages, k, layers, stk, given[k])

\* Whether a stage refuses an item does not depend on its calls before.
LEMMA ThrowsFresh ==
  ASSUME NEW st \in Stage, NEW l \in Possible(st), NEW x
  PROVE  Throws(st, l, x) <=> Throws(st, Fresh, x)
<1>1. l.called \in BOOLEAN /\ ~Fresh.called
  BY DEF Possible, Layer, Fresh
<1>2. l.called => ~ThrowsFirst(st, Fresh)
  BY DEF Possible
<1> QED
  BY <1>1, <1>2 DEF Throws, ThrowsFirst

LEMMA PrefixOfJoined ==
  ASSUME NEW xs \in Seq(Item), NEW ys \in Seq(Item), NEW n \in 0..Len(xs)
  PROVE  SubSeq(xs \o ys, 1, n) = SubSeq(xs, 1, n)
OBVIOUS

LEMMA PrefixOfItself ==
  ASSUME NEW xs \in Seq(Item)
  PROVE  SubSeq(xs, 1, Len(xs)) = xs
OBVIOUS

\* One more item.
LEMMA UnendedMore ==
  ASSUME NEW stages, NEW k, NEW xs \in Seq(Item), NEW x \in Item,
         Unended(stages, k, xs), ~EndsFrom(stages, k, xs)
  PROVE  Unended(stages, k, xs \o <<x>>)
<1> SUFFICES ASSUME NEW n \in 0..(Len(xs \o <<x>>) - 1)
             PROVE  ~EndsFrom(stages, k, SubSeq(xs \o <<x>>, 1, n))
  BY DEF Unended
<1>1. n \in 0..Len(xs) /\ <<x>> \in Seq(Item)
  OBVIOUS
<1>2. SubSeq(xs \o <<x>>, 1, n) = SubSeq(xs, 1, n)
  BY <1>1, PrefixOfJoined
<1>3. CASE n = Len(xs)
  BY <1>2, <1>3, PrefixOfItself
<1>4. CASE n # Len(xs)
  <2>1. n \in 0..(Len(xs) - 1)
    BY <1>1, <1>4
  <2> QED
    BY <1>2, <2>1 DEF Unended
<1> QED
  BY <1>3, <1>4

LEMMA RemembersMore ==
  ASSUME NEW st \in Stage, NEW l \in Possible(st), NEW xs \in Seq(Item), NEW x \in Item,
         Remembers(st, l, xs), ~DataIsReduced(st, l), ~Throws(st, l, x)
  PROVE  Remembers(st, Step(st, l, x).layer, xs \o <<x>>)
<1>1. <<x>> \in Seq(Item)
  OBVIOUS
<1>2. ASSUME NEW i \in 1..Len(xs \o <<x>>)
      PROVE  ~Throws(st, Fresh, (xs \o <<x>>)[i])
  <2>1. CASE i \in 1..Len(xs)
    <3>1. (xs \o <<x>>)[i] = xs[i]
      BY <2>1
    <3> QED
      BY <2>1, <3>1 DEF Remembers
  <2>2. CASE i \notin 1..Len(xs)
    <3>1. (xs \o <<x>>)[i] = x
      BY <2>2
    <3> QED
      BY <3>1, ThrowsFresh
  <2> QED
    BY <2>1, <2>2
<1>3. ASSUME NEW ys \in Seq(Item)
      PROVE  After(st)[(xs \o <<x>>) \o ys][Fresh] = After(st)[ys][Step(st, l, x).layer]
  <2>1. (xs \o <<x>>) \o ys = xs \o (<<x>> \o ys)
    BY <1>1, Associative
  <2>2. PICK zs \in Seq(Item) : zs = <<x>> \o ys
    <3>1. <<x>> \o ys \in Seq(Item)
      BY <1>1
    <3> QED
      BY <3>1, Zenon
  <2>3. After(st)[xs \o zs][Fresh] = After(st)[zs][l]
    BY DEF Remembers
  <2>4. After(st)[<<x>> \o ys][l] = After(st)[ys][Step(st, l, x).layer]
    BY AfterCall
  <2> QED
    BY <2>1, <2>2, <2>3, <2>4, Zenon
<1> QED
  BY <1>2, <1>3 DEF Remembers

\* How the stages at and before k see one more call of stage k.
ForeseenAt(stages, lo, k, x, layers, stk, layers2, stk2) ==
  \A ys \in Seq(Item) :
    WillEnd(stages, lo, layers, stk, WithTaken(lo, k, x, ys))
      <=> WillEnd(stages, lo, layers2, stk2, ys)

\* A stage is called, or (k = Len(stages) + 1) the reducing function.
LEMMA AccountTaken ==
  ASSUME NEW stages \in Seq(Stage), NEW layers, NEW layers2, Able(stages, layers),
         NEW stk, NEW stk2, NEW all, NEW coming, NEW coming2, NEW given, NEW from \in Nat \ {0},
         Account(given, stages, layers, stk, all, coming, from),
         NEW k \in from..(Len(stages) + 1), k \in 1..(Len(stages) + 1), NEW x \in Item,
         coming2 \in [0..Len(stages) -> Seq(Item)],
         HeadTaken(coming, coming2, k, x, Len(stages)),
         ~WillEnd(stages, k, layers, stk, <<>>),
         \A lo \in from..(Len(stages) + 1) :
           ForeseenAt(stages, lo, k, x, layers, stk, layers2, stk2),
         \A i \in 1..Len(stages) :
           /\ i # k => layers2[i] = layers[i]
           /\ i = k => /\ ~DataIsReduced(stages[i], layers[i])
                       /\ ~Throws(stages[i], layers[i], x)
                       /\ layers2[i] = Step(stages[i], layers[i], x).layer
  PROVE  Account([given EXCEPT ![k] = @ \o <<x>>], stages, layers2, stk2, all, coming2, from)
<1> DEFINE new == [given EXCEPT ![k] = @ \o <<x>>]
           K == 1..(Len(stages) + 1)
<1>1. /\ given \in [K -> Seq(Item)] /\ k \in K /\ <<x>> \in Seq(Item)
      /\ given[k] \in Seq(Item) /\ <<>> \in Seq(Item)
  BY DEF Account
<1>2. new \in [K -> Seq(Item)] /\ new[k] = given[k] \o <<x>>
      /\ \A i \in K : i # k => new[i] = given[i]
  <2>1. given[k] \o <<x>> \in Seq(Item)
    BY <1>1
  <2> QED
    BY <1>1, <2>1
<1> HIDE DEF new
<1>3. ~EndsFrom(stages, k, given[k])
  <2>1. EndsFrom(stages, k, given[k] \o <<>>) <=> WillEnd(stages, k, layers, stk, <<>>)
    BY <1>1 DEF Account, Foresees
  <2>2. given[k] \o <<>> = given[k]
    BY <1>1, NoItems
  <2> QED
    BY <2>1, <2>2
<1>4. ASSUME NEW i \in K
      PROVE  Unended(stages, i, new[i]) /\ Gets(stages, i, new[i], all[i - 1], coming2[i - 1])
  <2>1. Unended(stages, i, given[i]) /\ Gets(stages, i, given[i], all[i - 1], coming[i - 1])
    BY DEF Account
  <2>2. CASE i # k
    <3>1. i - 1 \in 0..Len(stages) /\ i - 1 # k - 1
      BY <2>2
    <3>2. coming2[i - 1] = coming[i - 1]
      BY <3>1 DEF HeadTaken
    <3> QED
      BY <1>2, <2>1, <2>2, <3>2
  <2>3. CASE i = k
    <3>1. all[k - 1] = given[k] \o coming[k - 1]
      BY <1>3, <2>1, <2>3 DEF Gets
    <3>2. PICK ys \in Seq(Item) : ys = coming2[k - 1]
      <4>1. k - 1 \in 0..Len(stages)
        BY <1>1
      <4> QED
        BY <4>1
    <3>3. coming[k - 1] = <<x>> \o ys
      BY <3>2 DEF HeadTaken
    <3>4. (given[k] \o <<x>>) \o ys = given[k] \o (<<x>> \o ys)
      BY <1>1, Associative
    <3>5. Unended(stages, k, given[k] \o <<x>>)
      BY <1>1, <1>3, <2>1, <2>3, UnendedMore
    <3>6. all[k - 1] = new[k] \o coming2[k - 1]
      BY <1>2, <3>1, <3>2, <3>3, <3>4, Zenon
    <3>7. Unended(stages, k, new[k]) /\ Gets(stages, k, new[k], all[k - 1], coming2[k - 1])
      BY <1>2, <3>5, <3>6, Zenon DEF Gets
    <3> QED
      BY <2>3, <3>7, Zenon
  <2> QED
    BY <2>2, <2>3
<1>5. ASSUME NEW i \in 1..Len(stages)
      PROVE  Remembers(stages[i], layers2[i], new[i])
  <2>1. /\ Remembers(stages[i], layers[i], given[i]) /\ i \in K
        /\ stages[i] \in Stage /\ layers[i] \in Possible(stages[i])
    <3>1. i \in K /\ stages[i] \in Stage
      OBVIOUS
    <3>2. layers[i] \in Possible(stages[i])
      BY Zenon DEF Able
    <3>3. Remembers(stages[i], layers[i], given[i])
      BY Zenon DEF Account
    <3> QED
      BY <3>1, <3>2, <3>3
  <2>2. CASE i # k
    <3>1. layers2[i] = layers[i]
      BY <2>2
    <3>2. new[i] = given[i]
      BY <1>2, <2>1, <2>2, Zenon
    <3> QED
      BY <2>1, <3>1, <3>2, Zenon
  <2>3. CASE i = k
    <3>1. /\ ~DataIsReduced(stages[i], layers[i]) /\ ~Throws(stages[i], layers[i], x)
          /\ layers2[i] = Step(stages[i], layers[i], x).layer
      BY <2>3
    <3>2. given[i] \in Seq(Item)
      BY <1>1, <2>3
    <3>3. Remembers(stages[i], Step(stages[i], layers[i], x).layer, given[i] \o <<x>>)
      BY <2>1, <3>1, <3>2, RemembersMore
    <3> QED
      BY <1>2, <2>3, <3>1, <3>3, Zenon
  <2> QED
    BY <2>2, <2>3
<1>6. ASSUME NEW lo \in from..(Len(stages) + 1)
      PROVE  Foresees(stages, lo, layers2, stk2, new[lo])
  <2> lo \in K
    OBVIOUS
  <2> SUFFICES ASSUME NEW ys \in Seq(Item)
               PROVE  EndsFrom(stages, lo, new[lo] \o ys) <=> WillEnd(stages, lo, layers2, stk2, ys)
    BY DEF Foresees
  <2>1. PICK zs \in Seq(Item) : zs = WithTaken(lo, k, x, ys)
    <3>1. <<x>> \o ys \in Seq(Item)
      BY <1>1
    <3> QED
      BY <3>1, Zenon DEF WithTaken
  <2>2. WillEnd(stages, lo, layers, stk, zs) <=> WillEnd(stages, lo, layers2, stk2, ys)
    BY <2>1, Zenon DEF ForeseenAt
  <2>3. EndsFrom(stages, lo, given[lo] \o zs) <=> WillEnd(stages, lo, layers, stk, zs)
    BY DEF Account, Foresees
  <2>4. given[lo] \o zs = new[lo] \o ys
    <3>1. CASE lo = k
      <4>1. (given[k] \o <<x>>) \o ys = given[k] \o (<<x>> \o ys)
        BY <1>1, Associative, SMTT(30)
      <4> QED
        BY <1>2, <2>1, <3>1, <4>1, Zenon DEF WithTaken
    <3>2. CASE lo # k
      BY <1>2, <1>6, <2>1, <3>2, Zenon DEF WithTaken
    <3> QED
      BY <3>1, <3>2
  <2> QED
    BY <2>2, <2>3, <2>4, Zenon
<1>7. Account(new, stages, layers2, stk2, all, coming2, from)
  BY <1>2, <1>4, <1>5, <1>6 DEF Account
<1> QED
  BY <1>7 DEF new

\* Stage k has been called with x too.
Taken(given, k, x) == [given EXCEPT ![k] = @ \o <<x>>]

\* No stage from k on has ended the reduction, and nothing waits behind stage k.
Untouched(stages, k, layers, stk) ==
  /\ \A j \in k..Len(stages) : ~DataIsReduced(stages[j], layers[j])
  /\ \A j \in (k + 1)..Len(stages) : Queued(j)[stk] = <<>>

\* A call of a stage keeps the account.
LEMMA AccountCalled ==
  ASSUME NEW stages \in Seq(Stage), NEW k \in 1..Len(stages), NEW x \in Item, NEW runs,
         NEW layers, NEW layers2, Called(stages, k, x, layers, layers2, runs),
         NEW stk \in Seq(Frame), NEW stk2 \in Seq(Frame),
         Advances(stk, stk2, k, x, Issued(runs)),
         Untouched(stages, k, layers, stk),
         NEW ahead \in Seq(Item), NEW closing, NEW all, NEW given,
         NEW from \in Nat \ {0}, from <= k,
         Account(given, stages, layers, stk, all,
                 Coming(stages, layers, stk, ahead, closing), from)
  PROVE  Account(Taken(given, k, x), stages, layers2, stk2, all,
                 Coming(stages, layers2, stk2, ahead, closing), from)
<1>1. PICK f, g : /\ f = Coming(stages, layers, stk, ahead, closing)
                  /\ g = Coming(stages, layers2, stk2, ahead, closing)
  OBVIOUS
<1>2. Able(stages, layers) /\ Able(stages, layers2)
  BY DEF Called
<1>3. HeadTaken(f, g, k, x, Len(stages))
  BY <1>1, ComingCalled
<1>4. g \in [0..Len(stages) -> Seq(Item)]
  BY <1>1, <1>2, ComingDef DEF Follows
<1>5. ~WillEnd(stages, k, layers, stk, <<>>)
  <2>1. k \in 1..(Len(stages) + 1)
    OBVIOUS
  <2> QED
    BY <1>2, <2>1, WillEndOfNothing DEF Untouched
<1>6. ASSUME NEW lo \in from..(Len(stages) + 1)
      PROVE  ForeseenAt(stages, lo, k, x, layers, stk, layers2, stk2)
  <2> SUFFICES ASSUME NEW ys \in Seq(Item)
               PROVE  WillEnd(stages, lo, layers, stk, WithTaken(lo, k, x, ys))
                        <=> WillEnd(stages, lo, layers2, stk2, ys)
    BY DEF ForeseenAt
  <2>1. PICK xs \in Seq(Item) : xs = WithTaken(lo, k, x, ys)
    <3>1. <<x>> \o ys \in Seq(Item)
      OBVIOUS
    <3> QED
      BY <3>1, Zenon DEF WithTaken
  <2>2. CASE lo <= k
    <3>1. lo \in 1..k
      BY <2>2
    <3>2. WillEnd(stages, lo, layers, stk, xs) <=> WillEnd(stages, lo, layers2, stk2, ys)
      BY <2>1, <3>1, WillEndCalled
    <3> QED
      BY <2>1, <3>2
  <2>3. CASE ~(lo <= k)
    <3>1. lo # k /\ lo \in 1..(Len(stages) + 1) /\ k < lo
      BY <2>3
    <3>2. SameBehind(stages, lo, layers, stk, layers2, stk2)
      <4>1. \A i \in lo..Len(stages) : i \in 1..Len(stages) /\ i # k
        BY <3>1
      <4>2. \A i \in (lo + 1)..Len(stages) : i \in Nat /\ i # k /\ i # k + 1
        BY <3>1
      <4>3. \A i \in lo..Len(stages) : layers[i] = layers2[i]
        BY <4>1, Zenon DEF Called
      <4>4. \A i \in (lo + 1)..Len(stages) : Queued(i)[stk] = Queued(i)[stk2]
        BY <4>2, Zenon DEF Advances
      <4> QED
        BY <4>3, <4>4 DEF SameBehind
    <3>3. WillEnd(stages, lo, layers, stk, ys) <=> WillEnd(stages, lo, layers2, stk2, ys)
      BY <1>2, <3>1, <3>2, WillEndSame
    <3> QED
      BY <3>1, <3>3 DEF WithTaken
  <2> QED
    BY <2>2, <2>3
<1>7. k \in from..(Len(stages) + 1) /\ k \in 1..(Len(stages) + 1)
  OBVIOUS
<1>8. \A i \in 1..Len(stages) :
        /\ i # k => layers2[i] = layers[i]
        /\ i = k => /\ ~DataIsReduced(stages[i], layers[i])
                    /\ ~Throws(stages[i], layers[i], x)
                    /\ layers2[i] = Step(stages[i], layers[i], x).layer
  BY DEF Called
<1>9. Account(given, stages, layers, stk, all, f, from)
  BY <1>1
<1>10. Account(Taken(given, k, x), stages, layers2, stk2, all, g, from)
  BY <1>2, <1>3, <1>4, <1>5, <1>6, <1>7, <1>8, <1>9, AccountTaken DEF Taken
<1> QED
  BY <1>1, <1>10

\* So does a call of the reducing function.
LEMMA AccountOut ==
  ASSUME NEW stages \in Seq(Stage), NEW k \in Nat, k = Len(stages) + 1, NEW x \in Item,
         NEW xs, NEW layers, Able(stages, layers),
         NEW stk \in Seq(Frame), NEW stk2 \in Seq(Frame), Advances(stk, stk2, k, x, xs),
         NEW ahead \in Seq(Item), NEW closing, NEW all, NEW given,
         NEW from \in Nat \ {0}, from <= k,
         Account(given, stages, layers, stk, all,
                 Coming(stages, layers, stk, ahead, closing), from)
  PROVE  Account(Taken(given, k, x), stages, layers, stk2, all,
                 Coming(stages, layers, stk2, ahead, closing), from)
<1>1. PICK f, g : /\ f = Coming(stages, layers, stk, ahead, closing)
                  /\ g = Coming(stages, layers, stk2, ahead, closing)
  OBVIOUS
<1>2. HeadTaken(f, g, k, x, Len(stages))
  BY <1>1, ComingOut
<1>3. g \in [0..Len(stages) -> Seq(Item)]
  BY <1>1, ComingDef DEF Follows
<1>4. ~WillEnd(stages, k, layers, stk, <<>>)
  <2>1. k..Len(stages) = {}
    BY LenType
  <2> QED
    BY <2>1 DEF WillEnd
<1>5. ASSUME NEW lo \in from..(Len(stages) + 1)
      PROVE  ForeseenAt(stages, lo, k, x, layers, stk, layers, stk2)
  <2> SUFFICES ASSUME NEW ys \in Seq(Item)
               PROVE  WillEnd(stages, lo, layers, stk, WithTaken(lo, k, x, ys))
                        <=> WillEnd(stages, lo, layers, stk2, ys)
    BY DEF ForeseenAt
  <2>1. lo \in 1..(Len(stages) + 1)
    OBVIOUS
  <2>2. CASE lo = k
    <3>1. lo..Len(stages) = {}
      BY <2>2, LenType
    <3> QED
      BY <3>1 DEF WillEnd
  <2>3. CASE lo # k
    <3>1. SameBehind(stages, lo, layers, stk, layers, stk2)
      <4>1. \A i \in (lo + 1)..Len(stages) : i \in Nat /\ i # k /\ i # k + 1
        BY <2>1
      <4> QED
        BY <4>1 DEF SameBehind, Advances
    <3>2. WillEnd(stages, lo, layers, stk, ys) <=> WillEnd(stages, lo, layers, stk2, ys)
      BY <2>1, <3>1, WillEndSame
    <3> QED
      BY <2>3, <3>2 DEF WithTaken
  <2> QED
    BY <2>2, <2>3
<1>6. k \in from..(Len(stages) + 1) /\ k \in 1..(Len(stages) + 1)
  BY LenType
<1>7. \A i \in 1..Len(stages) :
        /\ i # k => layers[i] = layers[i]
        /\ i = k => /\ ~DataIsReduced(stages[i], layers[i])
                    /\ ~Throws(stages[i], layers[i], x)
                    /\ layers[i] = Step(stages[i], layers[i], x).layer
  BY LenType
<1>8. Account(given, stages, layers, stk, all, f, from)
  BY <1>1
<1>9. Account(Taken(given, k, x), stages, layers, stk2, all, g, from)
  BY <1>2, <1>3, <1>4, <1>5, <1>6, <1>7, <1>8, AccountTaken DEF Taken
<1> QED
  BY <1>1, <1>9

\* What waits before a stage, and whether stages are completed by now, is of no
\* matter for the stages behind it.
LEMMA AccountBehind ==
  ASSUME NEW stages \in Seq(Stage), NEW layers, Able(stages, layers),
         NEW stk \in Seq(Frame), NEW stk2 \in Seq(Frame), NEW all, NEW coming, NEW given,
         NEW from \in Nat \ {0}, NEW from2 \in Nat \ {0}, from <= from2,
         SameQueued(from2 + 1, Len(stages), stk, stk2),
         Account(given, stages, layers, stk, all, coming, from)
  PROVE  Account(given, stages, layers, stk2, all, coming, from2)
<1>1. ASSUME NEW lo \in from2..(Len(stages) + 1)
      PROVE  Foresees(stages, lo, layers, stk2, given[lo])
  <2> SUFFICES ASSUME NEW ys \in Seq(Item)
               PROVE  EndsFrom(stages, lo, given[lo] \o ys) <=> WillEnd(stages, lo, layers, stk2, ys)
    BY DEF Foresees
  <2>1. lo \in from..(Len(stages) + 1) /\ lo \in 1..(Len(stages) + 1)
    OBVIOUS
  <2>2. EndsFrom(stages, lo, given[lo] \o ys) <=> WillEnd(stages, lo, layers, stk, ys)
    BY <2>1, Zenon DEF Account, Foresees
  <2>3. SameBehind(stages, lo, layers, stk, layers, stk2)
    <3>1. \A i \in (lo + 1)..Len(stages) : i \in (from2 + 1)..Len(stages)
      OBVIOUS
    <3> QED
      BY <3>1 DEF SameBehind, SameQueued
  <2>4. WillEnd(stages, lo, layers, stk, ys) <=> WillEnd(stages, lo, layers, stk2, ys)
    BY <2>1, <2>3, WillEndSame
  <2> QED
    BY <2>2, <2>4
<1> QED
  BY <1>1 DEF Account

\* Nor is where the input waits.
LEMMA AccountAlike ==
  ASSUME NEW stages \in Seq(Stage), NEW layers, Able(stages, layers),
         NEW stk \in Seq(Frame), NEW stk2 \in Seq(Frame),
         NEW ahead \in Seq(Item), NEW ahead2 \in Seq(Item), NEW closing, NEW all, NEW given,
         SameInput(stk, ahead, stk2, ahead2), SameQueued(2, Len(stages) + 1, stk, stk2),
         NEW from \in Nat \ {0},
         Account(given, stages, layers, stk, all,
                 Coming(stages, layers, stk, ahead, closing), from)
  PROVE  Account(given, stages, layers, stk2, all,
                 Coming(stages, layers, stk2, ahead2, closing), from)
<1>1. Coming(stages, layers, stk, ahead, closing) = Coming(stages, layers, stk2, ahead2, closing)
  BY ComingAlike
<1>2. PICK f : f = Coming(stages, layers, stk, ahead, closing)
  OBVIOUS
<1>3. SameQueued(from + 1, Len(stages), stk, stk2)
  <2>1. \A i \in (from + 1)..Len(stages) : i \in 2..(Len(stages) + 1)
    BY LenType
  <2> QED
    BY <2>1 DEF SameQueued
<1>4. Account(given, stages, layers, stk, all, f, from)
  BY <1>2
<1>5. Account(given, stages, layers, stk2, all, f, from)
  BY <1>3, <1>4, AccountBehind
<1> QED
  BY <1>1, <1>2, <1>5

\* Only what waits for stage j differs, or, if it is the first, what is ahead.
Drops(j, n, stk, ahead, stk2, ahead2) ==
  /\ \A i \in 1..n : i # j => Queued(i)[stk] = Queued(i)[stk2]
  /\ j # 1 => ahead = ahead2

\* What a stage will not be called with, since one behind it has ended the
\* reduction, is dropped.
LEMMA AccountDropped ==
  ASSUME NEW stages \in Seq(Stage), NEW layers, Able(stages, layers),
         NEW j \in 1..Len(stages), NEW m \in j..Len(stages), DataIsReduced(stages[m], layers[m]),
         NEW stk \in Seq(Frame), NEW stk2 \in Seq(Frame),
         NEW ahead \in Seq(Item), NEW ahead2 \in Seq(Item), NEW closing, NEW all, NEW given,
         Drops(j, Len(stages) + 1, stk, ahead, stk2, ahead2),
         NEW from \in Nat \ {0}, from <= j,
         Account(given, stages, layers, stk, all,
                 Coming(stages, layers, stk, ahead, closing), from)
  PROVE  Account(given, stages, layers, stk2, all,
                 Coming(stages, layers, stk2, ahead2, closing), from)
<1>1. PICK f, g : /\ f = Coming(stages, layers, stk, ahead, closing)
                  /\ g = Coming(stages, layers, stk2, ahead2, closing)
  OBVIOUS
<1>2. /\ Follows(f, stages, layers, stk, ahead, closing)
      /\ Follows(g, stages, layers, stk2, ahead2, closing)
  BY <1>1, ComingDef
<1>3. Len(stages) \in Nat /\ m \in 1..Len(stages)
  BY LenType
<1>4. Account(given, stages, layers, stk, all, f, from)
  BY <1>1
<1>5. SameFrom(f, g, m, Len(stages))
  <2>1. SameQueued(m + 1, Len(stages) + 1, stk, stk2)
    <3>1. \A i \in (m + 1)..(Len(stages) + 1) : i \in 1..(Len(stages) + 1) /\ i # j
      BY <1>3
    <3> QED
      BY <3>1 DEF SameQueued, Drops
  <2> QED
    BY <1>1, <1>3, <2>1, ComingStopped
<1>6. ASSUME j # 1
      PROVE  SameFrom(f, g, 0, j - 2)
  <2>1. ahead = ahead2 /\ j \in 1..(Len(stages) + 1)
    BY <1>3, <1>6 DEF Drops
  <2>2. SameBefore(j, layers, stk, closing, layers, stk2, closing)
    <3>1. \A i \in 1..(j - 1) : i \in 1..(Len(stages) + 1) /\ i # j
      BY <1>3
    <3> QED
      BY <3>1 DEF SameBefore, Drops
  <2> QED
    BY <1>2, <2>1, <2>2, FollowsBefore
<1>7. ASSUME NEW k \in 1..(Len(stages) + 1), k <= m, NEW c \in Seq(Frame), NEW ys \in Seq(Item)
      PROVE  WillEnd(stages, k, layers, c, ys)
  <2>1. m \in k..Len(stages)
    BY <1>3, <1>7
  <2> QED
    BY <2>1, WillEndReduced
<1>8. ASSUME NEW k \in 1..(Len(stages) + 1)
      PROVE  Gets(stages, k, given[k], all[k - 1], g[k - 1])
  <2>1. Gets(stages, k, given[k], all[k - 1], f[k - 1])
    BY <1>4 DEF Account
  <2>2. CASE k > m
    <3>1. k - 1 \in m..Len(stages)
      BY <1>3, <2>2
    <3>2. f[k - 1] = g[k - 1]
      BY <1>5, <3>1 DEF SameFrom
    <3> QED
      BY <2>1, <3>2
  <2>3. CASE k < from
    <3>1. j # 1 /\ k - 1 \in 0..(j - 2)
      BY <2>3
    <3>2. f[k - 1] = g[k - 1]
      BY <1>6, <3>1 DEF SameFrom
    <3> QED
      BY <2>1, <3>2
  <2>4. CASE k >= from /\ k <= m
    <3>1. k \in from..(Len(stages) + 1) /\ k - 1 \in 0..Len(stages)
      BY <2>4
    <3>2. PICK xs \in Seq(Item) : xs = given[k]
      BY <1>4 DEF Account
    <3>3. <<>> \in Seq(Item) /\ xs \o <<>> = xs
      BY NoItems
    <3>4. EndsFrom(stages, k, xs \o <<>>) <=> WillEnd(stages, k, layers, stk, <<>>)
      BY <1>4, <3>1, <3>2, <3>3, Zenon DEF Account, Foresees
    <3>5. EndsFrom(stages, k, xs)
      BY <1>7, <2>4, <3>3, <3>4
    <3>6. f[k - 1] \in Seq(Item)
      BY <1>2, <3>1 DEF Follows
    <3>7. \E zs \in Seq(Item) : all[k - 1] = xs \o zs
      BY <2>1, <3>2, <3>6 DEF Gets
    <3> QED
      BY <3>2, <3>5, <3>7 DEF Gets
  <2> QED
    BY <1>3, <2>2, <2>3, <2>4
<1>9. ASSUME NEW k \in from..(Len(stages) + 1)
      PROVE  Foresees(stages, k, layers, stk2, given[k])
  <2> SUFFICES ASSUME NEW ys \in Seq(Item)
               PROVE  EndsFrom(stages, k, given[k] \o ys) <=> WillEnd(stages, k, layers, stk2, ys)
    BY DEF Foresees
  <2>1. k \in 1..(Len(stages) + 1)
    OBVIOUS
  <2>2. EndsFrom(stages, k, given[k] \o ys) <=> WillEnd(stages, k, layers, stk, ys)
    BY <1>4, Zenon DEF Account, Foresees
  <2>3. CASE k <= m
    BY <1>7, <2>1, <2>2, <2>3
  <2>4. CASE ~(k <= m)
    <3>1. SameBehind(stages, k, layers, stk, layers, stk2)
      <4>1. \A i \in (k + 1)..Len(stages) : i \in 1..(Len(stages) + 1) /\ i # j
        BY <1>3, <2>4
      <4> QED
        BY <4>1 DEF SameBehind, Drops
    <3>2. WillEnd(stages, k, layers, stk, ys) <=> WillEnd(stages, k, layers, stk2, ys)
      BY <2>1, <3>1, WillEndSame
    <3> QED
      BY <2>2, <3>2
  <2> QED
    BY <2>3, <2>4
<1>10. Account(given, stages, layers, stk2, all, g, from)
  BY <1>4, <1>8, <1>9 DEF Account
<1> QED
  BY <1>1, <1>10

\* Before the first call no stage has been called with anything.
LEMMA AccountStart ==
  ASSUME NEW stages \in Seq(Stage), NEW xs \in Seq(Item),
         NEW layers, \A k \in 1..Len(stages) : layers[k] = Fresh, NEW closed \in BOOLEAN,
         NEW closing, \A k \in 1..Len(stages) : (k \in closing) = closed
  PROVE  Account([k \in 1..(Len(stages) + 1) |-> <<>>], stages, layers, <<>>,
                 Passing(stages, xs, closed), Coming(stages, layers, <<>>, xs, closing), 1)
<1>1. PICK f, all, given :
        /\ f = Coming(stages, layers, <<>>, xs, closing)
        /\ all = Passing(stages, xs, closed)
        /\ given = [k \in 1..(Len(stages) + 1) |-> <<>>]
  OBVIOUS
<1>2. Able(stages, layers) /\ SameFrom(f, all, 0, Len(stages))
  BY <1>1, ComingPassing
<1>3. <<>> \in Seq(Frame) /\ <<>> \in Seq(Item)
  OBVIOUS
<1>4. f \in [0..Len(stages) -> Seq(Item)]
  BY <1>1, <1>2, <1>3, ComingDef DEF Follows
<1>5. given \in [1..(Len(stages) + 1) -> Seq(Item)]
  BY <1>1, <1>3
<1>6. ASSUME NEW k \in 1..(Len(stages) + 1)
      PROVE  /\ Unended(stages, k, given[k])
             /\ Gets(stages, k, given[k], all[k - 1], f[k - 1])
             /\ Foresees(stages, k, layers, <<>>, given[k])
  <2>1. given[k] = <<>>
    BY <1>1
  <2>2. Unended(stages, k, <<>>)
    BY DEF Unended
  <2>3. k - 1 \in 0..Len(stages)
    BY LenType
  <2>4. all[k - 1] = <<>> \o f[k - 1]
    <3>1. f[k - 1] \in Seq(Item) /\ f[k - 1] = all[k - 1]
      BY <1>2, <1>4, <2>3 DEF SameFrom
    <3> QED
      BY <3>1, NoItems
  <2>5. Foresees(stages, k, layers, <<>>, <<>>)
    <3> SUFFICES ASSUME NEW ys \in Seq(Item)
                 PROVE  EndsFrom(stages, k, <<>> \o ys) <=> WillEnd(stages, k, layers, <<>>, ys)
      BY DEF Foresees
    <3>1. <<>> \o ys = ys
      BY NoItems
    <3>2. EndsFrom(stages, k, ys) <=> WillEnd(stages, k, layers, <<>>, ys)
      BY EndsFromFlow
    <3> QED
      BY <3>1, <3>2
  <2> QED
    BY <2>1, <2>2, <2>4, <2>5 DEF Gets
<1>7. ASSUME NEW k \in 1..Len(stages)
      PROVE  Remembers(stages[k], layers[k], given[k])
  <2>1. given[k] = <<>> /\ layers[k] = Fresh
    BY <1>1
  <2>2. \A ys \in Seq(Item) : <<>> \o ys = ys
    BY NoItems
  <2> QED
    BY <2>1, <2>2 DEF Remembers
<1>8. Account(given, stages, layers, <<>>, all, f, 1)
  BY <1>5, <1>6, <1>7 DEF Account
<1> QED
  BY <1>1, <1>8

\* How many items have gone into the first stage or wait for it.
Entered(given, stk) == Len(given[1]) + Len(Queued(1)[stk])

\* A call changes nothing of their number.
LEMMA EnteredTaken ==
  ASSUME NEW stages \in Seq(Stage), NEW k \in 1..(Len(stages) + 1), NEW x \in Item, NEW xs,
         NEW stk \in Seq(Frame), NEW stk2 \in Seq(Frame), Advances(stk, stk2, k, x, xs),
         NEW given \in [1..(Len(stages) + 1) -> Seq(Item)]
  PROVE  Entered(Taken(given, k, x), stk2) = Entered(given, stk)
<1>1. PICK ys \in Seq(Item), zs \in Seq(Item) : ys = given[1] /\ zs = Queued(1)[stk2]
  <2>1. 1 \in 1..(Len(stages) + 1) /\ Queued(1)[stk2] \in Seq(Item)
    BY QueuedType, LenType
  <2> QED
    BY <2>1
<1>2. CASE k = 1
  <2>1. Taken(given, k, x)[1] = ys \o <<x>>
    BY <1>1, <1>2 DEF Taken
  <2>2. Queued(1)[stk] = <<x>> \o zs
    BY <1>1, <1>2 DEF Advances
  <2>3. Len(ys \o <<x>>) + Len(zs) = Len(ys) + Len(<<x>> \o zs)
    OBVIOUS
  <2> QED
    BY <1>1, <2>1, <2>2, <2>3 DEF Entered
<1>3. CASE k # 1
  <2>1. Taken(given, k, x)[1] = given[1]
    BY <1>3, LenType DEF Taken
  <2>2. 1 \in Nat /\ 1 # k /\ 1 # k + 1
    BY <1>3
  <2>3. Queued(1)[stk] = Queued(1)[stk2]
    BY <2>2 DEF Advances
  <2> QED
    BY <2>1, <2>3 DEF Entered
<1> QED
  BY <1>2, <1>3

\* As many items of all as Arriving takes.
Needed(stages, k, all, n) ==
  /\ n = Len(all) \/ EndsFrom(stages, k, SubSeq(all, 1, n))
  /\ \A m \in 0..(n - 1) : ~EndsFrom(stages, k, SubSeq(all, 1, m))

NumberNeeded(stages, k, all) ==
  CHOOSE n \in 0..Len(all) : Needed(stages, k, all, n)

LEMMA ArrivingDef ==
  ASSUME NEW stages, NEW k, NEW xs, NEW closed, NEW all,
         all = Passing(stages, xs, closed)[k - 1]
  PROVE  Arriving(stages, k, xs, closed) = SubSeq(all, 1, NumberNeeded(stages, k, all))
BY DEF Arriving, Needed, NumberNeeded

\* What a stage has been called with is what arrives at it, if nothing else comes or
\* the reduction is over for it.
LEMMA ArrivingIs ==
  ASSUME NEW stages, NEW k, NEW xs, NEW closed, NEW ys \in Seq(Item),
         Unended(stages, k, ys),
         Gets(stages, k, ys, Passing(stages, xs, closed)[k - 1], <<>>)
  PROVE  Arriving(stages, k, xs, closed) = ys
<1>1. PICK zs \in Seq(Item) : /\ Passing(stages, xs, closed)[k - 1] = ys \o zs
                              /\ zs = <<>> \/ EndsFrom(stages, k, ys)
  <2>1. <<>> \in Seq(Item)
    OBVIOUS
  <2> QED
    BY <2>1 DEF Gets
<1>2. PICK all \in Seq(Item) : all = Passing(stages, xs, closed)[k - 1] /\ all = ys \o zs
  <2>1. ys \o zs \in Seq(Item)
    OBVIOUS
  <2> QED
    BY <1>1, <2>1, Zenon
<1>3. /\ Len(ys) \in 0..Len(all) /\ Len(all) = Len(ys) + Len(zs)
      /\ Len(ys) \in Nat /\ Len(zs) \in Nat
  <2>1. Len(ys) \in Nat /\ Len(zs) \in Nat /\ Len(ys \o zs) = Len(ys) + Len(zs)
    OBVIOUS
  <2>2. Len(all) = Len(ys) + Len(zs)
    BY <1>2, <2>1, Zenon
  <2> QED
    BY ONLY <2>1, <2>2
<1>4. \A m \in 0..Len(ys) : SubSeq(all, 1, m) = SubSeq(ys, 1, m)
  BY <1>2, PrefixOfJoined, ZenonT(40)
<1>5. SubSeq(all, 1, Len(ys)) = ys
  BY <1>3, <1>4, PrefixOfItself
<1>6. Needed(stages, k, all, Len(ys))
  <2>1. ASSUME NEW m \in 0..(Len(ys) - 1)
        PROVE  ~EndsFrom(stages, k, SubSeq(all, 1, m))
    <3>1. m \in 0..Len(ys)
      BY <1>3
    <3> QED
      BY <1>4, <3>1 DEF Unended
  <2>2. zs = <<>> => Len(ys) = Len(all)
    BY <1>3
  <2> QED
    BY <1>1, <1>5, <2>1, <2>2 DEF Needed
<1>7. ASSUME NEW n \in 0..Len(all), Needed(stages, k, all, n)
      PROVE  n = Len(ys)
  <2>1. CASE n < Len(ys)
    <3>1. n # Len(all) /\ n \in 0..(Len(ys) - 1) /\ n \in 0..Len(ys)
      BY <1>3, <2>1
    <3>2. EndsFrom(stages, k, SubSeq(all, 1, n))
      BY <1>7, <3>1 DEF Needed
    <3> QED
      BY <1>4, <3>1, <3>2 DEF Unended
  <2>2. CASE n > Len(ys)
    <3>1. Len(ys) \in 0..(n - 1) /\ Len(zs) # 0
      BY <1>3, <2>2
    <3>2. ~EndsFrom(stages, k, ys)
      BY <1>5, <1>7, <3>1 DEF Needed
    <3> QED
      BY <1>1, <3>1, <3>2
  <2> QED
    BY <1>3, <2>1, <2>2
<1>8. NumberNeeded(stages, k, all) = Len(ys)
  BY <1>3, <1>6, <1>7 DEF NumberNeeded
<1>9. Arriving(stages, k, xs, closed) = SubSeq(all, 1, NumberNeeded(stages, k, all))
  BY <1>2, ArrivingDef, Zenon
<1> QED
  BY <1>5, <1>8, <1>9, Zenon

\* One of the items that arrive at stage k is x.
Arrives(stages, k, xs, closed, x) ==
  \E i \in 1..Len(Arriving(stages, k, xs, closed)) : Arriving(stages, k, xs, closed)[i] = x

\* An item that comes next, before the reduction is over, is one of those that
\* arrive.
LEMMA ArrivingNext ==
  ASSUME NEW stages, NEW k, NEW xs, NEW closed,
         NEW ys \in Seq(Item), NEW x \in Item, NEW zs \in Seq(Item),
         Unended(stages, k, ys), ~EndsFrom(stages, k, ys), NEW whole,
         whole = Passing(stages, xs, closed)[k - 1], whole = ys \o (<<x>> \o zs)
  PROVE  Arrives(stages, k, xs, closed, x)
<1>1. PICK all \in Seq(Item) : all = Passing(stages, xs, closed)[k - 1] /\ all = ys \o (<<x>> \o zs)
  <2>1. ys \o (<<x>> \o zs) \in Seq(Item)
    OBVIOUS
  <2> QED
    BY <2>1, Zenon
<1>2. PICK i \in Nat : /\ i = Len(ys) + 1 /\ i <= Len(all) /\ all[i] = x
  <2>1. /\ Len(ys) + 1 \in Nat /\ Len(ys) + 1 <= Len(ys \o (<<x>> \o zs))
        /\ (ys \o (<<x>> \o zs))[Len(ys) + 1] = x
    OBVIOUS
  <2> QED
    BY <1>1, <2>1
<1>3. Len(all) \in Nat /\ Len(ys) \in Nat
  BY LenType
<1>4. \A m \in 0..Len(ys) : ~EndsFrom(stages, k, SubSeq(all, 1, m))
  <2> SUFFICES ASSUME NEW m \in 0..Len(ys)
               PROVE  ~EndsFrom(stages, k, SubSeq(all, 1, m))
    OBVIOUS
  <2>1. SubSeq(all, 1, m) = SubSeq(ys, 1, m)
    <3>1. <<x>> \o zs \in Seq(Item)
      OBVIOUS
    <3>2. SubSeq(ys \o (<<x>> \o zs), 1, m) = SubSeq(ys, 1, m)
      BY <3>1, PrefixOfJoined
    <3> QED
      BY <1>1, <3>2, Zenon
  <2>2. CASE m = Len(ys)
    BY <2>1, <2>2, PrefixOfItself
  <2>3. CASE m # Len(ys)
    <3>1. m \in 0..(Len(ys) - 1)
      BY <1>3, <2>3
    <3> QED
      BY <2>1, <3>1 DEF Unended
  <2> QED
    BY <2>2, <2>3
<1>5. \E n \in 0..Len(all) : Needed(stages, k, all, n)
  <2> DEFINE T == {n \in 0..Len(all) : n = Len(all) \/ EndsFrom(stages, k, SubSeq(all, 1, n))}
  <2>1. Len(all) \in T /\ T \in SUBSET Nat
    BY <1>3
  <2>2. PICK n \in T : \A t \in T : n <= t
    <3> HIDE DEF T
    <3> QED
      BY <2>1, LeastElement
  <2>3. ASSUME NEW m \in 0..(n - 1)
        PROVE  ~EndsFrom(stages, k, SubSeq(all, 1, m))
    <3>1. m \in 0..Len(all) /\ ~(n <= m)
      BY <1>3
    <3>2. m \notin T
      BY <2>2, <3>1
    <3> QED
      BY <3>1, <3>2
  <2> QED
    BY <2>2, <2>3 DEF Needed
<1>6. PICK n \in 0..Len(all) : /\ n = NumberNeeded(stages, k, all)
                               /\ Needed(stages, k, all, n)
  BY <1>5 DEF NumberNeeded
<1>7. n > Len(ys)
  <2>1. n \notin 0..Len(ys)
    <3>1. CASE n = Len(all)
      BY ONLY <1>2, <1>3, <3>1
    <3>2. CASE EndsFrom(stages, k, SubSeq(all, 1, n))
      BY ONLY <1>4, <3>2
    <3> QED
      BY <1>6, <3>1, <3>2 DEF Needed
  <2> QED
    BY <1>3, <2>1
<1>8. Arriving(stages, k, xs, closed) = SubSeq(all, 1, n)
  BY <1>1, <1>6, ArrivingDef, Zenon
<1>9. i \in 1..Len(SubSeq(all, 1, n)) /\ SubSeq(all, 1, n)[i] = x
  BY <1>2, <1>3, <1>7
<1> QED
  BY <1>8, <1>9 DEF Arrives

\* The item that is about to go into a stage arrives there.
LEMMA AccountNext ==
  ASSUME NEW stages \in Seq(Stage), NEW k \in 1..Len(stages), NEW x \in Item,
         NEW layers, Able(stages, layers), NEW stk \in Seq(Frame),
         NEW rest \in Seq(Item), Queued(k)[stk] = <<x>> \o rest,
         Untouched(stages, k, layers, stk),
         NEW ahead \in Seq(Item), NEW closing, NEW xs, NEW closed, NEW given,
         NEW from \in Nat \ {0}, from <= k,
         Account(given, stages, layers, stk, Passing(stages, xs, closed),
                 Coming(stages, layers, stk, ahead, closing), from)
  PROVE  Arrives(stages, k, xs, closed, x)
<1>1. PICK f, all : /\ f = Coming(stages, layers, stk, ahead, closing)
                    /\ all = Passing(stages, xs, closed)
  OBVIOUS
<1>2. Account(given, stages, layers, stk, all, f, from)
  BY <1>1
<1>3. Follows(f, stages, layers, stk, ahead, closing)
  BY <1>1, ComingDef
<1>4. /\ k \in 1..(Len(stages) + 1) /\ k \in from..(Len(stages) + 1)
      /\ k - 1 \in 0..Len(stages) /\ Len(stages) \in Nat
  BY LenType
<1>5. PICK ys \in Seq(Item) : ys = given[k]
  BY <1>2, <1>4 DEF Account
<1>6. ~EndsFrom(stages, k, ys)
  <2>1. ~WillEnd(stages, k, layers, stk, <<>>)
    BY <1>4, WillEndOfNothing DEF Untouched
  <2>2. <<>> \in Seq(Item) /\ ys \o <<>> = ys
    BY NoItems
  <2>3. EndsFrom(stages, k, ys \o <<>>) <=> WillEnd(stages, k, layers, stk, <<>>)
    BY <1>2, <1>4, <1>5, <2>2, Zenon DEF Account, Foresees
  <2> QED
    BY <2>1, <2>2, <2>3
<1>7. Unended(stages, k, ys) /\ all[k - 1] = ys \o f[k - 1]
  <2>1. Unended(stages, k, ys) /\ Gets(stages, k, ys, all[k - 1], f[k - 1])
    BY <1>2, <1>4, <1>5, Zenon DEF Account
  <2> QED
    BY <1>6, <2>1 DEF Gets
<1>8. PICK more \in Seq(Item) : f[k - 1] = Queued(k)[stk] \o more
  <2>1. CASE k = 1
    <3>1. f[0] = Queued(1)[stk] \o ahead
      BY <1>3 DEF Follows
    <3>2. k - 1 = 0
      BY <2>1
    <3> QED
      BY <2>1, <3>1, <3>2, Zenon
  <2>2. CASE k # 1
    <3>1. PICK i \in 1..Len(stages) : i = k - 1 /\ i + 1 = k /\ i - 1 \in 0..Len(stages)
      BY <1>4, <2>2
    <3>2. f[i] = Queued(i + 1)[stk] \o Makes(stages[i], i \in closing)[f[i - 1]][layers[i]]
      BY <1>3, <3>1 DEF Follows
    <3>3. f[i - 1] \in Seq(Item)
      BY <1>3, <3>1 DEF Follows
    <3>4. stages[i] \in Stage /\ layers[i] \in Possible(stages[i])
      <4>1. stages[i] \in Stage
        BY <3>1
      <4>2. layers[i] \in Possible(stages[i])
        BY <3>1, Zenon DEF Able
      <4> QED
        BY <4>1, <4>2
    <3>5. Makes(stages[i], i \in closing)[f[i - 1]][layers[i]] \in Seq(Item)
      <4>1. (i \in closing) \in BOOLEAN
        OBVIOUS
      <4> QED
        BY <3>3, <3>4, <4>1, MakesType
    <3>6. f[k - 1] = Queued(k)[stk] \o Makes(stages[i], i \in closing)[f[i - 1]][layers[i]]
      BY <3>1, <3>2, Zenon
    <3> QED
      BY <3>5, <3>6, Zenon
  <2> QED
    BY <2>1, <2>2
<1>9. PICK zs \in Seq(Item) : zs = rest \o more
  <2>1. rest \o more \in Seq(Item)
    OBVIOUS
  <2> QED
    BY <2>1, Zenon
<1>10. f[k - 1] = <<x>> \o zs
  <2>1. <<x>> \in Seq(Item)
    OBVIOUS
  <2>2. (<<x>> \o rest) \o more = <<x>> \o (rest \o more)
    BY <2>1, Associative
  <2> QED
    BY <1>8, <1>9, <2>2, Zenon
<1>11. PICK whole : whole = Passing(stages, xs, closed)[k - 1] /\ whole = ys \o (<<x>> \o zs)
  BY <1>1, <1>7, <1>10, Zenon
<1> QED
  BY <1>6, <1>7, <1>11, ArrivingNext

(***************************************************************************)
(* A step of the nested calls                                              *)
(***************************************************************************)

\* No stage from the one that is about to be called on has ended the reduction.
LEMMA DueUntouched ==
  ASSUME PipelineTypeOK, StopInv, Due
  PROVE  Untouched(pipeline, Top.at, layer, stack)
<1>1. /\ stack \in Seq(Frame) /\ Top.at \in Nat \ {0} /\ N = Len(pipeline)
      /\ \A s \in 1..Len(stack) : stack[s].at <= Top.at
      /\ ~ReducedWith(layer, Top.at)
  BY DueTop DEF N
<1>2. ASSUME NEW j \in Top.at..Len(pipeline)
      PROVE  ~DataIsReduced(pipeline[j], layer[j])
  BY <1>1 DEF ReducedWith
<1>3. ASSUME NEW j \in (Top.at + 1)..Len(pipeline)
      PROVE  Queued(j)[stack] = <<>>
  <2>1. \A s \in 1..Len(stack) : stack[s].at # j
    <3> SUFFICES ASSUME NEW s \in 1..Len(stack)
                 PROVE  stack[s].at # j
      OBVIOUS
    <3>1. stack[s] \in Frame /\ stack[s].at <= Top.at
      BY <1>1
    <3>2. stack[s].at \in Nat
      BY <3>1 DEF Frame
    <3> QED
      BY <1>1, <3>1, <3>2
  <2> QED
    BY <1>1, <2>1, NothingWaits
<1> QED
  BY <1>2, <1>3 DEF Untouched

\* What the stages have been called with after the call that is due.
Noted(given) == IF Due THEN Taken(given, Top.at, Head(Top.todo)) ELSE given

\* The account is kept by every step.
LEMMA StepAccounts ==
  ASSUME PipelineInv, StopInv, PipelineStep, ~Failing',
         NEW from \in Nat \ {0}, \A i \in 1..Len(stack) : from <= stack[i].at,
         NEW ahead \in Seq(Item), NEW closing, NEW all, NEW given,
         Account(given, pipeline, layer, stack, all,
                 Coming(pipeline, layer, stack, ahead, closing), from)
  PROVE  Account(Noted(given), pipeline, layer', stack', all,
                 Coming(pipeline, layer', stack', ahead, closing), from)
<1>1. /\ N = Len(pipeline) /\ pipeline \in Seq(Stage) /\ N \in Nat
      /\ Able(pipeline, layer) /\ PipelineTypeOK /\ stack \in Seq(Frame)
      /\ PipelineInv'
  BY LayersAble, PipelineStepInv, LenType DEF PipelineInv, PipelineTypeOK, N
<1>2. stack' \in Seq(Frame)
  BY <1>1 DEF PipelineInv, PipelineTypeOK
<1>3. PICK stk, stk2, layers, layers2 :
        /\ stk \in Seq(Frame) /\ stk2 \in Seq(Frame)
        /\ stk = stack /\ stk2 = stack' /\ layers = layer /\ layers2 = layer'
  BY <1>1, <1>2
<1>4. Account(given, pipeline, layers, stk, all,
              Coming(pipeline, layers, stk, ahead, closing), from)
  BY <1>3
<1> SUFFICES Account(Noted(given), pipeline, layers2, stk2, all,
                     Coming(pipeline, layers2, stk2, ahead, closing), from)
  BY <1>3
<1>5. ASSUME Due
      PROVE  /\ from <= Top.at
             /\ \A k, x : (k = Top.at /\ x = Head(Top.todo)) =>
                            Noted(given) = Taken(given, k, x)
  <2>1. Top = stack[1] /\ 1 \in 1..Len(stack)
    BY <1>1, <1>5, DueTop
  <2> QED
    BY <1>5, <2>1 DEF Noted
<1>6. CASE CallStage
  <2>1. PICK k, x, runs :
          /\ k \in 1..Len(pipeline) /\ x \in Item
          /\ k = Top.at /\ x = Head(Top.todo)
          /\ Advances(stk, stk2, k, x, Issued(runs))
          /\ Called(pipeline, k, x, layers, layers2, runs)
    BY <1>1, <1>3, <1>6, CallStageTakes
  <2>2. Due /\ from <= k /\ Noted(given) = Taken(given, k, x)
    BY <1>5, <1>6, <2>1 DEF CallStage
  <2>3. Untouched(pipeline, k, layers, stk)
    BY <1>1, <1>3, <2>1, <2>2, DueUntouched
  <2>4. Account(Taken(given, k, x), pipeline, layers2, stk2, all,
                Coming(pipeline, layers2, stk2, ahead, closing), from)
    BY <1>1, <1>3, <1>4, <2>1, <2>2, <2>3, AccountCalled
  <2> QED
    BY <2>2, <2>4
<1>7. CASE CallBase
  <2>1. PICK k, x, xs :
          /\ k \in Nat /\ x \in Item
          /\ k = Len(pipeline) + 1 /\ k = Top.at /\ x = Head(Top.todo)
          /\ Advances(stk, stk2, k, x, xs)
    BY <1>1, <1>3, <1>7, CallBaseTakes
  <2>2. /\ from <= k /\ Noted(given) = Taken(given, k, x)
        /\ layers2 = layers
    BY <1>3, <1>5, <1>7, <2>1 DEF CallBase
  <2>3. Account(Taken(given, k, x), pipeline, layers, stk2, all,
                Coming(pipeline, layers, stk2, ahead, closing), from)
    BY <1>1, <1>3, <1>4, <2>1, <2>2, AccountOut
  <2> QED
    BY <2>2, <2>3
<1>8. CASE Return
  <2>1. /\ stack # <<>> /\ Top.mode # "throw" /\ ~Due
        /\ stk2 = Tail(stk) /\ layers2 = layers /\ Noted(given) = given
    BY <1>3, <1>8 DEF Return, Noted
  <2>2. /\ Top \in Frame /\ Top = Head(stk) /\ Top = stack[1] /\ 1 \in 1..Len(stack)
        /\ Top.at \in Nat \ {0} /\ stk # <<>>
    BY <1>1, <1>3, <2>1, TopType DEF Top, Frame
  <2>3. ASSUME NEW at, at # Top.at \/ Top.todo = <<>>
        PROVE  Queued(at)[stk] = Queued(at)[stk2]
    <3>1. Queued(at)[stk] =
            (IF Top.at = at THEN Top.todo ELSE <<>>) \o Queued(at)[stk2]
      <4>1. Queued(at)[stk] =
              (IF Head(stk).at = at THEN Head(stk).todo ELSE <<>>) \o Queued(at)[Tail(stk)]
        BY <1>3, <2>2, QueuedDef
      <4> QED
        BY <2>1, <2>2, <4>1, Zenon
    <3>2. Queued(at)[stk] = <<>> \o Queued(at)[stk2]
      BY <2>3, <3>1, Zenon
    <3>3. Queued(at)[stk2] \in Seq(Item)
      BY <1>3, QueuedType
    <3> QED
      BY <3>2, <3>3, NoItems, Zenon
  <2>4. CASE Top.todo = <<>>
    <3>1. SameInput(stk, ahead, stk2, ahead) /\ SameQueued(2, Len(pipeline) + 1, stk, stk2)
      BY <2>3, <2>4, Zenon DEF SameInput, SameQueued
    <3>2. Account(given, pipeline, layers, stk2, all,
                  Coming(pipeline, layers, stk2, ahead, closing), from)
      BY <1>1, <1>3, <1>4, <3>1, AccountAlike
    <3> QED
      BY <2>1, <3>2
  <2>5. CASE Top.todo # <<>>
    <3>1. PICK m \in Top.at..N : DataIsReduced(pipeline[m], layer[m])
      BY <2>1, <2>2, <2>5 DEF Due, Reduced, Frame
    <3>2. PICK j \in 1..Len(pipeline) : j = Top.at /\ m \in j..Len(pipeline)
      BY <1>1, <2>2, <3>1
    <3>3. Drops(j, Len(pipeline) + 1, stk, ahead, stk2, ahead)
      BY <2>3, <3>2, Zenon DEF Drops
    <3>4. from <= j /\ DataIsReduced(pipeline[m], layers[m])
      BY <1>3, <2>2, <3>1, <3>2
    <3>5. Account(given, pipeline, layers, stk2, all,
                  Coming(pipeline, layers, stk2, ahead, closing), from)
      BY <1>1, <1>3, <1>4, <3>2, <3>3, <3>4, AccountDropped
    <3> QED
      BY <2>1, <3>5
  <2> QED
    BY <2>4, <2>5
<1>9. ~ThrowFirst /\ ~Unwind
  BY DEF ThrowFirst, Unwind, Failing
<1>10. ~StepThenThrow
  BY <1>1, WillThrow
<1> QED
  BY <1>6, <1>7, <1>8, <1>9, <1>10 DEF PipelineStep

(***************************************************************************)
(* The account of a state that is fed one item at a time                   *)
(***************************************************************************)

\* The stages have been given the items xs, which the account explains whatever
\* they are given next.
Recalled(stages, layers, stk, xs) ==
  \E given : \A ahead \in Seq(Item) :
    Account(given, stages, layers, stk, Passing(stages, xs \o ahead, FALSE),
            Coming(stages, layers, stk, ahead, {}), 1)

LEMMA PassingFirst ==
  ASSUME NEW stages \in Seq(Stage), NEW xs \in Seq(Item), NEW closed \in BOOLEAN
  PROVE  Passing(stages, xs, closed)[0] = xs
<1> DEFINE layers == [k \in 1..Len(stages) |-> Fresh]
           closing == {k \in 1..Len(stages) : closed}
<1>1. /\ \A k \in 1..Len(stages) : layers[k] = Fresh
      /\ \A k \in 1..Len(stages) : (k \in closing) = closed
  OBVIOUS
<1> HIDE DEF layers, closing
<1>2. /\ Able(stages, layers)
      /\ SameFrom(Coming(stages, layers, <<>>, xs, closing),
                  Passing(stages, xs, closed), 0, Len(stages))
  BY <1>1, ComingPassing
<1>3. <<>> \in Seq(Frame) /\ 0 \in 0..Len(stages)
  BY LenType
<1>4. Coming(stages, layers, <<>>, xs, closing)[0] = Queued(1)[<<>>] \o xs
  <2>1. Follows(Coming(stages, layers, <<>>, xs, closing), stages, layers, <<>>, xs, closing)
    BY <1>2, <1>3, ComingDef
  <2> QED
    BY <2>1 DEF Follows
<1>5. Queued(1)[<<>>] \o xs = xs
  <2>1. <<>> \o xs = xs
    BY NoItems
  <2> QED
    BY <2>1, QueuedEmpty
<1> QED
  BY <1>2, <1>3, <1>4, <1>5 DEF SameFrom

\* Nothing was fed to data that do not exist.
LEMMA RecalledUnused ==
  ASSUME NEW stages \in Seq(Stage), NEW layers, \A k \in 1..Len(stages) : layers[k] = Fresh
  PROVE  Recalled(stages, layers, <<>>, <<>>)
<1> DEFINE given == [k \in 1..(Len(stages) + 1) |-> <<>>]
<1>1. ASSUME NEW ahead \in Seq(Item)
      PROVE  Account(given, stages, layers, <<>>, Passing(stages, <<>> \o ahead, FALSE),
                     Coming(stages, layers, <<>>, ahead, {}), 1)
  <2>1. \A k \in 1..Len(stages) : (k \in {}) = FALSE
    OBVIOUS
  <2>2. Account(given, stages, layers, <<>>, Passing(stages, ahead, FALSE),
                Coming(stages, layers, <<>>, ahead, {}), 1)
    BY <2>1, AccountStart
  <2>3. <<>> \o ahead = ahead
    BY NoItems
  <2> QED
    BY <2>2, <2>3, Zenon
<1> QED
  BY <1>1 DEF Recalled

\* An item is fed.
LEMMA RecalledFed ==
  ASSUME NEW stages \in Seq(Stage), NEW layers, Able(stages, layers), NEW x \in Item,
         NEW xs \in Seq(Item), Recalled(stages, layers, <<>>, xs)
  PROVE  Recalled(stages, layers, <<Loop(1, <<x>>)>>, Append(xs, x))
<1>1. PICK given : \A ahead \in Seq(Item) :
        Account(given, stages, layers, <<>>, Passing(stages, xs \o ahead, FALSE),
                Coming(stages, layers, <<>>, ahead, {}), 1)
  BY DEF Recalled
<1>2. PICK stk \in Seq(Frame), stk2 \in Seq(Frame) :
        stk = <<>> /\ stk2 = <<Loop(1, <<x>>)>>
  <2>1. <<x>> \in Seq(Item) /\ 1 \in Nat \ {0}
    OBVIOUS
  <2>2. PICK fr \in Frame : fr = Loop(1, <<x>>)
    BY <2>1, LoopType
  <2>3. <<>> \in Seq(Frame) /\ <<fr>> \in Seq(Frame)
    OBVIOUS
  <2> QED
    BY <2>2, <2>3, Zenon
<1>3. ASSUME NEW ahead \in Seq(Item)
      PROVE  Account(given, stages, layers, stk2, Passing(stages, Append(xs, x) \o ahead, FALSE),
                     Coming(stages, layers, stk2, ahead, {}), 1)
  <2>1. PICK more \in Seq(Item) : /\ more = <<x>> \o ahead
                                  /\ Append(xs, x) \o ahead = xs \o more
    <3>1. <<x>> \o ahead \in Seq(Item) /\ Append(xs, x) \o ahead = xs \o (<<x>> \o ahead)
      BY Appended
    <3> QED
      BY <3>1, Zenon
  <2>2. PICK all : all = Passing(stages, xs \o more, FALSE)
    OBVIOUS
  <2>3. Account(given, stages, layers, stk, all, Coming(stages, layers, stk, more, {}), 1)
    BY <1>1, <1>2, <2>2, Zenon
  <2>4. SameInput(stk, more, stk2, ahead) /\ SameQueued(2, Len(stages) + 1, stk, stk2)
    <3>1. Len(stages) + 1 \in Nat
      BY LenType
    <3> QED
      BY <1>2, <2>1, <3>1, FeedWaits
  <2>5. Account(given, stages, layers, stk2, all, Coming(stages, layers, stk2, ahead, {}), 1)
    BY <2>3, <2>4, AccountAlike
  <2> QED
    BY <2>1, <2>2, <2>5, Zenon
<1> QED
  BY <1>2, <1>3, Zenon DEF Recalled

\* A step inside a call.
LEMMA RecalledRun ==
  ASSUME PipelineInv, StopInv, PipelineStep, ~Failing', NEW xs,
         Recalled(pipeline, layer, stack, xs)
  PROVE  Recalled(pipeline, layer', stack', xs)
<1>1. PICK given : \A ahead \in Seq(Item) :
        Account(given, pipeline, layer, stack, Passing(pipeline, xs \o ahead, FALSE),
                Coming(pipeline, layer, stack, ahead, {}), 1)
  BY DEF Recalled
<1>2. \A i \in 1..Len(stack) : 1 <= stack[i].at
  <2> SUFFICES ASSUME NEW i \in 1..Len(stack)
               PROVE  1 <= stack[i].at
    OBVIOUS
  <2>1. stack \in Seq(Frame)
    BY DEF PipelineInv, PipelineTypeOK
  <2>2. stack[i] \in Frame
    BY <2>1
  <2>3. stack[i].at \in Nat \ {0}
    BY <2>2 DEF Frame
  <2> QED
    BY <2>3
<1>3. ASSUME NEW ahead \in Seq(Item)
      PROVE  Account(Noted(given), pipeline, layer', stack',
                     Passing(pipeline, xs \o ahead, FALSE),
                     Coming(pipeline, layer', stack', ahead, {}), 1)
  <2>1. PICK from \in Nat \ {0}, all \in {Passing(pipeline, xs \o ahead, FALSE)} :
          all = Passing(pipeline, xs \o ahead, FALSE) /\ from = 1
    OBVIOUS
  <2>2. Account(given, pipeline, layer, stack, all,
                Coming(pipeline, layer, stack, ahead, {}), from)
    BY <1>1, <2>1, Zenon
  <2>3. Account(Noted(given), pipeline, layer', stack', all,
                Coming(pipeline, layer', stack', ahead, {}), from)
    BY <1>2, <2>1, <2>2, StepAccounts
  <2> QED
    BY <2>1, <2>3, Zenon
<1>4. PICK given2 : given2 = Noted(given)
  OBVIOUS
<1> QED
  BY <1>3, <1>4, Zenon DEF Recalled

\* Once no call is in progress, the reduction is over exactly if the items that were
\* given end it, and every stage is left as after the calls with what arrives.
LEMMA RecalledIs ==
  ASSUME NEW stages \in Seq(Stage), NEW layers, Able(stages, layers),
         NEW xs \in Seq(Item), Recalled(stages, layers, <<>>, xs)
  PROVE  /\ (\E j \in 1..Len(stages) : DataIsReduced(stages[j], layers[j]))
              <=> EndsFrom(stages, 1, xs)
         /\ \A k \in 1..Len(stages) :
              layers[k] = After(stages[k])[Arriving(stages, k, xs, FALSE)][Fresh]
<1>1. PICK stk \in Seq(Frame), none \in Seq(Item) : stk = <<>> /\ none = <<>>
  <2>1. <<>> \in Seq(Frame) /\ <<>> \in Seq(Item)
    OBVIOUS
  <2> QED
    BY <2>1
<1>2. PICK given :
        Account(given, stages, layers, stk, Passing(stages, xs, FALSE),
                Coming(stages, layers, stk, none, {}), 1)
  <2>1. PICK given : \A ahead \in Seq(Item) :
          Account(given, stages, layers, <<>>, Passing(stages, xs \o ahead, FALSE),
                  Coming(stages, layers, <<>>, ahead, {}), 1)
    BY DEF Recalled
  <2>2. xs \o none = xs
    BY <1>1, NoItems
  <2>3. Account(given, stages, layers, stk, Passing(stages, xs \o none, FALSE),
                Coming(stages, layers, stk, none, {}), 1)
    BY <1>1, <2>1, Zenon
  <2> QED
    BY <2>2, <2>3, Zenon
<1>3. ASSUME NEW k \in 1..(Len(stages) + 1)
      PROVE  \E ys \in Seq(Item) :
               /\ ys = given[k] /\ Unended(stages, k, ys)
               /\ Gets(stages, k, ys, Passing(stages, xs, FALSE)[k - 1], <<>>)
               /\ Foresees(stages, k, layers, stk, ys)
  <2>1. Coming(stages, layers, stk, none, {})[k - 1] = <<>>
    <3>1. \A i \in 1..k : Queued(i)[stk] = <<>>
      BY <1>1, QueuedEmpty
    <3>2. \A i \in 1..(k - 1) : i \in {} => ~layers[i].called
      OBVIOUS
    <3>3. Coming(stages, layers, stk, <<>>, {})[k - 1] = <<>>
      BY <3>1, <3>2, NothingComes
    <3> QED
      BY <1>1, <3>3, Zenon
  <2>2. PICK ys \in Seq(Item) : ys = given[k]
    BY <1>2 DEF Account
  <2>3. Unended(stages, k, ys) /\ Gets(stages, k, ys, Passing(stages, xs, FALSE)[k - 1], <<>>)
    BY <1>2, <2>1, <2>2, Zenon DEF Account
  <2>4. Foresees(stages, k, layers, stk, ys)
    <3>1. k \in 1..(Len(stages) + 1)
      OBVIOUS
    <3> QED
      BY <1>2, <2>2, <3>1, Zenon DEF Account
  <2> QED
    BY <2>2, <2>3, <2>4
<1>4. ASSUME NEW k \in 1..Len(stages)
      PROVE  layers[k] = After(stages[k])[Arriving(stages, k, xs, FALSE)][Fresh]
  <2>1. k \in 1..(Len(stages) + 1)
    BY LenType
  <2>2. PICK ys \in Seq(Item) :
          /\ ys = given[k] /\ Unended(stages, k, ys)
          /\ Gets(stages, k, ys, Passing(stages, xs, FALSE)[k - 1], <<>>)
    BY <1>3, <2>1
  <2>3. Arriving(stages, k, xs, FALSE) = ys
    BY <2>2, ArrivingIs
  <2>4. Remembers(stages[k], layers[k], ys)
    BY <1>2, <2>2, Zenon DEF Account
  <2>5. stages[k] \in Stage
    OBVIOUS
  <2>6. layers[k] \in Possible(stages[k])
    BY Zenon DEF Able
  <2>7. After(stages[k])[ys \o none][Fresh] = After(stages[k])[none][layers[k]]
    BY <2>4, Zenon DEF Remembers
  <2>8. After(stages[k])[none][layers[k]] = layers[k]
    BY <1>1, <2>5, <2>6, AfterNothing
  <2>9. ys \o none = ys
    BY <1>1, NoItems
  <2> QED
    BY <2>3, <2>7, <2>8, <2>9, Zenon
<1>5. PICK ys \in Seq(Item), zs \in Seq(Item) :
        /\ xs = ys \o zs /\ Foresees(stages, 1, layers, stk, ys)
        /\ zs = <<>> \/ EndsFrom(stages, 1, ys)
  <2>1. 1 \in 1..(Len(stages) + 1)
    BY LenType
  <2>2. PICK ys \in Seq(Item) :
          /\ Gets(stages, 1, ys, Passing(stages, xs, FALSE)[1 - 1], <<>>)
          /\ Foresees(stages, 1, layers, stk, ys)
    BY <1>3, <2>1
  <2>3. PICK first : first = Passing(stages, xs, FALSE)[1 - 1] /\ first = xs
    <3>1. FALSE \in BOOLEAN
      OBVIOUS
    <3>2. Passing(stages, xs, FALSE)[0] = xs
      BY <3>1, PassingFirst, Zenon
    <3>3. 1 - 1 = 0
      OBVIOUS
    <3> QED
      BY <3>2, <3>3, Zenon
  <2>4. Gets(stages, 1, ys, first, <<>>)
    BY <2>2, <2>3, Zenon
  <2>5. PICK zs \in Seq(Item) : first = ys \o zs /\ (zs = <<>> \/ EndsFrom(stages, 1, ys))
    <3>1. <<>> \in Seq(Item)
      OBVIOUS
    <3>2. CASE first = ys \o <<>>
      BY <3>1, <3>2
    <3>3. CASE EndsFrom(stages, 1, ys) /\ \E zs \in Seq(Item) : first = ys \o zs
      BY <3>3, Zenon
    <3> QED
      BY <2>4, <3>2, <3>3 DEF Gets
  <2> QED
    BY <2>2, <2>3, <2>5, Zenon
<1>6. 1 \in 1..(Len(stages) + 1)
  BY LenType
<1>7. EndsFrom(stages, 1, xs) <=> WillEnd(stages, 1, layers, stk, zs)
  BY <1>5, Zenon DEF Foresees
<1>8. ASSUME NEW j \in 1..Len(stages), DataIsReduced(stages[j], layers[j])
      PROVE  EndsFrom(stages, 1, xs)
  BY <1>6, <1>7, <1>8, WillEndReduced
<1>9. ASSUME EndsFrom(stages, 1, xs)
      PROVE  \E j \in 1..Len(stages) : DataIsReduced(stages[j], layers[j])
  <2>1. WillEnd(stages, 1, layers, stk, none)
    <3>1. CASE zs = <<>>
      BY <1>1, <1>7, <1>9, <3>1
    <3>2. CASE EndsFrom(stages, 1, ys)
      <4>1. ys \o none = ys
        BY <1>1, NoItems
      <4>2. EndsFrom(stages, 1, ys \o none) <=> WillEnd(stages, 1, layers, stk, none)
        BY <1>5, Zenon DEF Foresees
      <4> QED
        BY <3>2, <4>1, <4>2, Zenon
    <3> QED
      BY <1>5, <3>1, <3>2
  <2>2. \A k \in (1 + 1)..Len(stages) : Queued(k)[stk] = <<>>
    BY <1>1, QueuedEmpty
  <2> QED
    BY <1>1, <1>6, <2>1, <2>2, WillEndOfNothing
<1> QED
  BY <1>4, <1>8, <1>9
=============================================================================

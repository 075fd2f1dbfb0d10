-------------------------- MODULE StagewiseProofs ---------------------------
(***************************************************************************)
(* Stage by stage: what the calls in progress are still to put out, told   *)
(* by Makes of each stage on its own, and that no step of the nested calls *)
(* changes it.  The provers cannot take an induction principle that is     *)
(* about a predicate; here it is about a set, and follows from a set being *)
(* well-founded.  From it follow what Makes and Passing, which are defined *)
(* by recursion over sequences, do with longer sequences.                  *)
(***************************************************************************)
EXTENDS PipelineProofs, Stagewise, WellFoundedInduction

(***************************************************************************)
(* Induction                                                               *)
(***************************************************************************)

\* A set of natural numbers has a least element: the intervals that end in its
\* elements are finite sets, among which strict inclusion is well-founded.
LEMMA LeastElement ==
  ASSUME NEW T \in SUBSET Nat, T # {}
  PROVE  \E m \in T : \A k \in T : m <= k
<1> DEFINE Below == {0..m : m \in T}
           R == StrictSubsetOrdering(Nat)
<1>1. IsWellFoundedOn(R, FiniteSubsetsOf(Nat))
  BY FS_StrictSubsetOrderingWellFounded
<1>2. Below \subseteq FiniteSubsetsOf(Nat)
  <2> SUFFICES ASSUME NEW m \in T
               PROVE  0..m \in FiniteSubsetsOf(Nat)
    OBVIOUS
  <2>1. IsFiniteSet(0..m)
    BY FS_Interval
  <2> QED
    BY <2>1 DEF FiniteSubsetsOf
<1>3. PICK b \in Below : \A c \in Below : <<c, b>> \notin R
  <2>1. Below # {}
    OBVIOUS
  <2> HIDE DEF Below, R
  <2> QED
    BY <1>1, <1>2, <2>1, WFMin
<1>4. PICK m \in T : b = 0..m
  BY <1>3
<1>5. \A k \in T : m <= k
  <2> SUFFICES ASSUME NEW k \in T, k < m
               PROVE  FALSE
    OBVIOUS
  <2>1. 0..k \in Below /\ 0..k \subseteq 0..m /\ m \in 0..m /\ m \notin 0..k
    OBVIOUS
  <2>2. 0..k # 0..m /\ 0..m \in SUBSET Nat /\ 0..k \in SUBSET Nat
    BY <2>1
  <2>3. <<0..k, 0..m>> \in R
    BY <2>1, <2>2 DEF StrictSubsetOrdering
  <2> QED
    BY <1>3, <1>4, <2>1, <2>3
<1> QED
  BY <1>5

\* Induction over 0..m for a set of numbers.
LEMMA IntervalInduction ==
  ASSUME NEW m \in Nat, NEW T, 0 \in T,
         \A n \in 0..(m - 1) : n \in T => n + 1 \in T
  PROVE  0..m \subseteq T
<1> SUFFICES ASSUME (0..m) \ T # {}
             PROVE  FALSE
  OBVIOUS
<1>1. PICK n \in (0..m) \ T : \A k \in (0..m) \ T : n <= k
  <2>1. (0..m) \ T \in SUBSET Nat
    OBVIOUS
  <2> QED
    BY <2>1, LeastElement
<1>2. n # 0 /\ n - 1 \in 0..(m - 1)
  BY <1>1
<1>3. n - 1 \in T
  BY <1>1, <1>2
<1> QED
  BY <1>1, <1>2, <1>3

\* A function that is defined by recursion over 0..m satisfies its definition ...
Defined(g, n, a, h) ==
  g[0] = a /\ \A i \in 1..n : g[i] = h[<<g[i - 1], i>>]

LEMMA Recursion ==
  ASSUME NEW S, NEW a \in S, NEW m \in Nat, NEW h \in [S \X (1..m) -> S]
  PROVE  \E f \in [0..m -> S] :
           /\ Defined(f, m, a, h)
           /\ f = [n \in 0..m |-> IF n = 0 THEN a ELSE h[<<f[n - 1], n>>]]
<1> DEFINE T == {n \in 0..m : \E g \in [0..n -> S] : Defined(g, n, a, h)}
<1>1. 0 \in T
  <2>1. \E g \in [0..0 -> S] : g[0] = a
    <3>1. [i \in 0..0 |-> a] \in [0..0 -> S] /\ [i \in 0..0 |-> a][0] = a
      OBVIOUS
    <3> QED
      BY <3>1
  <2>2. \E g \in [0..0 -> S] : Defined(g, 0, a, h)
    BY <2>1 DEF Defined
  <2>3. 0 \in 0..m
    OBVIOUS
  <2> QED
    BY <2>2, <2>3
<1>2. ASSUME NEW n \in 0..(m - 1), n \in T
      PROVE  n + 1 \in T
  <2>1. PICK g \in [0..n -> S] : Defined(g, n, a, h)
    BY <1>2
  <2>2. PICK b \in S : b = h[<<g[n], n + 1>>]
    <3>1. g[n] \in S /\ n + 1 \in 1..m
      OBVIOUS
    <3> QED
      BY <3>1
  <2>3. PICK k \in [0..(n + 1) -> S] : k[n + 1] = b /\ \A i \in 0..n : k[i] = g[i]
    <3> DEFINE k == [i \in 0..(n + 1) |-> IF i = n + 1 THEN b ELSE g[i]]
    <3>1. k \in [0..(n + 1) -> S] /\ k[n + 1] = b /\ \A i \in 0..n : k[i] = g[i]
      OBVIOUS
    <3> HIDE DEF k
    <3> QED
      BY <3>1
  <2>4. Defined(k, n + 1, a, h)
    <3> SUFFICES ASSUME NEW i \in 1..(n + 1)
                 PROVE  k[i] = h[<<k[i - 1], i>>]
      BY <2>1, <2>3 DEF Defined
    <3>1. CASE i = n + 1
      <4>1. k[i] = b /\ k[i - 1] = g[n]
        BY <2>3, <3>1
      <4> QED
        BY <2>2, <3>1, <4>1
    <3>2. CASE i # n + 1
      <4>1. i \in 1..n /\ i - 1 \in 0..n /\ i \in 0..n
        BY <3>2
      <4>2. k[i] = g[i] /\ k[i - 1] = g[i - 1] /\ g[i] = h[<<g[i - 1], i>>]
        BY <2>1, <2>3, <4>1 DEF Defined
      <4> QED
        BY <4>2
    <3> QED
      BY <3>1, <3>2
  <2>5. n + 1 \in 0..m
    OBVIOUS
  <2> QED
    BY <2>4, <2>5
<1>3. m \in T
  <2> HIDE DEF T
  <2> QED
    BY <1>1, <1>2, IntervalInduction
<1>4. PICK f \in [0..m -> S] : Defined(f, m, a, h)
  BY <1>3
<1>5. f = [n \in 0..m |-> IF n = 0 THEN a ELSE h[<<f[n - 1], n>>]]
  BY <1>4 DEF Defined
<1> QED
  BY <1>4, <1>5

\* ... and has its type, whatever it was defined with.
LEMMA RecursionType ==
  ASSUME NEW S, NEW a \in S, NEW m \in Nat, NEW h \in [S \X (1..m) -> S],
         NEW f, f[0] = a, \A n \in 1..m : f[n - 1] \in S => f[n] = h[<<f[n - 1], n>>]
  PROVE  \A n \in 0..m : f[n] \in S
<1> DEFINE T == {n \in 0..m : f[n] \in S}
<1>1. 0 \in T
  OBVIOUS
<1>2. ASSUME NEW n \in 0..(m - 1), n \in T
      PROVE  n + 1 \in T
  <2>1. PICK k \in 1..m : k = n + 1 /\ k - 1 = n
    OBVIOUS
  <2>2. f[k - 1] \in S
    BY <1>2, <2>1
  <2>3. f[k] \in S
    BY <2>2
  <2> QED
    BY <2>1, <2>3
<1>3. 0..m \subseteq T
  <2> HIDE DEF T
  <2> QED
    BY <1>1, <1>2, IntervalInduction
<1> QED
  BY <1>3

\* f and g take the same steps from lo to hi.
Alike(f, g, lo, hi) == \A n \in (lo + 1)..hi : f[n - 1] = g[n - 1] => f[n] = g[n]

\* Two functions that agree somewhere and take the same steps from there agree.
LEMMA SameCourse ==
  ASSUME NEW lo \in Nat, NEW hi \in Nat, lo <= hi, NEW f, NEW g, f[lo] = g[lo],
         Alike(f, g, lo, hi)
  PROVE  f[hi] = g[hi]
<1> DEFINE T == {n \in 0..hi : n >= lo => f[n] = g[n]}
<1>1. 0 \in T
  OBVIOUS
<1>2. ASSUME NEW n \in 0..(hi - 1), n \in T
      PROVE  n + 1 \in T
  <2>1. PICK k \in 1..hi : k = n + 1 /\ k - 1 = n
    OBVIOUS
  <2>2. k >= lo => f[k] = g[k]
    BY <1>2, <2>1 DEF Alike
  <2> QED
    BY <2>1, <2>2
<1>3. 0..hi \subseteq T
  <2> HIDE DEF T
  <2> QED
    BY <1>1, <1>2, IntervalInduction
<1> QED
  BY <1>3

\* Induction over sequences, from the tail to the whole.
LEMMA SequenceInduction ==
  ASSUME NEW V, NEW T, <<>> \in T,
         \A xs \in Seq(V) : (xs # <<>> /\ Tail(xs) \in T) => xs \in T
  PROVE  Seq(V) \subseteq T
<1> SUFFICES ASSUME NEW xs \in Seq(V)
             PROVE  xs \in T
  OBVIOUS
<1> DEFINE D == {n \in 0..Len(xs) : \A ys \in Seq(V) : Len(ys) = n => ys \in T}
<1>1. 0 \in D
  <2>1. \A ys \in Seq(V) : Len(ys) = 0 => ys = <<>>
    OBVIOUS
  <2> QED
    BY <2>1
<1>2. ASSUME NEW n \in 0..(Len(xs) - 1), n \in D
      PROVE  n + 1 \in D
  <2>1. ASSUME NEW ys \in Seq(V), Len(ys) = n + 1
        PROVE  ys \in T
    <3>1. ys # <<>> /\ Tail(ys) \in Seq(V) /\ Len(Tail(ys)) = n
      BY <2>1
    <3>2. Tail(ys) \in T
      BY <1>2, <3>1
    <3> QED
      BY <3>1, <3>2
  <2>2. n + 1 \in 0..Len(xs)
    OBVIOUS
  <2> QED
    BY <2>1, <2>2
<1>3. 0..Len(xs) \subseteq D
  <2>1. Len(xs) \in Nat
    OBVIOUS
  <2> HIDE DEF D
  <2> QED
    BY <1>1, <1>2, <2>1, IntervalInduction
<1>4. Len(xs) \in D
  <2>1. Len(xs) \in 0..Len(xs)
    OBVIOUS
  <2> QED
    BY <1>3, <2>1
<1> QED
  BY <1>4

\* A sequence is taken apart into what was put together.
LEMMA Prepended ==
  ASSUME NEW V, NEW x \in V, NEW xs \in Seq(V)
  PROVE  /\ <<x>> \o xs \in Seq(V)
         /\ <<x>> \o xs # <<>>
         /\ Head(<<x>> \o xs) = x
         /\ Tail(<<x>> \o xs) = xs
OBVIOUS

\* f is defined by recursion over sequences: from the head and from what it makes
\* of the tail.
Unfolds(f, V, a, h) ==
  \A xs \in Seq(V) : f[xs] = IF xs = <<>> THEN a ELSE h[<<Head(xs), f[Tail(xs)]>>]

\* A function that is defined by recursion over sequences, with the head and
\* what it makes of the tail, has a solution: Approach(n) gets it right up to
\* length n.
LEMMA SequenceRecursion ==
  ASSUME NEW V, NEW S, NEW a \in S, NEW h \in [V \X S -> S]
  PROVE  \E f \in [Seq(V) -> S] : Unfolds(f, V, a, h)
<1> DEFINE F == [Seq(V) -> S]
           start == [xs \in Seq(V) |-> a]
           better(phi) == [xs \in Seq(V) |->
                             IF xs = <<>> THEN a ELSE h[<<Head(xs), phi[Tail(xs)]>>]]
           Course(m) == CHOOSE g \in [0..m -> F] :
                          /\ g[0] = start
                          /\ \A n \in 1..m : g[n] = better(g[n - 1])
<1>1. start \in F
  OBVIOUS
<1>2. ASSUME NEW phi \in F
      PROVE  better(phi) \in F
  <2> SUFFICES ASSUME NEW xs \in Seq(V), xs # <<>>
               PROVE  h[<<Head(xs), phi[Tail(xs)]>>] \in S
    OBVIOUS
  <2>1. Head(xs) \in V /\ Tail(xs) \in Seq(V)
    OBVIOUS
  <2> QED
    BY <2>1
<1>3. ASSUME NEW m \in Nat
      PROVE  /\ Course(m) \in [0..m -> F]
             /\ Course(m)[0] = start
             /\ \A n \in 1..m : Course(m)[n] = better(Course(m)[n - 1])
  <2> DEFINE step == [p \in F \X (1..m) |-> better(p[1])]
  <2>1. step \in [F \X (1..m) -> F]
    <3> HIDE DEF F, better
    <3> QED
      BY <1>2
  <2>2. \A phi \in F, n \in 1..m : step[<<phi, n>>] = better(phi)
    <3> HIDE DEF F, better
    <3> QED
      OBVIOUS
  <2> HIDE DEF F, start, better, step
  <2>3. PICK g \in [0..m -> F] : Defined(g, m, start, step)
    BY <1>1, <2>1, Recursion, Zenon
  <2>4. g[0] = start /\ \A n \in 1..m : g[n] = better(g[n - 1])
    <3>1. \A n \in 1..m : n - 1 \in 0..m
      OBVIOUS
    <3> QED
      BY <2>2, <2>3, <3>1 DEF Defined
  <2>5. \E k \in [0..m -> F] : k[0] = start /\ \A n \in 1..m : k[n] = better(k[n - 1])
    BY <2>4
  <2> QED
    BY <2>5 DEF Course
<1>4. ASSUME NEW m \in Nat \ {0}
      PROVE  Course(m)[m - 1] = Course(m - 1)[m - 1]
  <2>1. PICK n \in Nat : n = m - 1
    OBVIOUS
  <2>2. PICK f \in [0..m -> F] : f = Course(m) /\ f[0] = start
                                 /\ \A i \in 1..m : f[i] = better(f[i - 1])
    BY <1>3
  <2>3. PICK g \in [0..n -> F] : g = Course(n) /\ g[0] = start
                                 /\ \A i \in 1..n : g[i] = better(g[i - 1])
    BY <1>3
  <2> HIDE DEF Course, better, start, F
  <2>4. f[0] = g[0] /\ Alike(f, g, 0, n)
    <3>1. \A i \in (0 + 1)..n : i \in 1..m /\ i \in 1..n
      BY <2>1
    <3> QED
      BY <2>2, <2>3, <3>1 DEF Alike
  <2>5. f[n] = g[n]
    <3>1. 0 \in Nat /\ 0 <= n
      OBVIOUS
    <3> QED
      BY <2>4, <3>1, SameCourse
  <2> QED
    BY <2>1, <2>2, <2>3, <2>5
<1> DEFINE f == [xs \in Seq(V) |-> Course(Len(xs))[Len(xs)][xs]]
<1>5. f \in F
  <2> SUFFICES ASSUME NEW xs \in Seq(V)
               PROVE  Course(Len(xs))[Len(xs)][xs] \in S
    OBVIOUS
  <2>1. Len(xs) \in Nat /\ Len(xs) \in 0..Len(xs)
    OBVIOUS
  <2>2. Course(Len(xs)) \in [0..Len(xs) -> F]
    BY <1>3, <2>1
  <2>3. Course(Len(xs))[Len(xs)] \in F
    BY <2>1, <2>2
  <2> HIDE DEF Course
  <2> QED
    BY <2>3
<1>6. ASSUME NEW xs \in Seq(V)
      PROVE  f[xs] = IF xs = <<>> THEN a ELSE h[<<Head(xs), f[Tail(xs)]>>]
  <2>1. CASE xs = <<>>
    <3>1. Len(xs) = 0
      BY <2>1
    <3> HIDE DEF Course, start
    <3>2. Course(0)[0] = start
      BY <1>3
    <3> USE DEF start
    <3>3. f[xs] = start[xs]
      BY <3>1, <3>2
    <3> QED
      BY <2>1, <3>3
  <2>2. CASE xs # <<>>
    <3>1. PICK m \in Nat \ {0} : m = Len(xs)
      BY <2>2
    <3>2. Tail(xs) \in Seq(V) /\ Len(Tail(xs)) = m - 1
      BY <2>2, <3>1
    <3>4. Course(m)[m - 1] = Course(m - 1)[m - 1]
      BY <1>4
    <3> HIDE DEF Course, better
    <3>3. Course(m)[m] = better(Course(m)[m - 1])
      BY <1>3, m \in 1..m
    <3> USE DEF better
    <3>5. f[Tail(xs)] = Course(m)[m - 1][Tail(xs)]
      BY <3>2, <3>4
    <3>6. f[xs] = better(Course(m)[m - 1])[xs]
      BY <3>1, <3>3
    <3> QED
      BY <2>2, <3>5, <3>6
  <2> QED
    BY <2>1, <2>2
<1> HIDE DEF f
<1>7. Unfolds(f, V, a, h)
  BY <1>6 DEF Unfolds
<1> QED
  BY <1>5, <1>7

(***************************************************************************)
(* What a stage makes of a sequence                                        *)
(***************************************************************************)

\* The items of the reductions of a call are items, those of the first one and
\* those of a second one.
LEMMA IssuedType ==
  ASSUME NEW runs \in Seq(Seq(Item))
  PROVE  Issued(runs) \in Seq(Item)
<1>1. CASE runs = <<>>
  BY <1>1 DEF Issued
<1>2. CASE runs # <<>> /\ Tail(runs) = <<>>
  <2>1. runs[1] \in Seq(Item)
    BY <1>2
  <2> QED
    BY <1>2, <2>1 DEF Issued
<1>3. CASE runs # <<>> /\ Tail(runs) # <<>>
  <2>1. runs[1] \in Seq(Item) /\ runs[2] \in Seq(Item)
    BY <1>3
  <2>2. runs[1] \o runs[2] \in Seq(Item)
    BY <2>1
  <2> QED
    BY <1>3, <2>2 DEF Issued
<1> QED
  BY <1>1, <1>2, <1>3

\* A call that does not throw leaves a layer that the stage may have, and items.
LEMMA CallPossible ==
  ASSUME NEW st \in Stage, NEW l \in Possible(st), NEW x \in Item,
         ~Throws(st, l, x)
  PROVE  /\ Step(st, l, x).layer \in Possible(st)
         /\ Step(st, l, x).runs \in Ran
         /\ Issued(Step(st, l, x).runs) \in Seq(Item)
<1>1. l \in Layer /\ ~ThrowsFirst(st, l) /\ (l.called => ~ThrowsFirst(st, Fresh))
  BY DEF Possible, Throws
<1>2. ~ThrowsFirst(st, Fresh)
  BY <1>1 DEF ThrowsFirst, Fresh
<1>3. st.kind = "cycle" => st.range # <<>>
  BY <1>2 DEF ThrowsFirst, Fresh
<1>4. Result(Step(st, l, x))
  BY <1>1, <1>3, StepType
<1> QED
  BY <1>2, <1>4, IssuedType DEF Possible, Result, Ran

\* Makes is a function of the items and the layer that satisfies its definition.
LEMMA MakesDef ==
  ASSUME NEW st \in Stage, NEW closed \in BOOLEAN
  PROVE  /\ Makes(st, closed) \in [Seq(Item) -> [Possible(st) -> Seq(Item)]]
         /\ \A xs \in Seq(Item), l \in Possible(st) :
              Makes(st, closed)[xs][l] =
                IF xs = <<>> \/ DataIsReduced(st, l) \/ Throws(st, l, Head(xs))
                THEN IF closed THEN Flush(st, l) ELSE <<>>
                ELSE Issued(Step(st, l, Head(xs)).runs)
                       \o Makes(st, closed)[Tail(xs)][Step(st, l, Head(xs)).layer]
<1> DEFINE S == [Possible(st) -> Seq(Item)]
           held(l) == IF closed THEN Flush(st, l) ELSE <<>>
           body(xs, l, made) ==
             IF xs = <<>> \/ DataIsReduced(st, l) \/ Throws(st, l, Head(xs))
             THEN held(l)
             ELSE Issued(Step(st, l, Head(xs)).runs)
                    \o made[Tail(xs)][Step(st, l, Head(xs)).layer]
           more(x, m) ==
             [l \in Possible(st) |->
                IF DataIsReduced(st, l) \/ Throws(st, l, x)
                THEN held(l)
                ELSE Issued(Step(st, l, x).runs) \o m[Step(st, l, x).layer]]
           start == [l \in Possible(st) |-> held(l)]
           h == [p \in Item \X S |-> more(p[1], p[2])]
<1>1. \A l \in Possible(st) : held(l) \in Seq(Item)
  BY FlushType DEF Possible
<1>2. start \in S
  BY <1>1
<1>3. ASSUME NEW x \in Item, NEW m \in S
      PROVE  more(x, m) \in S
  <2> SUFFICES ASSUME NEW l \in Possible(st), ~Throws(st, l, x)
               PROVE  Issued(Step(st, l, x).runs) \o m[Step(st, l, x).layer] \in Seq(Item)
    BY <1>1
  <2>1. /\ Step(st, l, x).layer \in Possible(st)
        /\ Issued(Step(st, l, x).runs) \in Seq(Item)
    BY CallPossible
  <2>2. m[Step(st, l, x).layer] \in Seq(Item)
    BY <2>1
  <2> QED
    BY <2>1, <2>2
<1>4. h \in [Item \X S -> S]
  <2> HIDE DEF S, more
  <2> QED
    BY <1>3
<1>5. \A x \in Item, m \in S : h[<<x, m>>] = more(x, m)
  <2> HIDE DEF S, more
  <2> QED
    OBVIOUS
<1>6. PICK f \in [Seq(Item) -> S] : Unfolds(f, Item, start, h)
  <2> HIDE DEF S, start, h
  <2> QED
    BY <1>2, <1>4, SequenceRecursion, Zenon
<1>7. \A xs \in Seq(Item) : f[xs] = [l \in Possible(st) |-> body(xs, l, f)]
  <2> SUFFICES ASSUME NEW xs \in Seq(Item)
               PROVE  f[xs] = [l \in Possible(st) |-> body(xs, l, f)]
    OBVIOUS
  <2>1. CASE xs = <<>>
    <3>1. f[xs] = start
      BY <1>6, <2>1 DEF Unfolds
    <3> QED
      BY <2>1, <3>1
  <2>2. CASE xs # <<>>
    <3>1. Head(xs) \in Item /\ Tail(xs) \in Seq(Item)
      BY <2>2
    <3>2. f[Tail(xs)] \in S
      BY <3>1
    <3>3. f[xs] = more(Head(xs), f[Tail(xs)])
      <4> HIDE DEF S, more, h
      <4> QED
        BY <1>5, <1>6, <2>2, <3>1, <3>2 DEF Unfolds
    <3> QED
      BY <2>2, <3>3
  <2> QED
    BY <2>1, <2>2
<1> DEFINE Is(g) == g = [xs \in Seq(Item) |-> [l \in Possible(st) |-> body(xs, l, g)]]
<1>8. Is(f)
  <2>1. f = [xs \in Seq(Item) |-> f[xs]]
    OBVIOUS
  <2> HIDE DEF S, body
  <2> QED
    BY <1>7, <2>1
<1>9. Is(Makes(st, closed))
  <2>1. Makes(st, closed) = CHOOSE g : Is(g)
    BY DEF Makes
  <2> HIDE DEF Is
  <2> QED
    BY <1>8, <2>1
<1> DEFINE g == Makes(st, closed)
<1> HIDE DEF g
<1>10. \A xs \in Seq(Item) : g[xs] = [l \in Possible(st) |-> body(xs, l, g)]
  <2> HIDE DEF body
  <2> QED
    BY <1>9 DEF g
<1>11. \A xs \in Seq(Item) : g[xs] \in S
  <2> DEFINE T == {xs \in Seq(Item) : g[xs] \in S}
  <2>1. <<>> \in T
    <3>1. g[<<>>] = start
      <4>1. <<>> \in Seq(Item)
        OBVIOUS
      <4>2. g[<<>>] = [l \in Possible(st) |-> body(<<>>, l, g)]
        <5> HIDE DEF body
        <5> QED
          BY <1>10, <4>1
      <4> QED
        BY <4>2
    <3> HIDE DEF start, S
    <3> QED
      BY <1>2, <3>1
  <2>2. ASSUME NEW xs \in Seq(Item), xs # <<>>, Tail(xs) \in T
        PROVE  xs \in T
    <3>1. Head(xs) \in Item /\ g[Tail(xs)] \in S
      BY <2>2
    <3>2. g[xs] = more(Head(xs), g[Tail(xs)])
      BY <1>10, <2>2
    <3> HIDE DEF more, S
    <3> QED
      BY <1>3, <3>1, <3>2
  <2>3. Seq(Item) \subseteq T
    <3> HIDE DEF T
    <3> QED
      BY <2>1, <2>2, SequenceInduction
  <2> QED
    BY <2>3
<1>12. g \in [Seq(Item) -> S]
  <2>1. g = [xs \in Seq(Item) |-> [l \in Possible(st) |-> body(xs, l, g)]]
    BY <1>9 DEF g
  <2> HIDE DEF S, body
  <2> QED
    BY <1>11, <2>1
<1>13. \A xs \in Seq(Item), l \in Possible(st) : g[xs][l] = body(xs, l, g)
  <2> HIDE DEF body
  <2> QED
    BY <1>10
<1> QED
  BY <1>12, <1>13 DEF g

\* A stage is called with the first of the items ...
LEMMA MakesCall ==
  ASSUME NEW st \in Stage, NEW closed \in BOOLEAN, NEW l \in Possible(st),
         NEW x \in Item, NEW xs \in Seq(Item),
         ~DataIsReduced(st, l), ~Throws(st, l, x)
  PROVE  Makes(st, closed)[<<x>> \o xs][l] =
           Issued(Step(st, l, x).runs) \o Makes(st, closed)[xs][Step(st, l, x).layer]
<1> DEFINE ys == <<x>> \o xs
<1>1. ys \in Seq(Item) /\ ys # <<>> /\ Head(ys) = x /\ Tail(ys) = xs
  BY Prepended
<1> HIDE DEF ys
<1>2. Makes(st, closed)[ys][l] =
        Issued(Step(st, l, x).runs) \o Makes(st, closed)[xs][Step(st, l, x).layer]
  BY <1>1, MakesDef
<1> QED
  BY <1>2 DEF ys

\* ... or makes nothing of any of them.
LEMMA MakesNothing ==
  ASSUME NEW st \in Stage, NEW closed \in BOOLEAN, NEW l \in Possible(st),
         NEW xs \in Seq(Item), xs = <<>> \/ DataIsReduced(st, l)
  PROVE  Makes(st, closed)[xs][l] = IF closed THEN Flush(st, l) ELSE <<>>
BY MakesDef

LEMMA MakesReduced ==
  ASSUME NEW st \in Stage, NEW closed \in BOOLEAN, NEW l \in Possible(st),
         NEW xs \in Seq(Item), NEW ys \in Seq(Item), DataIsReduced(st, l)
  PROVE  Makes(st, closed)[xs][l] = Makes(st, closed)[ys][l]
<1>1. Makes(st, closed)[xs][l] = IF closed THEN Flush(st, l) ELSE <<>>
  BY MakesNothing
<1>2. Makes(st, closed)[ys][l] = IF closed THEN Flush(st, l) ELSE <<>>
  BY MakesNothing
<1> QED
  BY <1>1, <1>2

LEMMA MakesOfNothing ==
  ASSUME NEW st \in Stage, NEW closed \in BOOLEAN, NEW l \in Possible(st)
  PROVE  Makes(st, closed)[<<>>][l] = IF closed THEN Flush(st, l) ELSE <<>>
<1>1. PICK xs \in Seq(Item) : xs = <<>>
  BY EmptyType
<1>2. Makes(st, closed)[xs][l] = IF closed THEN Flush(st, l) ELSE <<>>
  BY <1>1, MakesNothing
<1> QED
  BY <1>1, <1>2

LEMMA MakesType ==
  ASSUME NEW st \in Stage, NEW closed \in BOOLEAN, NEW l \in Possible(st),
         NEW xs \in Seq(Item)
  PROVE  Makes(st, closed)[xs][l] \in Seq(Item)
<1>1. Makes(st, closed)[xs] \in [Possible(st) -> Seq(Item)]
  BY MakesDef
<1> QED
  BY <1>1

(***************************************************************************)
(* What waits for a stage                                                  *)
(***************************************************************************)

\* The items with which the reductions in progress will call stage `at`.
Queued(at) ==
  LET waiting[stk \in Seq(Frame)] ==
        IF stk = <<>> THEN <<>>
        ELSE (IF Head(stk).at = at THEN Head(stk).todo ELSE <<>>) \o waiting[Tail(stk)]
  IN  waiting

LEMMA QueuedDef ==
  ASSUME NEW at
  PROVE  /\ Queued(at) \in [Seq(Frame) -> Seq(Item)]
         /\ \A c \in Seq(Frame) :
              Queued(at)[c] =
                IF c = <<>> THEN <<>>
                ELSE (IF Head(c).at = at THEN Head(c).todo ELSE <<>>) \o Queued(at)[Tail(c)]
<1> DEFINE part(fr) == IF fr.at = at THEN fr.todo ELSE <<>>
           h == [p \in Frame \X Seq(Item) |-> part(p[1]) \o p[2]]
           Is(g) == g = [c \in Seq(Frame) |->
                           IF c = <<>> THEN <<>> ELSE part(Head(c)) \o g[Tail(c)]]
<1>1. \A fr \in Frame : part(fr) \in Seq(Item)
  BY DEF Frame
<1>2. \A fr \in Frame, m \in Seq(Item) : part(fr) \o m \in Seq(Item)
  <2> HIDE DEF part
  <2> QED
    BY <1>1
<1>3. h \in [Frame \X Seq(Item) -> Seq(Item)]
  <2> HIDE DEF part
  <2> QED
    BY <1>2
<1>4. PICK f \in [Seq(Frame) -> Seq(Item)] : Unfolds(f, Frame, <<>>, h)
  <2>1. <<>> \in Seq(Item)
    OBVIOUS
  <2> HIDE DEF h
  <2> QED
    BY <1>3, <2>1, SequenceRecursion, Zenon
<1>5. ASSUME NEW c \in Seq(Frame)
      PROVE  f[c] = IF c = <<>> THEN <<>> ELSE part(Head(c)) \o f[Tail(c)]
  <2>1. c # <<>> => Head(c) \in Frame /\ Tail(c) \in Seq(Frame)
    OBVIOUS
  <2>2. \A fr \in Frame, m \in Seq(Item) : h[<<fr, m>>] = part(fr) \o m
    <3> HIDE DEF part
    <3> QED
      OBVIOUS
  <2> HIDE DEF h, part
  <2> QED
    BY <1>4, <2>1, <2>2 DEF Unfolds
<1>6. Is(f)
  <2>1. f = [c \in Seq(Frame) |-> f[c]]
    OBVIOUS
  <2> HIDE DEF part
  <2> QED
    BY <1>5, <2>1
<1>7. Is(Queued(at))
  <2>1. Queued(at) = CHOOSE g : Is(g)
    BY DEF Queued
  <2> HIDE DEF Is
  <2> QED
    BY <1>6, <2>1
<1> DEFINE g == Queued(at)
<1> HIDE DEF g
<1>8. \A c \in Seq(Frame) : g[c] = IF c = <<>> THEN <<>> ELSE part(Head(c)) \o g[Tail(c)]
  <2> HIDE DEF part
  <2> QED
    BY <1>7 DEF g
<1>9. \A c \in Seq(Frame) : g[c] \in Seq(Item)
  <2> DEFINE T == {c \in Seq(Frame) : g[c] \in Seq(Item)}
  <2>1. <<>> \in T
    <3>1. <<>> \in Seq(Frame) /\ <<>> \in Seq(Item)
      OBVIOUS
    <3> QED
      BY <1>8, <3>1
  <2>2. ASSUME NEW c \in Seq(Frame), c # <<>>, Tail(c) \in T
        PROVE  c \in T
    <3>1. Head(c) \in Frame /\ g[Tail(c)] \in Seq(Item)
      BY <2>2
    <3>2. g[c] = part(Head(c)) \o g[Tail(c)]
      BY <1>8, <2>2
    <3> HIDE DEF part
    <3> QED
      BY <1>2, <3>1, <3>2
  <2>3. Seq(Frame) \subseteq T
    <3> HIDE DEF T
    <3> QED
      BY <2>1, <2>2, SequenceInduction
  <2> QED
    BY <2>3
<1>10. g \in [Seq(Frame) -> Seq(Item)]
  <2> HIDE DEF part
  <2> QED
    BY <1>7, <1>9 DEF g
<1> QED
  BY <1>8, <1>10 DEF g

LEMMA QueuedType ==
  ASSUME NEW at, NEW stk \in Seq(Frame)
  PROVE  Queued(at)[stk] \in Seq(Item)
BY QueuedDef

\* Nothing waits for a stage at which no reduction is.
LEMMA NothingWaits ==
  ASSUME NEW at, NEW c \in Seq(Frame), \A i \in 1..Len(c) : c[i].at # at
  PROVE  Queued(at)[c] = <<>>
<1> DEFINE None(d) == \A i \in 1..Len(d) : d[i].at # at
           T == {d \in Seq(Frame) : None(d) => Queued(at)[d] = <<>>}
<1>1. <<>> \in T
  <2>1. <<>> \in Seq(Frame)
    OBVIOUS
  <2> QED
    BY <2>1, QueuedDef
<1>2. ASSUME NEW d \in Seq(Frame), d # <<>>, Tail(d) \in T
      PROVE  d \in T
  <2> SUFFICES ASSUME None(d)
               PROVE  Queued(at)[d] = <<>>
    OBVIOUS
  <2>1. \A i \in 1..Len(Tail(d)) : Tail(d)[i] = d[i + 1] /\ i + 1 \in 1..Len(d)
    BY <1>2
  <2>2. None(Tail(d))
    BY <2>1
  <2>3. Queued(at)[Tail(d)] = <<>>
    BY <1>2, <2>2
  <2>4. Head(d) = d[1] /\ 1 \in 1..Len(d)
    BY <1>2
  <2>5. Head(d).at # at
    BY <2>4
  <2>6. Queued(at)[d] = <<>> \o Queued(at)[Tail(d)]
    <3> HIDE DEF None
    <3> QED
      BY <1>2, <2>5, QueuedDef
  <2> QED
    BY <2>3, <2>6
<1>3. Seq(Frame) \subseteq T
  <2> HIDE DEF T
  <2> QED
    BY <1>1, <1>2, SequenceInduction
<1> QED
  BY <1>3

\* One more reduction.
LEMMA QueuedMore ==
  ASSUME NEW at, NEW fr \in Frame, NEW c \in Seq(Frame)
  PROVE  Queued(at)[<<fr>> \o c] =
           (IF fr.at = at THEN fr.todo ELSE <<>>) \o Queued(at)[c]
<1> DEFINE d == <<fr>> \o c
<1>1. d \in Seq(Frame) /\ d # <<>> /\ Head(d) = fr /\ Tail(d) = c
  BY Prepended
<1> HIDE DEF d
<1>2. Queued(at)[d] = (IF fr.at = at THEN fr.todo ELSE <<>>) \o Queued(at)[c]
  BY <1>1, QueuedDef
<1> QED
  BY <1>2 DEF d

\* No reduction, and one reduction.
LEMMA QueuedEmpty ==
  ASSUME NEW at
  PROVE  Queued(at)[<<>>] = <<>>
<1>1. <<>> \in Seq(Frame)
  OBVIOUS
<1> QED
  BY <1>1, QueuedDef

LEMMA QueuedOne ==
  ASSUME NEW fr \in Frame
  PROVE  Queued(fr.at)[<<fr>>] = fr.todo
<1>1. PICK c \in Seq(Frame) : c = <<fr>> /\ c # <<>> /\ Head(c) = fr /\ Tail(c) = <<>>
  <2>1. /\ <<fr>> \in Seq(Frame) /\ <<fr>> # <<>> /\ Head(<<fr>>) = fr
        /\ Tail(<<fr>>) = <<>>
    OBVIOUS
  <2> QED
    BY <2>1, Zenon
<1>2. Queued(fr.at)[c] = fr.todo \o Queued(fr.at)[<<>>]
  BY <1>1, QueuedDef
<1>3. fr.todo \in Seq(Item) /\ Queued(fr.at)[<<>>] = <<>>
  BY QueuedEmpty DEF Frame
<1> QED
  BY <1>1, <1>2, <1>3

LEMMA LenType ==
  ASSUME NEW S, NEW s \in Seq(S)
  PROVE  Len(s) \in Nat
OBVIOUS

LEMMA PositionType ==
  ASSUME NEW n \in Nat, NEW k \in 1..n
  PROVE  k \in Nat /\ k <= n
OBVIOUS

LEMMA Position ==
  ASSUME NEW n \in Nat, NEW k \in Nat \ {0}, k <= n
  PROVE  k \in 1..n /\ k \in Nat
OBVIOUS

LEMMA Joined ==
  ASSUME NEW a \in Seq(Frame), NEW b \in Seq(Frame), NEW c \in Seq(Frame)
  PROVE  a \o b \o c = a \o (b \o c)
OBVIOUS

LEMMA Associative ==
  ASSUME NEW xs \in Seq(Item), NEW ys \in Seq(Item), NEW zs \in Seq(Item)
  PROVE  (xs \o ys) \o zs = xs \o (ys \o zs)
OBVIOUS

LEMMA NoItems ==
  ASSUME NEW xs \in Seq(Item)
  PROVE  <<>> \o xs = xs /\ xs \o <<>> = xs
OBVIOUS

\* Reductions inside others: their items come first.
LEMMA QueuedInside ==
  ASSUME NEW at, NEW c \in Seq(Frame), NEW d \in Seq(Frame)
  PROVE  Queued(at)[c \o d] = Queued(at)[c] \o Queued(at)[d]
<1> DEFINE T == {e \in Seq(Frame) : Queued(at)[e \o d] = Queued(at)[e] \o Queued(at)[d]}
<1>1. <<>> \in T
  <2>1. <<>> \in Seq(Frame) /\ <<>> \o d = d
    OBVIOUS
  <2>2. Queued(at)[<<>>] = <<>> /\ Queued(at)[d] \in Seq(Item)
    BY <2>1, QueuedDef
  <2>3. <<>> \o Queued(at)[d] = Queued(at)[d]
    BY <2>2
  <2> QED
    BY <2>1, <2>2, <2>3
<1>2. ASSUME NEW e \in Seq(Frame), e # <<>>, Tail(e) \in T
      PROVE  e \in T
  <2> DEFINE part == IF Head(e).at = at THEN Head(e).todo ELSE <<>>
  <2>1. PICK f \in Seq(Frame) : f = e \o d /\ f # <<>> /\ Head(f) = Head(e)
                                /\ Tail(f) = Tail(e) \o d
    <3>1. /\ e \o d \in Seq(Frame) /\ e \o d # <<>> /\ Head(e \o d) = Head(e)
          /\ Tail(e \o d) = Tail(e) \o d
      BY <1>2
    <3> QED
      BY <3>1, Zenon
  <2>2. part \in Seq(Item)
    <3>1. Head(e) \in Frame
      BY <1>2
    <3> QED
      BY <3>1 DEF Frame
  <2>3. Queued(at)[e] = part \o Queued(at)[Tail(e)]
    BY <1>2, QueuedDef
  <2>4. Queued(at)[f] = part \o Queued(at)[Tail(e) \o d]
    <3>1. Queued(at)[f] =
            (IF Head(f).at = at THEN Head(f).todo ELSE <<>>) \o Queued(at)[Tail(f)]
      BY <2>1, QueuedDef
    <3> QED
      BY <2>1, <3>1, Zenon
  <2>5. Queued(at)[Tail(e) \o d] = Queued(at)[Tail(e)] \o Queued(at)[d]
    BY <1>2
  <2>6. Queued(at)[Tail(e)] \in Seq(Item) /\ Queued(at)[d] \in Seq(Item)
    <3>1. Tail(e) \in Seq(Frame)
      BY <1>2
    <3> QED
      BY <3>1, QueuedType
  <2> HIDE DEF part
  <2>7. Queued(at)[f] = Queued(at)[e] \o Queued(at)[d]
    <3>1. (part \o Queued(at)[Tail(e)]) \o Queued(at)[d] =
            part \o (Queued(at)[Tail(e)] \o Queued(at)[d])
      BY <2>2, <2>6, Associative
    <3> QED
      BY <2>3, <2>4, <2>5, <3>1, Zenon
  <2> QED
    BY <2>1, <2>7
<1>3. Seq(Frame) \subseteq T
  <2> HIDE DEF T
  <2> QED
    BY <1>1, <1>2, SequenceInduction
<1> QED
  BY <1>3

\* One call starts two reductions at most.
TwoAtMost(runs) == \/ runs = <<>>
                   \/ runs = <<runs[1]>>
                   \/ runs = <<runs[1], runs[2]>>

LEMMA StepTwoAtMost ==
  ASSUME NEW st \in Stage, NEW l, NEW x
  PROVE  TwoAtMost(Step(st, l, x).runs)
<1>1. CASE st.kind # "chainl"
  BY <1>1, StepSingle DEF Single, TwoAtMost
<1>2. CASE st.kind = "chainl"
  <2>1. Step(st, l, x) = StepChainl(st, l, x)
    BY <1>2 DEF Step
  <2>2. \/ Step(st, l, x).runs = Call(x)
        \/ Step(st, l, x).runs = <<st.range, <<x>> >>
    BY <2>1, WrappedRuns DEF StepChainl
  <2> QED
    BY <2>2 DEF TwoAtMost, Call
<1> QED
  BY <1>1, <1>2

\* What the reductions of a call put in front of the next stage.
LEMMA QueuedLoops ==
  ASSUME NEW at, NEW k \in Nat \ {0}, NEW runs \in Ran, TwoAtMost(runs)
  PROVE  Queued(at)[Loops(k, runs)] = IF at = k THEN Issued(runs) ELSE <<>>
<1>1. /\ Loops(k, runs) \in Seq(Frame)
      /\ Len(Loops(k, runs)) = Len(runs)
      /\ \A i \in 1..Len(runs) : Loops(k, runs)[i] = Loop(k, runs[i])
  BY LoopsType
<1>2. \A todo : Loop(k, todo).at = k /\ Loop(k, todo).todo = todo
  BY DEF Loop
<1>3. CASE at # k
  <2>1. \A i \in 1..Len(Loops(k, runs)) : Loops(k, runs)[i].at # at
    BY <1>1, <1>2, <1>3
  <2> QED
    BY <1>1, <1>3, <2>1, NothingWaits
<1>4. CASE at = k /\ runs = <<>>
  <2>1. Loops(k, runs) = <<>>
    BY <1>1, <1>4
  <2> QED
    BY <1>1, <1>4, <2>1, QueuedDef DEF Issued
<1>5. CASE at = k /\ runs = <<runs[1]>>
  <2>1. PICK run \in Seq(Item) : run = runs[1] /\ runs = <<run>>
    <3>1. 1 \in 1..Len(runs)
      BY <1>5
    <3> QED
      BY <1>5, <3>1 DEF Ran
  <2>2. PICK fr \in Frame : fr = Loop(k, run) /\ fr.at = at /\ fr.todo = run
    BY <1>2, <1>5, LoopType
  <2>3. Loops(k, runs) = <<fr>>
    BY <2>1, <2>2 DEF Loops
  <2>4. Queued(at)[<<fr>>] = run
    BY <2>2, QueuedOne
  <2>5. Issued(runs) = run
    BY <2>1 DEF Issued
  <2> QED
    BY <1>5, <2>3, <2>4, <2>5
<1>6. CASE at = k /\ runs = <<runs[1], runs[2]>>
  <2>1. PICK run \in Seq(Item), run2 \in Seq(Item) :
          /\ run = runs[1] /\ run2 = runs[2]
          /\ runs = <<run, run2>>
          /\ Tail(runs) = <<run2>>
    <3>1. 1 \in 1..Len(runs) /\ 2 \in 1..Len(runs)
      BY <1>6
    <3>2. runs[1] \in Seq(Item) /\ runs[2] \in Seq(Item)
      BY <3>1 DEF Ran
    <3>3. Tail(runs) = <<runs[2]>>
      <4>1. PICK a, b : runs = <<a, b>>
        BY <1>6
      <4> QED
        BY <4>1
    <3> QED
      BY <1>6, <3>2, <3>3
  <2>2. PICK fr \in Frame : fr = Loop(k, run) /\ fr.at = at /\ fr.todo = run
    BY <1>2, <1>6, LoopType
  <2>3. PICK fr2 \in Frame : fr2 = Loop(k, run2) /\ fr2.at = at /\ fr2.todo = run2
    BY <1>2, <1>6, LoopType
  <2>4. Loops(k, runs) = <<fr>> \o <<fr2>> /\ <<fr2>> \in Seq(Frame)
    BY <2>1, <2>2, <2>3 DEF Loops
  <2>5. Queued(at)[<<fr>> \o <<fr2>>] = run \o Queued(at)[<<fr2>>]
    <3>1. PICK c \in Seq(Frame) : c = <<fr2>>
      BY <2>4
    <3>2. Queued(at)[<<fr>> \o c] =
            (IF fr.at = at THEN fr.todo ELSE <<>>) \o Queued(at)[c]
      BY QueuedMore
    <3> QED
      BY <2>2, <3>1, <3>2, Zenon
  <2>6. Queued(at)[<<fr2>>] = run2
    BY <2>3, QueuedOne
  <2>7. Issued(runs) = run \o run2
    <3>1. runs # <<>> /\ Tail(runs) # <<>>
      BY <2>1
    <3> QED
      BY <2>1, <3>1, Zenon DEF Issued
  <2> QED
    BY <1>6, <2>4, <2>5, <2>6, <2>7
<1> QED
  BY <1>3, <1>4, <1>5, <1>6 DEF TwoAtMost

(***************************************************************************)
(* What will still come out                                                *)
(***************************************************************************)

\* What will still go into stage k + 1, for every k: the items that wait for it,
\* and then what stage k, with the layer that it has, makes of what will go into
\* itself.  ahead is the input that has not been consumed, closing are the stages
\* that will be completed.
Coming(stages, layers, stk, ahead, closing) ==
  LET ys[k \in 0..Len(stages)] ==
        IF k = 0
        THEN Queued(1)[stk] \o ahead
        ELSE Queued(k + 1)[stk]
               \o Makes(stages[k], k \in closing)[ys[k - 1]][layers[k]]
  IN  ys

Able(stages, layers) ==
  \A k \in 1..Len(stages) : layers[k] \in Possible(stages[k])

\* What the definition says of ys.
Follows(ys, stages, layers, stk, ahead, closing) ==
  /\ ys \in [0..Len(stages) -> Seq(Item)]
  /\ ys[0] = Queued(1)[stk] \o ahead
  /\ \A k \in 1..Len(stages) :
       ys[k] = Queued(k + 1)[stk]
                 \o Makes(stages[k], k \in closing)[ys[k - 1]][layers[k]]

LEMMA ComingDef ==
  ASSUME NEW stages \in Seq(Stage), NEW layers, Able(stages, layers),
         NEW stk \in Seq(Frame), NEW ahead \in Seq(Item), NEW closing
  PROVE  Follows(Coming(stages, layers, stk, ahead, closing),
                 stages, layers, stk, ahead, closing)
<1> DEFINE m == Len(stages)
           S == Seq(Item)
           a == Queued(1)[stk] \o ahead
           next(k, ys) == Queued(k + 1)[stk]
                            \o Makes(stages[k], k \in closing)[ys][layers[k]]
           h == [p \in S \X (1..m) |-> next(p[2], p[1])]
           Is(g) == g = [k \in 0..m |-> IF k = 0 THEN a ELSE next(k, g[k - 1])]
<1>1. a \in S
  BY QueuedType
<1>2. ASSUME NEW k \in 1..m, NEW ys \in S
      PROVE  next(k, ys) \in S
  <2>1. stages[k] \in Stage /\ layers[k] \in Possible(stages[k])
    BY DEF Able
  <2>2. (k \in closing) \in BOOLEAN
    OBVIOUS
  <2>3. Makes(stages[k], k \in closing)[ys][layers[k]] \in Seq(Item)
    BY <2>1, <2>2, MakesType
  <2>4. Queued(k + 1)[stk] \in Seq(Item)
    BY QueuedType
  <2> QED
    BY <2>3, <2>4
<1>3. m \in Nat
  OBVIOUS
<1> HIDE DEF S, a, next, m
<1>4. h \in [S \X (1..m) -> S]
  BY <1>2
<1>5. \A k \in 1..m, ys \in S : h[<<ys, k>>] = next(k, ys)
  OBVIOUS
<1> HIDE DEF h
<1>6. PICK f \in [0..m -> S] : Defined(f, m, a, h)
  BY <1>1, <1>3, <1>4, Recursion
<1>7. Is(f)
  <2>1. \A k \in 1..m : k - 1 \in 0..m
    BY <1>3
  <2>2. \A k \in 0..m : k # 0 => k \in 1..m
    BY <1>3
  <2> QED
    BY <1>5, <1>6, <2>1, <2>2 DEF Defined
<1>8. Is(Coming(stages, layers, stk, ahead, closing))
  <2>1. Coming(stages, layers, stk, ahead, closing) = CHOOSE g : Is(g)
    BY DEF Coming, a, next, m
  <2> HIDE DEF Is
  <2> QED
    BY <1>7, <2>1
<1> DEFINE g == Coming(stages, layers, stk, ahead, closing)
<1> HIDE DEF g
<1>9. g[0] = a /\ \A k \in 1..m : g[k] = next(k, g[k - 1])
  <2>1. 0 \in 0..m /\ \A k \in 1..m : k \in 0..m /\ k # 0
    BY <1>3
  <2> QED
    BY <1>8, <2>1 DEF g
<1>10. \A k \in 0..m : g[k] \in S
  <2>1. \A k \in 1..m : g[k - 1] \in S => g[k] = h[<<g[k - 1], k>>]
    BY <1>5, <1>9
  <2>2. g[0] = a
    BY <1>9
  <2> QED
    BY <1>1, <1>3, <1>4, <2>1, <2>2, RecursionType
<1>11. g \in [0..m -> S]
  BY <1>8, <1>10 DEF g
<1> QED
  BY <1>9, <1>11 DEF g, a, next, m, S, Follows

\* f and g are the same from lo to hi.
SameFrom(f, g, lo, hi) == \A m \in lo..hi : f[m] = g[m]

\* g is f after the first item of what will go into stage k has been taken away.
HeadTaken(f, g, k, x, hi) ==
  /\ \A m \in 0..hi : m # k - 1 => g[m] = f[m]
  /\ f[k - 1] = <<x>> \o g[k - 1]

\* Nothing differs for the stages lo + 1 to hi, and behind them.
SameBetween(lo, hi, layers, stk, closing, layers2, stk2, closing2) ==
  \A k \in (lo + 1)..hi :
    /\ layers[k] = layers2[k]
    /\ Queued(k + 1)[stk] = Queued(k + 1)[stk2]
    /\ (k \in closing) = (k \in closing2)

\* Nothing differs before stage k.
SameBefore(k, layers, stk, closing, layers2, stk2, closing2) ==
  \A i \in 1..(k - 1) :
    /\ layers[i] = layers2[i]
    /\ Queued(i)[stk] = Queued(i)[stk2]
    /\ (i \in closing) = (i \in closing2)

\* What goes into the stages is the same from one of them on, if it is the same
\* there and nothing differs further on ...
LEMMA FollowsSame ==
  ASSUME NEW f, NEW g, NEW stages, NEW ahead, NEW ahead2, NEW layers, NEW layers2,
         NEW stk, NEW stk2, NEW closing, NEW closing2,
         Follows(f, stages, layers, stk, ahead, closing),
         Follows(g, stages, layers2, stk2, ahead2, closing2),
         NEW lo \in Nat, NEW hi \in Nat, lo <= hi, stages \in Seq(Stage),
         hi <= Len(stages), f[lo] = g[lo],
         SameBetween(lo, hi, layers, stk, closing, layers2, stk2, closing2)
  PROVE  f[hi] = g[hi]
<1>1. ASSUME NEW k \in (lo + 1)..hi, f[k - 1] = g[k - 1]
      PROVE  f[k] = g[k]
  <2>1. k \in 1..Len(stages)
    OBVIOUS
  <2>2. /\ layers[k] = layers2[k]
        /\ Queued(k + 1)[stk] = Queued(k + 1)[stk2]
        /\ (k \in closing) = (k \in closing2)
    BY DEF SameBetween
  <2> QED
    BY <1>1, <2>1, <2>2 DEF Follows
<1>2. Alike(f, g, lo, hi)
  BY <1>1 DEF Alike
<1> QED
  BY <1>2, SameCourse

\* ... and up to one of them, if nothing differs before.
LEMMA FollowsBefore ==
  ASSUME NEW f, NEW g, NEW stages, NEW ahead, NEW layers, NEW layers2,
         NEW stk, NEW stk2, NEW closing, NEW closing2,
         Follows(f, stages, layers, stk, ahead, closing),
         Follows(g, stages, layers2, stk2, ahead, closing2),
         stages \in Seq(Stage), NEW k, k \in 1..(Len(stages) + 1),
         SameBefore(k, layers, stk, closing, layers2, stk2, closing2)
  PROVE  SameFrom(f, g, 0, k - 2)
<1> SUFFICES ASSUME NEW m \in 0..(k - 2)
             PROVE  f[m] = g[m]
  BY DEF SameFrom
<1>1. m \in Nat /\ 0 \in Nat /\ 0 <= m /\ 1 \in 1..(k - 1)
  OBVIOUS
<1>2. f[0] = g[0]
  BY <1>1 DEF Follows, SameBefore
<1>3. Alike(f, g, 0, m)
  <2> SUFFICES ASSUME NEW i \in (0 + 1)..m, f[i - 1] = g[i - 1]
               PROVE  f[i] = g[i]
    BY DEF Alike
  <2>1. i \in 1..Len(stages) /\ i \in 1..(k - 1) /\ i + 1 \in 1..(k - 1)
    OBVIOUS
  <2>2. /\ f[i] = Queued(i + 1)[stk] \o Makes(stages[i], i \in closing)[f[i - 1]][layers[i]]
        /\ g[i] = Queued(i + 1)[stk2] \o Makes(stages[i], i \in closing2)[g[i - 1]][layers2[i]]
    BY <2>1 DEF Follows
  <2>3. /\ Queued(i + 1)[stk] = Queued(i + 1)[stk2]
        /\ layers[i] = layers2[i] /\ (i \in closing) = (i \in closing2)
    BY <2>1 DEF SameBefore
  <2> QED
    BY <2>2, <2>3
<1> QED
  BY <1>1, <1>2, <1>3, SameCourse

\* What goes into stage k differs only in what waits for it.
SameArrivals(f, g, k, stk, stk2) ==
  \E ys \in Seq(Item) : /\ f[k - 1] = Queued(k)[stk] \o ys
                        /\ g[k - 1] = Queued(k)[stk2] \o ys

\* ... and it differs for a stage only in what waits for it, if nothing differs
\* before.
LEMMA FollowsInto ==
  ASSUME NEW f, NEW g, NEW stages, NEW ahead, NEW layers, NEW layers2,
         NEW stk, NEW stk2, NEW closing, NEW closing2,
         Follows(f, stages, layers, stk, ahead, closing),
         Follows(g, stages, layers2, stk2, ahead, closing2),
         stages \in Seq(Stage), ahead \in Seq(Item), Able(stages, layers),
         NEW k, k \in 1..(Len(stages) + 1),
         SameBefore(k, layers, stk, closing, layers2, stk2, closing2)
  PROVE  SameArrivals(f, g, k, stk, stk2)
<1> SUFFICES \E ys \in Seq(Item) : /\ f[k - 1] = Queued(k)[stk] \o ys
                                   /\ g[k - 1] = Queued(k)[stk2] \o ys
  BY DEF SameArrivals
<1>1. /\ Follows(f, stages, layers, stk, ahead, closing)
      /\ Follows(g, stages, layers2, stk2, ahead, closing2)
  OBVIOUS
<1>2. CASE k = 1
  <2>1. /\ f[k - 1] = Queued(k)[stk] \o ahead
        /\ g[k - 1] = Queued(k)[stk2] \o ahead
    <3>1. /\ f[0] = Queued(1)[stk] \o ahead
          /\ g[0] = Queued(1)[stk2] \o ahead
      BY <1>1, Zenon DEF Follows
    <3>2. k - 1 = 0
      BY <1>2
    <3> QED
      BY <1>2, <3>1, <3>2, Zenon
  <2> QED
    BY <2>1
<1>3. CASE k # 1
  <2>1. PICK j \in 1..Len(stages) : j = k - 1
    BY <1>3
  <2>2. j - 1 \in Nat /\ j - 1 \in 0..Len(stages) /\ 0 \in Nat /\ 0 <= j - 1 /\ j + 1 = k
    BY <2>1
  <2>5. f[j - 1] = g[j - 1]
    <3>1. j - 1 \in 0..(k - 2)
      BY <2>1
    <3>2. SameFrom(f, g, 0, k - 2)
      BY FollowsBefore
    <3> QED
      BY <3>1, <3>2 DEF SameFrom
  <2>6. layers[j] = layers2[j] /\ (j \in closing) = (j \in closing2)
    <3>1. j \in 1..(k - 1)
      BY <2>1
    <3> QED
      BY <3>1 DEF SameBefore
  <2> DEFINE ys == Makes(stages[j], j \in closing)[f[j - 1]][layers[j]]
  <2>7. ys \in Seq(Item)
    <3>1. f[j - 1] \in Seq(Item)
      BY <1>1, <2>2 DEF Follows
    <3>3. stages[j] \in Stage /\ layers[j] \in Possible(stages[j])
      BY DEF Able
    <3>2. (j \in closing) \in BOOLEAN
      OBVIOUS
    <3> QED
      BY <3>1, <3>2, <3>3, MakesType
  <2>8. f[j] = Queued(j + 1)[stk] \o ys /\ g[j] = Queued(j + 1)[stk2] \o ys
    BY <1>1, <2>5, <2>6 DEF Follows
  <2> HIDE DEF ys
  <2> QED
    BY <2>1, <2>2, <2>7, <2>8
<1> QED
  BY <1>2, <1>3

LEMMA FreshPossible ==
  ASSUME NEW st \in Stage
  PROVE  Fresh \in Possible(st)
BY EmptyType DEF Fresh, Layer, Possible

\* At the beginning it is what Passing says.
LEMMA ComingPassing ==
  ASSUME NEW stages \in Seq(Stage), NEW xs \in Seq(Item), NEW closed \in BOOLEAN,
         NEW layers, \A k \in 1..Len(stages) : layers[k] = Fresh,
         NEW closing, \A k \in 1..Len(stages) : (k \in closing) = closed
  PROVE  /\ Able(stages, layers)
         /\ SameFrom(Coming(stages, layers, <<>>, xs, closing),
                     Passing(stages, xs, closed), 0, Len(stages))
<1> DEFINE m == Len(stages)
           f == Coming(stages, layers, <<>>, xs, closing)
           next(k, ys) == Makes(stages[k], closed)[ys][Fresh]
           Is(g) == g = [k \in 0..m |-> IF k = 0 THEN xs ELSE next(k, g[k - 1])]
<1>1. Able(stages, layers)
  BY FreshPossible DEF Able
<1>2. m \in Nat /\ <<>> \in Seq(Frame)
  OBVIOUS
<1>3. Follows(f, stages, layers, <<>>, xs, closing)
  BY <1>1, <1>2, ComingDef
<1> HIDE DEF f
<1>4. \A at : Queued(at)[<<>>] = <<>>
  BY <1>2, QueuedDef
<1>5. f[0] = xs /\ f \in [0..m -> Seq(Item)]
  BY <1>3, <1>4 DEF Follows
<1>6. ASSUME NEW k \in 1..m
      PROVE  f[k] = next(k, f[k - 1])
  <2>1. stages[k] \in Stage /\ layers[k] = Fresh /\ Fresh \in Possible(stages[k])
    BY FreshPossible
  <2>4. f[k - 1] \in Seq(Item)
    <3>1. k - 1 \in 0..m
      BY <1>2
    <3> QED
      BY <1>5, <3>1
  <2>2. next(k, f[k - 1]) \in Seq(Item)
    BY <2>1, <2>4, MakesType
  <2>3. f[k] = <<>> \o next(k, f[k - 1])
    BY <1>3, <1>4, <2>1 DEF Follows
  <2> HIDE DEF next
  <2> QED
    BY <2>2, <2>3
<1> HIDE DEF next, m
<1>7. Is(f)
  <2>1. \A k \in 0..m : k # 0 => k \in 1..m
    BY <1>2
  <2> QED
    BY <1>5, <1>6, <2>1
<1> DEFINE p == Passing(stages, xs, closed)
<1>8. Is(p)
  <2>1. p = CHOOSE g : Is(g)
    BY DEF Passing, next, m
  <2> HIDE DEF Is, p
  <2> QED
    BY <1>7, <2>1
<1> HIDE DEF p
<1>9. p[0] = xs /\ \A k \in 1..m : p[k] = next(k, p[k - 1])
  <2>1. 0 \in 0..m /\ \A k \in 1..m : k \in 0..m /\ k # 0
    BY <1>2
  <2> QED
    BY <1>8, <2>1
<1>10. f[0] = p[0] /\ Alike(f, p, 0, m)
  BY <1>5, <1>6, <1>9 DEF Alike
<1>11. ASSUME NEW i \in 0..m
       PROVE  f[i] = p[i]
  <2>1. 0 \in Nat /\ i \in Nat /\ 0 <= i
    BY <1>2
  <2>2. Alike(f, p, 0, i)
    BY <1>2, <1>10, SMTT(30) DEF Alike
  <2> QED
    BY <1>10, <2>1, <2>2, SameCourse
<1> QED
  BY <1>1, <1>11 DEF f, p, m, SameFrom

LEMMA ComingThrough ==
  ASSUME NEW stages \in Seq(Stage), NEW xs \in Seq(Item), NEW closed \in BOOLEAN,
         NEW layers, \A k \in 1..Len(stages) : layers[k] = Fresh,
         NEW closing, \A k \in 1..Len(stages) : (k \in closing) = closed
  PROVE  /\ Able(stages, layers)
         /\ Coming(stages, layers, <<>>, xs, closing)[Len(stages)] =
              Through(stages, xs, closed)
<1>1. /\ Able(stages, layers)
      /\ SameFrom(Coming(stages, layers, <<>>, xs, closing),
                  Passing(stages, xs, closed), 0, Len(stages))
  BY ComingPassing
<1>2. Len(stages) \in 0..Len(stages)
  OBVIOUS
<1> QED
  BY <1>1, <1>2 DEF SameFrom, Through

(***************************************************************************)
(* What each call changes of it                                            *)
(***************************************************************************)

\* The same items wait for the stages lo to hi.
SameQueued(lo, hi, stk, stk2) ==
  \A k \in lo..hi : Queued(k)[stk] = Queued(k)[stk2]

\* The same items will go into the first stage.
SameInput(stk, ahead, stk2, ahead2) ==
  Queued(1)[stk] \o ahead = Queued(1)[stk2] \o ahead2

\* It is the same if nothing differs but the input that is still to come and
\* where it waits.
LEMMA ComingAlike ==
  ASSUME NEW stages \in Seq(Stage), NEW ahead \in Seq(Item), NEW ahead2 \in Seq(Item),
         NEW layers, Able(stages, layers), NEW closing,
         NEW stk \in Seq(Frame), NEW stk2 \in Seq(Frame),
         SameInput(stk, ahead, stk2, ahead2),
         SameQueued(2, Len(stages) + 1, stk, stk2)
  PROVE  Coming(stages, layers, stk, ahead, closing) =
           Coming(stages, layers, stk2, ahead2, closing)
<1> DEFINE f == Coming(stages, layers, stk, ahead, closing)
           g == Coming(stages, layers, stk2, ahead2, closing)
<1>1. /\ Follows(f, stages, layers, stk, ahead, closing)
      /\ Follows(g, stages, layers, stk2, ahead2, closing)
  BY ComingDef
<1> SUFFICES f = g
  OBVIOUS
<1> HIDE DEF f, g
<1>2. PICK o \in Nat : o = 0 /\ f[o] = g[o]
  BY <1>1 DEF Follows, SameInput
<1>3. ASSUME NEW m \in 0..Len(stages)
      PROVE  f[m] = g[m]
  <2>1. m \in Nat /\ o <= m /\ m <= Len(stages)
    BY <1>2
  <2>2. SameBetween(o, m, layers, stk, closing, layers, stk2, closing)
    <3>1. \A k \in (o + 1)..m : k + 1 \in 2..(Len(stages) + 1)
      BY <1>2
    <3> QED
      BY <3>1 DEF SameBetween, SameQueued
  <2> QED
    BY <1>1, <1>2, <2>1, <2>2, FollowsSame
<1>4. f \in [0..Len(stages) -> Seq(Item)] /\ g \in [0..Len(stages) -> Seq(Item)]
  BY <1>1 DEF Follows
<1> QED
  BY <1>3, <1>4

\* A stage that has ended the reduction makes nothing of what waits for it or
\* is ahead.
LEMMA ComingStopped ==
  ASSUME NEW stages \in Seq(Stage), NEW ahead \in Seq(Item), NEW ahead2 \in Seq(Item),
         NEW layers, Able(stages, layers), NEW closing,
         NEW stk \in Seq(Frame), NEW stk2 \in Seq(Frame),
         NEW j \in 1..Len(stages), DataIsReduced(stages[j], layers[j]),
         SameQueued(j + 1, Len(stages) + 1, stk, stk2)
  PROVE  SameFrom(Coming(stages, layers, stk, ahead, closing),
                  Coming(stages, layers, stk2, ahead2, closing), j, Len(stages))
<1> DEFINE f == Coming(stages, layers, stk, ahead, closing)
           g == Coming(stages, layers, stk2, ahead2, closing)
<1>1. /\ Follows(f, stages, layers, stk, ahead, closing)
      /\ Follows(g, stages, layers, stk2, ahead2, closing)
  BY ComingDef
<1> SUFFICES \A m \in j..Len(stages) : f[m] = g[m]
  BY DEF SameFrom
<1> HIDE DEF f, g
<1>2. /\ stages[j] \in Stage /\ layers[j] \in Possible(stages[j])
      /\ (j \in closing) \in BOOLEAN
  BY DEF Able
<1>3. f[j - 1] \in Seq(Item) /\ g[j - 1] \in Seq(Item)
  <2>1. j - 1 \in 0..Len(stages)
    OBVIOUS
  <2> QED
    BY <1>1, <2>1 DEF Follows
<1>4. Makes(stages[j], j \in closing)[f[j - 1]][layers[j]] =
        Makes(stages[j], j \in closing)[g[j - 1]][layers[j]]
  <2>1. PICK st \in Stage, l \in Possible(stages[j]), closed \in BOOLEAN :
          /\ st = stages[j] /\ l = layers[j] /\ closed = (j \in closing)
          /\ l \in Possible(st) /\ DataIsReduced(st, l)
    BY <1>2
  <2>2. PICK xs \in Seq(Item), ys \in Seq(Item) : xs = f[j - 1] /\ ys = g[j - 1]
    BY <1>3
  <2>3. Makes(st, closed)[xs][l] = Makes(st, closed)[ys][l]
    <3>1. l \in Possible(st) /\ DataIsReduced(st, l)
      BY <2>1
    <3> QED
      BY <3>1, MakesReduced
  <2> QED
    BY <2>1, <2>2, <2>3, Zenon
<1>5. Queued(j + 1)[stk] = Queued(j + 1)[stk2]
  <2>1. j + 1 \in (j + 1)..(Len(stages) + 1)
    OBVIOUS
  <2> QED
    BY <2>1 DEF SameQueued
<1>6. f[j] = g[j]
  <2>1. /\ f[j] = Queued(j + 1)[stk]
                    \o Makes(stages[j], j \in closing)[f[j - 1]][layers[j]]
        /\ g[j] = Queued(j + 1)[stk2]
                    \o Makes(stages[j], j \in closing)[g[j - 1]][layers[j]]
    BY <1>1 DEF Follows
  <2> QED
    BY <1>4, <1>5, <2>1
<1>7. ASSUME NEW m \in j..Len(stages)
      PROVE  f[m] = g[m]
  <2>1. m \in Nat /\ j \in Nat /\ j <= m /\ m <= Len(stages)
    OBVIOUS
  <2>2. SameBetween(j, m, layers, stk, closing, layers, stk2, closing)
    <3>1. \A k \in (j + 1)..m : k + 1 \in (j + 1)..(Len(stages) + 1)
      BY <2>1
    <3> QED
      BY <3>1 DEF SameBetween, SameQueued
  <2> QED
    BY <1>1, <1>6, <2>1, <2>2, FollowsSame
<1> QED
  BY <1>7

\* Nothing will go into a stage if nothing waits for it or before it, nothing is
\* ahead, and no stage before it will be completed with data.
LEMMA NothingComes ==
  ASSUME NEW stages \in Seq(Stage), NEW layers, Able(stages, layers), NEW closing,
         NEW stk \in Seq(Frame), NEW k \in 1..(Len(stages) + 1),
         \A i \in 1..k : Queued(i)[stk] = <<>>,
         \A i \in 1..(k - 1) : i \in closing => ~layers[i].called
  PROVE  Coming(stages, layers, stk, <<>>, closing)[k - 1] = <<>>
<1> DEFINE f == Coming(stages, layers, stk, <<>>, closing)
           T == {n \in 0..(k - 1) : f[n] = <<>>}
<1>1. <<>> \in Seq(Item)
  OBVIOUS
<1>2. Follows(f, stages, layers, stk, <<>>, closing)
  BY <1>1, ComingDef
<1> SUFFICES f[k - 1] = <<>>
  OBVIOUS
<1> HIDE DEF f
<1>3. 0 \in T
  <2>1. 1 \in 1..k
    OBVIOUS
  <2>2. f[0] = <<>> \o <<>>
    BY <1>2, <2>1 DEF Follows
  <2> QED
    BY <2>2
<1>4. ASSUME NEW n \in 0..((k - 1) - 1), n \in T
      PROVE  n + 1 \in T
  <2>1. PICK i \in 1..(k - 1) : i = n + 1 /\ i - 1 = n /\ i + 1 \in 1..k /\ i \in 1..Len(stages)
    OBVIOUS
  <2>2. stages[i] \in Stage /\ layers[i] \in Possible(stages[i]) /\ (i \in closing) \in BOOLEAN
    BY <2>1 DEF Able
  <2>3. Makes(stages[i], i \in closing)[<<>>][layers[i]] =
          IF i \in closing THEN Flush(stages[i], layers[i]) ELSE <<>>
    BY <2>2, MakesOfNothing
  <2>4. ~layers[i].called => Flush(stages[i], layers[i]) = <<>>
    BY DEF Flush
  <2>5. Makes(stages[i], i \in closing)[<<>>][layers[i]] = <<>>
    BY <2>1, <2>3, <2>4
  <2>6. f[i] = <<>> \o <<>>
    BY <1>2, <1>4, <2>1, <2>5 DEF Follows
  <2> QED
    BY <2>1, <2>6
<1>5. 0..(k - 1) \subseteq T
  <2>1. k - 1 \in Nat
    OBVIOUS
  <2> HIDE DEF T
  <2> QED
    BY <1>3, <1>4, <2>1, IntervalInduction
<1> QED
  <2>1. k - 1 \in 0..(k - 1)
    OBVIOUS
  <2> QED
    BY <1>5, <2>1

\* stk2 is stk after a call of stage k with the item x, which has issued the items
\* xs to the next stage.
Advances(stk, stk2, k, x, xs) ==
  /\ Queued(k)[stk] = <<x>> \o Queued(k)[stk2]
  /\ Queued(k + 1)[stk] = <<>>
  /\ Queued(k + 1)[stk2] = xs
  /\ \A at \in Nat : (at # k /\ at # k + 1) => Queued(at)[stk] = Queued(at)[stk2]

\* The layers are layers2 after that call, which has started runs.
Called(stages, k, x, layers, layers2, runs) ==
  /\ Able(stages, layers) /\ Able(stages, layers2)
  /\ ~DataIsReduced(stages[k], layers[k]) /\ ~Throws(stages[k], layers[k], x)
  /\ runs = Step(stages[k], layers[k], x).runs
  /\ layers2[k] = Step(stages[k], layers[k], x).layer
  /\ \A i \in 1..Len(stages) : i # k => layers2[i] = layers[i]

\* What waits for the stages before and after the first of the reductions in
\* progress, fr, has made one more step: nested is what its stage has started,
\* fr2 what is left of it, and rest are the reductions around it.
LEMMA QueuedAdvanced ==
  ASSUME NEW k \in Nat, NEW x \in Item, NEW fr \in Frame, NEW fr2 \in Frame,
         fr.at = k, fr2.at = k, fr.todo = <<x>> \o fr2.todo,
         NEW rest \in Seq(Frame), \A i \in 1..Len(rest) : rest[i].at <= k,
         NEW nested \in Seq(Frame), \A at : at # k + 1 => Queued(at)[nested] = <<>>,
         NEW stk \in Seq(Frame), stk = <<fr>> \o rest,
         NEW stk2 \in Seq(Frame), stk2 = nested \o (<<fr2>> \o rest)
  PROVE  Advances(stk, stk2, k, x, Queued(k + 1)[nested])
<1>1. PICK inner \in Seq(Frame) : inner = <<fr2>> \o rest
  <2>1. <<fr2>> \o rest \in Seq(Frame)
    OBVIOUS
  <2> QED
    BY <2>1, Zenon
<1>2. ASSUME NEW at
      PROVE  /\ Queued(at)[nested] \in Seq(Item)
             /\ Queued(at)[rest] \in Seq(Item)
             /\ Queued(at)[inner] \in Seq(Item)
  BY QueuedType
<1>3. ASSUME NEW at
      PROVE  Queued(at)[stk2] = Queued(at)[nested] \o Queued(at)[inner]
  <2>1. Queued(at)[nested \o inner] = Queued(at)[nested] \o Queued(at)[inner]
    BY QueuedInside
  <2> QED
    BY <1>1, <2>1, Zenon
<1>4. fr.todo \in Seq(Item) /\ fr2.todo \in Seq(Item)
  BY DEF Frame
<1>5. ASSUME NEW at
      PROVE  /\ Queued(at)[stk] =
                   (IF fr.at = at THEN fr.todo ELSE <<>>) \o Queued(at)[rest]
             /\ Queued(at)[inner] =
                   (IF fr2.at = at THEN fr2.todo ELSE <<>>) \o Queued(at)[rest]
  <2>1. Queued(at)[<<fr>> \o rest] =
          (IF fr.at = at THEN fr.todo ELSE <<>>) \o Queued(at)[rest]
    BY QueuedMore, ZenonT(40)
  <2>2. Queued(at)[<<fr2>> \o rest] =
          (IF fr2.at = at THEN fr2.todo ELSE <<>>) \o Queued(at)[rest]
    BY QueuedMore, ZenonT(40)
  <2> QED
    BY <1>1, <2>1, <2>2, Zenon
<1>6. ASSUME NEW at, at # k
      PROVE  Queued(at)[stk] = Queued(at)[rest] /\ Queued(at)[inner] = Queued(at)[rest]
  <2>1. Queued(at)[stk] = <<>> \o Queued(at)[rest]
    BY <1>5, <1>6, Zenon
  <2>2. Queued(at)[inner] = <<>> \o Queued(at)[rest]
    BY <1>5, <1>6, Zenon
  <2>3. <<>> \o Queued(at)[rest] = Queued(at)[rest]
    BY <1>2, NoItems
  <2> QED
    BY <2>1, <2>2, <2>3, Zenon
<1>7. Queued(k + 1)[rest] = <<>>
  <2>1. \A i \in 1..Len(rest) : rest[i].at # k + 1
    <3> TAKE i \in 1..Len(rest)
    <3>1. rest[i].at \in Nat
      BY FrameAt
    <3> QED
      BY <3>1
  <2> QED
    BY <2>1, NothingWaits
<1>8. Queued(k)[stk] = <<x>> \o Queued(k)[stk2]
  <2>1. /\ Queued(k)[stk] = fr.todo \o Queued(k)[rest]
        /\ Queued(k)[inner] = fr2.todo \o Queued(k)[rest]
    BY <1>5, Zenon
  <2>2. Queued(k)[nested] = <<>>
    <3>1. k # k + 1
      OBVIOUS
    <3> QED
      BY <3>1, Zenon
  <2>3. Queued(k)[stk2] = Queued(k)[inner]
    <3>1. Queued(k)[stk2] = <<>> \o Queued(k)[inner]
      BY <1>3, <2>2, Zenon
    <3>2. <<>> \o Queued(k)[inner] = Queued(k)[inner]
      BY <1>2, NoItems
    <3> QED
      BY <3>1, <3>2, Zenon
  <2>4. (<<x>> \o fr2.todo) \o Queued(k)[rest] = <<x>> \o (fr2.todo \o Queued(k)[rest])
    <3>1. <<x>> \in Seq(Item)
      OBVIOUS
    <3> QED
      BY <1>2, <1>4, <3>1, Associative
  <2> QED
    BY <2>1, <2>3, <2>4, Zenon
<1>9. Queued(k + 1)[stk] = <<>> /\ Queued(k + 1)[stk2] = Queued(k + 1)[nested]
  <2>1. k + 1 # k
    OBVIOUS
  <2>2. Queued(k + 1)[stk] = <<>> /\ Queued(k + 1)[inner] = <<>>
    BY <1>6, <1>7, <2>1, Zenon
  <2>3. Queued(k + 1)[stk2] = Queued(k + 1)[nested] \o <<>>
    BY <1>3, <2>2, Zenon
  <2>4. Queued(k + 1)[nested] \o <<>> = Queued(k + 1)[nested]
    BY <1>2, NoItems
  <2> QED
    BY <2>2, <2>3, <2>4, Zenon
<1>10. ASSUME NEW at \in Nat, at # k, at # k + 1
       PROVE  Queued(at)[stk] = Queued(at)[stk2]
  <2>1. Queued(at)[stk2] = <<>> \o Queued(at)[rest]
    BY <1>3, <1>6, <1>10, Zenon
  <2>2. <<>> \o Queued(at)[rest] = Queued(at)[rest]
    BY <1>2, NoItems
  <2> QED
    BY <1>6, <1>10, <2>1, <2>2, Zenon
<1> QED
  BY <1>8, <1>9, <1>10 DEF Advances

\* A call of stage k with the item x takes the item away from what will go into
\* the stage, and puts in front of the next one what the stage makes of it.
LEMMA ComingCalled ==
  ASSUME NEW stages \in Seq(Stage), NEW ahead \in Seq(Item), NEW closing,
         NEW k \in 1..Len(stages), NEW x \in Item, NEW runs,
         NEW layers, NEW layers2, Called(stages, k, x, layers, layers2, runs),
         NEW stk \in Seq(Frame), NEW stk2 \in Seq(Frame),
         Advances(stk, stk2, k, x, Issued(runs))
  PROVE  HeadTaken(Coming(stages, layers, stk, ahead, closing),
                   Coming(stages, layers2, stk2, ahead, closing), k, x, Len(stages))
<1> USE DEF Called, Advances
<1> DEFINE f == Coming(stages, layers, stk, ahead, closing)
           g == Coming(stages, layers2, stk2, ahead, closing)
<1>1. /\ Follows(f, stages, layers, stk, ahead, closing)
      /\ Follows(g, stages, layers2, stk2, ahead, closing)
  BY ComingDef
<1> SUFFICES HeadTaken(f, g, k, x, Len(stages))
  OBVIOUS
<1> HIDE DEF f, g
<1>0. stages \in Seq(Stage) /\ ahead \in Seq(Item) /\ Able(stages, layers)
  OBVIOUS
<1>2. PICK ys \in Seq(Item) : f[k - 1] = Queued(k)[stk] \o ys
                              /\ g[k - 1] = Queued(k)[stk2] \o ys
  <2>1. SameBefore(k, layers, stk, closing, layers2, stk2, closing)
    <3>1. \A i \in 1..(k - 1) : i \in Nat /\ i # k /\ i # k + 1 /\ i \in 1..Len(stages)
      OBVIOUS
    <3> QED
      BY <3>1 DEF SameBefore
  <2>2. k \in 1..(Len(stages) + 1)
    OBVIOUS
  <2>3. SameArrivals(f, g, k, stk, stk2)
    BY ONLY <1>0, <1>1, <2>1, <2>2, FollowsInto
  <2> QED
    BY <2>3 DEF SameArrivals
<1>3. g[k - 1] \in Seq(Item) /\ f[k - 1] = <<x>> \o g[k - 1]
  <2>1. <<x>> \in Seq(Item) /\ Queued(k)[stk2] \in Seq(Item)
    BY QueuedType
  <2>2. (<<x>> \o Queued(k)[stk2]) \o ys = <<x>> \o (Queued(k)[stk2] \o ys)
    BY <2>1, Associative
  <2>3. Queued(k)[stk2] \o ys \in Seq(Item)
    BY <2>1
  <2> QED
    BY <1>2, <2>2, <2>3, Zenon
<1>4. PICK xs \in Seq(Item) : xs = g[k - 1]
  BY <1>3
<1>5. PICK st \in Stage, l \in Possible(stages[k]), closed \in BOOLEAN :
        st = stages[k] /\ l = layers[k] /\ closed = (k \in closing)
  <2>1. stages[k] \in Stage /\ layers[k] \in Possible(stages[k])
    BY DEF Able
  <2>2. (k \in closing) \in BOOLEAN
    OBVIOUS
  <2> QED
    BY ONLY <2>1, <2>2, Zenon
<1>6. Makes(st, closed)[<<x>> \o xs][l] =
        Issued(Step(st, l, x).runs) \o Makes(st, closed)[xs][Step(st, l, x).layer]
  <2>1. l \in Possible(st) /\ ~DataIsReduced(st, l) /\ ~Throws(st, l, x)
    BY <1>5
  <2> QED
    BY <2>1, MakesCall
<1>7. Makes(stages[k], k \in closing)[f[k - 1]][layers[k]] =
        Issued(runs) \o Makes(stages[k], k \in closing)[g[k - 1]][layers2[k]]
  BY <1>3, <1>4, <1>5, <1>6, Zenon
<1>8. /\ f[k] = Queued(k + 1)[stk]
                  \o Makes(stages[k], k \in closing)[f[k - 1]][layers[k]]
      /\ g[k] = Queued(k + 1)[stk2]
                  \o Makes(stages[k], k \in closing)[g[k - 1]][layers2[k]]
  BY <1>1 DEF Follows
<1>9. f[k] = g[k]
  <2>1. f[k] = <<>> \o g[k]
    BY <1>7, <1>8, Zenon
  <2>2. k \in 0..Len(stages)
    OBVIOUS
  <2>3. g[k] \in Seq(Item)
    BY ONLY <1>1, <2>2 DEF Follows
  <2> QED
    BY <2>1, <2>3, NoItems, Zenon
<1>10. ASSUME NEW m \in k..Len(stages)
       PROVE  f[m] = g[m]
  <2>1. k \in Nat /\ m \in Nat /\ k <= m /\ m <= Len(stages)
    OBVIOUS
  <2>2. SameBetween(k, m, layers, stk, closing, layers2, stk2, closing)
    <3>1. \A i \in (k + 1)..m : /\ i # k /\ i \in 1..Len(stages)
                                /\ i + 1 \in Nat /\ i + 1 # k /\ i + 1 # k + 1
      BY <2>1
    <3> QED
      BY <3>1 DEF SameBetween
  <2> QED
    BY ONLY <1>0, <1>1, <1>9, <2>1, <2>2, FollowsSame
<1>11. ASSUME NEW m \in 0..(k - 2)
       PROVE  f[m] = g[m]
  <2>1. SameBefore(k, layers, stk, closing, layers2, stk2, closing)
    <3>1. \A i \in 1..(k - 1) : i \in Nat /\ i # k /\ i # k + 1 /\ i \in 1..Len(stages)
      OBVIOUS
    <3> QED
      BY <3>1 DEF SameBefore
  <2>2. k \in 1..(Len(stages) + 1)
    OBVIOUS
  <2>3. SameFrom(f, g, 0, k - 2)
    BY ONLY <1>0, <1>1, <2>1, <2>2, FollowsBefore
  <2> QED
    BY <2>3 DEF SameFrom
<1>12. \A i \in 0..Len(stages) : i # k - 1 => i \in k..Len(stages) \/ i \in 0..(k - 2)
  BY SMTT(30)
<1> QED
  BY <1>3, <1>10, <1>11, <1>12 DEF HeadTaken

\* A call of the reducing function takes the item away from what will still come
\* out.
LEMMA ComingOut ==
  ASSUME NEW stages \in Seq(Stage), NEW ahead \in Seq(Item), NEW closing,
         NEW k, k = Len(stages) + 1, NEW x \in Item,
         NEW layers, Able(stages, layers), NEW xs,
         NEW stk \in Seq(Frame), NEW stk2 \in Seq(Frame), Advances(stk, stk2, k, x, xs)
  PROVE  HeadTaken(Coming(stages, layers, stk, ahead, closing),
                   Coming(stages, layers, stk2, ahead, closing), k, x, Len(stages))
<1> USE DEF Advances
<1> DEFINE f == Coming(stages, layers, stk, ahead, closing)
           g == Coming(stages, layers, stk2, ahead, closing)
<1>1. k \in 1..(Len(stages) + 1) /\ k - 1 = Len(stages)
  OBVIOUS
<1>2. SameBefore(k, layers, stk, closing, layers, stk2, closing)
  <2>1. \A i \in 1..(k - 1) : i \in Nat /\ i # k /\ i # k + 1
    OBVIOUS
  <2> QED
    BY <2>1 DEF SameBefore
<1>3. /\ Follows(f, stages, layers, stk, ahead, closing)
      /\ Follows(g, stages, layers, stk2, ahead, closing)
  BY ComingDef
<1> HIDE DEF f, g
<1>0. stages \in Seq(Stage) /\ ahead \in Seq(Item) /\ Able(stages, layers)
  OBVIOUS
<1>6. PICK ys \in Seq(Item) : f[k - 1] = Queued(k)[stk] \o ys
                              /\ g[k - 1] = Queued(k)[stk2] \o ys
  <2>1. k \in 1..(Len(stages) + 1)
    BY <1>1
  <2>2. SameArrivals(f, g, k, stk, stk2)
    BY ONLY <1>0, <1>2, <1>3, <2>1, FollowsInto
  <2> QED
    BY <2>2 DEF SameArrivals
<1>4. (<<x>> \o Queued(k)[stk2]) \o ys = <<x>> \o (Queued(k)[stk2] \o ys)
  <2>1. <<x>> \in Seq(Item) /\ Queued(k)[stk2] \in Seq(Item)
    BY QueuedType
  <2> QED
    BY <2>1, Associative
<1>5. f[k - 1] = <<x>> \o g[k - 1]
  BY <1>4, <1>6, Zenon
<1>7. ASSUME NEW m \in 0..(Len(stages) - 1)
      PROVE  f[m] = g[m]
  <2>1. SameFrom(f, g, 0, k - 2)
    BY ONLY <1>0, <1>1, <1>2, <1>3, FollowsBefore
  <2>2. m \in 0..(k - 2)
    BY <1>1
  <2> QED
    BY <2>1, <2>2 DEF SameFrom
<1>8. \A i \in 0..Len(stages) : i # k - 1 => i \in 0..(Len(stages) - 1)
  <2>1. Len(stages) \in Nat
    OBVIOUS
  <2> QED
    BY ONLY <1>1, <2>1
<1>9. HeadTaken(f, g, k, x, Len(stages))
  BY <1>5, <1>7, <1>8 DEF HeadTaken
<1> QED
  BY <1>9 DEF f, g

\* The completion of stage k puts what it held back in front of the next one.
LEMMA ComingCompleted ==
  ASSUME NEW stages \in Seq(Stage), NEW k \in 1..Len(stages),
         NEW layers, Able(stages, layers), NEW stk \in Seq(Frame),
         NEW held, held = Flush(stages[k], layers[k]), held \in Seq(Item),
         Queued(k + 1)[stk] = held, \A at : at # k + 1 => Queued(at)[stk] = <<>>,
         NEW closing, closing = k..Len(stages),
         NEW closing2, closing2 = (k + 1)..Len(stages)
  PROVE  Coming(stages, layers, stk, <<>>, closing2) =
           Coming(stages, layers, <<>>, <<>>, closing)
<1> DEFINE f == Coming(stages, layers, <<>>, <<>>, closing)
           g == Coming(stages, layers, stk, <<>>, closing2)
<1>1. <<>> \in Seq(Item) /\ <<>> \in Seq(Frame) /\ \A at : Queued(at)[<<>>] = <<>>
  BY QueuedEmpty
<1>2. /\ Follows(f, stages, layers, <<>>, <<>>, closing)
      /\ Follows(g, stages, layers, stk, <<>>, closing2)
  BY <1>1, ComingDef
<1>3. f[k - 1] = <<>> /\ g[k - 1] = <<>>
  <2>1. k \in 1..(Len(stages) + 1)
    OBVIOUS
  <2>2. \A i \in 1..k : Queued(i)[stk] = <<>>
    <3>1. \A i \in 1..k : i # k + 1
      OBVIOUS
    <3> QED
      BY <3>1
  <2>3. \A i \in 1..(k - 1) : /\ i \in closing => ~layers[i].called
                              /\ i \in closing2 => ~layers[i].called
    OBVIOUS
  <2>4. Coming(stages, layers, stk, <<>>, closing2)[k - 1] = <<>>
    BY <2>1, <2>2, <2>3, NothingComes
  <2>5. Coming(stages, layers, <<>>, <<>>, closing)[k - 1] = <<>>
    <3>1. \A i \in 1..k : Queued(i)[<<>>] = <<>>
      BY <1>1
    <3>2. PICK c \in Seq(Frame) : c = <<>>
      BY <1>1
    <3>3. \A i \in 1..k : Queued(i)[c] = <<>>
      BY <3>1, <3>2
    <3>4. Coming(stages, layers, c, <<>>, closing)[k - 1] = <<>>
      BY <2>1, <2>3, <3>3, NothingComes
    <3> QED
      BY <3>2, <3>4
  <2> QED
    BY <2>4, <2>5
<1> SUFFICES g = f
  OBVIOUS
<1> HIDE DEF f, g
<1>4. PICK st \in Stage, l \in Possible(stages[k]) : st = stages[k] /\ l = layers[k]
  BY DEF Able
<1>5. /\ Makes(st, TRUE)[<<>>][l] = Flush(st, l)
      /\ Makes(st, FALSE)[<<>>][l] = <<>>
  <2>1. l \in Possible(st)
    BY <1>4
  <2> QED
    BY <2>1, MakesOfNothing
<1>6. (k \in closing) = TRUE /\ (k \in closing2) = FALSE
  OBVIOUS
<1>7. /\ f[k] = Queued(k + 1)[<<>>]
                  \o Makes(stages[k], k \in closing)[f[k - 1]][layers[k]]
      /\ g[k] = Queued(k + 1)[stk]
                  \o Makes(stages[k], k \in closing2)[g[k - 1]][layers[k]]
  BY <1>2 DEF Follows
<1>8. f[k] = <<>> \o held /\ g[k] = held \o <<>>
  BY <1>1, <1>3, <1>4, <1>5, <1>6, <1>7, Zenon
<1>9. f[k] = g[k]
  BY <1>8, NoItems, Zenon
<1>10. ASSUME NEW m \in k..Len(stages)
       PROVE  f[m] = g[m]
  <2>1. k \in Nat /\ m \in Nat /\ k <= m /\ m <= Len(stages)
    OBVIOUS
  <2>2. SameBetween(k, m, layers, <<>>, closing, layers, stk, closing2)
    <3>1. \A i \in (k + 1)..m : /\ i + 1 # k + 1
                                /\ (i \in closing) = TRUE /\ (i \in closing2) = TRUE
      BY <2>1
    <3> QED
      BY <1>1, <3>1 DEF SameBetween
  <2> QED
    BY <1>2, <1>9, <2>1, <2>2, FollowsSame
<1>11. ASSUME NEW m \in 0..(k - 1)
       PROVE  f[m] = g[m]
  <2>1. CASE m = k - 1
    BY <1>3, <2>1
  <2>2. CASE m # k - 1
    <3>1. m \in 0..(k - 2) /\ k \in 1..(Len(stages) + 1)
      BY <2>2
    <3>2. SameBefore(k, layers, <<>>, closing, layers, stk, closing2)
      <4>1. \A i \in 1..(k - 1) : /\ i # k + 1
                                  /\ (i \in closing) = FALSE /\ (i \in closing2) = FALSE
        OBVIOUS
      <4> QED
        BY <1>1, <4>1 DEF SameBefore
    <3> QED
      BY <1>2, <3>1, <3>2, FollowsBefore DEF SameFrom
  <2> QED
    BY <2>1, <2>2
<1>12. f \in [0..Len(stages) -> Seq(Item)] /\ g \in [0..Len(stages) -> Seq(Item)]
  BY <1>2 DEF Follows
<1>13. \A i \in 0..Len(stages) : i \in k..Len(stages) \/ i \in 0..(k - 1)
  OBVIOUS
<1> QED
  BY <1>10, <1>11, <1>12, <1>13

(***************************************************************************)
(* What the steps of the nested calls keep                                 *)
(***************************************************************************)

\* The layers of a state are such as the stages may have.
LEMMA LayersAble ==
  ASSUME PipelineTypeOK, Ready
  PROVE  Able(pipeline, layer)
BY DEF PipelineTypeOK, Ready, Able, Possible, N

\* The first of the reductions in progress, and those around it.
LEMMA TopAndRest ==
  ASSUME PipelineTypeOK, StopInv, Due
  PROVE  /\ Top \in Frame /\ Tail(stack) \in Seq(Frame)
         /\ stack = <<Top>> \o Tail(stack)
         /\ Top.todo = <<Head(Top.todo)>> \o Advanced.todo
         /\ \A i \in 1..Len(Tail(stack)) : Tail(stack)[i].at <= Top.at
<1>1. /\ stack # <<>> /\ Top.todo # <<>>
      /\ Top \in Frame /\ Top = stack[1]
      /\ stack \in Seq(Frame)
      /\ \A s \in 1..Len(stack) : stack[s].at <= Top.at
  BY DueTop
<1>2. Tail(stack) \in Seq(Frame) /\ stack = <<Top>> \o Tail(stack)
  <2>1. PICK c \in Seq(Frame) : c = stack /\ c # <<>>
    BY <1>1
  <2>2. Tail(c) \in Seq(Frame) /\ c = <<c[1]>> \o Tail(c)
    BY <2>1
  <2> QED
    BY <1>1, <2>1, <2>2, Zenon
<1>3. Advanced.todo = Tail(Top.todo) /\ Top.todo \in Seq(Item)
  BY <1>1 DEF Advanced, Frame
<1>4. Top.todo = <<Head(Top.todo)>> \o Tail(Top.todo)
  <2>1. PICK xs \in Seq(Item) : xs = Top.todo /\ xs # <<>>
    BY <1>1, <1>3
  <2>2. xs = <<Head(xs)>> \o Tail(xs)
    BY <2>1
  <2> QED
    BY <2>1, <2>2, Zenon
<1>5. \A i \in 1..Len(Tail(stack)) : Tail(stack)[i].at <= Top.at
  <2>1. \A i \in 1..Len(Tail(stack)) : i + 1 \in 1..Len(stack)
                                       /\ Tail(stack)[i] = stack[i + 1]
    BY <1>1
  <2> QED
    BY <1>1, <2>1
<1> QED
  BY <1>1, <1>2, <1>3, <1>4, <1>5, Zenon

\* A stage is called with the item that waits for it.
LEMMA CallStageTakes ==
  ASSUME PipelineInv, StopInv, CallStage, PipelineInv'
  PROVE  \E k \in 1..Len(pipeline), item \in Item : \E runs :
           /\ k = Top.at /\ item = Head(Top.todo)
           /\ Advances(stack, stack', k, item, Issued(runs))
           /\ Called(pipeline, k, item, layer, layer', runs)
<1> DEFINE x == Head(Top.todo)
           called == Step(pipeline[Top.at], layer[Top.at], x)
           nested == Loops(Top.at + 1, called.runs)
<1>1. /\ Due /\ Top.at <= N /\ ~Throws(pipeline[Top.at], layer[Top.at], x)
      /\ layer' = [layer EXCEPT ![Top.at] = called.layer]
      /\ stack' = nested \o <<Advanced>> \o Tail(stack)
      /\ pipeline' = pipeline
  BY DEF CallStage
<1>2. /\ PipelineTypeOK /\ N' = N /\ N = Len(pipeline) /\ pipeline \in Seq(Stage)
      /\ stack \in Seq(Frame) /\ stack' \in Seq(Frame)
      /\ layer \in [1..N -> Layer]
  BY <1>1 DEF PipelineInv, PipelineTypeOK, N
<1>3. /\ Top.at \in Nat \ {0} /\ x \in Item
      /\ Advanced \in Frame /\ Advanced.at = Top.at
      /\ ~ReducedWith(layer, Top.at) /\ N \in Nat
  BY <1>1, <1>2, DueTop
<1>4. /\ Top \in Frame /\ Tail(stack) \in Seq(Frame)
      /\ stack = <<Top>> \o Tail(stack)
      /\ Top.todo = <<x>> \o Advanced.todo
      /\ \A i \in 1..Len(Tail(stack)) : Tail(stack)[i].at <= Top.at
  BY <1>1, <1>2, TopAndRest
<1>5. PICK k \in 1..Len(pipeline) : k = Top.at /\ k \in Nat
  <2>1. Top.at \in 1..N /\ Top.at \in Nat
    BY <1>1, <1>3, Position, Zenon
  <2> QED
    BY <1>2, <2>1, Zenon
<1>6. Able(pipeline, layer) /\ Able(pipeline, layer')
  <2>1. Able(pipeline, layer)
    BY LayersAble DEF PipelineInv
  <2>2. Able(pipeline, layer')
    BY <1>1 DEF PipelineInv, PipelineTypeOK, Ready, Able, Possible, N
  <2> QED
    BY <2>1, <2>2
<1>7. /\ pipeline[k] \in Stage /\ layer[k] \in Possible(pipeline[k])
      /\ ~Throws(pipeline[k], layer[k], x) /\ ~DataIsReduced(pipeline[k], layer[k])
  <2>1. k \in Top.at..N
    BY ONLY <1>2, <1>3, <1>5
  <2>2. ~DataIsReduced(pipeline[k], layer[k])
    BY <1>3, <2>1 DEF ReducedWith
  <2>3. pipeline[k] \in Stage /\ layer[k] \in Possible(pipeline[k])
    BY <1>2, <1>6 DEF Able
  <2>4. ~Throws(pipeline[k], layer[k], x)
    BY <1>1, <1>5, Zenon
  <2> QED
    BY <2>2, <2>3, <2>4
<1>8. called.runs \in Ran /\ TwoAtMost(called.runs)
  <2>1. Step(pipeline[k], layer[k], x).runs \in Ran
    BY <1>3, <1>7, CallPossible
  <2>2. TwoAtMost(Step(pipeline[k], layer[k], x).runs)
    BY <1>7, StepTwoAtMost
  <2> QED
    BY <1>5, <2>1, <2>2
<1>9. /\ nested \in Seq(Frame)
      /\ \A at : Queued(at)[nested] = IF at = k + 1 THEN Issued(called.runs) ELSE <<>>
  <2>1. k + 1 \in Nat \ {0} /\ Top.at + 1 = k + 1
    BY <1>5
  <2> HIDE DEF called
  <2>2. nested \in Seq(Frame)
    BY <1>8, <2>1, LoopsType
  <2>3. \A at : Queued(at)[Loops(k + 1, called.runs)] =
                  IF at = k + 1 THEN Issued(called.runs) ELSE <<>>
    BY <1>8, <2>1, QueuedLoops
  <2> QED
    BY <2>1, <2>2, <2>3
<1>10. /\ called.runs = Step(pipeline[k], layer[k], x).runs
       /\ layer'[k] = Step(pipeline[k], layer[k], x).layer
       /\ \A i \in 1..Len(pipeline) : i # k => layer'[i] = layer[i]
  BY <1>1, <1>2, <1>5
<1> DEFINE runs == called.runs
<1> HIDE DEF x, called, nested, runs
<1>11. stack' = nested \o (<<Advanced>> \o Tail(stack))
  <2>1. <<Advanced>> \in Seq(Frame)
    BY <1>3
  <2> QED
    BY <1>1, <1>4, <1>9, <2>1, Joined, Zenon
<1>12. Advances(stack, stack', k, x, Issued(runs))
  <2>1. /\ \A at : at # k + 1 => Queued(at)[nested] = <<>>
        /\ Queued(k + 1)[nested] = Issued(runs)
    BY <1>9 DEF runs
  <2>2. /\ \A i \in 1..Len(Tail(stack)) : Tail(stack)[i].at <= k
        /\ Top.at = k /\ Advanced.at = k
    BY <1>3, <1>4, <1>5
  <2>3. Advances(stack, stack', k, x, Queued(k + 1)[nested])
    <3>1. stack \in Seq(Frame) /\ stack' \in Seq(Frame)
      BY <1>2
    <3> QED
      BY <1>3, <1>4, <1>5, <1>9, <1>11, <2>1, <2>2, <3>1, QueuedAdvanced, ZenonT(60)
  <2> QED
    BY <2>1, <2>3, Zenon
<1>13. Called(pipeline, k, x, layer, layer', runs)
  BY <1>6, <1>7, <1>10 DEF Called, runs
<1> QED
  BY <1>3, <1>5, <1>12, <1>13 DEF x

\* What will still come out stays the same.
LEMMA CallStageKeeps ==
  ASSUME PipelineInv, StopInv, CallStage, PipelineInv',
         NEW ahead \in Seq(Item), NEW closing
  PROVE  Coming(pipeline, layer', stack', ahead, closing)[N] =
           Coming(pipeline, layer, stack, ahead, closing)[N]
<1>1. PICK k, x, runs :
        /\ k \in 1..Len(pipeline) /\ x \in Item
        /\ Advances(stack, stack', k, x, Issued(runs))
        /\ Called(pipeline, k, x, layer, layer', runs)
  BY CallStageTakes
<1>2. /\ N = Len(pipeline) /\ pipeline \in Seq(Stage)
      /\ stack \in Seq(Frame) /\ stack' \in Seq(Frame)
  BY DEF PipelineInv, PipelineTypeOK, N
<1>3. HeadTaken(Coming(pipeline, layer, stack, ahead, closing),
                Coming(pipeline, layer', stack', ahead, closing), k, x, Len(pipeline))
  BY <1>1, <1>2, ComingCalled
<1>4. Len(pipeline) \in 0..Len(pipeline) /\ Len(pipeline) # k - 1
  BY <1>1, <1>2
<1> QED
  BY <1>2, <1>3, <1>4 DEF HeadTaken

\* The reducing function is called with the item that waits for it.
LEMMA CallBaseTakes ==
  ASSUME PipelineInv, StopInv, CallBase, PipelineInv'
  PROVE  \E k \in Nat, item \in Item : \E xs :
           /\ k = Len(pipeline) + 1 /\ k = Top.at /\ item = Head(Top.todo)
           /\ Advances(stack, stack', k, item, xs)
<1> DEFINE x == Head(Top.todo)
           none == <<>>
<1>1. /\ Due /\ Top.at = N + 1
      /\ out' = Append(out, x)
      /\ stack' = <<Advanced>> \o Tail(stack)
      /\ pipeline' = pipeline /\ layer' = layer
  BY DEF CallBase
<1>2. /\ PipelineTypeOK /\ N = Len(pipeline) /\ pipeline \in Seq(Stage)
      /\ stack \in Seq(Frame) /\ stack' \in Seq(Frame) /\ out \in Seq(Item)
  BY <1>1 DEF PipelineInv, PipelineTypeOK, N
<1>3. x \in Item /\ Advanced \in Frame /\ Advanced.at = Top.at /\ N \in Nat
  BY <1>1, <1>2, DueTop
<1>4. /\ Top \in Frame /\ Tail(stack) \in Seq(Frame)
      /\ stack = <<Top>> \o Tail(stack)
      /\ Top.todo = <<x>> \o Advanced.todo
      /\ \A i \in 1..Len(Tail(stack)) : Tail(stack)[i].at <= Top.at
  BY <1>1, <1>2, TopAndRest
<1>5. PICK k \in Nat : k = Top.at /\ k = Len(pipeline) + 1
  <2>1. N + 1 \in Nat
    BY <1>3
  <2> QED
    BY <1>1, <1>2, <2>1, Zenon
<1>6. Able(pipeline, layer)
  BY LayersAble DEF PipelineInv
<1>7. none \in Seq(Frame) /\ stack' = none \o (<<Advanced>> \o Tail(stack))
  <2>1. <<Advanced>> \o Tail(stack) \in Seq(Frame)
    BY <1>3, <1>4
  <2> QED
    BY <1>1, <2>1
<1>8. \A at : Queued(at)[none] = <<>>
  BY QueuedEmpty
<1> HIDE DEF x, none
<1>9. Advances(stack, stack', k, x, Queued(k + 1)[none])
  <2>1. /\ \A i \in 1..Len(Tail(stack)) : Tail(stack)[i].at <= k
        /\ Top.at = k /\ Advanced.at = k
    BY <1>3, <1>4, <1>5
  <2>2. stack \in Seq(Frame) /\ stack' \in Seq(Frame)
    BY <1>2
  <2>3. \A at : at # k + 1 => Queued(at)[none] = <<>>
    BY <1>8
  <2> QED
    BY <1>3, <1>4, <1>7, <2>1, <2>2, <2>3, QueuedAdvanced, ZenonT(60)
<1> QED
  BY <1>3, <1>5, <1>9 DEF x

\* What has come out and will still come out stays the same.
LEMMA CallBaseKeeps ==
  ASSUME PipelineInv, StopInv, CallBase, PipelineInv',
         NEW ahead \in Seq(Item), NEW closing
  PROVE  out' \o Coming(pipeline, layer', stack', ahead, closing)[N] =
           out \o Coming(pipeline, layer, stack, ahead, closing)[N]
<1>1. PICK k, x, xs :
        /\ k \in Nat /\ x \in Item
        /\ k = Len(pipeline) + 1 /\ k = Top.at /\ x = Head(Top.todo)
        /\ Advances(stack, stack', k, x, xs)
  BY CallBaseTakes
<1>2. /\ N = Len(pipeline) /\ pipeline \in Seq(Stage) /\ out \in Seq(Item)
      /\ stack \in Seq(Frame) /\ stack' \in Seq(Frame) /\ Able(pipeline, layer)
  BY LayersAble DEF PipelineInv, PipelineTypeOK, N
<1>3. out' = Append(out, x) /\ pipeline' = pipeline /\ layer' = layer
  BY <1>1 DEF CallBase
<1>4. HeadTaken(Coming(pipeline, layer, stack, ahead, closing),
                Coming(pipeline, layer, stack', ahead, closing), k, x, Len(pipeline))
  BY <1>1, <1>2, ComingOut
<1>5. k - 1 = Len(pipeline)
  BY <1>1, <1>2
<1>6. Coming(pipeline, layer, stack, ahead, closing)[Len(pipeline)] =
        <<x>> \o Coming(pipeline, layer, stack', ahead, closing)[Len(pipeline)]
  BY <1>4, <1>5 DEF HeadTaken
<1>7. PICK ys \in Seq(Item) :
         ys = Coming(pipeline, layer, stack', ahead, closing)[Len(pipeline)]
  <2>1. Follows(Coming(pipeline, layer, stack', ahead, closing),
                pipeline, layer, stack', ahead, closing)
    BY <1>2, ComingDef
  <2>2. Len(pipeline) \in 0..Len(pipeline)
    BY <1>2
  <2> QED
    BY <2>1, <2>2 DEF Follows
<1>8. Append(out, x) \o ys = out \o (<<x>> \o ys)
  BY <1>2, SMTT(30)
<1> QED
  BY <1>2, <1>3, <1>6, <1>7, <1>8, Zenon

\* A reduction returns: its stage would make nothing of what it leaves.
LEMMA ReturnKeeps ==
  ASSUME PipelineInv, StopInv, Return, PipelineInv',
         NEW ahead \in Seq(Item), NEW closing
  PROVE  Coming(pipeline, layer', stack', ahead, closing)[N] =
           Coming(pipeline, layer, stack, ahead, closing)[N]
<1>1. /\ stack # <<>> /\ Top.mode # "throw" /\ ~Due
      /\ stack' = Tail(stack) /\ pipeline' = pipeline /\ layer' = layer
  BY DEF Return
<1>2. /\ PipelineTypeOK /\ N = Len(pipeline) /\ pipeline \in Seq(Stage)
      /\ stack \in Seq(Frame) /\ stack' \in Seq(Frame)
  BY <1>1 DEF PipelineInv, PipelineTypeOK, N
<1>3. Able(pipeline, layer)
  BY LayersAble DEF PipelineInv
<1>4. Top \in Frame /\ Top = stack[1] /\ Top = Head(stack) /\ Top.at \in Nat \ {0}
  BY <1>1, <1>2, TopType DEF Top, Frame
<1>5. ASSUME NEW at
      PROVE  Queued(at)[stack] =
               (IF Top.at = at THEN Top.todo ELSE <<>>) \o Queued(at)[stack']
  <2>1. Queued(at)[stack] =
          (IF Head(stack).at = at THEN Head(stack).todo ELSE <<>>)
            \o Queued(at)[Tail(stack)]
    BY <1>1, <1>2, QueuedDef
  <2> QED
    BY <1>1, <1>4, <2>1, Zenon
<1>6. \A at : Queued(at)[stack'] \in Seq(Item)
  BY <1>2, QueuedType
<1>7. ASSUME NEW at, at # Top.at
      PROVE  Queued(at)[stack] = Queued(at)[stack']
  <2>1. Queued(at)[stack] = <<>> \o Queued(at)[stack']
    BY <1>5, <1>7, Zenon
  <2> QED
    BY <1>6, <2>1, NoItems, Zenon
<1>8. CASE Top.todo = <<>>
  <2>1. \A at : Queued(at)[stack] = Queued(at)[stack']
    <3> TAKE at
    <3>1. Queued(at)[stack] = <<>> \o Queued(at)[stack']
      BY <1>5, <1>8, Zenon
    <3> QED
      BY <1>6, <3>1, NoItems, Zenon
  <2>2. Coming(pipeline, layer, stack, ahead, closing)[Len(pipeline)] =
          Coming(pipeline, layer, stack', ahead, closing)[Len(pipeline)]
    <3>1. SameInput(stack, ahead, stack', ahead)
      BY <2>1, Zenon DEF SameInput
    <3>2. SameQueued(2, Len(pipeline) + 1, stack, stack')
      BY <2>1, Zenon DEF SameQueued
    <3>3. pipeline \in Seq(Stage) /\ stack \in Seq(Frame) /\ stack' \in Seq(Frame)
      BY <1>2
    <3> QED
      BY <1>3, <3>1, <3>2, <3>3, ComingAlike
  <2> QED
    BY <1>1, <1>2, <2>2, Zenon
<1>9. CASE Top.todo # <<>>
  <2>1. PICK j \in Top.at..N : DataIsReduced(pipeline[j], layer[j])
    BY <1>1, <1>4, <1>9 DEF Due, Reduced, Frame
  <2>2. j \in 1..Len(pipeline)
    BY <1>2, <1>4, <2>1
  <2>3. SameQueued(j + 1, Len(pipeline) + 1, stack, stack')
    <3>1. \A k \in (j + 1)..(Len(pipeline) + 1) : k # Top.at
      BY <1>4, <2>1, <2>2
    <3> QED
      BY <1>7, <3>1 DEF SameQueued
  <2>4. Coming(pipeline, layer, stack, ahead, closing)[Len(pipeline)] =
          Coming(pipeline, layer, stack', ahead, closing)[Len(pipeline)]
    <3>1. pipeline \in Seq(Stage) /\ stack \in Seq(Frame) /\ stack' \in Seq(Frame)
      BY <1>2
    <3>2. SameFrom(Coming(pipeline, layer, stack, ahead, closing),
                   Coming(pipeline, layer, stack', ahead, closing), j, Len(pipeline))
      BY <1>3, <2>1, <2>2, <2>3, <3>1, ComingStopped
    <3>3. Len(pipeline) \in j..Len(pipeline)
      BY <2>2
    <3> QED
      BY <3>2, <3>3 DEF SameFrom
  <2> QED
    BY <1>1, <1>2, <2>4, Zenon
<1> QED
  BY <1>8, <1>9

\* take() may call the next step before it throws.
LEMMA WillThrow ==
  ASSUME PipelineTypeOK, StopInv, StepThenThrow, PipelineInv'
  PROVE  Failing'
<1> DEFINE fr == [Advanced EXCEPT !.mode = "throw"]
           first == Loop(Top.at + 1, <<Head(Top.todo)>>)
<1>1. Due /\ stack' = <<first, fr>> \o Tail(stack)
  BY DEF StepThenThrow
<1>2. Advanced \in Frame /\ Tail(stack) \in Seq(Frame) /\ stack' \in Seq(Frame)
  BY <1>1, DueTop, TopAndRest DEF PipelineInv, PipelineTypeOK
<1>3. fr.mode = "throw"
  BY <1>2 DEF Frame
<1> HIDE DEF fr, first
<1>4. 2 \in 1..Len(stack') /\ stack'[2] = fr
  BY <1>1, <1>2
<1> QED
  BY <1>3, <1>4 DEF Failing

\* A step of the nested calls that does not throw: the items that have come out,
\* followed by those that will still come out, are always the same ones.
LEMMA StepKeeps ==
  ASSUME PipelineInv, StopInv, PipelineStep, ~Failing',
         NEW ahead \in Seq(Item), NEW closing
  PROVE  out' \o Coming(pipeline, layer', stack', ahead, closing)[N] =
           out \o Coming(pipeline, layer, stack, ahead, closing)[N]
<1>0. PipelineInv'
  BY PipelineStepInv
<1>1. CASE CallStage
  <2>1. out' = out
    BY <1>1 DEF CallStage
  <2> QED
    BY <1>0, <1>1, <2>1, CallStageKeeps
<1>2. CASE CallBase
  BY <1>0, <1>2, CallBaseKeeps
<1>3. CASE Return
  <2>1. out' = out
    BY <1>3 DEF Return
  <2> QED
    BY <1>0, <1>3, <2>1, ReturnKeeps
<1>4. ~ThrowFirst /\ ~Unwind
  BY DEF ThrowFirst, Unwind, Failing
<1>5. ~StepThenThrow
  BY <1>0, WillThrow DEF PipelineInv
<1> QED
  BY <1>1, <1>2, <1>3, <1>4, <1>5 DEF PipelineStep

\* An exception that is on its way does not stop.
LEMMA StillFailing ==
  ASSUME PipelineInv, StopInv, PipelineStep, ~Failing'
  PROVE  ~Failing
<1>1. PipelineTypeOK /\ stack \in Seq(Frame)
  BY DEF PipelineInv, PipelineTypeOK
<1>2. ASSUME NEW a \in Seq(Frame), stack' = a \o Tail(stack), threw' = threw,
             stack # <<>>, Top.mode # "throw"
      PROVE  ~Failing
  <2> SUFFICES ASSUME Failing
               PROVE  FALSE
    OBVIOUS
  <2>1. ~threw
    BY <1>2 DEF Failing
  <2>2. PICK i \in 1..Len(stack) : stack[i].mode = "throw"
    BY <2>1 DEF Failing
  <2>3. i # 1
    BY <1>1, <1>2, <2>2, TopType
  <2>4. /\ Len(a) + (i - 1) \in 1..Len(stack')
        /\ stack'[Len(a) + (i - 1)] = stack[i]
    <3>1. /\ Tail(stack) \in Seq(Frame) /\ i - 1 \in 1..Len(Tail(stack))
          /\ Tail(stack)[i - 1] = stack[i]
      BY <1>1, <1>2, <2>2, <2>3
    <3> QED
      BY <1>2, <3>1
  <2> QED
    BY <2>2, <2>4 DEF Failing
<1>3. CASE CallStage
  <2> DEFINE x == Head(Top.todo)
             called == Step(pipeline[Top.at], layer[Top.at], x)
             nested == Loops(Top.at + 1, called.runs)
  <2>1. /\ Due /\ Top.at <= N /\ ~Throws(pipeline[Top.at], layer[Top.at], x)
        /\ stack' = (nested \o <<Advanced>>) \o Tail(stack) /\ threw' = threw
    BY <1>3 DEF CallStage
  <2>2. /\ stack # <<>> /\ Top.mode # "throw" /\ Advanced \in Frame
        /\ Top.at \in Nat \ {0} /\ x \in Item /\ ~ReducedWith(layer, Top.at)
        /\ N \in Nat
    BY <1>1, <2>1, DueTop
  <2>3. PICK k \in 1..Len(pipeline) : k = Top.at
    <3>1. Top.at \in 1..N
      BY <2>1, <2>2, Position, Zenon
    <3> QED
      BY <3>1, Zenon DEF N
  <2>4. /\ pipeline[k] \in Stage /\ layer[k] \in Possible(pipeline[k])
        /\ ~DataIsReduced(pipeline[k], layer[k])
    <3>1. k \in Top.at..N
      BY <2>3 DEF N
    <3>2. pipeline \in Seq(Stage) /\ Able(pipeline, layer)
      BY <1>1, LayersAble DEF PipelineInv, PipelineTypeOK
    <3> QED
      BY <2>2, <3>1, <3>2 DEF ReducedWith, Able
  <2>5. called.runs \in Ran
    <3>1. ~Throws(pipeline[k], layer[k], x)
      BY <2>1, <2>3
    <3>2. Step(pipeline[k], layer[k], x).runs \in Ran
      BY <2>2, <2>4, <3>1, CallPossible
    <3> QED
      BY <2>3, <3>2
  <2>6. nested \in Seq(Frame)
    <3>1. Top.at + 1 \in Nat \ {0}
      BY <2>2
    <3> QED
      BY <2>5, <3>1, LoopsType
  <2> HIDE DEF nested
  <2>7. nested \o <<Advanced>> \in Seq(Frame)
    BY <2>2, <2>6
  <2> QED
    BY <1>2, <2>1, <2>2, <2>7
<1>4. CASE CallBase
  <2>1. Due /\ stack' = <<Advanced>> \o Tail(stack) /\ threw' = threw
    BY <1>4 DEF CallBase
  <2>2. stack # <<>> /\ Top.mode # "throw" /\ Advanced \in Frame
    BY <1>1, <2>1, DueTop
  <2>3. <<Advanced>> \in Seq(Frame)
    BY <2>2
  <2> QED
    BY <1>2, <2>1, <2>2, <2>3
<1>5. CASE Return
  <2>1. <<>> \in Seq(Frame) /\ Tail(stack) = <<>> \o Tail(stack)
    BY <1>1, <1>5 DEF Return
  <2> QED
    BY <1>2, <1>5, <2>1 DEF Return
<1>6. CASE StepThenThrow
  <2> DEFINE fr == [Advanced EXCEPT !.mode = "throw"]
             first == Loop(Top.at + 1, <<Head(Top.todo)>>)
  <2>1. Due /\ stack' = <<first, fr>> \o Tail(stack) /\ threw' = threw
    BY <1>6 DEF StepThenThrow
  <2>2. /\ stack # <<>> /\ Top.mode # "throw" /\ Advanced \in Frame
        /\ Top.at \in Nat \ {0} /\ Head(Top.todo) \in Item
    BY <1>1, <2>1, DueTop
  <2>3. fr \in Frame
    BY <2>2 DEF Frame
  <2>4. first \in Frame
    <3>1. <<Head(Top.todo)>> \in Seq(Item) /\ Top.at + 1 \in Nat \ {0}
      BY <2>2
    <3> QED
      BY <3>1, LoopType
  <2> HIDE DEF fr, first
  <2>5. <<first, fr>> \in Seq(Frame)
    BY <2>3, <2>4
  <2> QED
    BY <1>2, <2>1, <2>2, <2>5
<1>7. ~ThrowFirst /\ ~Unwind
  BY DEF ThrowFirst, Unwind, Failing
<1> QED
  BY <1>3, <1>4, <1>5, <1>6, <1>7 DEF PipelineStep

(***************************************************************************)
(* What a driver does between the calls                                    *)
(***************************************************************************)

\* What will come out is a sequence of items.
LEMMA ComingType ==
  ASSUME PipelineInv, NEW ahead \in Seq(Item), NEW closing
  PROVE  Coming(pipeline, layer, stack, ahead, closing)[N] \in Seq(Item)
<1>1. /\ pipeline \in Seq(Stage) /\ stack \in Seq(Frame) /\ Able(pipeline, layer)
      /\ N = Len(pipeline)
  BY LayersAble DEF PipelineInv, PipelineTypeOK, N
<1>2. Follows(Coming(pipeline, layer, stack, ahead, closing),
              pipeline, layer, stack, ahead, closing)
  BY <1>1, ComingDef
<1>3. N \in 0..Len(pipeline)
  BY <1>1
<1> QED
  BY <1>2, <1>3 DEF Follows

\* The same of a state that is put away.
LEMMA RestingType ==
  ASSUME NEW stages \in Seq(Stage), NEW layers, Able(stages, layers),
         NEW ahead \in Seq(Item), NEW closing
  PROVE  Coming(stages, layers, <<>>, ahead, closing)[Len(stages)] \in Seq(Item)
<1>1. <<>> \in Seq(Frame) /\ Len(stages) \in 0..Len(stages)
  OBVIOUS
<1>2. Follows(Coming(stages, layers, <<>>, ahead, closing),
              stages, layers, <<>>, ahead, closing)
  BY <1>1, ComingDef
<1> QED
  BY <1>1, <1>2 DEF Follows

\* Sound layers are able to be called, and what comes out of them before anything
\* goes in is nothing.
LEMMA SoundAble ==
  ASSUME NEW stages \in Seq(Stage), NEW layers, Sound(stages, layers)
  PROVE  Able(stages, layers)
BY DEF Sound, Able, Possible

LEMMA NothingAhead ==
  ASSUME NEW stages \in Seq(Stage), NEW layers, Able(stages, layers), NEW closing,
         \A k \in 1..Len(stages) : k \notin closing
  PROVE  Coming(stages, layers, <<>>, <<>>, closing)[Len(stages)] = <<>>
<1>1. PICK stk \in Seq(Frame), k \in 1..(Len(stages) + 1) : stk = <<>> /\ k = Len(stages) + 1
  <2>1. <<>> \in Seq(Frame) /\ Len(stages) + 1 \in 1..(Len(stages) + 1)
    OBVIOUS
  <2> QED
    BY <2>1
<1>2. \A i \in 1..k : Queued(i)[stk] = <<>>
  BY <1>1, QueuedEmpty
<1>3. k - 1 = Len(stages) /\ \A i \in 1..(k - 1) : i \in closing => ~layers[i].called
  <2>1. Len(stages) \in Nat
    OBVIOUS
  <2> QED
    BY <1>1, <2>1
<1>4. Coming(stages, layers, stk, <<>>, closing)[k - 1] = <<>>
  BY <1>2, <1>3, NothingComes
<1> QED
  BY <1>1, <1>3, <1>4, Zenon

LEMMA Appended ==
  ASSUME NEW xs \in Seq(Item), NEW x \in Item
  PROVE  /\ Append(xs, x) \in Seq(Item) /\ Len(xs) <= Len(Append(xs, x))
         /\ \A n \in Nat : n <= Len(xs) => SubSeq(Append(xs, x), 1, n) = SubSeq(xs, 1, n)
         /\ \A ys \in Seq(Item) : /\ Append(xs, x) \o ys = xs \o (<<x>> \o ys)
                                  /\ <<x>> \o ys \in Seq(Item)
<1>1. \A n \in Nat : n <= Len(xs) => SubSeq(Append(xs, x), 1, n) = SubSeq(xs, 1, n)
  OBVIOUS
<1>2. ASSUME NEW ys \in Seq(Item)
      PROVE  Append(xs, x) \o ys = xs \o (<<x>> \o ys) /\ <<x>> \o ys \in Seq(Item)
  OBVIOUS
<1>3. Append(xs, x) \in Seq(Item) /\ Len(xs) <= Len(Append(xs, x))
  OBVIOUS
<1> QED
  BY <1>1, <1>2, <1>3

\* An item that is fed waits for the first stage instead of being ahead.
LEMMA FeedWaits ==
  ASSUME NEW x \in Item, NEW ahead \in Seq(Item), NEW hi \in Nat
  PROVE  /\ SameInput(<<>>, <<x>> \o ahead, <<Loop(1, <<x>>)>>, ahead)
         /\ SameQueued(2, hi, <<>>, <<Loop(1, <<x>>)>>)
<1>1. PICK fr \in Frame : fr = Loop(1, <<x>>) /\ fr.at = 1 /\ fr.todo = <<x>>
  <2>1. <<x>> \in Seq(Item) /\ 1 \in Nat \ {0}
    OBVIOUS
  <2>2. Loop(1, <<x>>) \in Frame
    BY <2>1, LoopType
  <2> QED
    BY <2>2 DEF Loop
<1>2. PICK stk \in Seq(Frame), stk2 \in Seq(Frame) : stk = <<fr>> /\ stk2 = <<>>
  <2>1. <<>> \in Seq(Frame) /\ <<fr>> \in Seq(Frame)
    OBVIOUS
  <2> QED
    BY <2>1
<1>3. SameQueued(2, hi, stk2, stk)
  <2>1. ASSUME NEW k \in 2..hi
        PROVE  Queued(k)[stk] = Queued(k)[stk2]
    <3>1. \A i \in 1..Len(stk) : stk[i].at # k
      BY <1>1, <1>2
    <3>2. Queued(k)[stk] = <<>>
      BY <3>1, NothingWaits
    <3> QED
      BY <1>2, <3>2, QueuedEmpty
  <2> QED
    BY <2>1 DEF SameQueued
<1>4. SameInput(stk2, <<x>> \o ahead, stk, ahead)
  <2>1. Queued(1)[stk] = <<x>> /\ Queued(1)[stk2] = <<>>
    <3>1. Queued(fr.at)[<<fr>>] = fr.todo
      BY QueuedOne
    <3> QED
      BY <1>1, <1>2, <3>1, QueuedEmpty, Zenon
  <2>2. <<>> \o (<<x>> \o ahead) = <<x>> \o ahead
    BY Appended, NoItems
  <2> QED
    BY <2>1, <2>2, Zenon DEF SameInput
<1> QED
  BY <1>1, <1>2, <1>3, <1>4, Zenon

LEMMA FeedKeeps ==
  ASSUME NEW stages \in Seq(Stage), NEW layers, Able(stages, layers), NEW closing,
         NEW x \in Item, NEW ahead \in Seq(Item)
  PROVE  Coming(stages, layers, <<Loop(1, <<x>>)>>, ahead, closing) =
           Coming(stages, layers, <<>>, <<x>> \o ahead, closing)
<1>1. PICK stk \in Seq(Frame), stk2 \in Seq(Frame), more \in Seq(Item) :
        stk = <<Loop(1, <<x>>)>> /\ stk2 = <<>> /\ more = <<x>> \o ahead
  <2>1. <<x>> \in Seq(Item) /\ 1 \in Nat \ {0}
    OBVIOUS
  <2>2. PICK fr \in Frame : fr = Loop(1, <<x>>)
    BY <2>1, LoopType
  <2>3. <<fr>> \in Seq(Frame) /\ <<>> \in Seq(Frame)
    OBVIOUS
  <2> QED
    BY <2>2, <2>3, Appended, Zenon
<1>2. SameInput(stk2, more, stk, ahead) /\ SameQueued(2, Len(stages) + 1, stk2, stk)
  <2>1. Len(stages) + 1 \in Nat
    OBVIOUS
  <2> QED
    BY <1>1, <2>1, FeedWaits
<1>3. Coming(stages, layers, stk2, more, closing) = Coming(stages, layers, stk, ahead, closing)
  BY <1>2, ComingAlike
<1> QED
  BY <1>1, <1>3, Zenon

\* What a completed stage held back waits for the next one instead.
LEMMA CompletionKeeps ==
  ASSUME NEW stages \in Seq(Stage), NEW layers \in [1..Len(stages) -> Layer],
         Able(stages, layers), NEW k \in 1..Len(stages),
         NEW loop, loop = Loop(k + 1, Flush(stages[k], layers[k]))
  PROVE  Coming(stages, layers, <<loop>>, <<>>, (k + 1)..Len(stages)) =
           Coming(stages, layers, <<>>, <<>>, k..Len(stages))
<1>1. PICK held \in Seq(Item) : held = Flush(stages[k], layers[k])
  <2>1. stages[k] \in Stage /\ layers[k] \in Layer
    OBVIOUS
  <2>2. Flush(stages[k], layers[k]) \in Seq(Item)
    BY <2>1, FlushType
  <2> QED
    BY <2>2
<1>2. PICK fr \in Frame : fr = Loop(k + 1, held) /\ fr.at = k + 1 /\ fr.todo = held
  <2>1. k + 1 \in Nat \ {0}
    OBVIOUS
  <2>2. Loop(k + 1, held) \in Frame
    BY <2>1, LoopType
  <2> QED
    BY <2>2 DEF Loop
<1>3. PICK stk \in Seq(Frame) : stk = <<fr>>
  <2>1. <<fr>> \in Seq(Frame)
    OBVIOUS
  <2> QED
    BY <2>1
<1>4. Queued(k + 1)[stk] = held /\ \A at : at # k + 1 => Queued(at)[stk] = <<>>
  <2>1. Queued(fr.at)[<<fr>>] = fr.todo
    BY QueuedOne
  <2>2. ASSUME NEW at, at # k + 1
        PROVE  Queued(at)[stk] = <<>>
    <3>1. \A i \in 1..Len(stk) : stk[i].at # at
      BY <1>2, <1>3, <2>2
    <3> QED
      BY <3>1, NothingWaits
  <2>3. Queued(k + 1)[stk] = held
    BY <1>2, <1>3, <2>1, Zenon
  <2> QED
    BY <2>2, <2>3
<1>5. Coming(stages, layers, stk, <<>>, (k + 1)..Len(stages)) =
        Coming(stages, layers, <<>>, <<>>, k..Len(stages))
  BY <1>1, <1>4, ComingCompleted
<1>6. <<loop>> = stk
  BY <1>1, <1>2, <1>3
<1> QED
  BY <1>5, <1>6, Zenon

\* What the stages make is a sequence of items.
LEMMA ThroughType ==
  ASSUME NEW stages \in Seq(Stage), NEW xs \in Seq(Item), NEW closed \in BOOLEAN
  PROVE  Through(stages, xs, closed) \in Seq(Item)
<1> DEFINE layers == [k \in 1..Len(stages) |-> Fresh]
           closing == {k \in 1..Len(stages) : closed}
<1>1. /\ \A k \in 1..Len(stages) : layers[k] = Fresh
      /\ \A k \in 1..Len(stages) : (k \in closing) = closed
  OBVIOUS
<1> HIDE DEF layers, closing
<1>2. /\ Able(stages, layers)
      /\ Coming(stages, layers, <<>>, xs, closing)[Len(stages)] = Through(stages, xs, closed)
  BY <1>1, ComingThrough
<1>3. Coming(stages, layers, <<>>, xs, closing)[Len(stages)] \in Seq(Item)
  BY <1>2, RestingType
<1> QED
  BY <1>2, <1>3
=============================================================================

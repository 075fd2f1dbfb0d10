--------------------------- MODULE PipelineProofs ---------------------------
(***************************************************************************)
(* The inductive invariant of the nested calls, whatever drives them: what *)
(* the steps of Pipeline preserve, and what a driver preserves that starts *)
(* a reduction on an idle pipeline.                                        *)
(***************************************************************************)
EXTENDS Pipeline, StagesProofs

\* A stage that has data did not throw while it built them.
Ready == \A k \in 1..N : layer[k].called => ~ThrowsFirst(pipeline[k], Fresh)

\* A reduction on stage `at` was started by the stages before it, so that each
\* of them has wrapped the state.
StartedInside ==
  ~Failing =>
    \A s \in 1..Len(stack) : stack[s].todo # <<>> =>
      \A i \in 1..N : i < stack[s].at => layer[i].called

PipelineInv == PipelineTypeOK /\ Ready /\ StartedInside /\ WrapPrefix

(***************************************************************************)
(* Frames                                                                  *)
(***************************************************************************)

\* A new reduction is a frame.
LEMMA LoopType ==
  ASSUME NEW at \in Nat \ {0}, NEW todo \in Seq(Item)
  PROVE  Loop(at, todo) \in Frame
BY DEF Loop, Frame

\* The reductions of a call are frames, one for each.
LEMMA LoopsType ==
  ASSUME NEW at \in Nat \ {0}, NEW runs \in Ran
  PROVE  /\ Loops(at, runs) \in Seq(Frame)
         /\ Len(Loops(at, runs)) = Len(runs)
         /\ \A i \in 1..Len(runs) : Loops(at, runs)[i] = Loop(at, runs[i])
<1>1. \A i \in 1..Len(runs) : runs[i] \in Seq(Item)
  BY DEF Ran
<1>2. Len(runs) \in Nat
  BY DEF Ran
<1>3. \A i \in 1..Len(runs) : Loop(at, runs[i]) \in Frame
  BY <1>1, LoopType
<1> QED
  BY <1>2, <1>3 DEF Loops

\* The elements of a stack whose first frame is replaced by others.
LEMMA Replaced ==
  ASSUME NEW a \in Seq(Frame), NEW c \in Seq(Frame), c # <<>>
  PROVE  /\ a \o Tail(c) \in Seq(Frame)
         /\ \A i \in 1..Len(a \o Tail(c)) :
              \/ \E r \in 1..Len(a) : (a \o Tail(c))[i] = a[r]
              \/ \E j \in 2..Len(c) : (a \o Tail(c))[i] = c[j]
         /\ \A j \in 2..Len(c) : \E i \in 1..Len(a \o Tail(c)) :
              (a \o Tail(c))[i] = c[j]
<1> DEFINE d == a \o Tail(c)
<1>1. /\ Tail(c) \in Seq(Frame)
      /\ Len(Tail(c)) = Len(c) - 1
      /\ \A h \in 1..(Len(c) - 1) : Tail(c)[h] = c[h + 1]
      /\ Len(c) \in Nat /\ Len(a) \in Nat
  OBVIOUS
<1>2. /\ d \in Seq(Frame)
      /\ Len(d) = Len(a) + Len(c) - 1
      /\ \A i \in 1..Len(a) : d[i] = a[i]
      /\ \A h \in 1..(Len(c) - 1) : d[Len(a) + h] = c[h + 1]
  BY <1>1
<1> HIDE DEF d
<1>3. ASSUME NEW i \in 1..Len(d)
      PROVE  \/ \E r \in 1..Len(a) : d[i] = a[r]
             \/ \E j \in 2..Len(c) : d[i] = c[j]
  <2>1. CASE i <= Len(a)
    BY <1>1, <1>2, <2>1
  <2>2. CASE i > Len(a)
    <3> DEFINE h == i - Len(a)
    <3>1. h \in 1..(Len(c) - 1) /\ h + 1 \in 2..Len(c) /\ i = Len(a) + h
      BY <1>1, <1>2, <2>2
    <3>2. d[i] = c[h + 1]
      BY <1>2, <3>1
    <3> QED
      BY <3>1, <3>2
  <2> QED
    BY <1>1, <2>1, <2>2
<1>4. ASSUME NEW j \in 2..Len(c)
      PROVE  \E i \in 1..Len(d) : d[i] = c[j]
  <2> DEFINE h == j - 1
  <2>1. /\ h \in 1..(Len(c) - 1) /\ j = h + 1
        /\ Len(a) + h \in 1..Len(d)
    BY <1>1, <1>2
  <2>2. d[Len(a) + h] = c[j]
    BY <1>2, <2>1
  <2> QED
    BY <2>1, <2>2
<1> QED
  BY <1>2, <1>3, <1>4 DEF d

\* The frames that replace the first one are there.
LEMMA Placed ==
  ASSUME NEW a \in Seq(Frame), NEW c \in Seq(Frame), c # <<>>, NEW r \in 1..Len(a)
  PROVE  \E i \in 1..Len(a \o Tail(c)) : (a \o Tail(c))[i] = a[r]
<1> DEFINE d == a \o Tail(c)
<1>1. Tail(c) \in Seq(Frame) /\ Len(Tail(c)) \in Nat /\ Len(a) \in Nat
  OBVIOUS
<1>2. Len(d) = Len(a) + Len(Tail(c)) /\ \A i \in 1..Len(a) : d[i] = a[i]
  BY <1>1
<1> HIDE DEF d
<1>3. r \in 1..Len(d) /\ d[r] = a[r]
  BY <1>1, <1>2
<1> QED
  BY <1>3 DEF d

(***************************************************************************)
(* The start of a reduction from outside                                   *)
(***************************************************************************)

\* No stage has data before the first call.
LEMMA PipelineInitInv ==
  ASSUME NEW p \in Seq(Stage), PipelineInit(p)
  PROVE  PipelineInv
<1> USE DEF PipelineInit
<1>1. N = Len(p) /\ Len(p) \in Nat
  BY DEF N
<1>2. Fresh \in Layer /\ ~Fresh.called
  BY EmptyType DEF Fresh, Layer
<1>3. layer \in [1..N -> Layer] /\ \A k \in 1..N : layer[k] = Fresh
  BY <1>1, <1>2
<1>4. PipelineTypeOK
  <2>1. stack \in Seq(Frame) /\ Len(stack) = 0 /\ out \in Seq(Item)
    BY EmptyType
  <2>2. threw \in BOOLEAN
    BY Zenon
  <2> QED
    BY <1>3, <2>1, <2>2 DEF PipelineTypeOK
<1>5. Ready /\ WrapPrefix
  BY <1>1, <1>2, <1>3 DEF Ready, WrapPrefix
<1>6. StartedInside
  BY DEF StartedInside
<1> QED
  BY <1>4, <1>5, <1>6 DEF PipelineInv

\* A driver may start a reduction on any stage that the state got to.
LEMMA StartInv ==
  ASSUME PipelineInv, ~threw,
         NEW at \in 1..(N + 1), NEW todo \in Seq(Item),
         todo # <<>> => \A i \in 1..N : i < at => layer[i].called,
         stack = <<>>,
         stack' = <<Loop(at, todo)>>,
         UNCHANGED <<pipeline, layer, out, threw>>
  PROVE  PipelineInv'
<1>1. N \in Nat /\ N' = N
  BY DEF N, PipelineInv, PipelineTypeOK
<1>2. at \in Nat \ {0} /\ at <= N + 1
  BY <1>1
<1>3. Loop(at, todo) \in Frame
  BY <1>2, LoopType
<1>4. /\ stack' \in Seq(Frame) /\ Len(stack') = 1
      /\ stack'[1] = Loop(at, todo)
  BY <1>3
<1>5. PipelineTypeOK'
  BY <1>1, <1>2, <1>4 DEF PipelineInv, PipelineTypeOK, Loop
<1>6. ~Failing
  BY DEF Failing
<1>7. Ready' /\ WrapPrefix'
  BY <1>1, <1>6 DEF PipelineInv, Ready, WrapPrefix
<1>8. StartedInside'
  BY <1>1, <1>4 DEF StartedInside, Loop
<1> QED
  BY <1>5, <1>7, <1>8 DEF PipelineInv

\* Completion starts a reduction behind a stage only if the stage had data, and
\* then so had those before it.
LEMMA CompletionInv ==
  ASSUME PipelineInv, ~threw, stack = <<>>, NEW k \in 1..N,
         stack' = <<Loop(k + 1, Flush(pipeline[k], layer[k]))>>,
         UNCHANGED <<pipeline, layer, out, threw>>
  PROVE  PipelineInv'
<1> DEFINE todo == Flush(pipeline[k], layer[k])
<1>1. N \in Nat /\ k + 1 \in 1..(N + 1)
  BY DEF N, PipelineInv, PipelineTypeOK
<1>2. pipeline[k] \in Stage /\ layer[k] \in Layer
  BY DEF PipelineInv, PipelineTypeOK, N
<1>3. todo \in Seq(Item)
  BY <1>2, FlushType
<1>4. ASSUME todo # <<>>, NEW i \in 1..N, i < k + 1
      PROVE  layer[i].called
  <2>1. layer[k].called
    BY <1>4 DEF Flush
  <2>2. ~Failing
    BY DEF Failing
  <2>3. i \in 1..k
    BY <1>1, <1>4
  <2> QED
    BY <2>1, <2>2, <2>3 DEF PipelineInv, WrapPrefix
<1> HIDE DEF todo
<1>5. stack' = <<Loop(k + 1, todo)>>
  BY DEF todo
<1> QED
  BY <1>1, <1>3, <1>4, <1>5, StartInv

(***************************************************************************)
(* States that are put away and taken out again                            *)
(***************************************************************************)

\* A state that has not been through any stage is sound ...
LEMMA FreshSound ==
  ASSUME PipelineTypeOK
  PROVE  Sound(pipeline, [k \in 1..N |-> Fresh])
<1>1. Fresh \in Layer /\ ~Fresh.called
  BY EmptyType DEF Fresh, Layer
<1> QED
  BY <1>1 DEF Sound, N

\* ... and so is one that a call has returned.
LEMMA ReturnedSound ==
  ASSUME PipelineInv, stack = <<>>, ~threw
  PROVE  Sound(pipeline, layer)
<1>1. ~Failing
  BY DEF Failing
<1> QED
  BY <1>1 DEF Sound, N, PipelineInv, PipelineTypeOK, Ready, WrapPrefix

\* A driver may take out a sound state, and leave it alone ...
LEMMA TakeOutInv ==
  ASSUME PipelineInv, NEW layers, Sound(pipeline, layers),
         layer' = layers, stack' = <<>>, threw' = FALSE,
         pipeline' = pipeline, out' \in Seq(Item)
  PROVE  PipelineInv'
<1>1. N' = N /\ pipeline \in Seq(Stage)
  BY DEF N, PipelineInv, PipelineTypeOK
<1>2. PipelineTypeOK'
  <2>1. layer' \in [1..N' -> Layer]
    BY <1>1 DEF N, Sound
  <2>2. stack' \in Seq(Frame) /\ \A i \in 1..Len(stack') : stack'[i].at <= N' + 1
    OBVIOUS
  <2>3. threw' \in BOOLEAN
    BY Zenon
  <2> QED
    BY <1>1, <2>1, <2>2, <2>3 DEF PipelineTypeOK
<1>3. Ready' /\ WrapPrefix'
  BY <1>1 DEF N, Ready, WrapPrefix, Sound
<1>4. StartedInside'
  BY DEF StartedInside
<1> QED
  BY <1>2, <1>3, <1>4 DEF PipelineInv

\* ... or feed it to the first stage.
LEMMA FeedSoundInv ==
  ASSUME PipelineInv, NEW layers, Sound(pipeline, layers), NEW x \in Item,
         layer' = layers, stack' = <<Loop(1, <<x>>)>>, threw' = FALSE,
         pipeline' = pipeline, out' \in Seq(Item)
  PROVE  PipelineInv'
<1>1. N' = N /\ pipeline \in Seq(Stage) /\ N \in Nat
  BY DEF N, PipelineInv, PipelineTypeOK
<1>2. <<x>> \in Seq(Item)
  OBVIOUS
<1>3. Loop(1, <<x>>) \in Frame
  <2>1. 1 \in Nat \ {0}
    OBVIOUS
  <2> QED
    BY <1>2, <2>1, LoopType
<1>4. stack' \in Seq(Frame) /\ Len(stack') = 1 /\ stack'[1] = Loop(1, <<x>>)
  BY <1>3
<1>5. stack'[1].at = 1
  BY <1>4 DEF Loop
<1>6. PipelineTypeOK'
  <2>1. layer' \in [1..N' -> Layer]
    BY <1>1 DEF N, Sound
  <2>2. \A i \in 1..Len(stack') : stack'[i].at <= N' + 1
    <3> TAKE i \in 1..Len(stack')
    <3>1. i = 1
      BY <1>4
    <3> QED
      BY <1>1, <1>5, <3>1
  <2> QED
    BY <1>1, <1>4, <2>1, <2>2 DEF PipelineTypeOK
<1>7. Ready' /\ WrapPrefix'
  BY <1>1 DEF N, Ready, WrapPrefix, Sound
<1>8. StartedInside'
  <2> SUFFICES ASSUME NEW i \in 1..Len(stack')
               PROVE  stack'[i].at = 1
    BY <1>1 DEF StartedInside
  <2>1. i = 1
    BY <1>4
  <2> QED
    BY <1>5, <2>1
<1> QED
  BY <1>6, <1>7, <1>8 DEF PipelineInv

(***************************************************************************)
(* The steps of the nested calls                                           *)
(***************************************************************************)

\* The frame on top, and what is left of it after its next item.
LEMMA TopType ==
  ASSUME PipelineTypeOK, stack # <<>>
  PROVE  /\ Top \in Frame /\ Top = stack[1] /\ 1 \in 1..Len(stack)
         /\ Top.at <= N + 1
         /\ Top.todo # <<>> =>
              /\ Head(Top.todo) \in Item
              /\ Advanced \in Frame
              /\ Advanced.at = Top.at
<1>1. stack \in Seq(Frame)
  BY DEF PipelineTypeOK
<1>2. Top \in Frame /\ Top = stack[1] /\ 1 \in 1..Len(stack)
  BY <1>1 DEF Top
<1>3. Top.at <= N + 1
  BY <1>2 DEF PipelineTypeOK
<1>4. Top.todo \in Seq(Item)
  BY <1>2 DEF Frame
<1>5. ASSUME Top.todo # <<>>
      PROVE  /\ Head(Top.todo) \in Item
             /\ Advanced \in Frame
             /\ Advanced.at = Top.at
  <2>1. Head(Top.todo) \in Item /\ Tail(Top.todo) \in Seq(Item)
    BY <1>4, <1>5
  <2>2. Advanced \in Frame
    BY <1>2, <2>1 DEF Advanced, Frame
  <2>3. Advanced.at = Top.at
    BY <1>2 DEF Advanced, Frame
  <2> QED
    BY <2>1, <2>2, <2>3
<1> QED
  BY <1>2, <1>3, <1>5

\* Replacing the top frame by others, with the layers as they are: the types
\* stay, and an exception on its way out stays on its way.
LEMMA ReplaceTop ==
  ASSUME PipelineTypeOK, stack # <<>>,
         NEW a \in Seq(Frame),
         \A r \in 1..Len(a) : a[r].at <= N + 1,
         stack' = a \o Tail(stack),
         pipeline' = pipeline, layer' \in [1..N -> Layer],
         out' \in Seq(Item), threw' = threw,
         Top.mode # "throw"
  PROVE  /\ PipelineTypeOK'
         /\ N' = N
         /\ ~Failing' => ~Failing
         /\ \A i \in 1..Len(stack') :
              \/ \E r \in 1..Len(a) : stack'[i] = a[r]
              \/ \E j \in 2..Len(stack) : stack'[i] = stack[j]
<1>1. stack \in Seq(Frame) /\ N' = N /\ Top = stack[1]
  BY DEF PipelineTypeOK, N, Top
<1>2. /\ stack' \in Seq(Frame)
      /\ \A i \in 1..Len(stack') :
           \/ \E r \in 1..Len(a) : stack'[i] = a[r]
           \/ \E j \in 2..Len(stack) : stack'[i] = stack[j]
      /\ \A j \in 2..Len(stack) : \E i \in 1..Len(stack') : stack'[i] = stack[j]
  BY <1>1, Replaced, SMTT(20)
<1>3. \A j \in 2..Len(stack) : j \in 1..Len(stack)
  BY <1>1
<1>4. \A i \in 1..Len(stack') : stack'[i].at <= N + 1
  BY <1>2, <1>3 DEF PipelineTypeOK
<1>5. PipelineTypeOK'
  BY <1>1, <1>2, <1>4 DEF PipelineTypeOK
<1>6. ASSUME Failing
      PROVE  Failing'
  <2>1. CASE threw
    BY <2>1 DEF Failing
  <2>2. CASE ~threw
    <3>1. PICK j \in 1..Len(stack) : stack[j].mode = "throw"
      BY <1>6, <2>2 DEF Failing
    <3>2. j \in 2..Len(stack)
      BY <1>1, <3>1
    <3>3. PICK i \in 1..Len(stack') : stack'[i] = stack[j]
      BY <1>2, <3>2
    <3>4. stack'[i].mode = "throw"
      BY <3>1, <3>3
    <3> QED
      BY <3>4 DEF Failing
  <2> QED
    BY <2>1, <2>2
<1> QED
  BY <1>1, <1>2, <1>5, <1>6

\* A call of a stage.
LEMMA CallStageInv ==
  ASSUME PipelineInv, CallStage
  PROVE  PipelineInv'
<1> DEFINE k == Top.at
           called == Step(pipeline[k], layer[k], Head(Top.todo))
           loops == Loops(k + 1, called.runs)
           a == loops \o <<Advanced>>
<1>1. /\ Due /\ k <= N /\ ~ThrowsFirst(pipeline[k], layer[k])
      /\ layer' = [layer EXCEPT ![k] = called.layer]
      /\ stack' = a \o Tail(stack)
      /\ pipeline' = pipeline /\ out' = out /\ threw' = threw
  BY DEF CallStage, Throws
<1>2. /\ PipelineTypeOK /\ stack # <<>> /\ Top.mode # "throw" /\ Top.todo # <<>>
  BY <1>1 DEF PipelineInv, Due
<1>3. /\ Top \in Frame /\ Top = stack[1] /\ 1 \in 1..Len(stack)
      /\ Head(Top.todo) \in Item /\ Advanced \in Frame /\ Advanced.at = k
  BY <1>2, TopType
<1>4. /\ N \in Nat /\ k \in Nat \ {0} /\ k + 1 \in Nat \ {0}
      /\ k \in 1..N
  <2>1. N \in Nat
    BY <1>2 DEF PipelineTypeOK, N
  <2>2. k \in Nat \ {0}
    BY <1>3 DEF Frame
  <2> QED
    BY <1>1, <2>1, <2>2, SMTT(30)
<1>5. pipeline[k] \in Stage /\ layer[k] \in Layer
  BY <1>2, <1>4 DEF PipelineTypeOK, N
<1>6. ~ThrowsFirst(pipeline[k], Fresh)
  <2>1. CASE layer[k].called
    BY <1>4, <2>1 DEF PipelineInv, Ready
  <2>2. CASE ~layer[k].called
    BY <1>1, <2>2 DEF ThrowsFirst, Fresh
  <2> QED
    BY <2>1, <2>2
<1>7. Result(called)
  <2>1. pipeline[k].kind = "cycle" => pipeline[k].range # <<>>
    BY <1>6 DEF ThrowsFirst, Fresh
  <2> QED
    BY <1>3, <1>5, <2>1, StepType
<1> HIDE DEF called, k
<1>8. /\ called.layer \in Layer /\ called.layer.called /\ called.runs \in Ran
  BY <1>7 DEF Result
<1>9. /\ loops \in Seq(Frame) /\ Len(loops) = Len(called.runs)
      /\ \A i \in 1..Len(loops) : loops[i].at = k + 1
  <2>1. /\ loops \in Seq(Frame) /\ Len(loops) = Len(called.runs)
        /\ \A i \in 1..Len(called.runs) :
             loops[i] = Loop(k + 1, called.runs[i])
    BY <1>4, <1>8, LoopsType
  <2>2. \A todo : Loop(k + 1, todo).at = k + 1
    BY DEF Loop
  <2> QED
    BY <2>1, <2>2
<1>10. /\ a \in Seq(Frame)
       /\ Len(a) = Len(loops) + 1 /\ Len(loops) \in Nat
       /\ \A r \in 1..Len(a) : a[r].at = k + 1 \/ a[r] = Advanced
  <2>1. a \in Seq(Frame) /\ Len(a) = Len(loops) + 1 /\ Len(loops) \in Nat
    BY <1>3, <1>9
  <2>2. ASSUME NEW r \in 1..Len(a)
        PROVE  a[r].at = k + 1 \/ a[r] = Advanced
    <3>1. CASE r <= Len(loops)
      BY <1>3, <1>9, <2>1, <3>1
    <3>2. CASE r = Len(loops) + 1
      BY <1>3, <1>9, <2>1, <3>2
    <3> QED
      BY <2>1, <3>1, <3>2
  <2> QED
    BY <2>1, <2>2
<1> HIDE DEF a, loops
<1>11. /\ layer' \in [1..N -> Layer]
       /\ layer'[k].called
       /\ \A i \in 1..N : layer[i].called => layer'[i].called
       /\ \A i \in 1..N : layer'[i].called => layer[i].called \/ i = k
  BY <1>1, <1>2, <1>4, <1>8 DEF PipelineTypeOK
<1>12. \A r \in 1..Len(a) : a[r].at <= N + 1
  BY <1>3, <1>4, <1>10
<1>13. /\ PipelineTypeOK' /\ N' = N /\ (~Failing' => ~Failing)
       /\ \A i \in 1..Len(stack') :
            \/ \E r \in 1..Len(a) : stack'[i] = a[r]
            \/ \E j \in 2..Len(stack) : stack'[i] = stack[j]
  <2>1. out' \in Seq(Item)
    BY <1>1, <1>2 DEF PipelineTypeOK
  <2> QED
    BY <1>1, <1>2, <1>10, <1>11, <1>12, <2>1, ReplaceTop
<1>14. Ready'
  <2> SUFFICES ASSUME NEW j \in 1..N, layer'[j].called
               PROVE  ~ThrowsFirst(pipeline'[j], Fresh)
    BY <1>13 DEF Ready
  <2>1. CASE j = k
    BY <1>1, <1>6, <2>1
  <2>2. CASE j # k
    BY <1>1, <1>11, <2>2 DEF PipelineInv, Ready
  <2> QED
    BY <2>1, <2>2
<1>15. ~Failing => \A i \in 1..N : i < k => layer[i].called
  BY <1>2, <1>3 DEF PipelineInv, StartedInside, k
<1>16. WrapPrefix'
  <2> SUFFICES ASSUME ~Failing', NEW j \in 1..N, NEW i \in 1..j, layer'[j].called
               PROVE  layer'[i].called
    BY <1>13 DEF WrapPrefix
  <2>1. i \in 1..N
    BY <1>4
  <2>2. CASE j = k
    BY <1>4, <1>11, <1>13, <1>15, <2>1, <2>2
  <2>3. CASE j # k
    BY <1>11, <1>13, <2>1, <2>3 DEF PipelineInv, WrapPrefix
  <2> QED
    BY <2>2, <2>3
<1>17. StartedInside'
  <2> SUFFICES ASSUME ~Failing', NEW s \in 1..Len(stack'), stack'[s].todo # <<>>,
                      NEW i \in 1..N, i < stack'[s].at
               PROVE  layer'[i].called
    BY <1>13 DEF StartedInside
  <2>1. CASE \E r \in 1..Len(a) : stack'[s] = a[r]
    <3>1. stack'[s].at = k + 1 \/ stack'[s].at = k
      BY <1>3, <1>10, <2>1
    <3>2. i <= k
      BY <1>4, <3>1
    <3> QED
      BY <1>4, <1>11, <1>13, <1>15, <3>2
  <2>2. CASE \E j \in 2..Len(stack) : stack'[s] = stack[j]
    <3>1. PICK j \in 2..Len(stack) : stack'[s] = stack[j]
      BY <2>2
    <3>2. j \in 1..Len(stack)
      BY <1>3
    <3> QED
      BY <1>11, <1>13, <3>1, <3>2 DEF PipelineInv, StartedInside
  <2> QED
    BY <1>13, <2>1, <2>2
<1> QED
  BY <1>13, <1>14, <1>16, <1>17 DEF PipelineInv

\* A step that leaves the layers alone and only gets on with the top frame.
LEMMA SameLayersInv ==
  ASSUME PipelineInv, stack # <<>>, Top.mode # "throw",
         NEW a \in Seq(Frame),
         \A r \in 1..Len(a) : a[r].at = Top.at,
         a # <<>> => Top.todo # <<>>,
         stack' = a \o Tail(stack),
         pipeline' = pipeline, layer' = layer,
         out' \in Seq(Item), threw' = threw
  PROVE  PipelineInv'
<1>1. PipelineTypeOK
  BY DEF PipelineInv
<1>2. /\ Top = stack[1] /\ 1 \in 1..Len(stack) /\ Top.at <= N + 1
      /\ layer' \in [1..N -> Layer]
  BY <1>1, TopType DEF PipelineTypeOK
<1>3. /\ PipelineTypeOK' /\ N' = N
      /\ (~Failing' => ~Failing)
      /\ \A i \in 1..Len(stack') :
           \/ \E r \in 1..Len(a) : stack'[i] = a[r]
           \/ \E j \in 2..Len(stack) : stack'[i] = stack[j]
  BY <1>1, <1>2, ReplaceTop
<1>4. Ready' /\ WrapPrefix'
  BY <1>3 DEF PipelineInv, Ready, WrapPrefix
<1>5. StartedInside'
  <2> SUFFICES ASSUME ~Failing', NEW s \in 1..Len(stack'), stack'[s].todo # <<>>,
                      NEW i \in 1..N, i < stack'[s].at
               PROVE  layer[i].called
    BY <1>3 DEF StartedInside
  <2>1. CASE \E r \in 1..Len(a) : stack'[s] = a[r]
    <3>1. stack'[s].at = Top.at /\ a # <<>>
      BY <2>1
    <3>2. Top.todo # <<>>
      BY <3>1
    <3> QED
      BY <1>2, <1>3, <3>1, <3>2 DEF PipelineInv, StartedInside
  <2>2. CASE \E j \in 2..Len(stack) : stack'[s] = stack[j]
    <3>1. PICK j \in 2..Len(stack) : stack'[s] = stack[j]
      BY <2>2
    <3>2. j \in 1..Len(stack)
      BY <1>2
    <3> QED
      BY <1>3, <3>1, <3>2 DEF PipelineInv, StartedInside
  <2> QED
    BY <1>3, <2>1, <2>2
<1> QED
  BY <1>3, <1>4, <1>5 DEF PipelineInv

\* A step of the exception: while it is on its way nothing is claimed of the
\* layers but their types.
LEMMA FailingInv ==
  ASSUME PipelineInv, PipelineTypeOK', Failing',
         pipeline' = pipeline, layer' = layer
  PROVE  PipelineInv'
<1>1. N' = N
  BY DEF N
<1>2. Ready'
  BY <1>1 DEF PipelineInv, Ready
<1>3. StartedInside' /\ WrapPrefix'
  BY DEF StartedInside, WrapPrefix
<1> QED
  BY <1>2, <1>3 DEF PipelineInv

\* The exception has left: no reduction is in progress any more.
LEMMA ThrownInv ==
  ASSUME PipelineInv, stack' = <<>>, threw' = TRUE,
         UNCHANGED <<pipeline, layer, out>>
  PROVE  PipelineInv'
<1>1. stack' \in Seq(Frame) /\ Len(stack') = 0 /\ N' = N
  BY DEF N
<1>2. threw' \in BOOLEAN
  BY Zenon
<1>3. PipelineTypeOK'
  BY <1>1, <1>2 DEF PipelineInv, PipelineTypeOK
<1>4. Failing'
  BY DEF Failing
<1> QED
  BY <1>3, <1>4, FailingInv

\* take() throws after the next step.
LEMMA StepThenThrowInv ==
  ASSUME PipelineInv, StepThenThrow
  PROVE  PipelineInv'
<1> DEFINE x == Head(Top.todo)
           leaving == [Advanced EXCEPT !.mode = "throw"]
           a == <<Loop(Top.at + 1, <<x>>), leaving>>
<1>1. /\ PipelineTypeOK /\ stack # <<>> /\ Top.mode # "throw" /\ Top.todo # <<>>
      /\ Top.at <= N
      /\ stack' = a \o Tail(stack)
      /\ UNCHANGED <<pipeline, layer, out, threw>>
  BY DEF StepThenThrow, Due, PipelineInv
<1>2. /\ Top \in Frame /\ x \in Item /\ Advanced \in Frame /\ Advanced.at = Top.at
      /\ stack \in Seq(Frame)
  BY <1>1, TopType DEF PipelineTypeOK
<1>3. Top.at + 1 \in Nat \ {0} /\ Top.at \in Nat /\ N \in Nat
  BY <1>1, <1>2, SMTT(20) DEF Frame, N, PipelineTypeOK
<1>4. Loop(Top.at + 1, <<x>>) \in Frame /\ Loop(Top.at + 1, <<x>>).at = Top.at + 1
  <2>1. <<x>> \in Seq(Item)
    BY <1>2
  <2> QED
    BY <1>3, <2>1, LoopType DEF Loop
<1>5. leaving \in Frame /\ leaving.at = Top.at /\ leaving.mode = "throw"
  BY <1>2 DEF Frame
<1> HIDE DEF x, leaving
<1>6. /\ a \in Seq(Frame) /\ Len(a) = 2
      /\ a[1] = Loop(Top.at + 1, <<x>>) /\ a[2] = leaving
  BY <1>4, <1>5
<1>7. \A r \in 1..Len(a) : a[r].at <= N + 1
  BY <1>1, <1>3, <1>4, <1>5, <1>6
<1> HIDE DEF a
<1>8. PipelineTypeOK'
  BY <1>1, <1>6, <1>7, ReplaceTop DEF PipelineTypeOK
<1>9. Failing'
  <2>1. 2 \in 1..Len(a)
    BY <1>6
  <2>2. PICK i \in 1..Len(stack') : stack'[i] = a[2]
    BY <1>1, <1>2, <1>6, <2>1, Placed
  <2> QED
    BY <1>5, <1>6, <2>2 DEF Failing
<1> QED
  BY <1>1, <1>8, <1>9, FailingInv

\* Every step of the nested calls preserves their invariant.
LEMMA PipelineStepInv ==
  ASSUME PipelineInv, PipelineStep
  PROVE  PipelineInv'
<1>1. CASE CallStage
  BY <1>1, CallStageInv
<1>2. CASE CallBase
  <2>1. /\ PipelineTypeOK /\ stack # <<>> /\ Top.mode # "throw"
        /\ Top.todo # <<>>
        /\ out' = Append(out, Head(Top.todo))
        /\ stack' = <<Advanced>> \o Tail(stack)
        /\ UNCHANGED <<pipeline, layer, threw>>
    BY <1>2 DEF CallBase, Due, PipelineInv
  <2>2. Head(Top.todo) \in Item /\ Advanced \in Frame /\ Advanced.at = Top.at
    BY <2>1, TopType
  <2>3. out' \in Seq(Item)
    BY <2>1, <2>2 DEF PipelineTypeOK
  <2>4. <<Advanced>> \in Seq(Frame) /\ \A r \in 1..Len(<<Advanced>>) :
                                        <<Advanced>>[r].at = Top.at
    BY <2>2
  <2> QED
    BY <2>1, <2>3, <2>4, SameLayersInv
<1>3. CASE Return
  <2>1. /\ PipelineTypeOK /\ stack # <<>> /\ Top.mode # "throw"
        /\ stack' = Tail(stack)
        /\ UNCHANGED <<pipeline, layer, out, threw>>
    BY <1>3 DEF Return, PipelineInv
  <2>2. stack \in Seq(Frame) /\ out' \in Seq(Item)
    BY <2>1 DEF PipelineTypeOK
  <2> DEFINE none == <<>>
  <2>3. /\ stack' = none \o Tail(stack) /\ none \in Seq(Frame)
        /\ none = <<>> /\ \A r \in 1..Len(none) : none[r].at = Top.at
    BY <2>1, <2>2
  <2> HIDE DEF none
  <2> QED
    BY <2>1, <2>2, <2>3, SameLayersInv
<1>4. CASE ThrowFirst
  BY <1>4, ThrownInv DEF ThrowFirst
<1>5. CASE StepThenThrow
  BY <1>5, StepThenThrowInv
<1>6. CASE Unwind
  BY <1>6, ThrownInv DEF Unwind
<1> QED
  BY <1>1, <1>2, <1>3, <1>4, <1>5, <1>6 DEF PipelineStep

(***************************************************************************)
(* When a pipeline stops: the invariant of the nested calls, whatever      *)
(* drives them, by which no stage of a polite pipeline is called with a    *)
(* state that is reduced.                                                  *)
(***************************************************************************)

\* Reduced(at), of other layers than those at hand.
ReducedWith(layers, at) ==
  \E k \in at..N : DataIsReduced(pipeline[k], layers[k])

\* No stage from `at` on can mark the state.
Unstopped(at) == \A k \in at..N : ~Stopper(pipeline[k])

\* The calls are nested: what is in progress further out is at an earlier stage.
Outwards ==
  \A s, t \in 1..Len(stack) : s <= t => stack[t].at <= stack[s].at

\* A reduction that will feed its first item unasked is the innermost, and its
\* step can still be fed; or nothing behind it can ever stop it.
StartsInTime ==
  \A s \in 1..Len(stack) :
    (stack[s].mode = "first" /\ stack[s].todo # <<>>) =>
      \/ s = 1 /\ ~Reduced(stack[s].at)
      \/ Unstopped(stack[s].at)

\* scan() without a take() inside never marks the state.
Marks(layers) ==
  \A k \in 1..N : (pipeline[k].kind = "scan" /\ pipeline[k].m <= 0) => ~layers[k].flag

StopInv == Outwards /\ StartsInTime /\ Marks(layer)

Eager(st) == st.kind \in {"sorted", "reversed"}

\* What stage k holds back in a state at rest can still be fed: an eager stage
\* has let nothing through, and partition has no group when a later stage ended
\* the reduction.
Calm(layers, k) ==
  /\ Eager(pipeline[k]) => \A j \in (k + 1)..N : ~layers[j].called
  /\ (pipeline[k].kind = "partition" /\ ReducedWith(layers, k + 1)) =>
       layers[k].group = <<>>

\* The same while calls are in progress: those behind stage k count as if they
\* had ended the reduction.
HoldsBack(k) ==
  /\ Calm(layer, k)
  /\ Eager(pipeline[k]) => \A s \in 1..Len(stack) : stack[s].at <= k
  /\ (pipeline[k].kind = "partition" /\ \E s \in 1..Len(stack) : stack[s].at > k) =>
       layer[k].group = <<>>

(***************************************************************************)
(* What a call of one stage does                                           *)
(***************************************************************************)

Single(r) == r.runs = <<>> \/ r.runs = <<r.runs[1]>>

\* The reductions that a call wraps are those it returns.
LEMMA WrappedRuns ==
  ASSUME NEW l, NEW runs
  PROVE  Wrapped(l, runs).runs = runs
BY DEF Wrapped

LEMMA WrappedSkip ==
  ASSUME NEW l
  PROVE  Single(Wrapped(l, Skip))
BY WrappedRuns DEF Single, Skip

LEMMA WrappedCall ==
  ASSUME NEW l, NEW x
  PROVE  Single(Wrapped(l, Call(x)))
BY WrappedRuns DEF Single, Call

LEMMA WrappedLoop ==
  ASSUME NEW l, NEW run
  PROVE  Single(Wrapped(l, <<run>>))
BY WrappedRuns DEF Single

\* Only chainl starts a second reduction in one call.
LEMMA StepSingle ==
  ASSUME NEW st \in Stage, NEW l, NEW x, st.kind # "chainl"
  PROVE  Single(Step(st, l, x))
<1>1. /\ Single(StepMap(st, l, x)) /\ Single(StepFilter(st, l, x))
      /\ Single(StepSink(st, l, x)) /\ Single(StepRepeat(st, l, x))
  BY WrappedSkip, WrappedCall DEF StepMap, StepFilter, StepSink, StepRepeat
<1>2. /\ Single(StepCat(st, l, x)) /\ Single(StepInterleave(st, l, x))
      /\ Single(StepProduct(st, l, x)) /\ Single(StepInterpose(st, l, x))
  BY WrappedSkip, WrappedCall, WrappedLoop
     DEF StepCat, StepInterleave, StepProduct, StepInterpose
<1>3. /\ Single(StepTake(st, l, x)) /\ Single(StepTakeWhile(st, l, x))
      /\ Single(StepTakeNth(st, l, x)) /\ Single(StepDrop(st, l, x))
      /\ Single(StepDropWhile(st, l, x)) /\ Single(StepDedupe(st, l, x))
      /\ Single(StepDistinct(st, l, x))
  BY WrappedSkip, WrappedCall
     DEF StepTake, StepTakeWhile, StepTakeNth, StepDrop, StepDropWhile,
         StepDedupe, StepDistinct
<1>4. /\ Single(StepChainr(st, l, x)) /\ Single(StepEager(st, l, x))
      /\ Single(StepPartition(st, l, x)) /\ Single(StepPartitionBy(st, l, x))
  BY WrappedSkip, WrappedCall
     DEF StepChainr, StepEager, StepPartition, StepPartitionBy
<1>5. /\ Single(StepCount(st, l, x)) /\ Single(StepEnumerate(st, l, x))
      /\ Single(StepScan(st, l, x)) /\ Single(StepIter(st, l, x))
      /\ Single(StepCycle(st, l, x))
  BY WrappedSkip, WrappedCall
     DEF StepCount, StepEnumerate, StepScan, StepIter, StepCycle
<1>6. /\ Single(StepRepack(st, l, x)) /\ Single(StepRandomSample(st, l, x))
      /\ Single(StepReplace(st, l, x)) /\ Single(StepReplaceAll(st, l, x))
      /\ Single(StepEach(st, l, x))
  BY WrappedSkip, WrappedCall
     DEF StepRepack, StepRandomSample, StepReplace, StepReplaceAll, StepEach
<1>7. /\ Single(StepRead(st, l, x)) /\ Single(StepReadbuf(st, l, x))
      /\ Single(StepWrite(st, l, x)) /\ Single(StepWritebuf(st, l, x))
  BY WrappedSkip, WrappedCall
     DEF StepRead, StepReadbuf, StepWrite, StepWritebuf
<1> QED
  <2>1. st.kind \in Kinds
    BY DEF Stage
  <2> QED
    BY <1>1, <1>2, <1>3, <1>4, <1>5, <1>6, <1>7, <2>1 DEF Step, Kinds

\* sorted() and reversed() let nothing through, partition() has no group left
\* when it lets one through, and a scan() without a take() inside is not marked.
LEMMA StepHolds ==
  ASSUME NEW st \in Stage, NEW l \in Layer, NEW x \in Item
  PROVE  /\ Eager(st) => Step(st, l, x).runs = <<>>
         /\ st.kind = "partition" =>
              Step(st, l, x).runs = <<>> \/ Step(st, l, x).layer.group = <<>>
         /\ (st.kind = "scan" /\ st.m <= 0) => ~Step(st, l, x).layer.flag
<1>1. ASSUME Eager(st)
      PROVE  Step(st, l, x).runs = <<>>
  <2>1. Step(st, l, x) = StepEager(st, l, x)
    BY <1>1 DEF Eager, Step
  <2> QED
    BY <2>1, WrappedRuns DEF StepEager, Skip
<1>2. ASSUME st.kind = "partition"
      PROVE  Step(st, l, x).runs = <<>> \/ Step(st, l, x).layer.group = <<>>
  <2>1. Step(st, l, x) = StepPartition(st, l, x)
    BY <1>2 DEF Step
  <2> QED
    BY <2>1 DEF StepPartition, Wrapped, Skip, Layer
<1>3. ASSUME st.kind = "scan", st.m <= 0
      PROVE  ~Step(st, l, x).layer.flag
  <2>1. Step(st, l, x) = StepScan(st, l, x)
    BY <1>3 DEF Step
  <2> DEFINE acc == CountOr(l, st.n) + Key(x)
             seen == Append(l.kept, x)
             marked == st.m > 0 /\ Len(seen) >= st.m
             after == [l EXCEPT !.count = acc, !.kept = seen, !.flag = marked]
  <2>2. ~(st.m > 0)
    BY <1>3 DEF Stage
  <2>3. marked = FALSE
    BY <2>2, Zenon
  <2>4. Step(st, l, x).layer = [after EXCEPT !.called = TRUE]
    BY <2>1 DEF StepScan, Wrapped
  <2> HIDE DEF marked, seen, acc
  <2> QED
    BY <2>3, <2>4 DEF Layer
<1> QED
  BY <1>1, <1>2, <1>3

\* Only a stage that may stop is reduced.
LEMMA ReducedStops ==
  ASSUME PipelineTypeOK, NEW layers, Marks(layers), NEW at \in Nat \ {0}, Unstopped(at)
  PROVE  ~ReducedWith(layers, at)
<1> SUFFICES ASSUME NEW k \in at..N, DataIsReduced(pipeline[k], layers[k])
             PROVE  FALSE
  BY DEF ReducedWith
<1>1. k \in 1..N /\ ~Stopper(pipeline[k])
  BY DEF Unstopped, N, PipelineTypeOK
<1>2. pipeline[k].m \in Int
  <2>1. pipeline[k] \in Stage
    BY <1>1 DEF PipelineTypeOK, N
  <2> QED
    BY <2>1 DEF Stage
<1>3. pipeline[k].kind = "scan" /\ layers[k].flag
  BY <1>1 DEF DataIsReduced, Stopper, Marking
<1> QED
  BY <1>1, <1>2, <1>3 DEF Stopper, Marks

\* What is in time is not fed too late.
LEMMA InTime ==
  ASSUME PipelineTypeOK, StopInv
  PROVE  NoFeedAfterReduced
<1> SUFFICES ASSUME Due, Reduced(Top.at)
             PROVE  FALSE
  BY DEF NoFeedAfterReduced
<1>1. stack # <<>> /\ Top.todo # <<>> /\ Top.mode = "first"
  BY DEF Due
<1>2. Top = stack[1] /\ 1 \in 1..Len(stack) /\ Top \in Frame
  BY <1>1, TopType
<1>3. Unstopped(Top.at)
  BY <1>1, <1>2 DEF StopInv, StartsInTime
<1>4. Top.at \in Nat \ {0}
  BY <1>2 DEF Frame
<1>5. ~ReducedWith(layer, Top.at)
  BY <1>3, <1>4, ReducedStops DEF StopInv
<1> QED
  BY <1>5 DEF ReducedWith, Reduced

(***************************************************************************)
(* The calls in progress                                                   *)
(***************************************************************************)

\* Every frame is at a stage.
LEMMA FrameAt ==
  ASSUME NEW c \in Seq(Frame)
  PROVE  \A i \in 1..Len(c) : c[i].at \in Nat
<1> TAKE i \in 1..Len(c)
<1>1. c[i] \in Frame
  OBVIOUS
<1> QED
  BY <1>1 DEF Frame

\* Where the frames are once others have taken the place of the first one.
LEMMA Positions ==
  ASSUME NEW a \in Seq(Frame), NEW c \in Seq(Frame), c # <<>>,
         NEW i \in 1..Len(a \o Tail(c))
  PROVE  \/ i \in 1..Len(a) /\ (a \o Tail(c))[i] = a[i]
         \/ /\ i > Len(a)
            /\ i - Len(a) + 1 \in 2..Len(c)
            /\ (a \o Tail(c))[i] = c[i - Len(a) + 1]
<1>1. /\ Tail(c) \in Seq(Frame)
      /\ Len(Tail(c)) = Len(c) - 1
      /\ \A h \in 1..(Len(c) - 1) : Tail(c)[h] = c[h + 1]
      /\ Len(c) \in Nat /\ Len(a) \in Nat
  OBVIOUS
<1>2. /\ Len(a \o Tail(c)) = Len(a) + Len(c) - 1
      /\ \A r \in 1..Len(a) : (a \o Tail(c))[r] = a[r]
      /\ \A h \in 1..(Len(c) - 1) : (a \o Tail(c))[Len(a) + h] = c[h + 1]
  BY <1>1
<1>3. CASE i <= Len(a)
  <2>1. i \in 1..Len(a)
    BY <1>1, <1>3
  <2> QED
    BY <1>2, <2>1
<1>4. CASE i > Len(a)
  <2> DEFINE h == i - Len(a)
  <2>1. h \in 1..(Len(c) - 1) /\ h + 1 \in 2..Len(c) /\ i = Len(a) + h
    BY <1>1, <1>2, <1>4
  <2>2. (a \o Tail(c))[i] = c[h + 1]
    BY <1>2, <2>1
  <2> QED
    BY <1>4, <2>1, <2>2
<1> QED
  BY <1>1, <1>3, <1>4

\* The frames that replace the innermost one keep the order, and the time.
LEMMA Restacked ==
  ASSUME PipelineTypeOK, stack # <<>>, Outwards, StartsInTime,
         NEW a \in Seq(Frame),
         \A r \in 1..Len(a) : a[r].at >= Top.at,
         \A r, q \in 1..Len(a) : r <= q => a[q].at <= a[r].at,
         \A r \in 1..Len(a) : (a[r].mode = "first" /\ a[r].todo # <<>>) =>
            \/ r = 1 /\ ~ReducedWith(layer', a[r].at)
            \/ Unstopped(a[r].at),
         stack' = a \o Tail(stack), pipeline' = pipeline
  PROVE  Outwards' /\ StartsInTime'
<1>1. /\ stack \in Seq(Frame) /\ Top = stack[1] /\ 1 \in 1..Len(stack) /\ N' = N
      /\ Len(stack) \in Nat /\ Len(a) \in Nat
  BY TopType DEF PipelineTypeOK, N
<1>2. /\ \A j \in 1..Len(stack) : stack[j].at \in Nat
      /\ \A r \in 1..Len(a) : a[r].at \in Nat
  BY <1>1, FrameAt
<1>3. ASSUME NEW i \in 1..Len(stack')
      PROVE  \/ i \in 1..Len(a) /\ stack'[i] = a[i]
             \/ /\ i > Len(a)
                /\ i - Len(a) + 1 \in 2..Len(stack)
                /\ stack'[i] = stack[i - Len(a) + 1]
  BY <1>1, Positions
<1>4. \A j \in 1..Len(stack) : stack[j].at <= Top.at
  BY <1>1, <1>2 DEF Outwards
<1>5. Outwards'
  <2> SUFFICES ASSUME NEW s \in 1..Len(stack'), NEW t \in 1..Len(stack'), s <= t
               PROVE  stack'[t].at <= stack'[s].at
    BY DEF Outwards
  <2>1. CASE s \in 1..Len(a) /\ stack'[s] = a[s]
    <3>1. CASE t \in 1..Len(a) /\ stack'[t] = a[t]
      BY <2>1, <3>1
    <3>2. CASE t - Len(a) + 1 \in 2..Len(stack) /\ stack'[t] = stack[t - Len(a) + 1]
      <4>1. stack'[t].at <= Top.at /\ stack'[t].at \in Nat
        BY <1>1, <1>2, <1>4, <3>2
      <4>2. stack'[s].at >= Top.at /\ stack'[s].at \in Nat /\ Top.at \in Nat
        BY <1>1, <1>2, <2>1
      <4> QED
        BY <4>1, <4>2, SMTT(30)
    <3> QED
      BY <1>3, <3>1, <3>2
  <2>2. CASE /\ s > Len(a)
             /\ s - Len(a) + 1 \in 2..Len(stack)
             /\ stack'[s] = stack[s - Len(a) + 1]
    <3>1. /\ t - Len(a) + 1 \in 2..Len(stack)
          /\ stack'[t] = stack[t - Len(a) + 1]
      BY <1>1, <1>3, <2>2
    <3>2. s - Len(a) + 1 <= t - Len(a) + 1
      BY <1>1
    <3>3. /\ s - Len(a) + 1 \in 1..Len(stack)
          /\ t - Len(a) + 1 \in 1..Len(stack)
      BY <1>1, <2>2, <3>1
    <3> QED
      BY <2>2, <3>1, <3>2, <3>3 DEF Outwards
  <2> QED
    BY <1>3, <2>1, <2>2
<1>6. StartsInTime'
  <2> SUFFICES ASSUME NEW s \in 1..Len(stack'),
                      stack'[s].mode = "first", stack'[s].todo # <<>>
               PROVE  \/ s = 1 /\ ~Reduced(stack[s].at)'
                      \/ Unstopped(stack[s].at)'
    BY DEF StartsInTime
  <2>1. CASE s \in 1..Len(a) /\ stack'[s] = a[s]
    <3>1. \/ s = 1 /\ ~ReducedWith(layer', stack'[s].at)
          \/ Unstopped(stack'[s].at)
      BY <2>1
    <3> QED
      BY <1>1, <3>1 DEF ReducedWith, Reduced, Unstopped
  <2>2. CASE /\ s - Len(a) + 1 \in 2..Len(stack)
             /\ stack'[s] = stack[s - Len(a) + 1]
    <3> DEFINE j == s - Len(a) + 1
    <3>1. j \in 1..Len(stack) /\ j # 1 /\ stack'[s] = stack[j]
      BY <1>1, <2>2
    <3> HIDE DEF j
    <3>2. Unstopped(stack[j].at)
      BY <3>1 DEF StartsInTime
    <3> QED
      BY <1>1, <3>1, <3>2 DEF Unstopped
  <2> QED
    BY <1>3, <2>1, <2>2
<1> QED
  BY <1>5, <1>6

\* What a stage holds back is not touched while the layers stay as they are and
\* no call reaches further in.
LEMMA SameLayersHold ==
  ASSUME NEW k \in 1..N, HoldsBack(k),
         pipeline' = pipeline, layer' = layer,
         \A i \in 1..Len(stack') : \E j \in 1..Len(stack) : stack'[i].at = stack[j].at
  PROVE  HoldsBack(k)'
<1>1. N' = N
  BY DEF N
<1>2. Calm(layer, k)'
  BY <1>1 DEF HoldsBack, Calm, ReducedWith
<1>3. ASSUME Eager(pipeline[k]), NEW i \in 1..Len(stack')
      PROVE  stack'[i].at <= k
  BY <1>3 DEF HoldsBack
<1>4. ASSUME pipeline[k].kind = "partition", NEW i \in 1..Len(stack'), stack'[i].at > k
      PROVE  layer[k].group = <<>>
  BY <1>4 DEF HoldsBack
<1> QED
  BY <1>2, <1>3, <1>4 DEF HoldsBack

(***************************************************************************)
(* The steps of the nested calls                                           *)
(***************************************************************************)

\* What there is on top when a call is due.
LEMMA DueTop ==
  ASSUME PipelineTypeOK, StopInv, Due
  PROVE  /\ stack # <<>> /\ Top.todo # <<>> /\ Top.mode # "throw"
         /\ Top \in Frame /\ Top = stack[1] /\ 1 \in 1..Len(stack)
         /\ stack \in Seq(Frame)
         /\ Top.at \in Nat \ {0} /\ Top.at <= N + 1 /\ N \in Nat
         /\ Head(Top.todo) \in Item
         /\ Advanced \in Frame /\ Advanced.at = Top.at /\ Advanced.mode = "next"
         /\ \A s \in 1..Len(stack) : stack[s].at <= Top.at
         /\ ~ReducedWith(layer, Top.at)
<1>1. stack # <<>> /\ Top.todo # <<>> /\ Top.mode # "throw"
  BY DEF Due
<1>2. /\ Top \in Frame /\ Top = stack[1] /\ 1 \in 1..Len(stack) /\ Top.at <= N + 1
      /\ Head(Top.todo) \in Item /\ Advanced \in Frame /\ Advanced.at = Top.at
  BY <1>1, TopType
<1>3. Top.at \in Nat \ {0} /\ Advanced.mode = "next"
  BY <1>2 DEF Frame, Advanced
<1>4. stack \in Seq(Frame) /\ N \in Nat
  BY DEF PipelineTypeOK, N
<1>5. \A s \in 1..Len(stack) : stack[s].at <= Top.at
  BY <1>2, <1>4 DEF StopInv, Outwards
<1>6. ~ReducedWith(layer, Top.at)
  BY InTime DEF NoFeedAfterReduced, Reduced, ReducedWith
<1> QED
  BY <1>1, <1>2, <1>3, <1>4, <1>5, <1>6

\* The innermost reduction gets on, or returns, without a change to a layer.
LEMMA SameLayersStop ==
  ASSUME PipelineInv, StopInv, stack # <<>>,
         NEW a \in Seq(Frame), Len(a) <= 1,
         \A r \in 1..Len(a) : a[r].at = Top.at /\ a[r].mode = "next",
         stack' = a \o Tail(stack), pipeline' = pipeline, layer' = layer
  PROVE  StopInv' /\ \A k \in 1..N : HoldsBack(k) => HoldsBack(k)'
<1>1. /\ PipelineTypeOK /\ N' = N /\ Top = stack[1] /\ 1 \in 1..Len(stack)
      /\ Top.at \in Nat /\ stack \in Seq(Frame) /\ Len(a) \in Nat
  BY TopType, SMTT(30) DEF PipelineInv, PipelineTypeOK, N, Frame
<1>2. Outwards' /\ StartsInTime'
  <2>1. /\ \A r \in 1..Len(a) : a[r].at >= Top.at
        /\ \A r, q \in 1..Len(a) : r <= q => a[q].at <= a[r].at
    BY <1>1
  <2>2. \A r \in 1..Len(a) : ~(a[r].mode = "first" /\ a[r].todo # <<>>)
    OBVIOUS
  <2>3. Outwards /\ StartsInTime
    BY DEF StopInv
  <2> QED
    BY <1>1, <2>1, <2>2, <2>3, Restacked
<1>3. Marks(layer)'
  BY <1>1 DEF StopInv, Marks
<1>4. ASSUME NEW i \in 1..Len(stack')
      PROVE  \E j \in 1..Len(stack) : stack'[i].at = stack[j].at
  <2>1. CASE i \in 1..Len(a) /\ stack'[i] = a[i]
    BY <1>1, <2>1
  <2>2. CASE i - Len(a) + 1 \in 2..Len(stack) /\ stack'[i] = stack[i - Len(a) + 1]
    BY <1>1, <2>2
  <2> QED
    BY <1>1, <2>1, <2>2, Positions
<1>5. ASSUME NEW k \in 1..N, HoldsBack(k)
      PROVE  HoldsBack(k)'
  BY <1>4, <1>5, SameLayersHold
<1> QED
  BY <1>2, <1>3, <1>5 DEF StopInv

\* The exception leaves: nothing is in progress any more.
LEMMA ThrownStop ==
  ASSUME PipelineTypeOK, StopInv, stack' = <<>>, pipeline' = pipeline, layer' = layer
  PROVE  StopInv' /\ \A k \in 1..N : HoldsBack(k) => HoldsBack(k)'
<1>1. N' = N /\ 1..Len(stack') = {}
  BY DEF N
<1>2. StopInv'
  BY <1>1 DEF StopInv, Outwards, StartsInTime, Marks
<1>3. ASSUME NEW k \in 1..N, HoldsBack(k)
      PROVE  HoldsBack(k)'
  BY <1>1, <1>3, SameLayersHold
<1> QED
  BY <1>2, <1>3

\* A call of a stage: the layers of later stages are as they were, and what the
\* stage calls next can still be fed.
LEMMA CallStageStop ==
  ASSUME PipelineInv, Polite(pipeline), StopInv, CallStage
  PROVE  StopInv' /\ \A k \in 1..N : HoldsBack(k) => HoldsBack(k)'
<1> DEFINE j == Top.at
           called == Step(pipeline[j], layer[j], Head(Top.todo))
           loops == Loops(j + 1, called.runs)
           a == loops \o <<Advanced>>
<1>1. /\ Due /\ j <= N
      /\ layer' = [layer EXCEPT ![j] = called.layer]
      /\ stack' = a \o Tail(stack)
      /\ pipeline' = pipeline
      /\ ~ThrowsFirst(pipeline[j], layer[j])
  BY DEF CallStage, Throws
<1>2. /\ PipelineTypeOK /\ N' = N
      /\ stack # <<>> /\ stack \in Seq(Frame)
      /\ Top = stack[1] /\ 1 \in 1..Len(stack)
      /\ j \in Nat \ {0} /\ N \in Nat
      /\ Head(Top.todo) \in Item
      /\ Advanced \in Frame /\ Advanced.at = j /\ Advanced.mode = "next"
      /\ \A s \in 1..Len(stack) : stack[s].at <= j
      /\ ~ReducedWith(layer, j)
  BY <1>1, DueTop DEF PipelineInv, N
<1>3. j \in 1..N /\ j + 1 \in Nat \ {0} /\ pipeline[j] \in Stage /\ layer[j] \in Layer
  <2>1. j \in Nat \ {0} /\ N \in Nat /\ j <= N
    BY <1>1, <1>2
  <2>2. j \in 1..N /\ j + 1 \in Nat \ {0}
    BY ONLY <2>1
  <2> QED
    BY <1>2, <2>2 DEF PipelineTypeOK, N
<1>4. called.runs \in Ran /\ layer' \in [1..N -> Layer]
  <2>1. pipeline[j].kind = "cycle" => pipeline[j].range # <<>>
    <3>1. CASE layer[j].called
      BY <1>3, <3>1 DEF PipelineInv, Ready, ThrowsFirst, Fresh
    <3>2. CASE ~layer[j].called
      BY <1>1, <3>2 DEF ThrowsFirst
    <3> QED
      BY <3>1, <3>2
  <2>2. Result(called)
    BY <1>2, <1>3, <2>1, StepType
  <2> HIDE DEF called, j
  <2> QED
    BY <1>1, <1>2, <1>3, <2>2 DEF Result, PipelineTypeOK
<1>5. /\ Eager(pipeline[j]) => called.runs = <<>>
      /\ pipeline[j].kind = "partition" =>
           called.runs = <<>> \/ called.layer.group = <<>>
      /\ (pipeline[j].kind = "scan" /\ pipeline[j].m <= 0) => ~called.layer.flag
  BY <1>2, <1>3, StepHolds
<1>6. pipeline[j].kind # "chainl" => called.runs = <<>> \/ called.runs = <<called.runs[1]>>
  BY <1>3, StepSingle DEF Single
<1> HIDE DEF called, j
<1>7. /\ layer'[j] = called.layer
      /\ \A i \in 1..N : i # j => layer'[i] = layer[i]
  BY <1>1, <1>2, <1>3 DEF PipelineTypeOK
<1>8. /\ loops \in Seq(Frame) /\ Len(loops) = Len(called.runs) /\ Len(loops) \in Nat
      /\ \A i \in 1..Len(loops) : loops[i].at = j + 1
  <2>1. /\ loops \in Seq(Frame) /\ Len(loops) = Len(called.runs)
        /\ \A i \in 1..Len(called.runs) : loops[i] = Loop(j + 1, called.runs[i])
    BY <1>3, <1>4, LoopsType
  <2>2. \A todo : Loop(j + 1, todo).at = j + 1
    BY DEF Loop
  <2> QED
    BY <2>1, <2>2
<1>9. /\ a \in Seq(Frame)
      /\ Len(a) = Len(loops) + 1
      /\ a[Len(a)] = Advanced
      /\ \A r \in 1..Len(a) : r <= Len(loops) => a[r] = loops[r]
  BY <1>2, <1>8
<1> HIDE DEF loops, a
<1>10. \A r \in 1..Len(a) : \/ r <= Len(loops) /\ a[r].at = j + 1
                            \/ r = Len(a) /\ a[r] = Advanced
  <2> TAKE r \in 1..Len(a)
  <2>1. CASE r <= Len(loops)
    BY <1>8, <1>9, <2>1
  <2>2. CASE r = Len(a)
    BY <1>9, <2>2
  <2> QED
    BY <1>8, <1>9, <2>1, <2>2
<1>11. ASSUME NEW at \in Nat, at > j
       PROVE  ReducedWith(layer', at) <=> ReducedWith(layer, at)
  <2>1. \A i \in at..N : layer'[i] = layer[i]
    BY <1>2, <1>7, <1>11
  <2> QED
    BY <2>1 DEF ReducedWith
<1>12. ASSUME NEW at \in Nat, at > j
       PROVE  ~ReducedWith(layer', at)
  <2>1. ~ReducedWith(layer, at)
    BY <1>2, <1>12 DEF ReducedWith
  <2> QED
    BY <1>11, <1>12, <2>1
<1>13. ASSUME NEW r \in 1..Len(a), a[r].mode = "first"
       PROVE  \/ r = 1 /\ ~ReducedWith(layer', a[r].at)
              \/ Unstopped(a[r].at)
  <2>1. r <= Len(loops) /\ a[r].at = j + 1
    BY <1>2, <1>10, <1>13
  <2>2. CASE pipeline[j].kind = "chainl"
    <3>1. \A i \in (j + 1)..N : ~Stopper(pipeline[i])
      <4> TAKE i \in (j + 1)..N
      <4>1. i \in 1..N /\ j < i
        BY <1>2, <1>3
      <4> QED
        BY <1>3, <2>2, <4>1 DEF Polite, Insistent, N
    <3> QED
      BY <2>1, <3>1 DEF Unstopped
  <2>3. CASE pipeline[j].kind # "chainl"
    <3>1. Len(called.runs) <= 1
      <4>1. CASE called.runs = <<>>
        BY <4>1
      <4>2. CASE called.runs = <<called.runs[1]>>
        <5>1. PICK run : called.runs = <<run>>
          BY <4>2
        <5> QED
          BY <5>1
      <4> QED
        BY <1>6, <2>3, <4>1, <4>2
    <3>2. r = 1
      BY <1>8, <2>1, <3>1
    <3>3. j + 1 \in Nat /\ j + 1 > j
      BY <1>2
    <3> QED
      BY <1>12, <2>1, <3>2, <3>3
  <2> QED
    BY <2>2, <2>3
<1>14. Outwards' /\ StartsInTime'
  <2>1. \A r \in 1..Len(a) : a[r].at >= Top.at
    BY <1>2, <1>10 DEF j
  <2>2. \A r, q \in 1..Len(a) : r <= q => a[q].at <= a[r].at
    BY <1>2, <1>8, <1>9, <1>10
  <2>3. Outwards /\ StartsInTime
    BY DEF StopInv
  <2> QED
    BY <1>1, <1>2, <1>9, <1>13, <2>1, <2>2, <2>3, Restacked
<1>15. Marks(layer)'
  <2> SUFFICES ASSUME NEW i \in 1..N, pipeline[i].kind = "scan", pipeline[i].m <= 0
               PROVE  ~layer'[i].flag
    BY <1>1, <1>2 DEF Marks
  <2>1. CASE i = j
    BY <1>5, <1>7, <2>1
  <2>2. CASE i # j
    BY <1>7, <2>2 DEF StopInv, Marks
  <2> QED
    BY <2>1, <2>2
\* Every frame is an old one, the one that got on, or at the next stage.
<1>16. ASSUME NEW i \in 1..Len(stack')
       PROVE  \/ \E s \in 1..Len(stack) : stack'[i].at = stack[s].at
              \/ stack'[i].at = j + 1 /\ called.runs # <<>>
  <2>1. CASE i \in 1..Len(a) /\ stack'[i] = a[i]
    <3>1. CASE i <= Len(loops) /\ a[i].at = j + 1
      BY <1>8, <2>1, <3>1
    <3>2. CASE a[i] = Advanced
      BY <1>2, <2>1, <3>2 DEF j
    <3> QED
      BY <1>10, <2>1, <3>1, <3>2
  <2>2. CASE i - Len(a) + 1 \in 2..Len(stack) /\ stack'[i] = stack[i - Len(a) + 1]
    BY <1>2, <2>2
  <2> QED
    BY <1>1, <1>2, <1>9, <2>1, <2>2, Positions
<1>17. ASSUME NEW k \in 1..N, HoldsBack(k)
       PROVE  HoldsBack(k)'
  <2>0. /\ Eager(pipeline[k]) => \A i \in (k + 1)..N : ~layer[i].called
        /\ (pipeline[k].kind = "partition" /\ ReducedWith(layer, k + 1)) =>
             layer[k].group = <<>>
        /\ Eager(pipeline[k]) => \A s \in 1..Len(stack) : stack[s].at <= k
        /\ (pipeline[k].kind = "partition" /\ \E s \in 1..Len(stack) : stack[s].at > k)
             => layer[k].group = <<>>
    BY <1>17 DEF HoldsBack, Calm
  <2>1. ASSUME Eager(pipeline[k])
        PROVE  /\ \A i \in (k + 1)..N : ~layer'[i].called
               /\ \A i \in 1..Len(stack') : stack'[i].at <= k
    <3>1. j <= k
      BY <1>2, <2>0, <2>1 DEF j
    <3>2. \A i \in (k + 1)..N : layer'[i] = layer[i]
      BY <1>2, <1>7, <3>1
    <3>3. ASSUME NEW i \in 1..Len(stack')
          PROVE  stack'[i].at <= k
      <4>1. CASE \E s \in 1..Len(stack) : stack'[i].at = stack[s].at
        BY <2>0, <2>1, <4>1
      <4>2. CASE stack'[i].at = j + 1 /\ called.runs # <<>>
        <5>1. j # k
          BY <1>5, <2>1, <4>2
        <5> QED
          BY <1>2, <3>1, <4>2, <5>1
      <4> QED
        BY <1>16, <4>1, <4>2
    <3> QED
      BY <2>0, <2>1, <3>2, <3>3
  <2>2. ASSUME pipeline[k].kind = "partition",
               \/ ReducedWith(layer', k + 1)
               \/ \E i \in 1..Len(stack') : stack'[i].at > k
        PROVE  layer'[k].group = <<>>
    <3>1. CASE k < j
      <4>1. layer'[k] = layer[k] /\ stack[1].at > k
        BY <1>2, <1>7, <3>1 DEF j
      <4> QED
        BY <1>2, <2>0, <2>2, <4>1
    <3>2. CASE k = j
      <4>1. k + 1 \in Nat /\ k + 1 > j
        BY <1>2, <3>2
      <4>2. ~ReducedWith(layer', k + 1)
        BY <1>12, <4>1
      <4>3. PICK i \in 1..Len(stack') : stack'[i].at > k
        BY <2>2, <4>2
      <4>4. called.runs # <<>>
        <5>1. CASE \E s \in 1..Len(stack) : stack'[i].at = stack[s].at
          <6>1. PICK s \in 1..Len(stack) : stack'[i].at = stack[s].at
            BY <5>1
          <6>2. stack[s].at <= j /\ stack[s].at \in Nat
            BY <1>2, FrameAt
          <6> QED
            BY <1>2, <3>2, <4>3, <6>1, <6>2
        <5> QED
          BY <1>16, <5>1
      <4> QED
        BY <1>5, <1>7, <2>2, <3>2, <4>4
    <3>3. CASE k > j
      <4>1. layer'[k] = layer[k]
        BY <1>2, <1>7, <3>3
      <4>2. CASE ReducedWith(layer', k + 1)
        <5>1. k + 1 \in Nat /\ k + 1 > j
          BY <1>2, <3>3
        <5>2. ReducedWith(layer, k + 1)
          BY <1>11, <4>2, <5>1
        <5> QED
          BY <2>0, <2>2, <4>1, <5>2
      <4>3. CASE \E i \in 1..Len(stack') : stack'[i].at > k
        <5>1. PICK i \in 1..Len(stack') : stack'[i].at > k
          BY <4>3
        <5>2. ~(j + 1 > k)
          BY <1>2, <3>3
        <5>3. \E s \in 1..Len(stack) : stack[s].at > k
          BY <1>16, <5>1, <5>2
        <5> QED
          BY <2>0, <2>2, <4>1, <5>3
      <4> QED
        BY <2>2, <4>2, <4>3
    <3> QED
      BY <1>2, <3>1, <3>2, <3>3
  <2> QED
    <3>1. pipeline' = pipeline /\ N' = N
      BY <1>1, <1>2
    <3>2. Calm(layer, k)'
      BY <2>1, <2>2, <3>1 DEF Calm, ReducedWith
    <3> QED
      BY <2>1, <2>2, <3>1, <3>2 DEF HoldsBack
<1> QED
  BY <1>14, <1>15, <1>17 DEF StopInv

\* take() throws after the next step, which can still be fed.
LEMMA StepThenThrowStop ==
  ASSUME PipelineInv, StopInv, StepThenThrow
  PROVE  StopInv' /\ \A k \in 1..N : HoldsBack(k) => HoldsBack(k)'
<1> DEFINE j == Top.at
           x == Head(Top.todo)
           leaving == [Advanced EXCEPT !.mode = "throw"]
           inner == Loop(j + 1, <<x>>)
           a == <<inner, leaving>>
<1>1. /\ Due /\ j <= N /\ pipeline[j].kind = "take"
      /\ stack' = a \o Tail(stack)
      /\ pipeline' = pipeline /\ layer' = layer
  BY DEF StepThenThrow, MayStepBeforeThrowing
<1>2. /\ PipelineTypeOK /\ N' = N
      /\ stack # <<>> /\ stack \in Seq(Frame)
      /\ Top = stack[1] /\ 1 \in 1..Len(stack)
      /\ j \in Nat \ {0} /\ N \in Nat
      /\ x \in Item
      /\ Advanced \in Frame /\ Advanced.at = j
      /\ \A s \in 1..Len(stack) : stack[s].at <= j
      /\ ~ReducedWith(layer, j)
  BY <1>1, DueTop DEF PipelineInv, N
<1>3. leaving \in Frame /\ leaving.at = j /\ leaving.mode = "throw"
  BY <1>2 DEF Frame
<1>4. inner \in Frame /\ inner.at = j + 1
  <2>1. <<x>> \in Seq(Item) /\ j + 1 \in Nat \ {0}
    BY <1>2
  <2> QED
    BY <2>1, LoopType DEF Loop
<1> HIDE DEF x, leaving, inner, j
<1>5. a \in Seq(Frame) /\ Len(a) = 2 /\ a[1] = inner /\ a[2] = leaving
  BY <1>3, <1>4
<1> HIDE DEF a
<1>6. \A r \in 1..Len(a) : r = 1 \/ r = 2
  BY <1>5
<1>7. ~ReducedWith(layer', j + 1)
  BY <1>1, <1>2 DEF ReducedWith
<1>8. Outwards' /\ StartsInTime'
  <2>1. \A r \in 1..Len(a) : a[r].at >= Top.at
    BY <1>2, <1>3, <1>4, <1>5, <1>6 DEF j
  <2>2. \A r, q \in 1..Len(a) : r <= q => a[q].at <= a[r].at
    BY <1>2, <1>3, <1>4, <1>5, <1>6
  <2>3. \A r \in 1..Len(a) : (a[r].mode = "first" /\ a[r].todo # <<>>) =>
          \/ r = 1 /\ ~ReducedWith(layer', a[r].at)
          \/ Unstopped(a[r].at)
    BY <1>3, <1>4, <1>5, <1>6, <1>7
  <2>4. Outwards /\ StartsInTime
    BY DEF StopInv
  <2> QED
    BY <1>1, <1>2, <1>5, <2>1, <2>2, <2>3, <2>4, Restacked
<1>9. Marks(layer)'
  BY <1>1, <1>2 DEF StopInv, Marks
<1>10. ASSUME NEW i \in 1..Len(stack')
       PROVE  \/ \E s \in 1..Len(stack) : stack'[i].at = stack[s].at
              \/ stack'[i].at = j + 1
  <2>1. CASE i \in 1..Len(a) /\ stack'[i] = a[i]
    BY <1>2, <1>3, <1>4, <1>5, <1>6, <2>1 DEF j
  <2>2. CASE i - Len(a) + 1 \in 2..Len(stack) /\ stack'[i] = stack[i - Len(a) + 1]
    BY <1>2, <1>5, <2>2
  <2> QED
    BY <1>1, <1>2, <1>5, <2>1, <2>2, Positions
<1>11. ASSUME NEW k \in 1..N, HoldsBack(k)
       PROVE  HoldsBack(k)'
  <2>1. Calm(layer, k)'
    BY <1>1, <1>2, <1>11 DEF HoldsBack, Calm, ReducedWith
  <2>2. j = k => ~Eager(pipeline[k]) /\ pipeline[k].kind # "partition"
    BY <1>1 DEF Eager
  <2>3. ASSUME Eager(pipeline[k]), NEW i \in 1..Len(stack')
        PROVE  stack'[i].at <= k
    <3>1. \A s \in 1..Len(stack) : stack[s].at <= k
      BY <1>11, <2>3 DEF HoldsBack
    <3>2. j <= k /\ j # k
      BY <1>2, <2>2, <2>3, <3>1 DEF j
    <3> QED
      BY <1>2, <1>10, <3>1, <3>2
  <2>4. ASSUME pipeline[k].kind = "partition",
               NEW i \in 1..Len(stack'), stack'[i].at > k
        PROVE  layer[k].group = <<>>
    <3>1. (\E s \in 1..Len(stack) : stack[s].at > k) => layer[k].group = <<>>
      BY <1>11, <2>4 DEF HoldsBack
    <3>2. CASE stack'[i].at = j + 1
      <4>1. j > k
        BY <1>2, <2>2, <2>4, <3>2
      <4> QED
        BY <1>2, <3>1, <4>1 DEF j
    <3>3. CASE \E s \in 1..Len(stack) : stack'[i].at = stack[s].at
      BY <2>4, <3>1, <3>3
    <3> QED
      BY <1>10, <3>2, <3>3
  <2> QED
    BY <1>1, <2>1, <2>3, <2>4 DEF HoldsBack
<1> QED
  BY <1>8, <1>9, <1>11 DEF StopInv

\* Every step of the nested calls preserves the invariant, and what each stage
\* holds back.
LEMMA PipelineStepStop ==
  ASSUME PipelineInv, Polite(pipeline), StopInv, PipelineStep
  PROVE  StopInv' /\ \A k \in 1..N : HoldsBack(k) => HoldsBack(k)'
<1>0. PipelineTypeOK /\ stack \in Seq(Frame)
  BY DEF PipelineInv, PipelineTypeOK
<1>1. CASE CallStage
  BY <1>1, CallStageStop
<1>2. CASE CallBase
  <2>1. /\ Due /\ stack' = <<Advanced>> \o Tail(stack)
        /\ pipeline' = pipeline /\ layer' = layer
    BY <1>2 DEF CallBase
  <2>2. stack # <<>> /\ Advanced \in Frame /\ Advanced.at = Top.at /\ Advanced.mode = "next"
    BY <1>0, <2>1, DueTop
  <2>3. <<Advanced>> \in Seq(Frame) /\ Len(<<Advanced>>) <= 1
    BY <2>2
  <2>4. \A r \in 1..Len(<<Advanced>>) :
          <<Advanced>>[r].at = Top.at /\ <<Advanced>>[r].mode = "next"
    BY <2>2
  <2> QED
    BY <2>1, <2>2, <2>3, <2>4, SameLayersStop
<1>3. CASE Return
  <2> DEFINE none == <<>>
  <2>1. /\ stack # <<>> /\ stack' = none \o Tail(stack)
        /\ pipeline' = pipeline /\ layer' = layer
    BY <1>0, <1>3 DEF Return
  <2>2. none \in Seq(Frame) /\ Len(none) <= 1 /\ 1..Len(none) = {}
    OBVIOUS
  <2> HIDE DEF none
  <2> QED
    BY <2>1, <2>2, SameLayersStop
<1>4. CASE ThrowFirst
  BY <1>0, <1>4, ThrownStop DEF ThrowFirst
<1>5. CASE StepThenThrow
  BY <1>5, StepThenThrowStop
<1>6. CASE Unwind
  BY <1>0, <1>6, ThrownStop DEF Unwind
<1> QED
  BY <1>1, <1>2, <1>3, <1>4, <1>5, <1>6 DEF PipelineStep

(***************************************************************************)
(* The start of a reduction from outside                                   *)
(***************************************************************************)

\* A driver may start on any stage whose step can still be fed, and leaves what
\* later stages hold back alone.
LEMMA StartStop ==
  ASSUME PipelineTypeOK, NEW layers, Marks(layers), layer' = layers,
         NEW at \in Nat \ {0}, NEW todo \in Seq(Item),
         todo # <<>> => ~ReducedWith(layers, at) \/ Unstopped(at),
         stack' = <<Loop(at, todo)>>, pipeline' = pipeline
  PROVE  StopInv' /\ \A k \in 1..N : (at <= k /\ Calm(layers, k)) => HoldsBack(k)'
<1>1. N' = N /\ N \in Nat
  BY DEF N, PipelineTypeOK
<1>2. /\ \A i \in 1..Len(stack') : i = 1
      /\ stack'[1].at = at /\ stack'[1].todo = todo
  BY DEF Loop
<1>3. Outwards'
  BY <1>2 DEF Outwards
<1>4. StartsInTime'
  BY <1>1, <1>2 DEF StartsInTime, Reduced, ReducedWith, Unstopped
<1>5. Marks(layer)'
  BY <1>1 DEF Marks
<1>6. ASSUME NEW k \in 1..N, at <= k, Calm(layers, k)
      PROVE  HoldsBack(k)'
  <2>1. Calm(layer, k)'
    BY <1>1, <1>6 DEF Calm, ReducedWith
  <2>2. \A i \in 1..Len(stack') : stack'[i].at <= k /\ ~(stack'[i].at > k)
    BY <1>2, <1>6
  <2> QED
    BY <2>1, <2>2 DEF HoldsBack
<1> QED
  BY <1>3, <1>4, <1>5, <1>6 DEF StopInv

\* While nothing is in progress, a state is calm where its stages hold back.
LEMMA CalmAtRest ==
  ASSUME stack = <<>>, NEW k
  PROVE  HoldsBack(k) <=> Calm(layer, k)
<1>1. 1..Len(stack) = {}
  OBVIOUS
<1> QED
  BY <1>1 DEF HoldsBack

\* What a completion flushes can still be fed.
LEMMA FlushInTime ==
  ASSUME PipelineTypeOK, Polite(pipeline), NEW k \in 1..N, Calm(layer, k),
         Flush(pipeline[k], layer[k]) # <<>>
  PROVE  ~ReducedWith(layer, k + 1) \/ Unstopped(k + 1)
<1>1. CASE Insistent(pipeline[k])
  <2> SUFFICES ASSUME NEW i \in (k + 1)..N
               PROVE  ~Stopper(pipeline[i])
    BY DEF Unstopped
  <2>1. i \in 1..N /\ k < i
    BY DEF N, PipelineTypeOK
  <2> QED
    BY <1>1, <2>1 DEF Polite, N
<1>2. CASE Eager(pipeline[k])
  BY <1>2 DEF Calm, ReducedWith, DataIsReduced
<1>3. CASE pipeline[k].kind = "partition"
  BY <1>3 DEF Calm, Flush
<1> QED
  BY <1>1, <1>2, <1>3 DEF Flush, Insistent, Eager

\* The completion of one stage: it is in time, and those still to be completed
\* hold back what they held.
LEMMA CompletionStop ==
  ASSUME PipelineTypeOK, Polite(pipeline), StopInv, stack = <<>>,
         NEW k \in 1..N, HoldsBack(k),
         stack' = <<Loop(k + 1, Flush(pipeline[k], layer[k]))>>,
         pipeline' = pipeline, layer' = layer
  PROVE  StopInv' /\ \A i \in (k + 1)..N : HoldsBack(i) => HoldsBack(i)'
<1>1. Flush(pipeline[k], layer[k]) \in Seq(Item)
  <2>1. pipeline[k] \in Stage /\ layer[k] \in Layer
    BY DEF PipelineTypeOK, N
  <2> QED
    BY <2>1, FlushType
<1>2. Calm(layer, k)
  BY DEF HoldsBack
<1>3. Flush(pipeline[k], layer[k]) # <<>> =>
        ~ReducedWith(layer, k + 1) \/ Unstopped(k + 1)
  BY <1>2, FlushInTime
<1>4. k + 1 \in Nat \ {0} /\ \A i \in (k + 1)..N : i \in 1..N /\ k + 1 <= i
  BY DEF N, PipelineTypeOK
<1>5. Marks(layer)
  BY DEF StopInv
<1>6. /\ StopInv'
      /\ \A i \in 1..N : (k + 1 <= i /\ Calm(layer, i)) => HoldsBack(i)'
  BY <1>1, <1>3, <1>4, <1>5, StartStop
<1> QED
  BY <1>4, <1>6 DEF HoldsBack

(***************************************************************************)
(* States that are put away and taken out again                            *)
(***************************************************************************)

\* The layers of a state between two calls.
AtRest(layers) == Marks(layers) /\ \A k \in 1..N : Calm(layers, k)

\* A state that has not been through any stage is at rest ...
LEMMA FreshAtRest ==
  ASSUME PipelineTypeOK
  PROVE  AtRest([k \in 1..N |-> Fresh])
<1>1. N \in Nat
  BY DEF N, PipelineTypeOK
<1>2. \A k \in 1..N : /\ ~[i \in 1..N |-> Fresh][k].called
                       /\ ~[i \in 1..N |-> Fresh][k].flag
  BY DEF Fresh
<1> DEFINE layers == [k \in 1..N |-> Fresh]
<1> HIDE DEF layers
<1>3. \A k \in 1..N : ~layers[k].called /\ ~layers[k].flag
  BY <1>2 DEF layers
<1>4. ASSUME NEW k \in 1..N
      PROVE  Calm(layers, k)
  <2>1. \A i \in (k + 1)..N : i \in 1..N
    BY <1>1
  <2> QED
    BY <1>3, <2>1 DEF Calm, ReducedWith, DataIsReduced
<1>5. AtRest(layers)
  BY <1>3, <1>4 DEF AtRest, Marks
<1> QED
  BY <1>5 DEF layers

\* ... and not reduced.
LEMMA FreshPromising ==
  ~ReducedWith([k \in 1..N |-> Fresh], 1)
BY DEF ReducedWith, DataIsReduced, Fresh

\* A state that a call has returned is at rest.
LEMMA ReturnedAtRest ==
  ASSUME StopInv, stack = <<>>, \A k \in 1..N : HoldsBack(k)
  PROVE  AtRest(layer)
BY DEF AtRest, StopInv, HoldsBack

\* A driver may take out a state that is at rest and leave it alone ...
LEMMA TakeOutStop ==
  ASSUME NEW layers, AtRest(layers),
         layer' = layers, stack' = <<>>, pipeline' = pipeline
  PROVE  StopInv' /\ \A k \in 1..N : HoldsBack(k)'
<1>1. N' = N /\ 1..Len(stack') = {}
  BY DEF N
<1>2. StopInv'
  BY <1>1 DEF StopInv, Outwards, StartsInTime, Marks, AtRest
<1>3. ASSUME NEW k \in 1..N
      PROVE  HoldsBack(k)'
  BY <1>1 DEF HoldsBack, Calm, ReducedWith, AtRest
<1> QED
  BY <1>2, <1>3

\* ... or feed it to the first stage, if it is not reduced.
LEMMA FeedAtRestStop ==
  ASSUME PipelineTypeOK, NEW layers, AtRest(layers), ~ReducedWith(layers, 1),
         NEW x \in Item,
         layer' = layers, stack' = <<Loop(1, <<x>>)>>, pipeline' = pipeline
  PROVE  StopInv' /\ \A k \in 1..N : HoldsBack(k)'
<1>1. <<x>> \in Seq(Item) /\ 1 \in Nat \ {0}
  OBVIOUS
<1>2. Marks(layers)
  BY DEF AtRest
<1>3. StopInv' /\ \A k \in 1..N : (1 <= k /\ Calm(layers, k)) => HoldsBack(k)'
  BY <1>1, <1>2, StartStop
<1>4. \A k \in 1..N : 1 <= k /\ Calm(layers, k)
  BY DEF AtRest, N, PipelineTypeOK
<1> QED
  BY <1>3, <1>4
=============================================================================

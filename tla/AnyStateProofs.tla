--------------------------- MODULE AnyStateProofs ---------------------------
(***************************************************************************)
(* That any_state manages its buffers correctly, and that it implements    *)
(* Boxes as long as nothing is copied out of an object that owns no buffer.*)
(***************************************************************************)
EXTENDS AnyState, TLAPS

\* The two invariants of the runs are inductive together; what call remembers is
\* not needed for it.
Inv == StoreTypeOK /\ OneOwner

USE DEF Held

LEMMA InitInv == Init => Inv
  BY DEF Init, Inv, StoreTypeOK, OneOwner, Object, Buffer, Absent, Freed, Owns

\* What changes neither objects nor buffers keeps the invariant.
LEMMA SameInv ==
  ASSUME Inv, object' = object, buffer' = buffer,
         fault' \in {"none", "overflow", "null pointer", "dangling pointer"}
  PROVE  Inv'
<1>1. StoreTypeOK'
  BY DEF Inv, StoreTypeOK
<1>2. \A o \in Objects, b \in Buffers : Owns(o, b)' <=> Owns(o, b)
  BY DEF Owns
<1>3. ASSUME NEW o \in Objects, object'[o].size > 0
      PROVE  /\ object'[o].live /\ object'[o].data # Static
             /\ buffer'[object'[o].data].size = object'[o].size
  BY <1>3 DEF Inv, OneOwner
<1>4. ASSUME NEW b \in Buffers, buffer'[b] # Freed
      PROVE  /\ HolderSize[buffer'[b].held] <= buffer'[b].size
             /\ \E o \in Objects : Owns(o, b)'
             /\ \A o, p \in Objects : Owns(o, b)' /\ Owns(p, b)' => o = p
  BY <1>2, <1>4 DEF Inv, OneOwner
<1> QED
  BY <1>1, <1>3, <1>4 DEF Inv, OneOwner

\* What an object owns is allocated.
LEMMA OwnedBuffer ==
  ASSUME StoreTypeOK, OneOwner, NEW q \in Objects, NEW b \in Buffers, Owns(q, b)
  PROVE  buffer[b] # Freed /\ buffer[b].size = object[q].size
<1>1. buffer[b].size = object[q].size /\ object[q].size > 0
  BY DEF OneOwner, Owns
<1>2. Freed.size = 0
  BY DEF Freed
<1> QED
  BY <1>1, <1>2

\* Freeing what an object owns leaves the buffers of the others alone.
LEMMA Remaining ==
  ASSUME Inv, NEW o \in Objects
  PROVE  /\ WithoutBuffer(o) \in [Buffers -> Buffer]
         /\ \A b \in Buffers : WithoutBuffer(o)[b] # Freed <=>
                                 buffer[b] # Freed /\ ~Owns(o, b)
         /\ \A b \in Buffers : ~Owns(o, b) => WithoutBuffer(o)[b] = buffer[b]
  BY DEF Inv, StoreTypeOK, OneOwner, WithoutBuffer, Object, Buffer, Freed, Owns

\* A buffer that is large enough for the holder keeps the invariant.
LEMMA AllocateInv ==
  ASSUME Inv, NEW o \in Objects, NEW size \in Nat, NEW v \in Held,
         HolderSize[v] <= size, Allocate(o, size, v)
  PROVE  Inv'
<1> DEFINE rest == WithoutBuffer(o)
<1>1. PICK b \in Buffers :
        /\ rest[b] = Freed
        /\ buffer' = [rest EXCEPT ![b] = [size |-> size, held |-> v]]
        /\ object' = [object EXCEPT ![o] = [live |-> TRUE, data |-> b, size |-> size]]
        /\ UNCHANGED fault
  BY DEF Allocate
<1>2. /\ rest \in [Buffers -> Buffer]
      /\ \A c \in Buffers : rest[c] # Freed <=> buffer[c] # Freed /\ ~Owns(o, c)
      /\ \A c \in Buffers : ~Owns(o, c) => rest[c] = buffer[c]
  BY Remaining
<1>3. size > 0
  BY SizesAssumption
<1> HIDE DEF rest
<1>4. StoreTypeOK'
  <2>1. [live |-> TRUE, data |-> b, size |-> size] \in Object
    BY DEF Object
  <2>2. [size |-> size, held |-> v] \in Buffer
    BY <1>3 DEF Buffer
  <2>3. object' \in [Objects -> Object]
    BY <1>1, <2>1 DEF Inv, StoreTypeOK
  <2>4. buffer' \in [Buffers -> Buffer]
    BY <1>1, <1>2, <2>2
  <2> QED
    BY <1>1, <2>3, <2>4 DEF Inv, StoreTypeOK
<1>5. \A q \in Objects : \A c \in Buffers :
        Owns(q, c)' <=> IF q = o THEN c = b ELSE Owns(q, c)
  BY <1>1, <1>3, NamesAssumption DEF Inv, StoreTypeOK, Object, Owns
<1>6. \A q \in Objects : q # o => ~Owns(q, b)
  <2>1. buffer[b] = Freed \/ Owns(o, b)
    BY <1>1, <1>2
  <2>2. \A q \in Objects : Owns(q, b) => buffer[b] # Freed
    BY OwnedBuffer DEF Inv
  <2> QED
    BY <2>1, <2>2 DEF Inv, OneOwner
<1>7. ASSUME NEW q \in Objects, object'[q].size > 0
      PROVE  /\ object'[q].live /\ object'[q].data # Static
             /\ buffer'[object'[q].data].size = object'[q].size
  <2>1. CASE q = o
    BY <2>1, <1>1, <1>2, <1>3, NamesAssumption DEF Inv, StoreTypeOK
  <2>2. CASE q # o
    <3>1. object'[q] = object[q] /\ Owns(q, object[q].data)
      BY <2>2, <1>1, <1>7 DEF Inv, StoreTypeOK, Owns
    <3>a. object[q].data \in Buffers
      BY <3>1, <1>7 DEF Inv, StoreTypeOK, OneOwner, Object
    <3>b. object[q].data # b
      BY <3>1, <2>2, <1>6
    <3>c. ~Owns(o, object[q].data)
      BY <3>1, <3>a, <2>2, OwnedBuffer DEF Inv, OneOwner
    <3>2. object[q].data \in Buffers /\ object[q].data # b /\ ~Owns(o, object[q].data)
      BY <3>a, <3>b, <3>c
    <3> QED
      BY <3>1, <3>2, <2>2, <1>1, <1>2, <1>7 DEF Inv, StoreTypeOK, OneOwner
  <2> QED
    BY <2>1, <2>2
<1>8. ASSUME NEW c \in Buffers, buffer'[c] # Freed
      PROVE  /\ HolderSize[buffer'[c].held] <= buffer'[c].size
             /\ \E q \in Objects : Owns(q, c)'
             /\ \A p, q \in Objects : Owns(p, c)' /\ Owns(q, c)' => p = q
  <2>1. CASE c = b
    BY <2>1, <1>1, <1>2, <1>5, <1>6
  <2>2. CASE c # b
    <3>1. buffer'[c] = buffer[c] /\ buffer[c] # Freed /\ ~Owns(o, c)
      BY <2>2, <1>1, <1>2, <1>8
    <3> QED
      BY <3>1, <2>2, <1>5 DEF Inv, OneOwner
  <2> QED
    BY <2>1, <2>2
<1> QED
  BY <1>4, <1>7, <1>8 DEF Inv, OneOwner, Owns

\* So does putting a holder that fits into a buffer that there is.
LEMMA PutInPlaceInv ==
  ASSUME Inv, fault = "none", NEW o \in Objects, NEW v \in Held, PutInPlace(o, v)
  PROVE  Inv'
<1> DEFINE b == object[o].data
<1>1. CASE /\ fault' \in {"none", "overflow", "dangling pointer"}
           /\ UNCHANGED <<object, buffer>>
  BY <1>1, SameInv
<1>2. CASE /\ b # Static /\ buffer[b] # Freed /\ ~(buffer[b].size < HolderSize[v])
           /\ buffer' = [buffer EXCEPT ![b].held = v]
           /\ UNCHANGED <<object, fault>>
  <2>1. b \in Buffers /\ buffer[b] \in [size : Nat \ {0}, held : Held]
    BY <1>2 DEF Inv, StoreTypeOK, Object, Buffer
  <2>a. HolderSize[v] \in Nat /\ buffer[b].size \in Nat
    BY <2>1, SizesAssumption
  <2>b. [buffer[b] EXCEPT !.held = v] = [size |-> buffer[b].size, held |-> v]
    BY <2>1
  <2>c. HolderSize[v] <= buffer[b].size
    BY <1>2, <2>a
  <2>d. buffer' = [buffer EXCEPT ![b] = [size |-> buffer[b].size, held |-> v]]
    BY <1>2, <2>b
  <2>2. /\ HolderSize[v] <= buffer[b].size
        /\ buffer' = [buffer EXCEPT ![b] = [size |-> buffer[b].size, held |-> v]]
    BY <2>c, <2>d
  <2>3. StoreTypeOK'
    BY <1>2, <2>1, <2>2 DEF Inv, StoreTypeOK, Buffer
  <2>4. OneOwner'
    BY <1>2, <2>1, <2>2 DEF Inv, StoreTypeOK, OneOwner, Owns, Freed
  <2> QED
    BY <2>3, <2>4 DEF Inv
<1> QED
  BY <1>1, <1>2 DEF PutInPlace, Undefined, vars

\* A step that only stops keeps the invariant.
LEMMA UndefinedInv ==
  ASSUME Inv, NEW reason \in {"overflow", "null pointer", "dangling pointer"},
         Undefined(reason)
  PROVE  Inv'
  BY SameInv DEF Undefined

\* realloc_ never takes a buffer for large enough that is not, except for a
\* size that is not a holder's; then what comes after it stops the model.
LEMMA AssignInv ==
  ASSUME Inv, fault = "none", NEW o \in Objects, NEW size \in Nat, NEW v \in Held,
         Assign(o, size, v)
  PROVE  Inv'
<1>1. CASE object[o].size >= size
  BY <1>1, PutInPlaceInv DEF Assign
<1>2. CASE ~(object[o].size >= size) /\ size < HolderSize[v]
  BY <1>2, UndefinedInv DEF Assign
<1>3. CASE ~(object[o].size >= size) /\ ~(size < HolderSize[v])
  <2>1. HolderSize[v] \in Nat
    BY SizesAssumption
  <2>2. HolderSize[v] <= size
    BY <1>3, <2>1
  <2>3. Allocate(o, size, v)
    BY <1>3 DEF Assign
  <2> QED
    BY <2>2, <2>3, AllocateInv
<1> QED
  BY <1>1, <1>2, <1>3

\* What an object with a buffer shows is in that buffer, and fits.
LEMMA ContentHeld ==
  ASSUME Inv, NEW p \in Objects, Content(p) # Unborn
  PROVE  /\ Content(p) \in Held
         /\ object[p].size > 0 => HolderSize[Content(p)] <= object[p].size
<1>1. CASE object[p].data = Static
  BY <1>1, NamesAssumption DEF Content, Inv, OneOwner
<1>2. CASE object[p].data # Static
  <2>1. object[p].data \in Buffers /\ Content(p) = buffer[object[p].data].held
    BY <1>2 DEF Content, Inv, StoreTypeOK, Object
  <2>2. buffer[object[p].data] # Freed
    BY <2>1 DEF Freed
  <2>3. Content(p) \in Held
    BY <2>1, <2>2 DEF Inv, StoreTypeOK, Buffer
  <2> QED
    BY <2>1, <2>2, <2>3 DEF Inv, OneOwner
<1> QED
  BY <1>1, <1>2

\* What an object that owns a buffer shows is never missing.
LEMMA OwnerHolds ==
  ASSUME Inv, NEW p \in Objects, object[p].size > 0
  PROVE  /\ Content(p) \in Held
         /\ HolderSize[Content(p)] <= object[p].size
         /\ object[p].size \in Nat
<1>1. object[p].data \in Buffers /\ object[p].data # Static
  BY DEF Inv, StoreTypeOK, OneOwner, Object
<1>2. Owns(p, object[p].data)
  BY DEF Owns
<1>3. buffer[object[p].data] # Freed
  BY <1>1, <1>2, OwnedBuffer DEF Inv
<1>4. Content(p) \in Held
  BY <1>1, <1>3 DEF Inv, StoreTypeOK, Buffer, Content
<1>5. HolderSize[Content(p)] <= object[p].size
  BY <1>1, <1>3 DEF Inv, OneOwner, Content
<1>6. object[p].size \in Nat
  BY DEF Inv, StoreTypeOK, Object
<1> QED
  BY <1>4, <1>5, <1>6

\* What owns its buffer is the same again after objects were swapped, and an
\* object without a buffer may be anything.
LEMMA RenamingInv ==
  ASSUME Inv, NEW f \in [Objects -> Objects], UNCHANGED <<buffer, fault>>,
         object' \in [Objects -> Object],
         \A q \in Objects : object'[q].size > 0 => object'[q] = object[f[q]],
         \A p, q \in Objects :
           f[p] = f[q] /\ object'[p].size > 0 /\ object'[q].size > 0 => p = q,
         \A q \in Objects : object[q].size > 0 => \E p \in Objects : object'[p] = object[q]
  PROVE  Inv'
<1>1. StoreTypeOK'
  BY DEF Inv, StoreTypeOK
<1>2. ASSUME NEW q \in Objects, object'[q].size > 0
      PROVE  /\ object'[q].live /\ object'[q].data # Static
             /\ buffer'[object'[q].data].size = object'[q].size
  BY <1>2 DEF Inv, OneOwner
<1>3. ASSUME NEW b \in Buffers, buffer'[b] # Freed
      PROVE  /\ HolderSize[buffer'[b].held] <= buffer'[b].size
             /\ \E o \in Objects : Owns(o, b)'
             /\ \A p, q \in Objects : Owns(p, b)' /\ Owns(q, b)' => p = q
  <2>1. HolderSize[buffer'[b].held] <= buffer'[b].size
    BY <1>3 DEF Inv, OneOwner
  <2>2. \E o \in Objects : Owns(o, b)'
    BY <1>3 DEF Inv, OneOwner, Owns
  <2>3. ASSUME NEW p \in Objects, NEW q \in Objects, Owns(p, b)', Owns(q, b)'
        PROVE  p = q
    <3>1. Owns(f[p], b) /\ Owns(f[q], b)
      BY <2>3 DEF Owns
    <3>2. f[p] = f[q]
      BY <1>3, <3>1 DEF Inv, OneOwner
    <3> QED
      BY <2>3, <3>2 DEF Owns
  <2> QED
    BY <2>1, <2>2, <2>3
<1> QED
  BY <1>1, <1>2, <1>3 DEF Inv, OneOwner

\* Every step keeps the invariant.
LEMMA NextInv == Inv /\ [Next]_vars => Inv'
<1> SUFFICES ASSUME Inv, [Next]_vars
             PROVE  Inv'
  OBVIOUS
<1> USE DEF Live, New
<1>1. CASE UNCHANGED vars
  BY <1>1, SameInv DEF Inv, StoreTypeOK, vars
<1>2. ASSUME NEW o \in Objects, DefaultConstruct(o)
      PROVE  Inv'
  <2>1. object[o].size = 0
    BY <1>2 DEF DefaultConstruct, Inv, StoreTypeOK, OneOwner, Object
  <2> DEFINE empty == [Absent EXCEPT !.live = TRUE]
  <2>a. Absent \in Object /\ Absent.size = 0
    BY DEF Absent, Object
  <2>b. empty \in Object /\ empty.size = 0
    BY <2>a DEF Object
  <2>2. object' = [object EXCEPT ![o] = empty]
    BY <1>2 DEF DefaultConstruct
  <2> HIDE DEF empty
  <2>3. object' \in [Objects -> Object]
    BY <2>2, <2>b DEF Inv, StoreTypeOK
  <2>4. [q \in Objects |-> q] \in [Objects -> Objects]
    OBVIOUS
  <2>5. UNCHANGED <<buffer, fault>>
    BY <1>2 DEF DefaultConstruct
  <2>6. \A q \in Objects : q # o => object'[q] = object[q]
    BY <2>2 DEF Inv, StoreTypeOK
  <2>7. object'[o].size = 0
    BY <2>2, <2>b DEF Inv, StoreTypeOK
  <2>8. \A q \in Objects : object'[q].size > 0 => object'[q] = object[[r \in Objects |-> r][q]]
    BY <2>6, <2>7
  <2>9. \A q \in Objects : object[q].size > 0 => \E p \in Objects : object'[p] = object[q]
    BY <2>6, <2>1
  <2> QED
    BY <2>3, <2>4, <2>5, <2>8, <2>9, RenamingInv
<1>3. ASSUME NEW o \in Objects, Destroy(o)
      PROVE  Inv'
  <2>1. /\ WithoutBuffer(o) \in [Buffers -> Buffer]
        /\ \A b \in Buffers : WithoutBuffer(o)[b] # Freed <=> buffer[b] # Freed /\ ~Owns(o, b)
        /\ \A b \in Buffers : ~Owns(o, b) => WithoutBuffer(o)[b] = buffer[b]
    BY Remaining
  <2>2. /\ buffer' = WithoutBuffer(o) /\ fault' = fault
        /\ object' = [object EXCEPT ![o] = Absent]
    BY <1>3 DEF Destroy
  <2>3. Absent \in Object /\ Absent.size = 0
    BY DEF Absent, Object
  <2>4. StoreTypeOK'
    BY <2>1, <2>2, <2>3 DEF Inv, StoreTypeOK
  <2>5. \A q \in Objects : IF q = o THEN object'[q].size = 0 ELSE object'[q] = object[q]
    BY <2>2, <2>3 DEF Inv, StoreTypeOK
  <2>6. \A q \in Objects, b \in Buffers : Owns(q, b)' <=> q # o /\ Owns(q, b)
    BY <2>5 DEF Owns
  <2>7. ASSUME NEW q \in Objects, object'[q].size > 0
        PROVE  /\ object'[q].live /\ object'[q].data # Static
               /\ buffer'[object'[q].data].size = object'[q].size
    <3>1. q # o /\ object'[q] = object[q]
      BY <2>5, <2>7
    <3>2. object[q].data \in Buffers /\ Owns(q, object[q].data)
      BY <3>1, <2>7 DEF Inv, StoreTypeOK, OneOwner, Object, Owns
    <3>3. ~Owns(o, object[q].data)
      BY <3>1, <3>2, OwnedBuffer DEF Inv, OneOwner
    <3> QED
      BY <3>1, <3>2, <3>3, <2>1, <2>2, <2>7 DEF Inv, OneOwner
  <2>8. ASSUME NEW b \in Buffers, buffer'[b] # Freed
        PROVE  /\ HolderSize[buffer'[b].held] <= buffer'[b].size
               /\ \E q \in Objects : Owns(q, b)'
               /\ \A p, q \in Objects : Owns(p, b)' /\ Owns(q, b)' => p = q
    <3>1. buffer[b] # Freed /\ ~Owns(o, b) /\ buffer'[b] = buffer[b]
      BY <2>1, <2>2, <2>8
    <3> QED
      BY <3>1, <2>6 DEF Inv, OneOwner
  <2> QED
    BY <2>4, <2>7, <2>8 DEF Inv, OneOwner
<1>4. ASSUME NEW o \in Objects, NEW v \in Values, ValueConstruct(o, v) \/ ValueAssign(o, v)
      PROVE  Inv'
  <2>1. HolderSize[v] \in Nat /\ HolderSize[v] <= HolderSize[v]
    BY SizesAssumption
  <2> QED
    BY <1>4, <2>1, AllocateInv, AssignInv DEF ValueConstruct, ValueAssign
<1>5. ASSUME NEW o \in Objects, NEW p \in Objects, MoveConstruct(o, p)
      PROVE  Inv'
  <2> DEFINE f == [q \in Objects |-> IF q = o THEN p ELSE q]
  <2>1. o # p /\ object[o].size = 0
    BY <1>5 DEF MoveConstruct, Inv, StoreTypeOK, OneOwner, Object
  <2>2. object' = [object EXCEPT ![o] = object[p], ![p].size = 0]
    BY <1>5 DEF MoveConstruct
  <2>3. object' \in [Objects -> Object]
    BY <2>2 DEF Inv, StoreTypeOK, Object
  <2>4. f \in [Objects -> Objects] /\ UNCHANGED <<buffer, fault>>
    BY <1>5 DEF MoveConstruct
  <2>5. \A q \in Objects : q \notin {o, p} => object'[q] = object[q] /\ f[q] = q
    BY <2>2 DEF Inv, StoreTypeOK
  <2>a. object'[o] = object[p] /\ f[o] = p
    BY <2>1, <2>2 DEF Inv, StoreTypeOK
  <2>b. object'[p] = [object[p] EXCEPT !.size = 0] /\ object[p] \in Object
    BY <2>1, <2>2 DEF Inv, StoreTypeOK
  <2>c. object'[p].size = 0
    BY <2>b DEF Object
  <2>6. object'[o] = object[p] /\ f[o] = p /\ object'[p].size = 0
    BY <2>a, <2>c
  <2> HIDE DEF f
  <2>7. \A q \in Objects : object'[q].size > 0 => object'[q] = object[f[q]]
    BY <2>5, <2>6
  <2>8. \A q, r \in Objects :
          f[q] = f[r] /\ object'[q].size > 0 /\ object'[r].size > 0 => q = r
    BY <2>5, <2>6
  <2>9. \A q \in Objects : object[q].size > 0 => \E r \in Objects : object'[r] = object[q]
    BY <2>1, <2>5, <2>6
  <2> QED
    BY <2>3, <2>4, <2>7, <2>8, <2>9, RenamingInv
<1>6. ASSUME NEW o \in Objects, NEW p \in Objects, CopyConstruct(o, p)
      PROVE  Inv'
  <2>1. CASE object[p].size > 0
    BY <1>6, <2>1, OwnerHolds, AllocateInv DEF CopyConstruct
  <2>2. CASE ~(object[p].size > 0)
    BY <1>6, <2>2, UndefinedInv DEF CopyConstruct
  <2> QED
    BY <2>1, <2>2
<1>7. ASSUME NEW o \in Objects, NEW p \in Objects, MoveAssign(o, p)
      PROVE  Inv'
  <2> DEFINE f == [q \in Objects |-> IF q = o THEN p ELSE IF q = p THEN o ELSE q]
  <2>1. object' = [object EXCEPT ![o] = object[p], ![p] = object[o]]
    BY <1>7 DEF MoveAssign
  <2>2. object' \in [Objects -> Object]
    BY <2>1 DEF Inv, StoreTypeOK
  <2>3. f \in [Objects -> Objects] /\ UNCHANGED <<buffer, fault>>
    BY <1>7 DEF MoveAssign
  <2>4. \A q \in Objects : object'[q] = object[f[q]]
    BY <2>1 DEF Inv, StoreTypeOK
  <2>5. \A q \in Objects : f[f[q]] = q
    OBVIOUS
  <2> HIDE DEF f
  <2>6. \A q \in Objects : \E r \in Objects : object'[r] = object[q]
    BY <2>3, <2>4, <2>5
  <2>7. \A q, r \in Objects : f[q] = f[r] => q = r
    BY <2>3, <2>5
  <2>8. \A q \in Objects : object'[q].size > 0 => object'[q] = object[f[q]]
    BY <2>4
  <2>9. \A q, r \in Objects :
          f[q] = f[r] /\ object'[q].size > 0 /\ object'[r].size > 0 => q = r
    BY <2>7
  <2>10. \A q \in Objects : object[q].size > 0 => \E r \in Objects : object'[r] = object[q]
    BY <2>6
  <2> QED
    BY <2>2, <2>3, <2>8, <2>9, <2>10, RenamingInv
<1>8. ASSUME NEW o \in Objects, NEW p \in Objects, CopyAssign(o, p)
      PROVE  Inv'
  <2>1. CASE o = p
    BY <1>8, <2>1, SameInv DEF CopyAssign, Inv, StoreTypeOK
  <2>2. CASE o # p /\ Undefined("dangling pointer")
    BY <2>2, UndefinedInv
  <2>3. CASE o # p /\ Content(p) # Unborn /\ Assign(o, SizeOf[Content(p)], Content(p))
    <3>1. Content(p) \in Held
      BY <2>3, ContentHeld
    <3>2. SizeOf[Content(p)] \in Nat
      BY <3>1, SizesAssumption
    <3>3. fault = "none"
      BY <1>8 DEF CopyAssign
    <3> QED
      BY <2>3, <3>1, <3>2, <3>3, AssignInv
  <2> QED
    BY <1>8, <2>1, <2>2, <2>3 DEF CopyAssign
<1> QED
  BY <1>1, <1>2, <1>3, <1>4, <1>5, <1>6, <1>7, <1>8 DEF Next, Stop

\* What is remembered of the calls has its type as well.
LEMMA CallTyped == call \in Call /\ [Next]_vars => call' \in Call
<1> SUFFICES ASSUME call \in Call, [Next]_vars
             PROVE  call' \in Call
  OBVIOUS
<1>1. call.odd \in BOOLEAN
  <2>1. CASE call = NoCall
    BY <2>1 DEF NoCall
  <2>2. CASE call # NoCall
    BY <2>2 DEF Call
  <2> QED
    BY <2>1, <2>2
<1>2. ASSUME NEW op \in {"clear", "fill", "copy", "move", "destroy"}, NEW o \in Objects,
             NEW given \in Held \cup Objects, Returned(op, o, given)
      PROVE  call' \in Call
  BY <1>1, <1>2 DEF Returned, Call
<1>3. CASE UNCHANGED vars
  BY <1>3 DEF vars
<1>4. CASE Next
  BY <1>2, <1>3, <1>4 DEF Next, Stop
<1> QED
  BY <1>3, <1>4

\* An object never loses or leaks a buffer, and never shares one, whatever is
\* constructed, moved, copied, assigned and destroyed (any_state.hpp).
THEOREM BuffersOwned == Spec => [](TypeOK /\ OneOwner)
<1>1. Init => TypeOK /\ OneOwner
  <2>1. Init => call \in Call
    BY DEF Init, Call
  <2> QED
    BY <2>1, InitInv DEF Inv, TypeOK
<1>2. TypeOK /\ OneOwner /\ [Next]_vars => TypeOK' /\ OneOwner'
  BY NextInv, CallTyped DEF Inv, TypeOK
<1> QED
  BY <1>1, <1>2, PTL DEF Spec

\* Type correctness of any_state: every object points to a buffer or to nothing, and a
\* buffer that is allocated contains a holder that the code can put there.
THEOREM TypeCorrect == Spec => []TypeOK
<1>1. TypeOK /\ OneOwner => TypeOK
  OBVIOUS
<1> QED
  BY <1>1, BuffersOwned, PTL

-----------------------------------------------------------------------------

\* As long as no empty object is copied, no buffer contains a null_holder.
Filled == \A b \in Buffers : buffer[b] # Freed => buffer[b].held \in Values

\* What the users of all objects see.
Shown == [o \in Objects |-> Visible(o)]

\* What a constructed object shows is a content of Boxes.
LEMMA ShownContents ==
  ASSUME Inv, Filled, NEW p \in Objects, object[p].live
  PROVE  /\ Shown[p] \in Values \cup {Nothing, Moved}
         /\ Shown[p] # Unborn
         /\ object[p].size > 0 => Shown[p] = Content(p) /\ Content(p) \in Values
<1>1. CASE object[p].size > 0
  <2>1. /\ object[p].data \in Buffers /\ object[p].data # Static
        /\ Owns(p, object[p].data)
    BY <1>1 DEF Inv, StoreTypeOK, OneOwner, Object, Owns
  <2>2. Content(p) \in Values
    BY <2>1, OwnedBuffer DEF Inv, Filled, Content
  <2>3. Shown[p] = Content(p)
    BY <1>1 DEF Shown, Visible
  <2> QED
    BY <2>2, <2>3, NamesAssumption
<1>2. CASE ~(object[p].size > 0)
  <2>a. object[p].size \in Nat
    BY DEF Inv, StoreTypeOK, Object
  <2>1. object[p].size = 0
    BY <1>2, <2>a
  <2>2. Shown[p] \in {Nothing, Moved}
    BY <2>1 DEF Shown, Visible
  <2>3. Nothing # Unborn /\ Moved # Unborn
    BY NamesAssumption
  <2> QED
    BY <1>2, <2>2, <2>3
<1> QED
  BY <1>1, <1>2

\* An object shows the same as long as it and its buffer stay as they are.
LEMMA ShownSame ==
  ASSUME Inv, NEW q \in Objects, object'[q] = object[q],
         object[q].size > 0 => buffer'[object[q].data].held = buffer[object[q].data].held
  PROVE  Visible(q)' = Visible(q)
<1>1. object[q].size > 0 => object[q].data # Static
  BY DEF Inv, OneOwner
<1> QED
  BY <1>1 DEF Visible, Content

\* A new buffer changes what its owner shows, and nothing else.
LEMMA AllocateShows ==
  ASSUME Inv, Filled, NEW o \in Objects, NEW size \in Nat, NEW v \in Values,
         HolderSize[v] <= size, Allocate(o, size, v)
  PROVE  Filled' /\ Shown' = [Shown EXCEPT ![o] = v]
<1> DEFINE rest == WithoutBuffer(o)
<1>1. PICK b \in Buffers :
        /\ rest[b] = Freed
        /\ buffer' = [rest EXCEPT ![b] = [size |-> size, held |-> v]]
        /\ object' = [object EXCEPT ![o] = [live |-> TRUE, data |-> b, size |-> size]]
        /\ UNCHANGED fault
  BY DEF Allocate
<1>2. /\ rest \in [Buffers -> Buffer]
      /\ \A c \in Buffers : rest[c] # Freed <=> buffer[c] # Freed /\ ~Owns(o, c)
      /\ \A c \in Buffers : ~Owns(o, c) => rest[c] = buffer[c]
  BY Remaining
<1>3. size > 0
  BY SizesAssumption
<1> HIDE DEF rest
<1>4. Filled'
  BY <1>1, <1>2 DEF Filled
<1>5. Visible(o)' = v
  <2>1. object'[o] = [live |-> TRUE, data |-> b, size |-> size]
    BY <1>1 DEF Inv, StoreTypeOK
  <2>2. buffer'[b].held = v /\ b # Static
    BY <1>1, <1>2, NamesAssumption
  <2> QED
    BY <2>1, <2>2, <1>3 DEF Visible, Content
<1>6. ASSUME NEW q \in Objects, q # o
      PROVE  Visible(q)' = Visible(q)
  <2>1. object'[q] = object[q]
    BY <1>1, <1>6 DEF Inv, StoreTypeOK
  <2>2. ASSUME object[q].size > 0
        PROVE  buffer'[object[q].data].held = buffer[object[q].data].held
    <3>1. object[q].data \in Buffers /\ Owns(q, object[q].data)
      BY <2>2 DEF Inv, StoreTypeOK, OneOwner, Object, Owns
    <3>2. buffer[object[q].data] # Freed
      BY <3>1, OwnedBuffer DEF Inv
    <3>3. ~Owns(o, object[q].data)
      BY <3>1, <3>2, <1>6 DEF Inv, OneOwner
    <3>4. rest[object[q].data] = buffer[object[q].data] /\ object[q].data # b
      BY <3>1, <3>2, <3>3, <1>1, <1>2
    <3> QED
      BY <3>1, <3>4, <1>1, <1>2
  <2> QED
    BY <2>1, <2>2, ShownSame
<1> QED
  BY <1>4, <1>5, <1>6 DEF Shown

\* Neither does a holder that is constructed in a buffer of its own.
LEMMA PutInPlaceShows ==
  ASSUME Inv, Filled, NEW o \in Objects, NEW v \in Values,
         fault = "none", object[o].size > 0, PutInPlace(o, v)
  PROVE  /\ Filled'
         /\ IF fault' = "none" THEN Shown' = [Shown EXCEPT ![o] = v]
            ELSE UNCHANGED <<object, buffer>>
<1> DEFINE b == object[o].data
<1>1. b \in Buffers /\ b # Static /\ Owns(o, b) /\ object[o].live
  BY DEF Inv, StoreTypeOK, OneOwner, Object, Owns
<1>2. buffer[b] # Freed
  BY <1>1, OwnedBuffer DEF Inv
<1>3. CASE fault' # "none" /\ UNCHANGED <<object, buffer>>
  BY <1>3 DEF Filled
<1>4. CASE buffer' = [buffer EXCEPT ![b].held = v] /\ UNCHANGED <<object, fault>>
  <2>1. buffer[b] \in [size : Nat \ {0}, held : Held]
    BY <1>1, <1>2 DEF Inv, StoreTypeOK, Buffer
  <2>2. buffer'[b].held = v
    BY <1>1, <1>4, <2>1 DEF Inv, StoreTypeOK
  <2>3. \A c \in Buffers : c # b => buffer'[c] = buffer[c]
    BY <1>4 DEF Inv, StoreTypeOK
  <2>4. Filled'
    BY <2>2, <2>3 DEF Filled
  <2>5. Visible(o)' = v
    BY <1>1, <1>4, <2>2 DEF Visible, Content
  <2>6. ASSUME NEW q \in Objects, q # o
        PROVE  Visible(q)' = Visible(q)
    <3>1. ASSUME object[q].size > 0
          PROVE  buffer'[object[q].data].held = buffer[object[q].data].held
      <4>1. object[q].data \in Buffers /\ Owns(q, object[q].data)
        BY <3>1 DEF Inv, StoreTypeOK, OneOwner, Object, Owns
      <4>2. object[q].data # b
        BY <4>1, <1>1, <1>2, <2>6 DEF Inv, OneOwner
      <4> QED
        BY <4>1, <4>2, <2>3
    <3> QED
      BY <3>1, <1>4, ShownSame
  <2> QED
    BY <1>4, <2>4, <2>5, <2>6 DEF Shown
<1> QED
  BY <1>1, <1>2, <1>3, <1>4 DEF PutInPlace, Undefined

\* An assignment that does not stop the model fills the object.
LEMMA AssignShows ==
  ASSUME Inv, Filled, NEW o \in Objects, NEW size \in Nat, NEW v \in Values,
         fault = "none", size > 0, Assign(o, size, v)
  PROVE  /\ Filled'
         /\ IF fault' = "none" THEN Shown' = [Shown EXCEPT ![o] = v]
            ELSE UNCHANGED <<object, buffer>>
<1>1. CASE object[o].size >= size
  <2>a. object[o].size \in Nat
    BY DEF Inv, StoreTypeOK, Object
  <2>1. object[o].size > 0
    BY <1>1, <2>a
  <2> QED
    BY <1>1, <2>1, PutInPlaceShows DEF Assign
<1>2. CASE ~(object[o].size >= size) /\ size < HolderSize[v]
  BY <1>2 DEF Assign, Undefined, Filled
<1>3. CASE ~(object[o].size >= size) /\ ~(size < HolderSize[v])
  <2>1. HolderSize[v] \in Nat
    BY SizesAssumption
  <2>2. HolderSize[v] <= size
    BY <1>3, <2>1
  <2>3. Allocate(o, size, v)
    BY <1>3 DEF Assign
  <2>4. fault' = fault
    BY <2>3 DEF Allocate
  <2> QED
    BY <2>2, <2>3, <2>4, AllocateShows
<1> QED
  BY <1>1, <1>2, <1>3

\* A call that returns asks of Boxes what it asks of the implementation; one that
\* does not changes nothing that can be seen.
LEMMA ReturnedSame ==
  ASSUME NEW op, NEW o, NEW given, Returned(op, o, given)
  PROVE  IF fault' = "none" THEN Promise!Returned(op, o, given) ELSE call' = call
BY DEF Returned, Promise!Returned

\* A step of the implementation is one of Boxes, or changes nothing in them.
LEMMA NextShows ==
  ASSUME CopiesEmpty = FALSE, Inv, Filled, [Next]_vars
  PROVE  Filled' /\ [Promise!Next]_<<Shown, call>>
<1> USE DEF Live, New
<1>1. ASSUME UNCHANGED <<object, buffer>>
      PROVE  Filled' /\ Shown' = Shown
  BY <1>1 DEF Filled, Shown, Visible, Content
<1>2. ASSUME NEW o \in Objects, NEW v \in Values, Promise!Returned("fill", o, v),
             Shown' = [Shown EXCEPT ![o] = v]
      PROVE  Promise!Next
  BY <1>2 DEF Promise!Next, Promise!Fill, Shown
<1>3. ASSUME NEW o \in Objects, NEW p \in Objects, object[p].live,
             Promise!Returned("copy", o, p), Shown' = [Shown EXCEPT ![o] = Shown[p]]
      PROVE  Promise!Next
  <2>1. Shown[p] \in Promise!Contents /\ Shown[p] # Unborn
    BY <1>3, ShownContents DEF Promise!Contents
  <2>2. Promise!Copy(o, p)
    BY <1>3, <2>1 DEF Promise!Copy, Shown
  <2> QED
    BY <2>2 DEF Promise!Next
<1>4. ASSUME NEW o \in Objects, NEW p \in Objects, object[p].live,
             NEW rest \in Values \cup {Nothing, Moved}, Promise!Returned("move", o, p),
             Shown' = [Shown EXCEPT ![p] = rest, ![o] = Shown[p]]
      PROVE  Promise!Next
  <2>1. Shown[p] # Unborn
    BY <1>4, ShownContents
  <2>2. Promise!Move(o, p)
    BY <1>4, <2>1 DEF Promise!Move, Promise!Contents, Shown
  <2> QED
    BY <2>2 DEF Promise!Next
<1>5. ASSUME NEW o \in Objects, DefaultConstruct(o), Returned("clear", o, Nothing)
      PROVE  Filled' /\ Promise!Next
  <2>1. buffer' = buffer
    BY <1>5 DEF DefaultConstruct
  <2>2. \A q \in Objects : q # o => object'[q] = object[q]
    BY <1>5 DEF DefaultConstruct, Inv, StoreTypeOK
  <2>a. object'[o] = [Absent EXCEPT !.live = TRUE]
    BY <1>5 DEF DefaultConstruct, Inv, StoreTypeOK
  <2>3. object'[o].live /\ object'[o].data = Static /\ object'[o].size = 0
    BY <2>a DEF Absent
  <2>4. Visible(o)' = Nothing
    BY <2>3 DEF Visible
  <2>5. \A q \in Objects : q # o => Visible(q)' = Visible(q)
    BY <2>1, <2>2, ShownSame
  <2>b. Visible(o) = Unborn
    BY <1>5 DEF DefaultConstruct, Visible
  <2>6. Shown' = [Shown EXCEPT ![o] = Nothing] /\ Shown[o] = Unborn
    BY <2>4, <2>b, <2>5 DEF Shown
  <2>7. Promise!Returned("clear", o, Nothing)
    BY <1>5, ReturnedSame DEF DefaultConstruct
  <2>8. Promise!Clear(o)
    BY <2>6, <2>7 DEF Promise!Clear, Shown
  <2> QED
    BY <2>1, <2>8 DEF Filled, Promise!Next
<1>6. ASSUME NEW o \in Objects, Destroy(o), Returned("destroy", o, Nothing)
      PROVE  Filled' /\ Promise!Next
  <2>1. /\ \A b \in Buffers : buffer'[b] # Freed <=> buffer[b] # Freed /\ ~Owns(o, b)
        /\ \A b \in Buffers : ~Owns(o, b) => buffer'[b] = buffer[b]
    BY <1>6, Remaining DEF Destroy
  <2>2. \A q \in Objects : q # o => object'[q] = object[q]
    BY <1>6 DEF Destroy, Inv, StoreTypeOK
  <2>a. object'[o] = Absent
    BY <1>6 DEF Destroy, Inv, StoreTypeOK
  <2>3. Visible(o)' = Unborn
    BY <2>a DEF Visible, Absent
  <2>4. ASSUME NEW q \in Objects, q # o
        PROVE  Visible(q)' = Visible(q)
    <3>1. ASSUME object[q].size > 0
          PROVE  buffer'[object[q].data].held = buffer[object[q].data].held
      <4>1. object[q].data \in Buffers /\ Owns(q, object[q].data)
        BY <3>1 DEF Inv, StoreTypeOK, OneOwner, Object, Owns
      <4>2. ~Owns(o, object[q].data)
        BY <4>1, <2>4, OwnedBuffer DEF Inv, OneOwner
      <4> QED
        BY <4>1, <4>2, <2>1
    <3> QED
      BY <3>1, <2>2, <2>4, ShownSame
  <2>5. Shown' = [Shown EXCEPT ![o] = Unborn]
    BY <2>3, <2>4 DEF Shown
  <2>6. Filled'
    BY <2>1 DEF Filled
  <2>7. Promise!Returned("destroy", o, Nothing)
    BY <1>6, ReturnedSame DEF Destroy
  <2> QED
    BY <2>5, <2>6, <2>7 DEF Promise!Next, Promise!Destroy, Shown
<1>7. ASSUME NEW o \in Objects, NEW v \in Values, ValueConstruct(o, v), Returned("fill", o, v)
      PROVE  Filled' /\ Promise!Next
  <2>1. HolderSize[v] \in Nat /\ HolderSize[v] <= HolderSize[v]
    BY SizesAssumption
  <2>2. Promise!Returned("fill", o, v)
    BY <1>7, ReturnedSame DEF ValueConstruct, Allocate
  <2>3. Filled' /\ Shown' = [Shown EXCEPT ![o] = v]
    BY <1>7, <2>1, AllocateShows DEF ValueConstruct
  <2> QED
    BY <2>2, <2>3, <1>2
<1>8. ASSUME NEW o \in Objects, NEW v \in Values, ValueAssign(o, v), Returned("fill", o, v)
      PROVE  Filled' /\ [Promise!Next]_<<Shown, call>>
  <2>1. HolderSize[v] \in Nat /\ HolderSize[v] > 0
    BY SizesAssumption
  <2>2. Assign(o, HolderSize[v], v) /\ fault = "none"
    BY <1>8 DEF ValueAssign
  <2>3. /\ Filled'
        /\ IF fault' = "none" THEN Shown' = [Shown EXCEPT ![o] = v]
           ELSE UNCHANGED <<object, buffer>>
    BY <2>1, <2>2, AssignShows
  <2>4. IF fault' = "none" THEN Promise!Returned("fill", o, v) ELSE call' = call
    BY <1>8, ReturnedSame
  <2> QED
    BY <2>3, <2>4, <1>1, <1>2
<1>9. ASSUME NEW o \in Objects, NEW p \in Objects, MoveConstruct(o, p),
             Returned("move", o, p)
      PROVE  Filled' /\ Promise!Next
  <2>1. o # p /\ object[p].live /\ buffer' = buffer
    BY <1>9 DEF MoveConstruct
  <2>2. object' = [object EXCEPT ![o] = object[p], ![p].size = 0]
    BY <1>9 DEF MoveConstruct
  <2>3. \A q \in Objects : q \notin {o, p} => object'[q] = object[q]
    BY <2>2 DEF Inv, StoreTypeOK
  <2>4. object'[o] = object[p]
    BY <2>1, <2>2 DEF Inv, StoreTypeOK
  <2>a. object'[p] = [object[p] EXCEPT !.size = 0] /\ object[p] \in Object
    BY <2>1, <2>2 DEF Inv, StoreTypeOK
  <2>5. object'[p].live /\ object'[p].size = 0
    BY <2>a, <2>1 DEF Object
  <2>6. Visible(o)' = Visible(p)
    BY <2>1, <2>4 DEF Visible, Content
  <2>7. Visible(p)' \in {Nothing, Moved}
    BY <2>5 DEF Visible
  <2>8. \A q \in Objects : q \notin {o, p} => Visible(q)' = Visible(q)
    BY <2>1, <2>3, ShownSame
  <2>9. Shown' = [Shown EXCEPT ![p] = Visible(p)', ![o] = Shown[p]]
    BY <2>1, <2>6, <2>8 DEF Shown
  <2>10. Promise!Returned("move", o, p)
    BY <1>9, ReturnedSame DEF MoveConstruct
  <2> QED
    BY <2>1, <2>7, <2>9, <2>10, <1>4 DEF Filled
<1>10. ASSUME NEW o \in Objects, NEW p \in Objects, CopyConstruct(o, p),
              Returned("copy", o, p)
       PROVE  Filled' /\ Promise!Next
  <2>1. object[p].size > 0 /\ o # p /\ object[p].live
    BY <1>10 DEF CopyConstruct
  <2>2. Allocate(o, object[p].size, Content(p))
    BY <1>10, <2>1 DEF CopyConstruct
  <2>3. /\ Content(p) \in Values /\ object[p].size \in Nat
        /\ HolderSize[Content(p)] <= object[p].size
    BY <2>1, OwnerHolds, ShownContents
  <2>4. Filled' /\ Shown' = [Shown EXCEPT ![o] = Shown[p]]
    BY <2>1, <2>2, <2>3, AllocateShows, ShownContents
  <2>5. Promise!Returned("copy", o, p)
    BY <1>10, <2>2, ReturnedSame DEF CopyConstruct, Allocate
  <2> QED
    BY <2>1, <2>4, <2>5, <1>3
<1>11. ASSUME NEW o \in Objects, NEW p \in Objects, MoveAssign(o, p),
              Returned("move", o, p)
       PROVE  Filled' /\ Promise!Next
  <2>1. /\ object[o].live /\ object[p].live /\ buffer' = buffer
        /\ object' = [object EXCEPT ![o] = object[p], ![p] = object[o]]
    BY <1>11 DEF MoveAssign
  <2>2. object'[o] = object[p] /\ object'[p] = object[o]
    BY <2>1 DEF Inv, StoreTypeOK
  <2>3. \A q \in Objects : q \notin {o, p} => object'[q] = object[q]
    BY <2>1 DEF Inv, StoreTypeOK
  <2>a. ASSUME NEW q \in Objects, NEW r \in Objects, object'[q] = object[r]
        PROVE  Visible(q)' = Visible(r)
    <3>1. buffer' = buffer
      BY <2>1
    <3>2. Content(q)' = Content(r)
      BY <2>a, <3>1 DEF Content
    <3> QED
      BY <2>a, <3>2 DEF Visible
  <2>4. Visible(o)' = Visible(p) /\ Visible(p)' = Visible(o)
    BY <2>2, <2>a
  <2>5. \A q \in Objects : q \notin {o, p} => Visible(q)' = Visible(q)
    BY <2>1, <2>3, ShownSame
  <2>6. Shown' = [Shown EXCEPT ![p] = Shown[o], ![o] = Shown[p]]
    BY <2>4, <2>5 DEF Shown
  <2>7. Shown[o] \in Values \cup {Nothing, Moved}
    BY <2>1, ShownContents
  <2>8. Promise!Returned("move", o, p)
    BY <1>11, ReturnedSame DEF MoveAssign
  <2> QED
    BY <2>1, <2>6, <2>7, <2>8, <1>4 DEF Filled
<1>12. ASSUME NEW o \in Objects, NEW p \in Objects, CopyAssign(o, p),
              Returned("copy", o, p)
       PROVE  Filled' /\ [Promise!Next]_<<Shown, call>>
  <2>1. /\ object[p].live /\ fault = "none"
        /\ IF fault' = "none" THEN Promise!Returned("copy", o, p) ELSE call' = call
    BY <1>12, ReturnedSame DEF CopyAssign
  <2>2. CASE o = p
    <3>1. UNCHANGED <<object, buffer, fault>>
      BY <1>12, <2>2 DEF CopyAssign
    <3>2. Shown' = [Shown EXCEPT ![o] = Shown[p]]
      BY <3>1, <1>1, <2>2 DEF Shown
    <3> QED
      BY <3>1, <3>2, <2>1, <1>1, <1>3
  <2>3. CASE o # p /\ Undefined("dangling pointer")
    BY <2>1, <2>3, <1>1 DEF Undefined
  <2>4. CASE o # p /\ Assign(o, SizeOf[Content(p)], Content(p))
    <3>1. object[p].size > 0
      BY <1>12, <2>4 DEF CopyAssign
    <3>2. Content(p) \in Values /\ Content(p) = Shown[p]
      BY <2>1, <3>1, ShownContents
    <3>3. SizeOf[Content(p)] \in Nat /\ SizeOf[Content(p)] > 0
      BY <3>2, SizesAssumption
    <3>4. /\ Filled'
          /\ IF fault' = "none" THEN Shown' = [Shown EXCEPT ![o] = Content(p)]
             ELSE UNCHANGED <<object, buffer>>
      BY <2>1, <2>4, <3>2, <3>3, AssignShows
    <3> QED
      BY <2>1, <3>2, <3>4, <1>1, <1>3
  <2> QED
    BY <1>12, <2>2, <2>3, <2>4 DEF CopyAssign
<1>13. CASE Stop \/ UNCHANGED vars
  BY <1>13, <1>1 DEF Stop, vars
<1> QED
  BY <1>5, <1>6, <1>7, <1>8, <1>9, <1>10, <1>11, <1>12, <1>13 DEF Next

\* For every number of objects and every layout of the values, any_state keeps
\* what Boxes promises, if no empty object is copied: what an object shows after a
\* call is what the call asks for (any_state.hpp:47-109).
THEOREM ImplementsBoxes ==
  ASSUME CopiesEmpty = FALSE
  PROVE  Spec => Implements
<1>1. Init => Inv /\ Filled /\ Promise!Init
  <2>1. Init => Filled
    BY DEF Init, Filled
  <2>2. Init => Promise!Init
    BY DEF Init, Promise!Init, Promise!NoCall, NoCall, Visible, Absent
  <2> QED
    BY <2>1, <2>2, InitInv
<1>2. Inv /\ Filled /\ [Next]_vars => Inv' /\ Filled' /\ [Promise!Next]_<<Shown, call>>
  BY NextInv, NextShows
<1> QED
  BY <1>1, <1>2, PTL DEF Spec, Implements, Promise!Spec, Shown
=============================================================================

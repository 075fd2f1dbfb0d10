------------------------------ MODULE AnyState ------------------------------
(***************************************************************************)
(* any_state: a value of any type behind a pointer to a buffer that is     *)
(* kept and reused when another value is assigned (any_state.hpp).         *)
(*                                                                         *)
(* size_ is the size of the buffer an object owns, and 0 for an object     *)
(* that owns none: its data_ is then the static null_holder, or still the  *)
(* buffer that was moved out of it.                                        *)
(*                                                                         *)
(* A step that the language leaves undefined sets fault to its reason, and *)
(* the model stops.                                                        *)
(*                                                                         *)
(* call is not in the code: it remembers what the program asked for last,  *)
(* for the comparison with Boxes.                                          *)
(***************************************************************************)
EXTENDS Integers

CONSTANTS
  Objects, Values, Nothing, Moved, Unborn,   \* see Boxes
  Buffers,      \* the buffers of the heap
  Static,       \* null_holder_storage
  SizeOf,       \* sizeof(T) for the type of every value
  HolderSize,   \* sizeof(holder<T>), and of null_holder for Nothing
  CopiesEmpty   \* whether the program copies objects that own no buffer

Held == Values \cup {Nothing}

ASSUME NamesAssumption ==
  /\ Static \notin Buffers
  /\ {Nothing, Moved, Unborn} \cap Values = {}
  /\ Nothing # Moved /\ Nothing # Unborn /\ Moved # Unborn
  /\ CopiesEmpty \in BOOLEAN

\* holder<T> has a table of virtual functions besides the value.
ASSUME SizesAssumption ==
  /\ SizeOf \in [Held -> Nat] /\ HolderSize \in [Held -> Nat \ {0}]
  /\ SizeOf[Nothing] = 0
  /\ \A v \in Values : /\ SizeOf[v] > 0 /\ SizeOf[v] < HolderSize[v]
                       /\ HolderSize[Nothing] <= HolderSize[v]

VARIABLES
  object,   \* data_ and size_ of every object, and whether it is constructed
  buffer,   \* size and content of every buffer; size 0: not allocated
  fault,    \* "none", or why anything may happen from now on
  call      \* the last call that has returned: see Boxes

vars == <<object, buffer, fault, call>>

Object == [live : BOOLEAN, data : Buffers \cup {Static}, size : Nat]

Absent == [live |-> FALSE, data |-> Static, size |-> 0]
Freed  == [size |-> 0, held |-> Unborn]

Buffer == [size : Nat \ {0}, held : Held] \cup {Freed}

NoCall == [op |-> "none", odd |-> FALSE]

Call == [op : {"clear", "fill", "copy", "move", "destroy"}, to : Objects,
         given : Held \cup Objects, odd : BOOLEAN] \cup {NoCall}

Init ==
  /\ object = [o \in Objects |-> Absent]
  /\ buffer = [b \in Buffers |-> Freed]
  /\ fault = "none"
  /\ call = NoCall

\* content(): the holder that data_ points to; Unborn if there is none.
Content(o) ==
  IF object[o].data = Static THEN Nothing ELSE buffer[object[o].data].held

Undefined(reason) == fault' = reason /\ UNCHANGED <<object, buffer>>

Live(o) == fault = "none" /\ object[o].live
New(o)  == fault = "none" /\ ~object[o].live

\* ~any_state and realloc_ destroy and free the buffer that an object owns.
WithoutBuffer(o) ==
  IF object[o].size > 0 THEN [buffer EXCEPT ![object[o].data] = Freed] ELSE buffer

\* Object o gets a buffer of that size, with v in it; what it had is freed.
Allocate(o, size, v) ==
  \E b \in Buffers :
    /\ WithoutBuffer(o)[b] = Freed
    /\ buffer' = [WithoutBuffer(o) EXCEPT ![b] = [size |-> size, held |-> v]]
    /\ object' = [object EXCEPT ![o] = [live |-> TRUE, data |-> b, size |-> size]]
    /\ UNCHANGED fault

-----------------------------------------------------------------------------

DefaultConstruct(o) ==
  /\ New(o)
  /\ object' = [object EXCEPT ![o] = [Absent EXCEPT !.live = TRUE]]
  /\ UNCHANGED <<buffer, fault>>

ValueConstruct(o, v) == New(o) /\ Allocate(o, HolderSize[v], v)

MoveConstruct(o, p) ==
  /\ New(o) /\ Live(p)
  /\ object' = [object EXCEPT ![o] = object[p], ![p].size = 0]
  /\ UNCHANGED <<buffer, fault>>

\* Without a buffer to copy, the new one is a null pointer.
CopyConstruct(o, p) ==
  /\ New(o) /\ Live(p)
  /\ IF object[p].size > 0
     THEN Allocate(o, object[p].size, Content(p))
     ELSE CopiesEmpty /\ Undefined("null pointer")

MoveAssign(o, p) ==
  /\ Live(o) /\ Live(p)
  /\ object' = [object EXCEPT ![o] = object[p], ![p] = object[o]]
  /\ UNCHANGED <<buffer, fault>>

\* The holder v goes into the buffer that data_ points to.
PutInPlace(o, v) ==
  LET b == object[o].data IN
  CASE b = Static -> UNCHANGED <<object, buffer, fault>>
    [] b # Static /\ buffer[b] = Freed -> Undefined("dangling pointer")
    [] b # Static /\ buffer[b] # Freed /\ buffer[b].size < HolderSize[v] ->
         Undefined("overflow")
    [] OTHER -> /\ buffer' = [buffer EXCEPT ![b].held = v]
                /\ UNCHANGED <<object, fault>>

\* realloc_(size), then v is constructed in the buffer.
Assign(o, size, v) ==
  IF object[o].size >= size THEN PutInPlace(o, v)
  ELSE IF size < HolderSize[v] THEN Undefined("overflow")
  ELSE Allocate(o, size, v)

\* Mutant: a buffer is reused without looking at its size.
AssignReusing(o, v) ==
  /\ Live(o)
  /\ IF object[o].size > 0
     THEN /\ buffer' = [buffer EXCEPT ![object[o].data].held = v]
          /\ UNCHANGED <<object, fault>>
     ELSE Allocate(o, HolderSize[v], v)

\* Mutant: a buffer that is large enough is kept, with the old value in it.
AssignKeeping(o, v) ==
  /\ Live(o)
  /\ IF object[o].size >= HolderSize[v] THEN UNCHANGED <<object, buffer, fault>>
     ELSE Allocate(o, HolderSize[v], v)

ValueAssign(o, v) == Live(o) /\ Assign(o, HolderSize[v], v)

\* Mutant: the buffer is taken over instead of cloned.
CopyAssignSharing(o, p) ==
  /\ Live(o) /\ Live(p) /\ o # p /\ object[p].size > 0
  /\ object' = [object EXCEPT ![o].data = object[p].data]
  /\ UNCHANGED <<buffer, fault>>

\* size() of the holder is the size of its value alone.  A source that has been
\* moved from may look at what realloc_ has just destroyed.
CopyAssign(o, p) ==
  /\ Live(o) /\ Live(p)
  /\ o = p \/ object[p].size > 0 \/ CopiesEmpty
  /\ IF o = p THEN UNCHANGED <<object, buffer, fault>>
     ELSE IF Content(p) = Unborn \/ (object[o].size > 0 /\ object[o].data = object[p].data)
     THEN Undefined("dangling pointer")
     ELSE Assign(o, SizeOf[Content(p)], Content(p))

\* Mutant: the holder is destroyed, but its buffer is not deleted.
DestroyHolder(o) ==
  /\ Live(o)
  /\ buffer' = IF object[o].size > 0
               THEN [buffer EXCEPT ![object[o].data].held = Unborn] ELSE buffer
  /\ object' = [object EXCEPT ![o] = Absent]
  /\ UNCHANGED fault

Destroy(o) ==
  /\ Live(o)
  /\ buffer' = WithoutBuffer(o)
  /\ object' = [object EXCEPT ![o] = Absent]
  /\ UNCHANGED fault

Stop == fault # "none" /\ UNCHANGED vars

\* The program sees the call return, unless it is undefined.
Returned(op, o, given) ==
  call' = IF fault' # "none" THEN call
          ELSE [op |-> op, to |-> o, given |-> given, odd |-> ~call.odd]

Next ==
  \/ Stop
  \/ \E o \in Objects :
       \/ DefaultConstruct(o) /\ Returned("clear", o, Nothing)
       \/ Destroy(o) /\ Returned("destroy", o, Nothing)
       \/ \E v \in Values :
            \/ ValueConstruct(o, v) /\ Returned("fill", o, v)
            \/ ValueAssign(o, v) /\ Returned("fill", o, v)
       \/ \E p \in Objects :
            \/ MoveConstruct(o, p) /\ Returned("move", o, p)
            \/ MoveAssign(o, p) /\ Returned("move", o, p)
            \/ CopyConstruct(o, p) /\ Returned("copy", o, p)
            \/ CopyAssign(o, p) /\ Returned("copy", o, p)

Spec == Init /\ [][Next]_vars

-----------------------------------------------------------------------------

\* The types of what the code keeps.
StoreTypeOK ==
  /\ object \in [Objects -> Object]
  /\ buffer \in [Buffers -> Buffer]
  /\ fault \in {"none", "overflow", "null pointer", "dangling pointer"}

\* The values of every variable have the types that the code gives them: a
\* buffer that is allocated contains a holder.
TypeOK == StoreTypeOK /\ call \in Call

Owns(o, b) == object[o].size > 0 /\ object[o].data = b

\* Every buffer has one owner, which knows its size, and contains a holder that
\* fits: nothing is leaked and nothing will be destroyed or freed twice.
OneOwner ==
  /\ \A o \in Objects :
       object[o].size > 0 => /\ object[o].live
                             /\ object[o].data # Static
                             /\ buffer[object[o].data].size = object[o].size
  /\ \A b \in Buffers :
       buffer[b] # Freed =>
         /\ HolderSize[buffer[b].held] <= buffer[b].size
         /\ \E o \in Objects : Owns(o, b)
         /\ \A o, p \in Objects : Owns(o, b) /\ Owns(p, b) => o = p

\* What the user of an object sees in it.
Visible(o) ==
  CASE ~object[o].live -> Unborn
    [] object[o].live /\ object[o].size > 0 -> Content(o)
    [] object[o].live /\ object[o].size = 0 ->
         IF object[o].data = Static THEN Nothing ELSE Moved

Promise == INSTANCE Boxes WITH box <- [o \in Objects |-> Visible(o)]

\* The objects behave as boxes: each shows the value that it was given last, by
\* a constructor or an assignment, or what was copied or moved into it
\* (any_state.hpp:47-109); a value that is lost, mistaken for another or left as
\* it was is not what the call asks for.  What happens to the other objects,
\* with their buffers reused, swapped and freed, changes nothing about that.
Implements == Promise!Spec

\* any_state holds any value (any_state.hpp:28): the storage it provides for a
\* value is large enough.  See any_state_overflow.
HoldsAnyValue == fault # "overflow"
=============================================================================

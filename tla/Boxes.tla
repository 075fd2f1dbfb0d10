------------------------------- MODULE Boxes --------------------------------
(***************************************************************************)
(* What any_state promises: every object is a box of its own that holds a  *)
(* value of any type, or nothing.  No storage, no sizes, no pointers.      *)
(*                                                                         *)
(* call is the last call that has returned: what was done to which object, *)
(* and the value or the other object that was given to it.  It is part of  *)
(* what is promised: an implementation has to show what was asked of it.   *)
(***************************************************************************)
CONSTANTS
  Objects,   \* the variables of the program
  Values,    \* what the boxes may hold
  Nothing,   \* the content of an empty box
  Moved,     \* the content of a box that something was moved out of
  Unborn     \* no box: not constructed yet, or destroyed

VARIABLES box, call

Contents == Values \cup {Nothing, Moved}

NoCall == [op |-> "none", odd |-> FALSE]

Init == box = [o \in Objects |-> Unborn] /\ call = NoCall

\* odd tells a call from the same call made once more.
Returned(op, o, given) ==
  call' = [op |-> op, to |-> o, given |-> given, odd |-> ~call.odd]

\* A new box is empty.
Clear(o) ==
  /\ box[o] = Unborn
  /\ box' = [box EXCEPT ![o] = Nothing]
  /\ Returned("clear", o, Nothing)

\* A constructor or an assignment puts the value that it is given into the box.
Fill(o, v) == box' = [box EXCEPT ![o] = v] /\ Returned("fill", o, v)

\* The copy holds what the original holds, and the original keeps it.  What a
\* copy of a moved box holds is not specified.
Copy(o, p) ==
  /\ box[p] # Unborn
  /\ \E v \in Contents :
       /\ v = box[p] \/ (box[p] = Moved /\ o # p)
       /\ box' = [box EXCEPT ![o] = v]
  /\ Returned("copy", o, p)

\* The content moves; what stays behind is not specified.
Move(o, p) ==
  /\ box[p] # Unborn
  /\ \E rest \in Contents : box' = [box EXCEPT ![p] = rest, ![o] = box[p]]
  /\ Returned("move", o, p)

Destroy(o) ==
  /\ box' = [box EXCEPT ![o] = Unborn]
  /\ Returned("destroy", o, Nothing)

Next ==
  \E o \in Objects :
    \/ Clear(o) \/ Destroy(o)
    \/ \E v \in Values : Fill(o, v)
    \/ \E p \in Objects : Copy(o, p) \/ Move(o, p)

Spec == Init /\ [][Next]_<<box, call>>
=============================================================================

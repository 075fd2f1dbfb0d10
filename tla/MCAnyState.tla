----------------------------- MODULE MCAnyState -----------------------------
(***************************************************************************)
(* AnyState for TLC: values of three types as a 64-bit compiler lays them  *)
(* out, of which the second is larger than the first, but not than its     *)
(* holder.                                                                 *)
(***************************************************************************)
EXTENDS AnyState, TLC

CONSTANTS int, pair, string

Sizes == (int :> 4) @@ (pair :> 16) @@ (string :> 32) @@ (Nothing :> 0)

HolderSizes == (int :> 16) @@ (pair :> 24) @@ (string :> 40) @@ (Nothing :> 8)

\* Neither objects nor buffers are told apart by anything but their use.
Symmetry == Permutations(Objects) \cup Permutations(Buffers)
=============================================================================

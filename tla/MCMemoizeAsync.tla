--------------------------- MODULE MCMemoizeAsync ---------------------------
(***************************************************************************)
(* Instances of MemoizeAsync for TLC: four calls on three keys, a cache of *)
(* two entries, so that flights are joined, evicted, cleared and expire    *)
(* while they are pending.  Calls and keys are interchangeable.            *)
(***************************************************************************)
EXTENDS MemoizeAsync, TLC

Symmetry == Permutations(Call) \cup Permutations(Key)
=============================================================================

----------------------------- MODULE Positions -----------------------------
(***************************************************************************)
(* The elements of a list at some of its positions, in the order of the    *)
(* list: what a loop that copies the elements it wants, or erases those it *)
(* does not want, leaves of a std::vector.  The standard SelectSeq says    *)
(* the same, but the proofs need a definition that they can expand.        *)
(***************************************************************************)
EXTENDS Integers, FiniteSets

\* The element at the k-th of the positions to keep, for every k.
KeepPositions(list, keep) ==
  [k \in 1..Cardinality(keep) |->
     list[CHOOSE i \in keep : Cardinality({j \in keep : j <= i}) = k]]
=============================================================================

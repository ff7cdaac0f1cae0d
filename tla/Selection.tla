------------------------------ MODULE Selection -----------------------------
(***************************************************************************)
(* What a loop keeps of a list: Rust's filter and partition, and a loop    *)
(* that pushes some elements of one list onto another.                     *)
(*                                                                         *)
(* SelectSeq takes a test, and no prover can instantiate a theorem about   *)
(* tests; here the elements are named by their positions, as a set.        *)
(***************************************************************************)
EXTENDS Integers, Sequences

\* The elements of s at the positions in I, in their order.
At(s, I) ==
  LET kept[n \in 0..Len(s)] ==
        IF n = 0 THEN <<>>
        ELSE IF n \in I THEN Append(kept[n - 1], s[n])
        ELSE kept[n - 1]
  IN  kept[Len(s)]

=============================================================================

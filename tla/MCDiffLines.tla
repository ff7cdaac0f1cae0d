----------------------------- MODULE MCDiffLines ----------------------------
(* Instances of DiffLines for TLC. Files meet only in the digest's budget, *)
(* so three of them are enough: one takes its share, one what is left of   *)
(* it, and one lies beyond max_files.                                      *)
EXTENDS DiffLines

\* An emptied file, the first line, hunks further on; 12 can lose a digit.
SomeStarts == {0, 1, 3, 12}

=============================================================================

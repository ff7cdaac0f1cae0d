----------------------------- MODULE FindingScan ----------------------------
(***************************************************************************)
(* How salvage_pr_review reads an answer that serde refused, most often    *)
(* one that was cut off (output_validator.rs): scan_findings takes the     *)
(* objects of the findings array that are complete, json_string_field a    *)
(* string that is terminated.                                              *)
(*                                                                         *)
(* A text is a sequence of the characters these scans tell apart; "x" is   *)
(* any other. What Findings calls the findings of a broken answer are the  *)
(* objects found here that serde accepts one by one.                       *)
(***************************************************************************)
EXTENDS Selection

\* { } [ ] " \ and the others.
Chars == {"lbrace", "rbrace", "lbracket", "rbracket", "quote", "backslash", "x"}

\* The state of the scan behind the array's "[": at says where it stands, in a
\* string (in_str) or behind its backslash (in_str and esc) included; start is
\* where the object it is in began, found the objects so far, by their first
\* and last character.
Between(found) == [at |-> "between", depth |-> 0, start |-> 0, found |-> found]

\* The character c at position i.
Step(s, c, i) ==
  CASE s.at = "between" /\ c = "lbrace" ->
         [s EXCEPT !.at = "object", !.depth = 1, !.start = i]
    [] s.at = "between" /\ c = "rbracket" -> [s EXCEPT !.at = "end"]
    [] s.at = "object" /\ c = "quote" -> [s EXCEPT !.at = "string"]
    [] s.at = "object" /\ c = "lbrace" -> [s EXCEPT !.depth = @ + 1]
    [] s.at = "object" /\ c = "rbrace" ->
         IF s.depth > 1 THEN [s EXCEPT !.depth = @ - 1]
         ELSE Between(Append(s.found, <<s.start, i>>))
    [] s.at = "string" /\ c = "backslash" -> [s EXCEPT !.at = "escape"]
    [] s.at = "string" /\ c = "quote" -> [s EXCEPT !.at = "object"]
    [] s.at = "escape" -> [s EXCEPT !.at = "string"]
    [] OTHER -> s

\* Where the scan of t stands behind each of its characters, from state s on.
Scan(s, t) ==
  LET state[n \in 0..Len(t)] ==
        IF n = 0 THEN s ELSE Step(state[n - 1], t[n], n)
  IN  state

scan_findings(t) == Scan(Between(<<>>), t)[Len(t)].found

\* The value behind its first quote: terminated by the next that is not escaped.
json_string_field(t) ==
  \E n \in 0..Len(t) : Scan([Between(<<>>) EXCEPT !.at = "string"], t)[n].at = "object"

-----------------------------------------------------------------------------
(* Reference: JSON objects as they are written, and cut.                   *)

CONSTANTS
  Objects,     \* JSON objects
  Strings,     \* what stands between the quotes of JSON strings
  MaxObjects   \* bound: findings in an answer

\* The array's first k elements with their commas.
Elements(os) ==
  LET text[k \in 0..Len(os)] ==
        IF k = 0 THEN <<>> ELSE text[k - 1] \o os[k] \o <<"x">>
  IN  text

\* The whole array, its end, and a field behind it.
Written(os) ==
  Elements(os)[Len(os)] \o <<"rbracket", "x", "lbrace", "x", "rbrace">>

\* Where each object is.
Ranges(os) ==
  [k \in DOMAIN os |-> <<Len(Elements(os)[k - 1]) + 1, Len(Elements(os)[k]) - 1>>]

Complete(os, n) == At(Ranges(os), {k \in DOMAIN os : Ranges(os)[k][2] <= n})

\* "Recovers every complete finding object before the cut" (salvage_pr_review):
\* wherever an answer is cut, the objects written up to there are found, and
\* nothing else is, whatever braces and quotes their strings hold; and a canary
\* is read if and only if it is there to its end.
SalvageExact ==
  /\ \A os \in UNION {[1..k -> Objects] : k \in 0..MaxObjects} :
       \A n \in 0..Len(Written(os)) : scan_findings(SubSeq(Written(os), 1, n)) = Complete(os, n)
  /\ \A s \in Strings : \A n \in 0..Len(s) :
       /\ ~json_string_field(SubSeq(s, 1, n))
       /\ json_string_field(s \o <<"quote">>)

=============================================================================

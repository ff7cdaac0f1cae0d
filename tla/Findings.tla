------------------------------ MODULE Findings ------------------------------
(***************************************************************************)
(* What output_validator.rs makes of a model's answer: the strict path     *)
(* (validate), the lenient one (salvage), and the merge of several passes  *)
(* (dedup).                                                                *)
(*                                                                         *)
(* An answer is what its text holds for this code: whether serde accepts   *)
(* the object, whether a canary can be read and is the right one, whether  *)
(* its summary is over its limit, and the finding objects that are         *)
(* complete, in their order.                                               *)
(***************************************************************************)
EXTENDS Selection, SequencesExt

CONSTANT MAX_ITEMS  \* findings a review may hold (30)

\* The line of a finding without one, or without a file of the diff.
NoLine == -1

\* sev is severity_rank: 0 high, 1 medium, 2 low, 3 anything else; text
\* stands for category and description; over for what is over its limit: the
\* description, or (only) one of category, file and severity.
IsFinding(f) ==
  /\ DOMAIN f = {"sev", "line", "text", "over"}
  /\ f.sev \in 0..3 /\ f.line \in Nat \cup {NoLine}
  /\ f.over \in {"nothing", "description", "field"}

IsAnswer(a) ==
  /\ DOMAIN a = {"json", "canary", "summary", "findings"}
  /\ a.json \in {"whole", "broken"}
  /\ a.canary \in {"right", "wrong", "none"}
  /\ a.summary \in {"short", "long"}
  /\ a.findings \in Seq(ToSet(a.findings))
  /\ \A i \in DOMAIN a.findings : IsFinding(a.findings[i])

\* dedup_findings compares file, line, category and the description's
\* beginning, not the severity.
Key(f) == <<f.line, f.text>>

\* The elements of s at the positions I, by severity, otherwise in order.
\* sort_by_key is stable.
BySeverity(s, I) ==
  LET Ranked(v) == At(s, {i \in I : s[i].sev = v})
  IN  Ranked(0) \o Ranked(1) \o Ranked(2) \o Ranked(3)

FirstSeen(s) == {i \in DOMAIN s : \A j \in 1..i-1 : Key(s[j]) # Key(s[i])}

Truncate(s) == IF Len(s) <= MAX_ITEMS THEN s ELSE SubSeq(s, 1, MAX_ITEMS)

\* MUTANT of dedup_findings: cut before it is sorted.
dedup_cut_first(s) ==
  LET t == Truncate(s) IN BySeverity(t, FirstSeen(t))

dedup_findings(s) == Truncate(BySeverity(s, FirstSeen(s)))

validates(a) ==
  /\ a.json = "whole" /\ a.canary = "right"
  /\ Len(a.findings) <= MAX_ITEMS
  /\ \A i \in DOMAIN a.findings : a.findings[i].over = "nothing"
  /\ a.summary = "short"

\* MUTANT of salvages: the canary is taken for granted.
salvages_anything(a) == a.canary # "none"

\* Whatever serde or the limits refused, if the canary is there.
salvages(a) == a.canary = "right"

\* Only the description is measured: an oversized category, file or severity
\* passes, and so does the summary.
salvage_pr_review(a) ==
  LET out == dedup_findings(a.findings)
  IN  At(out, {i \in DOMAIN out : out[i].over # "description"})

\* validate_pr_review(raw).or_else(salvage_pr_review(raw)).
Usable(a) == validates(a) \/ salvages(a)

FindingsOf(a) ==
  IF validates(a) THEN BySeverity(a.findings, DOMAIN a.findings)
  ELSE salvage_pr_review(a)

=============================================================================

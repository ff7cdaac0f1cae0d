-------------------------- MODULE MCTriageComments --------------------------
(* Instances of TriageComments for TLC.                                    *)
EXTENDS TriageComments, TLC

CONSTANTS j1, j2, j3

Old(w, t) == [author |-> w, text |-> t, writer |-> NoJob, st |-> "there"]

\* A new issue.
Fresh == {<<>>}

\* A new issue, one where earlier races left three triage comments, one of an
\* old release, behind a bot's comment, one where a bot's look-alike is older
\* than nogent's comment.
Inherited ==
  {<<>>,
   <<Old("bot", "other"), Old("nogent", "legacy"), Old("nogent", "fallback"),
     Old("nogent", "triage")>>,
   <<Old("bot", "quote"), Old("nogent", "triage")>>}

Symmetry == Permutations(Jobs)

=============================================================================

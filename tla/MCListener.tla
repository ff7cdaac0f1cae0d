----------------------------- MODULE MCListener -----------------------------
(* Instances of Listener for TLC.                                          *)
EXTENDS Listener

CONSTANTS d1, d2, d3, main, other, badname, org, stranger

OnlyMain == {main}
AllRepos == {main, other, badname}

MCOwner == [r \in Repos |-> CASE r = main -> org [] r = other -> stranger
                              [] OTHER -> NoOwner]
MCInstallation == [r \in Repos |-> IF r = other THEN 2 ELSE 1]
OrgOnly == {org}
Anyone == {}
InstallationOne == {1}

Event(r, event, action) ==
  [signed |-> TRUE, event |-> event, parses |-> TRUE, repo |-> r, action |-> action,
   draft |-> FALSE, bot |-> FALSE, on_pr |-> event = "issue_comment",
   command |-> event = "issue_comment"]

Opened == Event(main, "pull_request", "opened")
Asked == Event(main, "issue_comment", "created")
Filed == Event(main, "issues", "opened")

\* Every way an event can fail a filter, one at a time.
EveryPayload ==
  {Opened, Asked, Filed,
   [Opened EXCEPT !.signed = FALSE], [Opened EXCEPT !.event = "ping"],
   [Opened EXCEPT !.event = "other"], [Opened EXCEPT !.parses = FALSE],
   [Opened EXCEPT !.draft = TRUE], [Opened EXCEPT !.bot = TRUE],
   [Opened EXCEPT !.action = "synchronize"], [Opened EXCEPT !.repo = badname],
   [Opened EXCEPT !.repo = other], [Asked EXCEPT !.bot = TRUE],
   [Asked EXCEPT !.command = FALSE], [Asked EXCEPT !.on_pr = FALSE],
   [Asked EXCEPT !.action = "deleted"], [Asked EXCEPT !.repo = other],
   [Filed EXCEPT !.on_pr = TRUE], [Filed EXCEPT !.action = "closed"],
   [Filed EXCEPT !.repo = other], [Filed EXCEPT !.parses = FALSE]}

\* Two kinds that take different paths through the task, and a skipped one.
CrowdPayloads == {Opened, [Opened EXCEPT !.draft = TRUE]}

Json(e, p, i) == [form |-> "json", enabled |-> e, pr_review |-> p, issue_triage |-> i]
Absent == [form |-> "absent", enabled |-> FALSE, pr_review |-> FALSE, issue_triage |-> FALSE]
Malformed == [Absent EXCEPT !.form = "malformed"]

EveryConfig == {Absent, Malformed, Json(TRUE, TRUE, TRUE), Json(FALSE, TRUE, TRUE),
                Json(TRUE, FALSE, TRUE), Json(TRUE, TRUE, FALSE)}
OnConfig == {Absent}

=============================================================================

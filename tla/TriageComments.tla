--------------------------- MODULE TriageComments ---------------------------
(***************************************************************************)
(* The comments of one issue, and the triage jobs (triage.rs) that write   *)
(* them through GitHub's REST API (github_client.rs).                      *)
(*                                                                         *)
(* A job keeps nothing between two runs: what it did before, it learns by  *)
(* listing the issue's comments and recognising its own. Several jobs may  *)
(* run for one issue (opened, reopened, a redelivery), in this process or  *)
(* in nono workers, and nothing orders them. Every call may fail, may take *)
(* effect although its answer is lost, and may land after the job that     *)
(* sent it has given up on it.                                             *)
(*                                                                         *)
(* The thread is append-only: comment i is the i-th ever written, and a    *)
(* deletion only changes its st.                                           *)
(***************************************************************************)
EXTENDS Integers, Sequences, FiniteSets

CONSTANTS
  Jobs,       \* the triage jobs for this issue, one per accepted delivery
  NoJob,      \* the writer of a comment no modelled job has written
  Slots,      \* MAX_CONCURRENT_JOBS
  PageSize,   \* per_page of list_issue_comments (100)
  Histories,  \* threads the issue may have before the first job
  MaxOthers   \* bound: comments by people and other bots

\* What a comment's text holds: triage has the marker and the heading,
\* fallback the marker alone, legacy (before there was a marker) the heading
\* alone, quote whatever it quotes, other neither.
Texts == {"triage", "fallback", "legacy", "quote", "other"}

Comment == [author : {"nogent", "person", "bot"}, text : Texts,
            writer : Jobs \cup {NoJob}, st : {"there", "removed", "moderated"}]

\* Who writes what: a person may quote, another bot may have anything.
Plausible(c) ==
  /\ c.author = "nogent" => c.text \in {"triage", "fallback", "legacy"}
  /\ c.author = "person" => c.text \in {"quote", "other"}

ASSUME TriageAssumption ==
  /\ NoJob \notin Jobs
  /\ Slots \in Nat /\ PageSize \in Nat /\ MaxOthers \in Nat
  /\ Histories \subseteq {h \in Seq(Comment) : \A i \in DOMAIN h :
       Plausible(h[i]) /\ h[i].writer = NoJob /\ h[i].st # "removed"}

VARIABLES
  thread,   \* every comment ever written, oldest first
  pc,       \* pc[j]: the call job j makes next, or how it ended
  text,     \* text[j]: the text it formatted
  first,    \* first[j]: the comment it updates
  victims,  \* victims[j]: the duplicates it has still to delete
  late,     \* calls reported as failed that GitHub has yet to apply
  calm,     \* history: jobs that met no other job or bot, failure, moderator, page end
  raced,    \* history: some job began while another could still write
  hidden    \* history: some job listed less than the whole thread

locals == <<pc, text, first, victims>>
history == <<calm, raced, hidden>>
vars == <<thread, locals, late, history>>

Ids == DOMAIN thread
Stands(i) == thread[i].st = "there"
Standing == {i \in Ids : Stands(i)}

\* What nogent has posted, and what it takes for a triage comment: also
\* another bot's comment that has its marker or its heading.
Posted == {i \in Ids : thread[i].author = "nogent"}
Ours == {i \in Ids : thread[i].author # "person" /\ thread[i].text # "other"}
Theirs == Ids \ Ours

AtMostOne == \A i, k \in Posted \cap Standing : i = k

Running == {j \in Jobs : pc[j] \in {"list", "post", "patch", "delete"}}
Quiet == Running = {} /\ late = {}

-----------------------------------------------------------------------------
(* What a job sees of the thread. *)

has_marker(c) == c.text \in {"triage", "fallback", "quote"}
has_heading(c) == c.text \in {"triage", "legacy", "quote"}

\* MUTANT of is_issue_triage_comment: the fallback is not recognised.
is_titled(c) == has_heading(c)

is_issue_triage_comment(c) == has_marker(c) \/ has_heading(c)

is_bot(c) == c.author # "person"

\* The first page, in the order the comments were written.
Page == {i \in Standing : Cardinality({h \in Standing : h < i}) < PageSize}

\* MUTANT of triage_comments: whoever wrote them.
marked_comments == {i \in Page : is_issue_triage_comment(thread[i])}

triage_comments ==
  {i \in Page : is_bot(thread[i]) /\ is_issue_triage_comment(thread[i])}

\* A call to GitHub, and what applying it does. Changing a comment that is
\* gone is an error and changes nothing.
Calls == [op : {"post", "patch", "delete"}, by : Jobs, text : {"triage", "fallback"}, id : Nat]

Call(j, op, i) == [op |-> op, by |-> j, text |-> text[j], id |-> i]

Appliable(c) == c.op = "post" \/ (c.id \in Ids /\ Stands(c.id))

Applied(c) ==
  CASE c.op = "post" ->
         Append(thread, [author |-> "nogent", text |-> c.text, writer |-> c.by, st |-> "there"])
    [] c.op = "patch" ->
         [thread EXCEPT ![c.id] = [@ EXCEPT !.text = c.text, !.writer = c.by]]
    [] c.op = "delete" ->
         [thread EXCEPT ![c.id] = [@ EXCEPT !.st = "removed", !.writer = c.by]]

\* The call succeeds.
Succeeds(c) == Appliable(c) /\ thread' = Applied(c) /\ UNCHANGED <<late, history>>

\* The caller sees an error: refused, or answered too late, or never applied.
Errs(c) ==
  /\ late' \in {late, late \cup {c}}
  /\ calm' = calm \ {c.by}
  /\ UNCHANGED <<thread, raced, hidden>>

Goto(j, l) == pc' = [pc EXCEPT ![j] = l]

-----------------------------------------------------------------------------
Init ==
  /\ thread \in Histories
  /\ pc = [j \in Jobs |-> "idle"]
  /\ text = [j \in Jobs |-> "fallback"]
  /\ first = [j \in Jobs |-> 0]
  /\ victims = [j \in Jobs |-> {}]
  /\ late = {}
  /\ calm = {}
  /\ raced \in BOOLEAN /\ (raced <=> ~AtMostOne)
  /\ hidden = FALSE

\* What a triage answer's text holds: whether serde accepts the object, its
\* canary, and whether one of its sections is over MAX_SECTION_LEN.
TriageAnswers == [json : BOOLEAN, canary : {"right", "wrong"}, long : BOOLEAN]

\* There is no salvage here.
validate_issue_triage(a) == a.json /\ a.canary = "right" /\ ~a.long

Formatted(a) == IF validate_issue_triage(a) THEN "triage" ELSE "fallback"

\* run up to the comment: the guidance or the request to Gemini may fail, and
\* an answer without text is an error too.
Prepare(j) ==
  /\ pc[j] = "idle"
  /\ Cardinality(Running) < Slots
  /\ \/ \E a \in TriageAnswers :
          /\ Goto(j, "list")
          /\ text' = [text EXCEPT ![j] = Formatted(a)]
          /\ calm' = IF Quiet THEN {j} ELSE {}
          /\ raced' = (raced \/ ~Quiet)
     \/ /\ Goto(j, "failed")
        /\ UNCHANGED <<text, calm, raced>>
  /\ UNCHANGED <<thread, first, victims, late, hidden>>

\* MUTANT of List: an empty list is not told from a full one.
ListUnchecked(j) ==
  /\ pc[j] = "list"
  /\ Goto(j, "patch")
  /\ first' = [first EXCEPT ![j] = Cardinality(triage_comments)]
  /\ UNCHANGED <<thread, text, victims, late, history>>

\* MUTANT of List: the newest is kept, the older ones are the duplicates.
ListNewestFirst(j) ==
  /\ pc[j] = "list"
  /\ \/ /\ triage_comments = {}
        /\ Goto(j, "post")
        /\ UNCHANGED <<first, victims>>
     \/ \E f \in triage_comments :
          /\ \A i \in triage_comments : f >= i
          /\ Goto(j, "patch")
          /\ first' = [first EXCEPT ![j] = f]
          /\ victims' = [victims EXCEPT ![j] = triage_comments \ {f}]
  /\ UNCHANGED <<thread, text, late, history>>

\* list_issue_comments, then split_first.
List(j) ==
  /\ pc[j] = "list"
  /\ \/ /\ triage_comments = {}
        /\ Goto(j, "post")
        /\ UNCHANGED <<first, victims>>
     \/ \E f \in triage_comments :
          /\ \A i \in triage_comments : f <= i
          /\ Goto(j, "patch")
          /\ first' = [first EXCEPT ![j] = f]
          /\ victims' = [victims EXCEPT ![j] = triage_comments \ {f}]
  /\ calm' = IF Page = Standing THEN calm ELSE calm \ {j}
  /\ hidden' = (hidden \/ Page # Standing)
  /\ UNCHANGED <<thread, text, late, raced>>

ListFails(j) ==
  /\ pc[j] = "list"
  /\ Goto(j, "failed")
  /\ calm' = calm \ {j}
  /\ UNCHANGED <<thread, text, first, victims, late, raced, hidden>>

Post(j) ==
  /\ pc[j] = "post"
  /\ LET c == Call(j, "post", 0)
     IN  \/ Succeeds(c) /\ Goto(j, "done")
         \/ Errs(c) /\ Goto(j, "failed")
  /\ UNCHANGED <<text, first, victims>>

\* MUTANT of Patch: the duplicates are forgotten.
PatchOnly(j) ==
  /\ pc[j] = "patch"
  /\ LET c == Call(j, "patch", first[j])
     IN  \/ Succeeds(c) /\ Goto(j, "done")
         \/ Errs(c) /\ Goto(j, "failed")
  /\ UNCHANGED <<text, first, victims>>

Patch(j) ==
  /\ pc[j] = "patch"
  /\ LET c == Call(j, "patch", first[j])
     IN  \/ Succeeds(c) /\ Goto(j, IF victims[j] = {} THEN "done" ELSE "delete")
         \/ Errs(c) /\ Goto(j, "failed")
  /\ UNCHANGED <<text, first, victims>>

\* MUTANT of Delete: an error ends the job, as it does everywhere else.
DeleteStrictly(j) ==
  /\ pc[j] = "delete"
  /\ \E v \in victims[j] :
       LET c == Call(j, "delete", v)
       IN  /\ \A w \in victims[j] : v <= w
           /\ victims' = [victims EXCEPT ![j] = @ \ {v}]
           /\ \/ Succeeds(c) /\ Goto(j, IF victims[j] = {v} THEN "done" ELSE "delete")
              \/ Errs(c) /\ Goto(j, "failed")
  /\ UNCHANGED <<text, first>>

\* The duplicates one by one, oldest first. An error is logged and the loop
\* goes on.
Delete(j) ==
  /\ pc[j] = "delete"
  /\ \E v \in victims[j] :
       LET c == Call(j, "delete", v)
       IN  /\ \A w \in victims[j] : v <= w
           /\ victims' = [victims EXCEPT ![j] = @ \ {v}]
           /\ Succeeds(c) \/ Errs(c)
           /\ Goto(j, IF victims[j] = {v} THEN "done" ELSE "delete")
  /\ UNCHANGED <<text, first>>

\* The call a job is waiting for.
Current(j) ==
  CASE pc[j] = "post"   -> {Call(j, "post", 0)}
    [] pc[j] = "patch"  -> {Call(j, "patch", first[j])}
    [] pc[j] = "delete" -> {Call(j, "delete", v) : v \in victims[j]}
    [] OTHER            -> {}

\* The process the job runs in dies; a call already sent may still land.
Killed(j) ==
  /\ j \in Running
  /\ Goto(j, "killed")
  /\ \/ late' = late
     \/ \E c \in Current(j) : late' = late \cup {c}
  /\ calm' = calm \ {j}
  /\ UNCHANGED <<thread, text, first, victims, raced, hidden>>

\* GitHub applies a call whose sender was told it failed.
Lands ==
  /\ \E c \in late :
       /\ late' = late \ {c}
       /\ thread' = IF Appliable(c) THEN Applied(c) ELSE thread
  /\ UNCHANGED <<locals, history>>

-----------------------------------------------------------------------------
(* The others on the issue. *)

\* A person writes something or quotes a triage comment, another bot writes.
Reply ==
  /\ Cardinality(Ids \ Posted) < MaxOthers
  /\ \E w \in {<<"person", "quote">>, <<"person", "other">>, <<"bot", "other">>} :
       thread' = Append(thread, [author |-> w[1], text |-> w[2], writer |-> NoJob, st |-> "there"])
  /\ UNCHANGED <<locals, late, history>>

\* Another bot repeats a triage comment, as one that mirrors issues does.
Mimic ==
  /\ Cardinality(Ids \ Posted) < MaxOthers
  /\ thread' = Append(thread, [author |-> "bot", text |-> "quote", writer |-> NoJob, st |-> "there"])
  /\ calm' = {}
  /\ UNCHANGED <<locals, late, raced, hidden>>

\* A maintainer deletes a triage comment by hand.
Moderate ==
  /\ \E i \in Ours \cap Standing : thread' = [thread EXCEPT ![i] = [@ EXCEPT !.st = "moderated"]]
  /\ calm' = {}
  /\ UNCHANGED <<locals, late, raced, hidden>>

-----------------------------------------------------------------------------
run(j) == Prepare(j) \/ List(j) \/ ListFails(j) \/ Post(j) \/ Patch(j) \/ Delete(j)

Next ==
  \/ \E j \in Jobs : run(j) \/ Killed(j)
  \/ Lands
  \/ Reply
  \/ Mimic
  \/ Moderate

Spec == Init /\ [][Next]_vars

-----------------------------------------------------------------------------
\* The shape of the state; a job that updates has a comment to update.
TypeOK ==
  /\ thread \in Seq(Comment)
  /\ pc \in [Jobs -> {"idle", "list", "post", "patch", "delete", "done", "failed", "killed"}]
  /\ text \in [Jobs -> {"triage", "fallback"}]
  /\ first \in [Jobs -> Nat]
  /\ victims \in [Jobs -> SUBSET Nat]
  /\ late \subseteq Calls
  /\ calm \subseteq Jobs
  /\ raced \in BOOLEAN
  /\ hidden \in BOOLEAN
  /\ \A j \in Jobs : pc[j] \in {"patch", "delete"} => first[j] \in Ids /\ victims[j] \subseteq Ids

\* nogent never edits and never deletes a person's comment, not even one that
\* quotes its heading, nor a bot's without marker and heading. A bot's comment
\* that has one of them it takes for its own (post_or_update_triage_comment's
\* filter).
OthersUntouched == \A i \in Theirs : thread[i].writer = NoJob /\ thread[i].st # "removed"

\* However many jobs clean up at once, in whatever order and with whatever
\* calls landing late, the oldest of the triage comments, a bot's look-alike
\* among them, is never deleted.
OldestSurvives ==
  \A i \in Ours : (\A h \in Ours : i <= h) => thread[i].st # "removed"

\* A job that reports an error has deleted nothing: the update comes first,
\* and a failing deletion does not fail the job.
FailedRemovedNothing ==
  \A i \in Ids : thread[i].st = "removed" => pc[thread[i].writer] # "failed"

\* While no job begins before all others, and all their calls, are over, and
\* the listing shows the whole thread, nogent has one comment at most, through
\* failures, lost answers, kills, quotes and look-alikes.
SingleIfSerial == ~raced /\ ~hidden => AtMostOne

\* A job that ran undisturbed leaves one triage comment, its own text in it,
\* whatever earlier jobs and other bots have left behind.
HealsDuplicates ==
  [][\A j \in Jobs : pc[j] # "done" /\ pc'[j] = "done" /\ j \in calm' =>
       \E i \in (Ours \cap Standing)' :
         /\ (Ours \cap Standing)' = {i}
         /\ thread'[i].writer = j]_vars

\* "Only make a single comment in issues" (CHANGELOG.md).
SingleComment == AtMostOne

\* The same, of jobs that run strictly one after the other.
SingleIfUnraced == ~raced => AtMostOne

=============================================================================

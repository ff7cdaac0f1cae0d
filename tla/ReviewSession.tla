---------------------------- MODULE ReviewSession ---------------------------
(***************************************************************************)
(* One pull-request review (review.rs): the inputs are fetched, the model  *)
(* is questioned in rounds over one growing conversation (a first pass, at *)
(* most one retry, then one pass per critique lens), the findings of all   *)
(* rounds are merged, anchored to the diff and posted in one call.         *)
(*                                                                         *)
(* In a round the model may call repository tools for a number of turns,   *)
(* within a budget of output bytes that all rounds share; then it has one  *)
(* last turn without tools. Meanwhile contributors may push: GitHub judges *)
(* the comments by the diff it has when they arrive.                       *)
(***************************************************************************)
EXTENDS Findings, FiniteSets

CONSTANTS
  MAX_TURNS, CRITIQUE_MAX_TURNS, RETRY_TURNS,  \* 12, 5, 3
  Lenses,                 \* number of CRITIQUE_LENSES (3)
  MAX_TOOL_OUTPUT_BYTES,  \* 600_000
  MaxOutput,              \* what the tool calls of one turn return at most
  SNAP_WINDOW,            \* 2
  Answers,                \* texts the model may answer with
  Commentable,            \* Commentable[v]: commentable_lines at head v
  Accepted,               \* Accepted[v]: the lines GitHub takes comments on
  Quotes,                 \* Quotes[v][t]: lines whose content has a token of text t
  MaxPushes               \* bound: the last head

ASSUME ReviewAssumption ==
  /\ MAX_TURNS \in Nat /\ CRITIQUE_MAX_TURNS \in Nat /\ RETRY_TURNS \in Nat
  /\ Lenses \in Nat \ {0} /\ MAX_TOOL_OUTPUT_BYTES \in Nat /\ MaxOutput \in Nat
  /\ SNAP_WINDOW \in Nat /\ MAX_ITEMS \in Nat /\ MaxPushes \in Nat
  /\ \A a \in Answers : IsAnswer(a)
  /\ \A v \in 0..MaxPushes : Commentable[v] \subseteq Nat /\ Accepted[v] \subseteq Nat

VARIABLES
  pc,        \* where run stands
  round,     \* the round of run_review: First, Retry, or lens 1..Lenses
  turns,     \* turns with tools left in this round
  indexed,   \* the repository snapshot is there, hence tools
  toolBytes, \* AgentSession.tool_bytes
  calls,     \* requests sent to Gemini
  all,       \* run_review's findings so far
  diff,      \* the head whose files were listed
  head,      \* the head of the pull request
  review,    \* what GitHub accepted from this job
  offered,   \* history: the bytes of the turns in which tools were offered
  best,      \* history: the best answer so far: had the canary, or the shape too
  vouched    \* history: the findings of answers with the right canary

session == <<round, turns, toolBytes, offered, calls, all, best, vouched>>
vars == <<pc, session, indexed, diff, head, review>>

First == 0
Retry == -1
NoReview == [kind |-> "none", inline |-> <<>>, body |-> <<>>]

\* The turns with tools each round starts with.
TurnsOf(r) ==
  CASE r = First -> MAX_TURNS
    [] r = Retry -> RETRY_TURNS
    [] OTHER     -> CRITIQUE_MAX_TURNS

Goto(from, to) == pc = from /\ pc' = to

\* Any error ends the job and is only logged.
Fails(from) ==
  /\ Goto(from, "failed")
  /\ UNCHANGED <<session, indexed, diff, head, review>>

-----------------------------------------------------------------------------
Init ==
  /\ pc = "list" /\ round = First /\ turns = MAX_TURNS
  /\ indexed = FALSE /\ toolBytes = 0 /\ offered = 0 /\ calls = 0
  /\ all = <<>> /\ diff = 0 /\ head = 0
  /\ review = NoReview /\ best = "nothing" /\ vouched = {}

list_pr_files ==
  \/ /\ Goto("list", "snapshot")
     /\ diff' = head
     /\ UNCHANGED <<session, indexed, head, review>>
  \/ Fails("list")

\* No head, no tarball, one over the cap: no index. Other errors end it.
download_tarball ==
  \/ /\ Goto("snapshot", "guidance")
     /\ indexed' \in BOOLEAN
     /\ UNCHANGED <<session, diff, head, review>>
  \/ Fails("snapshot")

get_repo_guidance ==
  \/ /\ Goto("guidance", "ask")
     /\ UNCHANGED <<session, indexed, diff, head, review>>
  \/ Fails("guidance")

(* AgentSession.answer. *)

\* MUTANT of ToolsOffered: the budget is looked at per round, not overall.
ToolsAlways == indexed /\ turns > 0

\* Tools are offered while the shared budget lasts, and not in the last turn.
ToolsOffered == indexed /\ turns > 0 /\ toolBytes <= MAX_TOOL_OUTPUT_BYTES

\* The model calls tools, offered or not, and gets their results, or, without
\* an index, an error for each; the turn is over.
ToolTurn ==
  /\ Goto("ask", "ask") /\ turns > 0
  /\ \E n \in 1..MaxOutput :
       /\ toolBytes' = toolBytes + n
       /\ offered' = IF ToolsOffered THEN offered + n ELSE offered
  /\ turns' = turns - 1
  /\ calls' = calls + 1
  /\ UNCHANGED <<round, all, best, vouched, indexed, diff, head, review>>

\* say(...), then answer(max_turns).
Begin(r) == pc' = "ask" /\ round' = r /\ turns' = TurnsOf(r)

Conclude == pc' = "post" /\ UNCHANGED <<round, turns>>

\* MUTANT of NextLens: one round too many.
NextLensOver ==
  LET i == IF round = Retry THEN 1 ELSE round + 1
  IN  IF i <= Lenses + 1 THEN Begin(i) ELSE Conclude

\* The lens that follows this round, or the end of run_review.
NextLens ==
  LET i == IF round = Retry THEN 1 ELSE round + 1
  IN  IF i <= Lenses THEN Begin(i) ELSE Conclude

Merge(a) == all' = IF Usable(a) THEN all \o FindingsOf(a) ELSE all

Remember(a) ==
  /\ best' = IF validates(a) \/ best = "shape" THEN "shape"
             ELSE IF a.canary = "right" THEN "canary" ELSE best
  /\ vouched' = vouched \cup IF a.canary = "right" THEN ToSet(a.findings) ELSE {}

\* MUTANT of Answered: a first pass that does not validate is asked for again
\* and again.
AnsweredStubborn(a) ==
  /\ pc = "ask" /\ calls' = calls + 1
  /\ Remember(a) /\ Merge(a)
  /\ IF Usable(a) \/ round > 0 THEN NextLens ELSE Begin(Retry)
  /\ UNCHANGED <<toolBytes, offered, indexed, diff, head, review>>

\* The model answers with text, in any turn: finalize for the first pass, for
\* a lens the same tests without a retry.
Answered(a) ==
  /\ pc = "ask" /\ calls' = calls + 1
  /\ Remember(a) /\ Merge(a)
  /\ \/ Usable(a) /\ NextLens
     \/ ~Usable(a) /\ round = First /\ Begin(Retry)
     \/ ~Usable(a) /\ round = Retry /\ Conclude
     \/ ~Usable(a) /\ round > 0 /\ NextLens
  /\ UNCHANGED <<toolBytes, offered, indexed, diff, head, review>>

Final == \E a \in Answers : Answered(a)

\* A request fails, in any round: nothing is posted.
GeminiFails == Fails("ask")

(* Anchoring and posting.                                                  *)

\* The line a finding names if it shows what the finding quotes, else the
\* nearest commentable line that does (earlier first), else the line named.
snap_to_token_match(f) ==
  LET shows == Quotes[diff][f.text]
      near == {l \in shows \cap Commentable[diff] :
                 l >= f.line - SNAP_WINDOW /\ l <= f.line + SNAP_WINDOW}
      Rank(l) == IF l < f.line THEN 2 * (f.line - l) - 1 ELSE 2 * (l - f.line)
  IN  IF f.line \in shows \/ near = {} THEN f.line
      ELSE CHOOSE l \in near : \A k \in near : Rank(l) <= Rank(k)

\* MUTANT of Anchored: the line is taken as the model gave it.
AnchoredAnyhow(f) == f.line # NoLine

\* The finding becomes an inline comment.
Anchored(f) == f.line # NoLine /\ snap_to_token_match(f) \in Commentable[diff]

Inline(s) == LET in == At(s, {i \in DOMAIN s : Anchored(s[i])})
             IN  [i \in DOMAIN in |-> [finding |-> in[i], at |-> snap_to_token_match(in[i])]]
Leftover(s) == At(s, {i \in DOMAIN s : ~Anchored(s[i])})

\* GitHub refuses a review with a comment outside of the diff it has now. What
\* lines these are it says itself: commentable_lines only counts them.
GitHubAccepts(r) == \A i \in DOMAIN r.inline : r.inline[i].at \in Accepted[head]

\* The review, or FALLBACK_MESSAGE if the first pass yielded none.
Assembled ==
  IF round = Retry THEN [NoReview EXCEPT !.kind = "fallback"]
  ELSE LET out == dedup_findings(all)
       IN  [kind |-> "review", inline |-> Inline(out), body |-> Leftover(out)]

Post(r) ==
  /\ GitHubAccepts(r)
  /\ Goto("post", "ok")
  /\ review' = r
  /\ UNCHANGED <<session, indexed, diff, head>>

\* 422.
Rejected(r) ==
  /\ ~GitHubAccepts(r)
  /\ Goto("post", "rejected")
  /\ UNCHANGED <<session, indexed, diff, head, review>>

\* GitHub has taken the review, but its answer is lost.
AnswerLost(r) ==
  /\ GitHubAccepts(r)
  /\ Goto("post", "failed")
  /\ review' = r
  /\ UNCHANGED <<session, indexed, diff, head>>

\* The one call that posts; it may also fail before GitHub has seen it.
post_review ==
  \/ Fails("post")
  \/ pc = "post" /\ \E r \in {Assembled} : Post(r) \/ Rejected(r) \/ AnswerLost(r)

\* Contributors push.
Push ==
  /\ head < MaxPushes
  /\ head' = head + 1
  /\ UNCHANGED <<pc, session, indexed, diff, review>>

-----------------------------------------------------------------------------
run ==
  \/ list_pr_files \/ download_tarball \/ get_repo_guidance
  \/ ToolTurn \/ Final \/ GeminiFails \/ post_review

Next == run \/ Push

Spec == Init /\ [][Next]_vars

-----------------------------------------------------------------------------
\* The shape of the state.
TypeOK ==
  /\ pc \in {"list", "snapshot", "guidance", "ask", "post", "ok", "failed", "rejected"}
  /\ round \in {First, Retry} \cup 1..Lenses
  /\ turns \in 0..TurnsOf(round)
  /\ indexed \in BOOLEAN /\ best \in {"nothing", "canary", "shape"}
  /\ toolBytes \in Nat /\ offered \in Nat /\ calls \in Nat /\ diff \in Nat /\ head \in Nat
  /\ diff <= head
  /\ review.kind \in {"none", "review", "fallback"}

\* What one review may cost: every round's turns and its last turn, however
\* the model answers and whatever has to be retried.
MaxCalls == (MAX_TURNS + 1) + (RETRY_TURNS + 1) + Lenses * (CRITIQUE_MAX_TURNS + 1)

CallsBounded == calls <= MaxCalls

\* The output of tools the model was offered passes the budget by one turn at
\* most, over all rounds together. The budget does not stop a model that calls
\* them all the same: then only the number of turns does.
ToolOutputBounded ==
  /\ offered <= MAX_TOOL_OUTPUT_BYTES + MaxOutput
  /\ toolBytes <= MaxCalls * MaxOutput

Posted == ToSet(review.body) \cup {review.inline[i].finding : i \in DOMAIN review.inline}

\* The canary gate: a finding is posted only from an answer with the right
\* canary, and the fallback, always and only, when no answer had one in the
\* first pass and its retry.
CanaryGate ==
  /\ Posted \subseteq vouched
  /\ review.kind = "review" => best # "nothing"
  /\ review.kind = "fallback" => best = "nothing"

\* No finding of any pass is lost in the merge but to one with the same key,
\* or to a full review none of whose findings is less severe than its first
\* occurrence; and none is posted twice.
MergedWell ==
  review.kind = "review" =>
    /\ Cardinality({Key(f) : f \in Posted}) = Len(review.body) + Len(review.inline)
    /\ \A i \in FirstSeen(all) :
         \/ \E f \in Posted : Key(f) = Key(all[i])
         \/ /\ Cardinality(Posted) = MAX_ITEMS
            /\ \A f \in Posted : f.sev <= all[i].sev

\* Every inline comment that is sent is on a line that could be commented on
\* when the files were listed, within SNAP_WINDOW of the line the model named.
AnchorsInDiff ==
  pc = "post" =>
    \A i \in DOMAIN Assembled.inline :
      LET c == Assembled.inline[i]
      IN  c.at \in Commentable[diff] /\ c.at - c.finding.line \in -SNAP_WINDOW .. SNAP_WINDOW

\* "so the reviews POST never 422s on an un-commentable line" (review.rs).
NeverRejected == pc # "rejected"

\* "any response that omits/alters the canary or violates the required shape
\* is discarded and replaced by a fixed [...] comment" (README.md).
ShapeGate == review.kind = "review" => best = "shape"

=============================================================================

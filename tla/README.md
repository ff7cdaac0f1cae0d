# A formal model of nogent

nogent is a GitHub App: a webhook listener that reviews pull requests and
triages issues with the help of Gemini. This directory holds TLA+ modules for
its core logic, TLC configurations that check them on small instances, and
proofs, checked by TLAPS, that hold for every value of the constants.

Paths below are relative to `src/crates/`; `listener` stands for
`nogent-listener/src`, `core` for `nogent-core/src`.

## 1. The system

```
 GitHub --delivery--> webhook listener --slot--> task --job--> worker
                          |                       |  (in process, or a nono
                          |            token cache|   child fed on stdin)
                          |            config     |        |
                          v                       v        v
                     200/202/204/401/429        GitHub   review | triage
                                                           |        |
                                              tarball, diff, Gemini, comments
```

| component | state it keeps | operations | talks to |
|---|---|---|---|
| webhook listener (`listener/webhook.rs`, `main.rs`) | the semaphore `worker_slots`; the detached tasks | `handle_webhook`, `dispatch*`, `resolve_config` | tokens, GitHub, workers |
| worker supervision (`listener/worker.rs`) | a child process and its stdin | `run`, `run_sandboxed`, `run_from_stdin`, `run_job` | review, triage |
| installation tokens (`listener/app_auth.rs`, `github_mint.rs`) | the map of cached tokens behind a mutex | `installation_token`, `cached`, `store` | GitHub |
| issue triage (`listener/triage.rs`) | none of its own: the issue's thread | `run`, `post_or_update_triage_comment` | Gemini, GitHub comments |
| pull-request review (`listener/review.rs`) | the conversation, the bytes of tool output, the findings so far | `run`, `answer`, `run_review`, `finalize`, snapping | Gemini, GitHub reviews, index |
| output validation (`core/output_validator.rs`) | pure | `validate_pr_review`, `salvage_pr_review`, `dedup_findings` | review |
| diff digest (`core/diff_digest.rs`) | pure, with running counters | `build_digest`, `annotate_patch`, `line_content_by_file`, `commentable_lines` | review |
| GitHub and Gemini clients | one HTTP client each | one request a call, with a timeout, no retry | the services |
| repository index (`listener/repo_index.rs`) | the texts and the symbol table of one review | `from_tarball`, `referenced_defs_context`, `definition`, `grep`, `read_file`, `list_files` | review |
| conversation (`core/gemini.rs`) | the contents, kept by the review | `Content`, `Part`, `GenerateRequest::with_contents`, `first_parts` | Gemini |
| configuration (`core/repo_config.rs`, `listener/config.rs`) | pure | `resolve`, `allowlist_permits` | listener, review |
| prompts, errors, HMAC | pure | | |

What is hard to get right, and hard to test, in this code:

- **Concurrency.** Deliveries are handled by detached tasks; each holds a permit
  through a dozen early returns and errors. Tasks share the token cache, whose
  lock is not held while a token is minted. Two jobs of one issue are not
  ordered by anything.
- **A world that moves.** Pushes, edits of the configuration, deletions by
  maintainers and corrections of the host's clock fall between any two steps.
- **Failure.** Each call may fail, or succeed and lose its answer, or take
  effect after its sender has given up. The listener may die while nono
  children go on working, or while it is writing a job into a pipe.
- **Bounds.** Slots, rounds and turns of the conversation, tool output, the
  digest's bytes, the first page of comments, the index and what is sent of it.
- **Protocol.** A conversation that grows over several rounds must stay one the
  service accepts, whatever the model said in it.
- **Numbers that must agree.** Three copies of a line counter, GitHub's own
  view of the diff, and the model's line numbers.
- **Hand-written scanners.** Braces in source and in cut JSON, and a calendar.

What makes each component correct is listed with its module in section 3; the
hazards, each at its line, are in `PROJECT.json`.

## 2. The modules

| module | models | composed with |
|---|---|---|
| `SlotPool` | abstract: a pool of job slots without a semaphore | implemented by `Listener` |
| `Listener` | `webhook.rs`, `worker.rs`, `main.rs` and what they use of `events.rs`, `config.rs`, `repo_config.rs` | `SlotPool` (`INSTANCE ... WITH`, property `ImplementsPool`) |
| `TokenCache` | `app_auth.rs` | opens up `Listener`'s step `installation_token` |
| `TriageComments` | `triage.rs`, the comment calls of `github_client.rs` | opens up `Listener`'s worker step for issues |
| `Selection` | what a loop keeps of a list, by position | extended by `Findings` and `RepoIndex` |
| `Findings` | the review half of `output_validator.rs` | extended by `ReviewSession` |
| `ReviewSession` | `review.rs`, with the calls it makes | opens up `Listener`'s worker step for pull requests |
| `Conversation` | `gemini.rs` and `AgentSession`'s contents | extends `ReviewSession`: the same steps, with what each request carries |
| `FindingScan` | the scans of `salvage_pr_review` | gives the meaning of `Findings`' broken answers; evaluated in `MCReviewSession` |
| `SourceText` | the text scans of `repo_index.rs` | extended by `RepoIndex` |
| `RepoConfig` | `repo_config.rs` | extended by `RepoIndex`; `Listener` keeps what a configuration permits |
| `RepoIndex` | the index of a review, `referenced_identifiers`, `dispatch_tool` | opens up `ReviewSession`'s `download_tarball` and what `ToolTurn` adds |
| `CivilDate` | `parse_rfc3339_secs` of `app_auth.rs` | gives the meaning of the lifetimes `TokenCache` is told; evaluated in `MCTokenCache` |
| `DiffLines` | `diff_digest.rs` | gives the meaning of `ReviewSession`'s `Commentable` |
| `MC*` | values of the constants for TLC | |
| `*Proofs` | theorems and proofs | |

Definitions whose comment starts with MUTANT are plausible bugs. Nothing uses
them: each is named in `PROJECT.json` together with the property that must fail
when it takes the place of the definition it spoils.

## 3. Module by module

### Listener and SlotPool

One `Deliveries` element is one webhook delivery. `status` is what the handler
answered, `pc` where the detached task stands, `permits` the semaphore,
`worker` and `pipe` the nono child and its stdin, `posted` the jobs whose worker
reached GitHub. `head`, `config` and `crashes` are the world outside.

| code | action |
|---|---|
| signature, event header, unsubscribed events | `AnswerOnly` |
| `try_acquire_owned` fails / succeeds | `TurnAway` / `Accept` |
| `dispatch_pr`, `dispatch_command`, `dispatch_issue` up to the token | `Dispatch` |
| `AppAuth::installation_token` | `installation_token` |
| `resolve_config` and what follows it | `ResolveConfig` |
| `get_pull_request` of a command | `get_pull_request` |
| `worker::run` in process / nono | `StartInProcess` / `SpawnNono`, `WriteJob` |
| `child.wait` returns / fails | `WorkerEnded` / `WaitFails` |
| the worker's own side | `ReadJob`, `Post`, `WorkerExits`, `ChildDies` |
| the process dies and is started again | `Crash` |
| contributors, maintainers | `Push`, `EditConfig` |

A task drops its permit, and kills its child (`kill_on_drop`), in the same step
in which it ends: `Return` and `Kill`. What a payload says is a record of the
facts the filters look at.

Correct means: permits balance on every path (`SlotsBalanced`,
`AllSlotsReturn`); workers are supervised and fit with the free slots into
`MaxJobs`, and a crash, which leaves children behind beside the new slots,
leaves no more than `MaxJobs` of them (`WorkersBounded`, `WorkersSupervised`);
no half-written
job runs (`NoTruncatedJobRuns`); success is reported only for a comment that was
made (`ReviewedMeansPosted`); configuration is fail-secure (`FailSecure`); a
command reviews a fresh head (`CommandReviewsLatest`); only the stated triggers
act (`OnlyTriggersAct`). `ImplementsPool` says it once more without a
semaphore: a delivery is turned away only while all slots are taken, and every
admitted job comes to an end.

### TokenCache

Time is a counter that runs with `Instant` and with GitHub's clock; the host's
`SystemTime` is off by `skew`, which `SetClock` may change at any moment.
`Hit`, `Miss`, `MintReturns` and `MintFails` are `installation_token`;
`GitHubMints` is the service. Lookup and store are separate steps of a call, as
the lock is not held between them. `RightScope`, `HandedOutAlive` and
`HitsKeepMargin` are about the token a caller gets. An entry's `off` is history:
the error of the clock by which its expiry was read, which is all that
`HitsKeepMargin` takes off, or adds to, the five minutes.

`TokenCacheAssumption` carries what the result rests on: the fallback of 50
minutes and the HTTP timeout fit into a token's real lifetime, no token is
minted with less life than the timeout, and the host's clock is not behind by
more than `SKEW` (`s + SKEW >= 0`). `ClockWindow` proves that the last bound is
exact: a clock further behind has a `refresh_after` beyond the token's expiry,
and GitHub still takes its JWTs down to nine minutes.

`CivilDate` is the arithmetic by which a stated lifetime gets into it:
`days_from_civil` with Rust's division towards zero, beside a calendar
(`IsLeap`, `LastDay`, `Tomorrow`) as the reference. `MCTokenCache` evaluates it
over six years with two leap years and over the stamps of the code's tests;
`TokenCacheProofs` shows it for every date from 1970 on. Days a month does not have are not
refused, as in the code.

### TriageComments

The thread is the sequence of all comments ever written; a deletion changes
`st`. Jobs go through `Prepare` (everything up to the comment: prompt, Gemini,
validation), `List`, then `Post`, or `Patch` and `Delete` for each duplicate. A
call that is reported as failed may have been lost or may be in `late`, from
where it `Lands` at any later time; `Killed` is the end of the process a job
runs in. `Reply`, `Mimic` and `Moderate` are the people and bots on the issue.

The filter of `triage.rs` asks for a bot and for nogent's marker or heading, not
for nogent. So `Ours`, what it takes for a triage comment, has the comments of
other bots that have one of the two (`Mimic`), and a job may update or delete
them; `Posted` is what nogent wrote.

`raced`, `hidden` and `calm` are history variables: whether jobs ever
overlapped, whether a listing was cut by the page size, and which jobs have run
undisturbed so far. They let the properties say exactly when there is one
comment: `SingleIfSerial` (no overlap and nothing hidden) and
`HealsDuplicates` (any undisturbed job repairs what was left; a look-alike
written meanwhile disturbs it). Without conditions hold `OldestSurvives`,
`FailedRemovedNothing` and `OthersUntouched`, the last of everyone but the
authors of look-alikes.

Assumption: nobody but nogent edits a comment, and a new comment carries the
marker only by quoting it (a person) or as its own (a bot).

### Findings and ReviewSession

An answer of the model is what `output_validator.rs` can tell of it: whether
serde accepts the object (`json`), which canary can be read, whether the summary
is over its limit, and the finding objects in it, each with what is `over` a
limit in it: nothing, its description or another field. `validates` looks at
all of that, `salvage_pr_review` at descriptions only. `validates`, `salvages`, `salvage_pr_review` and
`dedup_findings` are the functions of the same names.

`ReviewSession` has one action per call (`list_pr_files`, `download_tarball`,
`get_repo_guidance`, `post_review` with `Post`, `Rejected` and the answers that
are lost), `ToolTurn` for a turn in
which the model calls tools, and `Final` for the answer that ends a round
together with everything the code does with it up to its next request:
`finalize` in the first round and the retry, the lens loop afterwards.
`GeminiFails` is an error in any round. `Assembled` anchors and sorts out the
findings; `GitHubAccepts` judges the comments by the diff of the head at that
moment, which `Push` may have moved, and by the lines GitHub takes, `Accepted`,
which need not be the `Commentable` ones the code counts (`diff_eof`).

Correct means: the cost of a review is bounded by the constants
(`CallsBounded`: 35 requests with the code's values; `ToolOutputBounded`); a
finding is posted only from an answer that had the canary, and the fallback
exactly when the first pass and its retry had none (`CanaryGate`); merging
loses nothing but duplicates and the least severe (`MergedWell`); inline
comments stay in the diff that was listed and near the line that was named
(`AnchorsInDiff`).

`ToolTurn` asks only whether a turn is left, as `answer` does: a call is run
whether tools were offered or not, so also when the budget is spent. That is why
`ToolOutputBounded` has two bounds. What was returned for tools that were
offered (`offered`, a history variable) passes the budget by one turn at most;
for the rest only the number of turns is a bound, and `CallsBounded` does not
depend on the model's manners.

### FindingScan

`Step` is what the loops of `scan_findings` and `json_string_field` do with one
of the characters they tell apart: `at` says whether they stand between two
objects, in one, in a string of it or behind a backslash there, `depth`, `start`
and `found` are the code's `depth`, `start` and `out`. `Scan` is the state behind
each character of a text. `SalvageExact` compares both with lists of written-out
objects, cut at every position: each complete object is found with its exact
extent, nothing else is, and a canary counts only if its string is terminated.
It is about constants: `MCReviewSession` assumes it and TLC evaluates it before
each run, and `FindingsProofs` proves it for JSON of any length and nesting.

### Conversation

`contents` is what the next request carries. A content has a role, the ids of
the calls and of the responses among its parts, and whether it has any part.
`Prompt` is `AgentSession::new`; `Investigate` a turn with calls, `ToolTurn`
with the model's content and the results pushed; `Reply` an answer, `Answered`
with its content and whatever is said next; `Stop` the request to conclude when
the turns are used up. The last turn of a round offers no tools, and the model
may answer it with calls all the same; any round may be answered with nothing.
`Accepts` is the service's rule as `gemini.rs` states it ("the matching response
must echo it"), and an external assumption.

Correct means: each request is one the service accepts (`RequestsAccepted`),
unless the model's last word was empty or a call nobody could answer
(`misspoke`). That exception is real: the code pushes both into the history,
and every later request of the review is refused. `ReviewEnds` says that even
then the job comes to an end under the fairness of its own steps, whatever is
answered (`ReviewsEnd` proves by how many steps).

### RepoConfig, SourceText and RepoIndex

A configuration is the keys a file states; `resolve` adds defaults and clamps.
A line of source is what the regular expressions and the brace count see of it,
beside what a parser would know: how many lines the item that starts there has
and how it ends. `WellFormed` ties the two together for items whose braces stay
open from the first to the last, and for those that end with a semicolon on
their line; `kind = "other"` are the items for which nothing ties them: braces
in literals, an initialiser over several lines, or braces that close again
within the header, as rustfmt writes a destructured parameter on a line of its
own (there `extract_body` ends too early).

Sizes are bytes of UTF-8. The code keeps 200 characters of a signature and 300
of a matching line, so a line has its `signature` and `snippet` in bytes, up to
four for a character (`SignatureBytes`, `SnippetBytes`). They are counted before
a result is written as JSON, which may escape a byte as six.

`RepoIndex` goes through a review in the order of `review.rs`: `Entry` for each
tar entry, `Build` for the symbol table, `NoTarball` and `Damaged` for the other
ends of the download; `Identifier` for each name of the diff; `Hint` for the
definitions sent with it; then `dispatch_tool` for any call the model makes,
whose answers are the functions `grep`, `definition`, `read_file` and
`list_files`. Directories, links, large and binary files are entries that
`Skipped` leaves out.

Correct means: the index holds the last text of every path that was read, and
is given up exactly when the texts pass the cap (`IndexFaithful`); the
definitions sent keep to both limits and pass the second by less than one
definition; they leave out no known name before the one at which a limit was
reached, and leave names only then, whatever limit the repository states
(`ContextBounded`, `ContextComplete`); the body of a definition is the item and
nothing behind it unless a cap ended it, and a cut by bytes is marked
(`BodyExact`, of the items of the first two kinds); every result has a bound,
and an error, which repeats what the model sent up to `ECHO` times, has one in
terms of that (`AnswersBounded`).

Two things the bounds show. A cut after 120 lines is not marked, unlike one by
bytes. And a line counts in full, so one `definition` answer may hold three
files' worth of bytes, about 3 MB with the code's constants, where the budget of
the whole review is 600 kB.

### DiffLines

The functions of `diff_digest.rs` read the same patches one after the other;
here they read in step, a line at a time, so that their counters can be
compared. `Header` and `Line` produce every patch git may produce up to
`MaxBytes` (`MayFollow` is its grammar: removed lines before added ones in a
change, the marker of a missing newline after the last line of a side) and
apply the four functions to it. `real` and `next` are the count git itself
makes. `Open` and `Close` are the loop of `build_digest` with its budget.

`length` is the byte the patch has got to, and `kept` what the cut leaves of the
next line: nothing of it, no byte behind a newline, a part or all. A part of a
line is labelled like the line; a header cut behind its "@@" may have lost its
number or the last digits of it (`Shortened`); an empty rest, a header cut to
"@", and the marker "[patch truncated]" are taken for context lines and get the
next number (`cut_labels`).

Correct means: the digest keeps to the budget (`DigestBounded`), a number the
model can read off a line is one that will be accepted as an anchor, wherever
the digest was cut, and at most two numbers stand on what is no line
(`LabelsCommentable`), content
is known for exactly the commentable lines (`SameLines`), and all numbers are
git's, but for one line per marker of a missing newline (`NumbersTrue`).

## 4. The runs

| run | question | bounds, and why they are enough |
|---|---|---|
| `listener_slots` | do slots, workers and pipes stay in balance through failures and a crash? | three deliveries for two slots: the smallest with both a wait for a slot and two workers at once; one crash, so that orphans of the old process meet workers of the new one, and the bounds on either (two) are below the number of deliveries |
| `listener_gate` | do only the stated triggers act, under a configuration that permits it, on a fresh head? | one delivery, since the filters are about one; 21 payloads, each failing one filter; six configurations; a push and edits between any two steps |
| `token_cache` | is every returned token for the right repository and alive? | two callers and two repositories of one installation: enough to race on a key and to mix up two; stated and unstated expiries; the clock ahead, right and behind, a mint signed behind being refused, and a token stored late and ahead being stale at once |
| `triage_comments` | what may never happen to the thread, and when is there one comment? | three jobs, two at a time, so that a third finds what a race left; three threads inherited from before: none, three old triage comments behind another bot's, and a bot's look-alike older than nogent's; one comment of others in between; a page of three comments |
| `triage_race` | *violated*: one comment, always | two jobs of a new issue |
| `triage_pages` | *violated*: one comment without any race | a page of two |
| `review_session` | cost, conversation, canary, merge, anchors, and the salvage of cut answers | two lenses, so that one follows the other; nine answers that cover whole, broken, empty, unvouched, duplicate and drifting findings, and limits passed by a description, another field or the summary; reviews cut at two findings; a turn of two calls, one of them without an id; a budget of one for tool output, which every turn with calls uses up; one line more counted than GitHub takes; three cut objects of six shapes |
| `review_push` | *violated*: the POST is never refused | one push |
| `review_shape` | *violated*: the required shape is enforced | as `review_session` |
| `diff_lines` | do budget and counts hold? | patches of up to 20 bytes: lines of two bytes and none, headers of three, so two hunks with a change each; limits of 9 and 13 bytes, which cut lines, headers and newlines at every place; three files: one takes its share, one gets the rest, one is beyond `max_files` |
| `diff_eof` | *violated*: only lines of the hunks are commentable | one patch of 13 bytes, four lines |
| `repo_index` | is the index faithful, are hints and answers complete and bounded? | two entries of a tarball, enough for two texts of one path, two sites of one name and the cap on the total; eleven entries that reach every cap of a body and every reason to skip, one of them with a signature of three bytes to the character and a destructured parameter; three identifiers for two hints; five configurations |

Deadlock is not checked: in every module the work ends (all deliveries
answered, all jobs done, the last file read, the last instant reached).

Bounds that are not in the code, `MaxPushes`, `MaxCrashes`, `MaxTime`,
`MaxOthers`, `MaxFiles`, `MaxBytes`, `MaxEntries`, `MaxTokens`, `MaxObjects`,
`Starts`, `Histories`, cap what the
environment does and appear only in the guards of its actions. Symmetry is used
for callers (`TokenCache`) and for jobs (`TriageComments`), in runs without
liveness properties.

Liveness is checked in two runs: `listener_slots` under `FairSpec`, weak
fairness of each task's own steps and of each worker's, and `review_session`
under `CFairSpec`, weak fairness of the review's own steps. tokio polls every task
that is ready; each HTTP call ends by its timeout; a worker makes a bounded
number of calls and never waits for anything else (`CallsBounded`,
`ReviewEnds`, and as theorems `ReviewsEnd` and `JobsEnd`). Nothing is assumed of deliveries, pushes,
edits, crashes or the death of children. That a child which hangs outside of
any call is not covered is a hazard of its own: `child.wait` has no timeout.

### Where the code and its documents differ

1. *One comment per issue* (`CHANGELOG.md:19`). Two jobs of one issue that
   overlap post a comment each (`triage_race`); and on an issue with 100 older
   comments every job posts another one (`triage_pages`). The next undisturbed
   job repairs the first case, nothing the second.
2. *The reviews POST never 422s* (`review.rs:117-119`). It may after a push
   during the review, as the request names no commit (`review_push`), and the
   review is lost.
3. *The only lines GitHub will accept* (`diff_digest.rs:216-221`). The marker
   `\ No newline at end of file` is counted as a line: one or two numbers after
   the hunk become commentable, and lines added after the old side's marker are
   labelled one too high (`diff_eof`; `NumbersTrue` says how far it goes).
4. *An answer that violates the required shape is discarded* (`README.md:30-33`).
   It is salvaged when the canary can be read (`review_shape`), and then posted
   with whatever is over a limit in it but a description.

Seen while modelling, without a run of their own:

- `maxContextBytes` "bounds the full changed-file content sent alongside" the
  diff (`DEPLOY.md:275`, `repo_config.rs:15-16`). No file contents are sent; it
  bounds the list of signatures, of which there are at most 40 (`Room`).
- `parse_rfc3339_secs` returns "`None` on any deviation" (`app_auth.rs:158`) but
  takes 30 February and 99:99:99.
- An added line that starts with `++` is taken for a file header
  (`diff_digest.rs:279`) and its identifiers are skipped.
- The escapes of a salvaged summary are dropped, not decoded: `\n` becomes `n`
  (`output_validator.rs:251`), and its length is not limited.
- `max_concurrent_jobs` is a "hard cap on simultaneous jobs" (`config.rs:32`).
  After a crash the orphans of the old process work beside a full set of new
  jobs: it is a cap for each life of the process (`WorkersBounded`).
- A line that is no removed one is "context or blank line [...] commentable"
  (`diff_digest.rs:153`). The truncation marker, an empty rest and a header cut
  to "@" come that way too, and are labelled with numbers that need not be
  (`cut_labels`).
- Another bot's comment that has nogent's marker or heading is updated or deleted
  like nogent's own (`triage.rs:72-73`); no document speaks of that case.

## 5. The proofs

The proof modules show `Init => IInv` and `IInv /\ [Next]_vars => IInv'`, one
step per action, and derive their theorems from the invariant `IInv`, or from a
few of them in turn.

| module | theorems | the invariant |
|---|---|---|
| `ListenerProofs` | type correctness, `SlotsBalanced`, `WorkersBounded`, `WorkersSupervised`, `NoTruncatedJobRuns`, `ReviewedMeansPosted`, `FailSecure`, `CommandReviewsLatest`, `OnlyTriggersAct`; every step is a step of `SlotPool` or a stutter | what a task at each `pc` has already passed: its filters, its configuration, its pipe and its worker. The balance counts the set of living tasks, hence the theorems on finite sets |
| | `TasksMoveOn`: each step of a task or its worker lowers `StepsLeft`, which is at most 10, and nothing but `Accept` raises it | the same |
| `TokenCacheProofs` | type correctness, `RightScope`, `HandedOutAlive`, `HitsKeepMargin` | a cached token outlives its own `refresh_after`, by the margin that the clock of its store left |
| | `ClockWindow`: for which skews GitHub takes a JWT, and for which `refresh_after` comes before the expiry; `MintsTellClock`: every mint happens within the former | `JwtKnows`: a call that waits holds a JWT of a clock the host had |
| | `NextDay`, `DaysAreCounted`, `StampsAreRead` of `CivilDate` | none: see below |
| `TriageCommentsProofs` | type correctness, `OthersUntouched`, `OldestSurvives`, `FailedRemovedNothing` | `Knows`: what a job remembers stays true while others write: comments keep their numbers and their authors, and whatever is to be deleted has an older triage comment before it. The same of calls in flight |
| | `SingleIfSerial` | `Serial`: unless jobs overlapped or a page was cut, at most one job or call may still write; a job that goes on to post found nothing, and a post in flight is the only call, with no job running and no comment there |
| | `HealsDuplicates` | `Calm`: while a job runs undisturbed, the comments to update and to delete that it remembers are all there are, and once it deletes the first has its text |
| | `JobsEnd`: each step of a job lowers `StepsLeft`, which is at most `PageSize + 3`, and nothing raises it | `VictimsKnow`: what is still to delete was on one page, and `PageIsShort` |
| `SelectionProofs` | lemmas only: what `At` returns | none |
| `FindingsProofs` | `DedupWell`: what `dedup_findings` keeps, and that it leaves out nothing but duplicates and what is no more severe than all of a full review | none; the sort is stable and by severity, and truncation keeps a prefix |
| | `CanaryReadWhole`, `CutSalvaged`, `SalvageAlwaysExact`: what the scans of a cut answer find | none: see below |
| `ReviewSessionProofs` | type correctness, `CallsBounded`, `ToolOutputBounded` | requests sent, left in this round and possible in later rounds together never exceed `MaxCalls` |
| | `CanaryGate`, `MergedWell`, `AnchorsInDiff` | `Gate`: each finding held comes from a vouched answer, there is no usable answer in the first pass and its retry and one in every lens, and what is posted was assembled from what is held |
| | `RequestsAccepted` | `RequestsAccepted` itself, beside the shape of the contents; what a round adds to an accepted conversation leaves it accepted (`ExtendedAccepted`) |
| | `PostsNoLongDescription`: no finding that is posted has a description over its limit; `RejectionHasCause`: a refused POST means a push since the listing, or a line counted as commentable that GitHub does not take | `Measured`: the descriptions of what was taken over from an answer have been measured; `AnchorsInDiff` |
| | `ReviewsEnd`: each step of a review lowers `StepsLeft`, which is at most `MaxCalls + 4`, and a push leaves it | that of `CallsBounded`, and how each answer ends its round (`RoundEnds`) |
| | `Implements`: `Conversation`'s specification implies `ReviewSession`'s | none: each of its steps is a step of the review beside a change of the contents |
| `DiffLinesProofs` | type correctness, `DigestBounded`, `LabelsCommentable`, `SameLines`, `NumbersTrue` | the counters: equal to each other, and to git's but for markers; retained and remaining bytes make the limit |
| `RepoIndexProofs` | type correctness, `AnswersBounded`, `BodyExact` | `Base`: configuration, files and symbols keep their shape through the stages, and every symbol is a line of a file |
| | `IndexFaithful` | `Indexed`: the files are the last texts of what was read, the total is their sum |
| | `ContextBounded`, `ContextComplete` | `ContextInv`: the bytes before a hint are below the limit, and the hints are those of the known names up to here |
| | `ContextAlwaysFits`: the same below the largest limit there is, whatever a repository states | `InRange`: each limit of the resolved configuration is in its range (`LimitIs`) |

The assumptions are the named `ASSUME`s of the modules, which TLC evaluates in
every run that extends them, and nothing else.

How the harder ones go:

- *Sequences.* A property of a loop that keeps some elements of a list is a
  property of `At(s, I)`. Its recursive function is described once, by the
  positions it picks (`AtPicks`, `AtMore`, `AtComplement`); what follows argues
  about positions and never about the recursion. So the merge of `MergedWell`
  rests on three facts: the sort has the positions of its input in order
  (`Sorts`), first occurrences differ in their keys, and the cut drops a suffix.
- *Sums.* `IndexFaithful` and the bounds on answers add up sizes over finite
  sets. The library defines such a sum by a choice of the next element;
  `AnyOrder` shows that the choice does not matter, and `SumOfMore` and
  `SumOfBounded` are what the rest cites.
- *Bodies.* `BodyOf` says where the loop of `extract_body` ends and that it was
  at depth above zero until then; `WellFormed` says the same of the item. That
  the two ends are one, or the caps came first, is `BodyExact`.
- *Induction.* The library's induction theorems take a predicate, which no
  installed prover can instantiate, but `WFMin` speaks of sets: a set of
  numbers that is not empty has a least one. `SetInduction` (a set with 0 that
  holds `n + 1` with each `n` has all of `Nat`) and `SubsetInduction` (the same
  for the subsets of a finite set) follow, and carry the existence of the
  recursive functions, the sums and the calendar.
- *The calendar.* Years start in March, so a leap day is the last day of its
  year, and `NextDay` has to show where the next year starts, inside of an era
  of 400 years and across two. By induction over the dates `DaysAreCounted`
  follows: the number of a date is the cardinality of the set of dates before
  it, from 1970 on. `StampsAreRead` adds the time of day.
- *Jobs of one issue.* `Serial` is not about one job. It says of all of them, and
  of the calls that outlive their senders, that one writer remains; that is why
  `raced` counts a call in flight like a running job.
- *Cut answers.* Strings and objects of JSON are the smallest sets closed under
  the rules by which they are written (`JsonStrings`, `JsonBodies`,
  `JsonObjects`), so what holds of the empty text and is kept by each rule
  holds of all of them, without any induction over data. For a string it is:
  the scan leaves it in the state it entered it, and was nowhere else
  (`StaysQuoted`); for the inside of an object: it comes back to the depth
  it had and reports nothing meanwhile (`StaysInside`). From there an object is
  found where it ends and not before (`ObjectFound`); `CutSalvaged` follows by
  induction over the number of objects. `QuotedIsObject` shows that the
  objects it is about do have strings with any braces and quotes in them.
- *Progress.* Where a property says that something ends, the proof gives what is
  used up on the way: `StepsLeft` falls with every step of a job, and no step of
  anyone else raises it. What is left to TLC is that a step is taken at all,
  which is fairness.

Only model-checked:

- `AllSlotsReturn` and the fairness part of `ImplementsPool`: liveness under
  fairness is beyond the prover. `TasksMoveOn` is the part of it that is not.
- `ReviewEnds`, for the same reason. That a review has no more than so many steps
  is `ReviewsEnd`.
- The properties of the five runs that expect a violation are false.

## 6. What is not modelled

- `from_dir`, `run_local` and `eval_job`, the command line review, which read a
  local checkout and post nothing.
- The regular expressions of the symbol table and of `grep`: which lines they
  match is part of a line.
- Prompts, Markdown, error texts, usage counters, reading the environment.
- The fences and the prose around an answer (`extract_object`), which decide
  only whether an answer counts as JSON.
- The HMAC: its verdict is an attribute of a delivery.
- The nono sandbox, its profile and its credential proxy.
- Deployment files.
- What GitHub does with an answer of 429 or a delivery that was lost.

Left to the design, with no promise in the code or its documents to check: an
older triage job may overwrite a newer one's comment (`triage.rs:82`); the first
occurrence of a finding keeps its severity (`output_validator.rs:222`); the
files and the snapshot of a review may be of two heads (`review.rs:68`); an
error in a lens loses the findings of the first pass (`review.rs:298`); a review
whose POST timed out may be there although the job failed
(`github_client.rs:393`); any refusal of the tarball counts as "there is none"
(`github_client.rs:241`); a name with several definitions is hinted at the first
by path (`repo_index.rs:196`). The models contain these behaviours.

## 7. Order of work, and what is left

In this order: listener and pool; token cache; triage comments; review
session with findings; diff lines; the proofs of each; repository index and
configuration; conversation; salvage; the calendar; the proofs of the merge,
the canary gate, the anchors, the conversation, serial and undisturbed triage
jobs and the repository index; then the proofs of salvage, of progress, of the
clock's window and of what a configuration can do.

Left open:

- `AnswersBounded` and `ToolOutputBounded` speak of one call and of all turns, in
  two modules that only the constant `MaxOutput` ties together. The code puts no
  bound on the calls of one turn, nor on what a call may send and have echoed, so
  no constant of the code gives `MaxOutput`.
- That `ReviewSession` and `TriageComments` are what `Listener`'s worker step
  opens up rests on the correspondence of section 2. `Implements` proves the one
  such step that is between two modules about the same job.

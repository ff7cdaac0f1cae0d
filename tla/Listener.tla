------------------------------ MODULE Listener ------------------------------
(***************************************************************************)
(* The webhook listener (webhook.rs, worker.rs, main.rs): it answers every *)
(* delivery at once, and for the events it serves it detaches a task that  *)
(* holds one permit of the worker_slots semaphore while it filters the     *)
(* event, obtains a token, reads the repository's configuration and runs a *)
(* worker, in its own process or as a nono child fed through a pipe.       *)
(*                                                                         *)
(* Outside the listener, the world moves: contributors push to the pull    *)
(* request, maintainers edit .github/nogent.json, and the process may be   *)
(* killed and started again, which no nono child notices.                  *)
(*                                                                         *)
(* The calls to GitHub and Gemini appear as steps that succeed or fail;    *)
(* TokenCache and TriageComments open two of them up.                      *)
(***************************************************************************)
EXTENDS Naturals, FiniteSets

CONSTANTS
  Deliveries,           \* webhook deliveries, each sent once
  MaxJobs,              \* max_concurrent_jobs
  Isolation,            \* worker_isolation: "in_process" or "nono"
  Repos,                \* repositories that send deliveries
  Owner,                \* Owner[r]: its owner, NoOwner if full_name does not split
  Installation,         \* Installation[r]: the App installation that covers it
  NoOwner,
  AllowedOwners,        \* the two allowlists of ListenerConfig
  AllowedInstallations,
  Payloads,             \* the payloads deliveries carry
  ConfigFiles,          \* the states .github/nogent.json takes
  MaxPushes,            \* bound: pushes to a pull request
  MaxCrashes            \* bound: crashes of the listener

WorkerEvents == {"pull_request", "issues", "issue_comment"}

Payload == [signed : BOOLEAN,    \* X-Hub-Signature-256 present and right
            event  : WorkerEvents \cup {"ping", "other"},
            parses : BOOLEAN,    \* the body deserializes as that event
            repo   : Repos,
            action : STRING,
            draft  : BOOLEAN,    \* pull_request.draft
            bot    : BOOLEAN,    \* the author looked at is a bot
            on_pr  : BOOLEAN,    \* issue.pull_request is present
            command : BOOLEAN]   \* the comment holds "/nogent review"

ConfigFile == [form : {"absent", "malformed", "json"},
               enabled : BOOLEAN, pr_review : BOOLEAN, issue_triage : BOOLEAN]

ASSUME ListenerAssumption ==
  /\ IsFiniteSet(Deliveries)
  /\ MaxJobs \in Nat \ {0}
  /\ Isolation \in {"in_process", "nono"}
  /\ Payloads \subseteq Payload
  /\ ConfigFiles \subseteq ConfigFile
  /\ MaxPushes \in Nat /\ MaxCrashes \in Nat

VARIABLES
  permits,  \* permits left in worker_slots
  status,   \* status[d]: the HTTP status answered, 0 before the delivery
  payload,  \* payload[d]: what delivery d carries
  pc,       \* pc[d]: where the detached task of d stands
  job,      \* job[d]: the EventJob it built
  worker,   \* worker[d]: the worker that runs the job
  pipe,     \* pipe[d]: the stdin of a nono worker
  posted,   \* deliveries whose worker posted to GitHub
  head,     \* head[r]: pushes to the pull request of r so far (its head_sha)
  config,   \* config[r]: .github/nogent.json as it stands on GitHub
  crashes,  \* how often the listener died
  headAt,   \* headAt[d]: the head when GitHub produced d
  headSeen, \* history: the head when the listener accepted d
  mayAct    \* history: since d was accepted, config[r] has allowed its job

taskVars == <<permits, pc, job>>
workerVars == <<worker, pipe, posted>>
worldVars == <<head, config, crashes>>
sentVars == <<status, payload, headAt, headSeen>>
vars == <<permits, status, payload, pc, job, worker, pipe, posted, head, config,
          crashes, headAt, headSeen, mayAct>>

NoJob == [kind |-> "none", head |-> 0]
Job == [kind : {"none", "pr_review", "issue_triage"}, head : Nat]

AtWork == {"dispatch", "token", "config", "fetch_pr", "start", "writing", "waiting"}
Ended == {"reviewed", "skipped", "failed", "lost"}
Running == {"reading", "working", "posted"}
Exited == {"exit_ok", "exit_err"}

\* The tasks that hold a permit, and the workers that are alive.
LiveTasks == {d \in Deliveries : pc[d] \in AtWork}
LiveWorkers == {d \in Deliveries : worker[d] \in Running}

\* The workers that outlived the listener that started them.
Orphans == {d \in LiveWorkers : pc[d] = "lost"}

-----------------------------------------------------------------------------
(* What the code decides from a payload and a configuration.               *)

is_actionable_pr_action(a) == a \in {"opened", "reopened", "ready_for_review"}

is_actionable_issue_action(a) == a \in {"opened", "edited", "reopened"}

\* An empty allowlist restricts nothing.
allowlist_permits(r) ==
  /\ AllowedInstallations = {} \/ Installation[r] \in AllowedInstallations
  /\ AllowedOwners = {} \/ Owner[r] \in AllowedOwners

PrFilter(p) == is_actionable_pr_action(p.action) /\ ~p.draft /\ ~p.bot

CommandFilter(p) == /\ p.action \in {"created", "edited"}
                    /\ p.on_pr /\ p.command /\ ~p.bot

IssueFilter(p) == ~p.on_pr /\ is_actionable_issue_action(p.action)

\* MUTANT of Passes: the allowlist is not consulted.
PassesUnlisted(p) ==
  /\ p.parses
  /\ \/ p.event = "pull_request" /\ PrFilter(p)
     \/ p.event = "issues" /\ IssueFilter(p)
     \/ p.event = "issue_comment" /\ CommandFilter(p)
  /\ Owner[p.repo] # NoOwner

\* The early returns of dispatch_pr, dispatch_issue and dispatch_command
\* before the first call to GitHub.
Passes(p) ==
  /\ p.parses
  /\ \/ p.event = "pull_request" /\ PrFilter(p)
     \/ p.event = "issues" /\ IssueFilter(p)
     \/ p.event = "issue_comment" /\ CommandFilter(p)
  /\ Owner[p.repo] # NoOwner
  /\ allowlist_permits(p.repo)

\* The kind of job an event asks for.
KindOf(p) == IF p.event = "issues" THEN "issue_triage" ELSE "pr_review"

\* ResolvedConfig::resolve followed by the caller's test of its flags. A
\* malformed file is an error, hence never a permission.
Allows(c, kind) ==
  \/ c.form = "absent"
  \/ /\ c.form = "json"
     /\ c.enabled
     /\ IF kind = "issue_triage" THEN c.issue_triage ELSE c.pr_review

-----------------------------------------------------------------------------
Init ==
  /\ permits = MaxJobs
  /\ status = [d \in Deliveries |-> 0]
  /\ payload \in [Deliveries -> Payloads]
  /\ pc = [d \in Deliveries |-> "idle"]
  /\ job = [d \in Deliveries |-> NoJob]
  /\ worker = [d \in Deliveries |-> "none"]
  /\ pipe = [d \in Deliveries |-> "none"]
  /\ posted = {}
  /\ head = [r \in Repos |-> 0]
  /\ config \in [Repos -> ConfigFiles]
  /\ crashes = 0
  /\ headAt = [d \in Deliveries |-> 0]
  /\ headSeen = [d \in Deliveries |-> 0]
  /\ mayAct = [d \in Deliveries |-> FALSE]

(* handle_webhook: the answer, and for a served event the permit and task. *)

Answer(d, code) ==
  /\ status[d] = 0
  /\ status' = [status EXCEPT ![d] = code]

\* GitHub sends a delivery some time after the event: pushes may lie between.
Sent(d) == \E h \in 0 .. head[payload[d].repo] : headAt' = [headAt EXCEPT ![d] = h]

\* 401, ping, and the events nogent does not subscribe to.
AnswerOnly(d) ==
  /\ \/ ~payload[d].signed /\ Answer(d, 401)
     \/ payload[d].signed /\ payload[d].event = "ping" /\ Answer(d, 200)
     \/ payload[d].signed /\ payload[d].event = "other" /\ Answer(d, 204)
  /\ UNCHANGED <<taskVars, workerVars, worldVars, payload, headAt, headSeen, mayAct>>

\* MUTANT of TurnAway: the last permit is kept back.
TurnAwayEarly(d) ==
  /\ payload[d].signed /\ payload[d].event \in WorkerEvents
  /\ permits <= 1
  /\ Answer(d, 429)
  /\ UNCHANGED <<taskVars, workerVars, worldVars, payload, headAt, headSeen, mayAct>>

\* try_acquire_owned fails.
TurnAway(d) ==
  /\ payload[d].signed /\ payload[d].event \in WorkerEvents
  /\ permits = 0
  /\ Answer(d, 429)
  /\ UNCHANGED <<taskVars, workerVars, worldVars, payload, headAt, headSeen, mayAct>>

\* MUTANT of Accept: the semaphore is not asked.
AcceptUnchecked(d) ==
  /\ payload[d].signed /\ payload[d].event \in WorkerEvents
  /\ Answer(d, 202)
  /\ Sent(d)
  /\ permits' = permits - 1
  /\ pc' = [pc EXCEPT ![d] = "dispatch"]
  /\ UNCHANGED <<payload, job, workerVars, worldVars, headSeen, mayAct>>

Accept(d) ==
  /\ payload[d].signed /\ payload[d].event \in WorkerEvents
  /\ permits > 0
  /\ Answer(d, 202)
  /\ Sent(d)
  /\ permits' = permits - 1
  /\ pc' = [pc EXCEPT ![d] = "dispatch"]
  /\ headSeen' = [headSeen EXCEPT ![d] = head[payload[d].repo]]
  /\ mayAct' = [mayAct EXCEPT ![d] =
                  Allows(config[payload[d].repo], KindOf(payload[d]))]
  /\ UNCHANGED <<payload, job, workerVars, worldVars>>

(* The detached task: dispatch, then dispatch_pr, _issue or _command.      *)

Goto(d, from, to) == pc[d] = from /\ pc' = [pc EXCEPT ![d] = to]

\* The task returns: Ok after its worker, Ok early, or an error that is only
\* logged. Its permit is dropped with it.
Return(d, from, result) ==
  /\ Goto(d, from, result)
  /\ permits' = permits + 1

Dispatch(d) ==
  /\ \/ Passes(payload[d]) /\ Goto(d, "dispatch", "token") /\ UNCHANGED permits
     \/ ~Passes(payload[d]) /\ payload[d].parses /\ Return(d, "dispatch", "skipped")
     \/ ~payload[d].parses /\ Return(d, "dispatch", "failed")
  /\ UNCHANGED <<job, workerVars, worldVars, sentVars, mayAct>>

installation_token(d) ==
  /\ \/ Goto(d, "token", "config") /\ UNCHANGED permits
     \/ Return(d, "token", "failed")                   \* signing or minting failed
  /\ UNCHANGED <<job, workerVars, worldVars, sentVars, mayAct>>

\* MUTANT of Permitted: a malformed file means the defaults.
PermittedByDefault(d) == \/ config[payload[d].repo].form = "malformed"
                         \/ Allows(config[payload[d].repo], KindOf(payload[d]))

\* The configuration resolve_config fetches permits the job.
Permitted(d) == Allows(config[payload[d].repo], KindOf(payload[d]))

\* resolve_config, then pr_job with the head the payload names, or for a
\* command the pull request still to be fetched.
ResolveConfig(d) ==
  LET p == payload[d] IN
  /\ \/ /\ Permitted(d)
        /\ UNCHANGED permits
        /\ \/ p.event = "issue_comment" /\ Goto(d, "config", "fetch_pr") /\ UNCHANGED job
           \/ /\ p.event # "issue_comment"
              /\ Goto(d, "config", "start")
              /\ job' = [job EXCEPT ![d] =
                           [kind |-> KindOf(p),
                            head |-> IF KindOf(p) = "pr_review" THEN headAt[d] ELSE 0]]
     \/ /\ ~Permitted(d) /\ config[p.repo].form # "malformed"
        /\ Return(d, "config", "skipped") /\ UNCHANGED job
     \/ Return(d, "config", "failed") /\ UNCHANGED job   \* malformed, or not fetched
  /\ UNCHANGED <<workerVars, worldVars, sentVars, mayAct>>

\* MUTANT of FetchedHead: the head known when the command was written.
HeadOfPayload(d) == headAt[d]

\* The head_sha GitHub answers with.
FetchedHead(d) == head[payload[d].repo]

get_pull_request(d) ==
  /\ \/ /\ Goto(d, "fetch_pr", "start") /\ UNCHANGED permits
        /\ job' = [job EXCEPT ![d] = [kind |-> "pr_review", head |-> FetchedHead(d)]]
     \/ Return(d, "fetch_pr", "failed") /\ UNCHANGED job
  /\ UNCHANGED <<workerVars, worldVars, sentVars, mayAct>>

(* worker::run.                                                            *)

\* run_job awaited in the listener's own process.
StartInProcess(d) ==
  /\ Isolation = "in_process"
  /\ Goto(d, "start", "waiting")
  /\ worker' = [worker EXCEPT ![d] = "working"]
  /\ UNCHANGED <<permits, job, pipe, posted, worldVars, sentVars, mayAct>>

\* run_sandboxed up to the spawn: the job may be too large, the spawn may fail.
SpawnNono(d) ==
  /\ Isolation = "nono"
  /\ \/ /\ Goto(d, "start", "writing") /\ UNCHANGED permits
        /\ worker' = [worker EXCEPT ![d] = "reading"]
        /\ pipe' = [pipe EXCEPT ![d] = "open"]
     \/ Return(d, "start", "failed") /\ UNCHANGED <<worker, pipe>>
  /\ UNCHANGED <<job, posted, worldVars, sentVars, mayAct>>

\* MUTANT of Kill: without kill_on_drop the child goes on.
Forget(d) == worker' = worker

\* Child is dropped: kill_on_drop.
Kill(d) == worker' = [worker EXCEPT ![d] = IF @ \in Running THEN "exit_err" ELSE @]

\* MUTANT of WriteJob: an error path that leaks the permit.
WriteJobLeaks(d) ==
  /\ \/ /\ Goto(d, "writing", "waiting") /\ UNCHANGED worker
        /\ pipe' = [pipe EXCEPT ![d] = "full"]
     \/ /\ Goto(d, "writing", "failed") /\ Kill(d)
        /\ pipe' = [pipe EXCEPT ![d] = "cut"]
  /\ UNCHANGED <<permits, job, posted, worldVars, sentVars, mayAct>>

\* write_all then drop(stdin); a write error returns and drops the child.
WriteJob(d) ==
  /\ \/ /\ Goto(d, "writing", "waiting") /\ UNCHANGED <<permits, worker>>
        /\ pipe' = [pipe EXCEPT ![d] = "full"]
     \/ /\ Return(d, "writing", "failed") /\ Kill(d)
        /\ pipe' = [pipe EXCEPT ![d] = "cut"]
  /\ UNCHANGED <<job, posted, worldVars, sentVars, mayAct>>

\* MUTANT of WorkerEnded: the exit status is not looked at.
WorkerEndedAnyhow(d) ==
  /\ worker[d] \in Exited
  /\ Return(d, "waiting", "reviewed")
  /\ UNCHANGED <<job, workerVars, worldVars, sentVars, mayAct>>

\* run_job returned, or child.wait did with the child's exit status.
WorkerEnded(d) ==
  /\ \/ worker[d] = "exit_ok" /\ Return(d, "waiting", "reviewed")
     \/ worker[d] = "exit_err" /\ Return(d, "waiting", "failed")
  /\ UNCHANGED <<job, workerVars, worldVars, sentVars, mayAct>>

\* child.wait itself failed.
WaitFails(d) ==
  /\ Isolation = "nono"
  /\ Return(d, "waiting", "failed") /\ Kill(d)
  /\ UNCHANGED <<job, pipe, posted, worldVars, sentVars, mayAct>>

(* The worker.                                                             *)

Become(d, from, to) == worker[d] \in from /\ worker' = [worker EXCEPT ![d] = to]

\* MUTANT of ReadJob: a truncated job is taken for a whole one.
ReadJobAnyhow(d) ==
  /\ pipe[d] \in {"full", "cut"} /\ Become(d, {"reading"}, "working")
  /\ UNCHANGED <<taskVars, pipe, posted, worldVars, sentVars, mayAct>>

\* run_from_stdin reads to the end of the pipe; a truncated job does not
\* parse, and the credentials may be missing or not phantom.
ReadJob(d) ==
  /\ \/ pipe[d] = "full" /\ \E to \in {"working", "exit_err"} : Become(d, {"reading"}, to)
     \/ pipe[d] = "cut" /\ Become(d, {"reading"}, "exit_err")
  /\ UNCHANGED <<taskVars, pipe, posted, worldVars, sentVars, mayAct>>

\* review::run or triage::run makes its comment.
Post(d) ==
  /\ Become(d, {"working"}, "posted")
  /\ posted' = posted \cup {d}
  /\ UNCHANGED <<taskVars, pipe, worldVars, sentVars, mayAct>>

\* It returns; an error may come before the comment, or after it when the
\* answer of the POST is lost.
WorkerExits(d) ==
  /\ \/ Become(d, {"posted"}, "exit_ok")
     \/ Become(d, {"working", "posted"}, "exit_err")
  /\ UNCHANGED <<taskVars, pipe, posted, worldVars, sentVars, mayAct>>

\* nono refuses the profile, or the child is killed.
ChildDies(d) ==
  /\ Isolation = "nono"
  /\ Become(d, Running, "exit_err")
  /\ UNCHANGED <<taskVars, pipe, posted, worldVars, sentVars, mayAct>>

(* The process dies and is started again; the world moves on.              *)

\* MUTANT of Crash: a restart that makes a new semaphore beside the old tasks.
CrashKeepsTasks ==
  /\ crashes < MaxCrashes
  /\ crashes' = crashes + 1
  /\ permits' = MaxJobs
  /\ UNCHANGED <<pc, job, workerVars, head, config, sentVars, mayAct>>

\* Every task is lost, the semaphore is new. A nono child lives on and finds
\* the end of its stdin where the listener had got to.
Crash ==
  /\ crashes < MaxCrashes
  /\ crashes' = crashes + 1
  /\ permits' = MaxJobs
  /\ pc' = [d \in Deliveries |-> IF pc[d] \in AtWork THEN "lost" ELSE pc[d]]
  /\ pipe' = [d \in Deliveries |-> IF pipe[d] = "open" THEN "cut" ELSE pipe[d]]
  /\ worker' = [d \in Deliveries |->
                  IF Isolation = "in_process" /\ worker[d] \in Running
                  THEN "exit_err" ELSE worker[d]]
  /\ UNCHANGED <<job, posted, head, config, sentVars, mayAct>>

Push(r) ==
  /\ head[r] < MaxPushes
  /\ head' = [head EXCEPT ![r] = @ + 1]
  /\ UNCHANGED <<taskVars, workerVars, config, crashes, sentVars, mayAct>>

EditConfig(r) ==
  /\ \E c \in ConfigFiles \ {config[r]} :
       /\ config' = [config EXCEPT ![r] = c]
       /\ mayAct' = [d \in Deliveries |->
                       \/ mayAct[d]
                       \/ /\ status[d] = 202 /\ payload[d].repo = r
                          /\ Allows(c, KindOf(payload[d]))]
  /\ UNCHANGED <<taskVars, workerVars, head, crashes, sentVars>>

-----------------------------------------------------------------------------
Webhook(d) == AnswerOnly(d) \/ TurnAway(d) \/ Accept(d)

TaskStep(d) ==
  \/ Dispatch(d) \/ installation_token(d) \/ ResolveConfig(d) \/ get_pull_request(d)
  \/ StartInProcess(d) \/ SpawnNono(d) \/ WriteJob(d) \/ WorkerEnded(d)

WorkerStep(d) == ReadJob(d) \/ Post(d) \/ WorkerExits(d)

Next ==
  \/ \E d \in Deliveries : \/ Webhook(d) \/ TaskStep(d) \/ WorkerStep(d)
                           \/ WaitFails(d) \/ ChildDies(d)
  \/ Crash
  \/ \E r \in Repos : Push(r) \/ EditConfig(r)

Spec == Init /\ [][Next]_vars

\* tokio polls every task, every HTTP call ends by its timeout (20 s GitHub,
\* 60 s Gemini) and a worker makes boundedly many. Nothing is assumed of the
\* outside: deliveries, pushes, edits, crashes, a child's death.
FairSpec ==
  /\ Spec
  /\ \A d \in Deliveries : WF_vars(TaskStep(d)) /\ WF_vars(WorkerStep(d))

-----------------------------------------------------------------------------
(* Type invariant.                                                         *)

\* The shape of the listener's state.
TypeOK ==
  /\ permits \in Nat
  /\ status \in [Deliveries -> {0, 200, 202, 204, 401, 429}]
  /\ payload \in [Deliveries -> Payloads]
  /\ pc \in [Deliveries -> AtWork \cup Ended \cup {"idle"}]
  /\ job \in [Deliveries -> Job]
  /\ worker \in [Deliveries -> Running \cup Exited \cup {"none"}]
  /\ pipe \in [Deliveries -> {"none", "open", "full", "cut"}]
  /\ posted \subseteq Deliveries
  /\ head \in [Repos -> Nat]
  /\ config \in [Repos -> ConfigFiles]
  /\ crashes \in Nat
  /\ headAt \in [Deliveries -> Nat] /\ headSeen \in [Deliveries -> Nat]
  /\ mayAct \in [Deliveries -> BOOLEAN]

(* Safety.                                                                 *)

\* Every way a task can end gives its permit back, once: what the semaphore
\* has left and what the living tasks hold always make max_concurrent_jobs.
SlotsBalanced == permits + Cardinality(LiveTasks) = MaxJobs

\* The workers alive on the machine are bounded, the "hard cap on simultaneous
\* jobs" being one for each life of the process: those the listener watches fit
\* with the free slots into MaxJobs, whatever orphans there are beside them, and
\* a crash leaves no more than MaxJobs orphans.
WorkersBounded ==
  /\ permits + Cardinality(LiveWorkers \ Orphans) <= MaxJobs
  /\ Cardinality(Orphans) <= MaxJobs * crashes

\* kill_on_drop: but for a crash of the listener no worker runs unsupervised,
\* so none works or posts outside the slots.
WorkersSupervised ==
  \A d \in Deliveries : worker[d] \in Running => pc[d] \in {"writing", "waiting", "lost"}

\* A job whose pipe broke half-way (write error, crash) is never worked on.
NoTruncatedJobRuns ==
  \A d \in Deliveries :
    worker[d] \in {"working", "posted", "exit_ok"} /\ Isolation = "nono" => pipe[d] = "full"

\* The task reports success only for a job whose worker made its comment: a
\* child that exits badly, dies or is killed is a failed job.
ReviewedMeansPosted == \A d \in Deliveries : pc[d] = "reviewed" => d \in posted

\* Fail-secure configuration: a worker starts only for a repository whose
\* configuration permitted that kind of job at some time since the delivery
\* was accepted. An absent file permits; a malformed or unread one never does.
FailSecure == \A d \in Deliveries : worker[d] # "none" => mayAct[d]

\* "/nogent review" reviews the latest commit: a head at least as new as the
\* one the listener could see when the command arrived, whatever is pushed
\* while the task waits for its token and configuration.
CommandReviewsLatest ==
  \A d \in Deliveries :
    payload[d].event = "issue_comment" /\ job[d].kind # "none" => job[d].head >= headSeen[d]

\* Triggers as the README states them: only signed deliveries of an allowed
\* owner and installation make nogent act, never a bot's pull request or
\* comment, a draft, a push, or the issues event of a pull request.
OnlyTriggersAct ==
  \A d \in Deliveries : pc[d] \in AtWork \ {"dispatch"} \/ worker[d] # "none" =>
    LET p == payload[d] IN
    /\ p.signed
    /\ AllowedOwners # {} => Owner[p.repo] \in AllowedOwners
    /\ AllowedInstallations # {} => Installation[p.repo] \in AllowedInstallations
    /\ p.action \notin {"synchronize", "closed", "deleted"}
    /\ p.event = "pull_request" => ~(p.draft \/ p.bot)
    /\ p.event = "issue_comment" => p.on_pr /\ p.command /\ ~p.bot
    /\ p.event = "issues" => ~p.on_pr

(* Liveness.                                                               *)

\* No permit leaks: once the deliveries stop, the semaphore is full again,
\* whatever failed and however often the process died.
AllSlotsReturn == <>[](permits = MaxJobs)

\* The abstract pool: the task of d runs from its 202 to its end.
StageOf(d) ==
  CASE status[d] = 0 -> "unseen"
    [] status[d] \in {200, 204, 401} -> "ignored"
    [] status[d] = 429 -> "refused"
    [] status[d] = 202 /\ pc[d] \in AtWork -> "running"
    [] OTHER -> "ended"

StageMap == [d \in Deliveries |-> StageOf(d)]

Pool == INSTANCE SlotPool WITH Capacity <- MaxJobs, stage <- StageMap

\* The semaphore implements the pool: a delivery is turned away only while
\* MaxJobs tasks run, admitted only while fewer do, and every task ends.
ImplementsPool == Pool!PoolSpec

=============================================================================

--------------------------- MODULE ListenerProofs ---------------------------
(***************************************************************************)
(* The safety properties of Listener, for any number of deliveries, slots, *)
(* repositories, pushes and crashes.                                       *)
(***************************************************************************)
EXTENDS Listener, FiniteSetTheorems, TLAPS

Early == {"idle", "dispatch", "token", "config"}

(* The strengthening: what each place of the task knows.                   *)

\* A task exists exactly for a delivery that was answered 202.
TaskKnows ==
  \A d \in Deliveries :
    /\ (pc[d] = "idle") <=> (status[d] # 202)
    /\ status[d] = 202 => payload[d].signed /\ payload[d].event \in WorkerEvents

\* Past the filters, the payload passes them.
FilterKnows ==
  \A d \in Deliveries :
    pc[d] \in AtWork \ {"dispatch"} \/ worker[d] # "none" => Passes(payload[d])

\* mayAct misses no configuration the task could still read, and past
\* resolve_config the configuration has been seen to permit the job.
ConfigKnows ==
  \A d \in Deliveries :
    /\ pc[d] # "idle" /\ Allows(config[payload[d].repo], KindOf(payload[d])) => mayAct[d]
    /\ pc[d] \in {"fetch_pr", "start", "writing", "waiting"} => mayAct[d]
    /\ worker[d] # "none" => mayAct[d]

\* The head can only have moved on since the delivery was accepted.
HeadKnows ==
  \A d \in Deliveries :
    /\ headSeen[d] <= head[payload[d].repo]
    /\ pc[d] \in Early \cup {"fetch_pr"} => job[d].kind = "none"
    /\ payload[d].event = "issue_comment" /\ job[d].kind # "none" => job[d].head >= headSeen[d]

\* How task, worker and pipe go together.
WorkerKnows ==
  \A d \in Deliveries :
    /\ pc[d] \in Early \cup {"fetch_pr", "start"} => worker[d] = "none" /\ pipe[d] = "none"
    /\ worker[d] \in Running => pc[d] \in {"writing", "waiting", "lost"}
    /\ pc[d] = "writing" => worker[d] \in {"reading", "exit_err"} /\ Isolation = "nono"
    /\ pipe[d] = "open" <=> pc[d] = "writing"
    /\ worker[d] = "reading" => Isolation = "nono"
    /\ worker[d] \in {"working", "posted", "exit_ok"} /\ Isolation = "nono" => pipe[d] = "full"
    /\ worker[d] \in Running /\ pc[d] = "lost" => Isolation = "nono"
    /\ worker[d] \in {"posted", "exit_ok"} \/ pc[d] = "reviewed" => d \in posted

Knows == TypeOK /\ TaskKnows /\ FilterKnows /\ ConfigKnows /\ HeadKnows /\ WorkerKnows

-----------------------------------------------------------------------------
(* Type correctness.                                                       *)

LEMMA InitType == Init => TypeOK
BY ListenerAssumption DEF Init, TypeOK, NoJob, Job, Running, Exited, AtWork, Ended

LEMMA AllowsBoolean == \A c, kind : Allows(c, kind) \in BOOLEAN
BY Zenon DEF Allows

LEMMA NextType == TypeOK /\ [Next]_vars => TypeOK'
<1> SUFFICES ASSUME TypeOK, [Next]_vars PROVE TypeOK'
  OBVIOUS
<1> USE DEF TypeOK, taskVars, workerVars, worldVars, sentVars
<1>1. ASSUME NEW d \in Deliveries, AnswerOnly(d) \/ TurnAway(d) PROVE TypeOK'
  BY <1>1 DEF AnswerOnly, TurnAway, Answer
<1>2. ASSUME NEW d \in Deliveries, Accept(d) PROVE TypeOK'
  <2>1. payload[d].repo \in Repos
    BY ListenerAssumption DEF Payload
  <2>2. mayAct' \in [Deliveries -> BOOLEAN]
    BY <1>2, AllowsBoolean DEF Accept
  <2>3. head[payload[d].repo] \in Nat
    BY <2>1
  <2>4. headSeen' \in [Deliveries -> Nat]
    BY <1>2, <2>3 DEF Accept
  <2>5. headAt' \in [Deliveries -> Nat]
    BY <1>2, <2>3 DEF Accept, Sent
  <2> QED
    BY <1>2, <2>2, <2>4, <2>5 DEF Accept, Answer, AtWork
<1>3. ASSUME NEW d \in Deliveries, Dispatch(d) \/ installation_token(d) PROVE TypeOK'
  BY <1>3 DEF Dispatch, installation_token, Goto, Return, AtWork, Ended
<1>4. ASSUME NEW d \in Deliveries, ResolveConfig(d) PROVE TypeOK'
  <2>1. [kind |-> KindOf(payload[d]),
         head |-> IF KindOf(payload[d]) = "pr_review" THEN headAt[d] ELSE 0] \in Job
    BY DEF Job, KindOf
  <2>2. job' \in [Deliveries -> Job]
    BY <1>4, <2>1 DEF ResolveConfig
  <2> QED
    BY <1>4, <2>2 DEF ResolveConfig, Goto, Return, AtWork, Ended
<1>5. ASSUME NEW d \in Deliveries, get_pull_request(d) PROVE TypeOK'
  <2>1. [kind |-> "pr_review", head |-> head[payload[d].repo]] \in Job
    BY ListenerAssumption DEF Job, Payload
  <2> QED
    BY <1>5, <2>1 DEF get_pull_request, FetchedHead, Goto, Return, AtWork, Ended
<1>6. ASSUME NEW d \in Deliveries, StartInProcess(d) \/ SpawnNono(d) PROVE TypeOK'
  BY <1>6 DEF StartInProcess, SpawnNono, Goto, Return, AtWork, Ended, Running
<1>7. ASSUME NEW d \in Deliveries, WriteJob(d) \/ WorkerEnded(d) \/ WaitFails(d) PROVE TypeOK'
  BY <1>7 DEF WriteJob, WorkerEnded, WaitFails, Kill, Goto, Return, AtWork, Ended, Exited
<1>8. ASSUME NEW d \in Deliveries, WorkerStep(d) \/ ChildDies(d) PROVE TypeOK'
  BY <1>8 DEF WorkerStep, ReadJob, Post, WorkerExits, ChildDies, Become, Running, Exited
<1>9. ASSUME Crash PROVE TypeOK'
  BY <1>9, ListenerAssumption DEF Crash, Exited, Ended
<1>10. ASSUME NEW r \in Repos, Push(r) PROVE TypeOK'
  BY <1>10 DEF Push
<1>11. ASSUME NEW r \in Repos, EditConfig(r) PROVE TypeOK'
  <2>1. PICK c \in ConfigFiles \ {config[r]} :
          /\ config' = [config EXCEPT ![r] = c]
          /\ mayAct' = [d \in Deliveries |->
                          \/ mayAct[d]
                          \/ /\ status[d] = 202 /\ payload[d].repo = r
                             /\ Allows(c, KindOf(payload[d]))]
    BY <1>11 DEF EditConfig
  <2>2. mayAct' \in [Deliveries -> BOOLEAN]
    BY <2>1
  <2> QED
    BY <1>11, <2>1, <2>2 DEF EditConfig
<1>12. CASE UNCHANGED vars
  BY <1>12 DEF vars
<1> QED
  BY <1>1, <1>2, <1>3, <1>4, <1>5, <1>6, <1>7, <1>8, <1>9, <1>10, <1>11, <1>12
  DEF Next, Webhook, TaskStep

\* Every variable keeps its type.
THEOREM TypeCorrect == Spec => []TypeOK
BY InitType, NextType, PTL DEF Spec

-----------------------------------------------------------------------------
(* The strengthening is inductive, one lemma for each of its parts.        *)

LEMMA InitKnows == Init => Knows
<1> SUFFICES ASSUME Init PROVE Knows
  OBVIOUS
<1>1. TypeOK
  BY InitType
<1>2. TaskKnows /\ FilterKnows /\ WorkerKnows
  BY DEF Init, TaskKnows, FilterKnows, WorkerKnows, AtWork, Running
<1>3. ConfigKnows
  BY DEF Init, ConfigKnows
<1>4. HeadKnows
  BY ListenerAssumption DEF Init, HeadKnows, NoJob, Payload
<1> QED
  BY <1>1, <1>2, <1>3, <1>4 DEF Knows

LEMMA NextTask == TypeOK /\ TaskKnows /\ [Next]_vars => TaskKnows'
<1> SUFFICES ASSUME TypeOK, TaskKnows, [Next]_vars, NEW d \in Deliveries
             PROVE  /\ (pc[d] = "idle")' <=> (status[d] # 202)'
                    /\ (status[d] = 202)' =>
                         (payload[d].signed /\ payload[d].event \in WorkerEvents)'
  BY DEF TaskKnows
<1> USE DEF TypeOK, TaskKnows, taskVars, workerVars, worldVars, sentVars, AtWork, Ended
<1>1. CASE \E e \in Deliveries : Webhook(e)
  BY <1>1 DEF Webhook, AnswerOnly, TurnAway, Accept, Answer
<1>2. CASE \E e \in Deliveries : TaskStep(e) \/ WaitFails(e)
  BY <1>2 DEF TaskStep, Dispatch, installation_token, ResolveConfig, Permitted, get_pull_request,
              StartInProcess, SpawnNono, WriteJob, WorkerEnded, WaitFails, Goto, Return
<1>3. CASE \E e \in Deliveries : WorkerStep(e) \/ ChildDies(e)
  BY <1>3 DEF WorkerStep, ReadJob, Post, WorkerExits, ChildDies
<1>4. CASE Crash
  BY <1>4 DEF Crash
<1>5. CASE \E r \in Repos : Push(r) \/ EditConfig(r)
  BY <1>5 DEF Push, EditConfig
<1>6. CASE UNCHANGED vars
  BY <1>6 DEF vars
<1> QED
  BY <1>1, <1>2, <1>3, <1>4, <1>5, <1>6 DEF Next

LEMMA NextFilter == TypeOK /\ FilterKnows /\ WorkerKnows /\ [Next]_vars => FilterKnows'
<1> SUFFICES ASSUME TypeOK, FilterKnows, WorkerKnows, [Next]_vars, NEW d \in Deliveries,
                    (pc[d] \in AtWork \ {"dispatch"} \/ worker[d] # "none")'
             PROVE  Passes(payload[d])'
  BY DEF FilterKnows
<1> USE DEF TypeOK, FilterKnows, taskVars, workerVars, worldVars, sentVars, AtWork, Ended
<1>0. Passes(payload[d]) /\ payload' = payload => Passes(payload[d])'
  BY Zenon
<1>1. CASE \E e \in Deliveries : Webhook(e)
  BY <1>0, <1>1 DEF Webhook, AnswerOnly, TurnAway, Accept, Answer
<1>2. CASE \E e \in Deliveries : Dispatch(e)
  BY <1>0, <1>2 DEF Dispatch, Goto, Return
<1>3. CASE \E e \in Deliveries : TaskStep(e) \/ WaitFails(e)
  BY <1>0, <1>2, <1>3
  DEF TaskStep, installation_token, ResolveConfig, Permitted, get_pull_request, StartInProcess,
      SpawnNono, WriteJob, WorkerEnded, WaitFails, Goto, Return, Kill
<1>4. CASE \E e \in Deliveries : WorkerStep(e) \/ ChildDies(e)
  BY <1>0, <1>4 DEF WorkerStep, ReadJob, Post, WorkerExits, ChildDies, Become, Running
<1>5. CASE Crash
  BY <1>0, <1>5 DEF Crash, Running
<1>6. CASE \E r \in Repos : Push(r) \/ EditConfig(r)
  BY <1>0, <1>6 DEF Push, EditConfig
<1>7. CASE UNCHANGED vars
  BY <1>0, <1>7 DEF vars
<1> QED
  BY <1>1, <1>2, <1>3, <1>4, <1>5, <1>6, <1>7 DEF Next

LEMMA NextConfig ==
  TypeOK /\ TaskKnows /\ ConfigKnows /\ WorkerKnows /\ [Next]_vars => ConfigKnows'
<1> SUFFICES ASSUME TypeOK, TaskKnows, ConfigKnows, WorkerKnows, [Next]_vars,
                    NEW d \in Deliveries
             PROVE  /\ (pc[d] # "idle")' /\ Allows(config[payload[d].repo], KindOf(payload[d]))'
                         => mayAct[d]'
                    /\ (pc[d] \in {"fetch_pr", "start", "writing", "waiting"})' => mayAct[d]'
                    /\ (worker[d] # "none")' => mayAct[d]'
  BY DEF ConfigKnows
<1> USE DEF TypeOK, TaskKnows, ConfigKnows, taskVars, workerVars, worldVars, sentVars, AtWork, Ended
<1>0. payload[d].repo \in Repos
  BY ListenerAssumption DEF Payload
<1>1. CASE \E e \in Deliveries : AnswerOnly(e) \/ TurnAway(e)
  BY <1>1 DEF AnswerOnly, TurnAway, Answer
<1>2. CASE \E e \in Deliveries : Accept(e)
  <2> PICK e \in Deliveries : Accept(e)
    BY <1>2
  <2>1. UNCHANGED <<payload, config, worker>>
    BY DEF Accept
  <2>2. CASE e = d
    <3>1. mayAct'[d] = Allows(config[payload[d].repo], KindOf(payload[d]))
      BY <2>2 DEF Accept
    <3>2. pc'[d] = "dispatch" /\ worker[d] = "none"
      BY <2>2 DEF Accept, Answer, WorkerKnows, Early
    <3> QED
      BY <2>1, <3>1, <3>2
  <2>3. CASE e # d
    BY <2>1, <2>3 DEF Accept
  <2> QED
    BY <2>2, <2>3
<1>3. CASE \E e \in Deliveries : TaskStep(e) \/ WaitFails(e)
  BY <1>3
  DEF TaskStep, Dispatch, installation_token, ResolveConfig, Permitted, get_pull_request, StartInProcess,
      SpawnNono, WriteJob, WorkerEnded, WaitFails, Goto, Return, Kill
<1>4. CASE \E e \in Deliveries : WorkerStep(e) \/ ChildDies(e)
  BY <1>4 DEF WorkerStep, ReadJob, Post, WorkerExits, ChildDies, Become, Running
<1>5. CASE Crash
  BY <1>5 DEF Crash, Running
<1>6. CASE \E r \in Repos : EditConfig(r)
  BY <1>0, <1>6 DEF EditConfig
<1>7. CASE \E r \in Repos : Push(r)
  BY <1>7 DEF Push
<1>8. CASE UNCHANGED vars
  BY <1>8 DEF vars
<1> QED
  BY <1>1, <1>2, <1>3, <1>4, <1>5, <1>6, <1>7, <1>8 DEF Next, Webhook

LEMMA NextHead ==
  TypeOK /\ TaskKnows /\ HeadKnows /\ [Next]_vars => HeadKnows'
<1> SUFFICES ASSUME TypeOK, TaskKnows, HeadKnows, [Next]_vars, NEW d \in Deliveries
             PROVE  /\ (headSeen[d] <= head[payload[d].repo])'
                    /\ (pc[d] \in Early \cup {"fetch_pr"})' => (job[d].kind = "none")'
                    /\ (payload[d].event = "issue_comment" /\ job[d].kind # "none")'
                         => (job[d].head >= headSeen[d])'
  BY DEF HeadKnows
<1> USE DEF TypeOK, HeadKnows, taskVars, workerVars, worldVars, sentVars, AtWork, Ended, Early
<1>0. \A e \in Deliveries : payload[e].repo \in Repos /\ head[payload[e].repo] \in Nat
  BY ListenerAssumption DEF Payload
<1>1. CASE \E e \in Deliveries : AnswerOnly(e) \/ TurnAway(e)
  BY <1>1 DEF AnswerOnly, TurnAway, Answer
<1>2. CASE \E e \in Deliveries : Accept(e)
  BY <1>0, <1>2 DEF Accept, Answer, TaskKnows
<1>3. CASE \E e \in Deliveries : ResolveConfig(e)
  BY <1>3 DEF ResolveConfig, Goto, Return
<1>4. CASE \E e \in Deliveries : get_pull_request(e)
  BY <1>0, <1>4 DEF get_pull_request, FetchedHead, Goto, Return
<1>5. CASE \E e \in Deliveries : TaskStep(e) \/ WaitFails(e)
  BY <1>3, <1>4, <1>5
  DEF TaskStep, Dispatch, installation_token, StartInProcess, SpawnNono, WriteJob,
      WorkerEnded, WaitFails, Goto, Return
<1>6. CASE \E e \in Deliveries : WorkerStep(e) \/ ChildDies(e)
  BY <1>6 DEF WorkerStep, ReadJob, Post, WorkerExits, ChildDies
<1>7. CASE Crash
  BY <1>7 DEF Crash
<1>8. CASE \E r \in Repos : Push(r)
  BY <1>0, <1>8 DEF Push
<1>9. CASE \E r \in Repos : EditConfig(r)
  BY <1>9 DEF EditConfig
<1>10. CASE UNCHANGED vars
  BY <1>10 DEF vars
<1> QED
  BY <1>1, <1>2, <1>3, <1>4, <1>5, <1>6, <1>7, <1>8, <1>9, <1>10 DEF Next, Webhook

LEMMA NextWorker == TypeOK /\ TaskKnows /\ WorkerKnows /\ [Next]_vars => WorkerKnows'
<1> SUFFICES ASSUME TypeOK, TaskKnows, WorkerKnows, [Next]_vars PROVE WorkerKnows'
  OBVIOUS
<1> USE ListenerAssumption
    DEF TypeOK, WorkerKnows, taskVars, workerVars, worldVars, sentVars, AtWork, Ended,
        Early, Running, Exited
<1>1. CASE \E e \in Deliveries : Webhook(e)
  BY <1>1 DEF Webhook, AnswerOnly, TurnAway, Accept, Answer, TaskKnows
<1>2. CASE \E e \in Deliveries : \/ Dispatch(e) \/ installation_token(e)
                                 \/ ResolveConfig(e) \/ get_pull_request(e)
  BY <1>2 DEF Dispatch, installation_token, ResolveConfig, Permitted, get_pull_request, Goto, Return
<1>3. CASE \E e \in Deliveries : StartInProcess(e) \/ SpawnNono(e)
  BY <1>3 DEF StartInProcess, SpawnNono, Goto, Return
<1>4. CASE \E e \in Deliveries : WriteJob(e)
  BY <1>4 DEF WriteJob, Goto, Return, Kill
<1>5. CASE \E e \in Deliveries : WorkerEnded(e) \/ WaitFails(e)
  BY <1>5 DEF WorkerEnded, WaitFails, Goto, Return, Kill
<1>6. CASE \E e \in Deliveries : WorkerStep(e) \/ ChildDies(e)
  BY <1>6 DEF WorkerStep, ReadJob, Post, WorkerExits, ChildDies, Become
<1>7. CASE Crash
  BY <1>7 DEF Crash
<1>8. CASE \E r \in Repos : Push(r) \/ EditConfig(r)
  BY <1>8 DEF Push, EditConfig
<1>9. CASE UNCHANGED vars
  BY <1>9 DEF vars
<1> QED
  BY <1>1, <1>2, <1>3, <1>4, <1>5, <1>6, <1>7, <1>8, <1>9 DEF Next, TaskStep

LEMMA KnowsInductive == Spec => []Knows
<1>1. Knows /\ [Next]_vars => Knows'
  BY NextType, NextTask, NextFilter, NextConfig, NextHead, NextWorker DEF Knows
<1> QED
  BY InitKnows, <1>1, PTL DEF Spec

-----------------------------------------------------------------------------
(* What the strengthening gives.                                           *)

\* Outside a crash no worker runs without a task that holds its slot
\* (kill_on_drop and the order of run_sandboxed).
THEOREM Supervised == Spec => []WorkersSupervised
<1>1. Knows => WorkersSupervised
  BY DEF Knows, WorkerKnows, WorkersSupervised
<1> QED
  BY <1>1, KnowsInductive, PTL

\* A job cut short by a write error or a crash is never worked on.
THEOREM NoTruncation == Spec => []NoTruncatedJobRuns
<1>1. Knows => NoTruncatedJobRuns
  BY DEF Knows, WorkerKnows, NoTruncatedJobRuns
<1> QED
  BY <1>1, KnowsInductive, PTL

\* "reviewed" is logged only for a job that made its comment.
THEOREM Reviewed == Spec => []ReviewedMeansPosted
<1>1. Knows => ReviewedMeansPosted
  BY DEF Knows, WorkerKnows, ReviewedMeansPosted
<1> QED
  BY <1>1, KnowsInductive, PTL

\* However maintainers edit the configuration meanwhile, a worker starts only
\* if it permitted the job at some time since the delivery was accepted.
THEOREM ConfigIsFailSecure == Spec => []FailSecure
<1>1. Knows => FailSecure
  BY DEF Knows, ConfigKnows, FailSecure
<1> QED
  BY <1>1, KnowsInductive, PTL

\* However many pushes come while the task waits, a command reviews a head no
\* older than the one current when the command arrived.
THEOREM CommandIsFresh == Spec => []CommandReviewsLatest
<1>1. Knows => CommandReviewsLatest
  BY DEF Knows, HeadKnows, CommandReviewsLatest
<1> QED
  BY <1>1, KnowsInductive, PTL

\* Only the documented triggers of permitted repositories reach GitHub.
THEOREM TriggersOnly == Spec => []OnlyTriggersAct
<1>1. Knows => OnlyTriggersAct
  <2> SUFFICES ASSUME Knows, NEW d \in Deliveries,
                      pc[d] \in AtWork \ {"dispatch"} \/ worker[d] # "none"
               PROVE  LET p == payload[d] IN
                      /\ p.signed
                      /\ AllowedOwners # {} => Owner[p.repo] \in AllowedOwners
                      /\ AllowedInstallations # {} => Installation[p.repo] \in AllowedInstallations
                      /\ p.action \notin {"synchronize", "closed", "deleted"}
                      /\ p.event = "pull_request" => ~(p.draft \/ p.bot)
                      /\ p.event = "issue_comment" => p.on_pr /\ p.command /\ ~p.bot
                      /\ p.event = "issues" => ~p.on_pr
    BY DEF OnlyTriggersAct
  <2>1. Passes(payload[d])
    BY DEF Knows, FilterKnows
  <2>2. pc[d] # "idle"
    BY DEF Knows, WorkerKnows, AtWork, Early
  <2>3. payload[d].signed
    BY <2>2 DEF Knows, TaskKnows, TypeOK
  <2> QED
    BY <2>1, <2>3
    DEF Passes, PrFilter, IssueFilter, CommandFilter, allowlist_permits,
        is_actionable_pr_action, is_actionable_issue_action
<1> QED
  BY <1>1, KnowsInductive, PTL

-----------------------------------------------------------------------------
(* Counting the slots.                                                     *)

\* A task that starts or ends changes the number of living tasks by one.
LEMMA OneMore ==
  ASSUME NEW S, NEW T, NEW x, IsFiniteSet(S), x \notin S, T = S \cup {x}
  PROVE  IsFiniteSet(T) /\ Cardinality(T) = Cardinality(S) + 1 /\ Cardinality(S) \in Nat
BY FS_AddElement, FS_CardinalityType

LEMMA LiveFinite ==
  /\ IsFiniteSet(LiveTasks) /\ Cardinality(LiveTasks) \in Nat
  /\ IsFiniteSet(LiveWorkers) /\ Cardinality(LiveWorkers) \in Nat
BY ListenerAssumption, FS_Subset, FS_CardinalityType DEF LiveTasks, LiveWorkers

LEMMA TaskStarts ==
  ASSUME TypeOK, TaskKnows, NEW d \in Deliveries, Accept(d)
  PROVE  LiveTasks' = LiveTasks \cup {d} /\ d \notin LiveTasks
BY DEF TypeOK, TaskKnows, Accept, Answer, LiveTasks, AtWork

\* The forms a step of a task takes for its permit: on, or back.
Continues(d) == /\ pc[d] \in AtWork /\ permits' = permits
                /\ \E to \in AtWork : pc' = [pc EXCEPT ![d] = to]

Ends(d) == /\ pc[d] \in AtWork /\ permits' = permits + 1
           /\ \E to \in Ended : pc' = [pc EXCEPT ![d] = to]

LEMMA TaskStepForms ==
  ASSUME NEW d \in Deliveries, TaskStep(d) \/ WaitFails(d)
  PROVE  Continues(d) \/ Ends(d)
<1> USE DEF Goto, Return, AtWork, Ended, Continues, Ends
<1>1. CASE Dispatch(d)
  BY <1>1 DEF Dispatch
<1>2. CASE installation_token(d)
  BY <1>2 DEF installation_token
<1>3. CASE ResolveConfig(d)
  BY <1>3 DEF ResolveConfig
<1>4. CASE get_pull_request(d)
  BY <1>4 DEF get_pull_request
<1>5. CASE StartInProcess(d) \/ SpawnNono(d)
  BY <1>5 DEF StartInProcess, SpawnNono
<1>6. CASE WriteJob(d) \/ WorkerEnded(d) \/ WaitFails(d)
  BY <1>6 DEF WriteJob, WorkerEnded, WaitFails
<1> QED
  BY <1>1, <1>2, <1>3, <1>4, <1>5, <1>6 DEF TaskStep

LEMMA NextSlots == Knows /\ SlotsBalanced /\ [Next]_vars => SlotsBalanced'
<1> SUFFICES ASSUME Knows, SlotsBalanced, [Next]_vars PROVE SlotsBalanced'
  OBVIOUS
<1> USE ListenerAssumption DEF Knows, TypeOK, SlotsBalanced
<1>0. UNCHANGED <<pc, permits>> => SlotsBalanced'
  BY DEF LiveTasks
<1>1. CASE \E d \in Deliveries : Accept(d)
  <2> PICK d \in Deliveries : Accept(d)
    BY <1>1
  <2>1. LiveTasks' = LiveTasks \cup {d} /\ d \notin LiveTasks
    BY TaskStarts
  <2>2. Cardinality(LiveTasks') = Cardinality(LiveTasks) + 1 /\ Cardinality(LiveTasks) \in Nat
    BY <2>1, LiveFinite, OneMore
  <2> QED
    BY <2>2 DEF Accept
<1>2. ASSUME NEW d \in Deliveries, Ends(d) PROVE SlotsBalanced'
  <2>1. LiveTasks = LiveTasks' \cup {d} /\ d \notin LiveTasks'
    BY <1>2 DEF Ends, LiveTasks, AtWork, Ended
  <2>2. IsFiniteSet(LiveTasks')
    BY FS_Subset DEF LiveTasks
  <2>3. Cardinality(LiveTasks) = Cardinality(LiveTasks') + 1 /\ Cardinality(LiveTasks') \in Nat
    BY <2>1, <2>2, OneMore
  <2> QED
    BY <1>2, <2>3 DEF Ends
<1>3. ASSUME NEW d \in Deliveries, Continues(d) PROVE SlotsBalanced'
  <2>1. LiveTasks' = LiveTasks
    BY <1>3 DEF Continues, LiveTasks
  <2> QED
    BY <1>3, <2>1 DEF Continues
<1>4. CASE Crash
  <2>1. LiveTasks' = {}
    BY <1>4 DEF Crash, LiveTasks, AtWork
  <2> QED
    BY <1>4, <2>1, FS_EmptySet DEF Crash
<1>5. CASE \/ \E d \in Deliveries : \/ AnswerOnly(d) \/ TurnAway(d)
                                    \/ WorkerStep(d) \/ ChildDies(d)
           \/ \E r \in Repos : Push(r) \/ EditConfig(r)
           \/ UNCHANGED vars
  BY <1>0, <1>5 DEF AnswerOnly, TurnAway, WorkerStep, ReadJob, Post, WorkerExits, ChildDies,
                    Push, EditConfig, vars, taskVars
<1> QED
  BY <1>1, <1>2, <1>3, <1>4, <1>5, TaskStepForms DEF Next, Webhook

\* Permits and living tasks always make max_concurrent_jobs: no path of a
\* task leaks a permit or returns it twice.
THEOREM SlotsAreBalanced == Spec => []SlotsBalanced
<1>1. Init => SlotsBalanced
  <2> SUFFICES ASSUME Init PROVE SlotsBalanced
    OBVIOUS
  <2>1. LiveTasks = {}
    BY DEF Init, LiveTasks, AtWork
  <2> QED
    BY <2>1, FS_EmptySet, ListenerAssumption DEF Init, SlotsBalanced
<1>2. Knows /\ SlotsBalanced /\ [Next]_vars => SlotsBalanced'
  BY NextSlots
<1> QED
  BY <1>1, <1>2, KnowsInductive, PTL DEF Spec

-----------------------------------------------------------------------------
(* The workers on the machine, with those a crash left behind.             *)

OrphansBounded == Cardinality(Orphans) <= MaxJobs * crashes

LEMMA OneLifeMore == \A n \in Nat : MaxJobs * (n + 1) = MaxJobs * n + MaxJobs
BY ListenerAssumption

\* No step but a crash makes an orphan.
LEMMA NextOrphans == Knows /\ [Next]_vars /\ ~Crash => Orphans' \subseteq Orphans
<1> SUFFICES ASSUME Knows, [Next]_vars, ~Crash, NEW d \in Deliveries,
                    (worker[d] \in Running)', (pc[d] = "lost")'
             PROVE  worker[d] \in Running /\ pc[d] = "lost"
  BY DEF Orphans, LiveWorkers
<1> USE DEF Knows, TypeOK, WorkerKnows, taskVars, workerVars, AtWork, Running, Exited, Early
<1>1. CASE \E e \in Deliveries : Webhook(e)
  BY <1>1 DEF Webhook, AnswerOnly, TurnAway, Accept
<1>2. ASSUME NEW e \in Deliveries, TaskStep(e) \/ WaitFails(e)
      PROVE  worker[d] \in Running /\ pc[d] = "lost"
  BY <1>2
  DEF TaskStep, Dispatch, installation_token, ResolveConfig, Permitted, get_pull_request, StartInProcess,
      SpawnNono, WriteJob, WorkerEnded, WaitFails, Goto, Return, Kill
<1>3. CASE \E e \in Deliveries : WorkerStep(e) \/ ChildDies(e)
  BY <1>3 DEF WorkerStep, ReadJob, Post, WorkerExits, ChildDies, Become
<1>4. CASE \E r \in Repos : Push(r) \/ EditConfig(r)
  BY <1>4 DEF Push, EditConfig
<1>5. CASE UNCHANGED vars
  BY <1>5 DEF vars
<1> QED
  BY <1>1, <1>2, <1>3, <1>4, <1>5 DEF Next

LEMMA OrphansFinite == IsFiniteSet(Orphans) /\ Cardinality(Orphans) \in Nat
BY LiveFinite, FS_Subset, FS_CardinalityType DEF Orphans

LEMMA CrashesStay == [Next]_vars /\ ~Crash => crashes' = crashes
BY DEF Next, Webhook, AnswerOnly, TurnAway, Accept, TaskStep, Dispatch, installation_token,
       ResolveConfig, Permitted, get_pull_request, StartInProcess, SpawnNono, WriteJob, WorkerEnded,
       WaitFails, WorkerStep, ReadJob, Post, WorkerExits, ChildDies, Push, EditConfig, vars,
       worldVars

LEMMA UnionSize ==
  ASSUME NEW S, NEW T, IsFiniteSet(S), IsFiniteSet(T)
  PROVE  IsFiniteSet(S \cup T) /\ Cardinality(S \cup T) <= Cardinality(S) + Cardinality(T)
<1>1. IsFiniteSet(S \cap T)
  <2>1. S \cap T \in SUBSET S
    OBVIOUS
  <2> QED
    BY <2>1, FS_Subset
<1>2. Cardinality(S) \in Nat /\ Cardinality(T) \in Nat /\ Cardinality(S \cap T) \in Nat
  BY <1>1, FS_CardinalityType
<1>3. /\ IsFiniteSet(S \cup T)
      /\ Cardinality(S \cup T) = Cardinality(S) + Cardinality(T) - Cardinality(S \cap T)
  BY FS_Union
<1> QED
  BY <1>2, <1>3

LEMMA NextOrphansBounded ==
  Knows /\ SlotsBalanced /\ OrphansBounded /\ [Next]_vars => OrphansBounded'
<1> SUFFICES ASSUME Knows, SlotsBalanced, OrphansBounded, [Next]_vars PROVE OrphansBounded'
  OBVIOUS
<1> USE ListenerAssumption DEF Knows, TypeOK
<1>1. CASE Crash
  <2>1. Orphans' \subseteq Orphans \cup LiveTasks
    BY <1>1 DEF Crash, Orphans, LiveWorkers, LiveTasks, WorkerKnows, Running, Ended, AtWork
  <2>2. /\ IsFiniteSet(Orphans \cup LiveTasks)
        /\ Cardinality(Orphans \cup LiveTasks) <= Cardinality(Orphans) + Cardinality(LiveTasks)
    BY OrphansFinite, LiveFinite, UnionSize
  <2>3. /\ Cardinality(Orphans') <= Cardinality(Orphans \cup LiveTasks)
        /\ Cardinality(Orphans') \in Nat /\ Cardinality(Orphans \cup LiveTasks) \in Nat
    BY <2>1, <2>2, FS_Subset, FS_CardinalityType
  <2>4. Cardinality(LiveTasks) <= MaxJobs
    BY LiveFinite DEF SlotsBalanced
  <2>5. MaxJobs * crashes' = MaxJobs * crashes + MaxJobs /\ MaxJobs * crashes \in Nat
    BY <1>1, OneLifeMore DEF Crash
  <2> QED
    BY <2>2, <2>3, <2>4, <2>5, OrphansFinite, LiveFinite DEF OrphansBounded
<1>2. CASE ~Crash
  <2>1. Cardinality(Orphans') <= Cardinality(Orphans) /\ Cardinality(Orphans') \in Nat
    BY <1>2, NextOrphans, OrphansFinite, FS_Subset, FS_CardinalityType DEF Knows
  <2>2. MaxJobs * crashes' = MaxJobs * crashes /\ MaxJobs * crashes \in Nat
    BY <1>2, CrashesStay
  <2> QED
    BY <2>1, <2>2, OrphansFinite DEF OrphansBounded
<1> QED
  BY <1>1, <1>2

\* Each life of the listener watches at most max_concurrent_jobs workers at a
\* time, less the free slots, and leaves at most as many behind.
THEOREM WorkersAreBounded == Spec => []WorkersBounded
<1>1. Init => OrphansBounded
  <2> SUFFICES ASSUME Init PROVE OrphansBounded
    OBVIOUS
  <2>1. Orphans = {}
    BY DEF Init, Orphans, LiveWorkers, Running
  <2> QED
    BY <2>1, FS_EmptySet, ListenerAssumption DEF Init, OrphansBounded
<1>2. Knows /\ SlotsBalanced /\ OrphansBounded => WorkersBounded
  <2> SUFFICES ASSUME Knows, SlotsBalanced, OrphansBounded PROVE WorkersBounded
    OBVIOUS
  <2>1. LiveWorkers \ Orphans \subseteq LiveTasks
    BY DEF Knows, WorkerKnows, Orphans, LiveWorkers, LiveTasks, AtWork
  <2>2. /\ Cardinality(LiveWorkers \ Orphans) <= Cardinality(LiveTasks)
        /\ Cardinality(LiveWorkers \ Orphans) \in Nat /\ Cardinality(LiveTasks) \in Nat
    BY <2>1, LiveFinite, FS_Subset, FS_CardinalityType
  <2>3. permits \in Nat /\ MaxJobs \in Nat
    BY ListenerAssumption DEF Knows, TypeOK
  <2> QED
    BY <2>2, <2>3 DEF OrphansBounded, SlotsBalanced, WorkersBounded
<1> QED
  BY <1>1, <1>2, NextOrphansBounded, KnowsInductive, SlotsAreBalanced, PTL DEF Spec

-----------------------------------------------------------------------------
(* The listener implements the slot pool.                                  *)

\* The running jobs of the pool are the tasks that hold a permit.
LEMMA RunningIsLive == Knows => Pool!Running = LiveTasks
BY DEF Knows, TypeOK, TaskKnows, Pool!Running, StageMap, StageOf, LiveTasks, AtWork

LEMMA SameCardinality == \A S : Pool!Cardinality(S) = Cardinality(S)
BY DEF Pool!Cardinality, Cardinality

\* A step that moves one delivery and leaves the stage of the others.
LEMMA PointMove ==
  ASSUME NEW d \in Deliveries, NEW from, NEW to, StageOf(d) = from, StageOf(d)' = to,
         \A e \in Deliveries \ {d} : StageOf(e)' = StageOf(e)
  PROVE  Pool!Move(d, from, to)
BY DEF Pool!Move, StageMap

\* An answer moves the delivery it is given to, by the code.
LEMMA AnswerMoves ==
  ASSUME TypeOK, NEW d \in Deliveries, NEW code, Answer(d, code),
         \A e \in Deliveries \ {d} : pc'[e] = pc[e]
  PROVE  Pool!Move(d, "unseen", StageOf(d)')
<1>1. StageOf(d) = "unseen"
  BY DEF Answer, StageOf
<1>2. \A e \in Deliveries \ {d} : status'[e] = status[e]
  BY DEF Answer, TypeOK
<1>3. \A e \in Deliveries \ {d} : StageOf(e)' = StageOf(e)
  BY <1>2 DEF StageOf
<1> QED
  BY <1>1, <1>3, PointMove

LEMMA SameStage == UNCHANGED <<status, pc>> => UNCHANGED StageMap
BY DEF StageMap, StageOf

LEMMA StepRefines == Knows /\ SlotsBalanced /\ [Next]_vars => [Pool!PoolNext]_StageMap
<1> SUFFICES ASSUME Knows, SlotsBalanced, [Next]_vars PROVE [Pool!PoolNext]_StageMap
  OBVIOUS
<1> USE ListenerAssumption DEF Knows, TypeOK, TaskKnows
<1>0. /\ Pool!Cardinality(Pool!Running) = Cardinality(LiveTasks)
      /\ permits + Cardinality(LiveTasks) = MaxJobs
      /\ Cardinality(LiveTasks) \in Nat
  BY RunningIsLive, SameCardinality, LiveFinite DEF SlotsBalanced
<1>1. ASSUME NEW d \in Deliveries, AnswerOnly(d) PROVE Pool!Ignore(d)
  <2>1. PICK code \in {200, 204, 401} : Answer(d, code)
    BY <1>1 DEF AnswerOnly
  <2>2. StageOf(d)' = "ignored"
    BY <2>1 DEF Answer, StageOf
  <2>3. pc' = pc
    BY <1>1 DEF AnswerOnly, taskVars
  <2> QED
    BY <2>1, <2>2, <2>3, AnswerMoves DEF Pool!Ignore
<1>2. ASSUME NEW d \in Deliveries, TurnAway(d) PROVE Pool!Refuse(d)
  <2>1. Answer(d, 429) /\ pc' = pc /\ permits = 0
    BY <1>2 DEF TurnAway, taskVars
  <2>2. StageOf(d)' = "refused"
    BY <2>1 DEF Answer, StageOf
  <2>3. Pool!Move(d, "unseen", "refused")
    BY <2>1, <2>2, AnswerMoves
  <2> QED
    BY <1>0, <2>1, <2>3 DEF Pool!Refuse
<1>3. ASSUME NEW d \in Deliveries, Accept(d) PROVE Pool!Admit(d)
  <2>1. /\ Answer(d, 202) /\ permits > 0
        /\ pc'[d] = "dispatch" /\ \A e \in Deliveries \ {d} : pc'[e] = pc[e]
    BY <1>3 DEF Accept
  <2>2. StageOf(d)' = "running"
    BY <2>1 DEF Answer, StageOf, AtWork
  <2>3. Pool!Move(d, "unseen", "running")
    BY <2>1, <2>2, AnswerMoves
  <2> QED
    BY <1>0, <2>1, <2>3 DEF Pool!Admit
<1>4. ASSUME NEW d \in Deliveries, TaskStep(d) \/ WaitFails(d)
      PROVE  Pool!End(d) \/ UNCHANGED StageMap
  <2>1. UNCHANGED status
    BY <1>4
    DEF TaskStep, Dispatch, installation_token, ResolveConfig, Permitted, get_pull_request, WaitFails,
        StartInProcess, SpawnNono, WriteJob, WorkerEnded, sentVars
  <2>2. CASE Continues(d)
    BY <2>1, <2>2 DEF Continues, StageMap, StageOf, AtWork
  <2>3. CASE Ends(d)
    BY <2>1, <2>3 DEF Ends, Pool!End, Pool!Move, StageMap, StageOf, AtWork, Ended
  <2> QED
    BY <1>4, <2>2, <2>3, TaskStepForms
<1>5. CASE Crash
  <2>1. Pool!Reset
    BY <1>5 DEF Crash, sentVars, Pool!Reset, StageMap, StageOf, AtWork
  <2> QED
    BY <2>1 DEF Pool!PoolNext
<1>6. CASE \/ \E d \in Deliveries : WorkerStep(d) \/ ChildDies(d)
           \/ \E r \in Repos : Push(r) \/ EditConfig(r)
           \/ UNCHANGED vars
  BY <1>6, SameStage
  DEF WorkerStep, ReadJob, Post, WorkerExits, ChildDies, Push, EditConfig, vars, taskVars, sentVars
<1> QED
  BY <1>1, <1>2, <1>3, <1>4, <1>5, <1>6 DEF Next, Webhook, Pool!PoolNext

\* Every behaviour of the listener is one of the slot pool, in which a
\* delivery is refused only while every slot runs a job.
THEOREM ListenerImplementsPool == Spec => Pool!PoolSafety
<1>1. Init => Pool!PoolInit
  BY DEF Init, Pool!PoolInit, StageMap, StageOf
<1>2. Knows /\ SlotsBalanced /\ [Next]_vars => [Pool!PoolNext]_StageMap
  BY StepRefines
<1> QED
  BY <1>1, <1>2, KnowsInductive, SlotsAreBalanced, PTL DEF Spec, Pool!PoolSafety

\* The pool's promise, read off the listener: never more tasks than slots.
THEOREM NeverOverCapacity == Spec => []Pool!WithinCapacity
<1>1. Knows /\ SlotsBalanced => Pool!WithinCapacity
  BY RunningIsLive, SameCardinality, LiveFinite, ListenerAssumption
  DEF Knows, TypeOK, SlotsBalanced, Pool!WithinCapacity
<1> QED
  BY <1>1, KnowsInductive, SlotsAreBalanced, PTL


-----------------------------------------------------------------------------
(* A delivery's task and worker move on.                                   *)

TaskRank(p) ==
  CASE p = "dispatch" -> 10
    [] p = "token"    -> 9
    [] p = "config"   -> 8
    [] p = "fetch_pr" -> 7
    [] p = "start"    -> 6
    [] p = "writing"  -> 2
    [] p = "waiting"  -> 1
    [] OTHER          -> 0

WorkerRank(w) ==
  CASE w = "reading" -> 3
    [] w = "working" -> 2
    [] w = "posted"  -> 1
    [] OTHER         -> 0

\* The steps that the task and the worker of d can still take.
StepsLeft(d) == TaskRank(pc[d]) + WorkerRank(worker[d])

\* No task and no worker turns in circles: each of its steps uses up one it
\* has left, and neither another delivery nor an edit, a push, a child's death
\* or a crash gives one back. Only to accept the delivery does.
MovesOn ==
  \A d \in Deliveries :
    /\ TaskStep(d) \/ WorkerStep(d) => StepsLeft(d)' < StepsLeft(d)
    /\ Accept(d) \/ StepsLeft(d)' <= StepsLeft(d)

LEMMA RanksAreNat == \A x : TaskRank(x) \in 0..10 /\ WorkerRank(x) \in 0..3
BY DEF TaskRank, WorkerRank

\* A step that lowers one of the two and raises neither.
LEMMA RankFalls ==
  ASSUME NEW d \in Deliveries,
         \/ TaskRank(pc'[d]) < TaskRank(pc[d]) /\ WorkerRank(worker'[d]) <= WorkerRank(worker[d])
         \/ TaskRank(pc'[d]) <= TaskRank(pc[d]) /\ WorkerRank(worker'[d]) < WorkerRank(worker[d])
  PROVE  StepsLeft(d)' < StepsLeft(d)
<1>1. /\ TaskRank(pc'[d]) \in Nat /\ TaskRank(pc[d]) \in Nat
      /\ WorkerRank(worker'[d]) \in Nat /\ WorkerRank(worker[d]) \in Nat
  BY RanksAreNat
<1>2. StepsLeft(d)' = TaskRank(pc'[d]) + WorkerRank(worker'[d])
  BY DEF StepsLeft, TaskRank, WorkerRank
<1> QED BY <1>1, <1>2 DEF StepsLeft

LEMMA KilledRank == \A w : WorkerRank(IF w \in Running THEN "exit_err" ELSE w) <= WorkerRank(w)
BY DEF WorkerRank, Running

\* A step of the task of d, or of its worker, wherever it stands.
LEMMA OwnStepFalls ==
  ASSUME Knows, NEW d \in Deliveries, TaskStep(d) \/ WorkerStep(d)
  PROVE  StepsLeft(d)' < StepsLeft(d)
<1>1. /\ pc \in [Deliveries -> AtWork \cup Ended \cup {"idle"}]
      /\ worker \in [Deliveries -> Running \cup Exited \cup {"none"}]
  BY DEF Knows, TypeOK
<1>2. CASE Dispatch(d) \/ installation_token(d) \/ ResolveConfig(d) \/ get_pull_request(d)
  <2>1. /\ worker'[d] = worker[d]
        /\ \/ pc[d] = "dispatch" /\ pc'[d] \in {"token", "skipped", "failed"}
           \/ pc[d] = "token" /\ pc'[d] \in {"config", "failed"}
           \/ pc[d] = "config" /\ pc'[d] \in {"fetch_pr", "start", "skipped", "failed"}
           \/ pc[d] = "fetch_pr" /\ pc'[d] \in {"start", "failed"}
    BY <1>1, <1>2 DEF Dispatch, installation_token, ResolveConfig, get_pull_request, Goto, Return,
                      workerVars
  <2>2. TaskRank(pc'[d]) < TaskRank(pc[d])
    BY <2>1 DEF TaskRank
  <2>3. WorkerRank(worker'[d]) <= WorkerRank(worker[d])
    BY <2>1, RanksAreNat
  <2> QED BY <2>2, <2>3, RankFalls
<1>3. CASE StartInProcess(d) \/ SpawnNono(d)
  <2>1. /\ pc[d] = "start" /\ worker[d] = "none"
        /\ \/ pc'[d] = "waiting" /\ worker'[d] = "working"
           \/ pc'[d] = "writing" /\ worker'[d] = "reading"
           \/ pc'[d] = "failed" /\ worker'[d] = worker[d]
    BY <1>1, <1>3 DEF StartInProcess, SpawnNono, Goto, Return, Knows, WorkerKnows
  <2> QED BY <2>1 DEF StepsLeft, TaskRank, WorkerRank
<1>4. CASE WriteJob(d) \/ WorkerEnded(d)
  <2>1. /\ \/ pc[d] = "writing" /\ pc'[d] \in {"waiting", "failed"}
           \/ pc[d] = "waiting" /\ pc'[d] \in {"reviewed", "failed"}
        /\ worker'[d] = worker[d] \/ worker'[d] = IF worker[d] \in Running THEN "exit_err" ELSE worker[d]
    BY <1>1, <1>4 DEF WriteJob, WorkerEnded, Kill, Goto, Return, workerVars
  <2>2. TaskRank(pc'[d]) < TaskRank(pc[d])
    BY <2>1 DEF TaskRank
  <2>3. WorkerRank(worker'[d]) <= WorkerRank(worker[d])
    BY <2>1, RanksAreNat, KilledRank
  <2> QED BY <2>2, <2>3, RankFalls
<1>5. CASE WorkerStep(d)
  <2>1. /\ pc' = pc
        /\ \/ worker[d] = "reading" /\ worker'[d] \in {"working", "exit_err"}
           \/ worker[d] = "working" /\ worker'[d] \in {"posted", "exit_err"}
           \/ worker[d] = "posted" /\ worker'[d] \in {"exit_ok", "exit_err"}
    BY <1>1, <1>5 DEF WorkerStep, ReadJob, Post, WorkerExits, Become, taskVars
  <2>2. WorkerRank(worker'[d]) < WorkerRank(worker[d])
    BY <2>1 DEF WorkerRank
  <2>3. TaskRank(pc'[d]) <= TaskRank(pc[d])
    BY <2>1, RanksAreNat
  <2> QED BY <2>2, <2>3, RankFalls
<1> QED BY <1>2, <1>3, <1>4, <1>5 DEF TaskStep

\* What any step leaves of the task and the worker of d, but for its own and
\* for the one that accepts it: the same, or dead.
LEMMA OthersLeave ==
  ASSUME Knows, Next, NEW d \in Deliveries, ~TaskStep(d), ~WorkerStep(d), ~Accept(d)
  PROVE  /\ pc'[d] = pc[d] \/ pc'[d] \in Ended
         /\ worker'[d] = worker[d] \/ worker'[d] = "exit_err"
<1>1. /\ pc \in [Deliveries -> AtWork \cup Ended \cup {"idle"}]
      /\ worker \in [Deliveries -> Running \cup Exited \cup {"none"}]
  BY DEF Knows, TypeOK
<1>2. CASE \E e \in Deliveries : Webhook(e)
  BY <1>1, <1>2 DEF Webhook, AnswerOnly, TurnAway, Accept, Answer, taskVars, workerVars
<1>3. ASSUME NEW e \in Deliveries, e # d, TaskStep(e)
      PROVE  pc'[d] = pc[d] /\ worker'[d] = worker[d]
  BY <1>1, <1>3 DEF TaskStep, Dispatch, installation_token, ResolveConfig, get_pull_request,
     StartInProcess, SpawnNono, WriteJob, WorkerEnded, Kill, Goto, Return, workerVars
<1>4. ASSUME NEW e \in Deliveries, e # d, WorkerStep(e)
      PROVE  pc'[d] = pc[d] /\ worker'[d] = worker[d]
  BY <1>1, <1>4 DEF WorkerStep, ReadJob, Post, WorkerExits, Become, taskVars
<1>5. CASE \E e \in Deliveries : WaitFails(e) \/ ChildDies(e)
  BY <1>1, <1>5 DEF WaitFails, ChildDies, Kill, Become, Goto, Return, Ended, taskVars
<1>6. CASE Crash
  BY <1>1, <1>6 DEF Crash, Ended
<1>7. CASE \E r \in Repos : Push(r) \/ EditConfig(r)
  BY <1>7 DEF Push, EditConfig, taskVars, workerVars
<1> QED BY <1>2, <1>3, <1>4, <1>5, <1>6, <1>7 DEF Next

\* From the 202 on, the task of a delivery and its worker take ten steps
\* together at most, across crashes of the listener.
THEOREM TasksMoveOn ==
  Spec => [](\A d \in Deliveries : StepsLeft(d) \in 0..10) /\ [][MovesOn]_vars
<1>1. Knows => \A d \in Deliveries : StepsLeft(d) \in 0..10
  <2> SUFFICES ASSUME Knows, NEW d \in Deliveries PROVE StepsLeft(d) \in 0..10
    OBVIOUS
  <2>1. TaskRank(pc[d]) \in 0..10 /\ WorkerRank(worker[d]) \in 0..3
    BY RanksAreNat
  <2>2. TaskRank(pc[d]) > 2 => WorkerRank(worker[d]) = 0
    BY DEF TaskRank, WorkerRank, Knows, WorkerKnows, Early
  <2> QED BY <2>1, <2>2 DEF StepsLeft
<1>2. Knows /\ [Next]_vars => [MovesOn]_vars
  <2> SUFFICES ASSUME Knows, Next, NEW d \in Deliveries
               PROVE  /\ TaskStep(d) \/ WorkerStep(d) => StepsLeft(d)' < StepsLeft(d)
                      /\ Accept(d) \/ StepsLeft(d)' <= StepsLeft(d)
    BY DEF MovesOn
  <2>1. /\ TaskRank(pc'[d]) \in Nat /\ TaskRank(pc[d]) \in Nat
        /\ WorkerRank(worker'[d]) \in Nat /\ WorkerRank(worker[d]) \in Nat
    BY RanksAreNat
  <2>2. StepsLeft(d)' = TaskRank(pc'[d]) + WorkerRank(worker'[d])
    BY DEF StepsLeft, TaskRank, WorkerRank
  <2>3. CASE TaskStep(d) \/ WorkerStep(d)
    <3>1. StepsLeft(d)' < StepsLeft(d)
      BY <2>3, OwnStepFalls
    <3>2. StepsLeft(d)' <= StepsLeft(d)
      BY <2>1, <2>2, <3>1 DEF StepsLeft
    <3> QED BY <3>1, <3>2
  <2>4. CASE ~TaskStep(d) /\ ~WorkerStep(d) /\ ~Accept(d)
    <3>1. /\ pc'[d] = pc[d] \/ pc'[d] \in Ended
          /\ worker'[d] = worker[d] \/ worker'[d] = "exit_err"
      BY <2>4, OthersLeave
    <3>2. TaskRank(pc'[d]) <= TaskRank(pc[d])
      BY <2>1, <3>1 DEF TaskRank, Ended
    <3>3. WorkerRank(worker'[d]) <= WorkerRank(worker[d])
      BY <2>1, <3>1 DEF WorkerRank
    <3>4. StepsLeft(d)' <= StepsLeft(d)
      BY <2>1, <2>2, <3>2, <3>3 DEF StepsLeft
    <3> QED BY <2>4, <3>4
  <2> QED BY <2>3, <2>4
<1> QED BY <1>1, <1>2, KnowsInductive, PTL DEF Spec

=============================================================================

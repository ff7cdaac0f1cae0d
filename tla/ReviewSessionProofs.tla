------------------------- MODULE ReviewSessionProofs ------------------------
(***************************************************************************)
(* What holds of one review for every number of turns and lenses, every    *)
(* set of answers and every diff.                                          *)
(*                                                                         *)
(* Its cost: the requests to Gemini and the tool output are bounded,       *)
(* however the model behaves. CallsBounded is not inductive: that the sum  *)
(* is small now says nothing of the rounds to come. IInv adds what may     *)
(* still follow, the rest of this round and all rounds after it.           *)
(*                                                                         *)
(* What it posts: Gate says which findings run_review holds and that a     *)
(* review that is posted was assembled from them; the canary gate, the     *)
(* merge and the anchoring follow from it and the lemmas on the operators  *)
(* they are made of.                                                       *)
(*                                                                         *)
(* What it sends: the conversation implements the review, and what each    *)
(* round adds to it keeps it one that Gemini accepts.                      *)
(***************************************************************************)
EXTENDS Conversation, FindingsProofs

\* Requests of one lens.
LensCalls == CRITIQUE_MAX_TURNS + 1

\* Requests of the rounds that may follow round r.
After(r) ==
  CASE r = First -> (RETRY_TURNS + 1) + Lenses * LensCalls
    [] r = Retry -> Lenses * LensCalls
    [] OTHER     -> (Lenses - r) * LensCalls

Fetching == {"list", "snapshot", "guidance"}

\* Until it questions the model, a review has spent nothing.
NothingSpent == pc \in Fetching => round = First /\ turns = MAX_TURNS

\* What is spent, what is left of this round, what may follow.
CallsLeft ==
  pc \in Fetching \cup {"ask"} => calls + (turns + 1) + After(round) <= MaxCalls

\* Every byte of output belongs to a request, and what was offered is part of
\* it.
OutputSpent == offered <= toolBytes /\ toolBytes <= calls * MaxOutput

IInv ==
  TypeOK /\ NothingSpent /\ CallsLeft /\ CallsBounded /\ OutputSpent /\ ToolOutputBounded

-----------------------------------------------------------------------------
\* The constants of the cost, without the sets of answers and lines.
LEMMA Constants ==
  /\ MAX_TURNS \in Nat /\ CRITIQUE_MAX_TURNS \in Nat /\ RETRY_TURNS \in Nat
  /\ Lenses \in Nat \ {0} /\ MAX_TOOL_OUTPUT_BYTES \in Nat /\ MaxOutput \in Nat
BY ReviewAssumption

\* A round's turns are a number of turns.
LEMMA TurnsAreNat == \A r : TurnsOf(r) \in Nat
BY Constants DEF TurnsOf

\* What may follow one round is the next lens and what may follow that.
LEMMA LensStep ==
  \A i \in 1..Lenses : (Lenses - (i - 1)) * LensCalls = LensCalls + (Lenses - i) * LensCalls
<1> SUFFICES ASSUME NEW i \in 1..Lenses
             PROVE  (Lenses - (i - 1)) * LensCalls = LensCalls + (Lenses - i) * LensCalls
  OBVIOUS
<1> DEFINE n == Lenses - i
<1>1. n \in Nat /\ Lenses - (i - 1) = n + 1 /\ LensCalls \in Nat
  BY Constants DEF LensCalls
<1>2. \A m, k \in Nat : (m + 1) * k = k + m * k
  OBVIOUS
<1> QED BY <1>1, <1>2

\* What may follow a round, case by case.
LEMMA AfterRounds ==
  /\ After(First) = (RETRY_TURNS + 1) + After(Retry)
  /\ After(Retry) = LensCalls + After(1)
  /\ \A i \in 1..Lenses : i + 1 <= Lenses => After(i) = LensCalls + After(i + 1)
  /\ \A r \in {First, Retry} \cup 1..Lenses : After(r) \in Nat
<1> USE Constants
<1>1. After(First) = (RETRY_TURNS + 1) + Lenses * LensCalls /\ After(Retry) = Lenses * LensCalls
  BY DEF After, First, Retry
<1>2. \A i \in 1..Lenses : After(i) = (Lenses - i) * LensCalls
  BY DEF After, First, Retry
<1>3. After(Retry) = LensCalls + After(1)
  <2>1. 1 \in 1..Lenses /\ Lenses - (1 - 1) = Lenses
    OBVIOUS
  <2> QED BY <1>1, <1>2, <2>1, LensStep
<1>4. ASSUME NEW i \in 1..Lenses, i + 1 <= Lenses PROVE After(i) = LensCalls + After(i + 1)
  <2>1. i + 1 \in 1..Lenses /\ Lenses - ((i + 1) - 1) = Lenses - i
    BY <1>4
  <2> QED BY <1>2, <2>1, LensStep
<1>5. \A m, k \in Nat : m * k \in Nat
  OBVIOUS
<1>6. ASSUME NEW r \in {First, Retry} \cup 1..Lenses PROVE After(r) \in Nat
  <2>1. LensCalls \in Nat /\ Lenses * LensCalls \in Nat
    BY <1>5 DEF LensCalls
  <2>2. CASE r \in {First, Retry}
    BY <1>1, <2>1, <2>2
  <2>3. CASE r \in 1..Lenses
    <3>1. Lenses - r \in Nat
      BY <2>3
    <3> QED BY <1>2, <1>5, <2>1, <2>3, <3>1
  <2> QED BY <2>2, <2>3
<1> QED BY <1>1, <1>3, <1>4, <1>6

LEMMA MaxCallsIs == MaxCalls = (MAX_TURNS + 1) + After(First)
BY Constants, AfterRounds DEF MaxCalls, After, First, LensCalls

LEMMA MaxCallsIsNat == MaxCalls \in Nat
BY Constants, MaxCallsIs, AfterRounds DEF First

\* What the outputs of n requests come to.
LEMMA Outputs ==
  /\ \A n \in Nat : n * MaxOutput \in Nat /\ (n + 1) * MaxOutput = n * MaxOutput + MaxOutput
  /\ \A m, n \in Nat : m <= n => m * MaxOutput <= n * MaxOutput
<1>1. MaxOutput \in Nat
  BY Constants
<1>2. \A n, k \in Nat : n * k \in Nat /\ (n + 1) * k = n * k + k
  OBVIOUS
<1>3. ASSUME NEW m \in Nat, NEW n \in Nat, m <= n
      PROVE  m * MaxOutput <= n * MaxOutput
  <2> DEFINE d == n - m
  <2>1. d \in Nat /\ n = m + d
    BY <1>3
  <2>2. \A a, b, k \in Nat : (a + b) * k = a * k + b * k
    OBVIOUS
  <2>3. n * MaxOutput = m * MaxOutput + d * MaxOutput
    <3> HIDE DEF d
    <3> QED BY <1>1, <2>1, <2>2
  <2>4. d * MaxOutput \in Nat /\ m * MaxOutput \in Nat
    BY <1>1, <1>2, <2>1
  <2> HIDE DEF d
  <2> QED BY <2>3, <2>4
<1> QED BY <1>1, <1>2, <1>3

\* The number of requests bounds the output, whoever asks for it.
LEMMA OutputWithin ==
  ASSUME calls \in Nat, calls <= MaxCalls, toolBytes <= calls * MaxOutput, toolBytes \in Nat
  PROVE  toolBytes <= MaxCalls * MaxOutput
<1>1. calls * MaxOutput <= MaxCalls * MaxOutput
  BY MaxCallsIsNat, Outputs
<1>2. calls * MaxOutput \in Nat /\ MaxCalls * MaxOutput \in Nat
  BY MaxCallsIsNat, Outputs
<1> QED BY <1>1, <1>2

-----------------------------------------------------------------------------
LEMMA InitEstablishes == Init => IInv
<1> SUFFICES ASSUME Init PROVE IInv
  OBVIOUS
<1> USE Constants DEF Init
<1>1. TypeOK
  <2>1. TurnsOf(round) = MAX_TURNS
    BY DEF TurnsOf, First, Retry
  <2>2. turns \in 0..TurnsOf(round) /\ round \in {First, Retry} \cup 1..Lenses
    BY <2>1
  <2>3. indexed \in BOOLEAN
    BY Zenon
  <2>4. /\ toolBytes \in Nat /\ offered \in Nat /\ calls \in Nat /\ diff \in Nat /\ head \in Nat
        /\ diff <= head
    OBVIOUS
  <2>5. review.kind = "none"
    BY DEF NoReview
  <2> QED BY <2>2, <2>3, <2>4, <2>5 DEF TypeOK
<1>2. NothingSpent
  BY DEF NothingSpent
<1>3. CallsLeft
  BY MaxCallsIs, AfterRounds DEF CallsLeft
<1>4. CallsBounded
  BY MaxCallsIs, AfterRounds DEF CallsBounded
<1>5. OutputSpent /\ ToolOutputBounded
  <2>1. 0 * MaxOutput \in Nat /\ MaxCalls * MaxOutput \in Nat
    BY MaxCallsIsNat, Outputs
  <2> QED BY <2>1 DEF OutputSpent, ToolOutputBounded
<1> QED BY <1>1, <1>2, <1>3, <1>4, <1>5 DEF IInv

\* A step that only moves pc, to a state that may not ask unless it could
\* before, and what is fetched or posted.
Bystander ==
  /\ UNCHANGED session
  /\ pc' \in Fetching \cup {"ask"} => pc \in Fetching \cup {"ask"}
  /\ pc' \in Fetching => pc \in Fetching
  /\ TypeOK'

LEMMA BystanderKeeps == IInv /\ Bystander => IInv'
<1> SUFFICES ASSUME IInv, Bystander PROVE IInv'
  OBVIOUS
<1> USE DEF IInv, Bystander, session
<1>1. NothingSpent'
  BY DEF NothingSpent
<1>2. CallsLeft'
  BY DEF CallsLeft, MaxCalls, After
<1>3. CallsBounded' /\ OutputSpent' /\ ToolOutputBounded'
  BY DEF CallsBounded, OutputSpent, ToolOutputBounded, MaxCalls
<1> QED BY <1>1, <1>2, <1>3

LEMMA FailureKeeps == \A from : IInv /\ Fails(from) => IInv'
<1> SUFFICES ASSUME NEW from, IInv, Fails(from) PROVE IInv'
  OBVIOUS
<1>1. Bystander
  BY DEF IInv, TypeOK, TurnsOf, Bystander, Fails, Goto, session, Fetching
<1> QED BY <1>1, BystanderKeeps

LEMMA FetchingKeeps ==
  IInv /\ (list_pr_files \/ download_tarball \/ get_repo_guidance) => IInv'
<1> SUFFICES ASSUME IInv, list_pr_files \/ download_tarball \/ get_repo_guidance
             PROVE  IInv'
  OBVIOUS
<1> USE DEF IInv, TypeOK, TurnsOf, Bystander, Goto, session, Fetching
<1>1. CASE list_pr_files
  BY <1>1, BystanderKeeps, FailureKeeps DEF list_pr_files
<1>2. CASE download_tarball
  BY <1>2, BystanderKeeps, FailureKeeps DEF download_tarball
<1>3. CASE get_repo_guidance
  BY <1>3, BystanderKeeps, FailureKeeps DEF get_repo_guidance
<1> QED BY <1>1, <1>2, <1>3

\* A turn with tools moves one request from what is left to what is spent,
\* and is offered them only if it finds the budget for output not yet passed.
LEMMA ToolTurnKeeps == IInv /\ ToolTurn => IInv'
<1> SUFFICES ASSUME IInv, ToolTurn PROVE IInv'
  OBVIOUS
<1> USE Constants DEF IInv, TypeOK, ToolTurn, Goto
<1>1. turns \in Nat /\ turns > 0 /\ turns' \in 0..TurnsOf(round)
  BY TurnsAreNat
<1>2. TypeOK'
  BY <1>1 DEF TurnsOf
<1>3. NothingSpent'
  BY DEF NothingSpent, Fetching
<1>4. calls' + (turns' + 1) = calls + (turns + 1)
  BY <1>1
<1>5. calls + (turns + 1) + After(round) <= MaxCalls /\ After(round) \in Nat
  BY AfterRounds DEF CallsLeft
<1>6. CallsLeft'
  BY <1>4, <1>5 DEF CallsLeft, MaxCalls, After
<1>7. MaxCalls \in Nat
  BY MaxCallsIs, AfterRounds DEF First
<1>8. CallsBounded'
  BY <1>1, <1>5, <1>7 DEF CallsBounded, MaxCalls
<1>9. PICK n \in 1..MaxOutput :
        /\ toolBytes' = toolBytes + n
        /\ offered' = IF ToolsOffered THEN offered + n ELSE offered
  OBVIOUS
<1>10. OutputSpent'
  <2>1. calls' * MaxOutput = calls * MaxOutput + MaxOutput /\ calls * MaxOutput \in Nat
    BY Outputs
  <2>2. toolBytes' <= calls' * MaxOutput
    BY <1>9, <2>1 DEF OutputSpent
  <2>3. offered' <= toolBytes'
    BY <1>9 DEF OutputSpent
  <2> QED BY <2>2, <2>3 DEF OutputSpent
<1>11. ToolOutputBounded'
  <2>1. calls' \in Nat /\ calls' <= MaxCalls
    BY <1>1, <1>5, <1>7
  <2>2. toolBytes' <= MaxCalls * MaxOutput
    <3>1. calls' * MaxOutput <= MaxCalls * MaxOutput
      BY <1>7, <2>1, Outputs
    <3>2. calls' * MaxOutput \in Nat /\ MaxCalls * MaxOutput \in Nat
      BY <1>7, <2>1, Outputs
    <3>3. toolBytes' \in Nat /\ toolBytes' <= calls' * MaxOutput
      BY <1>2, <1>10 DEF OutputSpent
    <3> QED BY <3>1, <3>2, <3>3
  <2>3. offered' <= MAX_TOOL_OUTPUT_BYTES + MaxOutput
    BY <1>9 DEF ToolsOffered, OutputSpent, ToolOutputBounded
  <2> QED BY <2>2, <2>3 DEF ToolOutputBounded, MaxCalls
<1> QED BY <1>2, <1>3, <1>6, <1>8, <1>10, <1>11

\* An answer ends the round: what follows is the post, or a round that there
\* was room for behind this one.
LEMMA RoundEnds ==
  ASSUME IInv, Final
  PROVE  \/ pc' = "post" /\ round' = round /\ turns' = turns
         \/ /\ pc' = "ask" /\ turns' = TurnsOf(round')
            /\ round' \in {Retry} \cup 1..Lenses
            /\ After(round) >= (turns' + 1) + After(round')
<1> USE Constants
<1>4. PICK a \in Answers :
        /\ Remember(a)
        /\ \/ NextLens
           \/ round = First /\ Begin(Retry)
           \/ Conclude
  BY DEF Final, Answered
<1>5. \/ NextLens
      \/ round = First /\ Begin(Retry)
      \/ Conclude
  BY <1>4
<1>6. round \in {First, Retry} \cup 1..Lenses /\ After(round) \in Nat
  BY AfterRounds DEF IInv, TypeOK
<1>1. CASE Conclude
  BY <1>1 DEF Conclude
<1>2. CASE round = First /\ Begin(Retry)
  BY <1>2, AfterRounds DEF Begin, TurnsOf, First, Retry
<1>3. CASE NextLens
  <2> DEFINE i == IF round = Retry THEN 1 ELSE round + 1
  <2>1. i \in Nat \ {0} /\ (round = First => i = 1) /\ (round = Retry => i = 1)
    BY <1>6 DEF First, Retry
  <2>2. CASE i <= Lenses
    <3>1. i \in 1..Lenses
      BY <2>1, <2>2
    <3>2. Begin(i)
      BY <1>3, <2>2 DEF NextLens
    <3>3. /\ pc' = "ask" /\ round' = i
          /\ turns' = CRITIQUE_MAX_TURNS /\ turns' = TurnsOf(round')
      BY <3>1, <3>2 DEF Begin, TurnsOf, First, Retry
    <3>4. turns' + 1 = LensCalls /\ After(i) \in Nat
      BY <3>1, <3>3, AfterRounds DEF LensCalls
    <3>5. CASE round \in {First, Retry}
      <4>1. i = 1
        BY <2>1, <3>5
      <4> QED BY <3>1, <3>3, <3>4, <3>5, <4>1, AfterRounds
    <3>6. CASE round \in 1..Lenses
      <4>1. i = round + 1 /\ After(round) = LensCalls + After(i)
        BY <2>2, <3>6, AfterRounds DEF Retry
      <4> QED BY <3>1, <3>3, <3>4, <4>1
    <3> QED BY <1>6, <3>5, <3>6
  <2>3. CASE ~(i <= Lenses)
    BY <1>3, <2>3 DEF NextLens, Conclude
  <2> QED BY <2>2, <2>3
<1> QED BY <1>5, <1>1, <1>2, <1>3

\* A round begins only when the last one left room for it.
LEMMA FinalKeeps == IInv /\ Final => IInv'
<1> SUFFICES ASSUME IInv, Final PROVE IInv'
  OBVIOUS
<1> USE Constants
<1>1. PICK a \in Answers :
        /\ Remember(a)
        /\ \/ NextLens
           \/ round = First /\ Begin(Retry)
           \/ Conclude
  BY DEF Final, Answered
<1>2. /\ pc = "ask" /\ calls' = calls + 1
      /\ UNCHANGED <<toolBytes, offered, indexed, diff, head, review>>
  BY DEF Final, Answered
<1>3. /\ calls \in Nat /\ turns \in Nat /\ MaxCalls \in Nat
      /\ round \in {First, Retry} \cup 1..Lenses /\ After(round) \in Nat
  BY TurnsAreNat, MaxCallsIs, AfterRounds DEF IInv, TypeOK, First
<1>4. calls' + After(round) <= MaxCalls
  BY <1>2, <1>3 DEF IInv, CallsLeft
<1>5. \/ pc' = "post" /\ round' = round /\ turns' = turns
      \/ /\ pc' = "ask" /\ turns' = TurnsOf(round')
         /\ round' \in {Retry} \cup 1..Lenses
         /\ After(round) >= (turns' + 1) + After(round')
  BY RoundEnds
<1>6. TypeOK'
  <2>1. best' \in {"nothing", "canary", "shape"}
    BY <1>1 DEF Remember, IInv, TypeOK
  <2>2. round' \in {First, Retry} \cup 1..Lenses /\ turns' \in 0..TurnsOf(round')
    BY <1>5, TurnsAreNat DEF IInv, TypeOK
  <2> QED BY <1>2, <1>5, <2>1, <2>2 DEF IInv, TypeOK
<1>7. NothingSpent'
  BY <1>5 DEF NothingSpent, Fetching
<1>8. CallsLeft'
  <2>1. CASE pc' = "post"
    BY <2>1 DEF CallsLeft, Fetching
  <2>2. CASE pc' = "ask"
    <3>1. After(round') \in Nat /\ turns' \in Nat /\ After(round) >= (turns' + 1) + After(round')
      BY <1>5, <2>2, AfterRounds, TurnsAreNat
    <3>2. calls' + (turns' + 1) + After(round') <= MaxCalls
      BY <1>2, <1>3, <1>4, <3>1
    <3> QED BY <3>2 DEF CallsLeft, After, MaxCalls
  <2> QED BY <1>5, <2>1, <2>2
<1>9. CallsBounded'
  BY <1>2, <1>3, <1>4 DEF CallsBounded, MaxCalls
<1>10. ToolOutputBounded'
  BY <1>2 DEF IInv, ToolOutputBounded, MaxCalls
<1>11. OutputSpent'
  <2>1. calls' * MaxOutput = calls * MaxOutput + MaxOutput /\ calls * MaxOutput \in Nat
    BY <1>2, <1>3, Outputs
  <2> QED BY <1>2, <2>1 DEF IInv, TypeOK, OutputSpent
<1> QED BY <1>6, <1>7, <1>8, <1>9, <1>10, <1>11 DEF IInv

\* The review that is assembled is one of the two kinds.
LEMMA AssembledKind == Assembled.kind \in {"review", "fallback"}
BY DEF Assembled, NoReview

LEMMA PostingKeeps ==
  IInv /\ pc = "post" /\ (Post(Assembled) \/ Rejected(Assembled) \/ AnswerLost(Assembled))
    => IInv'
<1> SUFFICES ASSUME IInv, pc = "post",
                    Post(Assembled) \/ Rejected(Assembled) \/ AnswerLost(Assembled)
             PROVE  IInv'
  OBVIOUS
<1> DEFINE r == Assembled
<1>1. /\ UNCHANGED <<session, indexed, diff, head>> /\ pc' \in {"ok", "failed", "rejected"}
      /\ review' = r \/ review' = review
  BY DEF Post, Rejected, AnswerLost, Goto
<1>2. review'.kind \in {"none", "review", "fallback"}
  BY <1>1, AssembledKind DEF IInv, TypeOK
<1>3. Bystander
  BY <1>1, <1>2 DEF IInv, TypeOK, TurnsOf, Bystander, session, Fetching
<1> QED BY <1>3, BystanderKeeps

LEMMA PushKeeps == IInv /\ Push => IInv'
<1> SUFFICES ASSUME IInv, Push PROVE IInv'
  OBVIOUS
<1>1. Bystander
  BY DEF IInv, TypeOK, TurnsOf, Bystander, Push, session
<1> QED BY <1>1, BystanderKeeps

LEMMA StutterKeeps == IInv /\ UNCHANGED vars => IInv'
<1> SUFFICES ASSUME IInv, UNCHANGED vars PROVE IInv'
  OBVIOUS
<1>1. Bystander
  BY DEF IInv, TypeOK, TurnsOf, Bystander, vars, session
<1> QED BY <1>1, BystanderKeeps

LEMMA NextKeeps == IInv /\ [Next]_vars => IInv'
<1> SUFFICES ASSUME IInv, [Next]_vars PROVE IInv'
  OBVIOUS
<1>1. CASE run
  <2>1. CASE list_pr_files \/ download_tarball \/ get_repo_guidance
    BY <2>1, FetchingKeeps
  <2>2. CASE ToolTurn
    BY <2>2, ToolTurnKeeps
  <2>3. CASE Final
    BY <2>3, FinalKeeps
  <2>4. CASE GeminiFails
    BY <2>4, FailureKeeps DEF GeminiFails
  <2>5. CASE post_review
    BY <2>5, FailureKeeps, PostingKeeps DEF post_review
  <2> QED BY <1>1, <2>1, <2>2, <2>3, <2>4, <2>5 DEF run
<1>2. CASE Push
  BY <1>2, PushKeeps
<1>3. CASE UNCHANGED vars
  BY <1>3, StutterKeeps
<1> QED BY <1>1, <1>2, <1>3 DEF Next

\* The inductive invariant.
THEOREM Invariance == Spec => []IInv
<1> QED BY InitEstablishes, NextKeeps, PTL DEF Spec

\* The control of a review keeps its shape: the rounds are the first pass,
\* one retry and the lenses, with no more turns than each has.
THEOREM TypeCorrect == Spec => []TypeOK
<1>1. IInv => TypeOK
  BY DEF IInv
<1> QED BY <1>1, Invariance, PTL

\* However the model answers, run_review sends at most MaxCalls requests.
THEOREM CostIsBounded == Spec => []CallsBounded
<1>1. IInv => CallsBounded
  BY DEF IInv
<1> QED BY <1>1, Invariance, PTL

\* The output of the tools that were offered passes the budget by one turn's at
\* most, although all rounds share it and it is only looked at before a turn;
\* and whatever the model calls without being offered it, there is no more
\* output than the requests of a review can bring.
THEOREM OutputIsBounded == Spec => []ToolOutputBounded
<1>1. IInv => ToolOutputBounded
  BY DEF IInv
<1> QED BY <1>1, Invariance, PTL

-----------------------------------------------------------------------------
\* What all answers together say.
Said == UNION {ToSet(a.findings) : a \in Answers}

\* Until the review is posted, its findings are those of answers with the
\* right canary, and in the first pass and its retry there has been none.
Gate ==
  /\ all \in Seq(Said) /\ ToSet(all) \subseteq vouched
  /\ round \in {First, Retry} => best = "nothing"
  /\ round \notin {First, Retry} => best # "nothing"
  /\ pc = "post" => round # First
  /\ head <= MaxPushes
  /\ review = NoReview \/ (pc \in {"ok", "failed"} /\ round # First /\ review = Assembled)

\* Every answer is made of findings.
LEMMA AnswersAre ==
  \A a \in Answers :
    /\ a.findings \in Seq(ToSet(a.findings)) /\ ToSet(a.findings) \subseteq Said
    /\ \A i \in DOMAIN a.findings : IsFinding(a.findings[i])
BY ReviewAssumption DEF IsAnswer, Said

LEMMA SaidAre == \A f \in Said : IsFinding(f)
BY AnswersAre DEF Said, ToSet

\* What is taken over from an answer was said in it.
LEMMA FindingsOfAnswer ==
  ASSUME NEW a \in Answers
  PROVE  FindingsOf(a) \in Seq(ToSet(a.findings))
<1> DEFINE s == a.findings
           S == ToSet(a.findings)
<1>1. s \in Seq(S) /\ \A i \in DOMAIN s : s[i].sev \in 0..3
  BY AnswersAre DEF IsFinding
<1> HIDE DEF s, S
<1>2. BySeverity(s, DOMAIN s) \in Seq(S)
  BY <1>1, BySeveritySorts
<1>3. dedup_findings(s) \in Seq(S)
  <2>1. MAX_ITEMS \in Nat
    BY ReviewAssumption
  <2> QED BY <1>1, <2>1, DedupWell
<1>4. salvage_pr_review(a) \in Seq(S)
  <2>1. \A I : At(dedup_findings(s), I) \in Seq(S)
    BY <1>3, AtPicks
  <2> QED BY <2>1 DEF salvage_pr_review, s
<1>5. FindingsOf(a) \in Seq(S)
  BY <1>2, <1>4 DEF FindingsOf, s
<1> QED BY <1>5 DEF S

\* The elements of two sequences behind each other.
LEMMA SetOfBoth ==
  ASSUME NEW S, NEW s \in Seq(S), NEW t \in Seq(S)
  PROVE  ToSet(s \o t) \subseteq ToSet(s) \cup ToSet(t)
<1>1. /\ s \o t \in Seq(S) /\ Len(s \o t) = Len(s) + Len(t)
      /\ \A i \in 1..Len(s) + Len(t) :
           (s \o t)[i] = IF i <= Len(s) THEN s[i] ELSE t[i - Len(s)]
  BY ConcatProperties
<1>2. /\ DOMAIN (s \o t) = 1..Len(s) + Len(t)
      /\ DOMAIN s = 1..Len(s) /\ Len(s) \in Nat
      /\ DOMAIN t = 1..Len(t) /\ Len(t) \in Nat
  BY <1>1, LenProperties
<1>3. ASSUME NEW i \in DOMAIN (s \o t)
      PROVE  (s \o t)[i] \in ToSet(s) \cup ToSet(t)
  <2>1. CASE i <= Len(s)
    <3>1. i \in DOMAIN s /\ (s \o t)[i] = s[i]
      BY <1>1, <1>2, <2>1
    <3> QED BY <3>1 DEF ToSet
  <2>2. CASE ~(i <= Len(s))
    <3>1. i - Len(s) \in DOMAIN t /\ (s \o t)[i] = t[i - Len(s)]
      BY <1>1, <1>2, <2>2
    <3> QED BY <3>1 DEF ToSet
  <2> QED BY <2>1, <2>2
<1> QED BY <1>3 DEF ToSet

\* The findings of an answer, behind those of the answers before it.
LEMMA MergeKeeps ==
  ASSUME NEW a \in Answers, Merge(a), all \in Seq(Said)
  PROVE  all' \in Seq(Said) /\ ToSet(all') \subseteq ToSet(all) \cup ToSet(a.findings)
<1> DEFINE f == FindingsOf(a)
           A == ToSet(a.findings)
<1>1. f \in Seq(A) /\ A \subseteq Said
  BY FindingsOfAnswer, AnswersAre
<1>2. f \in Seq(Said)
  BY <1>1, SeqMonotonic
<1>3. CASE Usable(a)
  <2>1. all' = all \o f
    BY <1>3 DEF Merge
  <2> HIDE DEF f, A
  <2>2. all \o f \in Seq(Said) /\ ToSet(all \o f) \subseteq ToSet(all) \cup ToSet(f)
    BY <1>2, ConcatProperties, SetOfBoth
  <2>3. ToSet(f) \subseteq A
    <3>1. \A i \in DOMAIN f : f[i] \in A
      BY <1>1, LenProperties, ElementOfSeq
    <3> QED BY <3>1 DEF ToSet
  <2> QED BY <2>1, <2>2, <2>3 DEF A
<1>4. CASE ~Usable(a)
  BY <1>4 DEF Merge
<1> QED BY <1>3, <1>4

-----------------------------------------------------------------------------
LEMMA GateInit == Init => Gate
<1> SUFFICES ASSUME Init PROVE Gate
  OBVIOUS
<1> USE DEF Init
<1>1. all \in Seq(Said) /\ ToSet(all) \subseteq vouched
  BY DEF ToSet
<1>2. head <= MaxPushes
  BY ReviewAssumption
<1> QED BY <1>1, <1>2 DEF Gate, First, Retry

\* What is assembled depends on the findings, the round and the diff only.
LEMMA AssembledSame == UNCHANGED <<all, round, diff>> => Assembled' = Assembled
<1> SUFFICES ASSUME UNCHANGED <<all, round, diff>> PROVE Assembled' = Assembled
  OBVIOUS
<1>1. \A f : snap_to_token_match(f)' = snap_to_token_match(f)
  BY DEF snap_to_token_match
<1>2. \A f : Anchored(f)' <=> Anchored(f)
  BY <1>1 DEF Anchored
<1>3. \A s : Inline(s)' = Inline(s)
  BY <1>1, <1>2 DEF Inline
<1>4. \A s : Leftover(s)' = Leftover(s)
  BY <1>2 DEF Leftover
<1> QED BY <1>3, <1>4 DEF Assembled

\* Before anything is posted, a step that says nothing new leaves the gate as
\* it is.
LEMMA GateOutside ==
  ASSUME Gate, UNCHANGED session, head' <= MaxPushes,
         pc' = "post" => pc = "post",
         \/ review = NoReview /\ review' = NoReview
         \/ UNCHANGED <<pc, diff, review>>
  PROVE  Gate'
<1>1. /\ UNCHANGED <<all, vouched, round, best>>
      /\ ToSet(all)' = ToSet(all) /\ Said' = Said
  BY DEF session, Said, ToSet
<1>2. review' = NoReview \/ (pc' \in {"ok", "failed"} /\ round' # First /\ review' = Assembled')
  BY <1>1, AssembledSame DEF Gate
<1>3. /\ (all \in Seq(Said))' /\ (ToSet(all) \subseteq vouched)'
      /\ (round \in {First, Retry} => best = "nothing")'
      /\ (round \notin {First, Retry} => best # "nothing")'
      /\ (pc = "post" => round # First)'
  BY <1>1 DEF Gate, First, Retry
<1> QED BY <1>2, <1>3 DEF Gate, NoReview, First

LEMMA GateFinal == IInv /\ Gate /\ Final => Gate'
<1> SUFFICES ASSUME IInv, Gate, Final PROVE Gate'
  OBVIOUS
<1>1. PICK a \in Answers : Answered(a)
  BY DEF Final
<1>2. /\ pc = "ask" /\ Remember(a) /\ Merge(a)
      /\ UNCHANGED <<diff, head, review>>
  BY <1>1 DEF Answered
<1>3. all' \in Seq(Said) /\ ToSet(all') \subseteq ToSet(all) \cup ToSet(a.findings)
  BY <1>2, MergeKeeps DEF Gate
<1>4. ~Usable(a) => all' = all
  BY <1>2 DEF Merge
<1>5. Usable(a) <=> a.canary = "right"
  BY DEF Usable, validates, salvages
<1>6. ToSet(all') \subseteq vouched'
  <2>1. CASE Usable(a)
    BY <1>2, <1>3, <1>5, <2>1 DEF Remember, Gate
  <2>2. CASE ~Usable(a)
    BY <1>2, <1>4, <2>2 DEF Remember, Gate
  <2> QED BY <2>1, <2>2
<1>7. /\ Usable(a) \/ best # "nothing" => best' # "nothing"
      /\ ~Usable(a) /\ best = "nothing" => best' = "nothing"
  BY <1>2, <1>5 DEF Remember, Usable
<1>8. review = NoReview /\ review' = NoReview
  BY <1>2 DEF Gate
<1>9. round \in {First, Retry} \cup 1..Lenses
  BY DEF IInv, TypeOK
<1>10. /\ round' \in {First, Retry} => best' = "nothing"
       /\ round' \notin {First, Retry} => best' # "nothing"
       /\ pc' = "post" => round' # First
  <2>1. CASE ~Usable(a) /\ round = First /\ Begin(Retry)
    BY <1>7, <2>1 DEF Begin, Gate
  <2>2. CASE ~Usable(a) /\ round = Retry /\ Conclude
    BY <1>7, <2>2 DEF Conclude, Gate, First, Retry
  <2>3. CASE (Usable(a) \/ round \in 1..Lenses) /\ NextLens
    <3> DEFINE i == IF round = Retry THEN 1 ELSE round + 1
    <3>1. best' # "nothing"
      BY <1>7, <2>3 DEF Gate, First, Retry
    <3>2. round' \in 1..Lenses
      <4>1. CASE i <= Lenses
        BY <1>9, <2>3, <4>1, Constants DEF NextLens, Begin, First, Retry
      <4>2. CASE ~(i <= Lenses)
        BY <1>9, <2>3, <4>2, Constants DEF NextLens, Conclude, First, Retry
      <4> QED BY <4>1, <4>2
    <3> QED BY <3>1, <3>2 DEF First, Retry
  <2> QED BY <1>1, <1>9, <2>1, <2>2, <2>3 DEF Answered, First, Retry
<1> QED BY <1>2, <1>3, <1>6, <1>8, <1>10 DEF Gate, First, Retry

LEMMA GateNext == IInv /\ Gate /\ [Next]_vars => Gate'
<1> SUFFICES ASSUME IInv, Gate, [Next]_vars PROVE Gate'
  OBVIOUS
<1>1. pc \notin {"ok", "failed"} => review = NoReview
  BY DEF Gate
<1>2. ASSUME NEW from, pc = from, from \notin {"ok", "failed"}, Fails(from) PROVE Gate'
  BY <1>1, <1>2, GateOutside DEF Fails, Goto, Gate
<1>3. CASE list_pr_files \/ download_tarball \/ get_repo_guidance \/ ToolTurn \/ GeminiFails
  <2>1. CASE list_pr_files
    BY <1>1, <1>2, <2>1, GateOutside DEF list_pr_files, Goto, Gate, Fails
  <2>2. CASE download_tarball
    BY <1>1, <1>2, <2>2, GateOutside DEF download_tarball, Goto, Gate, Fails
  <2>3. CASE get_repo_guidance
    BY <1>1, <1>2, <2>3, GateOutside DEF get_repo_guidance, Goto, Gate, Fails
  <2>4. CASE ToolTurn
    <3>1. /\ UNCHANGED <<round, all, best, vouched, indexed, diff, head, review>>
          /\ pc = "ask" /\ pc' = "ask"
      BY <2>4 DEF ToolTurn, Goto
    <3>2. ToSet(all)' = ToSet(all) /\ Said' = Said
      BY <3>1 DEF ToSet, Said
    <3> QED BY <1>1, <3>1, <3>2 DEF Gate, First, Retry, NoReview
  <2>5. CASE GeminiFails
    BY <1>2, <2>5 DEF GeminiFails, Fails, Goto
  <2> QED BY <1>3, <2>1, <2>2, <2>3, <2>4, <2>5
<1>4. CASE Final
  BY <1>4, GateFinal
<1>5. CASE post_review
  <2>1. CASE Fails("post")
    BY <1>2, <2>1 DEF Fails, Goto
  <2>2. CASE pc = "post" /\ (Post(Assembled) \/ Rejected(Assembled) \/ AnswerLost(Assembled))
    <3> DEFINE r == Assembled
    <3>1. /\ UNCHANGED <<session, indexed, diff, head>>
          /\ pc' \in {"ok", "failed", "rejected"}
          /\ review' = review \/ (pc' \in {"ok", "failed"} /\ review' = r)
      BY <2>2 DEF Post, Rejected, AnswerLost, Goto
    <3>2. Assembled' = r /\ round # First
      BY <2>2, <3>1, AssembledSame DEF session, Gate
    <3>3. /\ UNCHANGED <<all, vouched, round, best>>
          /\ ToSet(all)' = ToSet(all) /\ Said' = Said
      BY <3>1 DEF session, Said, ToSet
    <3> HIDE DEF r
    <3> QED BY <1>1, <2>2, <3>1, <3>2, <3>3 DEF Gate, First, Retry, NoReview
  <2> QED BY <1>5, <2>1, <2>2 DEF post_review
<1>6. CASE Push
  <2>1. head' <= MaxPushes
    BY <1>6, ReviewAssumption DEF Push, IInv, TypeOK
  <2> QED BY <1>6, <2>1, GateOutside DEF Push
<1>7. CASE UNCHANGED vars
  BY <1>7, GateOutside DEF vars, Gate
<1> QED BY <1>3, <1>4, <1>5, <1>6, <1>7 DEF Next, run

THEOREM GateHolds == Spec => []Gate
<1> QED BY GateInit, GateNext, Invariance, PTL DEF Spec

-----------------------------------------------------------------------------
\* The positions of an inline comment are those of the findings anchored.
LEMMA InlineIs ==
  ASSUME NEW S, NEW s \in Seq(S)
  PROVE  LET in == At(s, {i \in DOMAIN s : Anchored(s[i])}) IN
         /\ in \in Seq(S)
         /\ DOMAIN Inline(s) = DOMAIN in /\ Len(Inline(s)) = Len(in)
         /\ \A i \in DOMAIN in :
              /\ Inline(s)[i].finding = in[i]
              /\ Inline(s)[i].at = snap_to_token_match(in[i])
<1> DEFINE in == At(s, {i \in DOMAIN s : Anchored(s[i])})
           t == [i \in DOMAIN in |-> [finding |-> in[i], at |-> snap_to_token_match(in[i])]]
<1>1. in \in Seq(S)
  BY AtPicks
<1>2. Inline(s) = t
  BY DEF Inline
<1> HIDE DEF in
<1>3. DOMAIN in = 1..Len(in) /\ Len(in) \in Nat
  BY <1>1, LenProperties
<1>4. DOMAIN t = 1..Len(in)
  BY <1>3
<1>5. Len(t) = Len(in)
  BY <1>3, <1>4
<1>6. \A i \in DOMAIN in : t[i].finding = in[i] /\ t[i].at = snap_to_token_match(in[i])
  BY DEF t
<1> QED BY <1>1, <1>2, <1>3, <1>4, <1>5, <1>6 DEF in

\* The findings in a review, inline or in its body, are all that are merged.
LEMMA AllPosted ==
  ASSUME NEW S, NEW s \in Seq(S)
  PROVE  /\ ToSet(Leftover(s)) \cup {Inline(s)[i].finding : i \in DOMAIN Inline(s)} = ToSet(s)
         /\ Len(Leftover(s)) + Len(Inline(s)) = Len(s)
<1> DEFINE I == {i \in DOMAIN s : Anchored(s[i])}
           J == {i \in DOMAIN s : ~Anchored(s[i])}
           in == At(s, I)
           lo == At(s, J)
<1>1. Leftover(s) = lo
  BY DEF Leftover
<1>2. /\ DOMAIN Inline(s) = DOMAIN in /\ Len(Inline(s)) = Len(in)
      /\ \A i \in DOMAIN in : Inline(s)[i].finding = in[i]
  BY InlineIs
<1>3. DOMAIN s \ I = J \cap DOMAIN s /\ I \cap DOMAIN s = I /\ J \cap DOMAIN s = J
      /\ I \cup J = DOMAIN s
  OBVIOUS
<1> HIDE DEF I, J
<1>4. /\ \A k \in DOMAIN in : \E i \in I : in[k] = s[i]
      /\ \A i \in I : \E k \in DOMAIN in : in[k] = s[i]
      /\ \A k \in DOMAIN lo : \E i \in J : lo[k] = s[i]
      /\ \A i \in J : \E k \in DOMAIN lo : lo[k] = s[i]
  <2>1. \A K : /\ \A k \in DOMAIN At(s, K) : \E i \in K \cap DOMAIN s : At(s, K)[k] = s[i]
               /\ \A i \in K \cap DOMAIN s : \E k \in DOMAIN At(s, K) : At(s, K)[k] = s[i]
    BY AtElements
  <2> QED BY <1>3, <2>1
<1>5. Len(in) + Len(lo) = Len(s)
  BY <1>3, AtComplement
<1>6. Len(in) \in Nat /\ Len(lo) \in Nat
  BY AtPicks, LenProperties
<1> HIDE DEF in, lo
<1>7. {Inline(s)[i].finding : i \in DOMAIN Inline(s)} = ToSet(in)
  BY <1>2 DEF ToSet
<1>8. ToSet(lo) \cup ToSet(in) = ToSet(s)
  BY <1>3, <1>4 DEF ToSet
<1> QED BY <1>1, <1>2, <1>5, <1>6, <1>7, <1>8

\* The merge of all rounds.
LEMMA MergedAll ==
  ASSUME Gate
  PROVE  LET d == dedup_findings(all) IN
         /\ d \in Seq(Said) /\ Len(d) \in Nat /\ DOMAIN d = 1..Len(d) /\ Len(d) <= MAX_ITEMS
         /\ ToSet(d) \subseteq ToSet(all)
         /\ \A j, k \in DOMAIN d : Key(d[j]) = Key(d[k]) => j = k
         /\ \A i \in FirstSeen(all) :
              \/ \E k \in DOMAIN d : d[k] = all[i]
              \/ Len(d) = MAX_ITEMS /\ \A k \in DOMAIN d : d[k].sev <= all[i].sev
<1> DEFINE d == dedup_findings(all)
<1>1. all \in Seq(Said) /\ MAX_ITEMS \in Nat /\ \A i \in DOMAIN all : all[i].sev \in 0..3
  <2>1. all \in Seq(Said) /\ MAX_ITEMS \in Nat
    BY ReviewAssumption DEF Gate
  <2>2. \A i \in DOMAIN all : all[i] \in Said
    BY <2>1, LenProperties, ElementOfSeq
  <2> QED BY <2>1, <2>2, SaidAre DEF IsFinding
<1>2. /\ d \in Seq(Said) /\ Len(d) <= MAX_ITEMS
      /\ \A k \in DOMAIN d : \E i \in DOMAIN all : d[k] = all[i]
      /\ \A j, k \in DOMAIN d : Key(d[j]) = Key(d[k]) => j = k
      /\ \A i \in FirstSeen(all) :
           \/ \E k \in DOMAIN d : d[k] = all[i]
           \/ Len(d) = MAX_ITEMS /\ \A k \in DOMAIN d : d[k].sev <= all[i].sev
  BY <1>1, DedupWell
<1> HIDE DEF d
<1>3. Len(d) \in Nat /\ DOMAIN d = 1..Len(d)
  BY <1>2, LenProperties
<1>4. ToSet(d) \subseteq ToSet(all)
  BY <1>2 DEF ToSet
<1> QED BY <1>2, <1>3, <1>4 DEF d

\* What is posted, by the kind of the review.
LEMMA PostedIs ==
  ASSUME Gate
  PROVE  /\ review.kind = "none" => Posted = {}
         /\ review.kind = "fallback" => Posted = {} /\ round = Retry
         /\ review.kind = "review" =>
              /\ round \notin {First, Retry}
              /\ Posted = ToSet(dedup_findings(all))
              /\ Len(review.body) + Len(review.inline) = Len(dedup_findings(all))
         /\ review.kind \in {"none", "fallback", "review"}
<1> DEFINE d == dedup_findings(all)
<1>1. CASE review = NoReview
  <2>1. review.kind = "none" /\ review.body = <<>> /\ review.inline = <<>>
    BY <1>1 DEF NoReview
  <2> QED BY <2>1 DEF Posted, ToSet
<1>2. CASE review = Assembled /\ round = Retry
  <2>1. review.kind = "fallback" /\ review.body = <<>> /\ review.inline = <<>>
    BY <1>2 DEF Assembled, NoReview
  <2> QED BY <1>2, <2>1 DEF Posted, ToSet
<1>3. CASE review = Assembled /\ round # Retry /\ round # First
  <2>1. review = [kind |-> "review", inline |-> Inline(d), body |-> Leftover(d)]
    BY <1>3 DEF Assembled
  <2>2. d \in Seq(Said)
    BY MergedAll
  <2> HIDE DEF d
  <2>3. /\ ToSet(Leftover(d)) \cup {Inline(d)[i].finding : i \in DOMAIN Inline(d)} = ToSet(d)
        /\ Len(Leftover(d)) + Len(Inline(d)) = Len(d)
    BY <2>2, AllPosted
  <2>4. review.kind = "review" /\ review.body = Leftover(d) /\ review.inline = Inline(d)
    BY <2>1
  <2> QED BY <1>3, <2>3, <2>4 DEF Posted, d
<1> QED BY <1>1, <1>2, <1>3 DEF Gate

\* A finding is posted only from an answer with the right canary.
THEOREM CanaryIsChecked == Spec => []CanaryGate
<1>1. Gate => CanaryGate
  <2> SUFFICES ASSUME Gate PROVE CanaryGate
    OBVIOUS
  <2>1. ToSet(dedup_findings(all)) \subseteq vouched
    BY MergedAll DEF Gate
  <2> QED BY <2>1, PostedIs DEF CanaryGate, Gate
<1> QED BY <1>1, GateHolds, PTL

\* The merge loses no finding but to its key or to a full review of findings
\* at least as severe, and posts none twice.
THEOREM MergesWell == Spec => []MergedWell
<1>1. Gate => MergedWell
  <2> SUFFICES ASSUME Gate, review.kind = "review" PROVE MergedWell
    BY DEF MergedWell
  <2> DEFINE d == dedup_findings(all)
             keys == {Key(f) : f \in ToSet(d)}
  <2>1. /\ Posted = ToSet(d)
        /\ Len(review.body) + Len(review.inline) = Len(d)
    BY PostedIs
  <2>2. /\ d \in Seq(Said) /\ Len(d) \in Nat /\ DOMAIN d = 1..Len(d) /\ Len(d) <= MAX_ITEMS
        /\ \A j, k \in DOMAIN d : Key(d[j]) = Key(d[k]) => j = k
        /\ \A i \in FirstSeen(all) :
             \/ \E k \in DOMAIN d : d[k] = all[i]
             \/ Len(d) = MAX_ITEMS /\ \A k \in DOMAIN d : d[k].sev <= all[i].sev
    BY MergedAll
  <2> HIDE DEF d
  <2>3. IsFiniteSet(1..Len(d)) /\ Cardinality(1..Len(d)) = Len(d)
    BY <2>2, UpTo
  <2>4. Cardinality(keys) = Len(d)
    <3> DEFINE g == [k \in 1..Len(d) |-> Key(d[k])]
    <3>1. g \in Bijection(1..Len(d), keys)
      <4>1. g \in [1..Len(d) -> keys]
        BY <2>2 DEF ToSet
      <4>2. \A j, k \in 1..Len(d) : g[j] = g[k] => j = k
        BY <2>2
      <4>3. \A y \in keys : \E k \in 1..Len(d) : g[k] = y
        BY <2>2 DEF ToSet
      <4> HIDE DEF g, keys
      <4> QED BY <4>1, <4>2, <4>3, Fun_IsBij
    <3> HIDE DEF g, keys
    <3> QED BY <2>3, <3>1, FS_Bijection DEF ExistsBijection
  <2>5. Cardinality(ToSet(d)) = Len(d)
    <3>1. d \in Bijection(1..Len(d), ToSet(d))
      <4>1. d \in [1..Len(d) -> ToSet(d)]
        BY <2>2 DEF ToSet
      <4>2. \A j, k \in 1..Len(d) : d[j] = d[k] => j = k
        BY <2>2
      <4>3. \A y \in ToSet(d) : \E k \in 1..Len(d) : d[k] = y
        BY <2>2 DEF ToSet
      <4> QED BY <4>1, <4>2, <4>3, Fun_IsBij
    <3> QED BY <2>3, <3>1, FS_Bijection DEF ExistsBijection
  <2>6. \A k \in DOMAIN d : d[k] \in Posted
    BY <2>1 DEF ToSet
  <2>7. \A f \in Posted : \E k \in DOMAIN d : f = d[k]
    BY <2>1 DEF ToSet
  <2> QED BY <2>1, <2>2, <2>4, <2>5, <2>6, <2>7 DEF MergedWell
<1> QED BY <1>1, GateHolds, PTL

\* A finding that becomes an inline comment is on a line of the diff near the
\* one it names: the CHOOSE of snap_to_token_match has a nearest line to take.
LEMMA SnapsNear ==
  ASSUME NEW f, IsFinding(f), diff \in 0..MaxPushes, Anchored(f)
  PROVE  /\ snap_to_token_match(f) \in Commentable[diff]
         /\ snap_to_token_match(f) - f.line \in -SNAP_WINDOW .. SNAP_WINDOW
<1> DEFINE shows == Quotes[diff][f.text]
           near == {l \in shows \cap Commentable[diff] :
                      l >= f.line - SNAP_WINDOW /\ l <= f.line + SNAP_WINDOW}
           Rank(l) == IF l < f.line THEN 2 * (f.line - l) - 1 ELSE 2 * (l - f.line)
           l0 == CHOOSE l \in near : \A k \in near : Rank(l) <= Rank(k)
<1>1. f.line \in Nat /\ SNAP_WINDOW \in Nat /\ Commentable[diff] \subseteq Nat
  BY ReviewAssumption DEF IsFinding, Anchored
<1>2. snap_to_token_match(f) = IF f.line \in shows \/ near = {} THEN f.line ELSE l0
  BY DEF snap_to_token_match
<1>3. snap_to_token_match(f) \in Commentable[diff]
  BY DEF Anchored
<1>4. near \subseteq Nat /\ \A l \in near : l >= f.line - SNAP_WINDOW /\ l <= f.line + SNAP_WINDOW
  BY <1>1
<1> HIDE DEF near, shows
<1>5. CASE f.line \in shows \/ near = {}
  BY <1>1, <1>2, <1>3, <1>5
<1>6. CASE ~(f.line \in shows \/ near = {})
  <2> DEFINE ranks == {Rank(l) : l \in near}
  <2>1. \A l \in near : Rank(l) \in Nat
    BY <1>1, <1>4
  <2>2. PICK x \in ranks : \A y \in ranks : x <= y
    <3>1. ranks \subseteq Nat /\ ranks # {}
      BY <1>6, <2>1
    <3> HIDE DEF ranks
    <3> QED BY <3>1, LeastNumber
  <2>3. PICK m \in near : x = Rank(m)
    BY <2>2
  <2>4. \A k \in near : Rank(m) <= Rank(k)
    BY <2>2, <2>3
  <2> HIDE DEF Rank
  <2>5. l0 \in near
    BY <2>3, <2>4
  <2> HIDE DEF l0
  <2>6. l0 - f.line \in -SNAP_WINDOW .. SNAP_WINDOW
    BY <1>1, <1>4, <2>5
  <2> QED BY <1>2, <1>3, <1>6, <2>6
<1> QED BY <1>5, <1>6

\* Every inline comment that is sent is on a line of the diff that was listed,
\* within SNAP_WINDOW of the line the model named.
THEOREM AnchorsAreInDiff == Spec => []AnchorsInDiff
<1>1. Gate /\ IInv => AnchorsInDiff
  <2> SUFFICES ASSUME Gate, IInv, pc = "post", NEW i \in DOMAIN Assembled.inline
               PROVE  LET c == Assembled.inline[i]
                      IN  /\ c.at \in Commentable[diff]
                          /\ c.at - c.finding.line \in -SNAP_WINDOW .. SNAP_WINDOW
    BY DEF AnchorsInDiff
  <2> DEFINE d == dedup_findings(all)
             I == {j \in DOMAIN d : Anchored(d[j])}
             in == At(d, I)
  <2>1. round # Retry /\ Assembled.inline = Inline(d)
    BY DEF Assembled, NoReview
  <2>2. d \in Seq(Said)
    BY MergedAll
  <2> HIDE DEF d
  <2>3. /\ i \in DOMAIN in
        /\ Inline(d)[i].finding = in[i]
        /\ Inline(d)[i].at = snap_to_token_match(in[i])
    BY <2>1, <2>2, InlineIs
  <2>4. PICK j \in I : in[i] = d[j]
    <3> HIDE DEF I
    <3>1. \A k \in DOMAIN in : \E j \in I \cap DOMAIN d : in[k] = d[j]
      BY <2>2, AtElements
    <3> QED BY <2>3, <3>1
  <2>5. IsFinding(in[i]) /\ Anchored(in[i])
    <3>1. d[j] \in Said
      BY <2>2, LenProperties, ElementOfSeq
    <3> QED BY <2>4, <3>1, SaidAre
  <2>6. diff \in 0..MaxPushes
    BY ReviewAssumption DEF Gate, IInv, TypeOK
  <2> HIDE DEF in
  <2> QED BY <2>1, <2>3, <2>5, <2>6, SnapsNear
<1> QED BY <1>1, GateHolds, Invariance, PTL

\* No finding is posted whose description is over its limit: it is measured by
\* validate and by salvage alike. (The other fields and the summary only
\* validate looks at: an answer salvaged may hold more of them.)
Measured == \A f \in ToSet(all) : f.over # "description"

NoLongDescription == \A f \in Posted : f.over # "description"

\* What is taken over from an answer has descriptions within their limit.
LEMMA TakenAreMeasured ==
  ASSUME NEW a \in Answers, Usable(a)
  PROVE  \A f \in ToSet(FindingsOf(a)) : f.over # "description"
<1> DEFINE s == a.findings
           S == ToSet(a.findings)
           d == dedup_findings(s)
           short == {i \in DOMAIN d : d[i].over # "description"}
<1>1. s \in Seq(S) /\ MAX_ITEMS \in Nat /\ \A i \in DOMAIN s : s[i].sev \in 0..3
  BY AnswersAre, ReviewAssumption DEF IsFinding
<1>2. CASE validates(a)
  <2>1. FindingsOf(a) = BySeverity(s, DOMAIN s) /\ \A i \in DOMAIN s : s[i].over # "description"
    BY <1>2 DEF FindingsOf, validates
  <2> HIDE DEF s, S
  <2>2. PICK e : Sorts(e, BySeverity(s, DOMAIN s), s, DOMAIN s)
    BY <1>1, BySeveritySorts
  <2>3. BySeverity(s, DOMAIN s) \in Seq(S)
    BY <1>1, BySeveritySorts
  <2> DEFINE t == BySeverity(s, DOMAIN s)
  <2>4. DOMAIN t = 1..Len(t) /\ \A k \in 1..Len(t) : e[k] \in DOMAIN s /\ t[k] = s[e[k]]
    BY <2>2, <2>3, LenProperties DEF Sorts
  <2> HIDE DEF t
  <2>5. \A f \in ToSet(t) : f.over # "description"
    BY <2>1, <2>4 DEF ToSet
  <2> QED BY <2>1, <2>5 DEF t
<1>3. CASE ~validates(a)
  <2>1. FindingsOf(a) = At(d, short)
    BY <1>3 DEF FindingsOf, salvage_pr_review
  <2> HIDE DEF s, S
  <2>2. d \in Seq(S)
    BY <1>1, DedupWell
  <2> HIDE DEF d
  <2>3. \A k \in DOMAIN At(d, short) : \E i \in short \cap DOMAIN d : At(d, short)[k] = d[i]
    <3> HIDE DEF short
    <3> QED BY <2>2, AtElements
  <2> QED BY <2>1, <2>3 DEF ToSet
<1> QED BY <1>2, <1>3

LEMMA MeasuredNext == Gate /\ Measured /\ [Next]_vars => Measured'
<1> SUFFICES ASSUME Gate, Measured, [Next]_vars PROVE Measured'
  OBVIOUS
<1>1. CASE Final
  <2>1. PICK a \in Answers : Merge(a)
    BY <1>1 DEF Final, Answered
  <2>2. CASE Usable(a)
    <3> DEFINE g == FindingsOf(a)
               T == ToSet(a.findings)
    <3>1. all' = all \o g /\ \A f \in ToSet(g) : f.over # "description"
      BY <2>1, <2>2, TakenAreMeasured DEF Merge
    <3>2. all \in Seq(Said) /\ g \in Seq(T) /\ T \subseteq Said
      BY FindingsOfAnswer, AnswersAre DEF Gate
    <3> HIDE DEF g, T
    <3>3. g \in Seq(Said)
      BY <3>2, SeqMonotonic
    <3>4. ToSet(all \o g) \subseteq ToSet(all) \cup ToSet(g)
      BY <3>2, <3>3, SetOfBoth
    <3> QED BY <3>1, <3>4 DEF Measured
  <2>3. CASE ~Usable(a)
    <3>1. all' = all
      BY <2>1, <2>3 DEF Merge
    <3> QED BY <3>1 DEF Measured, ToSet
  <2> QED BY <2>2, <2>3
<1>2. CASE ~Final
  <2>1. all' = all
    BY <1>2 DEF Next, run, vars, session, list_pr_files, download_tarball, get_repo_guidance,
                ToolTurn, GeminiFails, post_review, Post, Rejected, AnswerLost, Fails, Push
  <2> QED BY <2>1 DEF Measured, ToSet
<1> QED BY <1>1, <1>2

\* A description over its limit is in no review, whichever path its answer
\* took.
THEOREM PostsNoLongDescription == Spec => []NoLongDescription
<1>1. Init => Measured
  BY DEF Init, Measured, ToSet
<1>2. Gate /\ Measured => NoLongDescription
  <2> SUFFICES ASSUME Gate, Measured, NEW f \in Posted PROVE f.over # "description"
    BY DEF NoLongDescription
  <2>1. f \in ToSet(all)
    BY MergedAll, PostedIs
  <2> QED BY <2>1 DEF Measured
<1> QED BY <1>1, <1>2, GateHolds, MeasuredNext, PTL DEF Spec

\* "So the reviews POST never 422s" (review.rs), as far as it holds: GitHub
\* refuses a review only if someone pushed after its files were listed, or if a
\* comment is on a line that commentable_lines counts and GitHub does not.
RejectedForCause ==
  pc = "rejected" =>
    \/ diff < head
    \/ \E i \in DOMAIN Assembled.inline :
         Assembled.inline[i].at \in Commentable[diff] \ Accepted[diff]

LEMMA RejectedNext ==
  TypeOK /\ AnchorsInDiff /\ RejectedForCause /\ [Next]_vars => RejectedForCause'
<1> SUFFICES ASSUME TypeOK, AnchorsInDiff, RejectedForCause, [Next]_vars, pc' = "rejected",
                    ~(diff' < head')
             PROVE  \E i \in DOMAIN Assembled'.inline :
                      Assembled'.inline[i].at \in Commentable[diff'] \ Accepted[diff']
  BY DEF RejectedForCause
<1>1. diff \in Nat /\ head \in Nat /\ diff <= head
  BY DEF TypeOK
<1>2. CASE pc = "rejected"
  <2>1. UNCHANGED <<all, round, diff>> /\ (head' = head \/ head' = head + 1)
    BY <1>2 DEF Next, run, vars, session, list_pr_files, download_tarball, get_repo_guidance,
                ToolTurn, Final, Answered, GeminiFails, post_review, Fails, Goto, Push
  <2>2. Assembled' = Assembled /\ ~(diff < head)
    BY <1>1, <2>1, AssembledSame
  <2> QED BY <1>2, <2>1, <2>2 DEF RejectedForCause
<1>3. CASE pc # "rejected"
  <2>1. pc = "post" /\ Rejected(Assembled)
    BY <1>3 DEF Next, run, vars, list_pr_files, download_tarball, get_repo_guidance, ToolTurn,
                Final, Answered, NextLens, Begin, Conclude, GeminiFails, post_review, Post,
                AnswerLost, Fails, Goto, Push
  <2>2. UNCHANGED <<all, round, diff, head>> /\ ~GitHubAccepts(Assembled)
    BY <2>1 DEF Rejected, session
  <2>3. PICK i \in DOMAIN Assembled.inline : Assembled.inline[i].at \notin Accepted[head]
    BY <2>2 DEF GitHubAccepts
  <2>4. Assembled.inline[i].at \in Commentable[diff]
    BY <2>1 DEF AnchorsInDiff
  <2>5. diff = head /\ Assembled' = Assembled
    BY <1>1, <2>2, AssembledSame
  <2> QED BY <2>2, <2>3, <2>4, <2>5
<1> QED BY <1>2, <1>3

\* The two reasons for a 422; the runs review_push and diff_eof show one each.
THEOREM RejectionHasCause == Spec => []RejectedForCause
<1>1. Init => RejectedForCause
  BY DEF Init, RejectedForCause
<1> QED BY <1>1, RejectedNext, TypeCorrect, AnchorsAreInDiff, PTL DEF Spec

-----------------------------------------------------------------------------
\* The steps that a review can still take.
StepsLeft ==
  CASE pc = "list"     -> MaxCalls + 4
    [] pc = "snapshot" -> MaxCalls + 3
    [] pc = "guidance" -> MaxCalls + 2
    [] pc = "ask"      -> (turns + 1) + After(round) + 1
    [] pc = "post"     -> 1
    [] OTHER           -> 0

\* A review comes to its end: every step of the job uses up one of the steps
\* it has left, and no push gives it one back.
MovesOn == (run => StepsLeft' < StepsLeft) /\ (Push => StepsLeft' = StepsLeft)

LEMMA StepsAreNat == IInv => StepsLeft \in Nat
<1> SUFFICES ASSUME IInv PROVE StepsLeft \in Nat
  OBVIOUS
<1>1. MaxCalls \in Nat /\ turns \in Nat /\ After(round) \in Nat
  BY Constants, MaxCallsIs, AfterRounds, TurnsAreNat DEF IInv, TypeOK, First
<1> QED BY <1>1 DEF StepsLeft

\* From an error on, there is nothing left to do.
LEMMA FailureEnds ==
  ASSUME NEW from \in {"list", "snapshot", "guidance", "ask", "post"}, IInv, Fails(from)
  PROVE  StepsLeft' < StepsLeft
<1>1. StepsLeft' = 0 /\ pc = from
  BY DEF Fails, Goto, StepsLeft
<1>2. MaxCalls \in Nat /\ turns \in Nat /\ After(round) \in Nat
  BY Constants, MaxCallsIs, AfterRounds, TurnsAreNat DEF IInv, TypeOK, First
<1> QED BY <1>1, <1>2 DEF StepsLeft

LEMMA RunMovesOn == IInv /\ run => StepsLeft' < StepsLeft
<1> SUFFICES ASSUME IInv, run PROVE StepsLeft' < StepsLeft
  OBVIOUS
<1>1. /\ MaxCalls \in Nat /\ turns \in Nat /\ After(round) \in Nat
      /\ MaxCalls = (MAX_TURNS + 1) + After(First)
  BY Constants, MaxCallsIs, AfterRounds, TurnsAreNat DEF IInv, TypeOK, First
<1>2. MaxCalls' = MaxCalls
  BY DEF MaxCalls
<1>3. CASE list_pr_files
  BY <1>1, <1>2, <1>3, FailureEnds DEF list_pr_files, Goto, StepsLeft
<1>4. CASE download_tarball
  BY <1>1, <1>2, <1>4, FailureEnds DEF download_tarball, Goto, StepsLeft
<1>5. CASE get_repo_guidance
  <2>1. CASE Goto("guidance", "ask") /\ UNCHANGED session
    <3>1. pc = "guidance" /\ pc' = "ask" /\ round = First /\ turns = MAX_TURNS
      BY <2>1 DEF Goto, IInv, NothingSpent, Fetching
    <3>2. turns' = MAX_TURNS /\ round' = First
      BY <2>1, <3>1 DEF session
    <3>3. StepsLeft' = (MAX_TURNS + 1) + After(First) + 1 /\ StepsLeft = MaxCalls + 2
      BY <3>1, <3>2 DEF StepsLeft, After
    <3> QED BY <1>1, <3>3
  <2> QED BY <1>5, <2>1, FailureEnds DEF get_repo_guidance
<1>6. CASE ToolTurn
  <2>1. pc = "ask" /\ pc' = "ask" /\ round' = round /\ turns' = turns - 1
    BY <1>6 DEF ToolTurn, Goto
  <2>2. After(round)' = After(round)
    BY <2>1 DEF After
  <2> QED BY <1>1, <2>1, <2>2 DEF StepsLeft
<1>7. CASE Final
  <2>1. pc = "ask"
    BY <1>7 DEF Final, Answered
  <2>2. CASE pc' = "post"
    BY <1>1, <2>1, <2>2 DEF StepsLeft
  <2>3. CASE pc' # "post"
    <3>1. /\ pc' = "ask" /\ round' \in {Retry} \cup 1..Lenses /\ turns' = TurnsOf(round')
          /\ After(round) >= (turns' + 1) + After(round')
      BY <1>7, <2>3, RoundEnds
    <3>2. After(round') \in Nat /\ turns' \in Nat
      BY <3>1, AfterRounds, TurnsAreNat
    <3>3. StepsLeft' = (turns' + 1) + After(round') + 1
      BY <3>1 DEF StepsLeft, After
    <3> QED BY <1>1, <2>1, <3>1, <3>2, <3>3 DEF StepsLeft
  <2> QED BY <2>2, <2>3
<1>8. CASE GeminiFails
  BY <1>8, FailureEnds DEF GeminiFails
<1>9. CASE post_review
  <2>1. CASE Fails("post")
    BY <2>1, FailureEnds
  <2>2. CASE pc = "post" /\ (Post(Assembled) \/ Rejected(Assembled) \/ AnswerLost(Assembled))
    <3>1. pc = "post" /\ pc' \in {"ok", "rejected", "failed"}
      BY <2>2 DEF Post, Rejected, AnswerLost, Goto
    <3> QED BY <3>1 DEF StepsLeft
  <2> QED BY <1>9, <2>1, <2>2 DEF post_review
<1> QED BY <1>3, <1>4, <1>5, <1>6, <1>7, <1>8, <1>9 DEF run

\* However the model answers and whatever fails, a review ends after at most
\* MaxCalls + 4 steps.
THEOREM ReviewsEnd == Spec => [](StepsLeft \in 0..MaxCalls + 4) /\ [][MovesOn]_vars
<1>1. IInv => StepsLeft \in 0..MaxCalls + 4
  <2> SUFFICES ASSUME IInv PROVE StepsLeft \in 0..MaxCalls + 4
    OBVIOUS
  <2>1. /\ MaxCalls \in Nat /\ calls \in Nat /\ turns \in Nat /\ After(round) \in Nat
    BY Constants, MaxCallsIs, AfterRounds, TurnsAreNat DEF IInv, TypeOK, First
  <2>2. pc = "ask" => calls + (turns + 1) + After(round) <= MaxCalls
    BY DEF IInv, CallsLeft
  <2> QED BY <2>1, <2>2 DEF StepsLeft
<1>2. IInv /\ [Next]_vars => [MovesOn]_vars
  <2> SUFFICES ASSUME IInv, Next PROVE MovesOn
    OBVIOUS
  <2>1. Push => StepsLeft' = StepsLeft
    BY DEF Push, session, StepsLeft, After, MaxCalls
  <2> QED BY <2>1, RunMovesOn DEF MovesOn
<1> QED BY <1>1, <1>2, Invariance, PTL DEF Spec

-----------------------------------------------------------------------------
\* The conversation changes nothing of the review's control: every step of the
\* one is a step of the other.
THEOREM Implements == CSpec => Spec
<1>1. CInit => Init
  BY DEF CInit
<1>2. [CNext]_conversation => [Next]_vars
  <2>1. Job => run
    BY DEF Job, Prompt, Silent, Investigate, Reply, Final, run
  <2> QED BY <2>1 DEF CNext, Next, conversation
<1> QED BY <1>1, <1>2, PTL DEF CSpec, Spec

\* A content of the conversation.
Contents ==
  [role : {"user", "model"}, calls : Seq(CallIds \cup {NoId}),
   responses : Seq(CallIds \cup {NoId}), parts : BOOLEAN]

Asked == contents \in Seq(Contents) /\ RequestsAccepted

\* What is added to a conversation that Gemini accepts: an answered turn of
\* calls, or a turn of text and a prompt, and at most one more prompt.
LEMMA ExtendedAccepted ==
  ASSUME NEW c \in Seq(Contents), Accepts(c) \/ c = <<>>, NEW s \in Seq(Contents),
         s # <<>>, \A i \in DOMAIN s : s[i].parts,
         s[Len(s)].role = "user", s[Len(s)].calls = <<>>, s[1].responses = <<>>,
         \A i \in DOMAIN s : s[i].calls # <<>> =>
            i < Len(s) /\ s[i + 1].responses = s[i].calls,
         \A i \in DOMAIN s : s[i].responses # <<>> =>
            i > 1 /\ s[i - 1].calls = s[i].responses
  PROVE  Accepts(c \o s)
<1> DEFINE t == c \o s
           n == Len(c)
<1>1. /\ t \in Seq(Contents) /\ Len(t) = n + Len(s)
      /\ \A i \in 1..n + Len(s) : t[i] = IF i <= n THEN c[i] ELSE s[i - n]
  BY ConcatProperties
<1>2. /\ n \in Nat /\ Len(s) \in Nat \ {0}
      /\ DOMAIN t = 1..n + Len(s) /\ DOMAIN c = 1..n /\ DOMAIN s = 1..Len(s)
  BY <1>1, LenProperties, EmptySeq
<1>3. /\ \A i \in 1..n : i \in DOMAIN t /\ t[i] = c[i]
      /\ \A i \in 1..Len(s) : n + i \in DOMAIN t /\ t[n + i] = s[i]
  BY <1>1, <1>2
<1> HIDE DEF t
<1>4. t # <<>> /\ Last(t).role = "user"
  <2>1. t[Len(t)] = s[Len(s)]
    BY <1>1, <1>2, <1>3
  <2>2. Len(t) # 0 
    BY <1>1, <1>2
  <2> QED BY <2>1, <2>2, EmptySeq DEF Last
<1>5. ASSUME NEW i \in DOMAIN t
      PROVE  /\ t[i].parts
             /\ t[i].calls # <<>> => i < Len(t) /\ t[i + 1].responses = t[i].calls
             /\ t[i].responses # <<>> => i > 1 /\ t[i - 1].calls = t[i].responses
  <2>1. CASE i \in 1..n
    <3>1. n > 0 /\ Accepts(c)
      BY <1>2, <2>1, EmptySeq
    <3>2. /\ c[i].parts
          /\ c[i].calls # <<>> => i < n /\ c[i + 1].responses = c[i].calls
          /\ c[i].responses # <<>> => i > 1 /\ c[i - 1].calls = c[i].responses
      BY <1>2, <2>1, <3>1 DEF Accepts
    <3>3. i < n => i + 1 \in 1..n /\ i < Len(t)
      BY <1>1, <1>2, <2>1
    <3>4. i > 1 => i - 1 \in 1..n
      BY <1>2, <2>1
    <3> QED BY <1>3, <2>1, <3>2, <3>3, <3>4
  <2>2. CASE i \notin 1..n
    <3> DEFINE j == i - n
    <3>1. j \in 1..Len(s) /\ i = n + j /\ j \in Int
      BY <1>2, <2>2
    <3> HIDE DEF j, n
    <3>2. /\ s[j].parts
          /\ s[j].calls # <<>> => j < Len(s) /\ s[j + 1].responses = s[j].calls
          /\ s[j].responses # <<>> => j > 1 /\ s[j - 1].calls = s[j].responses
      BY <1>2, <3>1
    <3>3. j < Len(s) => j + 1 \in 1..Len(s) /\ i + 1 = n + (j + 1) /\ i < Len(t)
      BY <1>1, <1>2, <3>1
    <3>4. j > 1 => j - 1 \in 1..Len(s) /\ i - 1 = n + (j - 1) /\ i > 1
      BY <1>2, <3>1
    <3> QED BY <1>3, <3>1, <3>2, <3>3, <3>4
  <2> QED BY <2>1, <2>2
<1> QED BY <1>4, <1>5 DEF Accepts, t

\* What the model says and what it is told are contents.
LEMMA ContentsAre ==
  /\ user_text \in Contents
  /\ \A ids \in Seq(CallIds \cup {NoId}), parts \in BOOLEAN : model(ids, parts) \in Contents
  /\ \A ids \in Seq(CallIds \cup {NoId}) : tool_results(ids) \in Contents
<1> DEFINE Ids == Seq(CallIds \cup {NoId})
<1>1. <<>> \in Ids
  BY EmptySeq
<1> HIDE DEF Ids
<1>2. user_text \in [role : {"user", "model"}, calls : Ids, responses : Ids, parts : BOOLEAN]
  BY <1>1 DEF user_text
<1>3. \A ids \in Ids, parts \in BOOLEAN :
        model(ids, parts) \in [role : {"user", "model"}, calls : Ids, responses : Ids, parts : BOOLEAN]
  BY <1>1 DEF model
<1>4. \A ids \in Ids :
        tool_results(ids) \in [role : {"user", "model"}, calls : Ids, responses : Ids, parts : BOOLEAN]
  BY <1>1 DEF tool_results
<1> QED BY <1>2, <1>3, <1>4 DEF Contents, Ids

\* Two or three contents, written out.
LEMMA ShortSeqs ==
  \A x, y, z \in Contents :
    /\ <<x, y>> \in Seq(Contents) /\ <<x, y, z>> \in Seq(Contents)
    /\ Append(<<x>>, y) = <<x, y>> /\ <<x>> \o <<y>> = <<x, y>>
    /\ Append(<<x, y>>, z) = <<x, y, z>> /\ <<x>> \o <<y, z>> = <<x, y, z>>
<1> SUFFICES ASSUME NEW S, NEW x \in S, NEW y \in S, NEW z \in S
             PROVE  /\ <<x, y>> \in Seq(S) /\ <<x, y, z>> \in Seq(S)
                    /\ Append(<<x>>, y) = <<x, y>> /\ <<x>> \o <<y>> = <<x, y>>
                    /\ Append(<<x, y>>, z) = <<x, y, z>> /\ <<x>> \o <<y, z>> = <<x, y, z>>
  OBVIOUS
<1> DEFINE p1 == <<x>>
           p2 == <<x, y>>
           p3 == <<x, y, z>>
<1>1. /\ p1 \in Seq(S) /\ p2 \in Seq(S) /\ p3 \in Seq(S) /\ <<y>> \in Seq(S) /\ <<z>> \in Seq(S)
      /\ Len(p1) = 1 /\ Len(p2) = 2 /\ Len(p3) = 3
      /\ p1[1] = x /\ p2[1] = x /\ p2[2] = y /\ p3[1] = x /\ p3[2] = y /\ p3[3] = z
      /\ <<y, z>> \in Seq(S)
  OBVIOUS
<1> HIDE DEF p1, p2, p3
<1>2. Append(p1, y) = p2
  <2> DEFINE a == Append(p1, y)
  <2>0. /\ a \in Seq(S) /\ Len(a) = Len(p1) + 1 /\ a[Len(p1) + 1] = y
        /\ \A i \in 1..Len(p1) : a[i] = p1[i]
    <3>1. p1 \in Seq(S)
      BY <1>1
    <3> QED BY <3>1, AppendProperties
  <2>1. a \in Seq(S) /\ Len(a) = 2 /\ a[1] = x /\ a[2] = y
    <3> HIDE DEF a
    <3> QED BY <1>1, <2>0
  <2> HIDE DEF a
  <2>2. \A i \in 1..Len(a) : a[i] = p2[i]
    BY <1>1, <2>1
  <2>3. a = p2
    BY <1>1, <2>1, <2>2, SeqEqual
  <2> QED BY <2>3 DEF a
<1>3. Append(p2, z) = p3
  <2> DEFINE a == Append(p2, z)
  <2>0. /\ a \in Seq(S) /\ Len(a) = Len(p2) + 1 /\ a[Len(p2) + 1] = z
        /\ \A i \in 1..Len(p2) : a[i] = p2[i]
    <3>1. p2 \in Seq(S)
      BY <1>1
    <3> QED BY <3>1, AppendProperties
  <2>1. a \in Seq(S) /\ Len(a) = 3 /\ a[1] = x /\ a[2] = y /\ a[3] = z
    <3> HIDE DEF a
    <3> QED BY <1>1, <2>0
  <2> HIDE DEF a
  <2>2. \A i \in 1..Len(a) : a[i] = p3[i]
    BY <1>1, <2>1
  <2>3. a = p3
    BY <1>1, <2>1, <2>2, SeqEqual
  <2> QED BY <2>3 DEF a
<1>4. p1 \o <<y>> = p2
  BY <1>1, <1>2, AppendIsConcat
<1>5. p1 \o <<y, z>> = p3
  <2> DEFINE q == <<y, z>>
             a == p1 \o q
  <2>1. q \in Seq(S) /\ Len(q) = 2 /\ q[1] = y /\ q[2] = z
    BY <1>1
  <2> HIDE DEF q
  <2>2. /\ a \in Seq(S) /\ Len(a) = Len(p1) + Len(q)
        /\ \A i \in 1..Len(p1) + Len(q) : a[i] = IF i <= Len(p1) THEN p1[i] ELSE q[i - Len(p1)]
    BY <1>1, <2>1, ConcatProperties
  <2> HIDE DEF a
  <2>3. a \in Seq(S) /\ Len(a) = 3 /\ a[1] = x /\ a[2] = y /\ a[3] = z
    BY <1>1, <2>1, <2>2
  <2>4. \A i \in 1..Len(a) : a[i] = p3[i]
    BY <1>1, <2>3
  <2>5. a = p3
    BY <1>1, <2>3, <2>4, SeqEqual
  <2> QED BY <2>5 DEF a, q
<1> QED BY <1>1, <1>2, <1>3, <1>4, <1>5 DEF p1, p2, p3

\* A request to conclude, if any, behind what is said.
LEMMA StopAfter ==
  ASSUME NEW t, NEW s \in Seq(Contents)
  PROVE  s \o Stop(t) = s \/ s \o Stop(t) = Append(s, user_text)
<1>1. user_text \in Contents
  BY ContentsAre
<1>2. CASE Stop(t) = <<>>
  BY <1>2, ConcatEmptySeq
<1>3. CASE Stop(t) = <<user_text>>
  BY <1>1, <1>3, AppendIsConcat
<1> QED BY <1>2, <1>3 DEF Stop

LEMMA PromptAsks == Asked /\ Prompt => Asked'
<1> SUFFICES ASSUME Asked, Prompt PROVE Asked'
  OBVIOUS
<1>1. CASE pc' = "ask"
  <2>1. contents' = <<user_text>> \o Stop(turns')
    BY <1>1 DEF Prompt
  <2>2. user_text \in Contents /\ <<user_text>> \in Seq(Contents)
    BY ContentsAre
  <2>3. contents' = <<user_text>> \/ contents' = <<user_text, user_text>>
    <3>1. Append(<<user_text>>, user_text) = <<user_text, user_text>>
      BY <2>2, ShortSeqs
    <3> QED BY <2>1, <2>2, <3>1, StopAfter
  <2>4. contents' \in Seq(Contents) /\ Accepts(contents')
    <3>1. <<user_text>> \in Seq(Contents) /\ <<user_text, user_text>> \in Seq(Contents)
      BY <2>2
    <3>2. /\ user_text.parts /\ user_text.calls = <<>> /\ user_text.responses = <<>>
          /\ user_text.role = "user"
      BY DEF user_text
    <3>3. /\ DOMAIN contents' = 1..Len(contents') /\ Len(contents') \in {1, 2}
          /\ \A i \in DOMAIN contents' : contents'[i] = user_text
          /\ contents' # <<>>
      BY <2>3
    <3>4. Last(contents') = user_text
      BY <3>3 DEF Last
    <3> QED BY <2>3, <3>1, <3>2, <3>3, <3>4 DEF Accepts
  <2> QED BY <2>4 DEF Asked, RequestsAccepted, Contents
<1>2. CASE pc' # "ask"
  BY <1>2 DEF Prompt, Asked, RequestsAccepted, Contents
<1> QED BY <1>1, <1>2

LEMMA InvestigateAsks == \A ids \in CallTurns : Asked /\ Investigate(ids) => Asked'
<1> SUFFICES ASSUME NEW ids \in CallTurns, Asked, Investigate(ids) PROVE Asked'
  OBVIOUS
<1> DEFINE turn == model(ids, TRUE)
           results == tool_results(ids)
           s == <<turn, results>>
           u == s \o Stop(turns')
<1>1. ids \in Seq(CallIds \cup {NoId}) /\ ids # <<>>
  BY ConversationAssumption
<1>2. turn \in Contents /\ results \in Contents /\ user_text \in Contents
  BY <1>1, ContentsAre
<1>3. s \in Seq(Contents) /\ contents \in Seq(Contents) /\ Accepts(contents)
  BY <1>2, ShortSeqs DEF Asked, Investigate
<1>4. contents' = contents \o s \o Stop(turns')
  BY DEF Investigate, responses
<1>5. /\ turn.parts /\ turn.calls = ids /\ turn.responses = <<>>
      /\ results.parts /\ results.calls = <<>> /\ results.responses = ids /\ results.role = "user"
      /\ user_text.parts /\ user_text.calls = <<>> /\ user_text.responses = <<>>
      /\ user_text.role = "user"
  BY DEF model, tool_results, user_text
<1> HIDE DEF turn, results
<1>6. Stop(turns') \in Seq(Contents)
  BY <1>2 DEF Stop
<1>7. contents' = contents \o u
  BY <1>3, <1>4, <1>6, ConcatAssociative
<1>8. u = s \/ u = <<turn, results, user_text>>
  <2>1. u = s \/ u = Append(s, user_text)
    BY <1>3, StopAfter
  <2> QED BY <1>2, <2>1, ShortSeqs
<1> HIDE DEF u
<1>9. Accepts(contents \o u) /\ u \in Seq(Contents)
  <2>1. CASE u = s
    <3>1. /\ DOMAIN s = 1..2 /\ Len(s) = 2 /\ s # <<>>
          /\ s[1] = turn /\ s[2] = results
      OBVIOUS
    <3> HIDE DEF s
    <3>2. /\ \A i \in DOMAIN s : s[i].parts
          /\ \A i \in DOMAIN s : s[i].calls # <<>> =>
                i < Len(s) /\ s[i + 1].responses = s[i].calls
          /\ \A i \in DOMAIN s : s[i].responses # <<>> =>
                i > 1 /\ s[i - 1].calls = s[i].responses
          /\ s[Len(s)].role = "user" /\ s[Len(s)].calls = <<>> /\ s[1].responses = <<>>
      <4>1. 1..2 = {1, 2}
        OBVIOUS
      <4> QED BY <1>5, <3>1, <4>1
    <3>3. Accepts(contents \o s)
      BY <1>3, <3>1, <3>2, ExtendedAccepted
    <3> QED BY <1>3, <2>1, <3>3
  <2>2. CASE u = <<turn, results, user_text>>
    <3>1. u \in Seq(Contents)
      BY <1>2, <2>2
    <3>2. /\ DOMAIN u = 1..3 /\ Len(u) = 3
          /\ u[1] = turn /\ u[2] = results /\ u[3] = user_text
      BY <2>2
    <3>3. u # <<>>
      BY <2>2
    <3>4. /\ \A i \in DOMAIN u : u[i].parts
          /\ \A i \in DOMAIN u : u[i].calls # <<>> =>
                i < Len(u) /\ u[i + 1].responses = u[i].calls
          /\ \A i \in DOMAIN u : u[i].responses # <<>> =>
                i > 1 /\ u[i - 1].calls = u[i].responses
          /\ u[Len(u)].role = "user" /\ u[Len(u)].calls = <<>> /\ u[1].responses = <<>>
      <4>1. 1..3 = {1, 2, 3}
        OBVIOUS
      <4> QED BY <1>5, <3>2, <4>1
    <3> QED BY <1>3, <3>1, <3>3, <3>4, ExtendedAccepted
  <2> QED BY <1>8, <2>1, <2>2
<1>10. contents' \in Seq(Contents)
  BY <1>3, <1>7, <1>9, ConcatProperties
<1> QED BY <1>7, <1>9, <1>10 DEF Asked, RequestsAccepted, Contents

\* The next round's prompt follows a turn of text.
LEMMA ReplyAsks == \A a \in Answers : Asked /\ Reply(a) => Asked'
<1> SUFFICES ASSUME NEW a \in Answers, Asked, Reply(a) PROVE Asked'
  OBVIOUS
<1>1. contents \in Seq(Contents) /\ Accepts(contents)
  BY DEF Asked, Reply
<1> DEFINE next == IF pc' = "ask" THEN <<user_text>> \o Stop(turns') ELSE <<>>
<1>2. PICK turn \in {model(<<>>, TRUE), model(<<>>, FALSE), model(<<NoId>>, TRUE)} :
        /\ contents' = Append(contents, turn) \o next
        /\ misspoke' = (~turn.parts \/ turn.calls # <<>>)
  BY DEF Reply
<1>3. turn \in Contents /\ user_text \in Contents
  <2>1. <<>> \in Seq(CallIds \cup {NoId}) /\ <<NoId>> \in Seq(CallIds \cup {NoId})
    BY EmptySeq
  <2> QED BY <1>2, <2>1, ContentsAre
<1>4. CASE pc' # "ask"
  <2>1. next = <<>> /\ Append(contents, turn) \in Seq(Contents)
    BY <1>1, <1>3, <1>4, AppendProperties
  <2>2. contents' = Append(contents, turn)
    BY <1>2, <2>1, ConcatEmptySeq
  <2> QED BY <1>4, <2>1, <2>2 DEF Asked, RequestsAccepted, Contents
<1>5. CASE pc' = "ask"
  <2>1. /\ next \in Seq(Contents)
        /\ next = <<user_text>> \/ next = <<user_text, user_text>>
    <3>1. <<user_text>> \in Seq(Contents)
      BY <1>3
    <3>2. next = <<user_text>> \/ next = Append(<<user_text>>, user_text)
      BY <1>5, <3>1, StopAfter
    <3>3. /\ Append(<<user_text>>, user_text) = <<user_text, user_text>>
          /\ <<user_text, user_text>> \in Seq(Contents)
      BY <1>3, ShortSeqs
    <3> HIDE DEF next
    <3> QED BY <3>1, <3>2, <3>3
  <2> HIDE DEF next
  <2>2. contents' = contents \o (<<turn>> \o next) /\ <<turn>> \o next \in Seq(Contents)
    <3>1. Append(contents, turn) = contents \o <<turn>> /\ <<turn>> \in Seq(Contents)
      BY <1>1, <1>3, AppendIsConcat
    <3>2. contents' = (contents \o <<turn>>) \o next
      BY <1>2, <3>1
    <3> QED BY <1>1, <2>1, <3>1, <3>2, ConcatAssociative, ConcatProperties
  <2>3. contents' \in Seq(Contents)
    BY <1>1, <2>2, ConcatProperties
  <2>4. CASE misspoke'
    BY <2>3, <2>4 DEF Asked, RequestsAccepted, Contents
  <2>5. CASE ~misspoke'
    <3>1. turn.parts /\ turn.calls = <<>> /\ turn.responses = <<>>
      <4>1. turn.parts /\ turn.calls = <<>>
        BY <1>2, <2>5
      <4>2. turn.responses = <<>>
        BY <1>2 DEF model
      <4> QED BY <4>1, <4>2
    <3> DEFINE u == <<turn>> \o next
    <3>2. u = <<turn, user_text>> \/ u = <<turn, user_text, user_text>>
      <4>1. /\ <<turn>> \o <<user_text>> = <<turn, user_text>>
            /\ <<turn>> \o <<user_text, user_text>> = <<turn, user_text, user_text>>
        BY <1>3, ShortSeqs
      <4> QED BY <2>1, <4>1
    <3> HIDE DEF u
    <3>3. /\ user_text.parts /\ user_text.calls = <<>> /\ user_text.responses = <<>>
          /\ user_text.role = "user"
      BY DEF user_text
    <3>4. /\ u # <<>> /\ Len(u) > 1
          /\ u[1] = turn /\ \A i \in DOMAIN u : i # 1 => u[i] = user_text
          /\ DOMAIN u = 1..Len(u) /\ Len(u) \in Nat
      BY <3>2
    <3>5. /\ \A i \in DOMAIN u : u[i].parts /\ u[i].calls = <<>> /\ u[i].responses = <<>>
          /\ u[Len(u)].role = "user" /\ u[Len(u)].calls = <<>> /\ u[1].responses = <<>>
      BY <3>1, <3>3, <3>4
    <3>6. u \in Seq(Contents)
      BY <2>2 DEF u
    <3>7. Accepts(contents \o u)
      BY <1>1, <3>4, <3>5, <3>6, ExtendedAccepted
    <3> QED BY <2>2, <2>3, <3>7 DEF u, Asked, RequestsAccepted, Contents
  <2> QED BY <2>4, <2>5
<1> QED BY <1>4, <1>5

\* Every request Gemini gets is one it accepts, unless the model itself spoke
\* out of turn.
THEOREM RequestsAreAccepted == CSpec => []RequestsAccepted
<1>1. CInit => Asked
  BY DEF CInit, Init, Asked, RequestsAccepted
<1>2. Asked /\ [CNext]_conversation => Asked'
  <2> SUFFICES ASSUME Asked, [CNext]_conversation PROVE Asked'
    OBVIOUS
  <2>1. ASSUME UNCHANGED <<contents, misspoke>>, pc' = "ask" => pc = "ask" PROVE Asked'
    BY <2>1 DEF Asked, RequestsAccepted, Contents, Accepts
  <2>2. CASE Silent
    <3>1. UNCHANGED <<contents, misspoke>>
      BY <2>2 DEF Silent
    <3>2. pc' # "ask"
      BY <2>2 DEF Silent, list_pr_files, download_tarball, GeminiFails, post_review,
                  Post, Rejected, AnswerLost, Fails, Goto
    <3> QED BY <2>1, <3>1, <3>2
  <2>3. CASE Push /\ UNCHANGED <<contents, misspoke>>
    BY <2>1, <2>3 DEF Push
  <2>4. CASE UNCHANGED conversation
    BY <2>1, <2>4 DEF conversation, vars
  <2> QED BY <2>2, <2>3, <2>4, PromptAsks, InvestigateAsks, ReplyAsks DEF CNext, Job
<1>3. Asked => RequestsAccepted
  BY DEF Asked
<1> QED BY <1>1, <1>2, <1>3, PTL DEF CSpec

=============================================================================

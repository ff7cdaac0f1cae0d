------------------------ MODULE TriageCommentsProofs ------------------------
(***************************************************************************)
(* What triage jobs may do to an issue's thread, for any number of jobs,   *)
(* any page size, any thread they start from and any fate of their calls.  *)
(*                                                                         *)
(* Knows says what a job remembers, and what a call in flight was sent     *)
(* for, stays true of the thread; with it no other's comment is touched    *)
(* and the oldest is kept. Serial and Calm count: of jobs that run one     *)
(* after the other at most one may still write, and what it found is all   *)
(* there is; with them there is one comment, and the last job's.           *)
(***************************************************************************)
EXTENDS TriageComments, SequenceTheorems, FiniteSetTheorems, TLAPS

(* The strengthening. *)

\* Where a job may be that has deleted something.
Deleters == {"delete", "done", "killed"}

\* A deleted comment is a triage comment with an older one before it.
ThreadKnows ==
  \A i \in Ids :
    /\ Plausible(thread[i])
    /\ i \in Theirs => thread[i].writer = NoJob /\ thread[i].st # "removed"
    /\ thread[i].st = "removed" => /\ thread[i].writer \in Jobs
                                   /\ pc[thread[i].writer] \in Deleters
                                   /\ \E h \in Ours : h < i

\* What a job remembers from its listing stays true: comments are never
\* renumbered and never change hands.
JobKnows ==
  \A j \in Jobs : pc[j] \in {"patch", "delete"} =>
    /\ first[j] \in Ours
    /\ \A v \in victims[j] : v \in Ours /\ first[j] < v

\* So does what a call in flight was sent for.
Grounded(c) ==
  /\ c \in Calls
  /\ c.op = "patch" => c.id \in Ours
  /\ c.op = "delete" => /\ c.id \in Ours
                        /\ pc[c.by] \in Deleters
                        /\ \E h \in Ours : h < c.id

LateKnows == \A c \in late : Grounded(c)

Knows == TypeOK /\ ThreadKnows /\ JobKnows /\ LateKnows

-----------------------------------------------------------------------------
LEMMA IdsAre == ASSUME thread \in Seq(Comment)
                PROVE  Len(thread) \in Nat /\ Ids = 1..Len(thread) /\ Ids \subseteq Nat
BY DEF Ids

\* Replacing a comment by one of the same author and leaving the rest.
LEMMA Replaced ==
  ASSUME thread \in Seq(Comment), NEW i \in Ids, NEW e \in Comment,
         thread' = [thread EXCEPT ![i] = e]
  PROVE  /\ thread' \in Seq(Comment)
         /\ Ids' = Ids
         /\ thread'[i] = e
         /\ \A k \in Ids : k # i => thread'[k] = thread[k]
<1>1. Len(thread) \in Nat /\ Ids = 1..Len(thread)
  BY IdsAre
<1>2. /\ thread' \in Seq(Comment)
      /\ Len(thread') = Len(thread)
      /\ \A k \in 1..Len(thread) : thread'[k] = IF k = i THEN e ELSE thread[k]
  BY <1>1
<1>3. Ids' = 1..Len(thread')
  BY <1>2, LenProperties, Zenon DEF Ids
<1>4. Ids' = Ids
  BY <1>1, <1>2, <1>3, Zenon
<1>5. thread'[i] = e /\ \A k \in Ids : k # i => thread'[k] = thread[k]
  BY <1>1, <1>2, Zenon
<1> QED
  BY <1>2, <1>4, <1>5, Zenon

LEMMA Appended ==
  ASSUME thread \in Seq(Comment), NEW e \in Comment, thread' = Append(thread, e)
  PROVE  /\ thread' \in Seq(Comment)
         /\ Ids' = Ids \cup {Len(thread) + 1}
         /\ Len(thread) + 1 \notin Ids
         /\ thread'[Len(thread) + 1] = e
         /\ \A k \in Ids : thread'[k] = thread[k]
<1>1. Len(thread) \in Nat /\ Ids = 1..Len(thread)
  BY IdsAre
<1>2. thread' \in Seq(Comment) /\ Len(thread') = Len(thread) + 1
  BY <1>1
<1>3. Ids' = 1..Len(thread')
  BY <1>2 DEF Ids
<1>4. \A k \in 1..Len(thread) : thread'[k] = thread[k]
  BY <1>1
<1>5. thread'[Len(thread) + 1] = e
  BY <1>1
<1> QED
  BY <1>1, <1>2, <1>3, <1>4, <1>5

-----------------------------------------------------------------------------
\* A step on the thread that keeps every comment's author, and what makes it
\* a triage comment, and after which deleters are still deleters.
Onward ==
  /\ thread' \in Seq(Comment)
  /\ Ids \subseteq Ids'
  /\ \A i \in Ids : /\ thread'[i].author = thread[i].author
                    /\ thread[i].text # "other" => thread'[i].text # "other"
  /\ \A j \in Jobs : pc[j] \in Deleters => pc'[j] \in Deleters

LEMMA OursGrow == ASSUME Onward PROVE Ours \subseteq Ours'
BY DEF Onward, Ours

\* What becomes of a comment in such a step: nothing, or it is updated or
\* deleted as a triage comment, or a moderator deletes it.
Fate(i) ==
  \/ thread'[i] = thread[i]
  \/ /\ i \in Ours
     /\ Plausible(thread'[i])
     /\ \/ thread'[i].st # "removed"
        \/ /\ thread'[i].writer \in Jobs
           /\ pc'[thread'[i].writer] \in Deleters
           /\ \E h \in Ours : h < i

\* And what a new comment is.
Newcomer(i) ==
  /\ Plausible(thread'[i])
  /\ thread'[i].st # "removed"
  /\ thread'[i].author # "nogent" => thread'[i].writer = NoJob

LEMMA ThreadKnowsStays ==
  ASSUME ThreadKnows, Onward,
         \A i \in Ids : Fate(i),
         \A i \in Ids' \ Ids : Newcomer(i)
  PROVE  ThreadKnows'
<1>1. Ours \subseteq Ours'
  BY OursGrow
<1> SUFFICES ASSUME NEW i \in Ids'
             PROVE  /\ Plausible(thread'[i])
                    /\ i \in Theirs' => thread'[i].writer = NoJob /\ thread'[i].st # "removed"
                    /\ thread'[i].st = "removed" => /\ thread'[i].writer \in Jobs
                                                    /\ pc'[thread'[i].writer] \in Deleters
                                                    /\ \E h \in Ours' : h < i
  BY DEF ThreadKnows, Plausible
<1>2. CASE i \notin Ids
  <2>1. Newcomer(i)
    BY <1>2
  <2>2. i \in Theirs' => thread'[i].author # "nogent"
    BY <2>1 DEF Newcomer, Plausible, Theirs, Ours
  <2> QED BY <2>1, <2>2 DEF Newcomer
<1>3. CASE i \in Ids /\ thread'[i] = thread[i]
  <2>1. i \in Theirs' => i \in Theirs
    BY <1>1, <1>3 DEF Theirs, Ours
  <2> QED
    BY <1>1, <1>3, <2>1 DEF ThreadKnows, Onward
<1>4. CASE i \in Ids /\ thread'[i] # thread[i]
  <2>1. i \in Ours'  /\ i \notin Theirs'
    BY <1>1, <1>4 DEF Fate, Theirs
  <2>2. Fate(i)
    BY <1>4
  <2>3. Plausible(thread'[i])
    BY <1>4, <2>2 DEF Fate
  <2>4. thread'[i].st = "removed" => /\ thread'[i].writer \in Jobs
                                     /\ pc'[thread'[i].writer] \in Deleters
                                     /\ \E h \in Ours' : h < i
    BY <1>1, <1>4, <2>2 DEF Fate
  <2> QED
    BY <2>1, <2>3, <2>4
<1> QED
  BY <1>2, <1>3, <1>4

\* A step that leaves the thread alone.
LEMMA ThreadAlone ==
  ASSUME thread \in Seq(Comment), UNCHANGED thread,
         \A j \in Jobs : pc[j] \in Deleters => pc'[j] \in Deleters
  PROVE  /\ Onward
         /\ \A i \in Ids : Fate(i)
         /\ \A i \in Ids' \ Ids : Newcomer(i)
BY DEF Onward, Fate, Ids

\* A grounded call, whenever it lands, does to the thread what may be done.
LEMMA AppliedStep ==
  ASSUME thread \in Seq(Comment), ThreadKnows,
         NEW c, Grounded(c), Appliable(c), thread' = Applied(c),
         \A j \in Jobs : pc[j] \in Deleters => pc'[j] \in Deleters
  PROVE  /\ Onward
         /\ \A i \in Ids : Fate(i)
         /\ \A i \in Ids' \ Ids : Newcomer(i)
<1>1. c \in Calls /\ c.by \in Jobs /\ c.text \in {"triage", "fallback"}
  BY DEF Grounded, Calls
<1>2. \A i \in Ids : thread[i] \in Comment
  BY IdsAre, ElementOfSeq
<1>3. CASE c.op = "post"
  <2> DEFINE e == [author |-> "nogent", text |-> c.text, writer |-> c.by, st |-> "there"]
  <2>1. e \in Comment /\ Plausible(e)
    BY <1>1 DEF Comment, Texts, Plausible
  <2>2. thread' = Append(thread, e)
    BY <1>3 DEF Applied
  <2> HIDE DEF e
  <2>3. /\ thread' \in Seq(Comment)
        /\ Ids' = Ids \cup {Len(thread) + 1}
        /\ thread'[Len(thread) + 1] = e
        /\ \A k \in Ids : thread'[k] = thread[k]
    BY <2>1, <2>2, Appended
  <2>4. Plausible(thread'[Len(thread) + 1])
    BY <2>1, <2>3 DEF Plausible
  <2>5. e.author = "nogent" /\ e.st = "there"
    BY DEF e
  <2> QED
    BY <2>3, <2>4, <2>5 DEF Onward, Fate, Newcomer
<1>4. CASE c.op = "patch"
  <2> DEFINE e == [thread[c.id] EXCEPT !.text = c.text, !.writer = c.by]
  <2>1. c.id \in Ours /\ c.id \in Ids /\ thread[c.id] \in Comment
        /\ thread[c.id].author # "person" /\ thread[c.id].st = "there"
    BY <1>2, <1>4 DEF Grounded, Ours, Appliable, Stands
  <2>2. /\ e \in Comment /\ e.author = thread[c.id].author /\ e.st = "there"
        /\ e.text # "other" /\ Plausible(e)
    BY <1>1, <2>1 DEF Comment, Texts, Plausible
  <2>3. thread' = [thread EXCEPT ![c.id] = e]
    BY <1>4 DEF Applied
  <2> HIDE DEF e
  <2>4. /\ thread' \in Seq(Comment)
        /\ Ids' = Ids
        /\ thread'[c.id] = e
        /\ \A k \in Ids : k # c.id => thread'[k] = thread[k]
    BY <2>1, <2>2, <2>3, Replaced
  <2>5. Plausible(thread'[c.id])
    BY <2>2, <2>4 DEF Plausible
  <2> QED
    BY <2>1, <2>2, <2>4, <2>5 DEF Onward, Fate, Newcomer
<1>5. CASE c.op = "delete"
  <2> DEFINE e == [thread[c.id] EXCEPT !.st = "removed", !.writer = c.by]
  <2>1. c.id \in Ours /\ c.id \in Ids /\ thread[c.id] \in Comment
        /\ pc'[c.by] \in Deleters
        /\ Plausible(thread[c.id]) /\ \E h \in Ours : h < c.id
    BY <1>1, <1>2, <1>5 DEF Grounded, Ours, Appliable, ThreadKnows
  <2>2. /\ e \in Comment /\ e.author = thread[c.id].author /\ e.text = thread[c.id].text
        /\ e.writer = c.by /\ Plausible(e)
    BY <1>1, <2>1 DEF Comment, Plausible
  <2>3. thread' = [thread EXCEPT ![c.id] = e]
    BY <1>5 DEF Applied
  <2> HIDE DEF e
  <2>4. /\ thread' \in Seq(Comment)
        /\ Ids' = Ids
        /\ thread'[c.id] = e
        /\ \A k \in Ids : k # c.id => thread'[k] = thread[k]
    BY <2>1, <2>2, <2>3, Replaced
  <2>5. Plausible(thread'[c.id])
    BY <2>2, <2>4 DEF Plausible
  <2> QED
    BY <1>1, <2>1, <2>2, <2>4, <2>5 DEF Onward, Fate, Newcomer
<1> QED
  BY <1>1, <1>3, <1>4, <1>5 DEF Calls

-----------------------------------------------------------------------------
\* What a job in its next state remembers, and what is in flight then, said
\* of the comments there are now.
JobsGrounded ==
  \A j \in Jobs : pc'[j] \in {"patch", "delete"} =>
    /\ first'[j] \in Ours
    /\ \A v \in victims'[j] : v \in Ours /\ first'[j] < v

LateGrounded ==
  \A c \in late' \ late :
    /\ c \in Calls
    /\ c.op = "patch" => c.id \in Ours
    /\ c.op = "delete" => /\ c.id \in Ours
                          /\ pc'[c.by] \in Deleters
                          /\ \E h \in Ours : h < c.id

LEMMA Assembled ==
  ASSUME Knows, Onward,
         \A i \in Ids : Fate(i),
         \A i \in Ids' \ Ids : Newcomer(i),
         JobsGrounded, LateGrounded
  PROVE  ThreadKnows' /\ JobKnows' /\ LateKnows'
<1>1. Ours \subseteq Ours'
  BY OursGrow
<1>2. ThreadKnows'
  BY ThreadKnowsStays DEF Knows
<1>3. JobKnows'
  BY <1>1 DEF JobKnows, JobsGrounded
<1>4. ASSUME NEW c \in late' PROVE Grounded(c)'
  <2>1. CASE c \in late
    <3>1. Grounded(c)
      BY <2>1 DEF Knows, LateKnows
    <3>2. c.by \in Jobs
      BY <3>1 DEF Grounded, Calls
    <3> QED
      BY <1>1, <3>1, <3>2 DEF Grounded, Onward
  <2>2. CASE c \notin late
    BY <1>1, <1>4, <2>2 DEF LateGrounded, Grounded
  <2> QED
    BY <2>1, <2>2
<1> QED
  BY <1>2, <1>3, <1>4 DEF LateKnows

\* A job's current call is grounded once the job has moved on from it, or
\* was killed.
LEMMA CurrentGrounded ==
  ASSUME Knows, NEW j \in Jobs, NEW c \in Current(j)
  PROVE  /\ c \in Calls /\ c.by = j
         /\ c.op = "patch" => c.id \in Ours
         /\ c.op = "delete" => /\ c.id \in Ours /\ pc[j] = "delete"
                               /\ \E h \in Ours : h < c.id
<1>1. text[j] \in {"triage", "fallback"} /\ first[j] \in Nat /\ victims[j] \in SUBSET Nat
  BY DEF Knows, TypeOK
<1>2. CASE pc[j] = "post"
  BY <1>1, <1>2 DEF Current, Call, Calls
<1>3. CASE pc[j] = "patch"
  BY <1>1, <1>3 DEF Current, Call, Calls, Knows, JobKnows
<1>4. CASE pc[j] = "delete"
  <2>1. PICK v \in victims[j] : c = Call(j, "delete", v)
    BY <1>4 DEF Current
  <2>2. v \in Ours /\ first[j] \in Ours /\ first[j] < v
    BY <1>4 DEF Knows, JobKnows
  <2> QED
    BY <1>1, <1>4, <2>1, <2>2 DEF Call, Calls
<1>5. CASE pc[j] \notin {"post", "patch", "delete"}
  BY <1>5 DEF Current
<1> QED
  BY <1>2, <1>3, <1>4, <1>5

-----------------------------------------------------------------------------
(* One lemma per action: what it preserves, and with it the shape. *)

StepKeeps == TypeOK' /\ ThreadKnows' /\ JobKnows' /\ LateKnows'

\* For the actions of a job that leave the thread alone and send nothing.
LEMMA Silent ==
  ASSUME Knows, UNCHANGED <<thread, late>>,
         \A j \in Jobs : pc[j] \in Deleters => pc'[j] \in Deleters,
         JobsGrounded
  PROVE  ThreadKnows' /\ JobKnows' /\ LateKnows'
<1>1. thread \in Seq(Comment)
  BY DEF Knows, TypeOK
<1>2. LateGrounded
  BY DEF LateGrounded
<1>3. Onward /\ (\A i \in Ids : Fate(i)) /\ (\A i \in Ids' \ Ids : Newcomer(i))
  BY <1>1, ThreadAlone
<1> QED
  BY <1>2, <1>3, Assembled

LEMMA PrepareKeeps == ASSUME Knows, NEW j \in Jobs, Prepare(j) PROVE StepKeeps
<1>0. \A a \in TriageAnswers : Formatted(a) \in {"triage", "fallback"}
  BY DEF Formatted
<1>1. TypeOK'
  BY <1>0 DEF Knows, TypeOK, Prepare, Goto, Ids
<1>2. JobsGrounded
  BY DEF Knows, TypeOK, JobKnows, JobsGrounded, Prepare, Goto
<1>3. \A k \in Jobs : pc[k] \in Deleters => pc'[k] \in Deleters
  BY DEF Knows, TypeOK, Prepare, Goto, Deleters
<1>4. UNCHANGED <<thread, late>>
  BY DEF Prepare
<1> QED
  BY <1>1, <1>2, <1>3, <1>4, Silent DEF StepKeeps

LEMMA TriageCommentsAreOurs ==
  ASSUME Knows PROVE triage_comments \subseteq Ours /\ triage_comments \subseteq Nat
<1>1. Ids \subseteq Nat
  BY IdsAre DEF Knows, TypeOK
<1>2. ASSUME NEW i \in triage_comments PROVE i \in Ours
  <2>1. i \in Ids /\ is_bot(thread[i]) /\ is_issue_triage_comment(thread[i])
    BY DEF triage_comments, Page, Standing
  <2>2. Plausible(thread[i]) /\ thread[i] \in Comment
    BY <2>1, IdsAre, ElementOfSeq DEF Knows, TypeOK, ThreadKnows
  <2> QED
    BY <2>1, <2>2 DEF Plausible, Comment, Ours, is_bot, is_issue_triage_comment,
                      has_marker, has_heading
<1> QED
  BY <1>1, <1>2 DEF Ours

LEMMA ListKeeps == ASSUME Knows, NEW j \in Jobs, List(j) \/ ListFails(j) PROVE StepKeeps
<1>1. triage_comments \subseteq Ours /\ triage_comments \subseteq Nat /\ Ours \subseteq Ids
  BY TriageCommentsAreOurs DEF Ours
<1>2. Ids' = Ids
  BY DEF List, ListFails, Ids
<1>3. TypeOK' /\ JobsGrounded
  <2>1. CASE \/ ListFails(j)
             \/ List(j) /\ Goto(j, "post") /\ UNCHANGED <<first, victims>>
    <3>1. TypeOK'
      BY <1>2, <2>1 DEF Knows, TypeOK, List, ListFails, Goto
    <3>2. JobsGrounded
      BY <2>1 DEF Knows, TypeOK, JobKnows, JobsGrounded, ListFails, Goto
    <3> QED
      BY <3>1, <3>2
  <2>2. ASSUME NEW f \in triage_comments, List(j),
               \A i \in triage_comments : f <= i,
               Goto(j, "patch"), first' = [first EXCEPT ![j] = f],
               victims' = [victims EXCEPT ![j] = triage_comments \ {f}]
        PROVE  TypeOK' /\ JobsGrounded
    <3>1. /\ f \in Ours /\ f \in Nat /\ f \in Ids
          /\ triage_comments \ {f} \subseteq Ids
          /\ \A v \in triage_comments \ {f} : v \in Ours /\ f < v
      BY <1>1, <2>2
    <3>2. TypeOK'
      BY <1>1, <1>2, <2>2, <3>1 DEF Knows, TypeOK, List, Goto
    <3>3. JobsGrounded
      BY <2>2, <3>1 DEF Knows, TypeOK, JobKnows, JobsGrounded, Goto
    <3> QED
      BY <3>2, <3>3
  <2> QED
    BY <2>1, <2>2 DEF List
<1>5. \A k \in Jobs : pc[k] \in Deleters => pc'[k] \in Deleters
  BY DEF Knows, TypeOK, List, ListFails, Goto, Deleters
<1>6. UNCHANGED <<thread, late>>
  BY DEF List, ListFails
<1> QED
  BY <1>3, <1>5, <1>6, Silent DEF StepKeeps

\* For the actions that make a call, whatever comes of it.
LEMMA CallKeeps ==
  ASSUME Knows, NEW j \in Jobs, NEW c \in Current(j),
         \/ Succeeds(c)
         \/ Errs(c),
         \A k \in Jobs : pc[k] \in Deleters => pc'[k] \in Deleters,
         JobsGrounded
  PROVE  /\ ThreadKnows' /\ JobKnows' /\ LateKnows'
         /\ thread' \in Seq(Comment) /\ Ids \subseteq Ids'
         /\ late' \subseteq Calls /\ calm' \subseteq Jobs
         /\ UNCHANGED <<raced, hidden>>
<1>1. thread \in Seq(Comment) /\ late \subseteq Calls /\ calm \subseteq Jobs /\ ThreadKnows
  BY DEF Knows, TypeOK
<1>2. /\ c \in Calls /\ c.by = j
      /\ c.op = "patch" => c.id \in Ours
      /\ c.op = "delete" => c.id \in Ours /\ pc[j] = "delete" /\ \E h \in Ours : h < c.id
  BY CurrentGrounded
<1>3. Grounded(c)
  BY <1>2 DEF Grounded, Deleters
<1>4. CASE Succeeds(c)
  <2>1. thread' = Applied(c) /\ Appliable(c) /\ UNCHANGED <<late, calm, raced, hidden>>
    BY <1>4 DEF Succeeds, history
  <2>2. Onward /\ (\A i \in Ids : Fate(i)) /\ (\A i \in Ids' \ Ids : Newcomer(i))
    BY <1>1, <1>3, <2>1, AppliedStep
  <2>3. LateGrounded
    BY <2>1 DEF LateGrounded
  <2> QED
    BY <1>1, <2>1, <2>2, <2>3, Assembled DEF Onward
<1>5. CASE Errs(c)
  <2>1. UNCHANGED <<thread, raced, hidden>> /\ late' \subseteq late \cup {c} /\ calm' \subseteq calm
    BY <1>5 DEF Errs
  <2>2. Onward /\ (\A i \in Ids : Fate(i)) /\ (\A i \in Ids' \ Ids : Newcomer(i))
    BY <1>1, <2>1, ThreadAlone
  <2>3. c.op = "delete" => pc'[c.by] \in Deleters
    BY <1>2 DEF Deleters
  <2>4. LateGrounded
    BY <1>2, <2>1, <2>3 DEF LateGrounded
  <2> QED
    BY <1>1, <1>2, <2>1, <2>2, <2>4, Assembled DEF Onward
<1> QED
  BY <1>4, <1>5

LEMMA PostKeeps == ASSUME Knows, NEW j \in Jobs, Post(j) PROVE StepKeeps
<1>1. PICK c \in Current(j) : Succeeds(c) \/ Errs(c)
  BY DEF Post, Current
<1>2. pc[j] = "post" /\ \E l \in {"done", "failed"} : pc' = [pc EXCEPT ![j] = l]
  BY DEF Post, Goto
<1>3. UNCHANGED <<text, first, victims>>
  BY DEF Post
<1>4. /\ \A k \in Jobs : pc[k] \in Deleters => pc'[k] \in Deleters
      /\ JobsGrounded
  BY <1>2, <1>3 DEF Knows, TypeOK, JobKnows, JobsGrounded, Deleters
<1>5. /\ ThreadKnows' /\ JobKnows' /\ LateKnows'
      /\ thread' \in Seq(Comment) /\ Ids \subseteq Ids'
      /\ late' \subseteq Calls /\ calm' \subseteq Jobs
      /\ UNCHANGED <<raced, hidden>>
  BY <1>1, <1>4, CallKeeps
<1>6. TypeOK'
  BY <1>2, <1>3, <1>5 DEF Knows, TypeOK
<1> QED
  BY <1>5, <1>6 DEF StepKeeps

LEMMA PatchKeeps == ASSUME Knows, NEW j \in Jobs, Patch(j) PROVE StepKeeps
<1>1. PICK c \in Current(j) : Succeeds(c) \/ Errs(c)
  BY DEF Patch, Current
<1>2. pc[j] = "patch" /\ \E l \in {"done", "delete", "failed"} : pc' = [pc EXCEPT ![j] = l]
  BY DEF Patch, Goto
<1>3. UNCHANGED <<text, first, victims>>
  BY DEF Patch
<1>4. /\ \A k \in Jobs : pc[k] \in Deleters => pc'[k] \in Deleters
      /\ JobsGrounded
  BY <1>2, <1>3 DEF Knows, TypeOK, JobKnows, JobsGrounded, Deleters
<1>5. /\ ThreadKnows' /\ JobKnows' /\ LateKnows'
      /\ thread' \in Seq(Comment) /\ Ids \subseteq Ids'
      /\ late' \subseteq Calls /\ calm' \subseteq Jobs
      /\ UNCHANGED <<raced, hidden>>
  BY <1>1, <1>4, CallKeeps
<1>6. TypeOK'
  BY <1>2, <1>3, <1>5 DEF Knows, TypeOK
<1> QED
  BY <1>5, <1>6 DEF StepKeeps

LEMMA DeleteKeeps == ASSUME Knows, NEW j \in Jobs, Delete(j) PROVE StepKeeps
<1>1. PICK v \in victims[j] :
        /\ victims' = [victims EXCEPT ![j] = @ \ {v}]
        /\ Succeeds(Call(j, "delete", v)) \/ Errs(Call(j, "delete", v))
        /\ Goto(j, IF victims[j] = {v} THEN "done" ELSE "delete")
  BY DEF Delete
<1>2. pc[j] = "delete" /\ \E l \in {"done", "delete"} : pc' = [pc EXCEPT ![j] = l]
  BY <1>1 DEF Delete, Goto
<1>3. Call(j, "delete", v) \in Current(j)
  BY <1>2 DEF Current
<1>4. UNCHANGED <<text, first>>
  BY DEF Delete
<1>5. /\ \A k \in Jobs : pc[k] \in Deleters => pc'[k] \in Deleters
      /\ JobsGrounded
  BY <1>1, <1>2, <1>4 DEF Knows, TypeOK, JobKnows, JobsGrounded, Deleters
<1>6. /\ ThreadKnows' /\ JobKnows' /\ LateKnows'
      /\ thread' \in Seq(Comment) /\ Ids \subseteq Ids'
      /\ late' \subseteq Calls /\ calm' \subseteq Jobs
      /\ UNCHANGED <<raced, hidden>>
  BY <1>1, <1>3, <1>5, CallKeeps
<1>7. TypeOK'
  BY <1>1, <1>2, <1>4, <1>6 DEF Knows, TypeOK
<1> QED
  BY <1>6, <1>7 DEF StepKeeps

LEMMA KilledKeeps == ASSUME Knows, NEW j \in Jobs, Killed(j) PROVE StepKeeps
<1>1. pc' = [pc EXCEPT ![j] = "killed"]
      /\ UNCHANGED <<thread, text, first, victims, raced, hidden>>
      /\ calm' \subseteq calm
  BY DEF Killed, Goto
<1>2. \A c \in late' \ late : c \in Current(j)
  BY DEF Killed
<1>3. /\ \A k \in Jobs : pc[k] \in Deleters => pc'[k] \in Deleters
      /\ JobsGrounded
  BY <1>1 DEF Knows, TypeOK, JobKnows, JobsGrounded, Deleters
<1>4. Onward /\ (\A i \in Ids : Fate(i)) /\ (\A i \in Ids' \ Ids : Newcomer(i))
  BY <1>1, <1>3, ThreadAlone DEF Knows, TypeOK
<1>5. ASSUME NEW c \in late' \ late
      PROVE  /\ c \in Calls
             /\ c.op = "patch" => c.id \in Ours
             /\ c.op = "delete" => /\ c.id \in Ours
                                   /\ pc'[c.by] \in Deleters
                                   /\ \E h \in Ours : h < c.id
  BY <1>2, <1>3, <1>5, CurrentGrounded DEF Deleters
<1>6. LateGrounded
  BY <1>5 DEF LateGrounded
<1>7. TypeOK'
  BY <1>1, <1>5 DEF Knows, TypeOK, Ids
<1> QED
  BY <1>3, <1>4, <1>6, <1>7, Assembled DEF StepKeeps

LEMMA LandsKeeps == ASSUME Knows, Lands PROVE StepKeeps
<1>1. PICK c \in late : /\ late' = late \ {c}
                        /\ thread' = IF Appliable(c) THEN Applied(c) ELSE thread
  BY DEF Lands
<1>2. UNCHANGED <<locals, history>>
  BY DEF Lands
<1>3. /\ \A k \in Jobs : pc[k] \in Deleters => pc'[k] \in Deleters
      /\ JobsGrounded
  BY <1>2 DEF Knows, JobKnows, JobsGrounded, locals
<1>4. Grounded(c) /\ thread \in Seq(Comment) /\ ThreadKnows
  BY DEF Knows, LateKnows, TypeOK
<1>5. Onward /\ (\A i \in Ids : Fate(i)) /\ (\A i \in Ids' \ Ids : Newcomer(i))
  BY <1>1, <1>3, <1>4, AppliedStep, ThreadAlone
<1>6. LateGrounded
  BY <1>1 DEF LateGrounded
<1>7. TypeOK'
  BY <1>1, <1>2, <1>5 DEF Knows, TypeOK, Onward, locals, history
<1> QED
  BY <1>3, <1>5, <1>6, <1>7, Assembled DEF StepKeeps

LEMMA OthersKeep == ASSUME Knows, Reply \/ Mimic \/ Moderate PROVE StepKeeps
<1>1. UNCHANGED <<locals, late, raced, hidden>> /\ calm' \subseteq calm
  BY DEF Reply, Mimic, Moderate, history
<1>2. /\ \A k \in Jobs : pc[k] \in Deleters => pc'[k] \in Deleters
      /\ JobsGrounded
      /\ LateGrounded
  BY <1>1 DEF Knows, JobKnows, JobsGrounded, LateGrounded, locals
<1>3. thread \in Seq(Comment) /\ ThreadKnows
  BY DEF Knows, TypeOK
<1>4. Onward /\ (\A i \in Ids : Fate(i)) /\ (\A i \in Ids' \ Ids : Newcomer(i))
  <2>1. CASE Reply \/ Mimic
    <3>1. PICK e \in Comment : /\ thread' = Append(thread, e)
                               /\ Plausible(e) /\ e.writer = NoJob /\ e.st = "there"
      <4>1. PICK w \in {<<"person", "quote">>, <<"person", "other">>, <<"bot", "other">>,
                        <<"bot", "quote">>} :
              thread' = Append(thread, [author |-> w[1], text |-> w[2], writer |-> NoJob,
                                        st |-> "there"])
        BY <2>1 DEF Reply, Mimic
      <4> DEFINE e == [author |-> w[1], text |-> w[2], writer |-> NoJob, st |-> "there"]
      <4>2. e \in Comment /\ Plausible(e) /\ e.writer = NoJob /\ e.st = "there"
        BY DEF Comment, Texts, Plausible
      <4> QED
        BY <4>1, <4>2
    <3>2. /\ thread' \in Seq(Comment)
          /\ Ids' = Ids \cup {Len(thread) + 1}
          /\ thread'[Len(thread) + 1] = e
          /\ \A k \in Ids : thread'[k] = thread[k]
      BY <1>3, <3>1, Appended
    <3>3. Plausible(thread'[Len(thread) + 1])
      BY <3>1, <3>2 DEF Plausible
    <3> QED
      BY <1>2, <3>1, <3>2, <3>3 DEF Onward, Fate, Newcomer
  <2>2. CASE Moderate
    <3>1. PICK i \in Ours \cap Standing :
            thread' = [thread EXCEPT ![i] = [@ EXCEPT !.st = "moderated"]]
      BY <2>2 DEF Moderate
    <3> DEFINE e == [thread[i] EXCEPT !.st = "moderated"]
    <3>2. i \in Ids /\ i \in Ours /\ thread[i] \in Comment /\ Plausible(thread[i])
      BY <1>3, <3>1, IdsAre, ElementOfSeq DEF Ours, ThreadKnows
    <3>3. /\ e \in Comment /\ e.author = thread[i].author /\ e.text = thread[i].text
          /\ e.st = "moderated" /\ Plausible(e)
      BY <3>2 DEF Comment, Plausible
    <3>4. thread' = [thread EXCEPT ![i] = e]
      BY <3>1
    <3> HIDE DEF e
    <3>5. /\ thread' \in Seq(Comment)
          /\ Ids' = Ids
          /\ thread'[i] = e
          /\ \A k \in Ids : k # i => thread'[k] = thread[k]
      BY <1>3, <3>2, <3>3, <3>4, Replaced
    <3>6. Plausible(thread'[i])
      BY <3>3, <3>5 DEF Plausible
    <3> QED
      BY <1>2, <3>2, <3>3, <3>5, <3>6 DEF Onward, Fate, Newcomer
  <2> QED
    BY <2>1, <2>2
<1>5. TypeOK'
  BY <1>1, <1>4 DEF Knows, TypeOK, Onward, locals
<1> QED
  BY <1>2, <1>4, <1>5, Assembled DEF StepKeeps

-----------------------------------------------------------------------------
LEMMA InitKnows == Init => Knows
<1> SUFFICES ASSUME Init PROVE Knows
  OBVIOUS
<1>1. thread \in Seq(Comment)
  BY TriageAssumption DEF Init
<1>2. \A i \in Ids : Plausible(thread[i]) /\ thread[i].writer = NoJob /\ thread[i].st # "removed"
  BY TriageAssumption DEF Init, Ids
<1>3. TypeOK
  <2>1. raced \in BOOLEAN
    BY DEF Init
  <2>2. hidden \in BOOLEAN /\ calm = {} /\ late = {}
    BY DEF Init
  <2>3. \A j \in Jobs : pc[j] = "idle" /\ first[j] = 0 /\ victims[j] = {}
    BY DEF Init
  <2>4. /\ pc \in [Jobs -> {"idle", "list", "post", "patch", "delete", "done", "failed", "killed"}]
        /\ text \in [Jobs -> {"triage", "fallback"}]
        /\ first \in [Jobs -> Nat]
        /\ victims \in [Jobs -> SUBSET Nat]
    BY DEF Init
  <2> QED
    BY <1>1, <2>1, <2>2, <2>3, <2>4 DEF TypeOK
<1>4. ThreadKnows
  BY <1>2 DEF ThreadKnows
<1>5. JobKnows /\ LateKnows
  BY DEF Init, JobKnows, LateKnows
<1> QED
  BY <1>3, <1>4, <1>5 DEF Knows

LEMMA NextKeepsKnows == Knows /\ [Next]_vars => Knows'
<1> SUFFICES ASSUME Knows, [Next]_vars PROVE StepKeeps
  BY DEF StepKeeps, Knows
<1>1. ASSUME NEW j \in Jobs, run(j) PROVE StepKeeps
  BY <1>1, PrepareKeeps, ListKeeps, PostKeeps, PatchKeeps, DeleteKeeps DEF run
<1>2. ASSUME NEW j \in Jobs, Killed(j) PROVE StepKeeps
  BY <1>2, KilledKeeps
<1>3. CASE Lands
  BY <1>3, LandsKeeps
<1>4. CASE Reply \/ Mimic \/ Moderate
  BY <1>4, OthersKeep
<1>5. CASE UNCHANGED vars
  <2>1. TypeOK'
    BY <1>5 DEF Knows, TypeOK, Ids, vars, locals, history
  <2>2. /\ UNCHANGED <<thread, late>>
        /\ \A j \in Jobs : pc[j] \in Deleters => pc'[j] \in Deleters
        /\ JobsGrounded
    BY <1>5 DEF Knows, JobKnows, JobsGrounded, vars, locals
  <2> QED
    BY <2>1, <2>2, Silent DEF StepKeeps
<1> QED
  BY <1>1, <1>2, <1>3, <1>4, <1>5 DEF Next

THEOREM Invariance == Spec => []Knows
BY InitKnows, NextKeepsKnows, PTL DEF Spec

-----------------------------------------------------------------------------
\* The state always has its shape: a job that updates or deletes has found
\* the comment to update (triage.rs, split_first).
THEOREM TypeCorrect == Spec => []TypeOK
<1>1. Knows => TypeOK
  BY DEF Knows
<1> QED
  BY <1>1, Invariance, PTL

\* No comment of a person, and none of another bot that is without marker and
\* heading, is ever updated or deleted.
THEOREM OthersAreUntouched == Spec => []OthersUntouched
<1>1. Knows => OthersUntouched
  BY DEF Knows, ThreadKnows, OthersUntouched, Theirs
<1> QED
  BY <1>1, Invariance, PTL

\* The oldest triage comment is never deleted by nogent, whatever jobs run.
THEOREM OldestIsSafe == Spec => []OldestSurvives
<1>1. Knows => OldestSurvives
  <2> SUFFICES ASSUME Knows, NEW i \in Ours, \A h \in Ours : i <= h,
                      thread[i].st = "removed"
               PROVE  FALSE
    BY DEF OldestSurvives
  <2>1. i \in Ids /\ Ours \subseteq Nat
    BY IdsAre DEF Ours, Knows, TypeOK
  <2>2. PICK h \in Ours : h < i
    BY <2>1 DEF Knows, ThreadKnows
  <2> QED
    BY <2>1, <2>2
<1> QED
  BY <1>1, Invariance, PTL

\* A job that ends with an error has deleted nothing, then or later.
THEOREM FailureIsHarmless == Spec => []FailedRemovedNothing
<1>1. Knows => FailedRemovedNothing
  BY DEF Knows, ThreadKnows, FailedRemovedNothing, Deleters
<1> QED
  BY <1>1, Invariance, PTL

-----------------------------------------------------------------------------
(* How many there are. *)

\* The triage comments that stand, and those of them that nogent has posted.
Written == Ours \cap Standing
Present == Posted \cap Standing

LEMMA PresentAreWritten == Knows => Present \subseteq Written
<1> SUFFICES ASSUME Knows, NEW i \in Present PROVE i \in Ours
  BY DEF Present, Written
<1>1. i \in Ids /\ Plausible(thread[i]) /\ thread[i].author = "nogent"
  BY DEF Present, Posted, Knows, ThreadKnows
<1> QED BY <1>1 DEF Plausible, Ours

\* Jobs that may still write, by themselves or by a call in flight.
Writers == Running \cup {c.by : c \in late}

\* What a call does to the triage comments, whenever it lands.
LEMMA WrittenAfter ==
  ASSUME Knows, NEW c, Grounded(c), Appliable(c), thread' = Applied(c)
  PROVE  /\ c.op = "post" => \E n : /\ Written' = Written \cup {n} /\ n \notin Ids
                                    /\ Present' = Present \cup {n}
                                    /\ n \in Ids' /\ thread'[n].writer = c.by
         /\ c.op = "patch" => /\ Written' = Written /\ c.id \in Written
                              /\ Present' = Present
                              /\ thread'[c.id].writer = c.by
         /\ c.op = "delete" => /\ Written' = Written \ {c.id}
                               /\ Present' = Present \ {c.id}
                               /\ \A k \in Ids : k # c.id => thread'[k] = thread[k]
<1>1. c \in Calls /\ c.by \in Jobs /\ c.text \in {"triage", "fallback"}
  BY DEF Grounded, Calls
<1>2. thread \in Seq(Comment) /\ \A i \in Ids : thread[i] \in Comment
  BY IdsAre, ElementOfSeq DEF Knows, TypeOK
<1>3. CASE c.op = "post"
  <2> DEFINE e == [author |-> "nogent", text |-> c.text, writer |-> c.by, st |-> "there"]
             n == Len(thread) + 1
  <2>1. /\ e \in Comment /\ e.author = "nogent" /\ e.st = "there" /\ e.writer = c.by
        /\ e.text # "other"
    BY <1>1 DEF Comment, Texts
  <2>2. thread' = Append(thread, e)
    BY <1>3 DEF Applied
  <2> HIDE DEF e
  <2>3. /\ Ids' = Ids \cup {n} /\ n \notin Ids /\ thread'[n] = e
        /\ \A k \in Ids : thread'[k] = thread[k]
    BY <1>2, <2>1, <2>2, Appended
  <2> HIDE DEF n
  <2>4. Written' = Written \cup {n} /\ Present' = Present \cup {n}
    BY <2>1, <2>3 DEF Written, Ours, Present, Posted, Standing, Stands
  <2> QED BY <1>3, <2>1, <2>3, <2>4
<1>4. CASE c.op = "patch"
  <2> DEFINE e == [thread[c.id] EXCEPT !.text = c.text, !.writer = c.by]
  <2>1. c.id \in Ids /\ thread[c.id] \in Comment
        /\ thread[c.id].author # "person" /\ thread[c.id].text # "other"
        /\ thread[c.id].st = "there"
    BY <1>2, <1>4 DEF Grounded, Ours, Appliable, Stands
  <2>2. /\ e \in Comment /\ e.author = thread[c.id].author /\ e.text # "other"
        /\ e.st = "there" /\ e.writer = c.by
    BY <1>1, <2>1 DEF Comment, Texts
  <2>3. thread' = [thread EXCEPT ![c.id] = e]
    BY <1>4 DEF Applied
  <2> HIDE DEF e
  <2>4. /\ Ids' = Ids /\ thread'[c.id] = e
        /\ \A k \in Ids : k # c.id => thread'[k] = thread[k]
    BY <1>2, <2>1, <2>2, <2>3, Replaced
  <2>5. Written' = Written /\ c.id \in Written /\ Present' = Present
    BY <2>1, <2>2, <2>4 DEF Written, Ours, Present, Posted, Standing, Stands
  <2> QED BY <1>4, <2>2, <2>4, <2>5
<1>5. CASE c.op = "delete"
  <2> DEFINE e == [thread[c.id] EXCEPT !.st = "removed", !.writer = c.by]
  <2>1. c.id \in Ids /\ thread[c.id] \in Comment
    BY <1>2, <1>5 DEF Appliable
  <2>2. e \in Comment /\ e.st = "removed"
    BY <1>1, <2>1 DEF Comment
  <2>3. thread' = [thread EXCEPT ![c.id] = e]
    BY <1>5 DEF Applied
  <2> HIDE DEF e
  <2>4. /\ Ids' = Ids /\ thread'[c.id] = e
        /\ \A k \in Ids : k # c.id => thread'[k] = thread[k]
    BY <1>2, <2>1, <2>2, <2>3, Replaced
  <2>5. Written' = Written \ {c.id} /\ Present' = Present \ {c.id}
    BY <2>2, <2>4 DEF Written, Ours, Present, Posted, Standing, Stands
  <2> QED BY <1>5, <2>4, <2>5
<1> QED BY <1>1, <1>3, <1>4, <1>5 DEF Calls

\* What the others do to them.
LEMMA WrittenByOthers ==
  ASSUME Knows
  PROVE  /\ Reply => Written' = Written /\ \A k \in Ids : thread'[k] = thread[k]
         /\ Reply \/ Mimic => Present' = Present
         /\ Moderate => Present' \subseteq Present
<1>1. thread \in Seq(Comment) /\ \A i \in Ids : thread[i] \in Comment
  BY IdsAre, ElementOfSeq DEF Knows, TypeOK
<1>2. ASSUME NEW e \in Comment, thread' = Append(thread, e), e.author # "nogent"
      PROVE  /\ \A k \in Ids : thread'[k] = thread[k]
             /\ e.author = "person" \/ e.text = "other" => Written' = Written
             /\ Present' = Present
  <2>1. /\ Ids' = Ids \cup {Len(thread) + 1} /\ Len(thread) + 1 \notin Ids
        /\ thread'[Len(thread) + 1] = e
        /\ \A k \in Ids : thread'[k] = thread[k]
    BY <1>1, <1>2, Appended
  <2>2. Written \subseteq Ids /\ Written' \subseteq Ids' /\ Present \subseteq Ids /\ Present' \subseteq Ids'
    BY DEF Written, Ours, Present, Posted
  <2>3. \A k \in Ids : (k \in Written' <=> k \in Written) /\ (k \in Present' <=> k \in Present)
    BY <2>1 DEF Written, Ours, Present, Posted, Standing, Stands
  <2>4. /\ e.author = "person" \/ e.text = "other" => Len(thread) + 1 \notin Written'
        /\ Len(thread) + 1 \notin Present'
    BY <1>2, <2>1 DEF Written, Ours, Present, Posted
  <2> QED BY <2>1, <2>2, <2>3, <2>4
<1>3. ASSUME Reply PROVE Written' = Written /\ Present' = Present /\ \A k \in Ids : thread'[k] = thread[k]
  <2>1. PICK w \in {<<"person", "quote">>, <<"person", "other">>, <<"bot", "other">>} :
          thread' = Append(thread, [author |-> w[1], text |-> w[2], writer |-> NoJob,
                                    st |-> "there"])
    BY <1>3 DEF Reply
  <2> DEFINE e == [author |-> w[1], text |-> w[2], writer |-> NoJob, st |-> "there"]
  <2>2. e \in Comment /\ e.author # "nogent" /\ (e.author = "person" \/ e.text = "other")
    BY DEF Comment, Texts
  <2>3. thread' = Append(thread, e)
    BY <2>1
  <2> HIDE DEF e
  <2> QED BY <1>2, <2>2, <2>3
<1>4. ASSUME Mimic PROVE Present' = Present
  <2> DEFINE e == [author |-> "bot", text |-> "quote", writer |-> NoJob, st |-> "there"]
  <2>1. e \in Comment /\ e.author # "nogent" /\ thread' = Append(thread, e)
    BY <1>4 DEF Comment, Texts, Mimic
  <2> HIDE DEF e
  <2> QED BY <1>2, <2>1
<1>5. ASSUME Moderate PROVE Present' \subseteq Present
  <2>1. PICK i \in Ours \cap Standing :
          thread' = [thread EXCEPT ![i] = [@ EXCEPT !.st = "moderated"]]
    BY <1>5 DEF Moderate
  <2> DEFINE e == [thread[i] EXCEPT !.st = "moderated"]
  <2>2. i \in Ids /\ e \in Comment /\ e.st = "moderated"
    BY <1>1, <2>1 DEF Ours, Comment
  <2>3. thread' = [thread EXCEPT ![i] = e]
    BY <2>1
  <2> HIDE DEF e
  <2>4. /\ Ids' = Ids /\ thread'[i] = e
        /\ \A k \in Ids : k # i => thread'[k] = thread[k]
    BY <1>1, <2>2, <2>3, Replaced
  <2> QED BY <2>2, <2>4 DEF Present, Posted, Standing, Stands
<1> QED BY <1>3, <1>4, <1>5

\* A listing of the whole thread finds every triage comment.
LEMMA ListSees == Knows /\ Page = Standing => triage_comments = Written
<1> SUFFICES ASSUME Knows, Page = Standing PROVE triage_comments = Written
  OBVIOUS
<1>1. triage_comments \subseteq Written
  BY TriageCommentsAreOurs DEF triage_comments, Written
<1>2. ASSUME NEW i \in Written PROVE i \in triage_comments
  <2>1. /\ i \in Ids /\ i \in Page /\ thread[i] \in Comment
        /\ thread[i].author # "person" /\ thread[i].text # "other"
    BY IdsAre, ElementOfSeq DEF Written, Ours, Knows, TypeOK
  <2> QED BY <2>1 DEF Comment, Texts, triage_comments, is_bot, is_issue_triage_comment,
                      has_marker, has_heading
<1> QED BY <1>1, <1>2

-----------------------------------------------------------------------------
\* While jobs run one after the other, and list the whole thread: one of them
\* at most may still write, and one that will post, or whose post is still in
\* flight, finds no comment of nogent's standing.
Serial ==
  ~raced /\ ~hidden =>
    /\ AtMostOne
    /\ \A j, k \in Writers : j = k
    /\ \A j \in Jobs : pc[j] \in {"list", "post", "patch"} => late = {}
    /\ \A j \in Jobs : pc[j] = "post" => Present = {}
    /\ \A c \in late : c.op = "post" => late = {c} /\ Running = {} /\ Present = {}

LEMMA AtMostOneIs == AtMostOne <=> \A i, k \in Present : i = k
BY DEF AtMostOne, Present

\* A step that begins no job, writes no comment and sends no call to post.
LEMMA SerialQuietly ==
  ASSUME Knows, Serial, UNCHANGED <<raced, hidden>>,
         Present' \subseteq Present, Writers' \subseteq Writers, Running' \subseteq Running,
         \A j \in Jobs : pc'[j] \in {"list", "post", "patch"} => pc'[j] = pc[j],
         (\E j \in Jobs : pc'[j] \in {"list", "post", "patch"}) => late' \subseteq late,
         \A c \in late' \ late : c.op # "post" /\ Running # {}
  PROVE  Serial'
<1> SUFFICES ASSUME ~raced, ~hidden
             PROVE  /\ AtMostOne'
                    /\ \A j, k \in Writers' : j = k
                    /\ \A j \in Jobs : pc'[j] \in {"list", "post", "patch"} => late' = {}
                    /\ \A j \in Jobs : pc'[j] = "post" => Present' = {}
                    /\ \A c \in late' : c.op = "post" =>
                          late' = {c} /\ Running' = {} /\ Present' = {}
  BY DEF Serial
<1>1. AtMostOne'
  BY AtMostOneIs DEF Serial, AtMostOne, Present
<1>2. \A j, k \in Writers' : j = k
  BY DEF Serial
<1>3. \A j \in Jobs : pc'[j] \in {"list", "post", "patch"} => late' = {}
  BY DEF Serial
<1>4. \A j \in Jobs : pc'[j] = "post" => Present' = {}
  BY DEF Serial
<1>5. ASSUME NEW c \in late', c.op = "post" PROVE late' = {c} /\ Running' = {} /\ Present' = {}
  <2>1. c \in late
    BY <1>5
  <2>2. late = {c} /\ Running = {} /\ Present = {}
    BY <1>5, <2>1 DEF Serial
  <2> QED BY <1>5, <2>2
<1> QED BY <1>1, <1>2, <1>3, <1>4, <1>5

\* One job is the writer, and another is not.
LEMMA SoleWriter ==
  ASSUME Serial, ~raced, ~hidden, NEW j \in Running
  PROVE  Running = {j} /\ Writers = {j} /\ \A c \in late : c.by = j
BY DEF Serial, Writers

LEMMA PrepareSerial == ASSUME Knows, Serial, NEW j \in Jobs, Prepare(j) PROVE Serial'
<1>1. /\ Present' = Present /\ UNCHANGED <<thread, late, hidden>>
      /\ Page' = Page
  BY DEF Prepare, Present, Posted, Standing, Stands, Ids, Page
<1>2. CASE Goto(j, "list") /\ raced' = (raced \/ ~Quiet)
  <2> SUFFICES ASSUME ~raced', ~hidden PROVE Serial'
    BY <1>1 DEF Serial
  <2>1. Running = {} /\ late = {} /\ ~raced
    BY <1>2 DEF Quiet
  <2>2. \A k \in Jobs : pc'[k] = IF k = j THEN "list" ELSE pc[k]
    BY <1>2 DEF Goto, Knows, TypeOK
  <2>3. Running' = {j} /\ Writers' = {j}
    <3>1. Running' = {j}
      BY <2>1, <2>2 DEF Running
    <3> QED BY <1>1, <2>1, <3>1 DEF Writers
  <2>4. \A k \in Jobs : pc'[k] # "post"
    BY <2>1, <2>2 DEF Running
  <2>5. AtMostOne'
    BY <1>1, <2>1, AtMostOneIs DEF Serial, AtMostOne, Present
  <2> QED BY <1>1, <2>1, <2>3, <2>4, <2>5 DEF Serial
<1>3. CASE Goto(j, "failed") /\ UNCHANGED raced
  <2>1. \A k \in Jobs : pc'[k] = IF k = j THEN "failed" ELSE pc[k]
    BY <1>3 DEF Goto, Knows, TypeOK
  <2>2. Running' \subseteq Running /\ Writers' \subseteq Writers
    BY <1>1, <2>1 DEF Running, Writers
  <2> QED BY <1>1, <1>3, <2>1, <2>2, SerialQuietly
<1> QED BY <1>2, <1>3 DEF Prepare

LEMMA ListSerial == ASSUME Knows, Serial, NEW j \in Jobs, List(j) \/ ListFails(j) PROVE Serial'
<1>1. /\ Present' = Present /\ UNCHANGED <<thread, late, raced>>
  BY DEF List, ListFails, Present, Posted, Standing, Stands, Ids
<1>2. \A l : Goto(j, l) => \A k \in Jobs : pc'[k] = IF k = j THEN l ELSE pc[k]
  BY DEF Goto, Knows, TypeOK
<1>3. CASE ListFails(j)
  <2>1. \A k \in Jobs : pc'[k] = IF k = j THEN "failed" ELSE pc[k]
    BY <1>2, <1>3 DEF ListFails
  <2>2. Running' \subseteq Running /\ Writers' \subseteq Writers
    BY <1>1, <2>1 DEF Running, Writers
  <2> QED BY <1>1, <1>3, <2>1, <2>2, SerialQuietly DEF ListFails
<1>4. CASE List(j)
  <2> SUFFICES ASSUME ~raced, ~hidden' PROVE Serial'
    BY <1>1 DEF Serial
  <2>1. ~hidden /\ Page = Standing
    BY <1>4 DEF List
  <2>2. triage_comments = {} => Present = {}
    BY <2>1, ListSees, PresentAreWritten
  <2>3. pc[j] = "list" /\ j \in Running /\ late = {}
    BY <1>4, <2>1 DEF List, Running, Serial
  <2>4. PICK l \in {"post", "patch"} :
          /\ \A k \in Jobs : pc'[k] = IF k = j THEN l ELSE pc[k]
          /\ l = "post" => Present = {}
    BY <1>2, <1>4, <2>2 DEF List
  <2>5. Running' = {j} /\ Writers' = {j}
    <3>1. Running = {j}
      BY <2>1, <2>3, SoleWriter
    <3>2. Running' = {j}
      BY <2>4, <3>1 DEF Running
    <3> QED BY <1>1, <2>3, <3>2 DEF Writers
  <2>6. \A k \in Jobs : pc'[k] = "post" => k = j
    BY <2>5 DEF Running
  <2>7. AtMostOne'
    BY <1>1, <2>1, AtMostOneIs DEF Serial, AtMostOne, Present
  <2> QED BY <1>1, <2>3, <2>4, <2>5, <2>6, <2>7 DEF Serial
<1> QED BY <1>3, <1>4

\* A call that is made: what it does, at once or later.
LEMMA CallOutcome ==
  ASSUME Knows, NEW j \in Jobs, NEW c \in Current(j), Succeeds(c) \/ Errs(c)
  PROVE  /\ c.by = j /\ UNCHANGED <<raced, hidden>> /\ late' \subseteq late \cup {c}
         /\ Succeeds(c) => late' = late /\ calm' = calm
         /\ Errs(c) => Present' = Present /\ calm' = calm \ {j}
         /\ c.op # "post" => Present' \subseteq Present
         /\ c.op = "post" /\ Present = {} => AtMostOne'
         /\ Grounded(c)
<1>1. /\ c \in Calls /\ c.by = j
      /\ c.op = "patch" => c.id \in Ours
      /\ c.op = "delete" => c.id \in Ours /\ pc[j] = "delete" /\ \E h \in Ours : h < c.id
  BY CurrentGrounded
<1>2. Grounded(c) /\ c.op \in {"post", "patch", "delete"}
  BY <1>1 DEF Grounded, Deleters, Calls
<1>3. CASE Succeeds(c)
  <2>1. Appliable(c) /\ thread' = Applied(c) /\ UNCHANGED <<late, calm, raced, hidden>>
    BY <1>3 DEF Succeeds, history
  <2>2. /\ c.op = "post" => \E n : Present' = Present \cup {n}
        /\ c.op = "patch" => Present' = Present
        /\ c.op = "delete" => Present' = Present \ {c.id}
    BY <1>2, <2>1, WrittenAfter
  <2>3. c.op = "post" /\ Present = {} => AtMostOne'
    BY <2>2 DEF AtMostOne, Present
  <2>4. Errs(c) => Present' = Present /\ calm' = calm \ {j}
    BY <1>1 DEF Errs, Present, Posted, Standing, Stands, Ids
  <2> QED BY <1>1, <1>2, <2>1, <2>2, <2>3, <2>4
<1>4. CASE Errs(c)
  <2>1. UNCHANGED <<thread, raced, hidden>> /\ late' \subseteq late \cup {c} /\ calm' = calm \ {j}
    BY <1>1, <1>4 DEF Errs
  <2>2. Present' = Present
    BY <2>1 DEF Present, Posted, Standing, Stands, Ids
  <2>3. Present = {} => AtMostOne'
    BY <2>2 DEF AtMostOne, Present
  <2>4. Succeeds(c) => late' = late /\ calm' = calm
    BY DEF Succeeds, history
  <2> QED BY <1>1, <1>2, <2>1, <2>2, <2>3, <2>4
<1> QED BY <1>3, <1>4

\* The last or the only step of a job that posts.
LEMMA PostOver ==
  ASSUME Knows, Serial, NEW j \in Jobs, pc[j] = "post",
         pc' \in {[pc EXCEPT ![j] = l] : l \in {"done", "failed", "killed"}},
         UNCHANGED <<raced, hidden>>,
         \/ late' = late /\ AtMostOne'
         \/ Present' = Present /\ \E c : c.by = j /\ late' \subseteq late \cup {c}
  PROVE  Serial'
<1> SUFFICES ASSUME ~raced, ~hidden PROVE Serial'
  BY DEF Serial
<1>1. late = {} /\ Present = {} /\ Running = {j}
  BY SoleWriter DEF Serial, Running
<1>2. \A k \in Jobs : k # j => pc'[k] = pc[k]
  BY DEF Knows, TypeOK
<1>3. pc'[j] \in {"done", "failed", "killed"}
  BY DEF Knows, TypeOK
<1>4. Running' = {}
  BY <1>1, <1>2, <1>3 DEF Running
<1>5. \A k \in Jobs : pc'[k] \notin {"list", "post", "patch"}
  BY <1>4 DEF Running
<1>6. CASE late' = late /\ AtMostOne'
  BY <1>1, <1>4, <1>5, <1>6 DEF Serial, Writers
<1>7. CASE Present' = Present /\ \E c : c.by = j /\ late' \subseteq late \cup {c}
  <2>1. PICK c : c.by = j /\ late' \subseteq {c}
    BY <1>1, <1>7
  <2>2. \A k, l \in Writers' : k = l
    BY <1>4, <2>1 DEF Writers
  <2>3. \A d \in late' : late' = {d}
    BY <2>1
  <2>4. AtMostOne'
    BY <1>1, <1>7 DEF AtMostOne, Present
  <2> QED BY <1>1, <1>4, <1>5, <1>7, <2>2, <2>3, <2>4 DEF Serial
<1> QED BY <1>6, <1>7

\* A step of a job that updates or deletes, whatever comes of it.
LEMMA CleanupSerial ==
  ASSUME Knows, Serial, NEW j \in Jobs, pc[j] \in {"list", "patch", "delete"},
         pc' \in {[pc EXCEPT ![j] = l] : l \in {"done", "delete", "failed", "killed"}},
         UNCHANGED <<raced, hidden>>, Present' \subseteq Present,
         \E c : c.by = j /\ c.op # "post" /\ late' \subseteq late \cup {c}
  PROVE  Serial'
<1> SUFFICES ASSUME ~raced, ~hidden PROVE Serial'
  BY DEF Serial
<1>1. j \in Running
  BY DEF Running
<1>2. Running = {j} /\ Writers = {j}
  BY <1>1, SoleWriter
<1>3. \A k \in Jobs : k # j => pc'[k] = pc[k]
  BY DEF Knows, TypeOK
<1>4. pc'[j] \in {"done", "delete", "failed", "killed"}
  BY DEF Knows, TypeOK
<1>5. PICK c : c.by = j /\ c.op # "post" /\ late' \subseteq late \cup {c}
  OBVIOUS
<1>6. Running' \subseteq Running /\ Writers' \subseteq Writers
  BY <1>1, <1>3, <1>4, <1>5 DEF Running, Writers
<1>7. \A k \in Jobs : pc'[k] \notin {"list", "post", "patch"}
  BY <1>2, <1>3, <1>4 DEF Running
<1>8. \A d \in late' \ late : d.op # "post" /\ Running # {}
  BY <1>1, <1>5
<1> QED BY <1>6, <1>7, <1>8, SerialQuietly

LEMMA JobSerial ==
  ASSUME Knows, Serial, NEW j \in Jobs, Post(j) \/ Patch(j) \/ Delete(j)
  PROVE  Serial'
<1>1. CASE Post(j)
  <2> DEFINE c == Call(j, "post", 0)
  <2>1. pc[j] = "post" /\ c \in Current(j) /\ c.op = "post"
    BY <1>1 DEF Post, Current, Call
  <2>2. /\ Succeeds(c) \/ Errs(c)
        /\ pc' \in {[pc EXCEPT ![j] = l] : l \in {"done", "failed", "killed"}}
    BY <1>1 DEF Post, Goto
  <2> HIDE DEF c
  <2>3. /\ c.by = j /\ UNCHANGED <<raced, hidden>> /\ late' \subseteq late \cup {c}
        /\ Succeeds(c) => late' = late
        /\ Errs(c) => Present' = Present
        /\ Present = {} => AtMostOne'
    BY <2>1, <2>2, CallOutcome
  <2>4. raced \/ hidden \/ Present = {}
    BY <2>1 DEF Serial
  <2>5. CASE raced \/ hidden
    BY <2>3, <2>5 DEF Serial
  <2>6. CASE Present = {}
    BY <2>1, <2>2, <2>3, <2>6, PostOver
  <2> QED BY <2>4, <2>5, <2>6
<1>2. CASE Patch(j)
  <2> DEFINE c == Call(j, "patch", first[j])
  <2>1. pc[j] = "patch" /\ c \in Current(j) /\ c.op = "patch"
    BY <1>2 DEF Patch, Current, Call
  <2>2. /\ Succeeds(c) \/ Errs(c)
        /\ pc' \in {[pc EXCEPT ![j] = l] : l \in {"done", "delete", "failed", "killed"}}
    BY <1>2 DEF Patch, Goto
  <2> HIDE DEF c
  <2>3. /\ c.by = j /\ UNCHANGED <<raced, hidden>> /\ late' \subseteq late \cup {c}
        /\ Present' \subseteq Present
    BY <2>1, <2>2, CallOutcome
  <2> QED BY <2>1, <2>2, <2>3, CleanupSerial
<1>3. CASE Delete(j)
  <2>1. PICK v \in victims[j] :
          /\ Succeeds(Call(j, "delete", v)) \/ Errs(Call(j, "delete", v))
          /\ Goto(j, IF victims[j] = {v} THEN "done" ELSE "delete")
    BY <1>3 DEF Delete
  <2> DEFINE c == Call(j, "delete", v)
  <2>2. pc[j] = "delete" /\ c \in Current(j) /\ c.op = "delete"
    BY <1>3 DEF Delete, Current, Call
  <2>3. pc' \in {[pc EXCEPT ![j] = l] : l \in {"done", "delete", "failed", "killed"}}
    BY <2>1 DEF Goto
  <2>4. Succeeds(c) \/ Errs(c)
    BY <2>1
  <2> HIDE DEF c
  <2>5. /\ c.by = j /\ UNCHANGED <<raced, hidden>> /\ late' \subseteq late \cup {c}
        /\ Present' \subseteq Present
    BY <2>2, <2>4, CallOutcome
  <2> QED BY <2>2, <2>3, <2>5, CleanupSerial
<1> QED BY <1>1, <1>2, <1>3

LEMMA KilledSerial == ASSUME Knows, Serial, NEW j \in Jobs, Killed(j) PROVE Serial'
<1>1. /\ Present' = Present /\ UNCHANGED <<raced, hidden>>
      /\ pc' = [pc EXCEPT ![j] = "killed"]
      /\ late' = late \/ \E c \in Current(j) : late' = late \cup {c}
  BY DEF Killed, Goto, Present, Posted, Standing, Stands, Ids
<1>2. pc' \in {[pc EXCEPT ![j] = l] : l \in {"done", "failed", "killed"}}
      /\ pc' \in {[pc EXCEPT ![j] = l] : l \in {"done", "delete", "failed", "killed"}}
  BY <1>1
<1>3. \A c \in Current(j) : c.by = j /\ c.op = pc[j]
  BY DEF Current, Call
<1>4. CASE pc[j] = "post"
  <2>1. \E c : c.by = j /\ late' \subseteq late \cup {c}
    <3>1. Call(j, "post", 0) \in Current(j)
      BY <1>4 DEF Current
    <3> QED BY <1>1, <1>3, <3>1
  <2> QED BY <1>1, <1>2, <1>4, <2>1, PostOver
<1>5. CASE pc[j] \in {"list", "patch", "delete"}
  <2>1. \E c : c.by = j /\ c.op # "post" /\ late' \subseteq late \cup {c}
    <3>1. CASE late' = late
      <4>1. [by |-> j, op |-> "patch"].by = j /\ [by |-> j, op |-> "patch"].op # "post"
        OBVIOUS
      <4> QED BY <3>1, <4>1
    <3>2. CASE \E c \in Current(j) : late' = late \cup {c}
      BY <1>3, <1>5, <3>2
    <3> QED BY <1>1, <3>1, <3>2
  <2> QED BY <1>1, <1>2, <1>5, <2>1, CleanupSerial
<1> QED BY <1>4, <1>5 DEF Killed, Running

LEMMA OutsideSerial ==
  ASSUME Knows, Serial, Lands \/ Reply \/ Mimic \/ Moderate \/ UNCHANGED vars PROVE Serial'
<1>1. UNCHANGED <<pc, raced, hidden>> /\ Running' = Running
  BY DEF Lands, Reply, Mimic, Moderate, vars, locals, history, Running
<1>2. CASE Lands
  <2>1. PICK c \in late : /\ late' = late \ {c}
                          /\ thread' = IF Appliable(c) THEN Applied(c) ELSE thread
    BY <1>2 DEF Lands
  <2>2. Grounded(c) /\ c.op \in {"post", "patch", "delete"}
    BY DEF Knows, LateKnows, Grounded, Calls
  <2>3. Writers' \subseteq Writers
    BY <1>1, <2>1 DEF Writers
  <2>4. CASE c.op = "post" /\ Appliable(c)
    <3> SUFFICES ASSUME ~raced, ~hidden PROVE Serial'
      BY <1>1 DEF Serial
    <3>1. late = {c} /\ Running = {} /\ Present = {}
      BY <2>4 DEF Serial
    <3>2. late' = {} /\ Running' = {} /\ Writers' = {}
      BY <1>1, <2>1, <3>1 DEF Writers
    <3>3. AtMostOne'
      <4>1. \E n : Present' = Present \cup {n}
        BY <2>1, <2>2, <2>4, WrittenAfter
      <4> QED BY <3>1, <4>1 DEF AtMostOne, Present
    <3>4. \A k \in Jobs : pc'[k] # "post"
      BY <3>2 DEF Running
    <3> QED BY <3>2, <3>3, <3>4 DEF Serial
  <2>5. CASE c.op # "post" \/ ~Appliable(c)
    <3>1. Present' \subseteq Present
      <4>1. CASE Appliable(c)
        BY <2>1, <2>2, <2>5, <4>1, WrittenAfter
      <4>2. CASE ~Appliable(c)
        BY <2>1, <4>2 DEF Present, Posted, Standing, Stands, Ids
      <4> QED BY <4>1, <4>2
    <3> QED BY <1>1, <2>1, <2>3, <3>1, SerialQuietly
  <2> QED BY <2>4, <2>5
<1>3. CASE Reply \/ Mimic \/ Moderate
  <2>1. Present' \subseteq Present /\ late' = late
    BY <1>3, WrittenByOthers DEF Reply, Mimic, Moderate
  <2>2. Writers' = Writers
    BY <1>1, <2>1 DEF Writers
  <2> QED BY <1>1, <2>1, <2>2, SerialQuietly
<1>4. CASE UNCHANGED vars
  <2>1. Present' = Present /\ late' = late
    BY <1>4 DEF vars, Present, Posted, Standing, Stands, Ids
  <2>2. Writers' = Writers
    BY <1>1, <2>1 DEF Writers
  <2> QED BY <1>1, <2>1, <2>2, SerialQuietly
<1> QED BY <1>2, <1>3, <1>4

\* Without races and beyond no page, nogent has one comment at most.
THEOREM SerialJobsWriteOne == Spec => []SingleIfSerial
<1>1. Init => Serial
  BY DEF Init, Serial, Writers, Running
<1>2. Knows /\ Serial /\ [Next]_vars => Serial'
  BY PrepareSerial, ListSerial, JobSerial, KilledSerial, OutsideSerial DEF Next, run
<1>3. Serial => SingleIfSerial
  BY DEF Serial, SingleIfSerial
<1> QED BY <1>1, <1>2, <1>3, Invariance, PTL DEF Spec

-----------------------------------------------------------------------------
\* A job that has met no other writer is the only one, and what it found when
\* it listed the thread is still all there is.
Calm ==
  \A j \in calm :
    /\ Running \subseteq {j} /\ late = {}
    /\ pc[j] = "post" => Written = {}
    /\ pc[j] \in {"patch", "delete"} => Written = {first[j]} \cup victims[j]
    /\ pc[j] = "delete" => thread[first[j]].writer = j

\* The job leaves one triage comment, with its own text.
Healed(j) == \E i \in Written' : Written' = {i} /\ thread'[i].writer = j

Heals == \A j \in Jobs : pc[j] # "done" /\ pc'[j] = "done" /\ j \in calm' => Healed(j)

\* A step of a job that is not undisturbed, or no longer.
LEMMA CalmOver ==
  ASSUME Calm, NEW j \in Running, calm' \subseteq calm \ {j} PROVE Calm' /\ Heals
BY DEF Calm, Heals

\* A step that changes no comment and nothing an undisturbed job remembers.
LEMMA CalmAside ==
  ASSUME Knows, Calm, calm' \subseteq calm, late' = late, Running' \subseteq Running,
         UNCHANGED <<first, victims>>, Written' = Written,
         \A i \in Ids : thread'[i] = thread[i],
         \A j \in calm' : pc'[j] \in {"post", "patch", "delete", "done"} => pc'[j] = pc[j]
  PROVE  Calm' /\ Heals
<1>1. \A j \in calm' : pc'[j] = "delete" => first[j] \in Ids
  BY DEF Knows, TypeOK
<1>2. Calm'
  BY <1>1 DEF Calm
<1>3. Heals
  BY DEF Heals
<1> QED BY <1>2, <1>3

LEMMA PrepareCalm == ASSUME Knows, Calm, NEW j \in Jobs, Prepare(j) PROVE Calm' /\ Heals
<1>1. /\ Written' = Written /\ UNCHANGED <<thread, late, first, victims>>
  BY DEF Prepare, Written, Ours, Standing, Stands, Ids
<1>2. CASE Goto(j, "list") /\ calm' = (IF Quiet THEN {j} ELSE {})
  <2>1. \A k \in Jobs : pc'[k] = IF k = j THEN "list" ELSE pc[k]
    BY <1>2 DEF Goto, Knows, TypeOK
  <2>2. CASE Quiet
    <3>1. Running' \subseteq {j} /\ late' = {} /\ calm' = {j} /\ pc'[j] = "list"
      BY <1>1, <1>2, <2>1, <2>2 DEF Quiet, Running
    <3> QED BY <2>1, <3>1 DEF Calm, Heals
  <2>3. CASE ~Quiet
    BY <1>2, <2>3 DEF Calm, Heals
  <2> QED BY <2>2, <2>3
<1>3. CASE Goto(j, "failed") /\ calm' = calm
  <2>1. \A k \in Jobs : pc'[k] = IF k = j THEN "failed" ELSE pc[k]
    BY <1>3 DEF Goto, Knows, TypeOK
  <2>2. Running' \subseteq Running /\ calm \subseteq Jobs
    BY <2>1 DEF Running, Knows, TypeOK
  <2> QED BY <1>1, <1>3, <2>1, <2>2, CalmAside
<1> QED BY <1>2, <1>3 DEF Prepare

LEMMA ListCalm == ASSUME Knows, Calm, NEW j \in Jobs, List(j) \/ ListFails(j) PROVE Calm' /\ Heals
<1>1. j \in Running
  BY DEF List, ListFails, Running
<1>2. CASE calm' = calm \ {j}
  BY <1>1, <1>2, CalmOver
<1>3. CASE List(j) /\ Page = Standing /\ calm' = calm
  <2>1. /\ Written' = Written /\ UNCHANGED <<thread, late>>
    BY <1>3 DEF List, Written, Ours, Standing, Stands, Ids
  <2>2. triage_comments = Written
    BY <1>3, ListSees
  <2>3. \A k \in calm : k = j /\ Running = {j} /\ late = {}
    BY <1>1 DEF Calm
  <2>4. CASE triage_comments = {} /\ Goto(j, "post")
    <3>1. \A k \in Jobs : pc'[k] = IF k = j THEN "post" ELSE pc[k]
      BY <2>4 DEF Goto, Knows, TypeOK
    <3>2. Running' \subseteq Running
      BY <1>1, <3>1 DEF Running
    <3> QED BY <1>3, <2>1, <2>2, <2>3, <2>4, <3>1, <3>2 DEF Calm, Heals
  <2>5. CASE \E f \in triage_comments :
               /\ Goto(j, "patch") /\ first' = [first EXCEPT ![j] = f]
               /\ victims' = [victims EXCEPT ![j] = triage_comments \ {f}]
    <3>1. \A k \in Jobs : pc'[k] = IF k = j THEN "patch" ELSE pc[k]
      BY <2>5 DEF Goto, Knows, TypeOK
    <3>2. Running' \subseteq Running
      BY <1>1, <3>1 DEF Running
    <3>3. Written = {first'[j]} \cup victims'[j]
      BY <2>2, <2>5 DEF Knows, TypeOK
    <3> QED BY <1>3, <2>1, <2>3, <3>1, <3>2, <3>3 DEF Calm, Heals
  <2> QED BY <1>3, <2>4, <2>5 DEF List
<1> QED BY <1>2, <1>3 DEF List, ListFails

LEMMA JobCalm ==
  ASSUME Knows, Calm, NEW j \in Jobs, Post(j) \/ Patch(j) \/ Delete(j)
  PROVE  Calm' /\ Heals
<1>1. j \in Running
  BY DEF Post, Patch, Delete, Running
<1>2. \A k \in calm : k = j /\ Running = {j} /\ late = {}
  BY <1>1 DEF Calm
<1> SUFFICES ASSUME j \in calm'
             PROVE  /\ Running' \subseteq {j} /\ late' = {} /\ pc'[j] # "post"
                    /\ pc'[j] = "patch" => FALSE
                    /\ pc'[j] = "delete" => /\ Written' = {first'[j]} \cup victims'[j]
                                            /\ thread'[first'[j]].writer = j
                    /\ pc'[j] = "done" => Healed(j)
  <2>1. calm' \subseteq calm
    BY DEF Post, Patch, Delete, Succeeds, Errs, history
  <2>2. \A k \in calm' : k = j
    BY <1>2, <2>1
  <2>3. CASE j \notin calm'
    BY <1>1, <2>1, <2>3, CalmOver
  <2> QED BY <2>2, <2>3 DEF Calm, Heals
<1>3. \A c \in Current(j) : Errs(c) => j \notin calm'
  BY CurrentGrounded DEF Errs
<1>4. \A c \in Current(j) : Grounded(c) /\ c.by = j
  BY CurrentGrounded DEF Grounded, Deleters
<1>5. j \in calm
  BY DEF Post, Patch, Delete, Succeeds, Errs, history
<1>6. \A k \in Jobs : k # j => pc'[k] = pc[k]
  BY DEF Post, Patch, Delete, Goto, Knows, TypeOK
<1>7. Running' \subseteq {j}
  BY <1>2, <1>5, <1>6 DEF Running
<1>8. CASE Post(j)
  <2> DEFINE c == Call(j, "post", 0)
  <2>1. c \in Current(j) /\ c.op = "post" /\ pc[j] = "post"
    BY <1>8 DEF Post, Current, Call
  <2>2. Succeeds(c) /\ Goto(j, "done")
    BY <1>3, <1>8, <2>1 DEF Post
  <2> HIDE DEF c
  <2>3. \E n : Written' = Written \cup {n} /\ thread'[n].writer = j
    BY <1>4, <2>1, <2>2, WrittenAfter DEF Succeeds
  <2>4. Written = {} /\ late' = {}
    BY <1>5, <2>1, <2>2 DEF Calm, Succeeds
  <2>5. pc'[j] = "done"
    BY <2>2 DEF Goto, Knows, TypeOK
  <2>6. Healed(j)
    BY <2>3, <2>4 DEF Healed
  <2> QED BY <1>7, <2>4, <2>5, <2>6
<1>9. CASE Patch(j)
  <2> DEFINE c == Call(j, "patch", first[j])
  <2>1. c \in Current(j) /\ c.op = "patch" /\ c.id = first[j] /\ pc[j] = "patch"
    BY <1>9 DEF Patch, Current, Call
  <2>2. Succeeds(c) /\ Goto(j, IF victims[j] = {} THEN "done" ELSE "delete")
        /\ UNCHANGED <<first, victims>>
    BY <1>3, <1>9, <2>1 DEF Patch
  <2> HIDE DEF c
  <2>3. Written' = Written /\ first[j] \in Written /\ thread'[first[j]].writer = j
    BY <1>4, <2>1, <2>2, WrittenAfter DEF Succeeds
  <2>4. Written = {first[j]} \cup victims[j] /\ late' = {}
    BY <1>5, <2>1, <2>2 DEF Calm, Succeeds
  <2>5. pc'[j] = IF victims[j] = {} THEN "done" ELSE "delete"
    BY <2>2 DEF Goto, Knows, TypeOK
  <2>6. victims[j] = {} => Healed(j)
    BY <2>3, <2>4 DEF Healed
  <2> QED BY <1>7, <2>2, <2>3, <2>4, <2>5, <2>6
<1>10. CASE Delete(j)
  <2>1. PICK v \in victims[j] :
          /\ victims' = [victims EXCEPT ![j] = @ \ {v}]
          /\ Succeeds(Call(j, "delete", v)) \/ Errs(Call(j, "delete", v))
          /\ Goto(j, IF victims[j] = {v} THEN "done" ELSE "delete")
    BY <1>10 DEF Delete
  <2> DEFINE c == Call(j, "delete", v)
  <2>2. c \in Current(j) /\ c.op = "delete" /\ c.id = v /\ pc[j] = "delete"
    BY <1>10 DEF Delete, Current, Call
  <2>3. Succeeds(c) /\ first' = first
    BY <1>3, <1>10, <2>1, <2>2 DEF Delete
  <2> HIDE DEF c
  <2>4. Written' = Written \ {v} /\ \A k \in Ids : k # v => thread'[k] = thread[k]
    BY <1>4, <2>2, <2>3, WrittenAfter DEF Succeeds
  <2>5. /\ Written = {first[j]} \cup victims[j] /\ late' = {}
        /\ thread[first[j]].writer = j
    BY <1>5, <2>2, <2>3 DEF Calm, Succeeds
  <2>6. first[j] \in Ids /\ first[j] # v /\ first[j] \notin victims[j]
    <3>1. first[j] \in Nat /\ first[j] \in Ids /\ \A w \in victims[j] : first[j] < w
      BY <2>2 DEF Knows, TypeOK, JobKnows
    <3> QED BY <3>1
  <2>7. victims'[j] = victims[j] \ {v}
    BY <2>1 DEF Knows, TypeOK
  <2>8. Written' = {first[j]} \cup victims'[j] /\ thread'[first[j]].writer = j
    BY <2>4, <2>5, <2>6, <2>7
  <2>9. pc'[j] = IF victims[j] = {v} THEN "done" ELSE "delete"
    BY <2>1 DEF Goto, Knows, TypeOK
  <2>10. victims[j] = {v} => Healed(j)
    BY <2>7, <2>8 DEF Healed
  <2> QED BY <1>7, <2>3, <2>5, <2>8, <2>9, <2>10
<1> QED BY <1>8, <1>9, <1>10

LEMMA OutsideCalm ==
  ASSUME Knows, Calm, Lands \/ Reply \/ Mimic \/ Moderate \/ UNCHANGED vars PROVE Calm' /\ Heals
<1>1. UNCHANGED <<pc, first, victims>> /\ Running' = Running
  BY DEF Lands, Reply, Mimic, Moderate, vars, locals, Running
<1>2. Heals
  BY <1>1 DEF Heals
<1>3. CASE Lands
  <2>1. calm' = calm /\ late # {}
    BY <1>3 DEF Lands, history
  <2> QED BY <1>2, <2>1 DEF Calm
<1>4. CASE Reply
  BY <1>1, <1>4, WrittenByOthers, CalmAside DEF Reply, history
<1>5. CASE Mimic \/ Moderate
  BY <1>2, <1>5 DEF Mimic, Moderate, Calm
<1>6. CASE UNCHANGED vars
  <2>1. Written' = Written /\ UNCHANGED <<thread, late, calm>>
    BY <1>6 DEF vars, history, Written, Ours, Standing, Stands, Ids
  <2> QED BY <1>1, <2>1, CalmAside
<1> QED BY <1>3, <1>4, <1>5, <1>6

\* A job that ran undisturbed leaves one triage comment, its own text in it.
THEOREM CalmJobsHeal == Spec => HealsDuplicates
<1>1. Init => Calm
  BY DEF Init, Calm
<1>2. Knows /\ Calm /\ [Next]_vars => Calm' /\ Heals
  <2>1. ASSUME Knows, Calm, NEW j \in Jobs, Killed(j) PROVE Calm' /\ Heals
    BY <2>1, CalmOver DEF Killed
  <2> QED BY <2>1, PrepareCalm, ListCalm, JobCalm, OutsideCalm DEF Next, run
<1>3. Heals =>
        [\A j \in Jobs : pc[j] # "done" /\ pc'[j] = "done" /\ j \in calm' =>
           \E i \in (Ours \cap Standing)' :
             /\ (Ours \cap Standing)' = {i}
             /\ thread'[i].writer = j]_vars
  BY DEF Heals, Healed, Written
<1> QED BY <1>1, <1>2, <1>3, Invariance, PTL DEF Spec, HealsDuplicates


-----------------------------------------------------------------------------
(* A job comes to its end.                                                 *)

\* The calls a job can still make, and its run up to the first.
StepsLeft(j) ==
  CASE pc[j] = "idle"   -> PageSize + 3
    [] pc[j] = "list"   -> PageSize + 2
    [] pc[j] = "post"   -> 1
    [] pc[j] = "patch"  -> Cardinality(victims[j]) + 1
    [] pc[j] = "delete" -> Cardinality(victims[j])
    [] OTHER            -> 0

\* What a job has still to delete, it has found on one page.
VictimsKnow ==
  \A j \in Jobs : pc[j] \in {"patch", "delete"} =>
    IsFiniteSet(victims[j]) /\ Cardinality(victims[j]) <= PageSize

\* Every step of a job uses up one it has left, and no other job, landing
\* call, reply or moderator gives it one back.
MovesOn ==
  \A j \in Jobs : /\ run(j) => StepsLeft(j)' < StepsLeft(j)
                  /\ StepsLeft(j)' <= StepsLeft(j)

\* A page holds PageSize comments at most: no two of its comments have equally
\* many standing before them.
LEMMA PageIsShort ==
  ASSUME thread \in Seq(Comment)
  PROVE  IsFiniteSet(Page) /\ Cardinality(Page) <= PageSize
<1> DEFINE Before(i) == {h \in Standing : h < i}
           f == [i \in Page |-> Cardinality(Before(i))]
           T == 0 .. PageSize - 1
<1>1. PageSize \in Nat /\ Len(thread) \in Nat /\ Ids = 1..Len(thread)
  BY IdsAre, TriageAssumption
<1>2. IsFiniteSet(Standing) /\ Standing \subseteq Nat
  <2>1. IsFiniteSet(1..Len(thread))
    BY <1>1, FS_Interval
  <2>2. Standing \in SUBSET (1..Len(thread))
    BY <1>1 DEF Standing
  <2>3. IsFiniteSet(Standing)
    BY <2>1, <2>2, FS_Subset
  <2> QED BY <2>2, <2>3
<1>3. \A i : IsFiniteSet(Before(i)) /\ Cardinality(Before(i)) \in Nat
  <2> SUFFICES ASSUME NEW i PROVE IsFiniteSet(Before(i)) /\ Cardinality(Before(i)) \in Nat
    OBVIOUS
  <2>1. Before(i) \in SUBSET Standing
    OBVIOUS
  <2> HIDE DEF Before
  <2>2. IsFiniteSet(Before(i))
    BY <1>2, <2>1, FS_Subset
  <2> QED BY <2>2, FS_CardinalityType
<1>4. Page \subseteq Standing /\ \A i \in Page : Cardinality(Before(i)) < PageSize
  BY DEF Page
<1>5. ASSUME NEW i \in Page, NEW k \in Page, i < k
      PROVE  Cardinality(Before(i)) # Cardinality(Before(k))
  <2>1. Before(i) \in SUBSET Before(k) /\ i \in Before(k) /\ i \notin Before(i)
    <3>1. i \in Standing /\ i \in Nat /\ k \in Nat /\ ~(i < i)
      BY <1>2, <1>4
    <3>2. \A h \in Standing : h \in Nat
      BY <1>2
    <3>3. \A h \in Nat : h < i => h < k
      BY <1>5, <3>1
    <3> QED BY <1>5, <3>1, <3>2, <3>3
  <2> HIDE DEF Before
  <2>2. Before(k) # Before(i) /\ IsFiniteSet(Before(k))
    BY <1>3, <2>1
  <2> QED BY <2>1, <2>2, FS_Subset
<1> HIDE DEF Before
<1>6. f \in [Page -> T]
  BY <1>1, <1>3, <1>4
<1>7. \A i, k \in Page : f[i] = f[k] => i = k
  <2>1. \A i, k \in Page : i < k \/ k < i \/ i = k
    BY <1>2, <1>4
  <2> QED BY <1>5, <2>1
<1>8. f \in Injection(Page, T)
  <2> HIDE DEF f, T
  <2> QED BY <1>6, <1>7 DEF Injection, IsInjective
<1>9. IsFiniteSet(T) /\ Cardinality(T) = PageSize
  <2>1. 0 \in Int /\ PageSize - 1 \in Int
    BY <1>1
  <2>2. IsFiniteSet(T) /\ Cardinality(T) = IF 0 > PageSize - 1 THEN 0 ELSE PageSize - 1 - 0 + 1
    BY <2>1, FS_Interval
  <2> HIDE DEF T
  <2> QED BY <1>1, <2>2
<1> HIDE DEF f, T
<1> QED BY <1>8, <1>9, FS_Injection

\* Nor does a job find more than a page of triage comments.
LEMMA VictimsAreFew ==
  ASSUME thread \in Seq(Comment), NEW f
  PROVE  /\ IsFiniteSet(triage_comments \ {f})
         /\ Cardinality(triage_comments \ {f}) <= PageSize
<1> DEFINE V == triage_comments \ {f}
<1>1. V \in SUBSET Page
  BY DEF triage_comments
<1>2. IsFiniteSet(Page) /\ Cardinality(Page) <= PageSize /\ PageSize \in Nat
  BY PageIsShort, TriageAssumption
<1> HIDE DEF V
<1>3. IsFiniteSet(V) /\ Cardinality(V) <= Cardinality(Page)
  BY <1>1, <1>2, FS_Subset
<1>4. Cardinality(V) \in Nat /\ Cardinality(Page) \in Nat
  BY <1>2, <1>3, FS_CardinalityType
<1> QED BY <1>2, <1>3, <1>4 DEF V

LEMMA OneVictimLess ==
  ASSUME NEW V, NEW v \in V, IsFiniteSet(V)
  PROVE  /\ IsFiniteSet(V \ {v}) /\ Cardinality(V \ {v}) = Cardinality(V) - 1
         /\ Cardinality(V) \in Nat /\ Cardinality(V) > 0
<1>1. IsFiniteSet(V \ {v}) /\ Cardinality(V \ {v}) = Cardinality(V) - 1
  BY FS_RemoveElement
<1>2. Cardinality(V) \in Nat /\ Cardinality(V \ {v}) \in Nat
  BY <1>1, FS_CardinalityType
<1> QED BY <1>1, <1>2

\* The step a job takes, and what it leaves it to do.
LEMMA RunMovesOn ==
  ASSUME TypeOK, VictimsKnow, NEW j \in Jobs, run(j)
  PROVE  /\ StepsLeft(j)' < StepsLeft(j)
         /\ pc'[j] \in {"patch", "delete"} =>
              IsFiniteSet(victims'[j]) /\ Cardinality(victims'[j]) <= PageSize
<1>1. pc \in [Jobs -> {"idle", "list", "post", "patch", "delete", "done", "failed", "killed"}]
  BY DEF TypeOK
<1>2. PageSize \in Nat
  BY TriageAssumption
<1>3. pc[j] \in {"patch", "delete"} =>
        /\ IsFiniteSet(victims[j]) /\ Cardinality(victims[j]) <= PageSize
        /\ Cardinality(victims[j]) \in Nat
  BY FS_CardinalityType DEF VictimsKnow
<1>4. victims \in [Jobs -> SUBSET Nat] /\ thread \in Seq(Comment)
  BY DEF TypeOK
<1>5. CASE Prepare(j)
  <2>1. pc[j] = "idle" /\ pc'[j] \in {"list", "failed"}
    BY <1>1, <1>5 DEF Prepare, Goto
  <2> QED BY <1>2, <2>1 DEF StepsLeft
<1>6. CASE List(j) \/ ListFails(j)
  <2>1. pc[j] = "list"
    BY <1>6 DEF List, ListFails
  <2>2. CASE pc'[j] \in {"post", "failed"}
    BY <1>2, <2>1, <2>2 DEF StepsLeft
  <2>3. CASE pc'[j] \notin {"post", "failed"}
    <3>1. PICK f : pc'[j] = "patch" /\ victims'[j] = triage_comments \ {f}
      BY <1>1, <1>4, <1>6, <2>3 DEF List, ListFails, Goto
    <3>2. IsFiniteSet(victims'[j]) /\ Cardinality(victims'[j]) <= PageSize
      BY <1>4, <3>1, VictimsAreFew
    <3>3. Cardinality(victims'[j]) \in Nat
      BY <3>2, FS_CardinalityType
    <3>4. StepsLeft(j)' = Cardinality(victims'[j]) + 1 /\ StepsLeft(j) = PageSize + 2
      BY <2>1, <3>1 DEF StepsLeft
    <3> QED BY <1>2, <3>1, <3>2, <3>3, <3>4
  <2> QED BY <2>2, <2>3
<1>7. CASE Post(j)
  <2>1. pc[j] = "post" /\ pc'[j] \in {"done", "failed"}
    BY <1>1, <1>7 DEF Post, Goto
  <2> QED BY <2>1 DEF StepsLeft
<1>8. CASE Patch(j)
  <2>1. pc[j] = "patch" /\ pc'[j] \in {"done", "failed", "delete"} /\ victims'[j] = victims[j]
    BY <1>1, <1>8 DEF Patch, Goto
  <2>2. StepsLeft(j)' \in {0, Cardinality(victims[j])} /\ StepsLeft(j) = Cardinality(victims[j]) + 1
    BY <2>1 DEF StepsLeft
  <2> QED BY <1>3, <2>1, <2>2
<1>9. CASE Delete(j)
  <2>1. PICK v \in victims[j] : /\ pc[j] = "delete" /\ victims'[j] = victims[j] \ {v}
                                /\ pc'[j] \in {"done", "delete"}
    BY <1>1, <1>4, <1>9 DEF Delete, Goto
  <2>2. /\ IsFiniteSet(victims'[j]) /\ Cardinality(victims'[j]) = Cardinality(victims[j]) - 1
        /\ Cardinality(victims[j]) > 0
    BY <1>3, <2>1, OneVictimLess
  <2>3. StepsLeft(j)' \in {0, Cardinality(victims'[j])} /\ StepsLeft(j) = Cardinality(victims[j])
    BY <2>1 DEF StepsLeft
  <2> QED BY <1>2, <1>3, <2>1, <2>2, <2>3
<1> QED BY <1>5, <1>6, <1>7, <1>8, <1>9 DEF run

\* No step but its own moves a job, except to its death.
LEMMA OthersLeave ==
  ASSUME TypeOK, [Next]_vars, NEW j \in Jobs, ~run(j)
  PROVE  /\ pc'[j] = pc[j] \/ pc'[j] = "killed"
         /\ victims'[j] = victims[j]
<1>1. /\ pc \in [Jobs -> {"idle", "list", "post", "patch", "delete", "done", "failed", "killed"}]
      /\ victims \in [Jobs -> SUBSET Nat]
  BY DEF TypeOK
<1>2. ASSUME NEW k \in Jobs, k # j, run(k)
      PROVE  pc'[j] = pc[j] /\ victims'[j] = victims[j]
  BY <1>1, <1>2 DEF run, Prepare, List, ListFails, Post, Patch, Delete, Goto
<1>3. ASSUME NEW k \in Jobs, Killed(k)
      PROVE  (pc'[j] = pc[j] \/ pc'[j] = "killed") /\ victims'[j] = victims[j]
  BY <1>1, <1>3 DEF Killed, Goto
<1>4. CASE Lands \/ Reply \/ Mimic \/ Moderate \/ UNCHANGED vars
  BY <1>4 DEF Lands, Reply, Mimic, Moderate, vars, locals
<1> QED BY <1>2, <1>3, <1>4 DEF Next

LEMMA StepMovesOn == TypeOK /\ VictimsKnow /\ [Next]_vars => VictimsKnow' /\ MovesOn
<1> SUFFICES ASSUME TypeOK, VictimsKnow, [Next]_vars, NEW j \in Jobs
             PROVE  /\ pc'[j] \in {"patch", "delete"} =>
                         IsFiniteSet(victims'[j]) /\ Cardinality(victims'[j]) <= PageSize
                    /\ run(j) => StepsLeft(j)' < StepsLeft(j)
                    /\ StepsLeft(j)' <= StepsLeft(j)
  BY DEF VictimsKnow, MovesOn
<1>1. PageSize \in Nat /\ (pc[j] \in {"patch", "delete"} => Cardinality(victims[j]) \in Nat)
  BY TriageAssumption, FS_CardinalityType DEF VictimsKnow
<1>2. StepsLeft(j) \in Nat
  BY <1>1 DEF StepsLeft
<1>3. CASE run(j)
  <2>1. /\ StepsLeft(j)' < StepsLeft(j)
        /\ pc'[j] \in {"patch", "delete"} =>
             IsFiniteSet(victims'[j]) /\ Cardinality(victims'[j]) <= PageSize
    BY <1>3, RunMovesOn
  <2>2. StepsLeft(j)' \in Nat
    <3>1. pc'[j] \in {"patch", "delete"} => Cardinality(victims'[j]) \in Nat
      BY <2>1, FS_CardinalityType
    <3> QED BY <1>1, <3>1 DEF StepsLeft
  <2>3. StepsLeft(j)' <= StepsLeft(j)
    BY <1>2, <2>1, <2>2
  <2> QED BY <2>1, <2>3
<1>4. CASE ~run(j)
  <2>1. /\ pc'[j] = pc[j] \/ pc'[j] = "killed"
        /\ victims'[j] = victims[j]
    BY <1>4, OthersLeave
  <2>2. StepsLeft(j)' \in {0, StepsLeft(j)}
    BY <2>1 DEF StepsLeft
  <2>3. StepsLeft(j)' <= StepsLeft(j)
    BY <1>2, <2>2
  <2>4. pc'[j] \in {"patch", "delete"} =>
          IsFiniteSet(victims'[j]) /\ Cardinality(victims'[j]) <= PageSize
    BY <2>1 DEF VictimsKnow
  <2> QED BY <1>4, <2>3, <2>4
<1> QED BY <1>3, <1>4

\* A triage job ends: it makes its listing, one post or update and at most a
\* page of deletions, whatever the others write meanwhile.
THEOREM JobsEnd ==
  Spec => [](\A j \in Jobs : StepsLeft(j) \in 0 .. PageSize + 3) /\ [][MovesOn]_vars
<1>1. Init => VictimsKnow
  BY DEF Init, VictimsKnow
<1>2. VictimsKnow => \A j \in Jobs : StepsLeft(j) \in 0 .. PageSize + 3
  <2> SUFFICES ASSUME VictimsKnow, NEW j \in Jobs PROVE StepsLeft(j) \in 0 .. PageSize + 3
    OBVIOUS
  <2>1. PageSize \in Nat
    BY TriageAssumption
  <2>2. pc[j] \in {"patch", "delete"} =>
          Cardinality(victims[j]) \in Nat /\ Cardinality(victims[j]) <= PageSize
    BY FS_CardinalityType DEF VictimsKnow
  <2> QED BY <2>1, <2>2 DEF StepsLeft
<1>3. TypeOK /\ VictimsKnow /\ [Next]_vars => VictimsKnow' /\ [MovesOn]_vars
  BY StepMovesOn
<1> QED BY <1>1, <1>2, <1>3, TypeCorrect, PTL DEF Spec

=============================================================================

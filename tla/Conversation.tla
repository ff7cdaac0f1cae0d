----------------------------- MODULE Conversation ----------------------------
(***************************************************************************)
(* The conversation of one review, as each request to Gemini carries it    *)
(* (gemini.rs, AgentSession in review.rs): every turn of the model goes    *)
(* back as it came, the results of its function calls right behind it,     *)
(* one for each call under the call's id.                                  *)
(*                                                                         *)
(* A content is what the API looks at: its role, the ids of the function   *)
(* calls and of the function responses among its parts, in their order,    *)
(* and whether it has any part. The module adds the contents to the steps  *)
(* of ReviewSession, which decide what is said.                            *)
(***************************************************************************)
EXTENDS ReviewSession

CONSTANTS
  CallIds,   \* ids Gemini gives its function calls
  CallTurns  \* the ids of the calls in one turn of the model

NoId == "no id"  \* FunctionCall.id is absent, as from older models

ASSUME ConversationAssumption ==
  /\ NoId \notin CallIds
  /\ CallTurns \subseteq Seq(CallIds \cup {NoId}) \ {<<>>}

VARIABLES
  contents,  \* AgentSession.contents
  misspoke   \* history: the model answered a round with nothing, or its last
             \* turn with calls

conversation == <<vars, contents, misspoke>>

user_text == [role |-> "user", calls |-> <<>>, responses |-> <<>>, parts |-> TRUE]
model(ids, parts) == [role |-> "model", calls |-> ids, responses |-> <<>>, parts |-> parts]

\* Function responses ride in a turn of the user.
tool_results(ids) == [role |-> "user", calls |-> <<>>, responses |-> ids, parts |-> TRUE]

\* MUTANT of responses: a call without an id is not answered.
responses_by_id(ids) == SelectSeq(ids, LAMBDA id : id # NoId)

\* One response for each call, echoing its id if it has one.
responses(ids) == ids

\* No parts, or no candidate at all: the answer is an empty text.
Blank == [json |-> "broken", canary |-> "none", summary |-> "short", findings |-> <<>>]

\* Gemini refuses a conversation with an empty content, or with a turn of
\* function calls that is not followed by the responses to just these calls.
Accepts(c) ==
  /\ c # <<>> /\ Last(c).role = "user"
  /\ \A i \in DOMAIN c :
       /\ c[i].parts
       /\ c[i].calls # <<>> => i < Len(c) /\ c[i + 1].responses = c[i].calls
       /\ c[i].responses # <<>> => i > 1 /\ c[i - 1].calls = c[i].responses

-----------------------------------------------------------------------------
CInit == Init /\ contents = <<>> /\ misspoke = FALSE

\* What the last turn of a round is asked with: say("Stop investigating").
Stop(t) == IF t = 0 THEN <<user_text>> ELSE <<>>

\* AgentSession::new puts the first prompt.
Prompt ==
  /\ get_repo_guidance
  /\ contents' = IF pc' = "ask" THEN <<user_text>> \o Stop(turns') ELSE contents
  /\ UNCHANGED misspoke

\* The turn with its calls, then all their results; after the last of the
\* round's turns, the request to conclude.
Investigate(ids) ==
  /\ Accepts(contents) /\ ToolTurn
  /\ contents' = contents \o <<model(ids, TRUE), tool_results(responses(ids))>> \o Stop(turns')
  /\ UNCHANGED misspoke

\* The model's last turn of the round is kept, whatever it is: without parts,
\* or, in the turn that offers no tools, with calls nobody answers. If there
\* is another round, it is asked for.
Reply(a) ==
  /\ Accepts(contents) /\ Answered(a)
  /\ \E turn \in {model(<<>>, TRUE)}
                 \cup (IF a = Blank THEN {model(<<>>, FALSE)} ELSE {})
                 \cup (IF turns = 0 THEN {model(<<NoId>>, TRUE)} ELSE {}) :
       /\ contents' = Append(contents, turn)
                        \o (IF pc' = "ask" THEN <<user_text>> \o Stop(turns') ELSE <<>>)
       /\ misspoke' = (~turn.parts \/ turn.calls # <<>>)

\* MUTANT of Silent: a request that fails is sent again, and again.
SilentRetries ==
  /\ list_pr_files \/ download_tarball \/ post_review
  /\ UNCHANGED <<contents, misspoke>>

\* The rest of the job leaves the conversation as it is; a request that Gemini
\* refuses is one that fails.
Silent ==
  /\ list_pr_files \/ download_tarball \/ GeminiFails \/ post_review
  /\ UNCHANGED <<contents, misspoke>>

Job ==
  \/ Prompt \/ Silent
  \/ \E ids \in CallTurns : Investigate(ids)
  \/ \E a \in Answers : Reply(a)

CNext == Job \/ (Push /\ UNCHANGED <<contents, misspoke>>)

CSpec == CInit /\ [][CNext]_conversation

\* The job's task is scheduled, and each of its requests comes to an end by
\* its answer or by the client's timeout.
CFairSpec == CSpec /\ WF_conversation(Job)

-----------------------------------------------------------------------------
\* "The matching response must echo it" (gemini.rs): every request Gemini gets
\* is one it accepts, with each call of each earlier round answered, in order,
\* under its id and right behind it; unless the model's answer to the round
\* before was empty, or called tools in its last turn. Then the next round, the
\* retry of finalize among them, cannot be asked for, and the review is lost.
RequestsAccepted == pc = "ask" => Accepts(contents) \/ misspoke

\* A review comes to an end, whatever the model answers, whether it is offered
\* tools or calls them all the same, and also when its conversation cannot go
\* on: no two rounds ask for each other, and a request that Gemini refuses is
\* not sent again. Listener assumes it of a worker when it says that all slots
\* return.
ReviewEnds == <>(pc \in {"ok", "failed", "rejected"})

=============================================================================

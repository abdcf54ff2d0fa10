----------------------------- MODULE ClientChat -----------------------------
(***************************************************************************)
(* One browser tab in front of ChatCompletion: submit, stop, the ways to   *)
(* turn to another conversation and the deletion of one, of                *)
(* hooks/use-conversation-state.ts, with the requests of                   *)
(* lib/chat-actions.ts and the stream of lib/chat-events.ts, and the       *)
(* pictures of app/page.tsx.  Group conversations are left out: their      *)
(* turns are in GroupTurn.                                                 *)
(*                                                                         *)
(* A request is one run of submit, and names what belongs to that run: its *)
(* question, its answer, and the client request id it makes.  Between two  *)
(* awaits of submit the user and other runs act; what a run took from the  *)
(* render it started in, it keeps.                                         *)
(***************************************************************************)
EXTENDS ChatCompletion, SequencesExt

CONSTANTS
  Texts,       \* what the user types
  Convs,       \* conversation ids
  FirstConvs,  \* the conversations there are at first
  Pictured,    \* the runs that may have an image attached
  Turns,       \* the times the user opens, makes or deletes a conversation, or draws
  Nothing      \* no text, no conversation, no run

ASSUME ClientAssumption ==
  /\ Keys = Requests
  /\ FirstConvs \subseteq Convs
  /\ Pictured \subseteq Requests
  /\ Nothing \notin Texts \cup Convs \cup Requests

VARIABLES
  session,         \* session.status
  prompt,          \* the text in the composer
  draft,           \* history: the first run that submitted that text
  lastFailed,      \* lastFailedRef
  pending,         \* the composer is locked
  conversationId,  \* the conversation on screen
  shown,           \* messages: the messages on screen
  mixed,           \* history: a step put a message beside those of another conversation
  abortRef,        \* the run whose controller the stop button reaches
  aborted,         \* the runs whose signal is aborted
  step,            \* step[r]: where run r stands
  run,             \* run[r]: the local variables of run r
  filled,          \* the runs whose answer has content
  posted,          \* the runs whose completion request is on its way
  turn,            \* turn[u]: one run of openConversation and its like
  stored,          \* the store: the messages of the conversations there are
  deleted          \* history: the conversations there were

composerVars == <<prompt, draft, lastFailed>>
screenVars == <<pending, conversationId, shown, mixed, abortRef>>
runVars == <<run, filled, posted>>
storeVars == <<turn, stored, deleted>>
tabVars == <<session, composerVars, screenVars, aborted, step, runVars, storeVars>>
allVars == <<tabVars, vars>>

Question(r) == [role |-> "user", of |-> r]
Answer(r) == [role |-> "assistant", of |-> r]

\* A picture drawn while conversation k, or none, was on screen.
Picture(k) == [role |-> "picture", of |-> k]

\* The conversation a message belongs to.
Home(m) == IF m.role = "picture" THEN m.of ELSE run[m.of].target

NoFailure == [text |-> Nothing, key |-> NoKey]

\* A turn that has not begun, or is over.
Resting(at_) == [at |-> at_, conv |-> Nothing, seen |-> Nothing, detail |-> {}]

\* asked: the messages sent along; hollow: one of them is an empty answer;
\* blended: a step had put foreign ones among them.
TabInit ==
  /\ Init
  /\ session = "authenticated"
  /\ prompt = Nothing /\ draft = Nothing /\ lastFailed = NoFailure
  /\ pending = FALSE /\ conversationId = Nothing /\ mixed = FALSE
  /\ shown = {} /\ abortRef = Nothing /\ aborted = {}
  /\ step = [r \in Requests |-> "idle"]
  /\ run = [r \in Requests |->
              [text |-> Nothing, key |-> NoKey, origin |-> r, target |-> Nothing,
               asked |-> {}, hollow |-> FALSE, blended |-> FALSE]]
  /\ filled = {} /\ posted = {}
  /\ turn = [u \in Turns |-> Resting("idle")]
  /\ stored = [k \in FirstConvs |-> <<>>] /\ deleted = {}

-----------------------------------------------------------------------------
(***************************************************************************)
(* The user.                                                               *)
(***************************************************************************)
\* The text area is disabled while pending.
Type ==
  /\ ~pending
  /\ \E t \in Texts \ {prompt} : prompt' = t
  /\ draft' = Nothing
  /\ UNCHANGED <<session, lastFailed, screenVars, aborted, step, runVars, storeVars, vars>>

\* Mutant of IsRetry: the key of the last failure is used for any text.
IsRetryAlways == lastFailed # NoFailure

\* The text is that of the last failed run.
IsRetry == lastFailed # NoFailure /\ lastFailed.text = prompt

\* From ensureConversation on: show both messages and lock the composer.
Show(r) ==
  /\ shown' = shown \cup {Question(r), Answer(r)}
  /\ prompt' = Nothing
  /\ draft' = Nothing
  /\ pending' = TRUE
  /\ abortRef' = r
  /\ step' = [step EXCEPT ![r] = "saving"]

CanSubmit(r) ==
  /\ session = "authenticated"
  /\ step[r] = "idle" /\ prompt # Nothing /\ ~pending

\* The locals of the run, from the render the click was made in.
Takes(r, key_) ==
  run' = [run EXCEPT ![r] =
            [text    |-> prompt,
             key     |-> key_,
             origin  |-> IF draft = Nothing THEN r ELSE draft,
             target  |-> conversationId,
             asked   |-> shown,
             hollow  |-> \E q \in Requests \ filled : Answer(q) \in shown,
             blended |-> mixed]]

\* The text stays in the composer for the time of an await.
Leaves(r, to) ==
  /\ step' = [step EXCEPT ![r] = to]
  /\ draft' = IF draft = Nothing THEN r ELSE draft
  /\ UNCHANGED <<prompt, screenVars>>

\* submit, up to the answer of createConversation if there has to be one.
Submit(r) ==
  /\ CanSubmit(r)
  /\ Takes(r, IF IsRetry THEN lastFailed.key ELSE r)
  /\ lastFailed' = IF IsRetry THEN NoFailure ELSE lastFailed
  /\ IF conversationId = Nothing THEN Leaves(r, "creating")
     ELSE Show(r) /\ UNCHANGED <<conversationId, mixed>>
  /\ UNCHANGED <<session, aborted, filled, posted, storeVars, vars>>

\* submit with an image attached: the image is described first, and the run
\* is no retry.
SubmitImage(r) ==
  /\ r \in Pictured
  /\ CanSubmit(r)
  /\ Takes(r, r)
  /\ Leaves(r, "describing")
  /\ UNCHANGED <<session, lastFailed, aborted, filled, posted, storeVars, vars>>

\* The stop button, or the dialogue for a new conversation; the run ends where
\* it next waits for the completion.
Stop ==
  /\ abortRef # Nothing /\ abortRef \notin aborted
  /\ aborted' = aborted \cup {abortRef}
  /\ UNCHANGED <<session, composerVars, screenVars, step, runVars, storeVars, vars>>

-----------------------------------------------------------------------------
(***************************************************************************)
(* Turning to another conversation.                                        *)
(***************************************************************************)
Begins(u, how) ==
  /\ session = "authenticated"
  /\ turn[u].at = "idle"
  /\ turn' = [turn EXCEPT ![u] = how]
  /\ UNCHANGED <<session, composerVars, screenVars, step, runVars, stored, deleted, vars>>

AbortCurrent ==
  aborted' = IF abortRef = Nothing THEN aborted ELSE aborted \cup {abortRef}

\* After a 401, and with the session what is on screen.
SessionOver ==
  /\ session' = "anonymous"
  /\ conversationId' = Nothing
  /\ shown' = {} /\ mixed' = FALSE
  /\ AbortCurrent

\* openConversation aborts the run under way and asks for the conversation.
OpenClick(u) ==
  /\ \E k \in DOMAIN stored : Begins(u, [Resting("asked") EXCEPT !.conv = k])
  /\ AbortCurrent

\* startPlainConversation, and navigate to a chat view without a conversation.
NewClick(u) ==
  /\ \/ Begins(u, Resting("creating"))
     \/ conversationId = Nothing /\ Begins(u, Resting("ensuring"))
  /\ UNCHANGED aborted

\* deleteConversationById keeps the conversation that is on screen by now.
DeleteClick(u) ==
  /\ \E k \in DOMAIN stored :
       Begins(u, [Resting("deleting") EXCEPT !.conv = k, !.seen = conversationId])
  /\ UNCHANGED aborted

\* generateImage, of one picture at a time.
DrawClick(u) ==
  /\ ~pending /\ prompt # Nothing
  /\ \A v \in Turns : turn[v].at # "drawing"
  /\ Begins(u, [Resting("drawing") EXCEPT !.seen = conversationId])
  /\ UNCHANGED aborted

\* The server reads the store.
OpenRead(u) ==
  /\ turn[u].at = "asked" /\ turn[u].conv \in DOMAIN stored
  /\ turn' = [turn EXCEPT ![u].at = "read",
                          ![u].detail = ToSet(stored[turn[u].conv])]
  /\ UNCHANGED <<session, composerVars, screenVars, aborted, step, runVars, stored, deleted, vars>>

\* The answer comes: what the screen shows by now is replaced.
Turned(u, k, messages) ==
  /\ turn' = [turn EXCEPT ![u] = Resting("done")]
  /\ conversationId' = k
  /\ shown' = messages /\ mixed' = FALSE
  /\ UNCHANGED <<session, composerVars, pending, abortRef, aborted, step, runVars, vars>>

\* Mutant of OpenShow: the messages on screen stay there.
OpenShowMore(u) ==
  /\ turn[u].at = "read"
  /\ Turned(u, turn[u].conv, shown \cup turn[u].detail)
  /\ UNCHANGED <<stored, deleted>>

OpenShow(u) ==
  /\ turn[u].at = "read"
  /\ Turned(u, turn[u].conv, turn[u].detail)
  /\ UNCHANGED <<stored, deleted>>

\* A new conversation in the store, empty, under a new id.
AddConversation(k) ==
  /\ k \notin DOMAIN stored \cup deleted
  /\ stored' = [j \in DOMAIN stored \cup {k} |-> IF j = k THEN <<>> ELSE stored[j]]
  /\ UNCHANGED deleted

\* ensureConversation leaves the messages on screen.
Ensured(k) == conversationId' = k /\ mixed' = (mixed \/ shown # {})

NewShow(u) ==
  \E k \in Convs :
    /\ AddConversation(k)
    /\ \/ turn[u].at = "creating" /\ Turned(u, k, {})
       \/ /\ turn[u].at = "ensuring"
          /\ Ensured(k)
          /\ turn' = [turn EXCEPT ![u] = Resting("done")]
          /\ UNCHANGED <<session, composerVars, pending, shown, abortRef, aborted, step, runVars,
                         vars>>

\* The server deletes the conversation with its messages.
DeleteRead(u) ==
  /\ turn[u].at = "deleting" /\ turn[u].conv \in DOMAIN stored
  /\ stored' = [k \in DOMAIN stored \ {turn[u].conv} |-> stored[k]]
  /\ deleted' = deleted \cup {turn[u].conv}
  /\ turn' = [turn EXCEPT ![u].at = "removed"]
  /\ UNCHANGED <<session, composerVars, screenVars, aborted, step, runVars, vars>>

\* The screen is cleared if the conversation was on it at the click.
DeleteShow(u) ==
  /\ turn[u].at = "removed"
  /\ \/ turn[u].conv = turn[u].seen /\ Turned(u, Nothing, {})
     \/ /\ turn[u].conv # turn[u].seen
        /\ turn' = [turn EXCEPT ![u] = Resting("done")]
        /\ UNCHANGED <<session, composerVars, screenVars, aborted, step, runVars, vars>>
  /\ UNCHANGED <<stored, deleted>>

\* The picture joins whatever is on screen by now, and empties the composer.
DrawShow(u) ==
  /\ turn[u].at = "drawing"
  /\ shown' = shown \cup {Picture(turn[u].seen)}
  /\ mixed' = (mixed \/ conversationId = Nothing \/ conversationId # turn[u].seen)
  /\ prompt' = Nothing /\ draft' = Nothing
  /\ turn' = [turn EXCEPT ![u] = IF @.seen = Nothing THEN Resting("done")
                                 ELSE [@ EXCEPT !.at = "storing"]]
  /\ UNCHANGED <<session, lastFailed, pending, conversationId, abortRef, aborted, step, runVars,
                 stored, deleted, vars>>

\* It is stored in the conversation that was on screen at the click.
DrawStored(u) ==
  /\ turn[u].at = "storing" /\ turn[u].seen \in DOMAIN stored
  /\ stored' = [stored EXCEPT ![turn[u].seen] = Append(@, Picture(turn[u].seen))]
  /\ turn' = [turn EXCEPT ![u] = Resting("done")]
  /\ UNCHANGED <<session, composerVars, screenVars, aborted, step, runVars, deleted, vars>>

TurnFails(u) ==
  /\ turn[u].at \notin {"idle", "done"}
  /\ turn' = [turn EXCEPT ![u] = Resting("done")]
  /\ UNCHANGED <<session, composerVars, screenVars, aborted, step, runVars, stored, deleted, vars>>

TurnExpires(u) ==
  /\ turn[u].at \in {"asked", "deleting", "drawing"}
  /\ turn' = [turn EXCEPT ![u] = Resting("done")]
  /\ SessionOver
  /\ pending' = FALSE
  /\ UNCHANGED <<composerVars, abortRef, step, runVars, stored, deleted, vars>>

-----------------------------------------------------------------------------
(***************************************************************************)
(* One run of submit, from await to await.                                 *)
(***************************************************************************)
Goto2(r, from, to) == step[r] = from /\ step' = [step EXCEPT ![r] = to]

\* The finally block.
Finally(r) ==
  /\ step' = [step EXCEPT ![r] = "done"]
  /\ pending' = FALSE
  /\ abortRef' = IF abortRef = r THEN Nothing ELSE abortRef

\* The catch block: unless the run was aborted, the text goes back to the
\* composer, and its key is kept for a retry.  An empty answer disappears.
Caught(r) ==
  /\ IF r \in aborted THEN UNCHANGED composerVars
     ELSE /\ prompt' = run[r].text
          /\ draft' = run[r].origin
          /\ lastFailed' = [text |-> run[r].text, key |-> run[r].key]
  /\ shown' = IF r \in filled THEN shown ELSE shown \ {Answer(r)}
  /\ Finally(r)
  /\ UNCHANGED <<session, conversationId, mixed, aborted, runVars, turn, deleted>>

\* The image is described: ensureConversation has its conversation, which need
\* not be the one on screen by now, or makes it.
Described(r) ==
  /\ step[r] = "describing"
  /\ IF run[r].target = Nothing
     THEN step' = [step EXCEPT ![r] = "creating"] /\ UNCHANGED <<prompt, draft, screenVars>>
     ELSE /\ Show(r)
          /\ mixed' = (mixed \/ conversationId # run[r].target)
          /\ UNCHANGED conversationId
  /\ UNCHANGED <<session, lastFailed, aborted, runVars, storeVars, vars>>

Created(r) ==
  /\ step[r] = "creating"
  /\ \E k \in Convs :
       /\ AddConversation(k)
       /\ run' = [run EXCEPT ![r].target = k]
       /\ Show(r) /\ Ensured(k)
  /\ UNCHANGED <<session, lastFailed, aborted, filled, posted, turn, vars>>

CreateFails(r) ==
  /\ step[r] \in {"describing", "creating"}
  /\ step' = [step EXCEPT ![r] = "done"]
  /\ UNCHANGED <<session, composerVars, screenVars, aborted, runVars, storeVars, vars>>

\* An append to a conversation that was deleted fails.
Keep(r, message) ==
  /\ run[r].target \in DOMAIN stored
  /\ stored' = [stored EXCEPT ![run[r].target] = Append(@, message)]

\* Mutant of SaveQuestion: the completion is asked for without the question.
SaveQuestionLater(r) ==
  /\ Goto2(r, "saving", "posting")
  /\ posted' = posted \cup {r}
  /\ UNCHANGED <<session, composerVars, screenVars, aborted, run, filled, storeVars, vars>>

\* The question is stored; then the completion is asked for.
SaveQuestion(r) ==
  /\ r \notin aborted
  /\ Goto2(r, "saving", "posting")
  /\ Keep(r, Question(r))
  /\ posted' = posted \cup {r}
  /\ UNCHANGED <<session, composerVars, screenVars, aborted, run, filled, turn, deleted, vars>>

\* Storing fails, before or after it took effect; or it is done, and fetch
\* finds the signal aborted.
SaveFails(r) ==
  /\ step[r] = "saving"
  /\ Keep(r, Question(r)) \/ stored' = stored
  /\ Caught(r)
  /\ UNCHANGED vars

\* The connection breaks, the stream reports an error or has no text, or the
\* signal is aborted.
Breaks(r) ==
  /\ step[r] \in {"posting", "streaming"}
  /\ Caught(r)
  /\ UNCHANGED <<stored, vars>>

\* Mutant of Duplicate: the early return skips the finally block.
DuplicateNoFinally(r) ==
  /\ at[r] = "done" /\ result[r] = "duplicate"
  /\ Goto2(r, "posting", "done")
  /\ UNCHANGED <<session, composerVars, screenVars, aborted, runVars, storeVars, vars>>

\* 409: an early return, past the rest of the catch block.
Duplicate(r) ==
  /\ step[r] = "posting" /\ at[r] = "done" /\ result[r] = "duplicate"
  /\ Finally(r)
  /\ UNCHANGED <<session, composerVars, conversationId, shown, mixed, aborted, runVars, storeVars, vars>>

Refused(r) ==
  /\ step[r] = "posting" /\ at[r] = "done"
  /\ result[r] \notin {"billed", "duplicate", "revoked"}
  /\ Caught(r)
  /\ UNCHANGED <<stored, vars>>

\* A 401 of the store, of the image description or of the handler.
Expires(r) ==
  /\ \/ step[r] \in {"describing", "saving", "keeping", "reloading"}
     \/ step[r] = "posting" /\ at[r] = "done" /\ result[r] \in {"invalid", "revoked"}
  /\ SessionOver
  /\ Finally(r)
  /\ UNCHANGED <<composerVars, runVars, storeVars, vars>>

StreamStarts(r) ==
  /\ at[r] = "done" /\ result[r] = "billed"
  /\ Goto2(r, "posting", "streaming")
  /\ UNCHANGED <<session, composerVars, screenVars, aborted, runVars, storeVars, vars>>

Delta(r) ==
  /\ step[r] = "streaming" /\ r \notin filled
  /\ filled' = filled \cup {r}
  /\ UNCHANGED <<session, composerVars, screenVars, aborted, step, run, posted, storeVars, vars>>

\* The stream ends, with or without its end mark.
StreamEnds(r) ==
  /\ r \in filled
  /\ Goto2(r, "streaming", "keeping")
  /\ UNCHANGED <<session, composerVars, screenVars, aborted, runVars, storeVars, vars>>

KeepAnswer(r) ==
  /\ Goto2(r, "keeping", "reloading")
  /\ Keep(r, Answer(r))
  /\ UNCHANGED <<session, composerVars, screenVars, aborted, runVars, turn, deleted, vars>>

KeepFails(r) ==
  /\ step[r] = "keeping"
  /\ Keep(r, Answer(r)) \/ stored' = stored
  /\ Caught(r)
  /\ UNCHANGED vars

\* Balance and conversations are loaded again; errors there are dealt with.
Reloaded(r) ==
  /\ step[r] = "reloading"
  /\ Finally(r)
  /\ UNCHANGED <<session, composerVars, conversationId, shown, mixed, aborted, runVars, storeVars, vars>>

-----------------------------------------------------------------------------
(***************************************************************************)
(* The server.  A request that has left the tab may arrive at any time,    *)
(* and one with an empty message is malformed.                             *)
(***************************************************************************)
Arrives(r) ==
  /\ r \in posted
  /\ \/ TurnAway(r)
     \/ /\ ~run[r].hollow
        /\ RefuseDuplicate(r) \/ Admit(r)
        /\ key'[r] = run[r].key
  /\ UNCHANGED tabVars

Serve(r) == (Handle(r) \/ Charge(r) \/ TurnDown(r)) /\ UNCHANGED tabVars

Elapse == (Tick \/ Restart) /\ UNCHANGED tabVars

RunStep(r) ==
  \/ Described(r) \/ Created(r) \/ CreateFails(r) \/ SaveQuestion(r) \/ SaveFails(r)
  \/ Breaks(r) \/ Duplicate(r) \/ Refused(r) \/ Expires(r) \/ StreamStarts(r)
  \/ Delta(r) \/ StreamEnds(r) \/ KeepAnswer(r) \/ KeepFails(r) \/ Reloaded(r)

Click(u) == OpenClick(u) \/ NewClick(u) \/ DeleteClick(u) \/ DrawClick(u)

TurnStep(u) ==
  \/ OpenRead(u) \/ OpenShow(u) \/ NewShow(u) \/ DeleteRead(u) \/ DeleteShow(u)
  \/ DrawShow(u) \/ DrawStored(u) \/ TurnFails(u) \/ TurnExpires(u)

TabNext ==
  \/ Type \/ Stop
  \/ \E r \in Requests : Submit(r) \/ SubmitImage(r) \/ RunStep(r) \/ Arrives(r) \/ Serve(r)
  \/ \E u \in Turns : Click(u) \/ TurnStep(u)
  \/ Elapse

\* Every await of a run settles: requests to the server end, and the signal of
\* the completion, 120 s after it was sent, ends the stream as well.
TabFairness == \A r \in Requests : WF_allVars(RunStep(r))

TabSpec == TabInit /\ [][TabNext]_allVars /\ TabFairness

-----------------------------------------------------------------------------

Started(r) == step[r] # "idle"

(***************************************************************************)
(* A client request id is handed on only to a retry: two runs with one id  *)
(* submit the same typed text, and not both are under way.                 *)
(***************************************************************************)
KeyHandedOn ==
  \A q, r \in Requests :
    q # r /\ Started(q) /\ Started(r) /\ run[q].key = run[r].key =>
      /\ run[q].text = run[r].text
      /\ step[q] = "done" \/ step[r] = "done"

(***************************************************************************)
(* Nothing is paid for that is not in the history: the question of every   *)
(* completion that was charged is stored in the conversation it was asked  *)
(* in, until the user deletes that conversation, and an answer is stored   *)
(* only behind its question.                                               *)
(***************************************************************************)
ChargedQuestionsStored ==
  /\ \A r \in Requests :
       gateway[r] = "charged" /\ run[r].target \notin deleted =>
         Question(r) \in ToSet(stored[run[r].target])
  /\ \A k \in DOMAIN stored : \A j \in DOMAIN stored[k] :
       stored[k][j].role = "assistant" =>
         \E i \in 1 .. j - 1 : stored[k][i] = Question(stored[k][j].of)

(***************************************************************************)
(* What is sent along with a question belongs to the conversation the      *)
(* question is stored in: opening, making and deleting conversations, and  *)
(* answers that come late, leave no foreign message on screen.  There are  *)
(* three ways out, which mixed records until the screen is next replaced:  *)
(* ensureConversation gives the messages on screen a new conversation, and *)
(* a picture or a question with an image joins the messages of a           *)
(* conversation that was opened while it was under way.                    *)
(***************************************************************************)
OneConversationInContext ==
  \A r \in posted : ~run[r].blended =>
    \A m \in run[r].asked : Home(m) = run[r].target

(***************************************************************************)
(* The composer is not locked for ever.                                    *)
(***************************************************************************)
PendingEnds == pending ~> ~pending

-----------------------------------------------------------------------------
(***************************************************************************)
(* What the repository says of the tab, and the code does not keep.        *)
(***************************************************************************)
\* A submission is not charged twice: of two runs for one draft, of which
\* neither was seen to fail, at most one is charged by one server process.
DraftChargedOnce ==
  \A q, r \in current :
    /\ q # r /\ run[q].origin = run[r].origin
    /\ ~SeenToFail(q) /\ ~SeenToFail(r)
    => ~(gateway[q] = "charged" /\ gateway[r] = "charged")

\* A retry is well formed: no request is sent that the server cannot accept.
NoHollowRequest == \A r \in posted : ~run[r].hollow
=============================================================================

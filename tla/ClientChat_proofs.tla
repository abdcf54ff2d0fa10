-------------------------- MODULE ClientChat_proofs --------------------------
(***************************************************************************)
(* Proofs about ClientChat, for any number of runs, texts, conversations   *)
(* and turns to another one: what the tab adds to ChatCompletion keeps the *)
(* promises of ChatCompletion, and makes three of its own.                 *)
(***************************************************************************)
EXTENDS ClientChat, ChatCompletion_proofs, SequenceTheorems

Messages ==
  [role : {"user", "assistant"}, of : Requests] \cup [role : {"picture"}, of : Convs \cup {Nothing}]

Steps == {"idle", "describing", "creating", "saving", "posting", "streaming", "keeping", "reloading", "done"}

\* The steps behind the completion request.
Posting == {"posting", "streaming", "keeping", "reloading"}

Run == [text : Texts \cup {Nothing}, key : Requests \cup {NoKey}, origin : Requests,
        target : Convs \cup {Nothing}, asked : SUBSET Messages, hollow : BOOLEAN, blended : BOOLEAN]

Turn == [at : {"idle", "asked", "read", "creating", "ensuring", "deleting", "removed",
               "drawing", "storing", "done"},
         conv : Convs \cup {Nothing}, seen : Convs \cup {Nothing}, detail : SUBSET Messages]

TabTypeOK ==
  /\ session \in {"authenticated", "anonymous"}
  /\ prompt \in Texts \cup {Nothing} /\ draft \in Requests \cup {Nothing}
  /\ lastFailed \in [text : Texts \cup {Nothing}, key : Requests \cup {NoKey}]
  /\ pending \in BOOLEAN /\ conversationId \in Convs \cup {Nothing}
  /\ shown \subseteq Messages /\ mixed \in BOOLEAN
  /\ abortRef \in Requests \cup {Nothing} /\ aborted \subseteq Requests
  /\ step \in [Requests -> Steps] /\ run \in [Requests -> Run]
  /\ filled \subseteq Requests /\ posted \subseteq Requests
  /\ turn \in [Turns -> Turn]
  /\ DOMAIN stored \subseteq Convs /\ deleted \subseteq Convs
  /\ stored \in [DOMAIN stored -> Seq(Messages)]

-----------------------------------------------------------------------------
(***************************************************************************)
(* The store.  An id is not used again; a run asks for a completion only   *)
(* behind its question, which stays until its conversation is deleted; and *)
(* the server knows of no other request.                                   *)
(***************************************************************************)
Kept(r) ==
  \/ run[r].target \in deleted
  \/ run[r].target \in DOMAIN stored /\ Question(r) \in ToSet(stored[run[r].target])

QuestionsKept ==
  /\ \A r \in posted : step[r] \in Posting \cup {"done"} /\ Kept(r)
  /\ \A r \in Requests : step[r] \in Posting => r \in posted
  /\ \A r \in Requests : at[r] # "new" => r \in posted

AnswersBehind(s) ==
  \A j \in DOMAIN s : s[j].role = "assistant" => \E i \in 1 .. j - 1 : s[i] = Question(s[j].of)

HistoryInv ==
  /\ DOMAIN stored \cap deleted = {}
  /\ QuestionsKept
  /\ \A k \in DOMAIN stored : AnswersBehind(stored[k])

-----------------------------------------------------------------------------
(***************************************************************************)
(* The keys.  A key is the id of a run that has started, and the key that  *)
(* the next retry will use belongs to nothing but runs that are over.      *)
(***************************************************************************)
KeysStarted ==
  /\ \A r \in Requests : Started(r) => run[r].key \in Requests /\ Started(run[r].key)
  /\ lastFailed # NoFailure => lastFailed.key \in Requests /\ Started(lastFailed.key)

FailureOver ==
  lastFailed # NoFailure =>
    \A r \in Requests : Started(r) /\ run[r].key = lastFailed.key =>
      run[r].text = lastFailed.text /\ step[r] = "done"

KeyInv == KeysStarted /\ FailureOver /\ KeyHandedOn

-----------------------------------------------------------------------------
(***************************************************************************)
(* The conversations.  Until a step mixes them, the messages on screen are *)
(* those of the conversation on screen; and every message that was sent    *)
(* along, read or stored is one of a run that asks, or a picture that was  *)
(* drawn, in the conversation it is in.                                    *)
(***************************************************************************)
\* The run has shown its messages: its conversation is found.
HasShown(r) == step[r] \notin {"idle", "describing", "creating"}

Belong(messages, k) ==
  \A m \in messages : Home(m) = k /\ (m.role # "picture" => HasShown(m.of))

ScreenBelongs ==
  ~mixed => Belong(shown, conversationId) /\ (conversationId = Nothing => shown = {})

AskedBelong(r) ==
  /\ step[r] = "creating" => run[r].target = Nothing
  /\ Started(r) /\ ~run[r].blended =>
       Belong(run[r].asked, run[r].target) /\ (run[r].target = Nothing => run[r].asked = {})

DetailsBelong ==
  \A u \in Turns : turn[u].at = "read" =>
    turn[u].conv # Nothing /\ Belong(turn[u].detail, turn[u].conv)

StoredBelong == \A k \in DOMAIN stored : Belong(ToSet(stored[k]), k)

ContextInv ==
  /\ ScreenBelongs /\ DetailsBelong /\ StoredBelong
  /\ \A r \in Requests : AskedBelong(r)

-----------------------------------------------------------------------------
(***************************************************************************)
(* The composition: every step of the tab is a step of the server or none, *)
(* and a request leaves "new" only after the tab has posted it.            *)
(***************************************************************************)
LEMMA TabStepServes ==
  ASSUME TabNext PROVE [Next]_vars
<1> USE DEF Arrival
<1>1. ASSUME NEW r \in Requests, Submit(r) \/ SubmitImage(r) \/ RunStep(r) PROVE UNCHANGED vars
  BY <1>1 DEF Submit, SubmitImage, RunStep, Described, Created, CreateFails, SaveQuestion, SaveFails, Breaks, Duplicate,
              Refused, Expires, StreamStarts, Delta, StreamEnds, KeepAnswer, KeepFails, Reloaded
<1>2. ASSUME NEW r \in Requests, Arrives(r) PROVE Arrival(r)
  BY <1>2 DEF Arrives
<1>3. ASSUME NEW u \in Turns, Click(u) \/ TurnStep(u) PROVE UNCHANGED vars
  BY <1>3 DEF Click, OpenClick, NewClick, DeleteClick, DrawClick, Begins, TurnStep, OpenRead,
              OpenShow, NewShow, DeleteRead, DeleteShow, DrawShow, DrawStored, Turned,
              TurnFails, TurnExpires
<1>4. ASSUME Type \/ Stop PROVE UNCHANGED vars
  BY <1>4 DEF Type, Stop
<1> QED BY <1>1, <1>2, <1>3, <1>4 DEF TabNext, Serve, Elapse, Next

\* No step of the server but the arrival takes a request out of "new".
LEMMA ServingKeepsNew ==
  ASSUME TypeOK, NEW q \in Requests, at[q] = "new", at'[q] # "new",
         \/ \E r \in Requests : Serve(r)
         \/ Elapse
  PROVE  FALSE
<1>1. ASSUME NEW r \in Requests, Handle(r) PROVE FALSE
  <2>1. at[r] # "new" /\ \E a \in InFlightAt \cup {"done"} : at' = [at EXCEPT ![r] = a]
    BY <1>1 DEF Handle, ReadConversation, AnswerNoSpeaker, AnswerNoRoute, RunRejected, StartRun,
                BuildContext, Send, Interrupted, Succeed, ReplyUnrecorded, Revoke, Fail,
                Conclude, Goto, InFlightAt
  <2> QED BY <2>1 DEF TypeOK
<1>2. ASSUME NEW r \in Requests, Charge(r) \/ TurnDown(r) PROVE FALSE
  BY <1>2 DEF Charge, TurnDown, GatewayAnswers, handlerVars
<1>3. ASSUME Tick \/ Restart PROVE FALSE
  BY <1>3 DEF Tick, Restart, handlerVars, InFlight, InFlightAt
<1> QED BY <1>1, <1>2, <1>3 DEF Serve, Elapse

\* What the server does is nothing the tab sees, and touches only requests
\* the tab has posted.
LEMMA ServerStep ==
  ASSUME TypeOK,
         \/ \E r \in Requests : Arrives(r) \/ Serve(r)
         \/ Elapse
  PROVE  /\ UNCHANGED tabVars
         /\ \A q \in Requests : at[q] = "new" /\ at'[q] # "new" => q \in posted
<1>1. UNCHANGED tabVars
  BY DEF Arrives, Serve, Elapse
<1>2. ASSUME NEW r \in Requests, Arrives(r), NEW q \in Requests, at[q] = "new", at'[q] # "new"
      PROVE  q \in posted
  <2>1. r \in posted /\ \E a \in {"done", "admitted"} : at' = [at EXCEPT ![r] = a]
    BY <1>2 DEF Arrives, TurnAway, RefuseDuplicate, Admit
  <2> QED BY <1>2, <2>1 DEF TypeOK
<1> QED BY <1>1, <1>2, ServingKeepsNew

-----------------------------------------------------------------------------
(***************************************************************************)
(* Types.                                                                  *)
(***************************************************************************)
LEMMA MessageTypes ==
  /\ \A r \in Requests : Question(r) \in Messages /\ Answer(r) \in Messages
  /\ \A k \in Convs \cup {Nothing} : Picture(k) \in Messages
  /\ \A m \in Messages : m.role # "picture" => m.of \in Requests
BY DEF Question, Answer, Picture, Messages

\* The store after an append.
Appended(k, m) == stored' = [stored EXCEPT ![k] = Append(@, m)]

LEMMA AppendedStore ==
  ASSUME TabTypeOK, NEW k \in DOMAIN stored, NEW m \in Messages, Appended(k, m)
  PROVE  /\ DOMAIN stored' = DOMAIN stored
         /\ stored' \in [DOMAIN stored -> Seq(Messages)]
         /\ stored'[k] = Append(stored[k], m)
         /\ \A j \in DOMAIN stored \ {k} : stored'[j] = stored[j]
<1>1. \A j \in DOMAIN stored : Append(stored[j], m) \in Seq(Messages)
  BY AppendProperties DEF TabTypeOK
<1> QED BY <1>1 DEF Appended, TabTypeOK

\* The store after a conversation was made.
LEMMA AddsOne ==
  ASSUME TabTypeOK, NEW k \in Convs, AddConversation(k)
  PROVE  /\ DOMAIN stored' = DOMAIN stored \cup {k} /\ k \notin DOMAIN stored \cup deleted
         /\ DOMAIN stored' \subseteq Convs /\ deleted' = deleted
         /\ stored' \in [DOMAIN stored' -> Seq(Messages)]
         /\ stored'[k] = <<>> /\ \A j \in DOMAIN stored : stored'[j] = stored[j]
<1>1. <<>> \in Seq(Messages)
  BY EmptySeq
<1> QED BY <1>1 DEF AddConversation, TabTypeOK

\* The store after a conversation was deleted.
LEMMA DeletesOne ==
  ASSUME TabTypeOK, NEW u \in Turns, DeleteRead(u)
  PROVE  /\ DOMAIN stored' = DOMAIN stored \ {turn[u].conv} /\ turn[u].conv \in DOMAIN stored
         /\ deleted' = deleted \cup {turn[u].conv} /\ deleted' \subseteq Convs
         /\ stored' \in [DOMAIN stored' -> Seq(Messages)]
         /\ \A j \in DOMAIN stored' : stored'[j] = stored[j]
BY DEF DeleteRead, TabTypeOK

\* What a message list names, after an append.
LEMMA AppendHolds ==
  ASSUME NEW s \in Seq(Messages), NEW m \in Messages
  PROVE  ToSet(Append(s, m)) = ToSet(s) \cup {m}
<1>1. /\ DOMAIN Append(s, m) = 1 .. Len(s) + 1 /\ DOMAIN s = 1 .. Len(s) /\ Len(s) \in Nat
      /\ Append(s, m)[Len(s) + 1] = m /\ \A i \in 1 .. Len(s) : Append(s, m)[i] = s[i]
  BY AppendProperties, LenProperties
<1> QED BY <1>1 DEF ToSet

LEMMA TabTypeInit == TabInit => TabTypeOK
<1> SUFFICES ASSUME TabInit PROVE TabTypeOK
  OBVIOUS
<1>1. step \in [Requests -> Steps] /\ run \in [Requests -> Run]
  BY DEF TabInit, Steps, Run
<1>2. turn \in [Turns -> Turn]
  BY DEF TabInit, Turn, Resting
<1>3. DOMAIN stored \subseteq Convs /\ stored \in [DOMAIN stored -> Seq(Messages)]
  BY ClientAssumption, EmptySeq DEF TabInit
<1>4. conversationId \in Convs \cup {Nothing} /\ lastFailed \in [text : Texts \cup {Nothing}, key : Requests \cup {NoKey}]
  BY ClientAssumption DEF TabInit, NoFailure
<1> QED BY <1>1, <1>2, <1>3, <1>4 DEF TabInit, TabTypeOK

LEMMA ShowType ==
  ASSUME TabTypeOK, NEW r \in Requests, Show(r)
  PROVE  /\ prompt' = Nothing /\ draft' = Nothing /\ pending' = TRUE
         /\ shown' \subseteq Messages /\ abortRef' = r
         /\ step' \in [Requests -> Steps]
BY MessageTypes DEF Show, TabTypeOK, Steps

LEMMA TakesType ==
  ASSUME TabTypeOK, NEW r \in Requests, NEW k \in Requests \cup {NoKey}, Takes(r, k)
  PROVE  run' \in [Requests -> Run]
BY DEF Takes, TabTypeOK, Run

LEMMA LeavesType ==
  ASSUME TabTypeOK, NEW r \in Requests, NEW t \in Steps, Leaves(r, t)
  PROVE  /\ step' \in [Requests -> Steps] /\ draft' \in Requests \cup {Nothing}
         /\ UNCHANGED <<prompt, screenVars>>
BY DEF Leaves, TabTypeOK

LEMMA FinallyType ==
  ASSUME TabTypeOK, NEW r \in Requests, Finally(r)
  PROVE  /\ pending' \in BOOLEAN /\ abortRef' \in Requests \cup {Nothing}
         /\ step' \in [Requests -> Steps]
BY DEF Finally, TabTypeOK, Steps

LEMMA CaughtType ==
  ASSUME TabTypeOK, NEW r \in Requests, Caught(r),
         DOMAIN stored' = DOMAIN stored, stored' \in [DOMAIN stored -> Seq(Messages)]
  PROVE  TabTypeOK'
<1>1. /\ pending' \in BOOLEAN /\ abortRef' \in Requests \cup {Nothing}
      /\ step' \in [Requests -> Steps]
  BY FinallyType DEF Caught
<1>2. run[r] \in Run
  BY DEF TabTypeOK
<1>3. /\ prompt' \in Texts \cup {Nothing} /\ draft' \in Requests \cup {Nothing}
      /\ lastFailed' \in [text : Texts \cup {Nothing}, key : Requests \cup {NoKey}]
  BY <1>2 DEF Caught, composerVars, TabTypeOK, Run
<1>4. shown' \subseteq Messages
  BY DEF Caught, TabTypeOK
<1>5. UNCHANGED <<session, conversationId, mixed, aborted, run, filled, posted, turn, deleted>>
  BY DEF Caught, runVars
<1> QED BY <1>1, <1>3, <1>4, <1>5 DEF TabTypeOK

LEMMA TabTypeStep == TabTypeOK /\ [TabNext]_allVars => TabTypeOK'
<1> SUFFICES ASSUME TabTypeOK, [TabNext]_allVars PROVE TabTypeOK'
  OBVIOUS
<1> USE DEF composerVars, screenVars, runVars, storeVars
<1>1. CASE Type \/ Stop
  BY <1>1 DEF Type, Stop, TabTypeOK
<1>2. ASSUME NEW r \in Requests, Submit(r) PROVE TabTypeOK'
  <2>1. run' \in [Requests -> Run]
    <3>1. (IF IsRetry THEN lastFailed.key ELSE r) \in Requests \cup {NoKey}
      BY DEF TabTypeOK
    <3> QED BY <1>2, <3>1, TakesType DEF Submit
  <2>2. lastFailed' \in [text : Texts \cup {Nothing}, key : Requests \cup {NoKey}]
    BY <1>2 DEF Submit, TabTypeOK, NoFailure
  <2>3. CASE conversationId = Nothing
    <3>1. Leaves(r, "creating")
      BY <1>2, <2>3 DEF Submit
    <3>2. "creating" \in Steps
      BY DEF Steps
    <3> QED BY <1>2, <2>1, <2>2, <3>1, <3>2, LeavesType DEF Submit, TabTypeOK
  <2>4. CASE conversationId # Nothing
    <3>1. Show(r) /\ UNCHANGED <<conversationId, mixed>>
      BY <1>2, <2>4 DEF Submit
    <3> QED BY <1>2, <2>1, <2>2, <3>1, ShowType DEF Submit, TabTypeOK
  <2> QED BY <2>3, <2>4
<1>3. ASSUME NEW r \in Requests, SubmitImage(r) PROVE TabTypeOK'
  <2>1. run' \in [Requests -> Run]
    BY <1>3, TakesType DEF SubmitImage
  <2>2. Leaves(r, "describing") /\ "describing" \in Steps
    BY <1>3 DEF SubmitImage, Steps
  <2> QED BY <1>3, <2>1, <2>2, LeavesType DEF SubmitImage, TabTypeOK
<1>4. ASSUME NEW r \in Requests, RunStep(r) PROVE TabTypeOK'
  <2>1. CASE Created(r)
    <3>1. PICK k \in Convs :
            AddConversation(k) /\ run' = [run EXCEPT ![r].target = k] /\ Show(r) /\ Ensured(k)
      BY <2>1 DEF Created
    <3>2. run' \in [Requests -> Run]
      <4>1. run[r] \in Run
        BY DEF TabTypeOK
      <4>2. [run[r] EXCEPT !.target = k] \in Run
        BY <4>1 DEF Run
      <4> QED BY <3>1, <4>2 DEF TabTypeOK
    <3>3. /\ DOMAIN stored' \subseteq Convs /\ stored' \in [DOMAIN stored' -> Seq(Messages)]
          /\ deleted' = deleted
      BY <3>1, AddsOne
    <3>4. conversationId' = k /\ mixed' \in BOOLEAN
      BY <3>1 DEF Ensured
    <3> QED BY <2>1, <3>1, <3>2, <3>3, <3>4, ShowType DEF Created, TabTypeOK
  <2>2. CASE Described(r)
    <3>1. CASE run[r].target = Nothing
      BY <2>2, <3>1 DEF Described, TabTypeOK, Steps
    <3>2. CASE run[r].target # Nothing
      <4>1. /\ Show(r) /\ mixed' = (mixed \/ conversationId # run[r].target)
            /\ conversationId' = conversationId
        BY <2>2, <3>2 DEF Described
      <4> QED BY <2>2, <4>1, ShowType DEF Described, TabTypeOK
    <3> QED BY <3>1, <3>2
  <2>3. CASE SaveQuestion(r) \/ KeepAnswer(r)
    <3>1. DOMAIN stored' = DOMAIN stored /\ stored' \in [DOMAIN stored -> Seq(Messages)]
      BY <2>3, AppendedStore, MessageTypes DEF SaveQuestion, KeepAnswer, Keep, Appended
    <3>2. step' \in [Requests -> Steps]
      BY <2>3 DEF SaveQuestion, KeepAnswer, Goto2, TabTypeOK, Steps
    <3> QED BY <2>3, <3>1, <3>2 DEF SaveQuestion, KeepAnswer, TabTypeOK
  <2>4. CASE SaveFails(r) \/ KeepFails(r) \/ Breaks(r) \/ Refused(r)
    <3>1. DOMAIN stored' = DOMAIN stored /\ stored' \in [DOMAIN stored -> Seq(Messages)]
      <4>1. CASE stored' = stored
        BY <4>1 DEF TabTypeOK
      <4> QED BY <2>4, <4>1, AppendedStore, MessageTypes
              DEF SaveFails, KeepFails, Breaks, Refused, Keep, Appended
    <3> QED BY <2>4, <3>1, CaughtType DEF SaveFails, KeepFails, Breaks, Refused
  <2>5. CASE Duplicate(r) \/ Expires(r) \/ Reloaded(r)
    BY <2>5, FinallyType DEF Duplicate, Expires, Reloaded, SessionOver, AbortCurrent, TabTypeOK
  <2>6. CASE CreateFails(r) \/ StreamStarts(r) \/ StreamEnds(r) \/ Delta(r)
    BY <2>6 DEF CreateFails, StreamStarts, StreamEnds, Delta, Goto2, TabTypeOK, Steps
  <2> QED BY <1>4, <2>1, <2>2, <2>3, <2>4, <2>5, <2>6 DEF RunStep
<1>5. ASSUME NEW u \in Turns, Click(u) PROVE TabTypeOK'
  <2>1. \E how \in Turn : Begins(u, how) /\ (aborted' = aborted \/ AbortCurrent)
    <3>1. CASE OpenClick(u)
      <4>1. \A k \in Convs : [Resting("asked") EXCEPT !.conv = k] \in Turn
        BY DEF Resting, Turn
      <4> QED BY <3>1, <4>1 DEF OpenClick, TabTypeOK
    <3>2. CASE NewClick(u)
      <4>1. Resting("creating") \in Turn /\ Resting("ensuring") \in Turn
        BY DEF Resting, Turn
      <4> QED BY <3>2, <4>1 DEF NewClick
    <3>3. CASE DeleteClick(u)
      <4>1. \A k \in Convs :
              [Resting("deleting") EXCEPT !.conv = k, !.seen = conversationId] \in Turn
        BY DEF Resting, Turn, TabTypeOK
      <4> QED BY <3>3, <4>1 DEF DeleteClick, TabTypeOK
    <3>4. CASE DrawClick(u)
      <4>1. [Resting("drawing") EXCEPT !.seen = conversationId] \in Turn
        BY DEF Resting, Turn, TabTypeOK
      <4> QED BY <3>4, <4>1 DEF DrawClick
    <3> QED BY <1>5, <3>1, <3>2, <3>3, <3>4 DEF Click
  <2> QED BY <2>1 DEF Begins, AbortCurrent, TabTypeOK
<1>6. ASSUME NEW u \in Turns, TurnStep(u) PROVE TabTypeOK'
  <2> turn[u] \in Turn /\ Resting("done") \in Turn
    BY DEF TabTypeOK, Turn, Resting
  <2>1. CASE OpenRead(u)
    <3>1. stored[turn[u].conv] \in Seq(Messages)
      BY <2>1 DEF OpenRead, TabTypeOK
    <3>2. ToSet(stored[turn[u].conv]) \subseteq Messages
      BY <3>1, ElementOfSeq, LenProperties DEF ToSet
    <3>3. [turn[u] EXCEPT !.at = "read", !.detail = ToSet(stored[turn[u].conv])] \in Turn
      BY <3>2 DEF Turn
    <3>4. turn' \in [Turns -> Turn]
      BY <2>1, <3>3 DEF OpenRead, TabTypeOK
    <3> QED BY <2>1, <3>4 DEF OpenRead, TabTypeOK
  <2>2. CASE OpenShow(u)
    <3>1. turn[u].conv \in Convs \cup {Nothing} /\ turn[u].detail \subseteq Messages
      BY DEF Turn
    <3> QED BY <2>2, <3>1 DEF OpenShow, Turned, TabTypeOK
  <2>3. CASE NewShow(u)
    <3>1. PICK k \in Convs :
            /\ AddConversation(k) /\ conversationId' = k
            /\ shown' \in {{}, shown} /\ mixed' \in BOOLEAN
            /\ turn' = [turn EXCEPT ![u] = Resting("done")]
            /\ UNCHANGED <<session, composerVars, pending, abortRef, aborted, step, runVars>>
      BY <2>3 DEF NewShow, Turned, Ensured
    <3>2. /\ DOMAIN stored' \subseteq Convs /\ stored' \in [DOMAIN stored' -> Seq(Messages)]
          /\ deleted' = deleted
      BY <3>1, AddsOne
    <3> QED BY <3>1, <3>2 DEF TabTypeOK
  <2>4. CASE DeleteRead(u)
    <3>1. [turn[u] EXCEPT !.at = "removed"] \in Turn
      BY DEF Turn
    <3>2. turn' \in [Turns -> Turn]
      BY <2>4, <3>1 DEF DeleteRead, TabTypeOK
    <3> QED BY <2>4, <3>2, DeletesOne DEF DeleteRead, TabTypeOK
  <2>5. CASE DeleteShow(u)
    BY <2>5 DEF DeleteShow, Turned, TabTypeOK
  <2>6. CASE DrawShow(u)
    <3>1. Picture(turn[u].seen) \in Messages
      BY MessageTypes DEF Turn
    <3>2. [turn[u] EXCEPT !.at = "storing"] \in Turn
      BY DEF Turn
    <3>3. turn' \in [Turns -> Turn]
      BY <2>6, <3>2 DEF DrawShow, TabTypeOK
    <3> QED BY <2>6, <3>1, <3>3 DEF DrawShow, TabTypeOK
  <2>7. CASE DrawStored(u)
    <3>1. Picture(turn[u].seen) \in Messages
      BY MessageTypes DEF Turn
    <3>2. DOMAIN stored' = DOMAIN stored /\ stored' \in [DOMAIN stored -> Seq(Messages)]
      BY <2>7, <3>1, AppendedStore DEF DrawStored, Appended
    <3> QED BY <2>7, <3>2 DEF DrawStored, TabTypeOK
  <2>8. CASE TurnFails(u) \/ TurnExpires(u)
    BY <2>8 DEF TurnFails, TurnExpires, SessionOver, AbortCurrent, TabTypeOK
  <2> QED BY <1>6, <2>1, <2>2, <2>3, <2>4, <2>5, <2>6, <2>7, <2>8 DEF TurnStep
<1>7. ASSUME UNCHANGED tabVars PROVE TabTypeOK'
  BY <1>7 DEF tabVars, TabTypeOK
<1> QED
  BY <1>1, <1>2, <1>3, <1>4, <1>5, <1>6, <1>7 DEF TabNext, Arrives, Serve, Elapse, allVars

-----------------------------------------------------------------------------
(***************************************************************************)
(* The store.                                                              *)
(***************************************************************************)
LEMMA HistoryInit == TabInit => HistoryInv
<1> SUFFICES ASSUME TabInit PROVE HistoryInv
  OBVIOUS
<1>1. QuestionsKept
  BY DEF TabInit, QuestionsKept, Posting, Init
<1>2. \A k \in DOMAIN stored : AnswersBehind(stored[k])
  BY DEF TabInit, AnswersBehind
<1> QED BY <1>1, <1>2 DEF TabInit, HistoryInv

\* Nothing is posted, and no question goes but with its conversation.
LEMMA HistoryQuiet ==
  ASSUME HistoryInv, posted' = posted, posted \subseteq Requests,
         DOMAIN stored' \cap deleted' = {},
         \A k \in DOMAIN stored' : AnswersBehind(stored'[k]),
         \A r \in Requests :
           /\ r \in posted /\ Kept(r) => Kept(r)'
           /\ r \in posted => step'[r] \in Posting \cup {"done"}
           /\ step'[r] \in Posting => r \in posted
           /\ at[r] = "new" /\ at'[r] # "new" => r \in posted
  PROVE  HistoryInv'
<1>1. QuestionsKept'
  BY DEF HistoryInv, QuestionsKept
<1> QED BY <1>1 DEF HistoryInv

\* The store is left alone.
LEMMA HistoryStoreQuiet ==
  ASSUME HistoryInv, UNCHANGED <<stored, deleted, posted>>, posted \subseteq Requests,
         \A r \in Requests :
           /\ r \in posted => step'[r] \in Posting \cup {"done"} /\ run'[r].target = run[r].target
           /\ step'[r] \in Posting => r \in posted
           /\ at[r] = "new" /\ at'[r] # "new" => r \in posted
  PROVE  HistoryInv'
<1>1. \A r \in Requests : r \in posted /\ Kept(r) => Kept(r)'
  BY DEF Kept
<1>2. DOMAIN stored' \cap deleted' = {} /\ \A k \in DOMAIN stored' : AnswersBehind(stored'[k])
  BY DEF HistoryInv
<1> QED BY <1>1, <1>2, HistoryQuiet

\* A message is stored behind those that are there: what was stored stays,
\* and an answer comes behind its question.
LEMMA HistoryAppend ==
  ASSUME TabTypeOK, HistoryInv, NEW t \in DOMAIN stored, NEW m \in Messages, Appended(t, m),
         m.role = "assistant" => Question(m.of) \in ToSet(stored[t]),
         UNCHANGED <<run, deleted>>
  PROVE  /\ DOMAIN stored' = DOMAIN stored
         /\ \A q \in Requests : Kept(q) => Kept(q)'
         /\ \A q \in Requests : m = Question(q) /\ t = run[q].target => Kept(q)'
         /\ \A k \in DOMAIN stored' : AnswersBehind(stored'[k])
<1>1. /\ DOMAIN stored' = DOMAIN stored /\ stored'[t] = Append(stored[t], m)
      /\ \A k \in DOMAIN stored \ {t} : stored'[k] = stored[k]
  BY AppendedStore
<1>2. stored[t] \in Seq(Messages)
  BY DEF TabTypeOK
<1>3. ToSet(stored'[t]) = ToSet(stored[t]) \cup {m}
  BY <1>1, <1>2, AppendHolds
<1>4. \A q \in Requests : Kept(q) => Kept(q)'
  BY <1>1, <1>3 DEF Kept
<1>5. \A q \in Requests : m = Question(q) /\ t = run[q].target => Kept(q)'
  BY <1>1, <1>3 DEF Kept
<1>6. AnswersBehind(Append(stored[t], m))
  <2> DEFINE s == stored[t]
  <2>1. /\ DOMAIN Append(s, m) = 1 .. Len(s) + 1 /\ DOMAIN s = 1 .. Len(s) /\ Len(s) \in Nat
        /\ Append(s, m)[Len(s) + 1] = m /\ \A i \in 1 .. Len(s) : Append(s, m)[i] = s[i]
    BY <1>2, AppendProperties, LenProperties
  <2>2. AnswersBehind(s)
    BY DEF HistoryInv
  <2>3. ASSUME m.role = "assistant" PROVE \E i \in 1 .. Len(s) : s[i] = Question(m.of)
    <3>1. Question(m.of) \in ToSet(s)
      BY <2>3
    <3> QED BY <2>1, <3>1 DEF ToSet
  <2> HIDE DEF s
  <2>4. SUFFICES ASSUME NEW j \in 1 .. Len(s) + 1, Append(s, m)[j].role = "assistant"
                 PROVE  \E i \in 1 .. j - 1 : Append(s, m)[i] = Question(Append(s, m)[j].of)
    BY <2>1 DEF AnswersBehind, s
  <2>5. CASE j = Len(s) + 1
    <3>1. PICK i \in 1 .. Len(s) : s[i] = Question(m.of)
      BY <2>1, <2>3, <2>4, <2>5
    <3>2. i \in 1 .. j - 1 /\ Append(s, m)[i] = s[i] /\ Append(s, m)[j] = m
      BY <2>1, <2>5, <3>1
    <3> QED BY <3>1, <3>2
  <2>6. CASE j \in 1 .. Len(s)
    <3>1. Append(s, m)[j] = s[j]
      BY <2>1, <2>6
    <3>2. PICK i \in 1 .. j - 1 : s[i] = Question(s[j].of)
      BY <2>1, <2>2, <2>4, <2>6, <3>1 DEF AnswersBehind
    <3>3. i \in 1 .. Len(s)
      BY <2>1, <2>6, <3>2
    <3> QED BY <2>1, <3>1, <3>2, <3>3
  <2> QED BY <2>1, <2>5, <2>6
<1>7. \A k \in DOMAIN stored' : AnswersBehind(stored'[k])
  BY <1>1, <1>6 DEF HistoryInv
<1> QED BY <1>1, <1>4, <1>5, <1>7

\* A message of a run is stored in the conversation the run asks in.
LEMMA HistoryKeep ==
  ASSUME TabTypeOK, HistoryInv, NEW r \in Requests,
         \/ Keep(r, Question(r))
         \/ Keep(r, Answer(r)) /\ r \in posted,
         UNCHANGED <<run, deleted>>
  PROVE  /\ DOMAIN stored' = DOMAIN stored
         /\ \A q \in Requests : Kept(q) => Kept(q)'
         /\ Keep(r, Question(r)) => Kept(r)'
         /\ \A k \in DOMAIN stored' : AnswersBehind(stored'[k])
<1>1. run[r].target \in DOMAIN stored
  BY DEF Keep
<1>2. CASE Keep(r, Question(r))
  <2>1. Question(r) \in Messages /\ Question(r).role # "assistant"
    BY MessageTypes DEF Question
  <2> QED BY <1>1, <1>2, <2>1, HistoryAppend DEF Keep, Appended
<1>3. CASE Keep(r, Answer(r)) /\ r \in posted
  <2>1. Answer(r) \in Messages /\ Answer(r).of = r
    BY MessageTypes DEF Answer
  <2>2. Question(r) \in ToSet(stored[run[r].target])
    BY <1>1, <1>3 DEF HistoryInv, QuestionsKept, Kept
  <2>3. Appended(run[r].target, Answer(r))
    BY <1>3 DEF Keep, Appended
  <2>4. /\ DOMAIN stored' = DOMAIN stored
        /\ \A q \in Requests : Kept(q) => Kept(q)'
        /\ \A k \in DOMAIN stored' : AnswersBehind(stored'[k])
    BY <1>1, <2>1, <2>2, <2>3, HistoryAppend
  <2> QED BY <1>3, <2>4 DEF HistoryInv, QuestionsKept
<1> QED BY <1>2, <1>3

\* A new conversation is empty, and no other has changed.
LEMMA HistoryAdd ==
  ASSUME TabTypeOK, HistoryInv, NEW k \in Convs, AddConversation(k)
  PROVE  /\ DOMAIN stored' \cap deleted' = {}
         /\ \A q \in Requests : Kept(q) /\ run'[q].target = run[q].target => Kept(q)'
         /\ \A j \in DOMAIN stored' : AnswersBehind(stored'[j])
<1>1. /\ DOMAIN stored' = DOMAIN stored \cup {k} /\ deleted' = deleted /\ k \notin deleted
      /\ stored'[k] = <<>> /\ \A j \in DOMAIN stored : stored'[j] = stored[j]
  BY AddsOne
<1>2. AnswersBehind(<<>>)
  BY DEF AnswersBehind
<1> QED BY <1>1, <1>2 DEF HistoryInv, Kept

LEMMA HistoryStep ==
  ASSUME TypeOK, TabTypeOK, HistoryInv, [TabNext]_allVars
  PROVE  HistoryInv'
<1> USE DEF composerVars, screenVars, runVars, storeVars
<1>1. /\ QuestionsKept /\ posted \subseteq Requests
      /\ DOMAIN step = Requests /\ DOMAIN run = Requests /\ DOMAIN turn = Turns
  BY DEF HistoryInv, TabTypeOK
<1>2. \A r \in Requests :
        /\ r \in posted => step[r] \in Posting \cup {"done"} /\ Kept(r)
        /\ step[r] \in Posting => r \in posted
        /\ at[r] # "new" => r \in posted
  BY <1>1 DEF QuestionsKept
<1>3. CASE Type \/ Stop
  BY <1>1, <1>2, <1>3, HistoryStoreQuiet DEF Type, Stop, vars, handlerVars
<1>4. CASE \/ \E r \in Requests : Arrives(r) \/ Serve(r)
           \/ Elapse
  <2>1. UNCHANGED tabVars /\ \A q \in Requests : at[q] = "new" /\ at'[q] # "new" => q \in posted
    BY <1>4, ServerStep
  <2> QED BY <1>1, <1>2, <2>1, HistoryStoreQuiet DEF tabVars
<1>5. ASSUME NEW r \in Requests, Submit(r) \/ SubmitImage(r) PROVE HistoryInv'
  <2>1. /\ step[r] = "idle" /\ UNCHANGED <<stored, deleted, posted, at>>
        /\ \A q \in Requests \ {r} : run'[q] = run[q]
    BY <1>1, <1>5 DEF Submit, SubmitImage, CanSubmit, Takes, vars, handlerVars
  <2>2. /\ step'[r] \in {"describing", "creating", "saving"}
        /\ \A q \in Requests \ {r} : step'[q] = step[q]
    BY <1>1, <1>5 DEF Submit, SubmitImage, Show, Leaves
  <2>3. r \notin posted
    BY <1>2, <2>1 DEF Posting
  <2>4. ASSUME NEW q \in Requests
        PROVE  /\ q \in posted => step'[q] \in Posting \cup {"done"} /\ run'[q].target = run[q].target
               /\ step'[q] \in Posting => q \in posted
    <3>1. CASE q = r
      BY <2>2, <2>3, <3>1 DEF Posting
    <3>2. CASE q # r
      BY <1>2, <2>1, <2>2, <3>2
    <3> QED BY <3>1, <3>2
  <2> QED BY <1>1, <2>1, <2>4, HistoryStoreQuiet
<1>6. ASSUME NEW r \in Requests, RunStep(r) PROVE HistoryInv'
  <2>1. CASE Created(r)
    <3>1. PICK k \in Convs : AddConversation(k) /\ run' = [run EXCEPT ![r].target = k] /\ Show(r)
      BY <2>1 DEF Created
    <3>2. /\ step[r] = "creating" /\ UNCHANGED <<posted, at>>
          /\ step' = [step EXCEPT ![r] = "saving"]
      BY <2>1, <3>1 DEF Created, Show, vars, handlerVars
    <3>3. \A q \in Requests \ {r} : run'[q] = run[q]
      BY <1>1, <3>1
    <3>4. r \notin posted
      BY <1>2, <3>2 DEF Posting
    <3> QED BY <1>1, <1>2, <3>1, <3>2, <3>3, <3>4, HistoryAdd, HistoryQuiet DEF Posting
  <2>2. CASE SaveQuestion(r)
    <3>1. /\ step[r] = "saving" /\ step' = [step EXCEPT ![r] = "posting"] /\ Keep(r, Question(r))
          /\ posted' = posted \cup {r} /\ UNCHANGED <<run, deleted, at>>
      BY <2>2 DEF SaveQuestion, Goto2, vars, handlerVars
    <3>2. /\ DOMAIN stored' = DOMAIN stored
          /\ \A q \in Requests : Kept(q) => Kept(q)'
          /\ Kept(r)'
          /\ \A k \in DOMAIN stored' : AnswersBehind(stored'[k])
      BY <3>1, HistoryKeep
    <3>3. QuestionsKept'
      BY <1>1, <1>2, <3>1, <3>2 DEF QuestionsKept, Posting
    <3> QED BY <3>1, <3>2, <3>3 DEF HistoryInv
  <2>3. CASE SaveFails(r) \/ KeepFails(r) \/ KeepAnswer(r)
    <3>1. /\ \/ step[r] = "saving" /\ (Keep(r, Question(r)) \/ stored' = stored)
             \/ step[r] = "keeping" /\ (Keep(r, Answer(r)) \/ stored' = stored)
          /\ \E t \in {"reloading", "done"} :
               /\ step' = [step EXCEPT ![r] = t]
               /\ t = "reloading" => step[r] = "keeping"
          /\ UNCHANGED <<run, deleted, posted, at>>
      BY <2>3 DEF SaveFails, KeepFails, KeepAnswer, Caught, Finally, Goto2, vars, handlerVars
    <3>2. step[r] = "keeping" => r \in posted
      BY <1>2 DEF Posting
    <3>3. /\ DOMAIN stored' = DOMAIN stored
          /\ \A q \in Requests : Kept(q) => Kept(q)'
          /\ \A k \in DOMAIN stored' : AnswersBehind(stored'[k])
      <4>1. CASE stored' = stored
        BY <3>1, <4>1 DEF HistoryInv, Kept
      <4>2. CASE Keep(r, Question(r)) \/ (step[r] = "keeping" /\ Keep(r, Answer(r)))
        BY <3>1, <3>2, <4>2, HistoryKeep
      <4> QED BY <3>1, <4>1, <4>2
    <3>4. QuestionsKept'
      BY <1>1, <1>2, <3>1, <3>3 DEF QuestionsKept, Posting
    <3> QED BY <3>1, <3>3, <3>4 DEF HistoryInv
  <2>4. CASE \/ Described(r) \/ CreateFails(r) \/ Breaks(r) \/ Duplicate(r) \/ Refused(r)
             \/ Expires(r) \/ StreamStarts(r) \/ Delta(r) \/ StreamEnds(r) \/ Reloaded(r)
    <3>1. UNCHANGED <<stored, deleted, run, posted, at>>
      BY <2>4 DEF Described, CreateFails, Breaks, Duplicate, Refused, Expires, StreamStarts, Delta,
                  StreamEnds, Reloaded, Caught, vars, handlerVars
    <3>2. \/ step[r] = "describing" /\ \E t \in {"creating", "saving"} : step' = [step EXCEPT ![r] = t]
          \/ \E t \in Posting \cup {"done"} :
               /\ step' = [step EXCEPT ![r] = t] \/ step' = step
               /\ t \in Posting => step[r] \in Posting
      BY <2>4 DEF Described, Show, CreateFails, Breaks, Duplicate, Refused, Expires, StreamStarts,
                  Delta, StreamEnds, Reloaded, Caught, Finally, Goto2, Posting
    <3>3. step[r] = "describing" => r \notin posted
      BY <1>2 DEF Posting
    <3> QED BY <1>1, <1>2, <3>1, <3>2, <3>3, HistoryStoreQuiet DEF Posting
  <2> QED BY <1>6, <2>1, <2>2, <2>3, <2>4 DEF RunStep
<1>7. ASSUME NEW u \in Turns, Click(u) \/ TurnStep(u) PROVE HistoryInv'
  <2>1. UNCHANGED <<posted, run, step, at>>
    BY <1>7 DEF Click, OpenClick, NewClick, DeleteClick, DrawClick, Begins, TurnStep, OpenRead,
                OpenShow, NewShow, DeleteRead, DeleteShow, DrawShow, DrawStored, Turned,
                TurnFails, TurnExpires, vars, handlerVars
  <2>2. /\ DOMAIN stored' \cap deleted' = {}
        /\ \A q \in Requests : Kept(q) => Kept(q)'
        /\ \A k \in DOMAIN stored' : AnswersBehind(stored'[k])
    <3>1. CASE NewShow(u)
      BY <2>1, <3>1, HistoryAdd DEF NewShow
    <3>2. CASE DeleteRead(u)
      BY <2>1, <3>2, DeletesOne DEF HistoryInv, Kept
    <3>3. CASE DrawStored(u)
      <4>1. /\ turn[u].seen \in DOMAIN stored /\ deleted' = deleted
            /\ Appended(turn[u].seen, Picture(turn[u].seen))
        BY <3>3 DEF DrawStored, Appended
      <4>2. Picture(turn[u].seen) \in Messages /\ Picture(turn[u].seen).role # "assistant"
        BY <4>1, MessageTypes DEF Picture, TabTypeOK
      <4>3. /\ DOMAIN stored' = DOMAIN stored
            /\ \A q \in Requests : Kept(q) => Kept(q)'
            /\ \A k \in DOMAIN stored' : AnswersBehind(stored'[k])
        BY <2>1, <4>1, <4>2, HistoryAppend
      <4> QED BY <4>1, <4>3 DEF HistoryInv
    <3>4. CASE UNCHANGED <<stored, deleted>>
      BY <2>1, <3>4 DEF HistoryInv, Kept
    <3> QED BY <1>7, <3>1, <3>2, <3>3, <3>4
            DEF Click, OpenClick, NewClick, DeleteClick, DrawClick, Begins, TurnStep, OpenRead,
                OpenShow, DeleteShow, DrawShow, TurnFails, TurnExpires
  <2> QED BY <1>1, <1>2, <2>1, <2>2, HistoryQuiet
<1>8. CASE UNCHANGED allVars
  <2>1. UNCHANGED <<stored, deleted, posted, step, run, at>>
    BY <1>8 DEF allVars, tabVars, vars, handlerVars
  <2> QED BY <1>1, <1>2, <2>1, HistoryStoreQuiet
<1> QED
  BY <1>3, <1>4, <1>5, <1>6, <1>7, <1>8 DEF TabNext

-----------------------------------------------------------------------------
(***************************************************************************)
(* The keys.                                                               *)
(***************************************************************************)
LEMMA KeyInit == TabInit => KeyInv
BY DEF TabInit, KeyInv, KeysStarted, FailureOver, KeyHandedOn, Started

\* A run that has not failed keeps text and key; at most it ends.
LEMMA KeyQuiet ==
  ASSUME KeyInv, lastFailed' = lastFailed,
         \A q \in Requests :
           /\ Started(q)' <=> Started(q)
           /\ Started(q) => run'[q].key = run[q].key /\ run'[q].text = run[q].text
           /\ step[q] = "done" => step'[q] = "done"
  PROVE  KeyInv'
<1>1. KeysStarted'
  BY DEF KeyInv, KeysStarted
<1>2. FailureOver' /\ KeyHandedOn'
  BY DEF KeyInv, FailureOver, KeyHandedOn
<1> QED BY <1>1, <1>2 DEF KeyInv

\* A run fails and hands its key on: no other run with this key is under way.
LEMMA KeyFailure ==
  ASSUME TabTypeOK, KeyInv, NEW r \in Requests, Started(r), step[r] # "done",
         run' = run, step' = [step EXCEPT ![r] = "done"],
         lastFailed' = lastFailed \/ lastFailed' = [text |-> run[r].text, key |-> run[r].key]
  PROVE  KeyInv'
<1>1. /\ step'[r] = "done" /\ \A q \in Requests \ {r} : step'[q] = step[q]
      /\ \A q \in Requests : Started(q)' <=> Started(q)
  BY DEF TabTypeOK, Started
<1>2. CASE lastFailed' = lastFailed
  BY <1>1, <1>2, KeyQuiet
<1>3. CASE lastFailed' = [text |-> run[r].text, key |-> run[r].key]
  <2>1. lastFailed'.text = run[r].text /\ lastFailed'.key = run[r].key
    BY <1>3
  <2>2. KeysStarted'
    BY <1>1, <2>1 DEF KeyInv, KeysStarted
  <2>3. FailureOver'
    BY <1>1, <2>1 DEF KeyInv, FailureOver, KeyHandedOn
  <2>4. KeyHandedOn'
    BY <1>1 DEF KeyInv, KeyHandedOn
  <2> QED BY <2>2, <2>3, <2>4 DEF KeyInv
<1> QED BY <1>2, <1>3

LEMMA KeyStep ==
  ASSUME TypeOK, TabTypeOK, KeyInv, [TabNext]_allVars
  PROVE  KeyInv'
<1> USE DEF composerVars, screenVars, runVars, storeVars
<1>1. DOMAIN step = Requests /\ DOMAIN run = Requests
  BY DEF TabTypeOK
<1>2. CASE \/ Type \/ Stop \/ UNCHANGED allVars
           \/ \E u \in Turns : Click(u) \/ TurnStep(u)
  <2>1. UNCHANGED <<lastFailed, run, step>>
    BY <1>2 DEF Type, Stop, Click, OpenClick, NewClick, DeleteClick, DrawClick, Begins, TurnStep,
                OpenRead, OpenShow, NewShow, DeleteRead, DeleteShow, DrawShow, DrawStored, Turned,
                TurnFails, TurnExpires, allVars, tabVars
  <2> QED BY <2>1, KeyQuiet DEF Started
<1>3. CASE \/ \E r \in Requests : Arrives(r) \/ Serve(r)
           \/ Elapse
  <2>1. UNCHANGED <<lastFailed, run, step>>
    BY <1>3, ServerStep DEF tabVars
  <2> QED BY <2>1, KeyQuiet DEF Started
<1>4. ASSUME NEW r \in Requests, Submit(r) \/ SubmitImage(r) PROVE KeyInv'
  <2>1. /\ ~Started(r) /\ Started(r)' /\ step'[r] # "done" /\ prompt # Nothing
        /\ \A q \in Requests \ {r} : step'[q] = step[q] /\ run'[q] = run[q]
        /\ \A q \in Requests \ {r} : Started(q)' <=> Started(q)
    <3>1. \E t \in {"describing", "creating", "saving"} : step' = [step EXCEPT ![r] = t]
      BY <1>4 DEF Submit, SubmitImage, Show, Leaves
    <3>2. \A q \in Requests \ {r} : run'[q] = run[q]
      BY <1>1, <1>4 DEF Submit, SubmitImage, Takes
    <3> QED BY <1>1, <1>4, <3>1, <3>2 DEF Submit, SubmitImage, CanSubmit, Started
  <2>2. /\ run'[r].text = prompt
        /\ \/ /\ IsRetry /\ Submit(r)
              /\ run'[r].key = lastFailed.key /\ lastFailed' = NoFailure
           \/ run'[r].key = r /\ lastFailed' = lastFailed
    BY <1>1, <1>4 DEF Submit, SubmitImage, Takes
  <2>4. KeysStarted /\ FailureOver /\ KeyHandedOn
    BY DEF KeyInv
  <2>5. CASE IsRetry /\ run'[r].key = lastFailed.key /\ lastFailed' = NoFailure
    <3>1. /\ run'[r].key = lastFailed.key /\ run'[r].text = lastFailed.text
          /\ lastFailed' = NoFailure /\ lastFailed # NoFailure
      BY <2>2, <2>5 DEF IsRetry
    <3>2. KeysStarted'
      BY <2>1, <2>4, <3>1 DEF KeysStarted
    <3>3. KeyHandedOn'
      BY <2>1, <2>4, <3>1 DEF FailureOver, KeyHandedOn
    <3> QED BY <3>1, <3>2, <3>3 DEF KeyInv, FailureOver, NoFailure
  <2>6. CASE run'[r].key = r /\ lastFailed' = lastFailed
    <3>1. run'[r].key = r /\ lastFailed' = lastFailed
      BY <2>6
    <3>2. KeysStarted'
      BY <2>1, <2>4, <3>1 DEF KeysStarted
    <3>3. \A q \in Requests : Started(q) => run[q].key # r
      BY <2>1, <2>4 DEF KeysStarted
    <3>4. FailureOver'
      BY <2>1, <2>4, <3>1 DEF KeysStarted, FailureOver
    <3>5. KeyHandedOn'
      BY <2>1, <2>4, <3>1, <3>3 DEF KeyHandedOn
    <3> QED BY <3>2, <3>4, <3>5 DEF KeyInv
  <2> QED BY <2>2, <2>5, <2>6
<1>5. ASSUME NEW r \in Requests, RunStep(r) PROVE KeyInv'
  <2>1. CASE Created(r)
    <3>1. PICK k \in Convs : run' = [run EXCEPT ![r].target = k]
      BY <2>1 DEF Created
    <3>2. \A q \in Requests : run'[q].key = run[q].key /\ run'[q].text = run[q].text
      BY <3>1 DEF TabTypeOK, Run
    <3>3. step[r] = "creating" /\ step' = [step EXCEPT ![r] = "saving"] /\ lastFailed' = lastFailed
      BY <2>1 DEF Created, Show
    <3> QED BY <1>1, <3>2, <3>3, KeyQuiet DEF Started
  <2>2. CASE SaveFails(r) \/ KeepFails(r) \/ Breaks(r) \/ Refused(r)
    <3>1. /\ step[r] \notin {"idle", "done"} /\ step' = [step EXCEPT ![r] = "done"] /\ run' = run
          /\ lastFailed' = lastFailed \/ lastFailed' = [text |-> run[r].text, key |-> run[r].key]
      BY <2>2 DEF SaveFails, KeepFails, Breaks, Refused, Caught, Finally
    <3> QED BY <3>1, KeyFailure DEF Started
  <2>3. CASE \/ Described(r) \/ CreateFails(r) \/ SaveQuestion(r) \/ Duplicate(r) \/ Expires(r)
             \/ StreamStarts(r) \/ Delta(r) \/ StreamEnds(r) \/ KeepAnswer(r) \/ Reloaded(r)
    <3>1. run' = run /\ lastFailed' = lastFailed
      BY <2>3 DEF Described, CreateFails, SaveQuestion, Duplicate, Expires, StreamStarts, Delta, StreamEnds,
                  KeepAnswer, Reloaded
    <3>2. /\ step[r] \notin {"idle", "done"}
          /\ \E t \in Steps \ {"idle"} : step' = [step EXCEPT ![r] = t]
      <4>1. step = [step EXCEPT ![r] = step[r]] /\ step[r] \in Steps
        BY DEF TabTypeOK
      <4> QED BY <2>3, <4>1 DEF Described, Show, CreateFails, SaveQuestion, Duplicate, Expires,
                  StreamStarts, Delta, StreamEnds, KeepAnswer, Reloaded, Goto2, Finally, Steps
    <3> QED BY <1>1, <3>1, <3>2, KeyQuiet DEF Started
  <2> QED BY <1>5, <2>1, <2>2, <2>3 DEF RunStep
<1> QED BY <1>2, <1>3, <1>4, <1>5 DEF TabNext

-----------------------------------------------------------------------------
(***************************************************************************)
(* The conversations.                                                      *)
(***************************************************************************)
LEMMA ContextInit == TabInit => ContextInv
<1> SUFFICES ASSUME TabInit PROVE ContextInv
  OBVIOUS
<1>1. \A k \in DOMAIN stored : ToSet(stored[k]) = {}
  BY DEF TabInit, ToSet
<1>2. ScreenBelongs /\ DetailsBelong
  BY DEF TabInit, ScreenBelongs, DetailsBelong, Resting, Belong
<1>3. StoredBelong
  BY <1>1 DEF StoredBelong, Belong
<1>4. \A r \in Requests : AskedBelong(r)
  BY DEF TabInit, AskedBelong, Started
<1> QED BY <1>2, <1>3, <1>4 DEF ContextInv

\* Messages that belong to a conversation go on doing so, as long as a run
\* that has shown them stays in its conversation.
Stays == \A q \in Requests : HasShown(q) => HasShown(q)' /\ run'[q].target = run[q].target

BelongsNext(messages, k) ==
  \A m \in messages : Home(m)' = k /\ (m.role # "picture" => HasShown(m.of)')

LEMMA BelongStays ==
  ASSUME Stays, NEW k, NEW messages \in SUBSET Messages, Belong(messages, k)
  PROVE  BelongsNext(messages, k)
<1> SUFFICES ASSUME NEW m \in messages
             PROVE  Home(m)' = k /\ (m.role # "picture" => HasShown(m.of)')
  BY DEF BelongsNext
<1>1. m \in Messages /\ Home(m) = k /\ (m.role # "picture" => HasShown(m.of))
  BY DEF Belong
<1>2. CASE m.role = "picture"
  BY <1>1, <1>2 DEF Home
<1>3. CASE m.role # "picture"
  BY <1>1, <1>3, MessageTypes DEF Home, Stays
<1> QED BY <1>2, <1>3

\* The messages of a run that has found its conversation.
LEMMA OwnBelong ==
  ASSUME NEW r \in Requests, HasShown(r)'
  PROVE  BelongsNext({Question(r), Answer(r)}, run'[r].target)
BY DEF BelongsNext, Home, Question, Answer

LEMMA PictureBelongs == \A k : BelongsNext({Picture(k)}, k)
BY DEF BelongsNext, Home, Picture

\* Of the four places for messages, those that a step leaves alone.
LEMMA ScreenStays ==
  ASSUME TabTypeOK, ScreenBelongs, Stays, shown' = {} \/ UNCHANGED <<conversationId, mixed>>,
         shown' \subseteq shown
  PROVE  ScreenBelongs'
<1>1. CASE shown' = {}
  BY <1>1 DEF ScreenBelongs, Belong
<1>2. CASE UNCHANGED <<conversationId, mixed>> /\ ~mixed
  <2>1. shown \in SUBSET Messages /\ Belong(shown, conversationId)
    BY <1>2 DEF ScreenBelongs, TabTypeOK
  <2>2. BelongsNext(shown, conversationId)
    BY <2>1, BelongStays
  <2> QED BY <1>2, <2>2 DEF ScreenBelongs, Belong, BelongsNext
<1>3. CASE UNCHANGED <<conversationId, mixed>> /\ mixed
  BY <1>3 DEF ScreenBelongs
<1> QED BY <1>1, <1>2, <1>3 DEF TabTypeOK

\* A message joins those on screen.
LEMMA ScreenGrows ==
  ASSUME TabTypeOK, ScreenBelongs, Stays, NEW new, shown' = shown \cup new,
         ~mixed' => /\ ~mixed /\ conversationId' # Nothing
                    /\ conversationId' = conversationId \/ shown = {}
                    /\ BelongsNext(new, conversationId')
  PROVE  ScreenBelongs'
<1> SUFFICES ASSUME ~mixed' PROVE Belong(shown, conversationId)' /\ conversationId' # Nothing
  BY DEF ScreenBelongs
<1>1. shown \in SUBSET Messages /\ Belong(shown, conversationId)
  BY DEF ScreenBelongs, TabTypeOK
<1>2. BelongsNext(shown, conversationId)
  BY <1>1, BelongStays
<1> QED BY <1>2 DEF Belong, BelongsNext

LEMMA AskedStays ==
  ASSUME TabTypeOK, Stays, NEW q \in Requests, AskedBelong(q), run'[q] = run[q],
         Started(q)' => Started(q), step'[q] = "creating" => run[q].target = Nothing
  PROVE  AskedBelong(q)'
<1>1. CASE Started(q) /\ ~run[q].blended
  <2>1. run[q].asked \in SUBSET Messages /\ Belong(run[q].asked, run[q].target)
    BY <1>1 DEF TabTypeOK, Run, AskedBelong
  <2>2. BelongsNext(run[q].asked, run[q].target)
    BY <2>1, BelongStays
  <2> QED BY <1>1, <2>2 DEF AskedBelong, Belong, BelongsNext
<1>2. CASE ~Started(q) \/ run[q].blended
  BY <1>2 DEF AskedBelong
<1> QED BY <1>1, <1>2

LEMMA DetailsStay ==
  ASSUME TabTypeOK, DetailsBelong, Stays,
         \A u \in Turns : turn'[u] = turn[u] \/ turn'[u].at # "read"
  PROVE  DetailsBelong'
<1> SUFFICES ASSUME NEW u \in Turns, turn'[u].at = "read", turn'[u] = turn[u]
             PROVE  (turn[u].conv # Nothing /\ Belong(turn[u].detail, turn[u].conv))'
  BY DEF DetailsBelong
<1>1. /\ turn[u].detail \in SUBSET Messages /\ turn[u].conv # Nothing
      /\ Belong(turn[u].detail, turn[u].conv)
  BY DEF TabTypeOK, Turn, DetailsBelong
<1>2. BelongsNext(turn[u].detail, turn[u].conv)
  BY <1>1, BelongStays
<1> QED BY <1>1, <1>2 DEF Belong, BelongsNext

LEMMA StoredMessages ==
  ASSUME TabTypeOK, NEW k \in DOMAIN stored PROVE ToSet(stored[k]) \in SUBSET Messages
BY ElementOfSeq, LenProperties DEF TabTypeOK, ToSet

LEMMA StoredStays ==
  ASSUME TabTypeOK, StoredBelong, Stays, NEW k \in DOMAIN stored
  PROVE  BelongsNext(ToSet(stored[k]), k)
BY StoredMessages, BelongStays DEF StoredBelong

\* The store is left alone, but for new and deleted conversations.
LEMMA StoreStays ==
  ASSUME TabTypeOK, StoredBelong, Stays,
         \A k \in DOMAIN stored' : \/ k \in DOMAIN stored /\ stored'[k] = stored[k]
                                  \/ stored'[k] = <<>>
  PROVE  StoredBelong'
<1> SUFFICES ASSUME NEW k \in DOMAIN stored' PROVE BelongsNext(ToSet(stored'[k]), k)
  BY DEF StoredBelong, Belong, BelongsNext
<1>1. CASE stored'[k] = <<>>
  BY <1>1 DEF BelongsNext, ToSet
<1>2. CASE k \in DOMAIN stored /\ stored'[k] = stored[k]
  BY <1>2, StoredStays
<1> QED BY <1>1, <1>2

LEMMA StoreGrows ==
  ASSUME TabTypeOK, StoredBelong, Stays, NEW k \in DOMAIN stored, NEW m \in Messages,
         Appended(k, m), BelongsNext({m}, k)
  PROVE  StoredBelong'
<1>1. /\ DOMAIN stored' = DOMAIN stored /\ stored'[k] = Append(stored[k], m)
      /\ \A j \in DOMAIN stored \ {k} : stored'[j] = stored[j]
  BY AppendedStore
<1>2. ToSet(stored'[k]) = ToSet(stored[k]) \cup {m}
  BY <1>1, AppendHolds DEF TabTypeOK
<1>3. \A j \in DOMAIN stored' : BelongsNext(ToSet(stored'[j]), j)
  BY <1>1, <1>2, StoredStays DEF BelongsNext
<1> QED BY <1>3 DEF StoredBelong, Belong, BelongsNext

LEMMA ContextStep ==
  ASSUME TypeOK, TabTypeOK, ContextInv, [TabNext]_allVars
  PROVE  ContextInv'
<1> USE DEF composerVars, screenVars, runVars, storeVars
<1>1. /\ DOMAIN step = Requests /\ DOMAIN run = Requests /\ DOMAIN turn = Turns
      /\ ScreenBelongs /\ DetailsBelong /\ StoredBelong
      /\ \A r \in Requests : AskedBelong(r)
  BY DEF TabTypeOK, ContextInv
<1>2. CASE Type \/ Stop \/ UNCHANGED tabVars
  <2>1. UNCHANGED <<conversationId, shown, mixed, run, step, turn, stored>>
    BY <1>2 DEF Type, Stop, tabVars
  <2>2. Stays
    BY <2>1 DEF Stays, HasShown
  <2>3. \A q \in Requests : AskedBelong(q)'
    BY <1>1, <2>1, <2>2, AskedStays DEF AskedBelong, Started
  <2> QED BY <1>1, <2>1, <2>2, <2>3, ScreenStays, DetailsStay, StoreStays DEF ContextInv
<1>3. ASSUME NEW r \in Requests, Submit(r) \/ SubmitImage(r) PROVE ContextInv'
  <2>1. /\ ~Started(r) /\ UNCHANGED <<conversationId, mixed, turn, stored>>
        /\ run'[r].target = conversationId /\ run'[r].asked = shown /\ run'[r].blended = mixed
        /\ \A q \in Requests \ {r} : run'[q] = run[q]
    BY <1>1, <1>3 DEF Submit, SubmitImage, CanSubmit, Takes, Leaves, Started
  <2>2. \/ /\ step' = [step EXCEPT ![r] = "creating"] /\ shown' = shown
           /\ conversationId = Nothing
        \/ step' = [step EXCEPT ![r] = "describing"] /\ shown' = shown
        \/ /\ step' = [step EXCEPT ![r] = "saving"] /\ conversationId # Nothing
           /\ shown' = shown \cup {Question(r), Answer(r)}
    BY <1>3 DEF Submit, SubmitImage, Leaves, Show
  <2>3. /\ step'[r] \in {"creating", "describing", "saving"}
        /\ step'[r] = "creating" => conversationId = Nothing
        /\ \A q \in Requests \ {r} : step'[q] = step[q]
    BY <1>1, <2>2
  <2>4. Stays
    BY <2>1, <2>3 DEF Stays, HasShown, Started
  <2>5. ScreenBelongs'
    <3>1. CASE shown' = shown
      BY <1>1, <2>1, <2>4, <3>1, ScreenStays
    <3>2. CASE /\ step' = [step EXCEPT ![r] = "saving"] /\ conversationId # Nothing
               /\ shown' = shown \cup {Question(r), Answer(r)}
      <4>1. HasShown(r)'
        BY <1>1, <3>2 DEF HasShown
      <4>2. BelongsNext({Question(r), Answer(r)}, conversationId')
        BY <2>1, <4>1, OwnBelong
      <4> QED BY <1>1, <2>1, <2>4, <3>2, <4>2, ScreenGrows
    <3> QED BY <2>2, <3>1, <3>2
  <2>6. AskedBelong(r)'
    <3>1. CASE ~mixed
      <4>1. shown \in SUBSET Messages /\ Belong(shown, conversationId)
            /\ (conversationId = Nothing => shown = {})
        BY <1>1, <3>1 DEF ScreenBelongs, TabTypeOK
      <4>2. BelongsNext(shown, conversationId)
        BY <2>4, <4>1, BelongStays
      <4> QED BY <2>1, <2>3, <4>1, <4>2 DEF AskedBelong, Belong, BelongsNext
    <3>2. CASE mixed
      BY <2>1, <2>3, <3>2 DEF AskedBelong
    <3> QED BY <3>1, <3>2 DEF TabTypeOK
  <2>7. \A q \in Requests \ {r} : AskedBelong(q)'
    BY <1>1, <2>1, <2>3, <2>4, AskedStays DEF AskedBelong, Started
  <2> QED BY <1>1, <2>1, <2>4, <2>5, <2>6, <2>7, DetailsStay, StoreStays DEF ContextInv
<1>4. ASSUME NEW r \in Requests, RunStep(r) PROVE ContextInv'
  <2>1. CASE Created(r)
    <3>1. PICK k \in Convs :
            AddConversation(k) /\ run' = [run EXCEPT ![r].target = k] /\ Show(r) /\ Ensured(k)
      BY <2>1 DEF Created
    <3>2. /\ step[r] = "creating" /\ step' = [step EXCEPT ![r] = "saving"] /\ turn' = turn
          /\ shown' = shown \cup {Question(r), Answer(r)}
          /\ conversationId' = k /\ mixed' = (mixed \/ shown # {})
      BY <2>1, <3>1 DEF Created, Show, Ensured
    <3>3. /\ run'[r].target = k /\ run'[r].asked = run[r].asked
          /\ run'[r].blended = run[r].blended
          /\ \A q \in Requests \ {r} : run'[q] = run[q]
      BY <1>1, <3>1 DEF TabTypeOK, Run
    <3>4. /\ HasShown(r)' /\ ~HasShown(r) /\ Started(r) /\ k # Nothing
          /\ \A q \in Requests \ {r} : step'[q] = step[q]
      BY <1>1, <3>2, ClientAssumption DEF HasShown, Started
    <3>5. Stays
      BY <3>3, <3>4 DEF Stays, HasShown
    <3>6. ScreenBelongs'
      <4>1. BelongsNext({Question(r), Answer(r)}, k)
        BY <3>3, <3>4, OwnBelong
      <4> QED BY <1>1, <3>2, <3>4, <3>5, <4>1, ScreenGrows
    <3>7. AskedBelong(r)'
      <4>1. ~run[r].blended => run[r].asked = {}
        BY <1>1, <3>2, <3>4 DEF AskedBelong
      <4> QED BY <1>1, <3>2, <3>3, <3>4, <4>1 DEF AskedBelong, Belong
    <3>8. \A q \in Requests \ {r} : AskedBelong(q)'
      BY <1>1, <3>3, <3>4, <3>5, AskedStays DEF AskedBelong, Started
    <3>9. StoredBelong'
      BY <1>1, <3>1, <3>5, AddsOne, StoreStays
    <3> QED BY <1>1, <3>2, <3>5, <3>6, <3>7, <3>8, <3>9, DetailsStay DEF ContextInv
  <2>2. CASE Described(r)
    <3>1. step[r] = "describing" /\ UNCHANGED <<run, turn, stored, conversationId>>
      BY <2>2 DEF Described
    <3>2. \/ /\ run[r].target = Nothing /\ step' = [step EXCEPT ![r] = "creating"]
             /\ UNCHANGED <<shown, mixed>>
          \/ /\ run[r].target # Nothing /\ step' = [step EXCEPT ![r] = "saving"]
             /\ shown' = shown \cup {Question(r), Answer(r)}
             /\ mixed' = (mixed \/ conversationId # run[r].target)
      BY <2>2 DEF Described, Show
    <3>3. /\ ~HasShown(r) /\ Started(r) /\ (step'[r] = "creating" => run[r].target = Nothing)
          /\ \A q \in Requests \ {r} : step'[q] = step[q]
      BY <1>1, <3>1, <3>2 DEF HasShown, Started
    <3>4. Stays
      BY <3>1, <3>3 DEF Stays, HasShown
    <3>5. ScreenBelongs'
      <4>1. CASE UNCHANGED <<shown, mixed>>
        BY <1>1, <3>1, <3>4, <4>1, ScreenStays
      <4>2. CASE /\ run[r].target # Nothing /\ step' = [step EXCEPT ![r] = "saving"]
                 /\ shown' = shown \cup {Question(r), Answer(r)}
                 /\ mixed' = (mixed \/ conversationId # run[r].target)
        <5>1. HasShown(r)'
          BY <1>1, <4>2 DEF HasShown
        <5>2. BelongsNext({Question(r), Answer(r)}, run[r].target)
          BY <3>1, <5>1, OwnBelong
        <5> QED BY <1>1, <3>1, <3>4, <4>2, <5>2, ScreenGrows
      <4> QED BY <3>2, <4>1, <4>2
    <3>6. \A q \in Requests : AskedBelong(q)'
      BY <1>1, <3>1, <3>3, <3>4, AskedStays DEF AskedBelong, Started
    <3> QED BY <1>1, <3>1, <3>4, <3>5, <3>6, DetailsStay, StoreStays DEF ContextInv
  <2>3. CASE \/ CreateFails(r) \/ SaveQuestion(r) \/ SaveFails(r) \/ Breaks(r) \/ Duplicate(r)
             \/ Refused(r) \/ Expires(r) \/ StreamStarts(r) \/ Delta(r) \/ StreamEnds(r)
             \/ KeepAnswer(r) \/ KeepFails(r) \/ Reloaded(r)
    <3>1. UNCHANGED <<run, turn>>
      BY <2>3 DEF CreateFails, SaveQuestion, SaveFails, Breaks, Duplicate, Refused,
              Expires, StreamStarts, Delta, StreamEnds, KeepAnswer, KeepFails, Reloaded, Caught
    <3>2. step[r] # "idle" /\ \E t \in Posting \cup {"done"} : step' = [step EXCEPT ![r] = t]
      <4>1. CASE Delta(r)
        <5>1. step = [step EXCEPT ![r] = step[r]] /\ step[r] \in Posting
          BY <4>1 DEF Delta, TabTypeOK, Posting
        <5> QED BY <4>1, <5>1 DEF Delta, Posting
      <4> QED BY <2>3, <4>1 DEF CreateFails, SaveQuestion, SaveFails, Breaks,
              Duplicate, Refused, Expires, StreamStarts, StreamEnds, KeepAnswer, KeepFails,
              Reloaded, Goto2, Caught, Finally, Posting
    <3>3. /\ HasShown(r)' /\ Started(r) /\ step'[r] # "creating"
          /\ \A q \in Requests \ {r} : step'[q] = step[q]
      BY <1>1, <3>2 DEF HasShown, Started, Posting
    <3>4. Stays
      BY <3>1, <3>3 DEF Stays, HasShown
    <3>5. shown' \subseteq shown /\ (shown' = {} \/ UNCHANGED <<conversationId, mixed>>)
      BY <2>3 DEF CreateFails, SaveQuestion, SaveFails, Breaks, Duplicate, Refused,
              Expires, StreamStarts, Delta, StreamEnds, KeepAnswer, KeepFails, Reloaded, Caught,
              SessionOver, Finally
    <3>6. \A q \in Requests : AskedBelong(q)'
      BY <1>1, <3>1, <3>3, <3>4, AskedStays DEF AskedBelong, Started
    <3>7. StoredBelong'
      <4>1. CASE stored' = stored
        BY <1>1, <3>4, <4>1, StoreStays
      <4>2. CASE Keep(r, Question(r)) \/ Keep(r, Answer(r))
        <5>1. PICK m \in {Question(r), Answer(r)} : Appended(run[r].target, m)
          BY <4>2 DEF Keep, Appended
        <5>2. BelongsNext({m}, run[r].target)
          BY <3>1, <3>3, OwnBelong DEF BelongsNext
        <5>3. m \in Messages /\ run[r].target \in DOMAIN stored
          BY <4>2, MessageTypes DEF Keep
        <5> QED BY <1>1, <3>4, <5>1, <5>2, <5>3, StoreGrows
      <4> QED BY <2>3, <4>1, <4>2 DEF CreateFails, SaveQuestion, SaveFails, Breaks, Duplicate,
              Refused, Expires, StreamStarts, Delta, StreamEnds, KeepAnswer, KeepFails, Reloaded
    <3> QED BY <1>1, <3>1, <3>4, <3>5, <3>6, <3>7, ScreenStays, DetailsStay DEF ContextInv
  <2> QED BY <1>4, <2>1, <2>2, <2>3 DEF RunStep
<1>5. ASSUME NEW u \in Turns, Click(u) \/ TurnStep(u) PROVE ContextInv'
  <2>1. UNCHANGED <<run, step>>
    BY <1>5 DEF Click, OpenClick, NewClick, DeleteClick, DrawClick, Begins, TurnStep, OpenRead,
                OpenShow, NewShow, DeleteRead, DeleteShow, DrawShow, DrawStored, Turned,
                TurnFails, TurnExpires
  <2>2. Stays /\ \A q \in Requests : AskedBelong(q)'
    <3>1. Stays
      BY <2>1 DEF Stays, HasShown
    <3> QED BY <1>1, <2>1, <3>1, AskedStays DEF AskedBelong, Started
  <2>3. CASE \/ Click(u) \/ DeleteRead(u) \/ DeleteShow(u) \/ TurnFails(u) \/ TurnExpires(u)
    <3>1. shown' \subseteq shown /\ (shown' = {} \/ UNCHANGED <<conversationId, mixed>>)
      BY <2>3 DEF Click, OpenClick, NewClick, DeleteClick, DrawClick, Begins, DeleteRead,
                  DeleteShow, Turned, TurnFails, TurnExpires, SessionOver
    <3>2. \A v \in Turns : turn'[v] = turn[v] \/ turn'[v].at # "read"
      <4>1. turn[u] \in Turn
        BY DEF TabTypeOK
      <4>2. turn'[u].at # "read" /\ \A v \in Turns \ {u} : turn'[v] = turn[v]
        <5>1. CASE OpenClick(u)
          BY <1>1, <5>1 DEF OpenClick, Begins, Resting
        <5>2. CASE NewClick(u)
          BY <1>1, <5>2 DEF NewClick, Begins, Resting
        <5>3. CASE DeleteClick(u)
          BY <1>1, <5>3 DEF DeleteClick, Begins, Resting
        <5>4. CASE DrawClick(u)
          BY <1>1, <5>4 DEF DrawClick, Begins, Resting
        <5>5. CASE DeleteRead(u)
          BY <1>1, <4>1, <5>5 DEF DeleteRead, Turn
        <5>6. CASE DeleteShow(u) \/ TurnFails(u) \/ TurnExpires(u)
          BY <1>1, <5>6 DEF DeleteShow, Turned, TurnFails, TurnExpires, Resting
        <5> QED BY <2>3, <5>1, <5>2, <5>3, <5>4, <5>5, <5>6 DEF Click
      <4> QED BY <1>1, <4>2
    <3>3. \A k \in DOMAIN stored' : k \in DOMAIN stored /\ stored'[k] = stored[k]
      <4>1. CASE DeleteRead(u)
        BY <4>1, DeletesOne
      <4> QED BY <2>3, <4>1 DEF Click, OpenClick, NewClick, DeleteClick, DrawClick, Begins,
                  DeleteShow, TurnFails, TurnExpires
    <3> QED BY <1>1, <2>2, <3>1, <3>2, <3>3, ScreenStays, DetailsStay, StoreStays DEF ContextInv
  <2>4. CASE OpenRead(u)
    <3> DEFINE k == turn[u].conv
    <3>1. /\ k \in DOMAIN stored /\ UNCHANGED <<conversationId, shown, mixed, stored>>
          /\ turn'[u].conv = k /\ turn'[u].detail = ToSet(stored[k])
          /\ \A v \in Turns \ {u} : turn'[v] = turn[v]
      BY <2>4 DEF OpenRead, TabTypeOK, Turn
    <3>2. BelongsNext(ToSet(stored[k]), k)
      BY <1>1, <2>2, <3>1, StoredStays
    <3>3. (turn[u].conv # Nothing /\ Belong(turn[u].detail, turn[u].conv))'
      BY <3>1, <3>2, ClientAssumption DEF Belong, BelongsNext, TabTypeOK
    <3>4. ASSUME NEW v \in Turns, v # u, turn'[v].at = "read"
          PROVE  (turn[v].conv # Nothing /\ Belong(turn[v].detail, turn[v].conv))'
      <4>1. turn'[v] = turn[v]
        BY <3>1, <3>4
      <4>2. /\ turn[v].detail \in SUBSET Messages /\ turn[v].conv # Nothing
            /\ Belong(turn[v].detail, turn[v].conv)
        BY <1>1, <3>4, <4>1 DEF TabTypeOK, Turn, DetailsBelong
      <4>3. BelongsNext(turn[v].detail, turn[v].conv)
        BY <2>2, <4>2, BelongStays
      <4> QED BY <4>1, <4>2, <4>3 DEF Belong, BelongsNext
    <3>5. DetailsBelong'
      BY <3>3, <3>4 DEF DetailsBelong
    <3> QED BY <1>1, <2>2, <3>1, <3>5, ScreenStays, StoreStays DEF ContextInv
  <2>5. CASE OpenShow(u)
    <3>1. /\ turn[u].at = "read" /\ conversationId' = turn[u].conv /\ shown' = turn[u].detail
          /\ stored' = stored /\ turn' = [turn EXCEPT ![u] = Resting("done")]
      BY <2>5 DEF OpenShow, Turned
    <3>2. turn[u].detail \in SUBSET Messages /\ Belong(turn[u].detail, turn[u].conv)
      BY <1>1, <3>1 DEF TabTypeOK, Turn, DetailsBelong
    <3>3. BelongsNext(turn[u].detail, turn[u].conv)
      BY <2>2, <3>2, BelongStays
    <3>4. turn[u].conv # Nothing
      BY <1>1, <3>1 DEF DetailsBelong
    <3>5. ScreenBelongs'
      BY <3>1, <3>3, <3>4 DEF ScreenBelongs, Belong, BelongsNext
    <3>6. \A v \in Turns : turn'[v] = turn[v] \/ turn'[v].at # "read"
      BY <1>1, <3>1 DEF Resting
    <3> QED BY <1>1, <2>2, <3>1, <3>5, <3>6, DetailsStay, StoreStays DEF ContextInv
  <2>6. CASE NewShow(u)
    <3>1. PICK k \in Convs :
            /\ AddConversation(k) /\ conversationId' = k
            /\ turn' = [turn EXCEPT ![u] = Resting("done")]
            /\ \/ shown' = {} /\ mixed' = FALSE
               \/ shown' = shown /\ mixed' = (mixed \/ shown # {})
      BY <2>6 DEF NewShow, Turned, Ensured
    <3>2. ScreenBelongs'
      <4>1. CASE shown' = {}
        BY <4>1 DEF ScreenBelongs, Belong
      <4>2. CASE shown' = shown /\ mixed' = (mixed \/ shown # {}) /\ shown # {}
        BY <4>2 DEF ScreenBelongs
      <4> QED BY <3>1, <4>1, <4>2
    <3>3. \A v \in Turns : turn'[v] = turn[v] \/ turn'[v].at # "read"
      BY <1>1, <3>1 DEF Resting
    <3>4. StoredBelong'
      BY <1>1, <2>2, <3>1, AddsOne, StoreStays
    <3> QED BY <1>1, <2>2, <3>2, <3>3, <3>4, DetailsStay DEF ContextInv
  <2>7. CASE DrawShow(u)
    <3> DEFINE k == turn[u].seen
    <3>1. /\ shown' = shown \cup {Picture(k)} /\ UNCHANGED <<conversationId, stored>>
          /\ mixed' = (mixed \/ conversationId = Nothing \/ conversationId # k)
          /\ \A v \in Turns : turn'[v] = turn[v] \/ turn'[v].at # "read"
      BY <1>1, <2>7 DEF DrawShow, Resting, TabTypeOK, Turn
    <3>2. BelongsNext({Picture(k)}, k)
      BY PictureBelongs
    <3>3. ScreenBelongs'
      BY <1>1, <2>2, <3>1, <3>2, ScreenGrows
    <3> QED BY <1>1, <2>2, <3>1, <3>3, DetailsStay, StoreStays DEF ContextInv
  <2>8. CASE DrawStored(u)
    <3> DEFINE k == turn[u].seen
    <3>1. /\ k \in DOMAIN stored /\ Appended(k, Picture(k))
          /\ UNCHANGED <<shown, conversationId, mixed>>
          /\ turn' = [turn EXCEPT ![u] = Resting("done")]
      BY <2>8 DEF DrawStored, Appended
    <3>2. BelongsNext({Picture(k)}, k) /\ Picture(k) \in Messages
      BY <3>1, PictureBelongs, MessageTypes DEF TabTypeOK
    <3>3. StoredBelong'
      BY <1>1, <2>2, <3>1, <3>2, StoreGrows
    <3>4. \A v \in Turns : turn'[v] = turn[v] \/ turn'[v].at # "read"
      BY <1>1, <3>1 DEF Resting
    <3> QED BY <1>1, <2>2, <3>1, <3>3, <3>4, ScreenStays, DetailsStay DEF ContextInv
  <2> QED BY <1>5, <2>3, <2>4, <2>5, <2>6, <2>7, <2>8 DEF TurnStep
<1>6. CASE \/ \E r \in Requests : Arrives(r) \/ Serve(r)
           \/ Elapse
  BY <1>2, <1>6, ServerStep
<1> QED
  BY <1>2, <1>3, <1>4, <1>5, <1>6 DEF TabNext, allVars

-----------------------------------------------------------------------------
(***************************************************************************)
(* The tab as a client of the server: whatever it does, the handler, the   *)
(* registry and the gateway take steps of ChatCompletion only.             *)
(***************************************************************************)
THEOREM TabRefinesServer == TabSpec => Init /\ [][Next]_vars
<1>1. TabInit => Init
  BY DEF TabInit
<1>2. [TabNext]_allVars => [Next]_vars
  BY TabStepServes DEF allVars
<1> QED BY <1>1, <1>2, PTL DEF TabSpec

\* What is the same for all the runs of the tab.
TabInv == ChatInv /\ TabTypeOK /\ HistoryInv /\ KeyInv

LEMMA TabInvariant == TabSpec => []TabInv
<1>1. TabInit => TabInv
  BY ChatInvInit, TabTypeInit, HistoryInit, KeyInit DEF TabInv, TabInit
<1>2. TabInv /\ [TabNext]_allVars => TabInv'
  <2> SUFFICES ASSUME TabInv, [TabNext]_allVars PROVE TabInv'
    OBVIOUS
  <2>1. TypeOK
    BY DEF TabInv, ChatInv
  <2>2. [Next]_vars
    BY TabStepServes DEF allVars
  <2> QED BY <2>1, <2>2, ChatInvStep, TabTypeStep, HistoryStep, KeyStep DEF TabInv
<1> QED BY <1>1, <1>2, PTL DEF TabSpec

(***************************************************************************)
(* Every variable of the tab has its type.                                 *)
(***************************************************************************)
THEOREM TabTypeCorrect == TabSpec => []TabTypeOK
<1>1. TabInv => TabTypeOK
  BY DEF TabInv
<1> QED BY TabInvariant, <1>1, PTL

(***************************************************************************)
(* A client request id goes from a run to a retry of its text, and to no   *)
(* other run: submit and the catch block of use-conversation-state.ts, for *)
(* any number of runs, with the stop button and turns in between.          *)
(***************************************************************************)
THEOREM TabKeyHandedOn == TabSpec => []KeyHandedOn
<1>1. TabInv => KeyHandedOn
  BY DEF TabInv, KeyInv
<1> QED BY TabInvariant, <1>1, PTL

(***************************************************************************)
(* The question of every completion that was charged is stored in the      *)
(* conversation it was asked in, and every stored answer behind its        *)
(* question, whatever else runs, fails, or restarts meanwhile.             *)
(***************************************************************************)
THEOREM TabChargedQuestionsStored == TabSpec => []ChargedQuestionsStored
<1>1. TabInv => ChargedQuestionsStored
  <2> SUFFICES ASSUME TabInv PROVE ChargedQuestionsStored
    OBVIOUS
  <2>1. ASSUME NEW r \in Requests, gateway[r] = "charged", run[r].target \notin deleted
        PROVE  Question(r) \in ToSet(stored[run[r].target])
    <3>1. at[r] # "new"
      BY <2>1 DEF TabInv, ChatInv, Bookkeeping
    <3> QED BY <2>1, <3>1 DEF TabInv, HistoryInv, QuestionsKept, Kept
  <2>2. \A k \in DOMAIN stored : AnswersBehind(stored[k])
    BY DEF TabInv, HistoryInv
  <2> QED BY <2>1, <2>2 DEF ChargedQuestionsStored, AnswersBehind
<1> QED BY TabInvariant, <1>1, PTL

(***************************************************************************)
(* With the tab in front of it, one key still enters the gateway once per  *)
(* TTL.                                                                    *)
(***************************************************************************)
THEOREM TabOneEntryPerTTL == TabSpec => []OneEntryPerTTL
<1>1. Init /\ [][Next]_vars => []ChatInv
  BY ChatInvInit, ChatInvStep, PTL
<1>2. ChatInv => OneEntryPerTTL
  BY ChatInvEntersOnce
<1> QED BY TabRefinesServer, <1>1, <1>2, PTL

(***************************************************************************)
(* What is sent along with a question belongs to the conversation it is    *)
(* asked in, unless ensureConversation, a picture or an image description  *)
(* that came late had mixed the messages on screen: for any number of      *)
(* runs, opened, made and deleted conversations of a tab that begins, as   *)
(* every tab does, with no conversation on screen.                         *)
(***************************************************************************)
THEOREM TabOneConversation == TabSpec => []OneConversationInContext
<1>1. TabInit => ContextInv
  BY ContextInit
<1>2. TabInv /\ ContextInv /\ [TabNext]_allVars => ContextInv'
  BY ContextStep DEF TabInv, ChatInv
<1>3. TabInv /\ ContextInv => OneConversationInContext
  <2> SUFFICES ASSUME TabInv, ContextInv, NEW r \in posted, ~run[r].blended,
                      NEW m \in run[r].asked
               PROVE  Home(m) = run[r].target
    BY DEF OneConversationInContext
  <2>1. r \in Requests /\ Started(r)
    BY DEF TabInv, TabTypeOK, HistoryInv, QuestionsKept, Posting, Started
  <2> QED BY <2>1 DEF ContextInv, AskedBelong, Belong
<1> QED BY TabInvariant, <1>1, <1>2, <1>3, PTL DEF TabSpec
=============================================================================

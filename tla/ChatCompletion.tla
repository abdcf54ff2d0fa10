--------------------------- MODULE ChatCompletion ---------------------------
(***************************************************************************)
(* POST /api/chat/completions: handleChatCompletion in lib/chat-handler.ts *)
(* with the workflows it runs (workflows/*-v1.ts), the forwarding in       *)
(* lib/chat.ts and the registry of RequestDedupe, next to the gateway that *)
(* charges for every completion it accepts.                                *)
(*                                                                         *)
(* A request is one HTTP request to the BFF; a client that retries makes   *)
(* another request with the same key.  One action per stretch between two  *)
(* awaits.  Of the time spent, only what the registry can see is kept: a   *)
(* handler is over at most FlightBound after its begin.                    *)
(***************************************************************************)
EXTENDS RequestDedupe

CONSTANTS
  Requests,
  NoKey,        \* the header is missing or blank
  Headers,      \* the keys that requests come with, NoKey among them or not
  StoredRoutes, \* what the stored conversations ask for
  FlightBound,  \* from begin to finish: the timeouts of lib/chat.ts and below
  MaxTime       \* bound on now, for model checking

Workflows == {"chat", "roleplay", "schedule", "speaker"}

\* "noSpeaker": speakerId names nobody of the cast.  "none": a roleplay without
\* persona, a group without cast, or one asked for neither schedule nor speaker.
Routes == Workflows \cup {"noSpeaker", "none"}

ASSUME ChatAssumption ==
  /\ NoKey \notin Keys
  /\ Headers \subseteq Keys \cup {NoKey}
  /\ StoredRoutes \subseteq Routes
  /\ FlightBound \in Nat /\ FlightBound < TTL
  /\ MaxTime \in Nat

VARIABLES
  at,         \* at[r]: where the handler of r stands
  key,        \* key[r]: dedupeKey
  route,      \* route[r]: which workflow the stored conversation asks for
  result,     \* result[r]: how the handler ended
  embedding,  \* embedding[r]: what became of the embedding call
  gateway,    \* gateway[r]: the completion, as the gateway sees it
  reply,      \* reply[r]: the gateway's response
  begunAt,    \* history: begunAt[r], when r claimed its key
  endedAt,    \* history: endedAt[r], when its handler finished
  current     \* history: the requests admitted by the process now running

handlerVars == <<at, key, route, result, embedding>>
gatewayVars == <<gateway, reply>>
historyVars == <<begunAt, endedAt, current>>
vars == <<dedupeVars, handlerVars, gatewayVars, historyVars>>

InFlightAt == {"admitted", "routed", "context", "ready", "waiting"}

Results == {"none", "invalid", "duplicate", "noSpeaker", "noRoute",
            "billed", "revoked", "gatewayError", "unknown"}

InFlight(r) == at[r] \in InFlightAt

Init ==
  /\ DedupeInit
  /\ at = [r \in Requests |-> "new"]
  /\ key = [r \in Requests |-> NoKey]
  /\ route = [r \in Requests |-> "none"]
  /\ result = [r \in Requests |-> "none"]
  /\ embedding = [r \in Requests |-> "none"]
  /\ gateway = [r \in Requests |-> "idle"]
  /\ reply = [r \in Requests |-> "none"]
  /\ begunAt = [r \in Requests |-> 0]
  /\ endedAt = [r \in Requests |-> 0]
  /\ current = {}

-----------------------------------------------------------------------------
(***************************************************************************)
(* Arrival.                                                                *)
(***************************************************************************)
\* Wrong origin, no session, body too large or malformed: 403, 401, 413, 400.
TurnAway(r) ==
  /\ at[r] = "new"
  /\ at' = [at EXCEPT ![r] = "done"]
  /\ result' = [result EXCEPT ![r] = "invalid"]
  /\ UNCHANGED <<dedupeVars, key, route, embedding, gatewayVars, historyVars>>

\* The key is held or was used within the TTL: 409.
RefuseDuplicate(r) ==
  /\ at[r] = "new"
  /\ \E k \in Headers \ {NoKey} :
       /\ Taken(k)
       /\ entries' = Pruned
       /\ key' = [key EXCEPT ![r] = k]
  /\ at' = [at EXCEPT ![r] = "done"]
  /\ result' = [result EXCEPT ![r] = "duplicate"]
  /\ UNCHANGED <<now, route, embedding, gatewayVars, historyVars>>

Admit(r) ==
  /\ at[r] = "new"
  /\ \E k \in Headers :
       /\ IF k = NoKey THEN entries' = entries ELSE Claim(k)
       /\ key' = [key EXCEPT ![r] = k]
  /\ at' = [at EXCEPT ![r] = "admitted"]
  /\ begunAt' = [begunAt EXCEPT ![r] = now]
  /\ current' = current \cup {r}
  /\ UNCHANGED <<now, route, result, embedding, gatewayVars, endedAt>>

-----------------------------------------------------------------------------
(***************************************************************************)
(* The handler, from one await to the next.                                *)
(***************************************************************************)
Goto(r, from, to) ==
  /\ at[r] = from
  /\ at' = [at EXCEPT ![r] = to]
  /\ UNCHANGED <<dedupeVars, key, result, gatewayVars, historyVars>>

\* Answer the client, and finish the key if there is one.
Conclude(r, res, outcome) ==
  /\ at' = [at EXCEPT ![r] = "done"]
  /\ result' = [result EXCEPT ![r] = res]
  /\ IF key[r] = NoKey THEN entries' = entries ELSE Release(key[r], outcome)
  /\ endedAt' = [endedAt EXCEPT ![r] = now]
  /\ UNCHANGED <<now, key, route, embedding, gatewayVars, begunAt, current>>

\* getDetail settles; a conversation that cannot be read counts as "chat".
ReadConversation(r) ==
  /\ Goto(r, "admitted", "routed")
  /\ \E p \in StoredRoutes : route' = [route EXCEPT ![r] = p]
  /\ UNCHANGED embedding

\* 400 "发言人不存在。": the one way out that does not finish the key.
AnswerNoSpeaker(r) ==
  /\ at[r] = "routed" /\ route[r] = "noSpeaker"
  /\ at' = [at EXCEPT ![r] = "done"]
  /\ result' = [result EXCEPT ![r] = "noSpeaker"]
  /\ endedAt' = [endedAt EXCEPT ![r] = now]
  /\ UNCHANGED <<dedupeVars, key, route, embedding, gatewayVars, begunAt, current>>

AnswerNoRoute(r) ==
  /\ at[r] = "routed" /\ route[r] = "none"
  /\ Conclude(r, "noRoute", "failed")

\* The first event is rejected (an id that workflow events do not accept).
RunRejected(r) ==
  /\ at[r] = "routed" /\ route[r] \in Workflows
  /\ Conclude(r, "unknown", "unknown")

StartRun(r) ==
  /\ route[r] \in Workflows
  /\ Goto(r, "routed", IF route[r] \in {"roleplay", "speaker"} THEN "context" ELSE "ready")
  /\ UNCHANGED <<route, embedding>>

\* Without a query or an embedding model there is no embedding call; an error
\* of the call, whatever it says, only degrades the context.
BuildContext(r) ==
  /\ Goto(r, "context", "ready")
  /\ \E e \in {"none", "ok", "unauthorized", "error"} :
       embedding' = [embedding EXCEPT ![r] = e]
  /\ UNCHANGED route

Send(r) ==
  /\ at[r] = "ready"
  /\ at' = [at EXCEPT ![r] = "waiting"]
  /\ gateway' = [gateway EXCEPT ![r] = "sent"]
  /\ UNCHANGED <<dedupeVars, key, route, result, embedding, reply, historyVars>>

\* Mutant of Interrupted: no timeout ends the wait for the gateway.
InterruptedEarlyOnly(r) ==
  /\ at[r] = "ready"
  /\ Conclude(r, "unknown", "unknown")

\* The client goes away or a timeout fires, before or after the request has
\* left; nobody takes notice of the reply any more.
Interrupted(r) ==
  /\ at[r] \in {"ready", "waiting"}
  /\ Conclude(r, "unknown", "unknown")

\* Whether the workflow takes the reply for a completion: the streaming ones
\* want an event stream, the scheduler reads JSON and wants status 200.
Completes(r) ==
  \/ reply[r] = "stream" /\ route[r] # "schedule"
  \/ reply[r] \in {"json", "stream"} /\ route[r] = "schedule"

Succeed(r) ==
  /\ at[r] = "waiting" /\ Completes(r)
  /\ Conclude(r, "billed", "billed")

\* x-request-id is not an id that workflow events accept: the last event of a
\* streaming workflow is rejected after the reply has come.
ReplyUnrecorded(r) ==
  /\ at[r] = "waiting" /\ Completes(r) /\ route[r] # "schedule"
  /\ Conclude(r, "unknown", "unknown")

Revoke(r) ==
  /\ at[r] = "waiting" /\ reply[r] = "unauthorized"
  /\ Conclude(r, "revoked", "failed")

\* Any other status, and a success that is not an event stream (taken for 502).
Fail(r) ==
  /\ at[r] = "waiting"
  /\ reply[r] = "error" \/ (reply[r] = "json" /\ ~Completes(r))
  /\ Conclude(r, "gatewayError", "failed")

-----------------------------------------------------------------------------
(***************************************************************************)
(* The gateway, which is not part of this repository: it charges for what  *)
(* it accepts, with the answers the code prepares for, and it may do so    *)
(* after the BFF has given up waiting.                                     *)
(***************************************************************************)
GatewayAnswers(r, verdict, answer) ==
  /\ gateway[r] = "sent"
  /\ gateway' = [gateway EXCEPT ![r] = verdict]
  /\ reply' = [reply EXCEPT ![r] = answer]
  /\ UNCHANGED <<dedupeVars, handlerVars, historyVars>>

Charge(r) == \E a \in {"stream", "json"} : GatewayAnswers(r, "charged", a)

TurnDown(r) == \E a \in {"unauthorized", "error"} : GatewayAnswers(r, "refused", a)

-----------------------------------------------------------------------------
\* No handler outlives its timeouts.
Tick ==
  /\ now < MaxTime
  /\ \A r \in Requests : InFlight(r) => now < begunAt[r] + FlightBound
  /\ now' = now + 1
  /\ UNCHANGED <<entries, handlerVars, gatewayVars, historyVars>>

\* The process dies and starts again; the registry is module state.
Restart ==
  /\ at' = [r \in Requests |-> IF InFlight(r) THEN "lost" ELSE at[r]]
  /\ entries' = [k \in Keys |-> Absent]
  /\ current' = {}
  /\ UNCHANGED <<now, key, route, result, embedding, gatewayVars, begunAt, endedAt>>

Arrival(r) == TurnAway(r) \/ RefuseDuplicate(r) \/ Admit(r)

Handle(r) ==
  \/ ReadConversation(r) \/ AnswerNoSpeaker(r) \/ AnswerNoRoute(r)
  \/ RunRejected(r) \/ StartRun(r) \/ BuildContext(r) \/ Send(r)
  \/ Interrupted(r) \/ Succeed(r) \/ ReplyUnrecorded(r) \/ Revoke(r) \/ Fail(r)

Next ==
  \/ \E r \in Requests : Arrival(r) \/ Handle(r) \/ Charge(r) \/ TurnDown(r)
  \/ Tick
  \/ Restart

\* Files are read, embedding calls time out after 10 s and completions after
\* 120 s (30 s for the scheduler): every await of a handler settles.
Fairness == \A r \in Requests : WF_vars(Handle(r))

Spec == Init /\ [][Next]_vars /\ Fairness

-----------------------------------------------------------------------------
\* Every variable has its type.
TypeOK ==
  /\ now \in Nat
  /\ entries \in [Keys -> Entry]
  /\ at \in [Requests -> InFlightAt \cup {"new", "done", "lost"}]
  /\ key \in [Requests -> Keys \cup {NoKey}]
  /\ route \in [Requests -> Routes]
  /\ result \in [Requests -> Results]
  /\ embedding \in [Requests -> {"none", "ok", "unauthorized", "error"}]
  /\ gateway \in [Requests -> {"idle", "sent", "charged", "refused"}]
  /\ reply \in [Requests -> {"none", "stream", "json", "unauthorized", "error"}]
  /\ begunAt \in [Requests -> Nat]
  /\ endedAt \in [Requests -> Nat]
  /\ current \subseteq Requests

(***************************************************************************)
(* A request under way owns the entry of its key: it is pending and stamped*)
(* with the request's own begin, it was not pruned, and no other request   *)
(* with this key is under way.  So the finish of a late handler never      *)
(* marks the entry of another one.                                         *)
(***************************************************************************)
InFlightHoldsKey ==
  \A r \in Requests : InFlight(r) /\ key[r] # NoKey =>
    /\ entries[key[r]] = [status |-> "pending", updatedAt |-> begunAt[r]]
    /\ ~Expired(entries[key[r]])
    /\ \A q \in Requests : InFlight(q) /\ key[q] = key[r] => q = r

\* Two requests with one key, admitted by the running process.
SameKey(q, r) ==
  q # r /\ {q, r} \subseteq current /\ key[q] = key[r] /\ key[r] # NoKey

\* The gateway has got the completion request.
Entered(r) == gateway[r] # "idle"

\* The workflow ended in a ChatV1Error, which stands for "not charged".
SeenToFail(r) == result[r] \in {"revoked", "gatewayError"}

(***************************************************************************)
(* One key enters the gateway once per TTL: of two requests with the same  *)
(* key that both entered, one had been seen to fail before, or was over    *)
(* for longer than the TTL when the other began.                           *)
(***************************************************************************)
OneEntryPerTTL ==
  \A q, r \in Requests :
    SameKey(q, r) /\ Entered(q) /\ Entered(r) =>
      \/ SeenToFail(q) \/ SeenToFail(r)
      \/ at[q] = "done" /\ endedAt[q] + TTL < begunAt[r]
      \/ at[r] = "done" /\ endedAt[r] + TTL < begunAt[q]

(***************************************************************************)
(* A request that is admitted is answered, unless the process dies.        *)
(***************************************************************************)
EveryRequestAnswered ==
  \A r \in Requests : at[r] = "admitted" ~> at[r] \in {"done", "lost"}

-----------------------------------------------------------------------------
(***************************************************************************)
(* What the repository says of the registry and of the workflows, and the  *)
(* code does not keep.                                                     *)
(***************************************************************************)
\* "pending" means that the request entered the gateway: a key whose handler
\* is over is not pending unless that handler sent something.
PendingMeansEntered ==
  \A r \in current :
    /\ at[r] = "done" /\ key[r] # NoKey
    /\ entries[key[r]] = [status |-> "pending", updatedAt |-> endedAt[r]]
    => Entered(r)

\* "failed" means not charged, so that a retry with the same key within the
\* TTL does not pay twice.
NoDoubleCharge ==
  \A q, r \in Requests :
    SameKey(q, r) /\ gateway[q] = "charged" /\ gateway[r] = "charged" =>
      \/ begunAt[q] + TTL < begunAt[r]
      \/ begunAt[r] + TTL < begunAt[q]

\* A 401 or 403 of the gateway ends the use of its capabilities at once: no
\* completion is asked for after an embedding call has been refused that way.
UnauthorizedStopsCalls ==
  \A r \in Requests : embedding[r] = "unauthorized" => ~Entered(r)

-----------------------------------------------------------------------------
(***************************************************************************)
(* The inductive invariant.  A request that ended billed or unknown keeps  *)
(* its key as long as the TTL lasts, so of two requests that use a key     *)
(* without being seen to fail, one begins after the TTL of the other.      *)
(***************************************************************************)
Bookkeeping ==
  \A r \in Requests :
    /\ at[r] = "new" => result[r] = "none"
    /\ InFlight(r) =>
         /\ r \in current /\ result[r] = "none"
         /\ begunAt[r] <= now /\ now <= begunAt[r] + FlightBound
    /\ r \in current /\ ~InFlight(r) =>
         /\ at[r] = "done"
         /\ result[r] \in Results \ {"none", "invalid", "duplicate"}
    /\ \/ at[r] \in {"new", "admitted", "routed", "context", "ready"}
       \/ result[r] \in {"noRoute", "noSpeaker"}
       => gateway[r] = "idle"

\* The handler is over, and for all it knows the gateway may have charged.
Settled(r) == r \in current /\ result[r] \in {"billed", "unknown"}

SettledHoldsKey ==
  \A r \in Requests : Settled(r) /\ key[r] # NoKey =>
    \/ endedAt[r] + TTL < now
    \/ /\ entries[key[r]].status \in {"pending", "billed"}
       /\ entries[key[r]].updatedAt = endedAt[r]
       /\ \A q \in Requests : InFlight(q) => key[q] # key[r]

UsesApart ==
  \A q, r \in Requests :
    /\ SameKey(q, r)
    /\ InFlight(q) \/ Settled(q)
    /\ InFlight(r) \/ Settled(r)
    => \/ at[q] = "done" /\ endedAt[q] + TTL < begunAt[r]
       \/ at[r] = "done" /\ endedAt[r] + TTL < begunAt[q]

ChatInv ==
  /\ TypeOK /\ Bookkeeping
  /\ InFlightHoldsKey /\ SettledHoldsKey /\ UsesApart
=============================================================================

------------------------ MODULE ChatCompletion_proofs ------------------------
(***************************************************************************)
(* Proofs about ChatCompletion, for any requests, keys, TTL and flight     *)
(* bound below it: the inductive invariant ChatInv and what follows from   *)
(* it.                                                                     *)
(***************************************************************************)
EXTENDS ChatCompletion, TLAPS

\* Everything holds at the start.
LEMMA ChatInvInit == Init => ChatInv
<1> SUFFICES ASSUME Init PROVE ChatInv
  OBVIOUS
<1> USE DEF Init, DedupeInit
<1>1. TypeOK
  BY DEF TypeOK, Entry, Absent, Routes, Results, InFlightAt
<1>2. Bookkeeping /\ InFlightHoldsKey
  BY DEF Bookkeeping, InFlightHoldsKey, InFlight, InFlightAt
<1>3. SettledHoldsKey /\ UsesApart
  BY DEF SettledHoldsKey, UsesApart, Settled, SameKey
<1> QED BY <1>1, <1>2, <1>3 DEF ChatInv

-----------------------------------------------------------------------------
(***************************************************************************)
(* The registry.                                                           *)
(***************************************************************************)
LEMMA PrunedType ==
  ASSUME TypeOK PROVE Pruned \in [Keys -> Entry]
BY DEF TypeOK, Pruned, Entry, Absent

\* finish keeps the registry well formed, and touches the one key only.
LEMMA ReleaseType ==
  ASSUME TypeOK, NEW k \in Keys, NEW o \in {"billed", "failed", "unknown"}, Release(k, o)
  PROVE  entries' \in [Keys -> Entry]
<1>1. now \in Nat /\ entries \in [Keys -> Entry] /\ entries[k] \in Entry
  BY DEF TypeOK
<1>2. CASE entries[k] = Absent
  BY <1>1, <1>2 DEF Release
<1>3. CASE entries[k] # Absent
  <2>1. entries[k].status \in {"pending", "billed", "failed"}
    BY <1>1, <1>3 DEF Entry
  <2>2. [status |-> IF o = "unknown" THEN entries[k].status ELSE o, updatedAt |-> now] \in Entry
    BY <1>1, <2>1 DEF Entry
  <2> QED BY <1>1, <1>3, <2>2 DEF Release, Touch
<1> QED BY <1>2, <1>3

-----------------------------------------------------------------------------
(***************************************************************************)
(* Types.                                                                  *)
(***************************************************************************)
LEMMA ConcludeType ==
  ASSUME TypeOK, NEW r \in Requests,
         NEW res \in Results, NEW o \in {"billed", "failed", "unknown"},
         Conclude(r, res, o)
  PROVE  TypeOK'
<1>1. entries' \in [Keys -> Entry]
  <2>1. CASE key[r] = NoKey
    BY <2>1 DEF Conclude, TypeOK
  <2>2. CASE key[r] # NoKey
    <3>1. key[r] \in Keys
      BY <2>2 DEF TypeOK
    <3> QED BY <2>2, <3>1, ReleaseType DEF Conclude
  <2> QED BY <2>1, <2>2
<1>2. at' \in [Requests -> InFlightAt \cup {"new", "done", "lost"}]
      /\ result' \in [Requests -> Results] /\ endedAt' \in [Requests -> Nat]
  BY DEF TypeOK, Conclude
<1> QED BY <1>1, <1>2 DEF TypeOK, Conclude, gatewayVars

LEMMA ChatTypeStep == TypeOK /\ [Next]_vars => TypeOK'
<1> SUFFICES ASSUME TypeOK, [Next]_vars PROVE TypeOK'
  OBVIOUS
<1> USE DEF handlerVars, gatewayVars, historyVars, dedupeVars
<1>1. ASSUME NEW r \in Requests, Arrival(r) PROVE TypeOK'
  <2>1. CASE TurnAway(r)
    BY <2>1 DEF TypeOK, TurnAway, Results
  <2>2. CASE RefuseDuplicate(r)
    <3>1. entries' \in [Keys -> Entry]
      BY <2>2, PrunedType DEF RefuseDuplicate
    <3>2. key' \in [Requests -> Keys \cup {NoKey}]
      <4>1. PICK k \in Headers \ {NoKey} : key' = [key EXCEPT ![r] = k]
        BY <2>2 DEF RefuseDuplicate
      <4>2. k \in Keys \cup {NoKey}
        BY ChatAssumption
      <4> QED BY <4>1, <4>2 DEF TypeOK
    <3>3. /\ at' \in [Requests -> InFlightAt \cup {"new", "done", "lost"}]
          /\ result' \in [Requests -> Results]
      BY <2>2 DEF RefuseDuplicate, TypeOK, Results
    <3> QED BY <2>2, <3>1, <3>2, <3>3 DEF RefuseDuplicate, TypeOK
  <2>3. CASE Admit(r)
    <3>1. PICK k \in Headers :
            /\ IF k = NoKey THEN entries' = entries ELSE Claim(k)
            /\ key' = [key EXCEPT ![r] = k]
      BY <2>3 DEF Admit
    <3>2. k \in Keys \cup {NoKey}
      BY ChatAssumption
    <3>3. key' \in [Requests -> Keys \cup {NoKey}]
      BY <3>1, <3>2 DEF TypeOK
    <3>4. entries' \in [Keys -> Entry]
      <4>1. CASE k = NoKey
        BY <3>1, <4>1 DEF TypeOK
      <4>2. CASE k # NoKey
        BY <3>1, <4>2, PrunedType DEF Claim, TypeOK, Entry
      <4> QED BY <4>1, <4>2
    <3> QED BY <2>3, <3>3, <3>4 DEF Admit, TypeOK, InFlightAt
  <2> QED BY <1>1, <2>1, <2>2, <2>3 DEF Arrival
<1>2. ASSUME NEW r \in Requests, Handle(r) PROVE TypeOK'
  <2>1. CASE ReadConversation(r)
    BY <2>1, ChatAssumption DEF ReadConversation, Goto, TypeOK, InFlightAt
  <2>2. CASE AnswerNoSpeaker(r)
    BY <2>2 DEF AnswerNoSpeaker, TypeOK, Results
  <2>3. CASE AnswerNoRoute(r)
    BY <2>3, ConcludeType DEF AnswerNoRoute, Results
  <2>4. CASE RunRejected(r)
    BY <2>4, ConcludeType DEF RunRejected, Results
  <2>5. CASE StartRun(r)
    BY <2>5 DEF StartRun, Goto, TypeOK, InFlightAt
  <2>6. CASE BuildContext(r)
    BY <2>6 DEF BuildContext, Goto, TypeOK, InFlightAt
  <2>7. CASE Send(r)
    BY <2>7 DEF Send, TypeOK, InFlightAt
  <2>8. CASE Interrupted(r)
    BY <2>8, ConcludeType DEF Interrupted, Results
  <2>9. CASE Succeed(r)
    BY <2>9, ConcludeType DEF Succeed, Results
  <2>10. CASE ReplyUnrecorded(r)
    BY <2>10, ConcludeType DEF ReplyUnrecorded, Results
  <2>11. CASE Revoke(r)
    BY <2>11, ConcludeType DEF Revoke, Results
  <2>12. CASE Fail(r)
    BY <2>12, ConcludeType DEF Fail, Results
  <2> QED BY <1>2, <2>1, <2>2, <2>3, <2>4, <2>5, <2>6, <2>7, <2>8, <2>9, <2>10, <2>11, <2>12
         DEF Handle
<1>3. ASSUME NEW r \in Requests, Charge(r) \/ TurnDown(r) PROVE TypeOK'
  BY <1>3 DEF Charge, TurnDown, GatewayAnswers, TypeOK
<1>4. CASE Tick
  BY <1>4 DEF Tick, TypeOK
<1>5. CASE Restart
  <2>1. at' \in [Requests -> InFlightAt \cup {"new", "done", "lost"}]
    BY <1>5 DEF Restart, TypeOK
  <2> QED BY <1>5, <2>1 DEF Restart, TypeOK, Entry
<1>6. CASE UNCHANGED vars
  BY <1>6 DEF vars, TypeOK
<1> QED BY <1>1, <1>2, <1>3, <1>4, <1>5, <1>6 DEF Next

-----------------------------------------------------------------------------
(***************************************************************************)
(* Steps that change neither the registry nor the results and move a       *)
(* request only from one place in flight to another.                       *)
(***************************************************************************)
Quiet ==
  /\ UNCHANGED <<now, entries, key, result, begunAt, endedAt, current>>
  /\ \A r \in Requests :
       at'[r] = at[r] \/ (at[r] \in InFlightAt /\ at'[r] \in InFlightAt)

LEMMA QuietStep ==
  ASSUME ChatInv, Quiet
  PROVE  InFlightHoldsKey' /\ SettledHoldsKey' /\ UsesApart'
<1>1. \A r \in Requests : (InFlight(r)' <=> InFlight(r)) /\ (at'[r] = "done" <=> at[r] = "done")
  BY DEF Quiet, InFlight, InFlightAt
<1>2. UNCHANGED <<now, entries, key, result, begunAt, endedAt, current>>
  BY DEF Quiet
<1>3. InFlightHoldsKey'
  BY <1>1, <1>2 DEF ChatInv, InFlightHoldsKey, Expired
<1>4. SettledHoldsKey'
  BY <1>1, <1>2 DEF ChatInv, SettledHoldsKey, Settled
<1>5. UsesApart'
  BY <1>1, <1>2 DEF ChatInv, UsesApart, Settled, SameKey
<1> QED BY <1>3, <1>4, <1>5

LEMMA HandleQuietly ==
  ASSUME ChatInv, NEW r \in Requests,
         ReadConversation(r) \/ StartRun(r) \/ BuildContext(r) \/ Send(r)
  PROVE  Quiet /\ Bookkeeping'
<1> USE DEF dedupeVars, gatewayVars, historyVars
<1>1. /\ UNCHANGED <<now, entries, key, result, begunAt, endedAt, current>>
      /\ at[r] \in InFlightAt
      /\ \E to \in InFlightAt : at' = [at EXCEPT ![r] = to]
      /\ (at'[r] # "waiting" /\ gateway' = gateway) \/ Send(r)
  <2>1. CASE ReadConversation(r)
    BY <2>1 DEF ReadConversation, Goto, InFlightAt, ChatInv, TypeOK
  <2>2. CASE StartRun(r)
    BY <2>2 DEF StartRun, Goto, InFlightAt, ChatInv, TypeOK
  <2>3. CASE BuildContext(r)
    BY <2>3 DEF BuildContext, Goto, InFlightAt, ChatInv, TypeOK
  <2>4. CASE Send(r)
    BY <2>4 DEF Send, InFlightAt
  <2> QED BY <2>1, <2>2, <2>3, <2>4
<1>2. Quiet
  BY <1>1 DEF Quiet, ChatInv, TypeOK
<1>3. Bookkeeping'
  <2> SUFFICES ASSUME NEW q \in Requests
               PROVE  /\ at'[q] = "new" => result'[q] = "none"
                      /\ InFlight(q)' =>
                           /\ q \in current' /\ result'[q] = "none"
                           /\ begunAt'[q] <= now' /\ now' <= begunAt'[q] + FlightBound
                      /\ q \in current' /\ ~InFlight(q)' =>
                           /\ at'[q] = "done"
                           /\ result'[q] \in Results \ {"none", "invalid", "duplicate"}
                      /\ \/ at'[q] \in {"new", "admitted", "routed", "context", "ready"}
                         \/ result'[q] \in {"noRoute", "noSpeaker"}
                         => gateway'[q] = "idle"
    BY DEF Bookkeeping
  <2>1. /\ InFlight(q)' <=> InFlight(q)
        /\ (at'[q] = "done" <=> at[q] = "done") /\ (at'[q] = "new" => at[q] = "new")
    BY <1>2 DEF Quiet, InFlight, InFlightAt
  <2>2. UNCHANGED <<now, result, begunAt, current>>
    BY <1>1
  <2>3. \/ at'[q] \in {"new", "admitted", "routed", "context", "ready"}
        \/ result'[q] \in {"noRoute", "noSpeaker"}
        => gateway'[q] = "idle"
    <3>1. CASE q # r
      BY <3>1, <1>1 DEF ChatInv, TypeOK, Bookkeeping, Send
    <3>2. CASE q = r /\ Send(r)
      <4>1. at'[q] = "waiting" /\ result'[q] = "none"
        BY <3>2, <1>1 DEF Send, ChatInv, TypeOK, Bookkeeping, InFlight
      <4> QED BY <4>1
    <3>3. CASE q = r /\ ~Send(r)
      <4>1. at[r] \in {"admitted", "routed", "context"}
        BY <3>3 DEF ReadConversation, StartRun, BuildContext, Goto
      <4>2. gateway'[q] = gateway[r] /\ gateway[r] = "idle"
        BY <3>3, <4>1, <1>1 DEF ChatInv, Bookkeeping
      <4> QED BY <4>2
    <3> QED BY <3>1, <3>2, <3>3
  <2> QED BY <2>1, <2>2, <2>3 DEF ChatInv, Bookkeeping
<1> QED BY <1>2, <1>3

LEMMA GatewayQuietly ==
  ASSUME ChatInv, NEW r \in Requests, Charge(r) \/ TurnDown(r)
  PROVE  Quiet /\ Bookkeeping'
<1>1. /\ gateway[r] = "sent"
      /\ \E v \in {"charged", "refused"} : gateway' = [gateway EXCEPT ![r] = v]
      /\ UNCHANGED <<now, entries, at, key, result, begunAt, endedAt, current>>
  BY DEF Charge, TurnDown, GatewayAnswers, dedupeVars, handlerVars, historyVars
<1>2. Quiet
  BY <1>1 DEF Quiet
<1>3. \A q \in Requests : gateway[q] = "idle" => gateway'[q] = "idle"
  BY <1>1 DEF ChatInv, TypeOK
<1>4. Bookkeeping'
  BY <1>1, <1>3 DEF ChatInv, Bookkeeping, InFlight
<1> QED BY <1>2, <1>4

-----------------------------------------------------------------------------
(***************************************************************************)
(* The end of a handler.                                                   *)
(***************************************************************************)
\* The ways in which Conclude is called.
Outcomes ==
  {<<"billed", "billed">>, <<"unknown", "unknown">>, <<"revoked", "failed">>,
   <<"gatewayError", "failed">>, <<"noRoute", "failed">>}

Concluding(r) ==
  /\ InFlight(r)
  /\ \E p \in Outcomes :
       /\ Conclude(r, p[1], p[2])
       /\ p[1] = "noRoute" => at[r] = "routed"

LEMMA HandleConcludes ==
  ASSUME NEW r \in Requests,
         \/ AnswerNoRoute(r) \/ RunRejected(r) \/ Interrupted(r) \/ Succeed(r)
         \/ ReplyUnrecorded(r) \/ Revoke(r) \/ Fail(r)
  PROVE  Concluding(r)
<1> USE DEF Concluding, Outcomes, InFlight, InFlightAt
<1>1. CASE AnswerNoRoute(r)
  BY <1>1 DEF AnswerNoRoute
<1>2. CASE RunRejected(r) \/ Interrupted(r) \/ ReplyUnrecorded(r)
  BY <1>2 DEF RunRejected, Interrupted, ReplyUnrecorded
<1>3. CASE Succeed(r)
  BY <1>3 DEF Succeed
<1>4. CASE Revoke(r)
  BY <1>4 DEF Revoke
<1>5. CASE Fail(r)
  BY <1>5 DEF Fail
<1> QED BY <1>1, <1>2, <1>3, <1>4, <1>5

\* Only the own key of r is touched, and it owned that key: nobody else under
\* way has it.
LEMMA ConcludeStep ==
  ASSUME ChatInv, TypeOK', NEW r \in Requests, Concluding(r)
  PROVE  Bookkeeping' /\ InFlightHoldsKey' /\ SettledHoldsKey' /\ UsesApart'
<1>1. PICK p \in Outcomes : Conclude(r, p[1], p[2]) /\ (p[1] = "noRoute" => at[r] = "routed")
  BY DEF Concluding
<1> DEFINE res == p[1]
           o == p[2]
<1>2. /\ res \in {"billed", "unknown", "revoked", "gatewayError", "noRoute"}
      /\ o = IF res \in {"billed", "unknown"} THEN res ELSE "failed"
  BY DEF Outcomes
<1> HIDE DEF res, o
<1>3. /\ InFlight(r) /\ at' = [at EXCEPT ![r] = "done"]
      /\ result' = [result EXCEPT ![r] = res]
      /\ endedAt' = [endedAt EXCEPT ![r] = now]
      /\ UNCHANGED <<now, key, gateway, begunAt, current>>
  BY <1>1 DEF Concluding, Conclude, gatewayVars, res
<1>4. IF key[r] = NoKey THEN entries' = entries ELSE Release(key[r], o)
  BY <1>1 DEF Conclude, o
<1>5. /\ TypeOK /\ Bookkeeping /\ InFlightHoldsKey /\ SettledHoldsKey /\ UsesApart
  BY DEF ChatInv
<1>6. /\ at'[r] = "done" /\ result'[r] = res /\ endedAt'[r] = now
      /\ \A q \in Requests \ {r} :
           at'[q] = at[q] /\ result'[q] = result[q] /\ endedAt'[q] = endedAt[q]
  BY <1>3, <1>5 DEF TypeOK
<1>7. /\ ~InFlight(r)'
      /\ \A q \in Requests \ {r} : (InFlight(q)' <=> InFlight(q)) /\ (Settled(q)' <=> Settled(q))
  BY <1>3, <1>6 DEF InFlight, InFlightAt, Settled
<1>8. \A k \in Keys : k # key[r] => entries'[k] = entries[k]
  BY <1>4, <1>5 DEF Release, Touch, TypeOK
<1>9. ASSUME key[r] # NoKey
      PROVE  /\ key[r] \in Keys
             /\ entries[key[r]] = [status |-> "pending", updatedAt |-> begunAt[r]]
             /\ entries'[key[r]] = [status |-> IF o = "unknown" THEN "pending" ELSE o,
                                    updatedAt |-> now]
  <2>1. /\ key[r] \in Keys
        /\ entries[key[r]] = [status |-> "pending", updatedAt |-> begunAt[r]]
    BY <1>3, <1>5, <1>9 DEF TypeOK, InFlightHoldsKey
  <2>2. entries[key[r]] # Absent
    <3>1. entries[key[r]].status = "pending" /\ Absent.status = "absent"
      BY <2>1 DEF Absent
    <3> QED BY <3>1
  <2>3. entries' = Touch(key[r], IF o = "unknown" THEN entries[key[r]].status ELSE o)
    BY <1>4, <1>9, <2>2 DEF Release
  <2> QED BY <1>5, <2>1, <2>3 DEF Touch, TypeOK
<1>10. Bookkeeping'
  <2>1. r \in current /\ (res = "noRoute" => gateway[r] = "idle")
    BY <1>1, <1>3, <1>5 DEF Bookkeeping, res
  <2> QED BY <1>2, <1>3, <1>5, <1>6, <1>7, <2>1 DEF Bookkeeping, Results
<1>11. InFlightHoldsKey'
  <2> SUFFICES ASSUME NEW q \in Requests, InFlight(q)', key'[q] # NoKey
               PROVE  /\ entries'[key'[q]] = [status |-> "pending", updatedAt |-> begunAt'[q]]
                      /\ ~Expired(entries[key[q]])'
                      /\ \A s \in Requests : InFlight(s)' /\ key'[s] = key'[q] => s = q
    BY DEF InFlightHoldsKey
  <2>1. q # r /\ InFlight(q) /\ key[q] # NoKey /\ key'[q] = key[q]
    BY <1>3, <1>7
  <2>2. key[q] # key[r] /\ key[q] \in Keys
    <3>1. \A s \in Requests : InFlight(s) /\ key[s] = key[q] => s = q
      BY <1>5, <2>1 DEF InFlightHoldsKey
    <3>2. key[q] \in Keys \cup {NoKey}
      BY <1>5 DEF TypeOK
    <3> QED BY <1>3, <2>1, <3>1, <3>2
  <2>3. entries'[key[q]] = entries[key[q]]
    BY <1>8, <2>2
  <2> QED BY <1>3, <1>5, <1>7, <2>1, <2>2, <2>3 DEF InFlightHoldsKey, Expired
<1>12. SettledHoldsKey'
  <2> SUFFICES ASSUME NEW q \in Requests, Settled(q)', key'[q] # NoKey
               PROVE  \/ endedAt'[q] + TTL < now'
                      \/ /\ entries'[key'[q]].status \in {"pending", "billed"}
                         /\ entries'[key'[q]].updatedAt = endedAt'[q]
                         /\ \A s \in Requests : InFlight(s)' => key'[s] # key'[q]
    BY DEF SettledHoldsKey
  <2>1. CASE q = r
    <3>1. res \in {"billed", "unknown"} /\ key[r] # NoKey
      BY <1>3, <1>6, <2>1 DEF Settled
    <3>2. entries'[key[r]].status \in {"pending", "billed"} /\ entries'[key[r]].updatedAt = now
      BY <1>2, <1>9, <3>1
    <3>3. \A s \in Requests : InFlight(s)' => key[s] # key[r]
      BY <1>3, <1>5, <1>7, <3>1 DEF InFlightHoldsKey
    <3> QED BY <1>3, <1>6, <2>1, <3>2, <3>3
  <2>2. CASE q # r
    <3>1. Settled(q) /\ key[q] # NoKey /\ key'[q] = key[q] /\ endedAt'[q] = endedAt[q] /\ now' = now
      BY <1>3, <1>6, <1>7, <2>2
    <3>2. CASE endedAt[q] + TTL < now
      BY <3>1, <3>2
    <3>3. CASE ~(endedAt[q] + TTL < now)
      <4>1. /\ entries[key[q]].status \in {"pending", "billed"}
            /\ entries[key[q]].updatedAt = endedAt[q]
            /\ \A s \in Requests : InFlight(s) => key[s] # key[q]
        BY <1>5, <3>1, <3>3 DEF SettledHoldsKey
      <4>2. key[r] # key[q] /\ key[q] \in Keys
        BY <1>3, <1>5, <3>1, <4>1 DEF TypeOK
      <4>3. entries'[key[q]] = entries[key[q]]
        BY <1>8, <4>2
      <4>4. \A s \in Requests : InFlight(s)' => key'[s] # key'[q]
        BY <1>3, <1>7, <4>1
      <4> QED BY <3>1, <4>1, <4>3, <4>4
    <3> QED BY <3>2, <3>3
  <2> QED BY <2>1, <2>2
<1>13. UsesApart'
  <2>1. \A q \in Requests : InFlight(q)' \/ Settled(q)' => InFlight(q) \/ Settled(q)
    BY <1>3, <1>7
  <2>2. \A q, s \in Requests : SameKey(q, s)' <=> SameKey(q, s)
    BY <1>3 DEF SameKey
  <2>3. \A q \in Requests : at[q] = "done" => q # r /\ at'[q] = "done" /\ endedAt'[q] = endedAt[q]
    BY <1>3, <1>6 DEF InFlight, InFlightAt
  <2> QED BY <1>3, <1>5, <2>1, <2>2, <2>3 DEF UsesApart
<1> QED BY <1>10, <1>11, <1>12, <1>13

\* The unknown speaker: the registry stays as it is.
LEMMA NoSpeakerStep ==
  ASSUME ChatInv, NEW r \in Requests, AnswerNoSpeaker(r)
  PROVE  Bookkeeping' /\ InFlightHoldsKey' /\ SettledHoldsKey' /\ UsesApart'
<1>1. /\ at[r] = "routed" /\ at' = [at EXCEPT ![r] = "done"]
      /\ result' = [result EXCEPT ![r] = "noSpeaker"]
      /\ endedAt' = [endedAt EXCEPT ![r] = now]
      /\ UNCHANGED <<now, entries, key, gateway, begunAt, current>>
  BY DEF AnswerNoSpeaker, dedupeVars, gatewayVars
<1>2. /\ TypeOK /\ Bookkeeping /\ InFlightHoldsKey /\ SettledHoldsKey /\ UsesApart
  BY DEF ChatInv
<1>3. /\ at'[r] = "done" /\ result'[r] = "noSpeaker"
      /\ \A q \in Requests \ {r} :
           at'[q] = at[q] /\ result'[q] = result[q] /\ endedAt'[q] = endedAt[q]
  BY <1>1, <1>2 DEF TypeOK
<1>4. /\ InFlight(r) /\ ~InFlight(r)' /\ ~Settled(r)'
      /\ \A q \in Requests \ {r} : (InFlight(q)' <=> InFlight(q)) /\ (Settled(q)' <=> Settled(q))
  BY <1>1, <1>3 DEF InFlight, InFlightAt, Settled
<1>5. Bookkeeping'
  BY <1>1, <1>2, <1>3, <1>4 DEF Bookkeeping, Results
<1>6. InFlightHoldsKey'
  BY <1>1, <1>2, <1>3, <1>4 DEF InFlightHoldsKey, Expired
<1>7. SettledHoldsKey'
  BY <1>1, <1>2, <1>3, <1>4 DEF SettledHoldsKey
<1>8. UsesApart'
  BY <1>1, <1>2, <1>3, <1>4 DEF UsesApart, SameKey
<1> QED BY <1>5, <1>6, <1>7, <1>8

-----------------------------------------------------------------------------
(***************************************************************************)
(* Arrivals, and with them pruning.                                        *)
(***************************************************************************)
LEMMA TurnAwayStep ==
  ASSUME ChatInv, NEW r \in Requests, TurnAway(r)
  PROVE  Bookkeeping' /\ InFlightHoldsKey' /\ SettledHoldsKey' /\ UsesApart'
<1>1. /\ at[r] = "new" /\ at' = [at EXCEPT ![r] = "done"]
      /\ result' = [result EXCEPT ![r] = "invalid"]
      /\ UNCHANGED <<now, entries, key, gateway, begunAt, endedAt, current>>
  BY DEF TurnAway, dedupeVars, gatewayVars, historyVars
<1>2. /\ TypeOK /\ Bookkeeping /\ InFlightHoldsKey /\ SettledHoldsKey /\ UsesApart
  BY DEF ChatInv
<1>3. /\ r \notin current /\ ~InFlight(r) /\ ~InFlight(r)' /\ ~Settled(r) /\ ~Settled(r)'
      /\ result'[r] = "invalid" /\ at'[r] = "done"
      /\ \A q \in Requests \ {r} : at'[q] = at[q] /\ result'[q] = result[q]
      /\ \A q \in Requests \ {r} : (InFlight(q)' <=> InFlight(q)) /\ (Settled(q)' <=> Settled(q))
  BY <1>1, <1>2 DEF TypeOK, Bookkeeping, InFlight, InFlightAt, Settled
<1>4. Bookkeeping'
  BY <1>1, <1>2, <1>3 DEF Bookkeeping
<1>5. InFlightHoldsKey'
  BY <1>1, <1>2, <1>3 DEF InFlightHoldsKey, Expired
<1>6. SettledHoldsKey'
  BY <1>1, <1>2, <1>3 DEF SettledHoldsKey
<1>7. UsesApart'
  BY <1>1, <1>2, <1>3 DEF UsesApart, SameKey
<1> QED BY <1>4, <1>5, <1>6, <1>7

\* Pruning drops no entry that a request under way or a settled one needs.
LEMMA PruningSpares ==
  ASSUME ChatInv
  PROVE  /\ \A q \in Requests : InFlight(q) /\ key[q] # NoKey =>
               Pruned[key[q]] = entries[key[q]] /\ Taken(key[q])
         /\ \A q \in Requests : Settled(q) /\ key[q] # NoKey /\ ~(endedAt[q] + TTL < now) =>
               Pruned[key[q]] = entries[key[q]] /\ Taken(key[q])
<1>1. \A q \in Requests : key[q] # NoKey => key[q] \in Keys
  BY DEF ChatInv, TypeOK
<1>2. ASSUME NEW q \in Requests, InFlight(q), key[q] # NoKey
      PROVE  Pruned[key[q]] = entries[key[q]] /\ Taken(key[q])
  <2>1. /\ entries[key[q]] = [status |-> "pending", updatedAt |-> begunAt[q]]
        /\ ~Expired(entries[key[q]])
    BY <1>2 DEF ChatInv, InFlightHoldsKey
  <2>2. Pruned[key[q]] = entries[key[q]]
    BY <1>1, <1>2, <2>1 DEF Pruned
  <2> QED BY <2>1, <2>2 DEF Taken
<1>3. ASSUME NEW q \in Requests, Settled(q), key[q] # NoKey, ~(endedAt[q] + TTL < now)
      PROVE  Pruned[key[q]] = entries[key[q]] /\ Taken(key[q])
  <2>1. /\ entries[key[q]].status \in {"pending", "billed"}
        /\ entries[key[q]].updatedAt = endedAt[q]
    BY <1>3 DEF ChatInv, SettledHoldsKey
  <2>2. Pruned[key[q]] = entries[key[q]]
    BY <1>1, <1>3, <2>1 DEF Pruned, Expired
  <2> QED BY <2>1, <2>2 DEF Taken
<1> QED BY <1>2, <1>3

LEMMA DuplicateStep ==
  ASSUME ChatInv, NEW r \in Requests, RefuseDuplicate(r)
  PROVE  Bookkeeping' /\ InFlightHoldsKey' /\ SettledHoldsKey' /\ UsesApart'
<1>1. /\ at[r] = "new" /\ at' = [at EXCEPT ![r] = "done"]
      /\ result' = [result EXCEPT ![r] = "duplicate"]
      /\ entries' = Pruned
      /\ UNCHANGED <<now, gateway, begunAt, endedAt, current>>
  BY DEF RefuseDuplicate, gatewayVars, historyVars
<1>2. /\ TypeOK /\ Bookkeeping /\ InFlightHoldsKey /\ SettledHoldsKey /\ UsesApart
  BY DEF ChatInv
<1>3. \A q \in Requests \ {r} : key'[q] = key[q]
  BY <1>2 DEF RefuseDuplicate, TypeOK
<1>4. /\ r \notin current /\ ~InFlight(r) /\ ~InFlight(r)' /\ ~Settled(r) /\ ~Settled(r)'
      /\ result'[r] = "duplicate" /\ at'[r] = "done"
      /\ \A q \in Requests \ {r} : at'[q] = at[q] /\ result'[q] = result[q]
      /\ \A q \in Requests \ {r} : (InFlight(q)' <=> InFlight(q)) /\ (Settled(q)' <=> Settled(q))
  BY <1>1, <1>2 DEF TypeOK, Bookkeeping, InFlight, InFlightAt, Settled
<1>5. Bookkeeping'
  BY <1>1, <1>2, <1>4 DEF Bookkeeping
<1>6. InFlightHoldsKey'
  BY <1>1, <1>2, <1>3, <1>4, PruningSpares DEF InFlightHoldsKey, Expired
<1>7. SettledHoldsKey'
  BY <1>1, <1>2, <1>3, <1>4, PruningSpares DEF SettledHoldsKey
<1>8. UsesApart'
  BY <1>1, <1>2, <1>3, <1>4 DEF UsesApart, SameKey
<1> QED BY <1>5, <1>6, <1>7, <1>8

\* A key that is free has no user within the TTL.
LEMMA AdmitStep ==
  ASSUME ChatInv, TypeOK', NEW r \in Requests, Admit(r)
  PROVE  Bookkeeping' /\ InFlightHoldsKey' /\ SettledHoldsKey' /\ UsesApart'
<1>1. PICK k \in Headers :
        /\ IF k = NoKey THEN entries' = entries ELSE Claim(k)
        /\ key' = [key EXCEPT ![r] = k]
  BY DEF Admit
<1>2. /\ at[r] = "new" /\ at' = [at EXCEPT ![r] = "admitted"]
      /\ begunAt' = [begunAt EXCEPT ![r] = now]
      /\ current' = current \cup {r}
      /\ UNCHANGED <<now, gateway, result, endedAt>>
  BY DEF Admit, gatewayVars
<1>3. /\ TypeOK /\ Bookkeeping /\ InFlightHoldsKey /\ SettledHoldsKey /\ UsesApart
  BY DEF ChatInv
<1>4. /\ at'[r] = "admitted" /\ begunAt'[r] = now /\ key'[r] = k
      /\ \A q \in Requests \ {r} :
           at'[q] = at[q] /\ begunAt'[q] = begunAt[q] /\ key'[q] = key[q]
  BY <1>1, <1>2, <1>3 DEF TypeOK
<1>5. /\ r \notin current /\ ~InFlight(r) /\ InFlight(r)'
      /\ \A q \in Requests \ {r} : (InFlight(q)' <=> InFlight(q)) /\ (Settled(q)' <=> Settled(q))
  BY <1>2, <1>3, <1>4 DEF Bookkeeping, InFlight, InFlightAt, Settled
<1>6. k # NoKey => k \in Keys
  BY ChatAssumption
<1>7. \A q \in Requests : InFlight(q) /\ k # NoKey => key[q] # k
  BY <1>1, PruningSpares DEF Claim
<1>8. \A q \in Requests : Settled(q) /\ key[q] = k /\ k # NoKey => endedAt[q] + TTL < now
  BY <1>1, PruningSpares DEF Claim
<1>9. \A l \in Keys : l # k => entries'[l] = entries[l] \/ entries'[l] = Pruned[l]
  BY <1>1, <1>3 DEF Claim, Pruned
<1>10. k # NoKey => entries'[k] = [status |-> "pending", updatedAt |-> now]
  BY <1>1, <1>6 DEF Claim, Pruned
<1>11. now \in Nat /\ TTL \in Nat /\ FlightBound \in Nat /\ FlightBound < TTL
  BY <1>3, DedupeAssumption, ChatAssumption DEF TypeOK
<1>12. Bookkeeping'
  BY <1>2, <1>3, <1>4, <1>5, <1>11 DEF Bookkeeping
<1>13. InFlightHoldsKey'
  <2> SUFFICES ASSUME NEW q \in Requests, InFlight(q)', key'[q] # NoKey
               PROVE  /\ entries'[key'[q]] = [status |-> "pending", updatedAt |-> begunAt'[q]]
                      /\ ~Expired(entries[key[q]])'
                      /\ \A s \in Requests : InFlight(s)' /\ key'[s] = key'[q] => s = q
    BY DEF InFlightHoldsKey
  <2>1. CASE q = r
    <3>1. entries'[key'[q]] = [status |-> "pending", updatedAt |-> now] /\ begunAt'[q] = now
      BY <1>4, <1>10, <2>1
    <3>2. ~Expired(entries[key[q]])'
      BY <1>2, <1>11, <3>1 DEF Expired
    <3>3. \A s \in Requests : InFlight(s)' /\ key'[s] = key'[q] => s = q
      BY <1>4, <1>5, <1>7, <2>1
    <3> QED BY <3>1, <3>2, <3>3
  <2>2. CASE q # r
    <3>1. InFlight(q) /\ key[q] # NoKey /\ key'[q] = key[q] /\ begunAt'[q] = begunAt[q]
      BY <1>4, <1>5, <2>2
    <3>2. key[q] \in Keys /\ key[q] # k
      BY <1>3, <1>7, <3>1 DEF TypeOK
    <3>3. entries'[key[q]] = entries[key[q]]
      BY <1>9, <3>1, <3>2, PruningSpares
    <3>4. /\ entries[key[q]] = [status |-> "pending", updatedAt |-> begunAt[q]]
          /\ ~Expired(entries[key[q]])
          /\ \A s \in Requests : InFlight(s) /\ key[s] = key[q] => s = q
      BY <1>3, <3>1 DEF InFlightHoldsKey
    <3>5. ~Expired(entries[key[q]])'
      BY <1>2, <3>1, <3>3, <3>4 DEF Expired
    <3>6. \A s \in Requests : InFlight(s)' /\ key'[s] = key'[q] => s = q
      BY <1>4, <1>5, <3>1, <3>2, <3>4
    <3> QED BY <3>1, <3>3, <3>4, <3>5, <3>6
  <2> QED BY <2>1, <2>2
<1>14. SettledHoldsKey'
  <2> SUFFICES ASSUME NEW q \in Requests, Settled(q)', key'[q] # NoKey, ~(endedAt'[q] + TTL < now')
               PROVE  /\ entries'[key'[q]].status \in {"pending", "billed"}
                      /\ entries'[key'[q]].updatedAt = endedAt'[q]
                      /\ \A s \in Requests : InFlight(s)' => key'[s] # key'[q]
    BY DEF SettledHoldsKey
  <2>1. q # r
    BY <1>2, <1>3 DEF Settled, Bookkeeping
  <2>2. Settled(q) /\ key'[q] = key[q] /\ key[q] # NoKey /\ ~(endedAt[q] + TTL < now)
    BY <1>2, <1>4, <1>5, <2>1
  <2>3. key[q] # k /\ key[q] \in Keys
    BY <1>3, <1>8, <2>2 DEF TypeOK
  <2>4. entries'[key[q]] = entries[key[q]]
    BY <1>9, <2>2, <2>3, PruningSpares
  <2>5. /\ entries[key[q]].status \in {"pending", "billed"}
        /\ entries[key[q]].updatedAt = endedAt[q]
        /\ \A s \in Requests : InFlight(s) => key[s] # key[q]
    BY <1>3, <2>2 DEF SettledHoldsKey
  <2>6. \A s \in Requests : InFlight(s)' => key'[s] # key'[q]
    BY <1>4, <1>5, <2>2, <2>3, <2>5
  <2> QED BY <1>2, <2>2, <2>4, <2>5, <2>6
<1>15. UsesApart'
  <2> SUFFICES ASSUME NEW q \in Requests, NEW s \in Requests, SameKey(q, s)',
                      InFlight(q)' \/ Settled(q)', InFlight(s)' \/ Settled(s)'
               PROVE  \/ at'[q] = "done" /\ endedAt'[q] + TTL < begunAt'[s]
                      \/ at'[s] = "done" /\ endedAt'[s] + TTL < begunAt'[q]
    BY DEF UsesApart
  <2>1. q # s /\ key'[q] = key'[s] /\ key'[s] # NoKey
    BY DEF SameKey
  <2>2. ASSUME NEW x \in Requests, x # r, InFlight(x) \/ Settled(x), key[x] = k, k # NoKey
        PROVE  at'[x] = "done" /\ endedAt'[x] + TTL < begunAt'[r]
    <3>1. Settled(x) /\ ~InFlight(x)
      BY <1>7, <2>2
    <3>2. at[x] = "done" /\ endedAt[x] + TTL < now
      BY <1>3, <1>8, <2>2, <3>1 DEF Settled, Bookkeeping
    <3> QED BY <1>2, <1>4, <2>2, <3>2
  <2>3. CASE q = r
    <3>1. s # r /\ (InFlight(s) \/ Settled(s)) /\ key[s] = k /\ k # NoKey
      BY <1>4, <1>5, <2>1, <2>3
    <3> QED BY <2>2, <2>3, <3>1
  <2>4. CASE s = r
    <3>1. q # r /\ (InFlight(q) \/ Settled(q)) /\ key[q] = k /\ k # NoKey
      BY <1>4, <1>5, <2>1, <2>4
    <3> QED BY <2>2, <2>4, <3>1
  <2>5. CASE q # r /\ s # r
    <3>1. SameKey(q, s)
      BY <1>2, <1>4, <2>1, <2>5 DEF SameKey
    <3>2. (InFlight(q) \/ Settled(q)) /\ (InFlight(s) \/ Settled(s))
      BY <1>5, <2>5
    <3> QED BY <1>2, <1>3, <1>4, <2>5, <3>1, <3>2 DEF UsesApart
  <2> QED BY <2>3, <2>4, <2>5
<1> QED BY <1>12, <1>13, <1>14, <1>15

-----------------------------------------------------------------------------
(***************************************************************************)
(* Time and restarts.                                                      *)
(***************************************************************************)
LEMMA TickStep ==
  ASSUME ChatInv, Tick
  PROVE  Bookkeeping' /\ InFlightHoldsKey' /\ SettledHoldsKey' /\ UsesApart'
<1>1. /\ \A r \in Requests : InFlight(r) => now < begunAt[r] + FlightBound
      /\ now' = now + 1
      /\ UNCHANGED <<entries, at, key, result, gateway, begunAt, endedAt, current>>
  BY DEF Tick, handlerVars, gatewayVars, historyVars
<1>2. /\ TypeOK /\ Bookkeeping /\ InFlightHoldsKey /\ SettledHoldsKey /\ UsesApart
  BY DEF ChatInv
<1>3. now \in Nat /\ TTL \in Nat /\ FlightBound \in Nat /\ FlightBound < TTL
      /\ (\A r \in Requests : begunAt[r] \in Nat /\ endedAt[r] \in Nat)
  BY <1>2, DedupeAssumption, ChatAssumption DEF TypeOK
<1>4. \A r \in Requests : (InFlight(r)' <=> InFlight(r)) /\ (Settled(r)' <=> Settled(r))
  BY <1>1 DEF InFlight, Settled
<1>5. Bookkeeping'
  <2>1. \A r \in Requests : InFlight(r) => begunAt[r] <= now + 1 /\ now + 1 <= begunAt[r] + FlightBound
    BY <1>1, <1>2, <1>3 DEF Bookkeeping
  <2> QED BY <1>1, <1>2, <1>4, <2>1 DEF Bookkeeping
<1>6. InFlightHoldsKey'
  <2>1. \A r \in Requests : InFlight(r) => ~(begunAt[r] + TTL < now + 1)
    BY <1>1, <1>3
  <2>2. \A r \in Requests : InFlight(r) /\ key[r] # NoKey => ~Expired(entries[key[r]])'
    <3> SUFFICES ASSUME NEW r \in Requests, InFlight(r), key[r] # NoKey
                 PROVE  ~Expired(entries[key[r]])'
      OBVIOUS
    <3>1. entries[key[r]] = [status |-> "pending", updatedAt |-> begunAt[r]]
      BY <1>2 DEF InFlightHoldsKey
    <3>2. entries[key[r]].updatedAt = begunAt[r]
      BY <3>1
    <3> QED BY <1>1, <2>1, <3>2 DEF Expired
  <2> QED BY <1>1, <1>2, <1>4, <2>2 DEF InFlightHoldsKey
<1>7. SettledHoldsKey'
  <2>1. \A r \in Requests : endedAt[r] + TTL < now => endedAt[r] + TTL < now + 1
    BY <1>3
  <2> QED BY <1>1, <1>2, <1>4, <2>1 DEF SettledHoldsKey
<1>8. UsesApart'
  BY <1>1, <1>2, <1>4 DEF UsesApart, SameKey
<1> QED BY <1>5, <1>6, <1>7, <1>8

LEMMA RestartStep ==
  ASSUME ChatInv, Restart
  PROVE  Bookkeeping' /\ InFlightHoldsKey' /\ SettledHoldsKey' /\ UsesApart'
<1>1. /\ at' = [r \in Requests |-> IF InFlight(r) THEN "lost" ELSE at[r]]
      /\ current' = {}
      /\ UNCHANGED <<result, gateway>>
  BY DEF Restart, gatewayVars
<1>2. \A r \in Requests : ~InFlight(r)' /\ ~Settled(r)' /\ r \notin current'
  BY <1>1 DEF InFlight, InFlightAt, Settled
<1>3. Bookkeeping'
  <2>1. \A r \in Requests :
          /\ at'[r] \in {"new", "admitted", "routed", "context", "ready"} => at[r] = "new"
          /\ at'[r] = "new" => at[r] = "new"
    BY <1>1 DEF InFlight, InFlightAt
  <2> QED BY <1>1, <1>2, <2>1 DEF ChatInv, Bookkeeping
<1>4. InFlightHoldsKey' /\ SettledHoldsKey'
  BY <1>2 DEF InFlightHoldsKey, SettledHoldsKey
<1>5. UsesApart'
  BY <1>2 DEF UsesApart
<1> QED BY <1>3, <1>4, <1>5

-----------------------------------------------------------------------------
LEMMA ChatInvStep == ChatInv /\ [Next]_vars => ChatInv'
<1> SUFFICES ASSUME ChatInv, [Next]_vars PROVE ChatInv'
  OBVIOUS
<1>1. TypeOK'
  BY ChatTypeStep DEF ChatInv
<1> DEFINE Rest == Bookkeeping /\ InFlightHoldsKey /\ SettledHoldsKey /\ UsesApart
<1>2. ASSUME NEW r \in Requests, Arrival(r) PROVE Rest'
  BY <1>1, <1>2, TurnAwayStep, DuplicateStep, AdmitStep DEF Arrival
<1>3. ASSUME NEW r \in Requests, Handle(r) PROVE Rest'
  <2>1. CASE ReadConversation(r) \/ StartRun(r) \/ BuildContext(r) \/ Send(r)
    BY <2>1, HandleQuietly, QuietStep
  <2>2. CASE AnswerNoSpeaker(r)
    BY <2>2, NoSpeakerStep
  <2>3. CASE \/ AnswerNoRoute(r) \/ RunRejected(r) \/ Interrupted(r) \/ Succeed(r)
             \/ ReplyUnrecorded(r) \/ Revoke(r) \/ Fail(r)
    <3>1. Concluding(r)
      BY <2>3, HandleConcludes
    <3> QED BY <1>1, <3>1, ConcludeStep
  <2> QED BY <1>3, <2>1, <2>2, <2>3 DEF Handle
<1>4. ASSUME NEW r \in Requests, Charge(r) \/ TurnDown(r) PROVE Rest'
  BY <1>4, GatewayQuietly, QuietStep
<1>5. ASSUME Tick PROVE Rest'
  BY <1>5, TickStep
<1>6. ASSUME Restart PROVE Rest'
  BY <1>6, RestartStep
<1>7. ASSUME UNCHANGED vars PROVE Rest'
  <2>1. Quiet /\ UNCHANGED <<at, gateway>>
    BY <1>7 DEF vars, dedupeVars, handlerVars, gatewayVars, historyVars, Quiet
  <2>2. Bookkeeping'
    BY <2>1 DEF Quiet, ChatInv, Bookkeeping, InFlight
  <2> QED BY <2>1, <2>2, QuietStep
<1> QED BY <1>1, <1>2, <1>3, <1>4, <1>5, <1>6, <1>7 DEF Next, ChatInv

(***************************************************************************)
(* ChatInv holds in every reachable state.                                 *)
(***************************************************************************)
THEOREM ChatInvariant == Spec => []ChatInv
BY ChatInvInit, ChatInvStep, PTL DEF Spec

(***************************************************************************)
(* Every variable of the handler, the registry and the gateway has its     *)
(* type.                                                                   *)
(***************************************************************************)
THEOREM ChatTypeCorrect == Spec => []TypeOK
<1>1. ChatInv => TypeOK
  BY DEF ChatInv
<1> QED BY ChatInvariant, <1>1, PTL

(***************************************************************************)
(* A request under way owns its registry entry, whatever the TTL, as long  *)
(* as handlers are over before it: requestDedupe.finish is never called    *)
(* for an entry that meanwhile belongs to somebody else.                   *)
(***************************************************************************)
THEOREM ChatInFlightHoldsKey == Spec => []InFlightHoldsKey
<1>1. ChatInv => InFlightHoldsKey
  BY DEF ChatInv
<1> QED BY ChatInvariant, <1>1, PTL

\* Who entered the gateway and was not seen to fail uses its key.
LEMMA ChatInvEntersOnce == ChatInv => OneEntryPerTTL
<1> SUFFICES ASSUME ChatInv, NEW q \in Requests, NEW r \in Requests,
                    SameKey(q, r), Entered(q), Entered(r), ~SeenToFail(q), ~SeenToFail(r)
             PROVE  \/ at[q] = "done" /\ endedAt[q] + TTL < begunAt[r]
                    \/ at[r] = "done" /\ endedAt[r] + TTL < begunAt[q]
  BY DEF OneEntryPerTTL
<1>1. ASSUME NEW x \in Requests, x \in current, Entered(x), ~SeenToFail(x)
      PROVE  InFlight(x) \/ Settled(x)
  <2>1. CASE ~InFlight(x)
    <3>1. result[x] \in Results \ {"none", "invalid", "duplicate", "noRoute", "noSpeaker"}
      BY <1>1, <2>1 DEF ChatInv, Bookkeeping, Entered
    <3> QED BY <1>1, <3>1 DEF Settled, SeenToFail, Results
  <2> QED BY <2>1
<1>2. (InFlight(q) \/ Settled(q)) /\ (InFlight(r) \/ Settled(r))
  BY <1>1 DEF SameKey
<1> QED BY <1>2 DEF ChatInv, UsesApart

(***************************************************************************)
(* Of two requests with one key that both entered the gateway, one had     *)
(* been seen to fail or was over for more than the TTL: the promise of the *)
(* head comment of lib/request-dedupe.ts, for any number of requests.      *)
(***************************************************************************)
THEOREM ChatOneEntryPerTTL == Spec => []OneEntryPerTTL
BY ChatInvariant, ChatInvEntersOnce, PTL
=============================================================================

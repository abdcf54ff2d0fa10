----------------------------- MODULE WorkflowRun -----------------------------
(***************************************************************************)
(* One run of a workflow: runWorkflow in domain/workflow-runtime.ts with   *)
(* the steps that chat-v1.ts, roleplay-v1.ts and group-v1.ts give it, the  *)
(* events of workflow-events.ts, two sources of an abort (the client's     *)
(* signal and the run's own timer) and the time-outs of the calls inside.  *)
(* One action per stretch between two awaits.                              *)
(***************************************************************************)
EXTENDS Sequences, Naturals

VARIABLES
  runKind,    \* which workflow
  runIds,     \* whether the ids the caller brings pass for opaque ids
  runAt,      \* where the run stands
  runStep,    \* index of the step under way
  runEvents,  \* what onEvent has been called with
  runTimer,   \* timeoutHandle
  runGone,    \* input.signal is aborted
  runCause,   \* reason of the combined signal: what aborted it first
  runSent,    \* the text call has left for the gateway
  runReply,   \* its answer
  runEnd      \* how the promise settles

runVars == <<runKind, runIds, runAt, runStep, runEvents, runTimer, runGone,
             runCause, runSent, runReply, runEnd>>

RunKinds == {"chat", "roleplay", "schedule", "speaker"}

Steps(kind) ==
  CASE kind = "chat"     -> <<"stream">>
    [] kind = "schedule" -> <<"schedule">>
    [] OTHER             -> <<"build", "stream">>

Ev(entity, phase, step, code) ==
  [entity |-> entity, phase |-> phase, step |-> step, code |-> code]

\* createWorkflowEvent throws on an id of the wrong form.
Accepted(ids) == ids # "malformed"

RunInit ==
  /\ runKind = "chat" /\ runIds = "opaque" /\ runAt = "idle" /\ runStep = 0
  /\ runEvents = <<>> /\ runTimer = "none" /\ runGone = FALSE /\ runCause = "none"
  /\ runSent = FALSE /\ runReply = "none" /\ runEnd = "none"

-----------------------------------------------------------------------------
\* What a step emits before its first await, and where it waits.
Opening(step) ==
  <<Ev("step", "started", step, "none")>> \o
  IF step = "build" THEN <<>> ELSE <<Ev("capability", "started", step, "none")>>

FirstAwait(step) == IF step = "build" THEN "memory" ELSE "calling"

Current == Steps(runKind)[runStep]

\* The first event is outside the try: when it is rejected the timer stays.
RunStart ==
  /\ runAt = "idle"
  /\ \E kind \in RunKinds, ids \in {"opaque", "malformed"} :
       /\ runKind' = kind
       /\ runIds' = ids
       /\ runTimer' = "armed"
       /\ IF Accepted(ids)
          THEN /\ runEvents' = <<Ev("run", "started", "none", "none")>> \o
                                Opening(Steps(kind)[1])
               /\ runStep' = 1
               /\ runAt' = FirstAwait(Steps(kind)[1])
               /\ UNCHANGED runEnd
          ELSE /\ runAt' = "over" /\ runEnd' = "rejected"
               /\ UNCHANGED <<runEvents, runStep>>
  /\ UNCHANGED <<runGone, runCause, runSent, runReply>>

\* The build step ends itself and is ended by the runtime as well.
NextStep(emitted) ==
  /\ runEvents' = runEvents \o emitted \o
       <<Ev("step", "completed", Current, "none"), Ev("step", "completed", Current, "none")>> \o
       Opening(Steps(runKind)[runStep + 1])
  /\ runStep' = runStep + 1
  /\ runAt' = FirstAwait(Steps(runKind)[runStep + 1])

Degraded(outcome, code) ==
  IF outcome = "error" THEN <<Ev("step", "degraded", "build", code)>> ELSE <<>>

\* Without a question or an embedding model the library is not searched.
ReadMemory ==
  /\ runAt = "memory"
  /\ \E outcome \in {"ok", "error"}, search \in BOOLEAN :
       LET emitted == Degraded(outcome, "memory_unavailable")
       IN  IF search
           THEN /\ runEvents' = runEvents \o emitted
                /\ runAt' = "searching"
                /\ UNCHANGED runStep
           ELSE NextStep(emitted)
  /\ UNCHANGED <<runKind, runIds, runTimer, runGone, runCause, runSent, runReply, runEnd>>

\* The embedding call has no signal: an abort is not noticed before the text call.
SearchKnowledge ==
  /\ runAt = "searching"
  /\ \E outcome \in {"ok", "error"} : NextStep(Degraded(outcome, "knowledge_unavailable"))
  /\ UNCHANGED <<runKind, runIds, runTimer, runGone, runCause, runSent, runReply, runEnd>>

\* Mutant of SearchTimesOut: the embedding call waits for its answer.
SearchOnlyAnswered == FALSE

\* But it has a time-out of its own, the default of the gateway client.
SearchTimesOut ==
  /\ runAt = "searching"
  /\ NextStep(Degraded("error", "knowledge_unavailable"))
  /\ UNCHANGED <<runKind, runIds, runTimer, runGone, runCause, runSent, runReply, runEnd>>

\* fetch does not send when its signal is aborted already.
SendText ==
  /\ runAt = "calling" /\ runCause = "none"
  /\ runAt' = "waiting"
  /\ runSent' = TRUE
  /\ UNCHANGED <<runKind, runIds, runStep, runEvents, runTimer, runGone, runCause, runReply, runEnd>>

\* Mutant of TimedOut: the timer alone decides.
TimedOutByTimer == runTimer = "fired"

-----------------------------------------------------------------------------
(***************************************************************************)
(* How a run ends.                                                         *)
(***************************************************************************)
TimedOut == runTimer = "fired" /\ ~runGone

\* The catch of the step loop, by the name of the error.
Verdict(error) ==
  IF error = "Other" THEN [phase |-> "failed", code |-> "step_failed"]
  ELSE IF TimedOut \/ error = "TimeoutError" THEN [phase |-> "failed", code |-> "timeout"]
  ELSE [phase |-> "cancelled", code |-> "none"]

\* Mutant of FailRun: run.completed is emitted in the finally block.
FailRunAndComplete(error) ==
  LET v == Verdict(error)
  IN  /\ runEvents' = runEvents \o
           <<Ev("step", v.phase, Current, v.code), Ev("run", v.phase, "none", v.code),
             Ev("run", "completed", "none", "none")>>
      /\ runEnd' = IF v.phase = "cancelled" THEN "cancelled" ELSE v.code
      /\ runAt' = "over"
      /\ runTimer' = IF runTimer = "armed" THEN "cleared" ELSE runTimer
      /\ UNCHANGED <<runKind, runIds, runStep, runGone, runSent, runReply>>

FailRun(error) ==
  LET v == Verdict(error)
  IN  /\ runEvents' = runEvents \o
           <<Ev("step", v.phase, Current, v.code), Ev("run", v.phase, "none", v.code)>>
      /\ runEnd' = IF v.phase = "cancelled" THEN "cancelled" ELSE v.code
      /\ runAt' = "over"
      /\ runTimer' = IF runTimer = "armed" THEN "cleared" ELSE runTimer
      /\ UNCHANGED <<runKind, runIds, runStep, runGone, runSent, runReply>>

\* fetch rejects with the reason of the combined signal, which is that of the
\* first abort; the scheduler still reads a body after the headers have come.
NoticeAbort ==
  /\ runAt \in {"calling", "waiting"} /\ runCause \in {"client", "timer"}
  /\ runReply = "none" \/ runKind = "schedule"
  /\ FailRun(IF runCause = "client" THEN "AbortError" ELSE "TimeoutError")
  /\ UNCHANGED runCause

\* AbortSignal.timeout in lib/chat.ts: 120 s, 30 s for the scheduler.
CallTimesOut ==
  /\ runAt = "waiting" /\ runReply = "none" /\ runCause = "none"
  /\ runCause' = "call"
  /\ FailRun("TimeoutError")

NetworkFails ==
  /\ runAt = "waiting" /\ runReply = "none"
  /\ FailRun("Other")
  /\ UNCHANGED runCause

\* What a workflow takes for an answer: a stream, or status 200 for the schedule.
Usable ==
  \/ runReply = "stream" /\ runKind # "schedule"
  \/ runReply \in {"stream", "json"} /\ runKind = "schedule"

\* 401 and 403 as SESSION_REVOKED, everything else as GATEWAY_ERROR.
RefusedByGateway ==
  /\ runAt = "waiting" /\ runReply # "none" /\ ~Usable
  /\ FailRun("Other")
  /\ UNCHANGED runCause

\* The event that ends the capability carries the gateway's request id, except
\* for the schedule: if that is malformed, the step fails after the answer.
CompleteRun ==
  /\ runAt = "waiting" /\ Usable
  /\ \E requestId \in {"absent", "opaque", "malformed"} :
       IF Accepted(requestId) \/ runKind = "schedule"
       THEN /\ runEvents' = runEvents \o
                 <<Ev("capability", "completed", Current, "none"),
                   Ev("step", "completed", Current, "none"), Ev("run", "completed", "none", "none")>>
            /\ runAt' = "over"
            /\ runEnd' = "returned"
            /\ runTimer' = IF runTimer = "armed" THEN "cleared" ELSE runTimer
            /\ UNCHANGED <<runKind, runIds, runStep, runGone, runSent, runReply>>
       ELSE FailRun("Other")
  /\ UNCHANGED runCause

-----------------------------------------------------------------------------
(***************************************************************************)
(* The world around the run.                                               *)
(***************************************************************************)
GatewayReplies ==
  /\ runAt = "waiting" /\ runReply = "none" /\ runCause = "none"
  /\ \E r \in {"stream", "json", "unauthorized", "error"} : runReply' = r
  /\ UNCHANGED <<runKind, runIds, runAt, runStep, runEvents, runTimer, runGone, runCause, runSent, runEnd>>

First(cause) == IF runCause = "none" THEN cause ELSE runCause

TimerFires ==
  /\ runTimer = "armed"
  /\ runTimer' = "fired"
  /\ runCause' = First("timer")
  /\ UNCHANGED <<runKind, runIds, runAt, runStep, runEvents, runGone, runSent, runReply, runEnd>>

ClientLeaves ==
  /\ runAt # "idle" /\ ~runGone
  /\ runGone' = TRUE
  /\ runCause' = First("client")
  /\ UNCHANGED <<runKind, runIds, runAt, runStep, runEvents, runTimer, runSent, runReply, runEnd>>

RunHandle ==
  \/ ReadMemory \/ SearchKnowledge \/ SearchTimesOut \/ SendText \/ NoticeAbort \/ CallTimesOut
  \/ NetworkFails \/ RefusedByGateway \/ CompleteRun

RunNext == RunStart \/ RunHandle \/ GatewayReplies \/ TimerFires \/ ClientLeaves

\* A file is read in the end, time-outs expire, and what has been answered or
\* aborted goes on; no call need be answered.
RunGoesOn ==
  \/ ReadMemory \/ SearchTimesOut \/ SendText \/ NoticeAbort \/ CallTimesOut
  \/ RefusedByGateway \/ CompleteRun

RunSpec == RunInit /\ [][RunNext]_runVars

-----------------------------------------------------------------------------
Event ==
  [entity : {"run", "step", "capability"},
   phase  : {"started", "completed", "failed", "cancelled", "degraded"},
   step   : {"none", "build", "stream", "schedule"},
   code   : {"none", "timeout", "step_failed", "memory_unavailable", "knowledge_unavailable"}]

EndsRun(e) == e.entity = "run" /\ e.phase # "started"

(***************************************************************************)
(* The log of a run is a story with one end: nothing is emitted after the  *)
(* event that ends the run, a run that has begun and is over has one,      *)
(* steps never overlap, and run.completed is emitted for a success of the  *)
(* gateway only, in whatever way the run was ended.                        *)
(***************************************************************************)
RunLogClosed ==
  /\ \A i \in DOMAIN runEvents : EndsRun(runEvents[i]) => i = Len(runEvents) /\ runAt = "over"
  /\ runAt = "over" /\ runEnd # "rejected" => EndsRun(runEvents[Len(runEvents)])
  /\ \A i, j \in DOMAIN runEvents :
       i < j /\ runEvents[i].entity = "step" /\ runEvents[j].entity = "step"
             /\ runEvents[i].step # runEvents[j].step
       => runEvents[i].step = "build" /\ runEvents[j].step = "stream"
  /\ (\E i \in DOMAIN runEvents : runEvents[i] = Ev("run", "completed", "none", "none")) =>
       runEnd = "returned" /\ runSent /\ runReply \in {"stream", "json"}

(***************************************************************************)
(* The verdict names what came first: a run ends as cancelled only if the  *)
(* client left before any time-out, and as timed out only if a time-out    *)
(* came before the client left, whatever happened before it was noticed.   *)
(***************************************************************************)
VerdictNamesFirstAbort ==
  /\ runEnd = "cancelled" => runCause = "client"
  /\ runEnd = "timeout" => runCause \in {"timer", "call"}

(***************************************************************************)
(* A run ends: a step that takes no notice of the signal outlives the time *)
(* limit, but each of its awaits has a bound of its own, and the text call *)
(* notices what has happened meanwhile, so that no run is under way for    *)
(* ever, whether or not the gateway answers.                               *)
(***************************************************************************)
RunEnds == runAt # "idle" ~> runAt = "over"
=============================================================================

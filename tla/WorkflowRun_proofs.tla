------------------------- MODULE WorkflowRun_proofs -------------------------
(***************************************************************************)
(* Proofs about WorkflowRun, for runs of every kind: the verdict names     *)
(* what came first, nothing is sent after an abort, and the log of a run   *)
(* is closed; about SpeakerPrefix, the filter a group run puts its reply   *)
(* through; and about PromptAssembly, what such a run puts before the      *)
(* model and who speaks.  The three share no state.                        *)
(***************************************************************************)
EXTENDS WorkflowRun, SpeakerPrefix, PromptAssembly, Lists_proofs, SequenceTheorems, FiniteSetTheorems, TLAPS

-----------------------------------------------------------------------------
(***************************************************************************)
(* The verdict.  An abort leaves a trace of its own besides being first,   *)
(* which is what the catch of the runtime asks for.                        *)
(***************************************************************************)
VerdictInv ==
  /\ runTimer \in {"none", "armed", "fired", "cleared"}
  /\ runGone \in BOOLEAN
  /\ runCause \in {"none", "client", "timer", "call"}
  /\ runAt \in {"idle", "memory", "searching", "calling", "waiting", "over"}
  /\ runAt # "over" => runEnd = "none"
  /\ runAt = "idle" => runCause = "none" /\ runTimer = "none"
  /\ runGone => runCause # "none"
  /\ runTimer = "fired" => runCause # "none"
  /\ runCause = "client" => runGone
  /\ runCause = "timer" => runTimer = "fired"
  /\ VerdictNamesFirstAbort

\* Where a step leads, whatever it emits.
LEMMA FailRunEnds ==
  ASSUME NEW error, FailRun(error)
  PROVE  /\ runAt' = "over" /\ UNCHANGED <<runGone, runSent, runReply, runKind>>
         /\ runTimer' = IF runTimer = "armed" THEN "cleared" ELSE runTimer
         /\ runEnd' = IF Verdict(error).phase = "cancelled" THEN "cancelled" ELSE Verdict(error).code
BY DEF FailRun

LEMMA VerdictOf ==
  ASSUME NEW error
  PROVE  /\ error = "Other" => Verdict(error) = [phase |-> "failed", code |-> "step_failed"]
         /\ error = "TimeoutError" => Verdict(error) = [phase |-> "failed", code |-> "timeout"]
         /\ error = "AbortError" /\ runGone => Verdict(error) = [phase |-> "cancelled", code |-> "none"]
BY DEF Verdict, TimedOut

LEMMA VerdictStep ==
  ASSUME VerdictInv, RunNext
  PROVE  VerdictInv'
<1> USE DEF VerdictInv, VerdictNamesFirstAbort
<1>1. CASE RunStart
  <2>1. PICK kind \in RunKinds, ids \in {"opaque", "malformed"} :
          /\ runTimer' = "armed"
          /\ IF Accepted(ids) THEN runAt' = FirstAwait(Steps(kind)[1]) /\ UNCHANGED runEnd
             ELSE runAt' = "over" /\ runEnd' = "rejected"
    BY <1>1 DEF RunStart
  <2>2. FirstAwait(Steps(kind)[1]) \in {"memory", "calling"}
    BY DEF FirstAwait
  <2>3. runAt = "idle" /\ UNCHANGED <<runGone, runCause>>
    BY <1>1 DEF RunStart
  <2>4. runEnd = "none"
    BY <2>3
  <2> QED
    BY <2>1, <2>2, <2>3, <2>4
<1>2. CASE ReadMemory \/ SearchKnowledge \/ SearchTimesOut
  <2>1. runAt' \in {"searching", "memory", "calling"} /\ runAt # "over"
        /\ UNCHANGED <<runTimer, runGone, runCause, runEnd>>
    BY <1>2 DEF ReadMemory, SearchKnowledge, SearchTimesOut, NextStep, FirstAwait
  <2> QED
    BY <2>1
<1>3. CASE SendText
  BY <1>3 DEF SendText
<1>4. CASE NoticeAbort
  <2>1. /\ runCause \in {"client", "timer"} /\ runCause' = runCause
        /\ FailRun(IF runCause = "client" THEN "AbortError" ELSE "TimeoutError")
    BY <1>4 DEF NoticeAbort
  <2>2. CASE runCause = "client"
    <3>1. FailRun("AbortError") /\ runGone
      BY <2>1, <2>2
    <3>2. runEnd' = "cancelled"
      <4>1. Verdict("AbortError") = [phase |-> "cancelled", code |-> "none"]
        BY <3>1, VerdictOf
      <4>2. runEnd' = IF Verdict("AbortError").phase = "cancelled" THEN "cancelled" ELSE Verdict("AbortError").code
        BY <3>1, FailRunEnds
      <4> QED
        BY <4>1, <4>2
    <3> QED
      BY <2>1, <2>2, <3>1, <3>2, FailRunEnds
  <2>3. CASE runCause = "timer"
    <3>1. FailRun("TimeoutError")
      BY <2>1, <2>3
    <3>2. runEnd' = "timeout"
      BY <3>1, FailRunEnds, VerdictOf
    <3> QED
      BY <2>1, <2>3, <3>1, <3>2, FailRunEnds
  <2> QED
    BY <2>1, <2>2, <2>3
<1>5. CASE CallTimesOut
  <2>1. FailRun("TimeoutError") /\ runCause = "none" /\ runCause' = "call"
    BY <1>5 DEF CallTimesOut
  <2>2. runEnd' = "timeout"
    BY <2>1, FailRunEnds, VerdictOf
  <2> QED
    BY <2>1, <2>2, FailRunEnds
<1>6. ASSUME FailRun("Other"), UNCHANGED runCause
      PROVE  VerdictInv'
  <2>1. runEnd' = "step_failed"
    BY <1>6, FailRunEnds, VerdictOf
  <2> QED
    BY <1>6, <2>1, FailRunEnds
<1>7. CASE NetworkFails \/ RefusedByGateway
  BY <1>6, <1>7 DEF NetworkFails, RefusedByGateway
<1>8. CASE CompleteRun
  <2>1. \/ FailRun("Other")
        \/ /\ runAt' = "over" /\ runEnd' = "returned" /\ runGone' = runGone
           /\ runTimer' = IF runTimer = "armed" THEN "cleared" ELSE runTimer
    BY <1>8 DEF CompleteRun
  <2>2. runCause' = runCause
    BY <1>8 DEF CompleteRun
  <2> QED
    BY <1>6, <2>1, <2>2
<1>9. CASE GatewayReplies
  BY <1>9 DEF GatewayReplies
<1>10. CASE TimerFires
  BY <1>10 DEF TimerFires, First
<1>11. CASE ClientLeaves
  BY <1>11 DEF ClientLeaves, First
<1> QED
  BY <1>1, <1>2, <1>3, <1>4, <1>5, <1>7, <1>8, <1>9, <1>10, <1>11 DEF RunNext, RunHandle

(***************************************************************************)
(* A run ends as cancelled only if the client left first, and as timed out *)
(* only if a time-out came first (runWorkflow's catch), for runs of every  *)
(* kind and however long the abort went unnoticed.                         *)
(***************************************************************************)
THEOREM RunVerdict == RunSpec => []VerdictNamesFirstAbort
<1>1. RunInit => VerdictInv
  BY DEF RunInit, VerdictInv, VerdictNamesFirstAbort
<1>2. VerdictInv /\ UNCHANGED runVars => VerdictInv'
  BY DEF VerdictInv, VerdictNamesFirstAbort, runVars
<1>3. VerdictInv => VerdictNamesFirstAbort
  BY DEF VerdictInv
<1> QED
  BY <1>1, <1>2, <1>3, VerdictStep, PTL DEF RunSpec

-----------------------------------------------------------------------------
(***************************************************************************)
(* The log.  While a run goes on none of its events ends it, and the steps *)
(* named so far are those up to the one under way.                         *)
(***************************************************************************)
Quiet(s) == \A i \in DOMAIN s : ~EndsRun(s[i])

StepNames(s) == {s[i].step : i \in {j \in DOMAIN s : s[j].entity = "step"}}

InOrder(s) ==
  \A i, j \in DOMAIN s :
    i < j /\ s[i].entity = "step" /\ s[j].entity = "step" /\ s[i].step # s[j].step
    => s[i].step = "build" /\ s[j].step = "stream"

\* The last event of a piece of log, and no other, ends the run.
Closing(s) == s # <<>> /\ \A i \in DOMAIN s : EndsRun(s[i]) <=> i = Len(s)

TwoSteps == runKind \in {"roleplay", "speaker"}

\* Where the run stands, and the steps the log may name by then.
InBuild == TwoSteps /\ runStep = 1 /\ StepNames(runEvents) \subseteq {"build"}

InText ==
  \/ runKind = "chat" /\ runStep = 1 /\ StepNames(runEvents) \subseteq {"stream"}
  \/ runKind = "schedule" /\ runStep = 1 /\ StepNames(runEvents) \subseteq {"schedule"}
  \/ TwoSteps /\ runStep = 2 /\ StepNames(runEvents) \subseteq {"build", "stream"}

LogInv ==
  /\ runEvents \in Seq(Event)
  /\ runAt \in {"idle", "memory", "searching", "calling", "waiting", "over"}
  /\ runReply \in {"none", "stream", "json", "unauthorized", "error"}
  /\ runAt = "idle" => runEvents = <<>>
  /\ runAt \in {"memory", "searching"} => InBuild
  /\ runAt \in {"calling", "waiting"} => InText
  /\ runAt = "waiting" => runSent
  /\ runAt # "over" => Quiet(runEvents)
  /\ InOrder(runEvents)
  /\ RunLogClosed

LEMMA EmptyLog == <<>> \in Seq(Event) /\ Quiet(<<>>) /\ InOrder(<<>>) /\ StepNames(<<>>) = {}
BY EmptySeq DEF Quiet, InOrder, StepNames

\* One event as a piece of log.
LEMMA OneEvent ==
  ASSUME NEW e \in Event
  PROVE  /\ <<e>> \in Seq(Event)
         /\ ~EndsRun(e) => Quiet(<<e>>)
         /\ StepNames(<<e>>) \subseteq {e.step}
         /\ e.entity # "step" => StepNames(<<e>>) = {}
BY DEF Quiet, StepNames

\* Two pieces of log, one after the other.
LEMMA LogGrows ==
  ASSUME NEW s \in Seq(Event), NEW t \in Seq(Event)
  PROVE  /\ s \o t \in Seq(Event)
         /\ Quiet(s) /\ Quiet(t) => Quiet(s \o t)
         /\ StepNames(s \o t) = StepNames(s) \cup StepNames(t)
<1>1. /\ s \o t \in Seq(Event) /\ Len(s) \in Nat /\ Len(t) \in Nat
      /\ DOMAIN s = 1 .. Len(s) /\ DOMAIN t = 1 .. Len(t) /\ DOMAIN (s \o t) = 1 .. Len(s) + Len(t)
      /\ \A i \in 1 .. Len(s) : (s \o t)[i] = s[i]
      /\ \A i \in 1 .. Len(t) : (s \o t)[Len(s) + i] = t[i]
  BY ConcatProperties, LenProperties
<1>2. \A i \in DOMAIN (s \o t) :
        \/ i \in DOMAIN s /\ (s \o t)[i] = s[i]
        \/ i - Len(s) \in DOMAIN t /\ (s \o t)[i] = t[i - Len(s)]
  <2> SUFFICES ASSUME NEW i \in DOMAIN (s \o t), i > Len(s)
               PROVE  i - Len(s) \in DOMAIN t /\ (s \o t)[i] = t[i - Len(s)]
    BY <1>1
  <2>1. i - Len(s) \in 1 .. Len(t) /\ Len(s) + (i - Len(s)) = i
    BY <1>1
  <2> QED
    BY <1>1, <2>1
<1>3. Quiet(s) /\ Quiet(t) => Quiet(s \o t)
  BY <1>2 DEF Quiet
<1>4. ASSUME NEW x \in StepNames(s \o t) PROVE x \in StepNames(s) \cup StepNames(t)
  BY <1>2 DEF StepNames
<1>5. ASSUME NEW x \in StepNames(s) PROVE x \in StepNames(s \o t)
  <2>1. PICK i \in DOMAIN s : s[i].entity = "step" /\ x = s[i].step
    BY DEF StepNames
  <2>2. i \in DOMAIN (s \o t) /\ (s \o t)[i] = s[i]
    BY <1>1
  <2> QED
    BY <2>1, <2>2 DEF StepNames
<1>6. ASSUME NEW x \in StepNames(t) PROVE x \in StepNames(s \o t)
  <2>1. PICK i \in DOMAIN t : t[i].entity = "step" /\ x = t[i].step
    BY DEF StepNames
  <2>2. Len(s) + i \in DOMAIN (s \o t) /\ (s \o t)[Len(s) + i] = t[i]
    BY <1>1
  <2> QED
    BY <2>1, <2>2 DEF StepNames
<1> QED
  BY <1>1, <1>3, <1>4, <1>5, <1>6

\* The steps stay in order when what is added names later ones.
LEMMA OrderKept ==
  ASSUME NEW s \in Seq(Event), NEW t \in Seq(Event), InOrder(s), InOrder(t),
         \A x \in StepNames(s), y \in StepNames(t) : x # y => x = "build" /\ y = "stream"
  PROVE  InOrder(s \o t)
<1>1. /\ Len(s) \in Nat /\ Len(t) \in Nat
      /\ DOMAIN s = 1 .. Len(s) /\ DOMAIN t = 1 .. Len(t) /\ DOMAIN (s \o t) = 1 .. Len(s) + Len(t)
      /\ \A i \in 1 .. Len(s) : (s \o t)[i] = s[i]
      /\ \A i \in 1 .. Len(s) + Len(t) : i > Len(s) => (s \o t)[i] = t[i - Len(s)]
  BY ConcatProperties, LenProperties
<1> DEFINE u == s \o t
<1> SUFFICES ASSUME NEW i \in DOMAIN u, NEW j \in DOMAIN u, i < j,
                    u[i].entity = "step", u[j].entity = "step", u[i].step # u[j].step
             PROVE  u[i].step = "build" /\ u[j].step = "stream"
  BY DEF InOrder
<1>2. CASE j <= Len(s)
  <2>1. i \in DOMAIN s /\ j \in DOMAIN s /\ u[i] = s[i] /\ u[j] = s[j]
    BY <1>1, <1>2
  <2> QED
    BY <2>1 DEF InOrder
<1>3. CASE i > Len(s)
  <2>1. i - Len(s) \in DOMAIN t /\ j - Len(s) \in DOMAIN t /\ u[i] = t[i - Len(s)] /\ u[j] = t[j - Len(s)]
        /\ i - Len(s) < j - Len(s)
    BY <1>1, <1>3
  <2> QED
    BY <2>1 DEF InOrder
<1>4. CASE i <= Len(s) /\ j > Len(s)
  <2>1. i \in DOMAIN s /\ j - Len(s) \in DOMAIN t /\ u[i] = s[i] /\ u[j] = t[j - Len(s)]
    BY <1>1, <1>4
  <2>2. u[i].step \in StepNames(s) /\ u[j].step \in StepNames(t)
    BY <2>1 DEF StepNames
  <2> QED
    BY <2>2
<1> QED
  BY <1>1, <1>2, <1>3, <1>4

LEMMA OneStepInOrder ==
  ASSUME NEW s \in Seq(Event), NEW x, StepNames(s) \subseteq {x}
  PROVE  InOrder(s)
<1>1. ASSUME NEW i \in DOMAIN s, s[i].entity = "step" PROVE s[i].step = x
  <2>1. s[i].step \in StepNames(s)
    BY <1>1 DEF StepNames
  <2> QED
    BY <2>1
<1> QED
  BY <1>1 DEF InOrder

\* A log that was quiet is closed by a piece that closes.
LEMMA LogCloses ==
  ASSUME NEW s \in Seq(Event), NEW t \in Seq(Event), Quiet(s), Closing(t)
  PROVE  Closing(s \o t) /\ (s \o t)[Len(s \o t)] = t[Len(t)]
<1>1. /\ Len(s) \in Nat /\ Len(t) \in Nat \ {0} /\ Len(s \o t) = Len(s) + Len(t)
      /\ DOMAIN s = 1 .. Len(s) /\ DOMAIN t = 1 .. Len(t) /\ DOMAIN (s \o t) = 1 .. Len(s) + Len(t)
      /\ \A i \in 1 .. Len(s) : (s \o t)[i] = s[i]
      /\ \A i \in 1 .. Len(s) + Len(t) : i > Len(s) => (s \o t)[i] = t[i - Len(s)]
  BY ConcatProperties, LenProperties, EmptySeq DEF Closing
<1>2. s \o t # <<>>
  BY <1>1
<1>3. (s \o t)[Len(s \o t)] = t[Len(t)]
  <2>1. Len(s) + Len(t) \in 1 .. Len(s) + Len(t) /\ Len(s) + Len(t) > Len(s) /\ (Len(s) + Len(t)) - Len(s) = Len(t)
    BY <1>1
  <2> QED
    BY <1>1, <2>1
<1>4. ASSUME NEW i \in DOMAIN (s \o t) PROVE EndsRun((s \o t)[i]) <=> i = Len(s \o t)
  <2>1. CASE i <= Len(s)
    <3>1. i \in DOMAIN s /\ (s \o t)[i] = s[i] /\ i # Len(s \o t)
      BY <1>1, <2>1
    <3> QED
      BY <3>1 DEF Quiet
  <2>2. CASE i > Len(s)
    <3>1. i - Len(s) \in DOMAIN t /\ (s \o t)[i] = t[i - Len(s)] /\ (i - Len(s) = Len(t) <=> i = Len(s \o t))
      BY <1>1, <2>2
    <3> QED
      BY <3>1 DEF Closing
  <2> QED
    BY <1>1, <2>1, <2>2
<1> QED
  BY <1>2, <1>3, <1>4 DEF Closing

-----------------------------------------------------------------------------
Steps_ == {"build", "stream", "schedule"}

LEMMA EventsAre ==
  /\ \A e \in {"run", "step", "capability"},
        p \in {"started", "completed", "failed", "cancelled", "degraded"},
        x \in Steps_ \cup {"none"},
        c \in {"none", "timeout", "step_failed", "memory_unavailable", "knowledge_unavailable"} :
          Ev(e, p, x, c) \in Event
  /\ \A e, p, x, c : Ev(e, p, x, c).entity = e /\ Ev(e, p, x, c).phase = p /\ Ev(e, p, x, c).step = x
BY DEF Ev, Event, Steps_

\* The pieces of log that do not end a run name one step at most.
LEMMA OpeningLog ==
  ASSUME NEW x \in Steps_
  PROVE  Opening(x) \in Seq(Event) /\ Quiet(Opening(x)) /\ StepNames(Opening(x)) \subseteq {x}
<1> DEFINE a == Ev("step", "started", x, "none")
           b == Ev("capability", "started", x, "none")
<1>1. /\ <<a>> \in Seq(Event) /\ Quiet(<<a>>) /\ StepNames(<<a>>) \subseteq {x}
      /\ <<b>> \in Seq(Event) /\ Quiet(<<b>>) /\ StepNames(<<b>>) = {}
  <2>1. a \in Event /\ ~EndsRun(a) /\ a.step = x /\ b \in Event /\ ~EndsRun(b) /\ b.entity # "step"
    BY EventsAre DEF EndsRun
  <2> HIDE DEF a, b
  <2> QED
    BY <2>1, OneEvent
<1>2. Opening(x) = <<a>> \o (IF x = "build" THEN <<>> ELSE <<b>>)
  BY DEF Opening
<1> HIDE DEF a, b
<1>3. CASE x = "build"
  <2>1. Opening(x) = <<a>> \o <<>>
    BY <1>2, <1>3
  <2> QED
    BY <1>1, <2>1, LogGrows, EmptyLog
<1>4. CASE x # "build"
  <2>1. Opening(x) = <<a>> \o <<b>>
    BY <1>2, <1>4
  <2> QED
    BY <1>1, <2>1, LogGrows
<1> QED
  BY <1>3, <1>4

LEMMA DegradedLog ==
  ASSUME NEW outcome, NEW code \in {"memory_unavailable", "knowledge_unavailable"}
  PROVE  /\ Degraded(outcome, code) \in Seq(Event) /\ Quiet(Degraded(outcome, code))
         /\ StepNames(Degraded(outcome, code)) \subseteq {"build"}
<1> DEFINE a == Ev("step", "degraded", "build", code)
<1>1. a \in Event /\ ~EndsRun(a) /\ a.step = "build"
  BY EventsAre DEF EndsRun, Steps_
<1>2. Degraded(outcome, code) = <<>> \/ Degraded(outcome, code) = <<a>>
  BY DEF Degraded
<1> HIDE DEF a
<1> QED
  BY <1>1, <1>2, OneEvent, EmptyLog

LEMMA BuildLog ==
  LET a == Ev("step", "completed", "build", "none")
  IN  <<a, a>> \in Seq(Event) /\ Quiet(<<a, a>>) /\ StepNames(<<a, a>>) \subseteq {"build"}
<1> DEFINE a == Ev("step", "completed", "build", "none")
<1>1. a \in Event /\ ~EndsRun(a) /\ a.step = "build"
  BY EventsAre DEF EndsRun, Steps_
<1> HIDE DEF a
<1>2. <<a, a>> \in Seq(Event) /\ Quiet(<<a, a>>) /\ StepNames(<<a, a>>) \subseteq {"build"}
  BY <1>1 DEF Quiet, StepNames
<1> QED
  BY <1>2 DEF a

LEMMA StepsAre ==
  /\ \A k \in RunKinds : Steps(k)[1] \in Steps_
  /\ Steps("chat")[1] = "stream" /\ Steps("schedule")[1] = "schedule"
  /\ \A k \in {"roleplay", "speaker"} : Steps(k)[1] = "build" /\ Steps(k)[2] = "stream"
BY DEF Steps, RunKinds, Steps_

LEMMA CurrentIs ==
  /\ InBuild => Current = "build" /\ Steps(runKind)[runStep + 1] = "stream"
  /\ InText => Current \in {"stream", "schedule"} /\ \A x \in StepNames(runEvents) : x # Current => x = "build" /\ Current = "stream"
<1>1. InBuild => Current = "build" /\ Steps(runKind)[runStep + 1] = "stream"
  BY StepsAre DEF InBuild, TwoSteps, Current
<1>2. ASSUME InText
      PROVE  Current \in {"stream", "schedule"} /\ \A x \in StepNames(runEvents) : x # Current => x = "build" /\ Current = "stream"
  BY <1>2, StepsAre DEF InText, TwoSteps, Current
<1> QED
  BY <1>1, <1>2

-----------------------------------------------------------------------------
\* A run that starts.
LEMMA LogStarts ==
  ASSUME LogInv, RunStart
  PROVE  LogInv'
<1>1. PICK kind \in RunKinds, ids \in {"opaque", "malformed"} :
        /\ runKind' = kind
        /\ IF Accepted(ids)
           THEN /\ runEvents' = <<Ev("run", "started", "none", "none")>> \o Opening(Steps(kind)[1])
                /\ runStep' = 1
                /\ runAt' = FirstAwait(Steps(kind)[1])
                /\ UNCHANGED runEnd
           ELSE /\ runAt' = "over" /\ runEnd' = "rejected"
                /\ UNCHANGED <<runEvents, runStep>>
  BY DEF RunStart
<1>2. /\ runAt = "idle" /\ runEvents = <<>> /\ UNCHANGED <<runSent, runReply>>
      /\ runReply \in {"none", "stream", "json", "unauthorized", "error"}
  BY DEF RunStart, LogInv
<1>3. CASE ~Accepted(ids)
  <2>1. runAt' = "over" /\ runEnd' = "rejected" /\ runEvents' = <<>>
    BY <1>1, <1>2, <1>3
  <2>2. RunLogClosed'
    BY <2>1 DEF RunLogClosed
  <2> QED
    BY <1>2, <2>1, <2>2, EmptyLog DEF LogInv
<1>4. CASE Accepted(ids)
  <2> DEFINE x == Steps(kind)[1]
             a == Ev("run", "started", "none", "none")
  <2>1. x \in Steps_ /\ runEvents' = <<a>> \o Opening(x) /\ runStep' = 1 /\ runAt' = FirstAwait(x) /\ runKind' = kind
    BY <1>1, <1>4, StepsAre
  <2>2. <<a>> \in Seq(Event) /\ Quiet(<<a>>) /\ StepNames(<<a>>) = {}
    <3>1. a \in Event /\ ~EndsRun(a) /\ a.entity # "step"
      BY EventsAre DEF EndsRun
    <3> HIDE DEF a
    <3> QED
      BY <3>1, OneEvent
  <2> HIDE DEF a
  <2>3. runEvents' \in Seq(Event) /\ Quiet(runEvents') /\ StepNames(runEvents') \subseteq {x}
    BY <2>1, <2>2, LogGrows, OpeningLog
  <2>4. InOrder(runEvents')
    BY <2>3, OneStepInOrder
  <2>5. /\ runAt' \in {"memory", "calling"}
        /\ runAt' = "memory" => InBuild'
        /\ runAt' = "calling" => InText'
    BY <2>1, <2>3, StepsAre DEF FirstAwait, InBuild, InText, TwoSteps, RunKinds
  <2>6. RunLogClosed'
    BY <2>3, <2>4, <2>5 DEF Quiet, InOrder, RunLogClosed, EndsRun, Ev
  <2> QED
    BY <1>2, <2>3, <2>4, <2>5, <2>6 DEF LogInv
<1> QED
  BY <1>3, <1>4

\* From the build step to the text step.
LEMMA LogGoesOn ==
  ASSUME LogInv, NEW outcome, NEW code \in {"memory_unavailable", "knowledge_unavailable"},
         runAt \in {"memory", "searching"}, NextStep(Degraded(outcome, code)),
         UNCHANGED <<runKind, runSent, runReply, runEnd>>
  PROVE  LogInv'
<1> DEFINE d == Degraded(outcome, code)
           a == Ev("step", "completed", "build", "none")
           b == <<a, a>>
<1>1. /\ InBuild /\ Current = "build" /\ Steps(runKind)[runStep + 1] = "stream"
      /\ runEvents \in Seq(Event) /\ Quiet(runEvents) /\ StepNames(runEvents) \subseteq {"build"}
  BY CurrentIs DEF LogInv, InBuild
<1>2. /\ runEvents' = runEvents \o d \o b \o Opening("stream")
      /\ runStep' = runStep + 1 /\ runAt' = "calling"
  BY <1>1 DEF NextStep, FirstAwait
<1>3. d \in Seq(Event) /\ Quiet(d) /\ StepNames(d) \subseteq {"build"}
  BY DegradedLog
<1>4. b \in Seq(Event) /\ Quiet(b) /\ StepNames(b) \subseteq {"build"}
  BY BuildLog
<1>5. Opening("stream") \in Seq(Event) /\ Quiet(Opening("stream")) /\ StepNames(Opening("stream")) \subseteq {"stream"}
  BY OpeningLog DEF Steps_
<1> HIDE DEF d, b
<1>6. runEvents \o d \in Seq(Event) /\ Quiet(runEvents \o d) /\ StepNames(runEvents \o d) \subseteq {"build"}
  BY <1>1, <1>3, LogGrows
<1> DEFINE e == runEvents \o d
<1> HIDE DEF e
<1>7. e \o b \in Seq(Event) /\ Quiet(e \o b) /\ StepNames(e \o b) \subseteq {"build"}
  BY <1>4, <1>6, LogGrows DEF e
<1> DEFINE g == e \o b
<1>8. runEvents' = g \o Opening("stream")
  BY <1>2 DEF e
<1> HIDE DEF g
<1>9. g \in Seq(Event) /\ Quiet(g) /\ StepNames(g) \subseteq {"build"} /\ InOrder(g)
  BY <1>7, OneStepInOrder DEF g
<1>10. runEvents' \in Seq(Event) /\ Quiet(runEvents') /\ StepNames(runEvents') \subseteq {"build", "stream"}
  BY <1>5, <1>8, <1>9, LogGrows
<1>11. InOrder(runEvents')
  <2>1. InOrder(Opening("stream"))
    BY <1>5, OneStepInOrder
  <2> QED
    BY <1>5, <1>8, <1>9, <2>1, OrderKept
<1>12. InText'
  BY <1>1, <1>2, <1>10 DEF InBuild, InText, TwoSteps
<1>13. RunLogClosed'
  <2>1. \A i \in DOMAIN runEvents' : ~EndsRun(runEvents'[i])
    BY <1>10 DEF Quiet
  <2>2. \A i \in DOMAIN runEvents' : runEvents'[i] # Ev("run", "completed", "none", "none")
    BY <2>1, EventsAre DEF EndsRun
  <2>3. runAt' # "over"
    BY <1>2
  <2>4. \A i, j \in DOMAIN runEvents' :
          i < j /\ runEvents'[i].entity = "step" /\ runEvents'[j].entity = "step"
                /\ runEvents'[i].step # runEvents'[j].step
          => runEvents'[i].step = "build" /\ runEvents'[j].step = "stream"
    BY <1>11 DEF InOrder
  <2> HIDE DEF g
  <2> QED
    BY <2>1, <2>2, <2>3, <2>4 DEF RunLogClosed, EndsRun
<1> QED
  BY <1>2, <1>10, <1>11, <1>12, <1>13 DEF LogInv

\* A run whose last events end it, with success or without.
LEMMA LogEnds ==
  ASSUME LogInv, runAt \in {"calling", "waiting"}, NEW t \in Seq(Event),
         runEvents' = runEvents \o t, runAt' = "over", UNCHANGED <<runSent, runReply>>,
         Closing(t), StepNames(t) \subseteq {Current},
         t[Len(t)] = Ev("run", "completed", "none", "none") =>
           runEnd' = "returned" /\ runSent /\ runReply \in {"stream", "json"}
  PROVE  LogInv'
<1>1. runEvents \in Seq(Event) /\ Quiet(runEvents) /\ InText /\ InOrder(runEvents)
  BY DEF LogInv
<1>2. runEvents' \in Seq(Event) /\ Closing(runEvents') /\ runEvents'[Len(runEvents')] = t[Len(t)]
  BY <1>1, LogGrows, LogCloses
<1>3. InOrder(runEvents')
  <2>1. \A x \in StepNames(runEvents), y \in StepNames(t) : x # y => x = "build" /\ y = "stream"
    BY <1>1, CurrentIs
  <2> QED
    BY <1>1, <2>1, OneStepInOrder, OrderKept
<1>4. Len(runEvents') \in DOMAIN runEvents'
  BY <1>2, LenProperties, EmptySeq DEF Closing
<1>5. ASSUME NEW i \in DOMAIN runEvents', runEvents'[i] = Ev("run", "completed", "none", "none")
      PROVE  runEnd' = "returned" /\ runSent' /\ runReply' \in {"stream", "json"}
  <2>1. EndsRun(runEvents'[i])
    BY <1>5 DEF EndsRun, Ev
  <2>2. i = Len(runEvents')
    BY <1>2, <2>1 DEF Closing
  <2> QED
    BY <1>2, <1>5, <2>2
<1>6. RunLogClosed'
  BY <1>2, <1>3, <1>4, <1>5 DEF RunLogClosed, Closing, InOrder
<1> QED
  BY <1>2, <1>3, <1>6 DEF LogInv

\* FailRun closes the log with two events.
LEMMA LogFails ==
  ASSUME LogInv, runAt \in {"calling", "waiting"}, NEW error, FailRun(error)
  PROVE  LogInv'
<1>1. PICK p \in {"failed", "cancelled"}, c \in {"none", "timeout", "step_failed"} :
        runEvents' = runEvents \o <<Ev("step", p, Current, c), Ev("run", p, "none", c)>>
  <2>1. Verdict(error).phase \in {"failed", "cancelled"} /\ Verdict(error).code \in {"none", "timeout", "step_failed"}
    BY DEF Verdict
  <2> QED
    BY <2>1 DEF FailRun
<1>2. runAt' = "over" /\ UNCHANGED <<runSent, runReply>>
  BY DEF FailRun
<1> DEFINE a == Ev("step", p, Current, c)
           b == Ev("run", p, "none", c)
<1>3. Current \in Steps_
  BY CurrentIs DEF LogInv, Steps_
<1>4. /\ a \in Event /\ ~EndsRun(a) /\ a.step = Current
      /\ b \in Event /\ EndsRun(b) /\ b.entity # "step"
      /\ b # Ev("run", "completed", "none", "none")
  BY <1>3, EventsAre DEF EndsRun
<1>5. runEvents' = runEvents \o <<a, b>>
  BY <1>1
<1> HIDE DEF a, b
<1>6. <<a, b>> \in Seq(Event) /\ Closing(<<a, b>>) /\ StepNames(<<a, b>>) \subseteq {Current}
      /\ <<a, b>>[Len(<<a, b>>)] = b
  BY <1>4 DEF Closing, StepNames
<1> DEFINE t == <<a, b>>
<1>7. t \in Seq(Event) /\ Closing(t) /\ StepNames(t) \subseteq {Current} /\ runEvents' = runEvents \o t
      /\ t[Len(t)] # Ev("run", "completed", "none", "none")
  BY <1>4, <1>5, <1>6
<1> HIDE DEF t
<1> QED
  BY <1>2, <1>7, LogEnds

\* A stream ends with three events, the last of them run.completed.
LEMMA LogSucceeds ==
  ASSUME LogInv, CompleteRun
  PROVE  LogInv'
<1>1. PICK requestId \in {"absent", "opaque", "malformed"} :
       IF Accepted(requestId) \/ runKind = "schedule"
       THEN /\ runEvents' = runEvents \o
                 <<Ev("capability", "completed", Current, "none"),
                   Ev("step", "completed", Current, "none"), Ev("run", "completed", "none", "none")>>
            /\ runAt' = "over"
            /\ runEnd' = "returned"
            /\ UNCHANGED <<runSent, runReply>>
       ELSE FailRun("Other")
  BY DEF CompleteRun
<1>2. runAt = "waiting" /\ runSent /\ runReply \in {"stream", "json"}
  BY DEF CompleteRun, Usable, LogInv
<1>3. CASE ~(Accepted(requestId) \/ runKind = "schedule")
  BY <1>1, <1>2, <1>3, LogFails
<1>4. CASE Accepted(requestId) \/ runKind = "schedule"
  <2> DEFINE a == Ev("capability", "completed", Current, "none")
             b == Ev("step", "completed", Current, "none")
             c == Ev("run", "completed", "none", "none")
  <2>1. Current \in Steps_
    BY <1>2, CurrentIs DEF LogInv, Steps_
  <2>2. /\ a \in Event /\ ~EndsRun(a) /\ a.entity # "step"
        /\ b \in Event /\ ~EndsRun(b) /\ b.step = Current
        /\ c \in Event /\ EndsRun(c) /\ c.entity # "step"
    BY <2>1, EventsAre DEF EndsRun
  <2>3. runEvents' = runEvents \o <<a, b, c>> /\ runAt' = "over" /\ runEnd' = "returned" /\ UNCHANGED <<runSent, runReply>>
    BY <1>1, <1>4
  <2> HIDE DEF a, b, c
  <2> DEFINE t == <<a, b, c>>
  <2>4. t \in Seq(Event) /\ Closing(t)
    BY <2>2 DEF Closing
  <2>5. StepNames(t) \subseteq {Current}
    BY <2>2 DEF StepNames
  <2>6. runEvents' = runEvents \o t
    BY <2>3
  <2> HIDE DEF t
  <2> QED
    BY <1>2, <2>3, <2>4, <2>5, <2>6, LogEnds
<1> QED
  BY <1>3, <1>4

\* Steps that leave the log and the run where they are.
LEMMA LogRests ==
  ASSUME LogInv, UNCHANGED <<runKind, runAt, runStep, runEvents, runEnd>>,
         runSent => runSent', runAt = "waiting" => runSent',
         runReply' \in {"none", "stream", "json", "unauthorized", "error"},
         runReply = "none" \/ runReply' = runReply
  PROVE  LogInv'
<1>1. RunLogClosed'
  BY DEF LogInv, RunLogClosed, EndsRun
<1>2. InBuild' = InBuild /\ InText' = InText
  BY DEF InBuild, InText, TwoSteps
<1> QED
  BY <1>1, <1>2 DEF LogInv

LEMMA LogStep ==
  ASSUME LogInv, [RunNext]_runVars
  PROVE  LogInv'
<1>1. CASE RunStart
  BY <1>1, LogStarts
<1>2. CASE ReadMemory
  <2>1. PICK outcome \in {"ok", "error"}, search \in BOOLEAN :
          IF search
          THEN /\ runEvents' = runEvents \o Degraded(outcome, "memory_unavailable")
               /\ runAt' = "searching"
               /\ UNCHANGED runStep
          ELSE NextStep(Degraded(outcome, "memory_unavailable"))
    BY <1>2 DEF ReadMemory
  <2>2. runAt = "memory" /\ UNCHANGED <<runKind, runSent, runReply, runEnd>>
    BY <1>2 DEF ReadMemory
  <2>3. CASE ~search
    BY <2>1, <2>2, <2>3, LogGoesOn
  <2>4. CASE search
    <3> DEFINE d == Degraded(outcome, "memory_unavailable")
    <3>1. d \in Seq(Event) /\ Quiet(d) /\ StepNames(d) \subseteq {"build"}
      BY DegradedLog
    <3>2. runEvents' = runEvents \o d /\ runAt' = "searching" /\ UNCHANGED runStep
      BY <2>1, <2>4
    <3> HIDE DEF d
    <3>3. runEvents \in Seq(Event) /\ Quiet(runEvents) /\ InBuild
      BY <2>2 DEF LogInv
    <3>4. runEvents' \in Seq(Event) /\ Quiet(runEvents') /\ StepNames(runEvents') \subseteq {"build"}
      BY <3>1, <3>2, <3>3, LogGrows DEF InBuild
    <3>5. InOrder(runEvents')
      BY <3>4, OneStepInOrder
    <3>6. InBuild'
      BY <2>2, <3>2, <3>3, <3>4 DEF InBuild, TwoSteps
    <3>7. RunLogClosed'
      <4>1. \A i \in DOMAIN runEvents' : ~EndsRun(runEvents'[i])
        BY <3>4 DEF Quiet
      <4>2. \A i \in DOMAIN runEvents' : runEvents'[i] # Ev("run", "completed", "none", "none")
        BY <4>1, EventsAre DEF EndsRun
      <4>3. \A i, j \in DOMAIN runEvents' :
              i < j /\ runEvents'[i].entity = "step" /\ runEvents'[j].entity = "step"
                    /\ runEvents'[i].step # runEvents'[j].step
              => runEvents'[i].step = "build" /\ runEvents'[j].step = "stream"
        BY <3>5 DEF InOrder
      <4> QED
        BY <3>2, <4>1, <4>2, <4>3 DEF RunLogClosed, EndsRun
    <3> QED
      BY <2>2, <3>2, <3>4, <3>5, <3>6, <3>7 DEF LogInv
  <2> QED
    BY <2>3, <2>4
<1>3. CASE SearchKnowledge \/ SearchTimesOut
  <2>1. PICK outcome \in {"ok", "error"} : NextStep(Degraded(outcome, "knowledge_unavailable"))
    BY <1>3 DEF SearchKnowledge, SearchTimesOut
  <2> QED
    BY <1>3, <2>1, LogGoesOn DEF SearchKnowledge, SearchTimesOut
<1>4. CASE SendText
  <2>1. InText' = InText
    BY <1>4 DEF SendText, InText, TwoSteps
  <2>2. RunLogClosed'
    BY <1>4 DEF SendText, LogInv, Quiet, InOrder, RunLogClosed, EndsRun, Ev
  <2> QED
    BY <1>4, <2>1, <2>2 DEF SendText, LogInv
<1>5. CASE NoticeAbort \/ CallTimesOut \/ NetworkFails \/ RefusedByGateway
  <2>1. runAt \in {"calling", "waiting"} /\ \E error : FailRun(error)
    BY <1>5 DEF NoticeAbort, CallTimesOut, NetworkFails, RefusedByGateway
  <2> QED
    BY <2>1, LogFails
<1>6. CASE CompleteRun
  BY <1>6, LogSucceeds
<1>7. CASE GatewayReplies
  BY <1>7, LogRests DEF GatewayReplies, LogInv
<1>8. CASE TimerFires \/ ClientLeaves
  BY <1>8, LogRests DEF TimerFires, ClientLeaves, LogInv
<1>9. CASE UNCHANGED runVars
  BY <1>9, LogRests DEF runVars, LogInv
<1> QED
  BY <1>1, <1>2, <1>3, <1>4, <1>5, <1>6, <1>7, <1>8, <1>9 DEF RunNext, RunHandle

(***************************************************************************)
(* The log of every run is a story with one end: nothing after the event   *)
(* that ends the run, one such event for every run that has begun and is   *)
(* over, steps in order, run.completed for a success of the gateway only   *)
(* (domain/workflow-runtime.ts, runWorkflow).                              *)
(***************************************************************************)
THEOREM RunLogIsClosed == RunSpec => []RunLogClosed
<1>1. RunInit => LogInv
  <2> SUFFICES ASSUME RunInit PROVE LogInv
    OBVIOUS
  <2>1. runEvents = <<>> /\ runAt = "idle" /\ runReply = "none"
    BY DEF RunInit
  <2>2. RunLogClosed
    BY <2>1 DEF RunLogClosed
  <2> QED
    BY <2>1, <2>2, EmptyLog DEF LogInv
<1>2. LogInv /\ [RunNext]_runVars => LogInv'
  BY LogStep
<1>3. LogInv => RunLogClosed
  BY DEF LogInv
<1> QED
  BY <1>1, <1>2, <1>3, PTL DEF RunSpec


-----------------------------------------------------------------------------
(***************************************************************************)
(* The filter of a speaker's own name.                                     *)
(***************************************************************************)
\* What SkipAll chooses.
Skipped(s, i, class, j) ==
  /\ j \in i .. Len(s) + 1
  /\ \A k \in i .. j - 1 : s[k] \in class
  /\ j <= Len(s) => s[j] \notin class

LEMMA SkippedUnique ==
  ASSUME NEW S, NEW s \in Seq(S), NEW class, NEW i \in 1 .. Len(s) + 1,
         NEW j, NEW h, Skipped(s, i, class, j), Skipped(s, i, class, h)
  PROVE  j = h
<1>1. Len(s) \in Nat
  BY LenProperties
<1>2. j \in Nat /\ h \in Nat
  BY <1>1 DEF Skipped
<1>3. ASSUME j < h PROVE FALSE
  <2>1. j \in i .. h - 1 /\ j <= Len(s)
    BY <1>1, <1>2, <1>3 DEF Skipped
  <2> QED BY <2>1 DEF Skipped
<1>4. ASSUME h < j PROVE FALSE
  <2>1. h \in i .. j - 1 /\ h <= Len(s)
    BY <1>1, <1>2, <1>4 DEF Skipped
  <2> QED BY <2>1 DEF Skipped
<1> QED BY <1>2, <1>3, <1>4

LEMMA SkipAllIs ==
  ASSUME NEW S, NEW s \in Seq(S), NEW class, NEW i \in 1 .. Len(s) + 1
  PROVE  /\ Skipped(s, i, class, SkipAll(s, i, class))
         /\ \A j : Skipped(s, i, class, j) => j = SkipAll(s, i, class)
<1>1. Len(s) \in Nat /\ i \in Nat
  BY LenProperties
<1> DEFINE T == {j \in i .. Len(s) + 1 : j <= Len(s) => s[j] \notin class}
<1>2. T \in SUBSET Nat /\ Len(s) + 1 \in T
  BY <1>1
<1>3. PICK j \in T : \A k \in T : j <= k
  <2> HIDE DEF T
  <2> QED BY <1>2, LeastOf
<1>4. Skipped(s, i, class, j)
  <2>1. ASSUME NEW k \in i .. j - 1 PROVE s[k] \in class
    <3>1. k \in i .. Len(s) + 1 /\ k < j
      BY <1>1, <1>3
    <3>2. k \notin T
      BY <1>1, <1>3, <3>1
    <3> QED BY <3>1, <3>2
  <2> QED BY <1>3, <2>1 DEF Skipped
<1>5. SkipAll(s, i, class) = CHOOSE h \in i .. Len(s) + 1 : Skipped(s, i, class, h)
  BY DEF SkipAll, Skipped
<1>6. Skipped(s, i, class, SkipAll(s, i, class))
  BY <1>4, <1>5 DEF Skipped
<1> QED BY <1>6, SkippedUnique

\* A text that is cut off behind what is skipped.
LEMMA SkipInPrefix ==
  ASSUME NEW S, NEW s \in Seq(S), NEW class, NEW e \in 0 .. Len(s), NEW i \in 1 .. e + 1,
         SkipAll(s, i, class) <= e + 1
  PROVE  SkipAll(SubSeq(s, 1, e), i, class) = SkipAll(s, i, class)
<1> DEFINE m == SubSeq(s, 1, e)
<1>1. Len(s) \in Nat /\ e \in Nat /\ \A k \in 1 .. Len(s) : s[k] \in S
  BY LenProperties, ElementOfSeq
<1>2. m \in Seq(S) /\ Len(m) = e /\ \A k \in 1 .. e : m[k] = s[k]
  BY <1>1, SubSeqProperties
<1>3. Skipped(s, i, class, SkipAll(s, i, class))
  BY <1>1, SkipAllIs
<1> HIDE DEF m
<1>4. PICK j : j = SkipAll(s, i, class)
  OBVIOUS
<1>5. j \in i .. e + 1 /\ (\A k \in i .. j - 1 : s[k] \in class) /\ (j <= Len(s) => s[j] \notin class)
  BY <1>1, <1>3, <1>4 DEF Skipped
<1>6. Skipped(m, i, class, j)
  <2>1. \A k \in i .. j - 1 : k \in 1 .. e
    BY <1>1, <1>5
  <2>2. j <= e => m[j] = s[j] /\ j <= Len(s)
    BY <1>1, <1>2, <1>5
  <2> QED BY <1>2, <1>5, <2>1, <2>2 DEF Skipped
<1> QED BY <1>1, <1>2, <1>4, <1>6, SkipAllIs DEF m

LEMMA SkipOneIs ==
  ASSUME NEW S, NEW s \in Seq(S), NEW class, NEW i \in 1 .. Len(s) + 1
  PROVE  /\ SkipOne(s, i, class) \in {i, i + 1} /\ SkipOne(s, i, class) \in 1 .. Len(s) + 1
         /\ \A e \in 0 .. Len(s) : i <= e + 1 /\ SkipOne(s, i, class) <= e + 1
              => SkipOne(SubSeq(s, 1, e), i, class) = SkipOne(s, i, class)
<1>1. Len(s) \in Nat /\ i \in Nat /\ \A k \in 1 .. Len(s) : s[k] \in S
  BY LenProperties, ElementOfSeq
<1>2. SkipOne(s, i, class) \in {i, i + 1} /\ SkipOne(s, i, class) \in 1 .. Len(s) + 1
  BY <1>1 DEF SkipOne
<1>3. ASSUME NEW e \in 0 .. Len(s), i <= e + 1, SkipOne(s, i, class) <= e + 1
      PROVE  SkipOne(SubSeq(s, 1, e), i, class) = SkipOne(s, i, class)
  <2>1. PICK m : m = SubSeq(s, 1, e)
    OBVIOUS
  <2>2. m \in Seq(S) /\ Len(m) = e /\ \A k \in 1 .. e : m[k] = s[k]
    BY <1>1, <2>1, SubSeqProperties
  <2>3. CASE i <= e
    <3>1. m[i] = s[i] /\ i <= Len(s)
      BY <1>1, <2>2, <2>3
    <3> QED BY <2>1, <2>2, <2>3, <3>1 DEF SkipOne
  <2>4. CASE i = e + 1
    <3>1. SkipOne(s, i, class) = i
      BY <1>1, <1>2, <1>3, <2>4
    <3>2. ~(i <= Len(m))
      BY <1>1, <2>2, <2>4
    <3> QED BY <2>1, <3>1, <3>2 DEF SkipOne
  <2> QED BY <1>1, <1>3, <2>3, <2>4
<1> QED BY <1>2, <1>3

\* What comes behind the name.
Behind(s, k) ==
  LET closed == SkipOne(s, k, Closes)
  IN  IF closed > k
      THEN SkipAll(s, SkipOne(s, SkipAll(s, closed, Space), Colons), Space) - 1
      ELSE IF SkipOne(s, k, Colons) > k THEN SkipAll(s, k + 1, Space) - 1
      ELSE k - 1

LEMMA MarkerEndParts ==
  ASSUME NEW s
  PROVE  MarkerEnd(s) = IF NamedAt(s, NameAt(s)) THEN Behind(s, SkipAll(s, NameAt(s) + Len(SpeakerName), Space)) ELSE 0
<1> DEFINE k == SkipAll(s, NameAt(s) + Len(SpeakerName), Space)
<1>1. MarkerEnd(s) = IF ~NamedAt(s, NameAt(s)) THEN 0 ELSE Behind(s, k)
  BY DEF MarkerEnd, Behind
<1> QED BY <1>1

LEMMA NameLength == Len(SpeakerName) \in Nat \ {0}
BY PrefixAssumption, LenProperties

\* The name is where it is, however much of the text behind it is there.
LEMMA NamedInPrefix ==
  ASSUME NEW S, NEW s \in Seq(S), NEW e \in 0 .. Len(s), NEW j \in 1 .. Len(s) + 1
  PROVE  NamedAt(SubSeq(s, 1, e), j) <=> NamedAt(s, j) /\ j + Len(SpeakerName) <= e + 1
<1>1. Len(s) \in Nat /\ e \in Nat /\ j \in Nat \ {0} /\ Len(SpeakerName) \in Nat \ {0}
  BY LenProperties, NameLength
<1>2. PICK m, n : m = SubSeq(s, 1, e) /\ n = j + Len(SpeakerName)
  OBVIOUS
<1>3. Len(m) = e
  <2>1. \A k \in 1 .. e : s[k] \in S
    BY <1>1, ElementOfSeq
  <2> QED BY <1>1, <1>2, <2>1, SubSeqProperties
<1>4. NamedAt(m, j) <=> n <= e + 1 /\ SubSeq(m, j, n - 1) = SpeakerName
  BY <1>2, <1>3 DEF NamedAt
<1>5. NamedAt(s, j) <=> n <= Len(s) + 1 /\ SubSeq(s, j, n - 1) = SpeakerName
  BY <1>2 DEF NamedAt
<1>6. n <= e + 1 => SubSeq(m, j, n - 1) = SubSeq(s, j, n - 1) /\ n <= Len(s) + 1
  <2> SUFFICES ASSUME n <= e + 1 PROVE SubSeq(m, j, n - 1) = SubSeq(s, j, n - 1) /\ n <= Len(s) + 1
    OBVIOUS
  <2>1. 1 \in 1 .. Len(s) /\ e \in 1 .. Len(s) /\ j \in 1 .. e - 1 + 1 /\ n - 1 \in 1 .. e - 1 + 1 /\ n <= Len(s) + 1
    BY <1>1, <1>2
  <2>2. SubSeq(SubSeq(s, 1, e), j, n - 1) = SubSeq(s, 1 + j - 1, 1 + (n - 1) - 1)
    BY <2>1, SubSeqOfSubSeq
  <2>3. 1 + j - 1 = j /\ 1 + (n - 1) - 1 = n - 1
    BY <1>1, <1>2
  <2> QED BY <1>2, <2>1, <2>2, <2>3
<1> QED BY <1>2, <1>4, <1>5, <1>6

LEMMA NameAtIs ==
  ASSUME NEW S, NEW s \in Seq(S)
  PROVE  /\ NameAt(s) \in 1 .. Len(s) + 1
         /\ \A e \in 0 .. Len(s) : NamedAt(s, NameAt(s)) /\ NameAt(s) + Len(SpeakerName) <= e + 1
              => NameAt(SubSeq(s, 1, e)) = NameAt(s)
<1>1. Len(s) \in Nat /\ Len(SpeakerName) \in Nat \ {0}
  BY LenProperties, NameLength
<1>2. PICK i : i = SkipAll(s, 1, Space)
  OBVIOUS
<1>3. i \in 1 .. Len(s) + 1
  BY <1>1, <1>2, SkipAllIs DEF Skipped
<1>4. PICK o : o = SkipOne(s, i, Opens)
  OBVIOUS
<1>5. o \in {i, i + 1} /\ o \in 1 .. Len(s) + 1
  BY <1>3, <1>4, SkipOneIs
<1>6. PICK b : b = SkipAll(s, o, Space)
  OBVIOUS
<1>7. Skipped(s, o, Space, b)
  BY <1>5, <1>6, SkipAllIs
<1>8. b \in o .. Len(s) + 1 /\ b \in 1 .. Len(s) + 1
  BY <1>1, <1>5, <1>7 DEF Skipped
<1>9. PICK j : j = IF NamedAt(s, b) THEN b ELSE i
  OBVIOUS
<1>10. NameAt(s) = j /\ j \in 1 .. Len(s) + 1
  BY <1>2, <1>3, <1>4, <1>6, <1>8, <1>9 DEF NameAt
<1>11. ASSUME NEW e \in 0 .. Len(s), NamedAt(s, j), j + Len(SpeakerName) <= e + 1 PROVE NameAt(SubSeq(s, 1, e)) = j
  <2>1. i \in Nat /\ o \in Nat /\ b \in Nat /\ j \in Nat /\ e \in Nat /\ i <= o /\ o <= i + 1 /\ o <= b /\ i <= j /\ j <= e
    BY <1>1, <1>3, <1>5, <1>8, <1>9, <1>11
  <2>2. PICK m : m = SubSeq(s, 1, e)
    OBVIOUS
  <2>3. SkipAll(m, 1, Space) = i
    <3>1. 1 \in 1 .. e + 1 /\ SkipAll(s, 1, Space) <= e + 1
      BY <1>2, <2>1
    <3> QED BY <1>2, <2>2, <3>1, SkipInPrefix
  <2>4. SkipOne(m, i, Opens) = o
    <3>1. i <= e + 1 /\ o <= e + 1
      BY <2>1
    <3> QED BY <1>3, <1>4, <2>2, <3>1, SkipOneIs
  <2>5. PICK h : h = SkipAll(m, o, Space)
    OBVIOUS
  <2>6. NameAt(m) = IF NamedAt(m, h) THEN h ELSE i
    BY <2>3, <2>4, <2>5 DEF NameAt
  <2>7. NamedAt(m, j)
    BY <1>10, <1>11, <2>2, NamedInPrefix
  <2>8. CASE b <= e + 1
    <3>1. h = b
      <4>1. o \in 1 .. e + 1
        BY <1>5, <2>1, <2>8
      <4> QED BY <1>6, <2>2, <2>5, <2>8, <4>1, SkipInPrefix
    <3>2. NamedAt(m, b) => NamedAt(s, b)
      BY <1>8, <2>2, NamedInPrefix
    <3> QED BY <1>9, <2>2, <2>6, <2>7, <3>1, <3>2
  <2>9. CASE b > e + 1
    <3>1. j = i
      BY <1>9, <2>1, <2>9
    <3>2. m \in Seq(S) /\ Len(m) = e /\ \A k \in 1 .. e : m[k] = s[k]
      <4>1. \A k \in 1 .. Len(s) : s[k] \in S
        BY ElementOfSeq
      <4> QED BY <1>1, <2>1, <2>2, <4>1, SubSeqProperties
    <3>3. Skipped(m, o, Space, e + 1)
      <4>1. ASSUME NEW k \in o .. e PROVE m[k] \in Space
        <5>1. k \in o .. b - 1 /\ k \in 1 .. e
          BY <1>5, <2>1, <2>9
        <5> QED BY <1>7, <3>2, <5>1 DEF Skipped
      <4>2. e + 1 \in o .. Len(m) + 1 /\ ~(e + 1 <= Len(m)) /\ (e + 1) - 1 = e
        BY <2>1, <3>1, <3>2
      <4> QED BY <4>1, <4>2 DEF Skipped
    <3>4. h = e + 1
      <4>1. o \in 1 .. Len(m) + 1
        BY <1>5, <2>1, <3>1, <3>2
      <4> QED BY <2>5, <3>2, <3>3, <4>1, SkipAllIs
    <3>5. ~NamedAt(m, h)
      BY <1>1, <2>1, <3>2, <3>4 DEF NamedAt
    <3> QED BY <2>2, <2>6, <3>1, <3>5
  <2> QED BY <2>1, <2>8, <2>9
<1> QED BY <1>10, <1>11

LEMMA BehindIs ==
  ASSUME NEW S, NEW s \in Seq(S), NEW k \in 1 .. Len(s) + 1
  PROVE  /\ Behind(s, k) \in k - 1 .. Len(s)
         /\ Behind(SubSeq(s, 1, Behind(s, k)), k) = Behind(s, k)
<1>1. Len(s) \in Nat /\ k \in Nat
  BY LenProperties
<1>2. PICK c, d : c = SkipOne(s, k, Closes) /\ d = SkipOne(s, k, Colons)
  OBVIOUS
<1>3. c \in {k, k + 1} /\ c \in 1 .. Len(s) + 1 /\ d \in {k, k + 1} /\ d \in 1 .. Len(s) + 1
  BY <1>2, SkipOneIs
<1>4. CASE c = k + 1
  <2>1. PICK a : a = SkipAll(s, c, Space)
    OBVIOUS
  <2>2. a \in c .. Len(s) + 1
    BY <1>3, <2>1, SkipAllIs DEF Skipped
  <2>3. PICK b : b = SkipOne(s, a, Colons)
    OBVIOUS
  <2>4. a \in 1 .. Len(s) + 1
    BY <1>3, <2>2
  <2>5. b \in {a, a + 1} /\ b \in 1 .. Len(s) + 1
    BY <2>3, <2>4, SkipOneIs
  <2>6. PICK h : h = SkipAll(s, b, Space)
    OBVIOUS
  <2>7. h \in b .. Len(s) + 1
    BY <2>5, <2>6, SkipAllIs DEF Skipped
  <2>8. PICK e : e = h - 1
    OBVIOUS
  <2>9. /\ e \in 0 .. Len(s) /\ a \in Nat /\ b \in Nat /\ h \in Nat /\ h = e + 1
        /\ k <= c /\ c <= a /\ a <= b /\ b <= e + 1
    BY <1>1, <1>3, <1>4, <2>2, <2>4, <2>5, <2>7, <2>8
  <2>10. Behind(s, k) = e
    BY <1>1, <1>2, <1>4, <2>1, <2>3, <2>6, <2>8 DEF Behind
  <2>11. PICK m : m = SubSeq(s, 1, e)
    OBVIOUS
  <2>12. SkipOne(m, k, Closes) = c
    <3>1. k <= e + 1 /\ c <= e + 1
      BY <1>1, <1>3, <2>9
    <3> QED BY <1>2, <2>9, <2>11, <3>1, SkipOneIs
  <2>13. SkipAll(m, c, Space) = a
    <3>1. c \in 1 .. e + 1 /\ a <= e + 1
      BY <1>1, <1>3, <2>9
    <3> QED BY <2>1, <2>9, <2>11, <3>1, SkipInPrefix
  <2>14. SkipOne(m, a, Colons) = b
    <3>1. a <= e + 1 /\ b <= e + 1
      BY <2>9
    <3> QED BY <2>3, <2>4, <2>9, <2>11, <3>1, SkipOneIs
  <2>15. SkipAll(m, b, Space) = h
    <3>1. b \in 1 .. e + 1 /\ h <= e + 1
      BY <2>5, <2>9
    <3> QED BY <2>6, <2>9, <2>11, <3>1, SkipInPrefix
  <2>16. Behind(m, k) = e
    BY <1>1, <1>4, <2>8, <2>12, <2>13, <2>14, <2>15 DEF Behind
  <2>17. e \in k - 1 .. Len(s)
    BY <1>1, <1>3, <2>9
  <2> QED BY <2>10, <2>11, <2>16, <2>17
<1>5. CASE c = k /\ d = k + 1
  <2>1. PICK h : h = SkipAll(s, d, Space)
    OBVIOUS
  <2>2. h \in d .. Len(s) + 1
    BY <1>3, <2>1, SkipAllIs DEF Skipped
  <2>3. PICK e : e = h - 1
    OBVIOUS
  <2>4. e \in 0 .. Len(s) /\ h \in Nat /\ h = e + 1 /\ k <= e + 1 /\ d <= e + 1
    BY <1>1, <1>3, <1>5, <2>2, <2>3
  <2>5. Behind(s, k) = e
    BY <1>1, <1>2, <1>5, <2>1, <2>3 DEF Behind
  <2>6. PICK m : m = SubSeq(s, 1, e)
    OBVIOUS
  <2>7. SkipOne(m, k, Closes) = k
    <3>1. c <= e + 1
      BY <1>5, <2>4
    <3> QED BY <1>2, <1>5, <2>4, <2>6, <3>1, SkipOneIs
  <2>8. SkipOne(m, k, Colons) = d
    BY <1>2, <2>4, <2>6, SkipOneIs
  <2>9. SkipAll(m, d, Space) = h
    <3>1. d \in 1 .. e + 1 /\ h <= e + 1
      BY <1>3, <2>4
    <3> QED BY <2>1, <2>4, <2>6, <3>1, SkipInPrefix
  <2>10. Behind(m, k) = e
    BY <1>1, <1>5, <2>3, <2>7, <2>8, <2>9 DEF Behind
  <2>11. e \in k - 1 .. Len(s)
    BY <1>1, <2>4
  <2> QED BY <2>5, <2>6, <2>10, <2>11
<1>6. CASE c = k /\ d = k
  <2>1. Behind(s, k) = k - 1
    BY <1>1, <1>2, <1>6 DEF Behind
  <2>2. PICK m : m = SubSeq(s, 1, k - 1)
    OBVIOUS
  <2>3. k - 1 \in 0 .. Len(s)
    BY <1>1
  <2>4. SkipOne(m, k, Closes) = k /\ SkipOne(m, k, Colons) = k
    <3>1. k <= (k - 1) + 1 /\ c <= (k - 1) + 1 /\ d <= (k - 1) + 1
      BY <1>1, <1>6
    <3> QED BY <1>2, <1>6, <2>2, <2>3, <3>1, SkipOneIs
  <2>5. Behind(m, k) = k - 1
    BY <1>1, <2>4 DEF Behind
  <2>6. k - 1 \in k - 1 .. Len(s)
    BY <1>1
  <2> QED BY <2>1, <2>2, <2>5, <2>6
<1> QED BY <1>3, <1>4, <1>5, <1>6

\* A marker is the marker of itself.
LEMMA MarkerEndIs ==
  ASSUME NEW S, NEW s \in Seq(S)
  PROVE  /\ MarkerEnd(s) \in 0 .. Len(s)
         /\ MarkerEnd(s) > 0 => MarkerEnd(SubSeq(s, 1, MarkerEnd(s))) = MarkerEnd(s)
<1>1. Len(s) \in Nat /\ Len(SpeakerName) \in Nat \ {0}
  BY LenProperties, NameLength
<1>2. CASE ~NamedAt(s, NameAt(s))
  <2>1. MarkerEnd(s) = 0
    BY <1>2, MarkerEndParts
  <2> QED BY <1>1, <2>1
<1>3. CASE NamedAt(s, NameAt(s))
  <2>1. PICK j : j = NameAt(s)
    OBVIOUS
  <2>2. PICK n : n = j + Len(SpeakerName)
    OBVIOUS
  <2>3. PICK k : k = SkipAll(s, n, Space)
    OBVIOUS
  <2>4. PICK e : e = Behind(s, k)
    OBVIOUS
  <2>5. MarkerEnd(s) = e
    BY <1>3, <2>1, <2>2, <2>3, <2>4, MarkerEndParts
  <2>6. j \in 1 .. Len(s) + 1 /\ n \in 1 .. Len(s) + 1
    <3>1. j \in 1 .. Len(s) + 1
      BY <2>1, NameAtIs
    <3>2. n <= Len(s) + 1
      BY <1>3, <2>1, <2>2 DEF NamedAt
    <3> QED BY <1>1, <2>2, <3>1, <3>2
  <2>7. k \in n .. Len(s) + 1
    BY <2>3, <2>6, SkipAllIs DEF Skipped
  <2>8. k \in 1 .. Len(s) + 1
    BY <1>1, <2>6, <2>7
  <2>9. e \in k - 1 .. Len(s)
    BY <2>4, <2>8, BehindIs
  <2>10. PICK m : m = SubSeq(s, 1, e)
    OBVIOUS
  <2>11. e \in 1 .. Len(s) /\ e \in 0 .. Len(s) /\ j <= e /\ n <= e + 1 /\ j <= n - 1 /\ k <= e + 1
    BY <1>1, <2>2, <2>6, <2>7, <2>8, <2>9
  <2>12. m \in Seq(S) /\ Len(m) = e
    <3>1. \A i \in 1 .. e : s[i] \in S
      BY <1>1, <2>11, ElementOfSeq
    <3> QED BY <1>1, <2>10, <2>11, <3>1, SubSeqProperties
  <2>13. NameAt(m) = j
    BY <1>3, <2>1, <2>2, <2>10, <2>11, NameAtIs
  <2>15. NamedAt(m, j)
    BY <1>3, <2>1, <2>2, <2>6, <2>10, <2>11, NamedInPrefix
  <2>16. SkipAll(m, n, Space) = k
    <3>1. n \in 1 .. e + 1
      BY <2>6, <2>11
    <3> QED BY <2>3, <2>10, <2>11, <3>1, SkipInPrefix
  <2>17. Behind(m, k) = e
    BY <2>4, <2>8, <2>10, BehindIs
  <2>18. MarkerEnd(m) = e
    BY <2>2, <2>13, <2>15, <2>16, <2>17, MarkerEndParts
  <2> QED BY <2>5, <2>10, <2>11, <2>18
<1> QED BY <1>2, <1>3

\* Parts of a text.
LEMMA Parts ==
  ASSUME NEW S, NEW s \in Seq(S), NEW c \in 0 .. Len(s), NEW a \in 1 .. c + 1
  PROVE  /\ SubSeq(s, a, c) \in Seq(S) /\ Len(SubSeq(s, a, c)) = c - a + 1
         /\ SubSeq(SubSeq(s, 1, c), a, c) = SubSeq(s, a, c)
         /\ \A b \in a - 1 .. c : SubSeq(SubSeq(s, a, c), 1, b - a + 1) = SubSeq(s, a, b)
         /\ \A b \in c .. Len(s) : SubSeq(s, a, b) = SubSeq(s, a, c) \o SubSeq(s, c + 1, b)
<1>1. Len(s) \in Nat /\ c \in Nat /\ a \in Nat /\ a >= 1 /\ \A k \in 1 .. Len(s) : s[k] \in S
  BY LenProperties, ElementOfSeq
<1>2. ASSUME NEW p \in 1 .. Len(s) + 1, NEW q \in p - 1 .. Len(s)
      PROVE  /\ SubSeq(s, p, q) \in Seq(S) /\ Len(SubSeq(s, p, q)) = q - p + 1
             /\ \A k \in 1 .. q - p + 1 : SubSeq(s, p, q)[k] = s[p + k - 1]
  <2>1. \A k \in p .. q : s[k] \in S
    BY <1>1, <1>2
  <2>2. p \in Int /\ q \in Int /\ (p <= q \/ q - p + 1 = 0)
    BY <1>1, <1>2
  <2> QED BY <2>1, <2>2, SubSeqProperties
<1>3. a \in 1 .. Len(s) + 1 /\ c \in a - 1 .. Len(s) /\ 1 \in 1 .. Len(s) + 1 /\ c \in 1 - 1 .. Len(s)
  BY <1>1
<1>4. /\ SubSeq(s, a, c) \in Seq(S) /\ Len(SubSeq(s, a, c)) = c - a + 1
      /\ \A k \in 1 .. c - a + 1 : SubSeq(s, a, c)[k] = s[a + k - 1]
  BY <1>2, <1>3
<1>5. SubSeq(SubSeq(s, 1, c), a, c) = SubSeq(s, a, c)
  <2>1. PICK u : u = SubSeq(s, 1, c)
    OBVIOUS
  <2>2. u \in Seq(S) /\ Len(u) = c /\ \A k \in 1 .. c : u[k] = s[k]
    <3>1. \A k \in 1 .. c - 1 + 1 : SubSeq(s, 1, c)[k] = s[1 + k - 1]
      BY <1>2, <1>3
    <3> QED BY <1>1, <1>2, <1>3, <2>1, <3>1
  <2>3. /\ SubSeq(u, a, c) \in Seq(S) /\ Len(SubSeq(u, a, c)) = c - a + 1
        /\ \A k \in 1 .. c - a + 1 : SubSeq(u, a, c)[k] = u[a + k - 1]
    <3>1. \A k \in a .. c : u[k] \in S
      BY <1>1, <2>2
    <3>2. a \in Int /\ c \in Int /\ (a <= c \/ c - a + 1 = 0)
      BY <1>1
    <3> QED BY <3>1, <3>2, SubSeqProperties
  <2>4. \A k \in 1 .. c - a + 1 : SubSeq(u, a, c)[k] = SubSeq(s, a, c)[k]
    <3> SUFFICES ASSUME NEW k \in 1 .. c - a + 1 PROVE SubSeq(u, a, c)[k] = SubSeq(s, a, c)[k]
      OBVIOUS
    <3>1. a + k - 1 \in 1 .. c
      BY <1>1
    <3> QED BY <1>4, <2>2, <2>3, <3>1
  <2> QED BY <1>4, <2>1, <2>3, <2>4, SeqEqual
<1>6. ASSUME NEW b \in a - 1 .. c PROVE SubSeq(SubSeq(s, a, c), 1, b - a + 1) = SubSeq(s, a, b)
  <2>1. PICK u : u = SubSeq(s, a, c)
    OBVIOUS
  <2>2. PICK n : n = b - a + 1
    OBVIOUS
  <2>3. n \in Nat /\ n <= c - a + 1 /\ b \in a - 1 .. Len(s)
    BY <1>1, <2>2
  <2>4. SubSeq(u, 1, n) \in Seq(S) /\ Len(SubSeq(u, 1, n)) = n /\ \A k \in 1 .. n : SubSeq(u, 1, n)[k] = u[k]
    <3>1. \A k \in 1 .. n : u[k] \in S
      <4>1. \A k \in 1 .. n : k \in 1 .. Len(u)
        BY <1>1, <1>4, <2>1, <2>3
      <4> QED BY <1>4, <2>1, <4>1, ElementOfSeq
    <3>2. 1 \in Int /\ n \in Int /\ (1 <= n \/ n = 0) /\ n - 1 + 1 = n
      BY <2>3
    <3>3. \A k \in 1 .. n : 1 + k - 1 = k
      OBVIOUS
    <3> QED BY <3>1, <3>2, <3>3, SubSeqProperties
  <2>5. /\ SubSeq(s, a, b) \in Seq(S) /\ Len(SubSeq(s, a, b)) = n
        /\ \A k \in 1 .. n : SubSeq(s, a, b)[k] = s[a + k - 1]
    BY <1>2, <1>3, <2>2, <2>3
  <2>6. \A k \in 1 .. n : u[k] = s[a + k - 1]
    <3>1. \A k \in 1 .. n : k \in 1 .. c - a + 1
      BY <1>1, <2>3
    <3> QED BY <1>4, <2>1, <3>1
  <2> QED BY <2>1, <2>2, <2>4, <2>5, <2>6, SeqEqual
<1>7. ASSUME NEW b \in c .. Len(s) PROVE SubSeq(s, a, b) = SubSeq(s, a, c) \o SubSeq(s, c + 1, b)
  <2>1. a \in 1 .. Len(s) + 1 /\ c \in a - 1 .. Len(s) /\ b \in c .. Len(s)
    BY <1>3, <1>7
  <2> QED BY <2>1, ConcatAdjacentSubSeq
<1> QED BY <1>4, <1>5, <1>6, <1>7

\* What push has decided on: the text up to cut, of which it took off a marker.
Decided(reply, read, out) ==
  \E cut \in 0 .. read :
    /\ ~Held(SubSeq(reply, 1, cut))
    /\ out = SubSeq(reply, MarkerEnd(SubSeq(reply, 1, cut)) + 1, read)

PrefixInv ==
  /\ prefixReply \in Seq(Range(prefixReply))
  /\ prefixRead \in 0 .. Len(prefixReply)
  /\ prefixDone \in BOOLEAN
  /\ prefixReply = <<>> => ~prefixDone
  /\ ~prefixDone => /\ prefixBuffer = SubSeq(prefixReply, 1, prefixRead) /\ prefixOut = <<>>
                    /\ prefixRead < Len(SpeakerName) + 4
  /\ prefixDone => Decided(prefixReply, prefixRead, prefixOut)

LEMMA PushUndecided ==
  ASSUME PrefixInv, NEW n \in 1 .. MaxChunk, Push(n), ~prefixDone
  PROVE  PrefixInv'
<1>1. PICK S, s, r, e : S = Range(prefixReply) /\ s = prefixReply /\ r = prefixRead /\ e = prefixRead + n
  OBVIOUS
<1>2. s \in Seq(S) /\ Len(s) \in Nat /\ n \in Nat \ {0} /\ r \in Nat /\ e \in 0 .. Len(s) /\ r <= e
  <2>1. s \in Seq(S) /\ r \in 0 .. Len(s) /\ e <= Len(s)
    BY <1>1 DEF PrefixInv, Push
  <2>2. Len(s) \in Nat
    BY <2>1, LenProperties
  <2>3. n \in Nat \ {0}
    BY PrefixAssumption
  <2> QED BY <1>1, <2>1, <2>2, <2>3
<1>3. PICK b : b = prefixBuffer \o SubSeq(prefixReply, prefixRead + 1, prefixRead + n)
  OBVIOUS
<1>4. b = SubSeq(s, 1, e)
  <2>1. r \in 0 .. Len(s) /\ 1 \in 1 .. r + 1 /\ e \in r .. Len(s)
    BY <1>2
  <2>2. SubSeq(s, 1, e) = SubSeq(s, 1, r) \o SubSeq(s, r + 1, e)
    BY <1>2, <2>1, Parts
  <2> QED BY <1>1, <1>3, <2>2 DEF PrefixInv
<1>5. b \in Seq(S) /\ Len(b) = e
  <2>1. 1 \in 1 .. e + 1 /\ e - 1 + 1 = e
    BY <1>2
  <2> QED BY <1>2, <1>4, <2>1, Parts
<1>6. /\ prefixReply' = s /\ prefixRead' = e /\ prefixDone' = ~Held(b)
      /\ prefixBuffer' = b /\ prefixOut' = IF Held(b) THEN prefixOut ELSE prefixOut \o Stripped(b)
  BY <1>1, <1>3 DEF Push
<1>7. s # <<>>
  <2>1. Len(<<>>) = 0
    BY EmptySeq
  <2> QED BY <1>1, <1>2, <2>1
<1>8. CASE Held(b)
  <2>1. e < Len(SpeakerName) + 4
    BY <1>5, <1>8 DEF Held
  <2> QED BY <1>1, <1>2, <1>4, <1>6, <1>8, <2>1 DEF PrefixInv
<1>9. CASE ~Held(b)
  <2>1. PICK m : m = MarkerEnd(b)
    OBVIOUS
  <2>2. m \in 0 .. e
    BY <1>5, <2>1, MarkerEndIs
  <2>3. m + 1 \in 1 .. e + 1
    BY <1>2, <2>2
  <2>4. Stripped(b) = SubSeq(s, m + 1, e)
    <3>1. Stripped(b) = SubSeq(b, m + 1, e)
      BY <1>5, <2>1 DEF Stripped
    <3>2. SubSeq(SubSeq(s, 1, e), m + 1, e) = SubSeq(s, m + 1, e)
      BY <1>2, <2>3, Parts
    <3> QED BY <1>4, <3>1, <3>2
  <2>5. Stripped(b) \in Seq(S)
    BY <1>2, <2>3, <2>4, Parts
  <2>6. prefixOut' = SubSeq(s, m + 1, e)
    <3>1. <<>> \o Stripped(b) = Stripped(b)
      BY <2>5, ConcatEmptySeq
    <3> QED BY <1>6, <1>9, <2>4, <3>1 DEF PrefixInv
  <2>7. e \in 0 .. e
    BY <1>2
  <2>8. Decided(s, e, prefixOut')
    BY <1>4, <1>9, <2>1, <2>6, <2>7 DEF Decided
  <2> QED BY <1>1, <1>2, <1>6, <1>7, <1>9, <2>8 DEF PrefixInv
<1> QED BY <1>8, <1>9

LEMMA PushDecided ==
  ASSUME PrefixInv, NEW n \in 1 .. MaxChunk, Push(n), prefixDone
  PROVE  PrefixInv'
<1>1. PICK S, s, r, e : S = Range(prefixReply) /\ s = prefixReply /\ r = prefixRead /\ e = prefixRead + n
  OBVIOUS
<1>2. s \in Seq(S) /\ Len(s) \in Nat /\ n \in Nat \ {0} /\ r \in 0 .. Len(s) /\ e \in 0 .. Len(s) /\ r <= e
  <2>1. s \in Seq(S) /\ r \in 0 .. Len(s) /\ e <= Len(s)
    BY <1>1 DEF PrefixInv, Push
  <2>2. Len(s) \in Nat
    BY <2>1, LenProperties
  <2>3. n \in Nat \ {0}
    BY PrefixAssumption
  <2> QED BY <1>1, <2>1, <2>2, <2>3
<1>3. PICK cut \in 0 .. r : /\ ~Held(SubSeq(s, 1, cut))
                            /\ prefixOut = SubSeq(s, MarkerEnd(SubSeq(s, 1, cut)) + 1, r)
  BY <1>1 DEF PrefixInv, Decided
<1>4. PICK b, m : b = SubSeq(s, 1, cut) /\ m = MarkerEnd(b)
  OBVIOUS
<1>5. b \in Seq(S) /\ Len(b) = cut
  <2>1. cut \in 0 .. Len(s) /\ 1 \in 1 .. cut + 1 /\ cut - 1 + 1 = cut
    BY <1>2, <1>3
  <2> QED BY <1>2, <1>4, <2>1, Parts
<1>6. m \in 0 .. cut
  BY <1>4, <1>5, MarkerEndIs
<1>7. m + 1 \in 1 .. r + 1 /\ e \in r .. Len(s)
  BY <1>2, <1>3, <1>6
<1>8. SubSeq(s, m + 1, e) = SubSeq(s, m + 1, r) \o SubSeq(s, r + 1, e)
  BY <1>2, <1>7, Parts
<1>9. /\ prefixReply' = s /\ prefixRead' = e /\ prefixDone' /\ UNCHANGED <<prefixDone, prefixBuffer>>
      /\ prefixOut' = prefixOut \o SubSeq(s, r + 1, e)
  BY <1>1 DEF Push
<1>10. Decided(s, e, prefixOut')
  <2>1. cut \in 0 .. e
    BY <1>2, <1>3
  <2> QED BY <1>3, <1>4, <1>8, <1>9, <2>1 DEF Decided
<1> QED BY <1>1, <1>2, <1>9, <1>10 DEF PrefixInv

LEMMA PrefixInvariant == PrefixSpec => []PrefixInv
<1>1. PrefixInit => PrefixInv
  <2> SUFFICES ASSUME PrefixInit PROVE PrefixInv
    OBVIOUS
  <2>1. prefixReply \in Seq(Range(prefixReply)) /\ Len(prefixReply) = 0
    BY EmptySeq DEF PrefixInit
  <2>2. SubSeq(prefixReply, 1, prefixRead) = <<>>
    BY SubSeqEmpty DEF PrefixInit
  <2>3. prefixRead \in 0 .. Len(prefixReply) /\ prefixRead < Len(SpeakerName) + 4
    BY <2>1, NameLength DEF PrefixInit
  <2> QED BY <2>1, <2>2, <2>3 DEF PrefixInit, PrefixInv
<1>2. PrefixInv /\ [PrefixNext]_prefixVars => PrefixInv'
  <2> SUFFICES ASSUME PrefixInv, [PrefixNext]_prefixVars PROVE PrefixInv'
    OBVIOUS
  <2>1. CASE PrefixStart
    <3>1. Len(<<>>) = 0 /\ ~prefixDone /\ prefixReply = <<>>
      BY <2>1, EmptySeq DEF PrefixInv, PrefixStart
    <3>2. prefixRead = 0
      BY <3>1 DEF PrefixInv
    <3>3. PICK s : s = prefixReply'
      OBVIOUS
    <3>4. s \in Seq(Range(s)) /\ Len(s) \in Nat
      BY <2>1, <3>3, PrefixAssumption, LenProperties DEF PrefixStart
    <3>5. SubSeq(<<>>, 1, 0) = <<>> /\ SubSeq(s, 1, 0) = <<>>
      BY SubSeqEmpty
    <3> QED BY <2>1, <3>1, <3>2, <3>3, <3>4, <3>5 DEF PrefixInv, PrefixStart
  <2>2. ASSUME NEW n \in 1 .. MaxChunk, Push(n) PROVE PrefixInv'
    BY <2>2, PushUndecided, PushDecided
  <2>3. CASE UNCHANGED prefixVars
    BY <2>3 DEF prefixVars, PrefixInv
  <2> QED BY <2>1, <2>2, <2>3 DEF PrefixNext
<1> QED BY <1>1, <1>2, PTL DEF PrefixSpec

LEMMA OnlyMarker == PrefixInv => OnlyMarkerRemoved
<1> SUFFICES ASSUME PrefixInv PROVE OnlyMarkerRemoved
  OBVIOUS
<1>1. PICK S, s, r : S = Range(prefixReply) /\ s = prefixReply /\ r = prefixRead
  OBVIOUS
<1>2. s \in Seq(S) /\ Len(s) \in Nat /\ r \in 0 .. Len(s)
  BY <1>1, LenProperties DEF PrefixInv
<1>3. Pushed = SubSeq(s, 1, r) /\ Pushed \in Seq(S) /\ Len(Pushed) = r
  <2>1. 1 \in 1 .. r + 1 /\ r - 1 + 1 = r
    BY <1>2
  <2> QED BY <1>1, <1>2, <2>1, Parts DEF Pushed
<1>4. CASE ~prefixDone
  <2>1. prefixOut = <<>> /\ r < Len(SpeakerName) + 4 /\ Len(<<>>) = 0
    BY <1>1, <1>4, EmptySeq DEF PrefixInv
  <2>2. PICK missing : missing = SubSeq(Pushed, 1, Len(Pushed) - Len(prefixOut))
    OBVIOUS
  <2>3. missing = Pushed
    <3>1. Len(Pushed) - Len(prefixOut) = r
      BY <1>2, <1>3, <2>1
    <3>2. SubSeq(Pushed, 1, r) = Pushed
      BY <1>3, SubSeqFull
    <3> QED BY <2>2, <3>1, <3>2
  <2>4. Pushed = missing \o prefixOut
    BY <1>3, <2>1, <2>3, ConcatEmptySeq
  <2> QED BY <1>3, <1>4, <2>1, <2>2, <2>3, <2>4 DEF OnlyMarkerRemoved
<1>5. CASE prefixDone
  <2>1. PICK cut \in 0 .. r : prefixOut = SubSeq(s, MarkerEnd(SubSeq(s, 1, cut)) + 1, r)
    BY <1>1, <1>5 DEF PrefixInv, Decided
  <2>2. PICK b, m : b = SubSeq(s, 1, cut) /\ m = MarkerEnd(b)
    OBVIOUS
  <2>3. b \in Seq(S) /\ Len(b) = cut
    <3>1. cut \in 0 .. Len(s) /\ 1 \in 1 .. cut + 1 /\ cut - 1 + 1 = cut
      BY <1>2, <2>1
    <3> QED BY <1>2, <2>2, <3>1, Parts
  <2>4. m \in 0 .. cut /\ (m > 0 => MarkerEnd(SubSeq(b, 1, m)) = m)
    BY <2>2, <2>3, MarkerEndIs
  <2>5. m \in 0 .. Len(s) /\ 1 \in 1 .. m + 1 /\ r \in m .. Len(s) /\ m + 1 \in 1 .. r + 1 /\ m - 1 + 1 = m
        /\ cut \in 0 .. Len(s) /\ m \in 0 .. cut /\ 1 \in 1 .. cut + 1 /\ m \in 1 - 1 .. cut
    BY <1>2, <2>1, <2>4
  <2>6. Len(prefixOut) = r - m
    <3>1. Len(SubSeq(s, m + 1, r)) = r - (m + 1) + 1
      BY <1>2, <2>5, Parts
    <3> QED BY <1>2, <2>1, <2>2, <2>5, <3>1
  <2>7. PICK missing : missing = SubSeq(Pushed, 1, Len(Pushed) - Len(prefixOut))
    OBVIOUS
  <2>8. missing = SubSeq(s, 1, m) /\ Len(missing) = m
    <3>1. Len(Pushed) - Len(prefixOut) = m
      BY <1>2, <1>3, <2>5, <2>6
    <3>2. 1 \in 1 .. r + 1 /\ m \in 1 - 1 .. r /\ m - 1 + 1 = m
      BY <1>2, <2>5
    <3>3. SubSeq(SubSeq(s, 1, r), 1, m - 1 + 1) = SubSeq(s, 1, m)
      BY <1>2, <3>2, Parts
    <3>4. Len(SubSeq(s, 1, m)) = m - 1 + 1
      BY <1>2, <2>5, Parts
    <3> QED BY <1>3, <2>5, <2>7, <3>1, <3>3, <3>4
  <2>9. SubSeq(b, 1, m) = SubSeq(s, 1, m)
    <3>1. SubSeq(SubSeq(s, 1, cut), 1, m - 1 + 1) = SubSeq(s, 1, m)
      BY <1>2, <2>5, Parts
    <3> QED BY <2>2, <2>5, <3>1
  <2>10. Pushed = missing \o prefixOut
    <3>1. SubSeq(s, 1, r) = SubSeq(s, 1, m) \o SubSeq(s, m + 1, r)
      BY <1>2, <2>5, Parts
    <3> QED BY <1>3, <2>1, <2>2, <2>8, <3>1
  <2>11. missing = <<>> \/ MarkerEnd(missing) = Len(missing)
    <3>1. CASE m = 0
      <4>1. SubSeq(s, 1, 0) = <<>>
        BY SubSeqEmpty
      <4> QED BY <2>8, <3>1, <4>1
    <3>2. CASE m > 0
      BY <2>4, <2>8, <2>9, <3>2
    <3> QED BY <2>4, <3>1, <3>2
  <2> QED BY <1>5, <2>7, <2>10, <2>11 DEF OnlyMarkerRemoved
<1> QED BY <1>4, <1>5

\* Nothing is dropped from a text without spaces.
LEMMA WithoutSpaceFree ==
  ASSUME NEW S, NEW s \in Seq(S), FreeOfMarks(s)
  PROVE  WithoutSpace(s) = s
<1>1. {i \in DOMAIN s : s[i] \notin Space} = DOMAIN s
  BY LenProperties DEF FreeOfMarks
<1> QED BY <1>1, FilteredAll DEF WithoutSpace

\* Nor is there anything to skip in one without marks but the name.
LEMMA NothingToSkip ==
  ASSUME NEW S, NEW s \in Seq(S), FreeOfMarks(s), NEW i \in 1 .. Len(s) + 1
  PROVE  SkipAll(s, i, Space) = i /\ SkipOne(s, i, Opens) = i
<1>1. Len(s) \in Nat /\ DOMAIN s = 1 .. Len(s)
  BY LenProperties
<1>2. i <= Len(s) => s[i] \notin Space \cup Opens
  BY <1>1 DEF FreeOfMarks
<1>3. Skipped(s, i, Space, i)
  BY <1>1, <1>2 DEF Skipped
<1> QED BY <1>2, <1>3, SkipAllIs DEF SkipOne

LEMMA NameAtFree ==
  ASSUME NEW S, NEW s \in Seq(S), FreeOfMarks(s)
  PROVE  NameAt(s) = 1
<1>1. Len(s) \in Nat
  BY LenProperties
<1>2. 1 \in 1 .. Len(s) + 1
  BY <1>1
<1>3. SkipAll(s, 1, Space) = 1 /\ SkipOne(s, 1, Opens) = 1
  BY <1>2, NothingToSkip
<1> QED BY <1>3 DEF NameAt

LEMMA NamedAtOne ==
  ASSUME NEW s
  PROVE  NamedAt(s, 1) <=> 1 + Len(SpeakerName) <= Len(s) + 1 /\ SubSeq(s, 1, (1 + Len(SpeakerName)) - 1) = SpeakerName
<1>1. NamedAt(s, 1) <=>
        LET n == 1 + Len(SpeakerName)
        IN  n <= Len(s) + 1 /\ SubSeq(s, 1, n - 1) = SpeakerName
  BY DEF NamedAt
<1> QED BY <1>1

\* In such a text what comes behind the name depends on two letters.
LEMMA BehindFree ==
  ASSUME NEW S, NEW s \in Seq(S), FreeOfMarks(s), NEW k \in Nat \ {0}, NEW e \in 0 .. Len(s), k + 2 <= e
  PROVE  Behind(SubSeq(s, 1, e), k) = Behind(s, k)
<1>1. Len(s) \in Nat /\ e \in Nat
  BY LenProperties
<1>2. PICK m : m = SubSeq(s, 1, e)
  OBVIOUS
<1>3. m \in Seq(S) /\ Len(m) = e /\ FreeOfMarks(m)
  <2>1. 1 \in 1 .. e + 1 /\ e - 1 + 1 = e
    BY <1>1
  <2>2. m \in Seq(S) /\ Len(m) = e
    BY <1>2, <2>1, Parts
  <2>3. \A i \in 1 .. e : m[i] = s[i] /\ i \in DOMAIN s
    <3>1. \A i \in 1 .. Len(s) : s[i] \in S
      BY ElementOfSeq
    <3>2. DOMAIN s = 1 .. Len(s)
      BY LenProperties
    <3> QED BY <1>1, <1>2, <3>1, <3>2, SubSeqProperties
  <2>4. DOMAIN m = 1 .. e
    BY <2>2, LenProperties
  <2> QED BY <2>2, <2>3, <2>4 DEF FreeOfMarks
<1>4. ASSUME NEW i \in {k, k + 1, k + 2}
      PROVE  /\ i \in 1 .. Len(s) + 1 /\ i \in 1 .. Len(m) + 1
             /\ SkipAll(s, i, Space) = i /\ SkipAll(m, i, Space) = i
  <2>1. i \in 1 .. Len(s) + 1 /\ i \in 1 .. Len(m) + 1
    BY <1>1, <1>3
  <2> QED BY <1>3, <2>1, NothingToSkip
<1>5. ASSUME NEW i \in {k, k + 1}, NEW class PROVE SkipOne(m, i, class) = SkipOne(s, i, class)
  <2>1. i \in 1 .. Len(s) + 1 /\ i <= e + 1
    BY <1>1, <1>4
  <2>2. SkipOne(s, i, class) <= e + 1
    <3>1. SkipOne(s, i, class) \in {i, i + 1}
      BY <2>1, SkipOneIs
    <3> QED BY <1>1, <3>1
  <2> QED BY <1>2, <2>1, <2>2, SkipOneIs
<1>6. PICK c, d, b : c = SkipOne(s, k, Closes) /\ d = SkipOne(s, k, Colons) /\ b = SkipOne(s, k + 1, Colons)
  OBVIOUS
<1>7. c \in {k, k + 1} /\ d \in {k, k + 1} /\ b \in {k + 1, k + 2}
  <2>1. k \in 1 .. Len(s) + 1 /\ k + 1 \in 1 .. Len(s) + 1 /\ (k + 1) + 1 = k + 2
    BY <1>1
  <2>2. b \in {k + 1, (k + 1) + 1}
    BY <1>6, <2>1, SkipOneIs
  <2>3. c \in {k, k + 1} /\ d \in {k, k + 1}
    BY <1>6, <2>1, SkipOneIs
  <2> QED BY <2>1, <2>2, <2>3
<1>8. c = SkipOne(m, k, Closes) /\ d = SkipOne(m, k, Colons) /\ b = SkipOne(m, k + 1, Colons)
  BY <1>5, <1>6
<1>9. SkipAll(s, k + 1, Space) = k + 1 /\ SkipAll(m, k + 1, Space) = k + 1 /\ SkipAll(s, b, Space) = b /\ SkipAll(m, b, Space) = b
  BY <1>4, <1>7
<1>10. Behind(s, k) = IF c > k THEN b - 1 ELSE IF d > k THEN k + 1 - 1 ELSE k - 1
  BY <1>6, <1>7, <1>9 DEF Behind
<1>11. Behind(m, k) = IF c > k THEN b - 1 ELSE IF d > k THEN k + 1 - 1 ELSE k - 1
  BY <1>7, <1>8, <1>9 DEF Behind
<1> QED BY <1>2, <1>10, <1>11

\* So the decision of push is the one for the whole text.
LEMMA MarkerEndFree ==
  ASSUME NEW S, NEW s \in Seq(S), FreeOfMarks(s), NEW e \in 0 .. Len(s), ~Held(SubSeq(s, 1, e))
  PROVE  MarkerEnd(SubSeq(s, 1, e)) = MarkerEnd(s)
<1>1. Len(s) \in Nat /\ e \in Nat
  BY LenProperties
<1>2. PICK m, n : m = SubSeq(s, 1, e) /\ n = Len(SpeakerName)
  OBVIOUS
<1>3. n \in Nat \ {0}
  BY <1>2, NameLength
<1>4. m \in Seq(S) /\ Len(m) = e /\ FreeOfMarks(m)
  <2>1. 1 \in 1 .. e + 1 /\ e - 1 + 1 = e
    BY <1>1
  <2>2. m \in Seq(S) /\ Len(m) = e
    BY <1>2, <2>1, Parts
  <2>3. \A i \in 1 .. e : m[i] = s[i] /\ i \in DOMAIN s
    <3>1. \A i \in 1 .. Len(s) : s[i] \in S
      BY ElementOfSeq
    <3>2. DOMAIN s = 1 .. Len(s)
      BY LenProperties
    <3> QED BY <1>1, <1>2, <3>1, <3>2, SubSeqProperties
  <2>4. DOMAIN m = 1 .. e
    BY <2>2, LenProperties
  <2> QED BY <2>2, <2>3, <2>4 DEF FreeOfMarks
<1>5. NameAt(s) = 1 /\ NameAt(m) = 1
  BY <1>4, NameAtFree
<1>6. NamedAt(s, 1) <=> n <= Len(s) /\ SubSeq(s, 1, n) = SpeakerName
  <2>1. 1 + n <= Len(s) + 1 <=> n <= Len(s)
    BY <1>1, <1>3
  <2>2. 1 + n - 1 = n
    BY <1>3
  <2>3. NamedAt(s, 1) <=> 1 + n <= Len(s) + 1 /\ SubSeq(s, 1, 1 + n - 1) = SpeakerName
    <3>1. n = Len(SpeakerName) 
      BY <1>2, <1>5
    <3>2. NamedAt(s, 1) <=> 1 + Len(SpeakerName) <= Len(s) + 1 /\ SubSeq(s, 1, (1 + Len(SpeakerName)) - 1) = SpeakerName
      BY <3>1, NamedAtOne
    <3> QED BY <3>1, <3>2
  <2> QED BY <2>1, <2>2, <2>3
<1>7. NamedAt(m, 1) <=> n <= e /\ SubSeq(m, 1, n) = SpeakerName
  <2>1. 1 + n <= Len(m) + 1 <=> n <= e
    BY <1>1, <1>3, <1>4
  <2>2. 1 + n - 1 = n
    BY <1>3
  <2>3. NamedAt(m, 1) <=> 1 + n <= Len(m) + 1 /\ SubSeq(m, 1, 1 + n - 1) = SpeakerName
    <3>1. n = Len(SpeakerName) 
      BY <1>2, <1>5
    <3>2. NamedAt(m, 1) <=> 1 + Len(SpeakerName) <= Len(m) + 1 /\ SubSeq(m, 1, (1 + Len(SpeakerName)) - 1) = SpeakerName
      BY <3>1, NamedAtOne
    <3> QED BY <3>1, <3>2
  <2> QED BY <2>1, <2>2, <2>3
<1>8. n <= e => SubSeq(m, 1, n) = SubSeq(s, 1, n)
  <2> SUFFICES ASSUME n <= e PROVE SubSeq(m, 1, n) = SubSeq(s, 1, n)
    OBVIOUS
  <2>1. 1 \in 1 .. e + 1 /\ n \in 1 - 1 .. e /\ n - 1 + 1 = n
    BY <1>1, <1>3
  <2>2. SubSeq(SubSeq(s, 1, e), 1, n - 1 + 1) = SubSeq(s, 1, n)
    BY <2>1, Parts
  <2> QED BY <1>2, <2>1, <2>2
<1>9. CASE n + 4 <= e
  <2>1. NamedAt(m, 1) <=> NamedAt(s, 1)
    BY <1>1, <1>3, <1>6, <1>7, <1>8, <1>9
  <2>2. n + 1 \in 1 .. Len(s) + 1 /\ n + 1 \in 1 .. Len(m) + 1 /\ 1 + n = n + 1
    BY <1>1, <1>3, <1>4, <1>9
  <2>3. SkipAll(s, n + 1, Space) = n + 1 /\ SkipAll(m, n + 1, Space) = n + 1
    BY <1>4, <2>2, NothingToSkip
  <2>4. Behind(m, n + 1) = Behind(s, n + 1)
    <3>1. n + 1 \in Nat \ {0} /\ (n + 1) + 2 <= e
      BY <1>1, <1>3, <1>9
    <3> QED BY <1>2, <3>1, BehindFree
  <2>5. MarkerEnd(s) = IF NamedAt(s, 1) THEN Behind(s, n + 1) ELSE 0
    BY <1>2, <1>5, <2>2, <2>3, MarkerEndParts
  <2>6. MarkerEnd(m) = IF NamedAt(m, 1) THEN Behind(m, n + 1) ELSE 0
    BY <1>2, <1>5, <2>2, <2>3, MarkerEndParts
  <2> QED BY <1>2, <2>1, <2>4, <2>5, <2>6
<1>10. CASE e < n + 4
  <2>1. ~IsPrefix(m, SpeakerName) /\ ~IsPrefix(SpeakerName, m)
    <3>1. ~StillPossible(m)
      BY <1>2, <1>4, <1>10 DEF Held
    <3>2. WithoutSpace(m) = m
      BY <1>4, WithoutSpaceFree
    <3> QED BY <3>1, <3>2 DEF StillPossible
  <2>2. SpeakerName \in Seq(Range(SpeakerName)) /\ SubSeq(SpeakerName, 1, n) = SpeakerName /\ SubSeq(m, 1, e) = m
    BY <1>2, <1>4, PrefixAssumption, SubSeqFull
  <2>3. ~NamedAt(m, 1)
    BY <1>2, <1>4, <1>7, <2>1, <2>2 DEF IsPrefix
  <2>4. ~NamedAt(s, 1)
    <3> SUFFICES ASSUME NamedAt(s, 1) PROVE FALSE
      OBVIOUS
    <3>1. n <= Len(s) /\ SubSeq(s, 1, n) = SpeakerName
      BY <1>6
    <3>2. e < n
      BY <1>1, <1>3, <1>7, <1>8, <2>3, <3>1
    <3>3. SubSeq(SpeakerName, 1, e) = m
      <4>1. n \in 0 .. Len(s) /\ 1 \in 1 .. n + 1 /\ e \in 1 - 1 .. n /\ e - 1 + 1 = e
        BY <1>1, <1>3, <3>1, <3>2
      <4>2. SubSeq(SubSeq(s, 1, n), 1, e - 1 + 1) = SubSeq(s, 1, e)
        BY <4>1, Parts
      <4> QED BY <1>2, <3>1, <4>1, <4>2
    <3> QED BY <1>1, <1>2, <1>3, <1>4, <2>1, <2>2, <3>2, <3>3 DEF IsPrefix
  <2> QED BY <1>2, <1>5, <2>3, <2>4, MarkerEndParts
<1> QED BY <1>1, <1>3, <1>9, <1>10

LEMMA ChunksAnyway == PrefixInv => ChunksDoNotMatter
<1> SUFFICES ASSUME PrefixInv, prefixDone, FreeOfMarks(prefixReply)
             PROVE  /\ prefixOut = SubSeq(Stripped(prefixReply), 1, Len(prefixOut))
                    /\ Len(prefixOut) = Len(Stripped(prefixReply)) - (Len(prefixReply) - prefixRead)
  BY DEF ChunksDoNotMatter
<1>1. PICK S, s, r : S = Range(prefixReply) /\ s = prefixReply /\ r = prefixRead
  OBVIOUS
<1>2. s \in Seq(S) /\ Len(s) \in Nat /\ r \in 0 .. Len(s) /\ FreeOfMarks(s)
  BY <1>1, LenProperties DEF PrefixInv
<1>3. PICK cut \in 0 .. r : /\ ~Held(SubSeq(s, 1, cut))
                            /\ prefixOut = SubSeq(s, MarkerEnd(SubSeq(s, 1, cut)) + 1, r)
  BY <1>1 DEF PrefixInv, Decided
<1>4. PICK m : m = MarkerEnd(s)
  OBVIOUS
<1>5. cut \in 0 .. Len(s) /\ 1 \in 1 .. cut + 1 /\ cut - 1 + 1 = cut
  BY <1>2, <1>3
<1>6. MarkerEnd(SubSeq(s, 1, cut)) = m
  BY <1>2, <1>3, <1>4, <1>5, MarkerEndFree
<1>7. m \in 0 .. cut
  <2>1. SubSeq(s, 1, cut) \in Seq(S) /\ Len(SubSeq(s, 1, cut)) = cut
    BY <1>2, <1>5, Parts
  <2>2. MarkerEnd(SubSeq(s, 1, cut)) \in 0 .. Len(SubSeq(s, 1, cut))
    BY <2>1, MarkerEndIs
  <2> QED BY <1>6, <2>1, <2>2
<1>8. /\ m + 1 \in 1 .. r + 1 /\ Len(s) \in 0 .. Len(s) /\ m + 1 \in 1 .. Len(s) + 1
      /\ r \in (m + 1) - 1 .. Len(s) /\ r - (m + 1) + 1 = r - m /\ Len(s) - (m + 1) + 1 = Len(s) - m
  BY <1>2, <1>3, <1>7
<1>9. prefixOut = SubSeq(s, m + 1, r) /\ Len(prefixOut) = r - m
  <2>1. Len(SubSeq(s, m + 1, r)) = r - (m + 1) + 1
    BY <1>2, <1>8, Parts
  <2> QED BY <1>3, <1>6, <1>8, <2>1
<1>10. Stripped(s) = SubSeq(s, m + 1, Len(s)) /\ Len(Stripped(s)) = Len(s) - m
  <2>1. Len(SubSeq(s, m + 1, Len(s))) = Len(s) - (m + 1) + 1
    BY <1>2, <1>8, Parts
  <2> QED BY <1>4, <1>8, <2>1 DEF Stripped
<1>11. SubSeq(Stripped(s), 1, r - m) = SubSeq(s, m + 1, r)
  <2>1. SubSeq(SubSeq(s, m + 1, Len(s)), 1, r - (m + 1) + 1) = SubSeq(s, m + 1, r)
    BY <1>2, <1>8, Parts
  <2> QED BY <1>8, <1>10, <2>1
<1>12. r - m = Len(s) - m - (Len(s) - r)
  BY <1>2, <1>7
<1> QED BY <1>1, <1>9, <1>10, <1>11, <1>12

(***************************************************************************)
(* No text of a reply is lost, doubled or changed by the filter, wherever  *)
(* the borders of its chunks are: what is missing from what was pushed is  *)
(* a marker of the speaker's name or a few characters push still holds;    *)
(* and a reply without spaces and brackets comes out the same however it   *)
(* is cut into chunks.                                                     *)
(***************************************************************************)
THEOREM PrefixKeepsText == PrefixSpec => []PrefixCorrect
<1>1. PrefixInv => PrefixCorrect
  BY OnlyMarker, ChunksAnyway DEF PrefixCorrect
<1> QED BY <1>1, PrefixInvariant, PTL

-----------------------------------------------------------------------------
(***************************************************************************)
(* What is put before the model, for any budget, caps and sizes.           *)
(***************************************************************************)
Spans == [first : Int, last : Int]
Sources == {"system", "persona", "world", "memory", "history", "knowledge"}
Ids == {"policy", "card", "memo", "talk", "outline", "hits"}
Contribs == {c \in [source : Sources, id : Ids, text : Spans] : SizeOf(c.text) \in Nat \ {0}}

OncePerSource(C) == \A c, d \in C : c.source = d.source => c = d

\* What PromptByPriority says of what was asked for and what was made of it.
ByPriority(asked, made) ==
  LET blocks == DOMAIN made
      rank(c) == Priority[c.source]
      spent == SumOf([i \in blocks |-> SizeOf(made[i].text)])
      whole(c) == \E i \in blocks : made[i] = c
      twice(c) == \E d \in asked : d.id = c.id /\ rank(d) > rank(c)
  IN  /\ spent <= PromptBudget
      /\ \A i, j \in blocks : i < j => rank(made[i]) > rank(made[j])
      /\ \A i \in blocks : \E c \in asked :
           ~twice(c) /\ BeginningOf(made[i], c) /\ (i < Len(made) => made[i] = c)
      /\ \A c \in asked :
           \/ whole(c) \/ twice(c)
           \/ spent = PromptBudget /\ \A i \in blocks : rank(made[i]) >= rank(c)

\* And of what was asked for: only the history has lost something, its oldest part.
RightEnds(asked, length) ==
  \A c \in asked : c.text.first = 1 \/ (c.source = "history" /\ c.text.last = length)

LEMMA PrioritiesAre ==
  /\ \A a \in Sources : Priority[a] \in 1 .. 100
  /\ \A a, b \in Sources : Priority[a] = Priority[b] => a = b
BY DEF Sources, Priority

\* The sorted list of contributions.
Descending(L, C) ==
  /\ L \in Seq(C)
  /\ \A c \in C : \E j \in 1 .. Len(L) : L[j] = c
  /\ \A j, k \in 1 .. Len(L) : j < k => Priority[L[j].source] > Priority[L[k].source]

LEMMA OrderedIs ==
  ASSUME NEW C \in SUBSET Contribs, IsFiniteSet(C), OncePerSource(C)
  PROVE  Descending(Ordered(C), C)
<1> DEFINE key == [c \in C |-> Priority[c.source]]
<1>1. \A c \in C : c.source \in Sources
  BY DEF Contribs
<1>2. key \in [C -> 1 .. 100] /\ \A c \in C : key[c] = Priority[c.source]
  BY <1>1, PrioritiesAre
<1>3. \A c, d \in C : key[c] = key[d] => c = d
  BY <1>1, <1>2, PrioritiesAre DEF OncePerSource
<1> HIDE DEF key
<1>4. PICK N \in Nat : N = Cardinality(C)
  BY FS_CardinalityType
<1>5. /\ \A n \in 1 .. N : \E c \in C : Cardinality(Reach(C, key, c)) = n
      /\ \A c \in C : Cardinality(Reach(C, key, c)) \in 1 .. N
      /\ \A c, d \in C : key[c] > key[d] => Cardinality(Reach(C, key, c)) < Cardinality(Reach(C, key, d))
  <2>1. 100 \in Nat
    OBVIOUS
  <2>2. /\ \A n \in 1 .. Cardinality(C) : \E c \in C : Cardinality(Reach(C, key, c)) = n
        /\ \A c \in C : Cardinality(Reach(C, key, c)) \in 1 .. Cardinality(C)
        /\ \A c, d \in C : key[c] > key[d] => Cardinality(Reach(C, key, c)) < Cardinality(Reach(C, key, d))
    BY <1>2, <1>3, <2>1, RankIs
  <2> QED BY <1>4, <2>2
<1> DEFINE at(n) == CHOOSE c \in C : Cardinality(Reach(C, key, c)) = n
           L == [n \in 1 .. N |-> at(n)]
<1>6. Ordered(C) = L
  <2>1. \A c \in C : {d \in C : Priority[d.source] >= Priority[c.source]} = Reach(C, key, c)
    BY <1>2 DEF Reach
  <2>2. \A n : (CHOOSE c \in C : Cardinality({d \in C : Priority[d.source] >= Priority[c.source]}) = n) = at(n)
    BY <2>1
  <2>3. Ordered(C) = [n \in 1 .. N |->
           CHOOSE c \in C : Cardinality({d \in C : Priority[d.source] >= Priority[c.source]}) = n]
    BY <1>4 DEF Ordered
  <2> HIDE DEF at
  <2> QED BY <2>2, <2>3
<1>7. \A n \in 1 .. N : at(n) \in C /\ Cardinality(Reach(C, key, at(n))) = n
  BY <1>5
<1> HIDE DEF at
<1>8. L \in [1 .. N -> C] /\ \A n \in 1 .. N : L[n] = at(n)
  BY <1>7
<1> HIDE DEF L
<1>9. L \in Seq(C) /\ Len(L) = N
  <2>1. L \in Seq(C)
    BY <1>4, <1>8, SeqDef
  <2> QED BY <1>4, <1>8, <2>1, LenProperties
<1>10. ASSUME NEW c \in C PROVE \E j \in 1 .. Len(L) : L[j] = c
  <2>1. PICK n \in 1 .. N : n = Cardinality(Reach(C, key, c))
    BY <1>5
  <2>2. at(n) \in C /\ Cardinality(Reach(C, key, at(n))) = n
    BY <1>7
  <2>3. ~(key[at(n)] > key[c]) /\ ~(key[c] > key[at(n)])
    BY <1>5, <2>1, <2>2
  <2>4. key[at(n)] = key[c]
    <3>1. key[at(n)] \in Nat /\ key[c] \in Nat
      BY <1>2, <2>2
    <3> QED BY <2>3, <3>1
  <2>5. L[n] = c
    BY <1>3, <1>8, <2>2, <2>4
  <2> QED BY <1>9, <2>5
<1>11. ASSUME NEW j \in 1 .. Len(L), NEW k \in 1 .. Len(L), j < k
       PROVE  Priority[L[j].source] > Priority[L[k].source]
  <2>1. j \in 1 .. N /\ k \in 1 .. N /\ L[j] = at(j) /\ L[k] = at(k)
    BY <1>8, <1>9
  <2>2. /\ at(j) \in C /\ Cardinality(Reach(C, key, at(j))) = j
        /\ at(k) \in C /\ Cardinality(Reach(C, key, at(k))) = k
    BY <1>7, <2>1
  <2>3. ~(key[at(k)] > key[at(j)]) /\ at(j) # at(k)
    BY <1>5, <1>11, <2>1, <2>2
  <2>4. key[at(j)] \in Nat /\ key[at(k)] \in Nat /\ key[at(j)] # key[at(k)]
    <3>1. key[at(j)] # key[at(k)]
      BY <1>3, <2>2, <2>3
    <3>2. ASSUME NEW c \in C PROVE key[c] \in Nat
      <4>1. key[c] \in 1 .. 100
        BY <1>2
      <4>2. \A x \in 1 .. 100 : x \in Nat
        OBVIOUS
      <4> QED BY <4>1, <4>2
    <3> QED BY <2>2, <3>1, <3>2
  <2>5. key[at(j)] > key[at(k)]
    BY <2>3, <2>4
  <2> QED BY <1>2, <2>1, <2>2, <2>5
<1> QED BY <1>6, <1>9, <1>10, <1>11 DEF Descending

-----------------------------------------------------------------------------
\* The loop of assembleContext: what it has after so many contributions.
AddBlock(sofar, c) ==
  LET remaining == PromptBudget - sofar.used
      block == HeadOf(c.text, remaining)
  IN  IF c.id \in sofar.seen \/ remaining = 0 THEN sofar
      ELSE [seen |-> sofar.seen \cup {c.id},
            blocks |-> Append(sofar.blocks, Contribution(c.source, c.id, block)),
            used |-> sofar.used + SizeOf(block)]

NoBlocks == [seen |-> {}, blocks |-> <<>>, used |-> 0]
AssemblyStates == [seen : SUBSET Ids, blocks : Seq(Contribs), used : 0 .. PromptBudget]
BlockSizes(blocks) == [k \in DOMAIN blocks |-> SizeOf(blocks[k].text)]

\* An entry whose text is there already, or that is there in whole.
Again(L, j) == \E h \in 1 .. j - 1 : L[h].id = L[j].id
Covered(L, j, blocks) == Again(L, j) \/ \E k \in DOMAIN blocks : blocks[k] = L[j]

\* Block k is of entry j: all of it unless the block is the last one, and all
\* that comes before the entry is covered.
BlockOf(L, j, blocks, k) ==
  /\ BeginningOf(blocks[k], L[j]) /\ ~Again(L, j)
  /\ k < Len(blocks) => blocks[k] = L[j]
  /\ \A h \in 1 .. j - 1 : Covered(L, h, blocks)

Placed(L, i, blocks, k) == \E j \in 1 .. i : BlockOf(L, j, blocks, k)

\* The entries of two blocks come in the order of the blocks.
Earlier(L, blocks, k, m) ==
  \A j, h \in 1 .. Len(L) :
    blocks[k].source = L[j].source /\ blocks[m].source = L[h].source => j < h

AssemblyInv(L, i, s) ==
  /\ s \in AssemblyStates
  /\ SumOf(BlockSizes(s.blocks)) = s.used
  /\ \A id \in s.seen : \E j \in 1 .. i : L[j].id = id
  /\ \A k \in DOMAIN s.blocks : Placed(L, i, s.blocks, k)
  /\ \A k, m \in DOMAIN s.blocks : k < m => Earlier(L, s.blocks, k, m)
  /\ s.used < PromptBudget => \A j \in 1 .. i : L[j].id \in s.seen /\ Covered(L, j, s.blocks)

LEMMA BudgetIs == PromptBudget \in Nat \ {0}
BY PromptAssumption

LEMMA BlockIs ==
  ASSUME NEW c \in Contribs, NEW r \in Nat \ {0}
  PROVE  LET block == HeadOf(c.text, r)
         IN  /\ block \in Spans /\ SizeOf(block) \in 1 .. r
             /\ SizeOf(block) < r => Contribution(c.source, c.id, block) = c
             /\ Contribution(c.source, c.id, block) \in Contribs
             /\ BeginningOf(Contribution(c.source, c.id, block), c)
<1>1. PICK a \in Int, b \in Int : c.text = [first |-> a, last |-> b] /\ b - a + 1 \in Nat \ {0}
  BY DEF Contribs, Spans, SizeOf
<1>2. c = [source |-> c.source, id |-> c.id, text |-> c.text] /\ c.source \in Sources /\ c.id \in Ids
  BY DEF Contribs
<1>3. PICK e \in Int : e = Least(b, a + r - 1)
  BY DEF Least
<1>4. e - a + 1 \in 1 .. r /\ (e - a + 1 < r => e = b) /\ e \in a .. b
  BY <1>1, <1>3 DEF Least
<1>5. HeadOf(c.text, r) = [first |-> a, last |-> e]
  BY <1>1, <1>3 DEF HeadOf, Span
<1>6. HeadOf(c.text, r) \in Spans /\ SizeOf(HeadOf(c.text, r)) = e - a + 1
  BY <1>5 DEF Spans, SizeOf
<1>7. Contribution(c.source, c.id, HeadOf(c.text, r)) \in Contribs
  BY <1>2, <1>4, <1>6 DEF Contribution, Contribs
<1>8. e = b => Contribution(c.source, c.id, HeadOf(c.text, r)) = c
  BY <1>1, <1>2, <1>5 DEF Contribution
<1>9. BeginningOf(Contribution(c.source, c.id, HeadOf(c.text, r)), c)
  <2>1. PICK block : block = HeadOf(c.text, r)
    OBVIOUS
  <2>2. block.first = a /\ block.last = e /\ c.text.first = a /\ c.text.last = b
    BY <1>1, <1>5, <2>1
  <2> QED BY <1>4, <2>1, <2>2 DEF BeginningOf, Contribution
<1> QED BY <1>4, <1>6, <1>7, <1>8, <1>9

LEMMA AppendedSizes ==
  ASSUME NEW blocks \in Seq(Contribs), NEW c \in Contribs
  PROVE  /\ BlockSizes(blocks) \in Seq(Nat)
         /\ SumOf(BlockSizes(Append(blocks, c))) = SumOf(BlockSizes(blocks)) + SizeOf(c.text)
<1>1. PICK n \in Nat : n = Len(blocks) /\ DOMAIN blocks = 1 .. n
  BY LenProperties
<1>2. \A k \in 1 .. n : SizeOf(blocks[k].text) \in Nat
  BY <1>1, ElementOfSeq DEF Contribs
<1>3. BlockSizes(blocks) \in [1 .. n -> Nat]
  BY <1>1, <1>2 DEF BlockSizes
<1>4. BlockSizes(blocks) \in Seq(Nat) /\ Len(BlockSizes(blocks)) = n
  <2>1. BlockSizes(blocks) \in Seq(Nat)
    BY <1>3, SeqDef
  <2> QED BY <1>1, <1>3, <2>1, LenProperties
<1>5. SizeOf(c.text) \in Nat
  BY DEF Contribs
<1> DEFINE more == Append(blocks, c)
<1>6. Len(more) = n + 1 /\ DOMAIN more = 1 .. n + 1 /\ more[n + 1] = c /\ \A k \in 1 .. n : more[k] = blocks[k]
  BY <1>1
<1> HIDE DEF more
<1>7. BlockSizes(more) = [k \in 1 .. n + 1 |-> SizeOf(more[k].text)]
  BY <1>6 DEF BlockSizes
<1>8. Append(BlockSizes(blocks), SizeOf(c.text)) = [k \in 1 .. n + 1 |-> IF k = n + 1 THEN SizeOf(c.text) ELSE SizeOf(blocks[k].text)]
  <2>1. \A k \in 1 .. n : BlockSizes(blocks)[k] = SizeOf(blocks[k].text)
    BY <1>1 DEF BlockSizes
  <2> QED BY <1>4, <1>5, <2>1
<1>9. \A k \in 1 .. n + 1 : SizeOf(more[k].text) = IF k = n + 1 THEN SizeOf(c.text) ELSE SizeOf(blocks[k].text)
  BY <1>6
<1>10. BlockSizes(more) = Append(BlockSizes(blocks), SizeOf(c.text))
  BY <1>7, <1>8, <1>9
<1>11. BlockSizes(blocks) \in Seq(Int) /\ SizeOf(c.text) \in Int
  BY <1>4, <1>5, SeqMonotonic
<1> QED BY <1>4, <1>10, <1>11, SumOfAppend DEF more

LEMMA CoveredStays ==
  ASSUME NEW L, NEW j, NEW blocks \in Seq(Contribs), NEW c \in Contribs, Covered(L, j, blocks)
  PROVE  Covered(L, j, Append(blocks, c))
<1>1. PICK n \in Nat : n = Len(blocks) /\ DOMAIN blocks = 1 .. n
  BY LenProperties
<1>2. DOMAIN Append(blocks, c) = 1 .. n + 1 /\ \A k \in 1 .. n : Append(blocks, c)[k] = blocks[k]
  BY <1>1
<1>3. \A k \in DOMAIN blocks : k \in DOMAIN Append(blocks, c) /\ Append(blocks, c)[k] = blocks[k]
  BY <1>1, <1>2
<1> QED BY <1>3 DEF Covered

LEMMA AssemblyStep ==
  ASSUME NEW L \in Seq(Contribs), NEW i \in 0 .. Len(L) - 1, NEW s, AssemblyInv(L, i, s),
         \A j, k \in 1 .. Len(L) : L[j].source = L[k].source => j = k
  PROVE  AssemblyInv(L, i + 1, AddBlock(s, L[i + 1]))
<1> DEFINE seen == s.seen
           blocks == s.blocks
           used == s.used
<1>1. i \in Nat /\ i + 1 \in 1 .. Len(L) /\ Len(L) \in Nat
  BY LenProperties
<1>2. PICK c \in Contribs : c = L[i + 1]
  BY <1>1, ElementOfSeq
<1>3. /\ seen \in SUBSET Ids /\ blocks \in Seq(Contribs) /\ used \in Nat /\ used <= PromptBudget
      /\ s = [seen |-> seen, blocks |-> blocks, used |-> used] /\ PromptBudget \in Nat
  <2>1. s \in AssemblyStates
    BY DEF AssemblyInv
  <2> QED BY <2>1, BudgetIs DEF AssemblyStates
<1>4. CASE c.id \in seen \/ PromptBudget - used = 0
  <2>1. AddBlock(s, L[i + 1]) = s
    BY <1>2, <1>4 DEF AddBlock
  <2>2. \A j \in 1 .. i : j \in 1 .. i + 1
    BY <1>1
  <2>3. used < PromptBudget => \A j \in 1 .. i + 1 : L[j].id \in seen /\ Covered(L, j, blocks)
    <3> SUFFICES ASSUME used < PromptBudget, NEW j \in 1 .. i + 1 PROVE L[j].id \in seen /\ Covered(L, j, blocks)
      OBVIOUS
    <3>1. CASE j \in 1 .. i
      BY <3>1 DEF AssemblyInv
    <3>2. CASE j = i + 1
      <4>1. c.id \in seen
        BY <1>3, <1>4
      <4>2. PICK h \in 1 .. i : L[h].id = c.id
        BY <4>1 DEF AssemblyInv
      <4>3. h \in 1 .. j - 1
        BY <1>1, <3>2
      <4> QED BY <1>2, <3>2, <4>1, <4>2, <4>3 DEF Covered, Again
    <3> QED BY <1>1, <3>1, <3>2
  <2>4. \A id \in seen : \E j \in 1 .. i + 1 : L[j].id = id
    BY <2>2 DEF AssemblyInv
  <2>5. \A k \in DOMAIN blocks : Placed(L, i + 1, blocks, k)
    BY <2>2 DEF AssemblyInv, Placed
  <2> QED BY <2>1, <2>3, <2>4, <2>5 DEF AssemblyInv
<1>5. CASE ~(c.id \in seen) /\ PromptBudget - used # 0
  <2>1. PICK r \in Nat \ {0} : r = PromptBudget - used
    BY <1>3, <1>5
  <2>2. PICK block : block = HeadOf(c.text, r)
    OBVIOUS
  <2>3. PICK b : b = Contribution(c.source, c.id, block)
    OBVIOUS
  <2>4. /\ block \in Spans /\ SizeOf(block) \in 1 .. r /\ b \in Contribs
        /\ SizeOf(block) < r => b = c
        /\ BeginningOf(b, c)
    BY <2>2, <2>3, BlockIs
  <2>5. b.source = c.source /\ b.text = block
    BY <2>3 DEF Contribution
  <2>6. PICK t : t = AddBlock(s, L[i + 1])
    OBVIOUS
  <2>7. t = [seen |-> seen \cup {c.id}, blocks |-> Append(blocks, b), used |-> used + SizeOf(block)]
    BY <1>2, <1>5, <2>1, <2>2, <2>3, <2>6 DEF AddBlock
  <2>8. t.seen = seen \cup {c.id} /\ t.blocks = Append(blocks, b) /\ t.used = used + SizeOf(block)
    BY <2>7
  <2>9. PICK n \in Nat : n = Len(blocks) /\ DOMAIN blocks = 1 .. n
    BY <1>3, LenProperties
  <2>10. /\ DOMAIN t.blocks = 1 .. n + 1 /\ t.blocks[n + 1] = b /\ \A k \in 1 .. n : t.blocks[k] = blocks[k]
         /\ t.blocks \in Seq(Contribs)
    BY <1>3, <2>4, <2>8, <2>9
  <2>11. t \in AssemblyStates
    <3>1. used + SizeOf(block) \in 0 .. PromptBudget
      BY <1>3, <2>1, <2>4
    <3>2. c.id \in Ids
      BY DEF Contribs
    <3> QED BY <1>3, <2>7, <2>8, <2>10, <3>1, <3>2 DEF AssemblyStates
  <2>12. SumOf(BlockSizes(t.blocks)) = t.used
    <3>1. SumOf(BlockSizes(blocks)) = used
      BY DEF AssemblyInv
    <3> QED BY <1>3, <2>4, <2>5, <2>8, <3>1, AppendedSizes
  <2>13. \A id \in t.seen : \E j \in 1 .. i + 1 : L[j].id = id
    <3>1. \A id \in seen : \E j \in 1 .. i : L[j].id = id
      BY DEF AssemblyInv
    <3>2. \A j \in 1 .. i : j \in 1 .. i + 1
      BY <1>1
    <3>3. i + 1 \in 1 .. i + 1
      BY <1>1
    <3> QED BY <1>2, <2>8, <3>1, <3>2, <3>3
  <2>14. \A j \in 1 .. i : L[j].id \in seen /\ Covered(L, j, blocks)
    <3>1. used < PromptBudget
      BY <1>3, <2>1
    <3> QED BY <3>1 DEF AssemblyInv
  <2>15. \A j : Covered(L, j, blocks) => Covered(L, j, t.blocks)
    BY <1>3, <2>4, <2>8, CoveredStays
  <2>16. ASSUME NEW k \in 1 .. n, NEW j \in 1 .. i, BlockOf(L, j, blocks, k)
         PROVE  BlockOf(L, j, t.blocks, k)
    <3>1. Covered(L, j, blocks) /\ ~Again(L, j) /\ BeginningOf(blocks[k], L[j])
      BY <2>14, <2>16 DEF BlockOf
    <3>2. PICK m \in 1 .. n : blocks[m] = L[j]
      BY <2>9, <3>1 DEF Covered
    <3>3. blocks[k].source = L[j].source /\ j \in 1 .. Len(L)
      BY <1>1, <3>1 DEF BeginningOf
    <3>4. \A x, y \in 1 .. n : x < y => Earlier(L, blocks, x, y)
      BY <2>9 DEF AssemblyInv
    <3>5. ~(k < m) /\ ~(m < k)
      BY <3>2, <3>3, <3>4 DEF Earlier
    <3>6. k = m
      BY <3>5
    <3>7. t.blocks[k] = L[j]
      BY <2>10, <3>2, <3>6
    <3>8. BeginningOf(t.blocks[k], L[j])
      BY <2>10, <3>1
    <3>9. \A h \in 1 .. j - 1 : Covered(L, h, t.blocks)
      BY <2>15, <2>16 DEF BlockOf
    <3> QED BY <3>1, <3>7, <3>8, <3>9 DEF BlockOf
  <2>17. \A k \in DOMAIN t.blocks : Placed(L, i + 1, t.blocks, k)
    <3> SUFFICES ASSUME NEW k \in DOMAIN t.blocks PROVE Placed(L, i + 1, t.blocks, k)
      OBVIOUS
    <3>1. CASE k \in 1 .. n
      <4>1. PICK j \in 1 .. i : BlockOf(L, j, blocks, k)
        BY <2>9, <3>1 DEF AssemblyInv, Placed
      <4>2. j \in 1 .. i + 1 /\ BlockOf(L, j, t.blocks, k)
        BY <1>1, <2>16, <3>1, <4>1
      <4> QED BY <4>2 DEF Placed
    <3>2. CASE k = n + 1
      <4>1. BeginningOf(t.blocks[k], L[i + 1])
        BY <1>2, <2>4, <2>10, <3>2
      <4>2. i + 1 \in 1 .. i + 1 /\ i + 1 - 1 = i
        BY <1>1
      <4>3. ~Again(L, i + 1)
        BY <1>2, <1>5, <2>14, <4>2 DEF Again
      <4>4. \A h \in 1 .. i + 1 - 1 : Covered(L, h, t.blocks)
        BY <2>14, <2>15, <4>2
      <4>5. Len(t.blocks) = n + 1
        BY <2>10, LenProperties
      <4>6. ~(k < Len(t.blocks))
        BY <3>2, <4>5
      <4>7. BlockOf(L, i + 1, t.blocks, k)
        BY <4>1, <4>3, <4>4, <4>6 DEF BlockOf
      <4> QED BY <4>2, <4>7 DEF Placed
    <3> QED BY <2>9, <2>10, <3>1, <3>2
  <2>18. ASSUME NEW k \in DOMAIN t.blocks, NEW m \in DOMAIN t.blocks, k < m
         PROVE  Earlier(L, t.blocks, k, m)
    <3>1. k \in 1 .. n /\ (m \in 1 .. n \/ m = n + 1)
      BY <2>9, <2>10, <2>18
    <3>2. CASE m \in 1 .. n
      <4>1. Earlier(L, blocks, k, m)
        BY <2>9, <2>18, <3>1, <3>2 DEF AssemblyInv
      <4> QED BY <2>10, <3>1, <3>2, <4>1 DEF Earlier
    <3>3. CASE m = n + 1
      <4> SUFFICES ASSUME NEW j \in 1 .. Len(L), NEW h \in 1 .. Len(L),
                          t.blocks[k].source = L[j].source, t.blocks[m].source = L[h].source
                   PROVE  j < h
        BY DEF Earlier
      <4>1. h = i + 1
        BY <1>1, <1>2, <2>5, <2>10, <3>3
      <4>2. PICK g \in 1 .. i : BlockOf(L, g, blocks, k)
        BY <2>9, <3>1 DEF AssemblyInv, Placed
      <4>3. t.blocks[k].source = L[g].source /\ g \in 1 .. Len(L)
        <5>1. BeginningOf(blocks[k], L[g])
          BY <4>2 DEF BlockOf
        <5>2. blocks[k].source = L[g].source
          BY <5>1 DEF BeginningOf
        <5> QED BY <1>1, <2>10, <3>1, <5>2
      <4>4. j = g
        BY <4>3
      <4> QED BY <1>1, <4>1, <4>4
    <3> QED BY <3>1, <3>2, <3>3
  <2>19. t.used < PromptBudget => \A j \in 1 .. i + 1 : L[j].id \in t.seen /\ Covered(L, j, t.blocks)
    <3> SUFFICES ASSUME t.used < PromptBudget, NEW j \in 1 .. i + 1 PROVE L[j].id \in t.seen /\ Covered(L, j, t.blocks)
      OBVIOUS
    <3>1. CASE j \in 1 .. i
      BY <2>8, <2>14, <2>15, <3>1
    <3>2. CASE j = i + 1
      <4>1. b = c
        BY <1>3, <2>1, <2>4, <2>8
      <4>2. n + 1 \in DOMAIN t.blocks /\ t.blocks[n + 1] = L[j]
        BY <1>2, <2>9, <2>10, <3>2, <4>1
      <4> QED BY <1>2, <2>8, <3>2, <4>2 DEF Covered
    <3> QED BY <1>1, <3>1, <3>2
  <2>20. AssemblyInv(L, i + 1, t)
    BY <2>11, <2>12, <2>13, <2>17, <2>18, <2>19 DEF AssemblyInv
  <2> QED BY <2>6, <2>20
<1> QED BY <1>4, <1>5

\* The states of a loop, whichever they are, are the ones a recursive function
\* on its rounds gives.
LEMMA AssemblyRuns ==
  ASSUME NEW L \in Seq(Contribs),
         \A j, k \in 1 .. Len(L) : L[j].source = L[k].source => j = k
  PROVE  \E g \in [0 .. Len(L) -> AssemblyStates] :
           g = [i \in 0 .. Len(L) |-> IF i = 0 THEN NoBlocks ELSE AddBlock(g[i - 1], L[i])]
<1> DEFINE n == Len(L)
           F == [p \in (1 .. n) \X AssemblyStates |-> AddBlock(p[2], L[p[1]])]
<1>1. n \in Nat /\ \A i \in 1 .. n : L[i] \in Contribs
  BY LenProperties, ElementOfSeq
<1>2. ASSUME NEW s \in AssemblyStates, NEW c \in Contribs PROVE AddBlock(s, c) \in AssemblyStates
  <2>1. s.seen \in SUBSET Ids /\ s.blocks \in Seq(Contribs) /\ s.used \in Nat /\ s.used <= PromptBudget /\ PromptBudget \in Nat
    BY BudgetIs DEF AssemblyStates
  <2>2. CASE c.id \in s.seen \/ PromptBudget - s.used = 0
    BY <2>2 DEF AddBlock
  <2>3. CASE ~(c.id \in s.seen \/ PromptBudget - s.used = 0)
    <3>1. PICK r \in Nat \ {0} : r = PromptBudget - s.used
      BY <2>1, <2>3
    <3>2. PICK block : block = HeadOf(c.text, r)
      OBVIOUS
    <3>3. SizeOf(block) \in 1 .. r /\ Contribution(c.source, c.id, block) \in Contribs /\ c.id \in Ids
      BY <3>2, BlockIs DEF Contribs
    <3>4. AddBlock(s, c) = [seen |-> s.seen \cup {c.id}, blocks |-> Append(s.blocks, Contribution(c.source, c.id, block)),
                            used |-> s.used + SizeOf(block)]
      BY <2>3, <3>1, <3>2 DEF AddBlock
    <3>5. s.used + SizeOf(block) \in 0 .. PromptBudget /\ Append(s.blocks, Contribution(c.source, c.id, block)) \in Seq(Contribs)
      BY <2>1, <3>1, <3>3
    <3> QED BY <2>1, <3>3, <3>4, <3>5 DEF AssemblyStates
  <2> QED BY <2>2, <2>3
<1>3. NoBlocks \in AssemblyStates
  BY BudgetIs, EmptySeq DEF NoBlocks, AssemblyStates
<1>4. F \in [(1 .. n) \X AssemblyStates -> AssemblyStates]
  <2>1. ASSUME NEW p \in (1 .. n) \X AssemblyStates PROVE AddBlock(p[2], L[p[1]]) \in AssemblyStates
    <3>1. p[1] \in 1 .. n /\ p[2] \in AssemblyStates
      OBVIOUS
    <3> QED BY <1>1, <1>2, <3>1
  <2> QED BY <2>1
<1>5. \A i \in 1 .. n, s \in AssemblyStates : F[<<i, s>>] = AddBlock(s, L[i])
  OBVIOUS
<1> HIDE DEF F, n
<1>6. PICK g \in [0 .. n -> AssemblyStates] : Iterates(g, n, NoBlocks, F)
  BY <1>1, <1>3, <1>4, IterationExists
<1>7. ASSUME NEW i \in 0 .. n PROVE g[i] = IF i = 0 THEN NoBlocks ELSE AddBlock(g[i - 1], L[i])
  <2>1. CASE i = 0
    BY <1>6, <2>1 DEF Iterates
  <2>2. CASE i # 0
    <3>1. i \in 1 .. n /\ i - 1 \in 0 .. n
      BY <1>1, <2>2
    <3>2. g[i - 1] \in AssemblyStates /\ g[i] = F[<<i, g[i - 1]>>]
      BY <1>6, <3>1 DEF Iterates
    <3> QED BY <1>5, <2>2, <3>1, <3>2
  <2> QED BY <2>1, <2>2
<1>8. g = [i \in 0 .. n |-> IF i = 0 THEN NoBlocks ELSE AddBlock(g[i - 1], L[i])]
  BY <1>7
<1> QED BY <1>6, <1>8 DEF n

LEMMA AssembledIs ==
  ASSUME NEW C, NEW L, L = Ordered(C), L \in Seq(Contribs),
         \A j, k \in 1 .. Len(L) : L[j].source = L[k].source => j = k
  PROVE  AssemblyInv(L, Len(L), Assembled(C))
<1> DEFINE Q(h) == h = [i \in 0 .. Len(L) |-> IF i = 0 THEN NoBlocks ELSE AddBlock(h[i - 1], L[i])]
           run == CHOOSE h : Q(h)
<1>1. Assembled(C) = run[Len(L)]
  BY DEF Assembled, AddBlock, NoBlocks
<1>2. PICK g \in [0 .. Len(L) -> AssemblyStates] : Q(g)
  BY AssemblyRuns
<1>3. Q(run)
  <2> HIDE DEF Q
  <2> QED BY <1>2
<1> HIDE DEF run
<1>4. PICK n \in Nat : n = Len(L)
  BY LenProperties
<1>5. run[0] = NoBlocks /\ \A i \in 1 .. n : run[i] = AddBlock(run[i - 1], L[i])
  BY <1>3, <1>4
<1> HIDE DEF Q
<1> DEFINE T == {i \in 0 .. n : AssemblyInv(L, i, run[i])}
<1>6. 0 \in T
  <2>1. NoBlocks \in AssemblyStates /\ NoBlocks.seen = {} /\ NoBlocks.blocks = <<>> /\ NoBlocks.used = 0
    BY BudgetIs, EmptySeq DEF NoBlocks, AssemblyStates
  <2>2. BlockSizes(<<>>) = <<>> /\ DOMAIN <<>> = {}
    BY DEF BlockSizes
  <2>3. SumOf(BlockSizes(NoBlocks.blocks)) = 0
    BY <2>1, <2>2, SumOfEmpty
  <2>4. AssemblyInv(L, 0, NoBlocks)
    BY <2>1, <2>2, <2>3 DEF AssemblyInv
  <2> QED BY <1>5, <2>4
<1>7. ASSUME NEW i \in 0 .. n - 1, i \in T PROVE i + 1 \in T
  <2>1. i + 1 \in 1 .. n /\ i + 1 \in 0 .. n /\ i + 1 - 1 = i
    OBVIOUS
  <2>2. run[i + 1] = AddBlock(run[i], L[i + 1])
    BY <1>5, <2>1
  <2>3. AssemblyInv(L, i + 1, AddBlock(run[i], L[i + 1]))
    BY <1>4, <1>7, AssemblyStep
  <2> QED BY <2>1, <2>2, <2>3
<1>8. n \in T
  <2> HIDE DEF T
  <2>1. \A i \in 0 .. n : i \in T
    BY <1>6, <1>7, InductionUpTo
  <2> QED BY <2>1
<1> QED BY <1>1, <1>4, <1>8

LEMMA AssembledByPriority ==
  ASSUME NEW C \in SUBSET Contribs, IsFiniteSet(C), OncePerSource(C)
  PROVE  ByPriority(C, Assembled(C).blocks)
<1>1. PICK L : L = Ordered(C)
  OBVIOUS
<1>2. Descending(L, C)
  BY <1>1, OrderedIs
<1>3. PICK n \in Nat : n = Len(L) /\ \A j \in 1 .. n : L[j] \in C
  BY <1>2, LenProperties, ElementOfSeq DEF Descending
<1>4. L \in Seq(Contribs)
  BY <1>2, SeqMonotonic DEF Descending
<1>5. \A c \in C : c.source \in Sources /\ Priority[c.source] \in Nat
  BY PrioritiesAre DEF Contribs
<1>6. \A j, k \in 1 .. n : (Priority[L[j].source] > Priority[L[k].source] <=> j < k)
  <2> SUFFICES ASSUME NEW j \in 1 .. n, NEW k \in 1 .. n
               PROVE  Priority[L[j].source] > Priority[L[k].source] <=> j < k
    OBVIOUS
  <2>1. /\ (j < k => Priority[L[j].source] > Priority[L[k].source])
        /\ (k < j => Priority[L[k].source] > Priority[L[j].source])
    BY <1>2, <1>3 DEF Descending
  <2>2. Priority[L[j].source] \in Nat /\ Priority[L[k].source] \in Nat
    BY <1>3, <1>5
  <2>3. j = k => Priority[L[j].source] = Priority[L[k].source]
    OBVIOUS
  <2> QED BY <2>1, <2>2, <2>3
<1>7. \A j, k \in 1 .. n : L[j].source = L[k].source => j = k
  <2> SUFFICES ASSUME NEW j \in 1 .. n, NEW k \in 1 .. n, L[j].source = L[k].source PROVE j = k
    OBVIOUS
  <2>1. Priority[L[j].source] \in Nat
    BY <1>3, <1>5
  <2>2. ~(j < k) /\ ~(k < j)
    BY <1>6, <2>1
  <2> QED BY <2>2
<1>8. PICK s : s = Assembled(C)
  OBVIOUS
<1>9. PICK made : made = s.blocks
  OBVIOUS
<1>10. AssemblyInv(L, n, s)
  BY <1>1, <1>3, <1>4, <1>7, <1>8, AssembledIs
<1>11. PICK spent : spent = SumOf([i \in DOMAIN made |-> SizeOf(made[i].text)])
  OBVIOUS
<1>12. /\ spent \in Nat /\ spent <= PromptBudget
       /\ \A k \in DOMAIN made : Placed(L, n, made, k)
       /\ \A k, m \in DOMAIN made : k < m => Earlier(L, made, k, m)
       /\ spent < PromptBudget => \A j \in 1 .. n : Covered(L, j, made)
  BY <1>9, <1>10, <1>11, BudgetIs DEF AssemblyInv, AssemblyStates, BlockSizes
<1> DEFINE whole(c) == \E i \in DOMAIN made : made[i] = c
           twice(c) == \E d \in C : d.id = c.id /\ Priority[d.source] > Priority[c.source]
<1>13. ASSUME NEW h \in 1 .. n PROVE Again(L, h) <=> twice(L[h])
  <2>1. ASSUME Again(L, h) PROVE twice(L[h])
    <3>1. PICK e \in 1 .. h - 1 : L[e].id = L[h].id
      BY <2>1 DEF Again
    <3>2. e \in 1 .. n /\ e < h
      OBVIOUS
    <3> QED BY <1>3, <1>6, <3>1, <3>2
  <2>2. ASSUME twice(L[h]) PROVE Again(L, h)
    <3>1. PICK d \in C : d.id = L[h].id /\ Priority[d.source] > Priority[L[h].source]
      BY <2>2
    <3>2. PICK e \in 1 .. n : L[e] = d
      BY <1>2, <1>3 DEF Descending
    <3>3. e < h
      BY <1>6, <3>1, <3>2
    <3>4. e \in 1 .. h - 1
      BY <3>3
    <3> QED BY <3>1, <3>2, <3>4 DEF Again
  <2> QED BY <2>1, <2>2
<1>14. ASSUME NEW k \in DOMAIN made
       PROVE  \E j \in 1 .. n : /\ L[j] \in C /\ made[k].source = L[j].source
                                /\ ~twice(L[j]) /\ BeginningOf(made[k], L[j])
                                /\ k < Len(made) => made[k] = L[j]
                                /\ \A h \in 1 .. j - 1 : whole(L[h]) \/ twice(L[h])
  <2>1. PICK j \in 1 .. n : BlockOf(L, j, made, k)
    BY <1>12 DEF Placed
  <2>2. ASSUME NEW h \in 1 .. j - 1 PROVE whole(L[h]) \/ twice(L[h])
    <3>1. h \in 1 .. n /\ Covered(L, h, made)
      BY <2>1 DEF BlockOf
    <3> QED BY <1>13, <3>1 DEF Covered
  <2>3. ~twice(L[j])
    BY <1>13, <2>1 DEF BlockOf
  <2>4. /\ made[k].source = L[j].source /\ BeginningOf(made[k], L[j])
        /\ k < Len(made) => made[k] = L[j]
    BY <2>1 DEF BlockOf, BeginningOf
  <2> HIDE DEF whole, twice
  <2> QED BY <1>3, <2>2, <2>3, <2>4
<1>15. ASSUME NEW k \in DOMAIN made, NEW m \in DOMAIN made, k < m
       PROVE  Priority[made[k].source] > Priority[made[m].source]
  <2>1. PICK j \in 1 .. n : made[k].source = L[j].source
    BY <1>14
  <2>2. PICK h \in 1 .. n : made[m].source = L[h].source
    BY <1>14
  <2>3. j < h
    BY <1>3, <1>12, <1>15, <2>1, <2>2 DEF Earlier
  <2> QED BY <1>6, <2>1, <2>2, <2>3
<1>16. ASSUME NEW k \in DOMAIN made
       PROVE  \E c \in C : ~twice(c) /\ BeginningOf(made[k], c) /\ (k < Len(made) => made[k] = c)
  <2> HIDE DEF whole, twice
  <2>1. PICK j \in 1 .. n : /\ L[j] \in C /\ ~twice(L[j]) /\ BeginningOf(made[k], L[j])
                            /\ k < Len(made) => made[k] = L[j]
    BY <1>14
  <2> QED BY <2>1
<1>17. ASSUME NEW c \in C, ~whole(c), ~twice(c)
       PROVE  spent = PromptBudget /\ \A k \in DOMAIN made : Priority[made[k].source] >= Priority[c.source]
  <2>1. PICK h \in 1 .. n : L[h] = c
    BY <1>2, <1>3 DEF Descending
  <2>2. ~Covered(L, h, made)
    BY <1>13, <1>17, <2>1 DEF Covered
  <2>3. spent = PromptBudget
    <3>1. ~(spent < PromptBudget)
      BY <1>12, <2>2
    <3> QED BY <1>12, <3>1, BudgetIs
  <2>4. ASSUME NEW k \in DOMAIN made PROVE Priority[made[k].source] >= Priority[c.source]
    <3>1. PICK j \in 1 .. n : /\ made[k].source = L[j].source
                              /\ \A e \in 1 .. j - 1 : whole(L[e]) \/ twice(L[e])
      <4> HIDE DEF whole, twice
      <4> QED BY <1>14
    <3>2. ~(h < j)
      <4>1. h < j => h \in 1 .. j - 1
        OBVIOUS
      <4> HIDE DEF whole, twice
      <4> QED BY <1>17, <2>1, <3>1, <4>1
    <3>3. j < h \/ j = h
      BY <3>2
    <3>4. Priority[L[j].source] \in Nat /\ Priority[L[h].source] \in Nat
      BY <1>3, <1>5
    <3>5. j < h => Priority[L[j].source] > Priority[L[h].source]
      BY <1>6
    <3> QED BY <2>1, <3>1, <3>3, <3>4, <3>5
  <2> QED BY <2>3, <2>4
<1>18. ByPriority(C, made)
  <2> HIDE DEF whole, twice
  <2>1. \A c \in C : \/ whole(c) \/ twice(c)
                     \/ spent = PromptBudget /\ \A k \in DOMAIN made : Priority[made[k].source] >= Priority[c.source]
    BY <1>17
  <2> QED BY Zenon, <1>11, <1>12, <1>15, <1>16, <2>1 DEF ByPriority, whole, twice
<1> QED BY <1>8, <1>9, <1>18

\* Contributions as assembleContext is given them.
RoleplayInputs ==
  [task : {"roleplay"}, persona : Nat \ {0}, world : Nat, memory : Nat, history : Nat,
   hits : Seq(Nat), sameText : BOOLEAN]

LEMMA QuotedHitsAre ==
  ASSUME NEW hits \in Seq(Nat)
  PROVE  SumOf(QuotedHits(hits)) \in Nat
<1> DEFINE fits(k) == SumOf(SubSeq(hits, 1, k)) <= KnowledgeCap
           n == Len(hits)
           T == {m \in 0 .. n : m < n => ~fits(m + 1)}
<1>1. n \in Nat /\ n \in T
  BY LenProperties
<1>2. PICK m \in T : \A k \in T : m <= k
  <2>1. T \in SUBSET Nat
    BY <1>1
  <2> HIDE DEF T
  <2> QED BY <1>1, <2>1, LeastOf
<1>3. ASSUME NEW i \in 1 .. m PROVE fits(i)
  <2>1. i - 1 \in 0 .. n /\ i - 1 < m /\ i - 1 + 1 = i /\ i - 1 < n
    BY <1>1, <1>2
  <2>2. i - 1 \notin T
    <3>1. m \in Nat /\ i - 1 \in Nat /\ ~(m <= i - 1)
      BY <1>1, <1>2, <2>1
    <3> HIDE DEF T
    <3> QED BY <1>2, <3>1
  <2> HIDE DEF fits
  <2> QED BY <2>1, <2>2
<1>4. m \in 0 .. n /\ (\A i \in 1 .. m : fits(i)) /\ (m < n => ~fits(m + 1))
  BY <1>2, <1>3
<1> DEFINE k == CHOOSE h \in 0 .. n : (\A i \in 1 .. h : fits(i)) /\ (h < n => ~fits(h + 1))
<1>5. k \in 0 .. n
  <2> HIDE DEF fits, n
  <2> QED BY <1>4
<1>6. QuotedHits(hits) = SubSeq(hits, 1, k)
  BY DEF QuotedHits
<1>7. SubSeq(hits, 1, k) \in Seq(Nat)
  <2> HIDE DEF k
  <2>1. 1 \in Int /\ k \in Int /\ \A i \in 1 .. k : hits[i] \in Nat
    BY <1>1, <1>5, ElementOfSeq
  <2> QED BY <2>1, SubSeqProperties
<1> HIDE DEF k
<1> QED BY <1>6, <1>7, SumOfType

LEMMA WholeIs ==
  ASSUME NEW source \in Sources, NEW id \in Ids, NEW n \in Nat
  PROVE  LET c == Contribution(source, id, Whole(n))
         IN  c.source = source /\ (SizeOf(c.text) > 0 => c \in Contribs)
<1> DEFINE c == Contribution(source, id, Whole(n))
<1>1. c.source = source /\ c.text = [first |-> 1, last |-> n] /\ c = [source |-> source, id |-> id, text |-> [first |-> 1, last |-> n]]
  BY DEF Contribution, Whole, Span
<1>2. SizeOf(c.text) = n
  BY <1>1 DEF SizeOf
<1>3. c \in [source : Sources, id : Ids, text : Spans]
  BY <1>1 DEF Spans
<1> HIDE DEF c
<1>4. SizeOf(c.text) > 0 => c \in Contribs
  BY <1>2, <1>3 DEF Contribs
<1> QED BY <1>1, <1>4 DEF c

LEMMA ContributionsAre ==
  ASSUME NEW in \in RoleplayInputs
  PROVE  /\ Contributions(in) \in SUBSET Contribs
         /\ IsFiniteSet(Contributions(in)) /\ OncePerSource(Contributions(in))
         /\ RightEnds(Contributions(in), in.history)
<1> DEFINE talk == TailOf(Whole(IF in.history = 0 THEN 1 ELSE in.history), HistoryCap)
           hits == IF in.hits = <<>> THEN 0 ELSE 1 + SumOf(QuotedHits(in.hits))
           c1 == Contribution("system", "policy", Whole(1))
           c2 == Contribution("persona", "card", Whole(in.persona))
           c3 == Contribution("history", IF in.sameText THEN "memo" ELSE "talk", talk)
           c4 == Contribution("world", "outline", Whole(in.world))
           c5 == Contribution("memory", "memo", Whole(in.memory))
           c6 == Contribution("knowledge", "hits", Whole(hits))
           all == {c1, c2, c3, c4, c5, c6}
<1>1. in.persona \in Nat /\ in.world \in Nat /\ in.memory \in Nat /\ in.history \in Nat /\ in.hits \in Seq(Nat)
  BY DEF RoleplayInputs
<1>2. hits \in Nat
  <2>1. SumOf(QuotedHits(in.hits)) \in Nat
    BY <1>1, QuotedHitsAre
  <2> QED BY <2>1
<1> HIDE DEF hits
<1>3. /\ c1.source = "system" /\ (SizeOf(c1.text) > 0 => c1 \in Contribs)
      /\ c2.source = "persona" /\ (SizeOf(c2.text) > 0 => c2 \in Contribs)
      /\ c4.source = "world" /\ (SizeOf(c4.text) > 0 => c4 \in Contribs)
      /\ c5.source = "memory" /\ (SizeOf(c5.text) > 0 => c5 \in Contribs)
      /\ c6.source = "knowledge" /\ (SizeOf(c6.text) > 0 => c6 \in Contribs)
  <2>1. {"system", "persona", "world", "memory", "knowledge"} \subseteq Sources
        /\ {"policy", "card", "outline", "memo", "hits"} \subseteq Ids
    BY DEF Sources, Ids
  <2>2. c1.source = "system" /\ (SizeOf(c1.text) > 0 => c1 \in Contribs)
    <3>1. 1 \in Nat
      OBVIOUS
    <3> QED BY <2>1, <3>1, WholeIs
  <2>3. c2.source = "persona" /\ (SizeOf(c2.text) > 0 => c2 \in Contribs)
    BY <1>1, <2>1, WholeIs
  <2>4. c4.source = "world" /\ (SizeOf(c4.text) > 0 => c4 \in Contribs)
    BY <1>1, <2>1, WholeIs
  <2>5. c5.source = "memory" /\ (SizeOf(c5.text) > 0 => c5 \in Contribs)
    BY <1>1, <2>1, WholeIs
  <2>6. c6.source = "knowledge" /\ (SizeOf(c6.text) > 0 => c6 \in Contribs)
    BY <1>2, <2>1, WholeIs
  <2> HIDE DEF c1, c2, c4, c5, c6
  <2> QED BY <2>2, <2>3, <2>4, <2>5, <2>6
<1>4. c3.source = "history" /\ c3 \in Contribs
  <2>1. PICK id \in Ids : id = IF in.sameText THEN "memo" ELSE "talk"
    BY DEF Ids
  <2>2. PICK n \in Nat \ {0} : n = IF in.history = 0 THEN 1 ELSE in.history
    BY <1>1
  <2>3. HistoryCap \in Nat \ {0}
    BY PromptAssumption
  <2>4. PICK t \in Spans : t = talk /\ SizeOf(t) \in Nat \ {0}
    <3>1. Whole(n) = [first |-> 1, last |-> n] /\ SizeOf(Whole(n)) = n
      BY DEF Whole, Span, SizeOf
    <3>2. CASE n <= HistoryCap
      <4>1. talk = [first |-> 1, last |-> n]
        BY <2>2, <3>1, <3>2 DEF TailOf
      <4> QED BY <2>2, <3>1, <4>1 DEF Spans
    <3>3. CASE ~(n <= HistoryCap)
      <4>1. talk = [first |-> n - HistoryCap + 1, last |-> n]
        BY <2>2, <3>1, <3>3 DEF TailOf, Span
      <4>2. [first |-> n - HistoryCap + 1, last |-> n] \in Spans /\ SizeOf([first |-> n - HistoryCap + 1, last |-> n]) = HistoryCap
        BY <2>2, <2>3 DEF Spans, SizeOf
      <4> QED BY <2>3, <4>1, <4>2
    <3> QED BY <3>2, <3>3
  <2> HIDE DEF talk
  <2>5. c3 = [source |-> "history", id |-> id, text |-> t]
    BY <2>1, <2>4 DEF Contribution
  <2> HIDE DEF c3
  <2> QED BY <2>4, <2>5 DEF Contribs, Sources
<1>12. /\ c1.text.first = 1 /\ c2.text.first = 1 /\ c4.text.first = 1 /\ c5.text.first = 1 /\ c6.text.first = 1
      /\ (c3.text.first = 1 \/ c3.text.last = in.history)
  <2>1. PICK n \in Nat \ {0} : n = (IF in.history = 0 THEN 1 ELSE in.history)
    BY <1>1
  <2>2. HistoryCap \in Nat \ {0}
    BY PromptAssumption
  <2>3. talk.first = 1 \/ talk.last = in.history
    <3>1. Whole(n) = [first |-> 1, last |-> n] /\ SizeOf(Whole(n)) = n
      BY DEF Whole, Span, SizeOf
    <3>2. CASE n <= HistoryCap
      BY <2>1, <3>1, <3>2 DEF TailOf
    <3>3. CASE ~(n <= HistoryCap)
      <4>1. talk.last = n
        BY <2>1, <3>1, <3>3 DEF TailOf, Span
      <4>2. n # 1
        BY <2>2, <3>3
      <4> QED BY <2>1, <4>1, <4>2
    <3> QED BY <3>2, <3>3
  <2> HIDE DEF talk
  <2>4. c3.text = talk
    BY DEF Contribution
  <2>5. /\ c1.text.first = 1 /\ c2.text.first = 1 /\ c4.text.first = 1 /\ c5.text.first = 1
        /\ c6.text.first = 1
    BY DEF Contribution, Whole, Span
  <2> QED BY <2>3, <2>4, <2>5
<1>5. Contributions(in) = {c \in all : SizeOf(c.text) > 0}
  BY DEF Contributions, hits
<1> HIDE DEF c1, c2, c3, c4, c5, c6
<1>6. Contributions(in) \in SUBSET Contribs
  BY <1>3, <1>4, <1>5
<1>7. OncePerSource(all)
  BY <1>3, <1>4 DEF OncePerSource
<1>8. OncePerSource(Contributions(in))
  BY <1>5, <1>7 DEF OncePerSource
<1>9. IsFiniteSet(all)
  <2>1. IsFiniteSet({}) /\ all = ((((({} \cup {c1}) \cup {c2}) \cup {c3}) \cup {c4}) \cup {c5}) \cup {c6}
    BY FS_EmptySet
  <2> HIDE DEF all
  <2>2. IsFiniteSet({} \cup {c1})
    BY <2>1, FS_AddElement
  <2>3. IsFiniteSet(({} \cup {c1}) \cup {c2})
    BY <2>2, FS_AddElement
  <2>4. IsFiniteSet((({} \cup {c1}) \cup {c2}) \cup {c3})
    BY <2>3, FS_AddElement
  <2>5. IsFiniteSet(((({} \cup {c1}) \cup {c2}) \cup {c3}) \cup {c4})
    BY <2>4, FS_AddElement
  <2>6. IsFiniteSet((((({} \cup {c1}) \cup {c2}) \cup {c3}) \cup {c4}) \cup {c5})
    BY <2>5, FS_AddElement
  <2> QED BY <2>1, <2>6, FS_AddElement
<1>10. IsFiniteSet(Contributions(in))
  <2>1. Contributions(in) \subseteq all
    BY <1>5
  <2> HIDE DEF all
  <2> QED BY <1>9, <2>1, FS_Subset
<1>11. RightEnds(Contributions(in), in.history)
  <2>1. ASSUME NEW c \in all PROVE c.text.first = 1 \/ (c.source = "history" /\ c.text.last = in.history)
    BY <1>4, <1>12
  <2> QED BY <1>5, <2>1 DEF RightEnds
<1> QED BY <1>6, <1>8, <1>10, <1>11

LEMMA RoleplayIs ==
  ASSUME NEW in \in RoleplayInputs
  PROVE  /\ ByPriority(Contributions(in), Assembled(Contributions(in)).blocks)
         /\ RightEnds(Contributions(in), in.history)
BY ContributionsAre, AssembledByPriority

-----------------------------------------------------------------------------
Messages == [role : {"user", "assistant"}, size : Nat, id : Nat]
Sizes(messages) == [i \in DOMAIN messages |-> messages[i].size]

\* formatGroupHistory's loop: what it has after so many messages.
KeepLine(sofar, m) ==
  IF sofar.full \/ sofar.total + m.size > GroupHistoryCap
  THEN [sofar EXCEPT !.full = TRUE]
  ELSE [full |-> FALSE, total |-> sofar.total + m.size, lines |-> Append(sofar.lines, m)]

NoLines == [full |-> FALSE, total |-> 0, lines |-> <<>>]
LineStates == [full : BOOLEAN, total : 0 .. GroupHistoryCap, lines : Seq(Messages)]

\* The lines are the first of the list, and the next one no longer fits.
LinesInv(L, i, s) ==
  /\ s \in LineStates
  /\ Len(s.lines) <= i
  /\ \A j \in 1 .. Len(s.lines) : s.lines[j] = L[j]
  /\ s.total = SumOf(Sizes(s.lines))
  /\ IF s.full THEN Len(s.lines) < i /\ s.total + L[Len(s.lines) + 1].size > GroupHistoryCap
     ELSE Len(s.lines) = i

LEMMA SizesAre ==
  ASSUME NEW messages \in Seq(Messages)
  PROVE  /\ Sizes(messages) \in Seq(Nat) /\ Sizes(messages) \in Seq(Int)
         /\ Len(Sizes(messages)) = Len(messages)
         /\ \A i \in 1 .. Len(messages) : Sizes(messages)[i] = messages[i].size /\ messages[i].size \in Nat
<1>1. PICK n \in Nat : n = Len(messages) /\ DOMAIN messages = 1 .. n
  BY LenProperties
<1>2. \A i \in 1 .. n : messages[i].size \in Nat
  <2>1. \A i \in 1 .. n : messages[i] \in Messages
    BY <1>1, ElementOfSeq
  <2>2. \A m \in Messages : m.size \in Nat
    BY DEF Messages
  <2> QED BY <2>1, <2>2
<1>3. Sizes(messages) \in [1 .. n -> Nat] /\ \A i \in 1 .. n : Sizes(messages)[i] = messages[i].size
  BY <1>1, <1>2 DEF Sizes
<1>4. Sizes(messages) \in Seq(Nat)
  BY <1>3, SeqDef
<1>5. Len(Sizes(messages)) = n /\ Sizes(messages) \in Seq(Int)
  BY <1>3, <1>4, LenProperties, SeqMonotonic
<1> QED BY <1>1, <1>2, <1>3, <1>4, <1>5

LEMMA SizesOfAppend ==
  ASSUME NEW messages \in Seq(Messages), NEW m \in Messages
  PROVE  SumOf(Sizes(Append(messages, m))) = SumOf(Sizes(messages)) + m.size
<1>1. PICK n \in Nat : n = Len(messages)
  BY LenProperties
<1>2. PICK more : more = Append(messages, m)
  OBVIOUS
<1>3. more \in Seq(Messages) /\ Len(more) = n + 1 /\ more[n + 1] = m /\ \A i \in 1 .. n : more[i] = messages[i]
  BY <1>1, <1>2, AppendProperties
<1>4. m.size \in Int
  BY DEF Messages
<1>5. PICK t : t = Append(Sizes(messages), m.size)
  OBVIOUS
<1>6. t \in Seq(Int) /\ Len(t) = n + 1 /\ t[n + 1] = m.size /\ \A i \in 1 .. n : t[i] = messages[i].size
  <2>1. Sizes(messages) \in Seq(Int) /\ Len(Sizes(messages)) = n /\ \A i \in 1 .. n : Sizes(messages)[i] = messages[i].size
    BY <1>1, SizesAre
  <2>2. /\ t \in Seq(Int) /\ Len(t) = n + 1 /\ t[n + 1] = m.size
        /\ \A i \in 1 .. n : t[i] = Sizes(messages)[i]
    BY <1>4, <1>5, <2>1, AppendProperties
  <2> QED BY <2>1, <2>2
<1>7. /\ Sizes(more) \in Seq(Int) /\ Len(Sizes(more)) = n + 1
      /\ \A i \in 1 .. n + 1 : Sizes(more)[i] = more[i].size
  BY <1>3, SizesAre
<1>8. \A i \in 1 .. n + 1 : Sizes(more)[i] = t[i]
  <2> SUFFICES ASSUME NEW i \in 1 .. n + 1 PROVE Sizes(more)[i] = t[i]
    OBVIOUS
  <2>1. CASE i = n + 1
    BY <1>3, <1>6, <1>7, <2>1
  <2>2. CASE i # n + 1
    <3>1. i \in 1 .. n
      BY <2>2
    <3> QED BY <1>3, <1>6, <1>7, <3>1
  <2> QED BY <2>1, <2>2
<1>9. Sizes(more) = t
  BY <1>6, <1>7, <1>8, SeqEqual
<1> QED BY <1>2, <1>4, <1>5, <1>9, SizesAre, SumOfAppend

LEMMA LinesStep ==
  ASSUME NEW L \in Seq(Messages), NEW i \in 0 .. Len(L) - 1, NEW s, LinesInv(L, i, s)
  PROVE  LinesInv(L, i + 1, KeepLine(s, L[i + 1]))
<1>1. i \in Nat /\ i + 1 \in 1 .. Len(L)
  BY LenProperties
<1>2. PICK m \in Messages : m = L[i + 1] /\ m.size \in Nat
  BY <1>1, ElementOfSeq DEF Messages
<1>3. PICK cap \in Nat : cap = GroupHistoryCap
  BY PromptAssumption
<1>4. PICK full \in BOOLEAN, total \in 0 .. cap, lines \in Seq(Messages) :
         s = [full |-> full, total |-> total, lines |-> lines]
  BY <1>3 DEF LinesInv, LineStates
<1>5. PICK k \in Nat : k = Len(lines)
  BY LenProperties
<1>6. /\ k <= i /\ (\A j \in 1 .. k : lines[j] = L[j]) /\ total = SumOf(Sizes(lines))
      /\ IF full THEN k < i /\ total + L[k + 1].size > cap ELSE k = i
  BY <1>3, <1>4, <1>5 DEF LinesInv
<1>7. CASE full
  <2>1. PICK t : t = KeepLine(s, L[i + 1])
    OBVIOUS
  <2>2. t = [full |-> TRUE, total |-> total, lines |-> lines]
    BY <1>4, <1>7, <2>1 DEF KeepLine
  <2>3. t \in LineStates /\ t.full /\ t.total = total /\ t.lines = lines
    BY <1>3, <2>2 DEF LineStates
  <2>4. k <= i + 1 /\ k < i + 1
    BY <1>1, <1>6
  <2> QED BY <1>3, <1>5, <1>6, <1>7, <2>1, <2>3, <2>4 DEF LinesInv
<1>8. CASE ~full /\ total + m.size > cap
  <2>1. PICK t : t = KeepLine(s, L[i + 1])
    OBVIOUS
  <2>2. t = [full |-> TRUE, total |-> total, lines |-> lines]
    BY <1>2, <1>3, <1>4, <1>8, <2>1 DEF KeepLine
  <2>3. t \in LineStates /\ t.full /\ t.total = total /\ t.lines = lines
    BY <1>3, <2>2 DEF LineStates
  <2>4. k = i /\ k <= i + 1 /\ k < i + 1
    BY <1>1, <1>6, <1>8
  <2>5. total + L[k + 1].size > cap
    BY <1>2, <1>8, <2>4
  <2> QED BY <1>3, <1>5, <1>6, <2>1, <2>3, <2>4, <2>5 DEF LinesInv
<1>9. CASE ~full /\ ~(total + m.size > cap)
  <2>1. PICK t : t = KeepLine(s, L[i + 1])
    OBVIOUS
  <2>2. t = [full |-> FALSE, total |-> total + m.size, lines |-> Append(lines, m)]
    BY <1>2, <1>3, <1>4, <1>9, <2>1 DEF KeepLine
  <2>3. total + m.size \in 0 .. cap
    BY <1>2, <1>9
  <2>4. /\ Append(lines, m) \in Seq(Messages) /\ Len(Append(lines, m)) = k + 1
        /\ Append(lines, m)[k + 1] = m /\ \A j \in 1 .. k : Append(lines, m)[j] = lines[j]
    BY <1>5
  <2>5. t \in LineStates /\ ~t.full /\ t.total = total + m.size /\ t.lines = Append(lines, m)
    BY <1>3, <2>2, <2>3, <2>4 DEF LineStates
  <2>6. k = i
    BY <1>6, <1>9
  <2>7. ASSUME NEW j \in 1 .. k + 1 PROVE t.lines[j] = L[j]
    <3>1. CASE j = k + 1
      BY <1>2, <2>4, <2>5, <2>6, <3>1
    <3>2. CASE j # k + 1
      <4>1. j \in 1 .. k
        BY <3>2
      <4> QED BY <1>6, <2>4, <2>5, <4>1
    <3> QED BY <3>1, <3>2
  <2>8. t.total = SumOf(Sizes(t.lines))
    BY <1>6, <2>5, SizesOfAppend
  <2>9. Len(t.lines) = i + 1 /\ i + 1 <= i + 1
    BY <1>1, <2>4, <2>5, <2>6
  <2> QED BY <2>1, <2>5, <2>6, <2>7, <2>8, <2>9 DEF LinesInv
<1> QED BY <1>7, <1>8, <1>9

LEMMA LinesRuns ==
  ASSUME NEW L \in Seq(Messages)
  PROVE  \E g \in [0 .. Len(L) -> LineStates] :
           g = [i \in 0 .. Len(L) |-> IF i = 0 THEN NoLines ELSE KeepLine(g[i - 1], L[i])]
<1>0. PICK n \in Nat : n = Len(L)
  BY LenProperties
<1> DEFINE F == [p \in (1 .. n) \X LineStates |-> KeepLine(p[2], L[p[1]])]
<1>1. PICK cap \in Nat : cap = GroupHistoryCap
  BY PromptAssumption
<1>2. ASSUME NEW i \in 1 .. n, NEW s \in LineStates PROVE KeepLine(s, L[i]) \in LineStates
  <2>1. PICK m \in Messages : m = L[i] /\ m.size \in Nat
    BY <1>0, ElementOfSeq DEF Messages
  <2>2. PICK full \in BOOLEAN, total \in 0 .. cap, lines \in Seq(Messages) :
           s = [full |-> full, total |-> total, lines |-> lines]
    BY <1>1 DEF LineStates
  <2>3. CASE full \/ total + m.size > cap
    <3>1. KeepLine(s, L[i]) = [full |-> TRUE, total |-> total, lines |-> lines]
      BY <1>1, <2>1, <2>2, <2>3 DEF KeepLine
    <3> QED BY <1>1, <3>1 DEF LineStates
  <2>4. CASE ~full /\ ~(total + m.size > cap)
    <3>1. KeepLine(s, L[i]) = [full |-> FALSE, total |-> total + m.size, lines |-> Append(lines, m)]
      BY <1>1, <2>1, <2>2, <2>4 DEF KeepLine
    <3>2. total + m.size \in 0 .. cap /\ Append(lines, m) \in Seq(Messages)
      BY <2>1, <2>4
    <3> QED BY <1>1, <3>1, <3>2 DEF LineStates
  <2> QED BY <2>3, <2>4
<1>3. NoLines \in LineStates
  BY <1>1, EmptySeq DEF NoLines, LineStates
<1>4. F \in [(1 .. n) \X LineStates -> LineStates]
  <2>1. ASSUME NEW p \in (1 .. n) \X LineStates PROVE KeepLine(p[2], L[p[1]]) \in LineStates
    <3>1. p[1] \in 1 .. n /\ p[2] \in LineStates
      OBVIOUS
    <3> QED BY <1>2, <3>1
  <2> QED BY <2>1
<1>5. \A i \in 1 .. n, s \in LineStates : F[<<i, s>>] = KeepLine(s, L[i])
  OBVIOUS
<1> HIDE DEF F
<1>6. PICK g \in [0 .. n -> LineStates] : Iterates(g, n, NoLines, F)
  BY <1>3, <1>4, IterationExists
<1>7. ASSUME NEW i \in 0 .. n PROVE g[i] = IF i = 0 THEN NoLines ELSE KeepLine(g[i - 1], L[i])
  <2>1. CASE i = 0
    BY <1>6, <2>1 DEF Iterates
  <2>2. CASE i # 0
    <3>1. i \in 1 .. n /\ i - 1 \in 0 .. n
      BY <2>2
    <3>2. g[i - 1] \in LineStates /\ g[i] = F[<<i, g[i - 1]>>]
      BY <1>6, <3>1 DEF Iterates
    <3> QED BY <1>5, <2>2, <3>1, <3>2
  <2> QED BY <2>1, <2>2
<1>8. g = [i \in 0 .. n |-> IF i = 0 THEN NoLines ELSE KeepLine(g[i - 1], L[i])]
  BY <1>7
<1> QED BY <1>0, <1>6, <1>8

\* The lines kept of a list that comes newest first.
FirstThatFit(lines, L) ==
  LET k == Len(lines)
  IN  /\ lines \in Seq(Messages) /\ k <= Len(L)
      /\ \A j \in 1 .. k : lines[j] = L[j]
      /\ SumOf(Sizes(lines)) <= GroupHistoryCap
      /\ k < Len(L) => SumOf(Sizes(lines)) + L[k + 1].size > GroupHistoryCap

LEMMA CollectedIs ==
  ASSUME NEW messages, NEW L, L = Reverse(LastOf(messages, GroupHistoryLen)), L \in Seq(Messages)
  PROVE  FirstThatFit(Collected(messages), L)
<1> DEFINE Q(h) == h = [i \in 0 .. Len(L) |-> IF i = 0 THEN NoLines ELSE KeepLine(h[i - 1], L[i])]
           run == CHOOSE h : Q(h)
<1>1. Collected(messages) = run[Len(L)].lines
  BY DEF Collected, KeepLine, NoLines
<1>2. PICK g \in [0 .. Len(L) -> LineStates] : Q(g)
  BY LinesRuns
<1>3. Q(run)
  <2> HIDE DEF Q
  <2> QED BY <1>2
<1> HIDE DEF run
<1>4. PICK n \in Nat : n = Len(L)
  BY LenProperties
<1>5. run[0] = NoLines /\ \A i \in 1 .. n : run[i] = KeepLine(run[i - 1], L[i])
  BY <1>3, <1>4
<1> HIDE DEF Q
<1> DEFINE T == {i \in 0 .. n : LinesInv(L, i, run[i])}
<1>6. 0 \in T
  <2>1. /\ NoLines \in LineStates /\ NoLines.full = FALSE /\ NoLines.total = 0
        /\ NoLines.lines = <<>> /\ Len(<<>>) = 0
    BY PromptAssumption, EmptySeq DEF NoLines, LineStates
  <2>2. SumOf(Sizes(<<>>)) = 0
    <3>1. Sizes(<<>>) = <<>>
      BY DEF Sizes
    <3> QED BY <3>1, SumOfEmpty
  <2>3. LinesInv(L, 0, NoLines)
    BY <2>1, <2>2 DEF LinesInv
  <2> QED BY <1>5, <2>3
<1>7. ASSUME NEW i \in 0 .. n - 1, i \in T PROVE i + 1 \in T
  <2>1. i + 1 \in 1 .. n /\ i + 1 \in 0 .. n /\ i + 1 - 1 = i
    OBVIOUS
  <2>2. run[i + 1] = KeepLine(run[i], L[i + 1])
    BY <1>5, <2>1
  <2>3. LinesInv(L, i + 1, KeepLine(run[i], L[i + 1]))
    BY <1>4, <1>7, LinesStep
  <2> QED BY <2>1, <2>2, <2>3
<1>8. LinesInv(L, n, run[n])
  <2>1. n \in T
    <3> HIDE DEF T
    <3>1. \A i \in 0 .. n : i \in T
      BY <1>6, <1>7, InductionUpTo
    <3> QED BY <3>1
  <2> QED BY <2>1
<1>9. PICK s : s = run[n]
  OBVIOUS
<1>10. PICK lines \in Seq(Messages) : lines = s.lines /\ SumOf(Sizes(lines)) <= GroupHistoryCap
  <2>1. s \in LineStates /\ s.total = SumOf(Sizes(s.lines)) /\ GroupHistoryCap \in Nat
    BY <1>8, <1>9, PromptAssumption DEF LinesInv
  <2> QED BY <2>1 DEF LineStates
<1>11. FirstThatFit(lines, L)
  <2>1. /\ Len(lines) <= n /\ \A j \in 1 .. Len(lines) : lines[j] = L[j]
        /\ Len(lines) < n => SumOf(Sizes(lines)) + L[Len(lines) + 1].size > GroupHistoryCap
    BY <1>8, <1>9, <1>10, LenProperties DEF LinesInv
  <2> QED BY <1>4, <1>10, <2>1 DEF FirstThatFit
<1> QED BY <1>1, <1>4, <1>9, <1>10, <1>11

LEMMA SumOfTurned ==
  ASSUME NEW s \in Seq(Int), NEW t \in Seq(Int), NEW n \in Nat, Len(s) = n, Len(t) = n,
         \A i \in 1 .. n : t[i] = s[n - i + 1]
  PROVE  SumOf(t) = SumOf(s)
<1>1. PICK g \in [0 .. n -> Int] : Sums(g, s)
  BY SumsExist
<1>2. SumOf(s) = g[n]
  BY <1>1, SumOfIs
<1> DEFINE h == [i \in 0 .. n |-> g[n] - g[n - i]]
<1>3. \A i \in 0 .. n : n - i \in 0 .. n /\ g[n - i] \in Int /\ g[n] \in Int
  OBVIOUS
<1>4. h \in [0 .. n -> Int] /\ \A i \in 0 .. n : h[i] = g[n] - g[n - i]
  BY <1>3
<1> HIDE DEF h
<1>5. h[0] = 0
  <2>1. 0 \in 0 .. n /\ n - 0 = n /\ g[n] \in Int
    BY <1>3
  <2>2. h[0] = g[n] - g[n]
    BY <1>4, <2>1
  <2> QED BY <2>1, <2>2
<1>6. ASSUME NEW i \in 1 .. n PROVE h[i] = h[i - 1] + t[i]
  <2>1. n - i + 1 \in 1 .. n /\ n - i + 1 - 1 = n - i /\ n - (i - 1) = n - i + 1 /\ i - 1 \in 0 .. n /\ i \in 0 .. n
    OBVIOUS
  <2>2. g[n - i + 1] = g[n - i] + s[n - i + 1] /\ t[i] = s[n - i + 1]
    BY <1>1, <2>1 DEF Sums
  <2>3. h[i] = g[n] - g[n - i] /\ h[i - 1] = g[n] - g[n - i + 1]
    BY <1>4, <2>1
  <2>4. g[n] \in Int /\ g[n - i] \in Int /\ s[n - i + 1] \in Int
    BY <1>3, <2>1, ElementOfSeq
  <2>5. PICK x \in Int, y \in Int, z \in Int : x = g[n] /\ y = g[n - i] /\ z = s[n - i + 1]
    BY <2>4
  <2>6. h[i] = x - y /\ h[i - 1] = x - (y + z) /\ t[i] = z
    BY <2>2, <2>3, <2>5
  <2> QED BY <2>6
<1>7. SumOf(t) = h[n]
  BY <1>4, <1>5, <1>6, SumOfIs DEF Sums
<1>8. h[n] = g[n]
  <2>1. n \in 0 .. n /\ n - n = 0
    OBVIOUS
  <2>2. h[n] = g[n] - g[0] /\ g[0] = 0 /\ g[n] \in Int
    BY <1>1, <1>3, <1>4, <2>1 DEF Sums
  <2> QED BY <2>2
<1> QED BY <1>2, <1>7, <1>8

LEMMA SizesTurned ==
  ASSUME NEW lines \in Seq(Messages), NEW made \in Seq(Messages), NEW k \in Nat, Len(lines) = k, Len(made) = k,
         \A i \in 1 .. k : made[i] = lines[k - i + 1]
  PROVE  SumOf(Sizes(made)) = SumOf(Sizes(lines))
<1>1. /\ Sizes(made) \in Seq(Int) /\ Len(Sizes(made)) = k
      /\ \A i \in 1 .. k : Sizes(made)[i] = made[i].size
  BY SizesAre
<1>2. /\ Sizes(lines) \in Seq(Int) /\ Len(Sizes(lines)) = k
      /\ \A i \in 1 .. k : Sizes(lines)[i] = lines[i].size
  BY SizesAre
<1>3. \A i \in 1 .. k : k - i + 1 \in 1 .. k
  OBVIOUS
<1>4. ASSUME NEW i \in 1 .. k PROVE Sizes(made)[i] = Sizes(lines)[k - i + 1]
  <2>1. PICK j \in 1 .. k : j = k - i + 1
    BY <1>3
  <2>2. Sizes(made)[i] = made[i].size /\ made[i] = lines[j] /\ Sizes(lines)[j] = lines[j].size
    BY <1>1, <1>2, <2>1
  <2> QED BY <2>1, <2>2
<1> QED BY <1>1, <1>2, <1>4, SumOfTurned

\* t is the last q of the n entries of s.
IsEnd(t, s, n, q) ==
  t \in Seq(Messages) /\ Len(t) = q /\ \A i \in 1 .. q : t[i] = s[n - q + i]

LEMMA LastOfIs ==
  ASSUME NEW s \in Seq(Messages), NEW n \in Nat, n = Len(s), NEW most \in Nat,
         NEW q \in Nat, q = IF n > most THEN most ELSE n
  PROVE  IsEnd(LastOf(s, most), s, n, q)
<1>1. PICK u : u = s
  OBVIOUS
<1>2. PICK m \in Nat : m = n - q
  OBVIOUS
<1>3. LastOf(s, most) = SubSeq(u, m + 1, m + q)
  <2>1. m + 1 = (IF n > most THEN n - most + 1 ELSE 1) /\ m + q = n
    BY <1>2
  <2> QED BY <1>1, <2>1 DEF LastOf
<1>4. \A i \in 1 .. m + q : u[i] \in Messages
  <2>1. m + q = n
    BY <1>2
  <2> QED BY <1>1, <2>1, ElementOfSeq
<1>5. /\ SubSeq(u, m + 1, m + q) \in Seq(Messages) /\ Len(SubSeq(u, m + 1, m + q)) = q
      /\ \A i \in 1 .. q : SubSeq(u, m + 1, m + q)[i] = u[m + i]
  BY <1>4, PartIs
<1> QED BY <1>1, <1>2, <1>3, <1>5 DEF IsEnd

LEMMA ReverseIs ==
  ASSUME NEW s \in Seq(Messages), NEW n \in Nat, n = Len(s)
  PROVE  /\ Reverse(s) \in Seq(Messages) /\ Len(Reverse(s)) = n
         /\ \A i \in 1 .. n : Reverse(s)[i] = s[n - i + 1]
<1>1. Reverse(s) = [i \in 1 .. n |-> s[(n - i) + 1]]
  BY DEF Reverse
<1>2. \A i \in 1 .. n : s[(n - i) + 1] \in Messages
  <2>1. \A i \in 1 .. n : (n - i) + 1 \in 1 .. n
    OBVIOUS
  <2> QED BY <2>1, ElementOfSeq
<1>3. PICK t : t = Reverse(s)
  OBVIOUS
<1>4. t \in [1 .. n -> Messages] /\ \A i \in 1 .. n : t[i] = s[n - i + 1]
  <2>1. t = [i \in 1 .. n |-> s[(n - i) + 1]]
    BY <1>1, <1>3
  <2>2. t \in [1 .. n -> Messages]
    BY <1>2, <2>1
  <2>3. \A i \in 1 .. n : t[i] = s[(n - i) + 1]
    BY <2>1
  <2> QED BY <2>2, <2>3
<1>5. t \in Seq(Messages)
  BY <1>4, SeqDef
<1>6. Len(t) = n
  BY <1>4, <1>5, LenProperties
<1> QED BY <1>3, <1>4, <1>5, <1>6

\* What GroupHistoryNewest says of a talk, its history and what was made of it.
NewestFit(talk, question, history, made) ==
  LET size(s) == SumOf([i \in DOMAIN s |-> s[i].size])
      allowed(k) == k <= GroupHistoryLen /\ size(LastOf(history, k)) <= GroupHistoryCap
  IN  /\ made = LastOf(history, Len(made))
      /\ allowed(Len(made))
      /\ Len(made) < Len(history) => ~allowed(Len(made) + 1)
      /\ /\ question \in 1 .. GroupHistoryCap
         /\ \A i \in DOMAIN talk : talk[i].role # "user"
         => \E i \in DOMAIN made : made[i].role = "user"

LEMMA LatestUserIs ==
  ASSUME NEW talk \in Seq(Messages), NEW question \in Nat
  PROVE  LET history == EnsureLatestUser(talk, question)
         IN  /\ history \in Seq(Messages)
             /\ (\A i \in DOMAIN talk : talk[i].role # "user") /\ question > 0
                => /\ Len(history) \in Nat \ {0}
                   /\ history[Len(history)].role = "user" /\ history[Len(history)].size = question
<1>1. PICK n \in Nat : n = Len(talk)
  BY LenProperties
<1>2. CASE (\E i \in DOMAIN talk : talk[i].role = "user") \/ question = 0
  BY <1>2 DEF EnsureLatestUser
<1>3. CASE ~((\E i \in DOMAIN talk : talk[i].role = "user") \/ question = 0)
  <2>1. PICK m : m = [role |-> "user", size |-> question, id |-> n + 1]
    OBVIOUS
  <2>2. m \in Messages /\ m.role = "user" /\ m.size = question
    BY <2>1 DEF Messages
  <2>3. EnsureLatestUser(talk, question) = Append(talk, m)
    BY <1>1, <1>3, <2>1 DEF EnsureLatestUser
  <2>4. Append(talk, m) \in Seq(Messages) /\ Len(Append(talk, m)) = n + 1 /\ Append(talk, m)[n + 1] = m
    BY <1>1, <2>2, AppendProperties
  <2> QED BY <2>2, <2>3, <2>4
<1> QED BY <1>2, <1>3

LEMMA GroupHistoryIs ==
  ASSUME NEW talk \in Seq(Messages), NEW question \in Nat
  PROVE  LET history == EnsureLatestUser(talk, question)
         IN  NewestFit(talk, question, history, FormatGroupHistory(history))
<1>1. PICK history \in Seq(Messages) : history = EnsureLatestUser(talk, question)
  BY LatestUserIs
<1>2. PICK n \in Nat : n = Len(history)
  BY LenProperties
<1>3. PICK most \in Nat \ {0} : most = GroupHistoryLen
  BY PromptAssumption
<1>4. PICK cap \in Nat : cap = GroupHistoryCap
  BY PromptAssumption
<1>5. PICK q \in Nat : q = IF n > most THEN most ELSE n
  OBVIOUS
<1>6. PICK L : L = Reverse(LastOf(history, most))
  OBVIOUS
<1>7. L \in Seq(Messages) /\ Len(L) = q /\ \A j \in 1 .. q : L[j] = history[n - j + 1]
  <2>1. PICK t \in Seq(Messages) : /\ t = LastOf(history, most) /\ Len(t) = q
                                   /\ \A i \in 1 .. q : t[i] = history[n - q + i]
    <3>1. most \in Nat
      OBVIOUS
    <3>2. IsEnd(LastOf(history, most), history, n, q)
      BY <1>2, <1>5, <3>1, LastOfIs
    <3> QED BY <3>2 DEF IsEnd
  <2>2. L \in Seq(Messages) /\ Len(L) = q /\ \A j \in 1 .. q : L[j] = t[q - j + 1]
    BY <1>6, <2>1, ReverseIs
  <2>3. \A j \in 1 .. q : q - j + 1 \in 1 .. q /\ n - q + (q - j + 1) = n - j + 1
    OBVIOUS
  <2>4. ASSUME NEW j \in 1 .. q PROVE L[j] = history[n - j + 1]
    <3>1. t[q - j + 1] = history[n - q + (q - j + 1)]
      BY <2>1, <2>3
    <3> QED BY <2>2, <2>3, <3>1
  <2> QED BY <2>2, <2>4
<1>8. PICK lines : lines = Collected(history)
  OBVIOUS
<1>9. FirstThatFit(lines, L)
  BY <1>3, <1>6, <1>7, <1>8, CollectedIs
<1>10. lines \in Seq(Messages)
  BY <1>9 DEF FirstThatFit
<1>11. PICK k \in Nat : k = Len(lines)
  BY <1>10, LenProperties
<1>12. /\ k <= q /\ (\A j \in 1 .. k : lines[j] = L[j]) /\ SumOf(Sizes(lines)) <= cap
       /\ k < q => SumOf(Sizes(lines)) + L[k + 1].size > cap
  BY <1>4, <1>7, <1>9, <1>11 DEF FirstThatFit
<1>13. \A j \in 1 .. k : lines[j] = history[n - j + 1]
  BY <1>7, <1>12
<1>14. PICK made : made = FormatGroupHistory(history)
  OBVIOUS
<1>15. /\ made \in Seq(Messages) /\ Len(made) = k
       /\ \A i \in 1 .. k : made[i] = lines[k - i + 1] /\ made[i] = history[n - k + i]
  <2>1. made = Reverse(lines)
    BY <1>8, <1>14 DEF FormatGroupHistory
  <2>2. made \in Seq(Messages) /\ Len(made) = k /\ \A i \in 1 .. k : made[i] = lines[k - i + 1]
    BY <1>10, <1>11, <2>1, ReverseIs
  <2>3. ASSUME NEW i \in 1 .. k PROVE made[i] = history[n - k + i]
    <3>1. k - i + 1 \in 1 .. k /\ n - (k - i + 1) + 1 = n - k + i
      OBVIOUS
    <3>2. lines[k - i + 1] = history[n - (k - i + 1) + 1]
      BY <1>13, <3>1
    <3> QED BY <2>2, <3>1, <3>2
  <2> QED BY <2>2, <2>3
<1>16. SumOf(Sizes(made)) = SumOf(Sizes(lines))
  BY <1>10, <1>11, <1>15, SizesTurned
<1>17. made = LastOf(history, k)
  <2>1. k <= n /\ k = IF n > k THEN k ELSE n
    BY <1>5, <1>12
  <2>2. /\ LastOf(history, k) \in Seq(Messages) /\ Len(LastOf(history, k)) = k
        /\ \A i \in 1 .. k : LastOf(history, k)[i] = history[n - k + i]
    <3>1. IsEnd(LastOf(history, k), history, n, k)
      BY <1>2, <2>1, LastOfIs
    <3> QED BY <3>1 DEF IsEnd
  <2>3. \A i \in 1 .. k : made[i] = LastOf(history, k)[i]
    BY <1>15, <2>2
  <2> QED BY <1>15, <2>2, <2>3, SeqEqual
<1>18. k <= most /\ SumOf(Sizes(LastOf(history, k))) <= cap
  BY <1>5, <1>12, <1>16, <1>17
<1>19. ASSUME k < n, k + 1 <= most PROVE SumOf(Sizes(LastOf(history, k + 1))) > cap
  <2>0. PICK c \in Nat : c = k + 1
    OBVIOUS
  <2>1. k < q /\ c = IF n > c THEN c ELSE n
    BY <1>5, <1>19, <2>0
  <2>2. PICK m : m = L[k + 1]
    OBVIOUS
  <2>3. k + 1 \in 1 .. q /\ n - (k + 1) + 1 = n - k
    BY <2>0, <2>1
  <2>4. m \in Messages /\ m = history[n - k]
    BY <1>7, <2>2, <2>3, ElementOfSeq
  <2>5. PICK more : more = Append(lines, m)
    OBVIOUS
  <2>6. more \in Seq(Messages) /\ Len(more) = c /\ more[c] = m /\ \A j \in 1 .. k : more[j] = lines[j]
    BY <1>10, <1>11, <2>0, <2>4, <2>5, AppendProperties
  <2>7. PICK t : t = LastOf(history, c)
    OBVIOUS
  <2>8. /\ t \in Seq(Messages) /\ Len(t) = c
        /\ \A i \in 1 .. c : t[i] = history[n - c + i]
    <3>1. IsEnd(LastOf(history, c), history, n, c)
      BY <1>2, <2>1, LastOfIs
    <3> QED BY <2>7, <3>1 DEF IsEnd
  <2>9. ASSUME NEW i \in 1 .. c PROVE t[i] = more[c - i + 1]
    <3>1. CASE i = 1
      <4>1. c - i + 1 = c /\ n - c + i = n - k
        BY <2>0, <3>1
      <4> QED BY <2>4, <2>6, <2>8, <4>1
    <3>2. CASE i # 1
      <4>1. PICK j \in 1 .. k : j = c - i + 1
        BY <2>0, <3>2
      <4>2. n - j + 1 = n - c + i
        BY <4>1
      <4>3. more[j] = history[n - j + 1]
        BY <1>13, <2>6
      <4> QED BY <2>8, <4>1, <4>2, <4>3
    <3> QED BY <3>1, <3>2
  <2>10. SumOf(Sizes(t)) = SumOf(Sizes(more))
    BY <2>1, <2>6, <2>8, <2>9, SizesTurned
  <2>11. SumOf(Sizes(more)) = SumOf(Sizes(lines)) + m.size
    BY <1>10, <2>4, <2>5, SizesOfAppend
  <2> QED BY <1>12, <2>0, <2>1, <2>2, <2>7, <2>10, <2>11
<1>20. ASSUME question \in 1 .. cap, \A i \in DOMAIN talk : talk[i].role # "user"
       PROVE  \E i \in DOMAIN made : made[i].role = "user"
  <2>1. n # 0 /\ history[n].role = "user" /\ history[n].size = question
    BY <1>1, <1>2, <1>20, LatestUserIs
  <2>2. k # 0
    <3> SUFFICES ASSUME k = 0 PROVE FALSE
      OBVIOUS
    <3>1. 0 < q /\ 1 \in 1 .. q /\ n - 1 + 1 = n
      BY <1>3, <1>5, <2>1
    <3>2. L[1].size = question
      BY <1>7, <2>1, <3>1
    <3>3. SumOf(Sizes(lines)) + question > cap
      BY <1>12, <3>1, <3>2
    <3>4. lines = <<>>
      BY <1>10, <1>11, EmptySeq
    <3>5. SumOf(Sizes(lines)) = 0
      <4>1. Sizes(<<>>) = <<>>
        BY DEF Sizes
      <4> QED BY <3>4, <4>1, SumOfEmpty
    <3> QED BY <1>20, <3>3, <3>5
  <2>3. k \in 1 .. k /\ n - k + k = n
    BY <2>2
  <2>4. made[k] = history[n] /\ k \in DOMAIN made
    BY <1>15, <2>3, LenProperties
  <2> QED BY <2>1, <2>4
<1>21. NewestFit(talk, question, history, made)
  <2> DEFINE allowed(j) == j <= most /\ SumOf(Sizes(LastOf(history, j))) <= cap
  <2>1. allowed(k)
    BY <1>18
  <2>2. k < n => ~allowed(k + 1)
    <3>1. SUFFICES ASSUME k < n, allowed(k + 1) PROVE FALSE
      OBVIOUS
    <3>2. SumOf(Sizes(LastOf(history, k + 1))) > cap
      BY <1>19, <3>1
    <3>3. LastOf(history, k + 1) \in Seq(Messages)
      <4>1. PICK c \in Nat, r \in Nat : c = k + 1 /\ r = IF n > c THEN c ELSE n
        OBVIOUS
      <4>2. IsEnd(LastOf(history, c), history, n, r)
        BY <1>2, <4>1, LastOfIs
      <4> QED BY <4>1, <4>2 DEF IsEnd
    <3>4. SumOf(Sizes(LastOf(history, k + 1))) \in Nat
      BY <3>3, SizesAre, SumOfType
    <3> QED BY <3>1, <3>2, <3>4
  <2>3. \A j : allowed(j) <=> j <= GroupHistoryLen /\ SumOf([i \in DOMAIN LastOf(history, j) |-> LastOf(history, j)[i].size]) <= GroupHistoryCap
    BY <1>3, <1>4 DEF Sizes
  <2> HIDE DEF allowed
  <2> QED BY <1>2, <1>4, <1>15, <1>17, <1>20, <2>1, <2>2, <2>3 DEF NewestFit
<1> QED BY <1>1, <1>14, <1>21

-----------------------------------------------------------------------------
\* Lists of at most two different members.
Chosen(candidates) ==
  {t \in Seq(Range(candidates)) : Len(t) <= 2 /\ \A i, j \in 1 .. Len(t) : t[i] = t[j] => i = j}

\* parseSpeakerNames: whom a word means, and what a word adds.
MeantBy(candidates, w) ==
  LET full == {i \in DOMAIN candidates : Spelling[candidates[i]] = w}
  IN  IF full # {} THEN full
      ELSE {i \in DOMAIN candidates :
              IsPrefix(Spelling[candidates[i]], w) \/ IsPrefix(w, Spelling[candidates[i]])}

PickName(candidates, sofar, w) ==
  IF w = <<>> \/ Len(sofar) >= 2 \/ MeantBy(candidates, w) = {}
     \/ candidates[Min(MeantBy(candidates, w))] \in Range(sofar)
  THEN sofar ELSE Append(sofar, candidates[Min(MeantBy(candidates, w))])

LEMMA PickKeeps ==
  ASSUME NEW S, NEW candidates \in Seq(S), NEW sofar \in Chosen(candidates), NEW w
  PROVE  PickName(candidates, sofar, w) \in Chosen(candidates)
<1> DEFINE M == MeantBy(candidates, w)
           c == candidates[Min(M)]
<1>1. PICK k \in Nat : k = Len(sofar)
  BY LenProperties DEF Chosen
<1>2. sofar \in Seq(Range(candidates)) /\ k <= 2 /\ \A i, j \in 1 .. k : sofar[i] = sofar[j] => i = j
  BY <1>1 DEF Chosen
<1>3. M \subseteq DOMAIN candidates
  BY DEF MeantBy
<1>4. CASE w = <<>> \/ k >= 2 \/ M = {} \/ c \in Range(sofar)
  BY <1>1, <1>4 DEF PickName
<1>5. CASE ~(w = <<>> \/ k >= 2 \/ M = {} \/ c \in Range(sofar))
  <2>1. PickName(candidates, sofar, w) = Append(sofar, c)
    BY <1>1, <1>5 DEF PickName
  <2> HIDE DEF M
  <2>2. Min(M) \in M
    <3>1. M \in SUBSET Nat /\ M # {}
      <4>1. DOMAIN candidates = 1 .. Len(candidates) /\ Len(candidates) \in Nat
        BY LenProperties
      <4> QED BY <1>3, <1>5, <4>1
    <3>2. \E x \in M : \A y \in M : x <= y
      BY <3>1, LeastOf
    <3> QED BY <3>2 DEF Min
  <2>3. c \in Range(candidates)
    BY <1>3, <2>2 DEF Range
  <2> HIDE DEF c
  <2>4. \A i \in 1 .. k : sofar[i] # c
    <3>1. DOMAIN sofar = 1 .. k
      BY <1>1, <1>2, LenProperties
    <3> QED BY <1>5, <3>1 DEF Range
  <2>5. PICK t : t = Append(sofar, c)
    OBVIOUS
  <2>6. t \in Seq(Range(candidates)) /\ Len(t) = k + 1 /\ t[k + 1] = c /\ \A i \in 1 .. k : t[i] = sofar[i]
    BY <1>1, <1>2, <2>3, <2>5, AppendProperties
  <2>7. k + 1 <= 2
    BY <1>5
  <2>8. ASSUME NEW i \in 1 .. k + 1, NEW j \in 1 .. k + 1, t[i] = t[j] PROVE i = j
    <3>1. CASE i = k + 1 /\ j # k + 1
      <4>1. j \in 1 .. k
        BY <3>1
      <4> QED BY <2>4, <2>6, <2>8, <3>1, <4>1
    <3>2. CASE i # k + 1 /\ j = k + 1
      <4>1. i \in 1 .. k
        BY <3>2
      <4> QED BY <2>4, <2>6, <2>8, <3>2, <4>1
    <3>3. CASE i # k + 1 /\ j # k + 1
      <4>1. i \in 1 .. k /\ j \in 1 .. k
        BY <3>3
      <4> QED BY <1>2, <2>6, <2>8, <4>1
    <3> QED BY <3>1, <3>2, <3>3
  <2>9. t \in Chosen(candidates)
    BY <2>6, <2>7, <2>8 DEF Chosen
  <2> QED BY <2>1, <2>5, <2>9
<1> QED BY <1>4, <1>5

LEMMA NoNames ==
  ASSUME NEW candidates
  PROVE  <<>> \in Chosen(candidates)
<1>1. <<>> \in Seq(Range(candidates)) /\ Len(<<>>) = 0
  BY EmptySeq
<1> QED BY <1>1 DEF Chosen

LEMMA ParsedNames ==
  ASSUME NEW S, NEW candidates \in Seq(S), NEW W, NEW words \in Seq(W)
  PROVE  ParseSpeakerNames(words, candidates) \in Chosen(candidates)
<1> DEFINE Q(h) == h = [i \in 0 .. Len(words) |->
                          IF i = 0 THEN <<>> ELSE PickName(candidates, h[i - 1], words[i])]
           run == CHOOSE h : Q(h)
           States == Chosen(candidates)
<1>1. ParseSpeakerNames(words, candidates) = run[Len(words)]
  BY DEF ParseSpeakerNames, MeantBy, PickName
<1>2. PICK n \in Nat : n = Len(words)
  BY LenProperties
<1> DEFINE F == [p \in (1 .. n) \X States |-> PickName(candidates, p[2], words[p[1]])]
<1>3. <<>> \in States
  BY NoNames
<1>4. F \in [(1 .. n) \X States -> States]
  <2>1. ASSUME NEW p \in (1 .. n) \X States PROVE PickName(candidates, p[2], words[p[1]]) \in States
    <3>1. p[2] \in States
      OBVIOUS
    <3> QED BY <3>1, PickKeeps
  <2> QED BY <2>1
<1>5. \A i \in 1 .. n, t \in States : F[<<i, t>>] = PickName(candidates, t, words[i])
  OBVIOUS
<1> HIDE DEF F
<1>6. PICK g \in [0 .. n -> States] : Iterates(g, n, <<>>, F)
  <2> HIDE DEF States
  <2> QED BY <1>3, <1>4, IterationExists
<1>7. ASSUME NEW i \in 0 .. n PROVE g[i] = IF i = 0 THEN <<>> ELSE PickName(candidates, g[i - 1], words[i])
  <2>1. CASE i = 0
    BY <1>6, <2>1 DEF Iterates
  <2>2. CASE i # 0
    <3>1. i \in 1 .. n /\ i - 1 \in 0 .. n
      BY <2>2
    <3>2. g[i - 1] \in States /\ g[i] = F[<<i, g[i - 1]>>]
      BY <1>6, <3>1 DEF Iterates
    <3> HIDE DEF States
    <3> QED BY <1>5, <2>2, <3>1, <3>2
  <2> QED BY <2>1, <2>2
<1>8. Q(g)
  BY <1>2, <1>7
<1>9. Q(run)
  <2> HIDE DEF Q
  <2> QED BY <1>8
<1> HIDE DEF run
<1>10. run[0] = <<>> /\ \A i \in 1 .. n : run[i] = PickName(candidates, run[i - 1], words[i])
  BY <1>2, <1>9
<1> HIDE DEF Q
<1> DEFINE T == {i \in 0 .. n : run[i] \in States}
<1>11. 0 \in T
  BY <1>3, <1>10
<1>12. ASSUME NEW i \in 0 .. n - 1, i \in T PROVE i + 1 \in T
  <2>1. i + 1 \in 1 .. n /\ i + 1 \in 0 .. n /\ i + 1 - 1 = i
    OBVIOUS
  <2>2. run[i + 1] = PickName(candidates, run[i], words[i + 1])
    BY <1>10, <2>1
  <2>3. PickName(candidates, run[i], words[i + 1]) \in States
    BY <1>12, PickKeeps
  <2> QED BY <2>1, <2>2, <2>3
<1>13. n \in T
  <2> HIDE DEF T
  <2>1. \A i \in 0 .. n : i \in T
    BY <1>11, <1>12, InductionUpTo
  <2> QED BY <2>1
<1> QED BY <1>1, <1>2, <1>13

\* What SpeakersOfTurn says of a cast, its director and the speakers.
SpeakersFor(cast, director, speakers) ==
  /\ Cardinality(Range(speakers)) = Len(speakers) /\ Len(speakers) <= 2
  /\ Range(speakers) \subseteq Range(cast) \ {director}
  /\ speakers = <<>> => Range(cast) \subseteq {director}

LEMMA CandidatesAre ==
  ASSUME NEW S, NEW cast \in Seq(S), NEW director
  PROVE  /\ Candidates(cast, director) \in Seq(S)
         /\ Range(Candidates(cast, director)) \subseteq Range(cast) \ {director}
         /\ Candidates(cast, director) = <<>> => Range(cast) \subseteq {director}
<1> DEFINE K == {i \in DOMAIN cast : cast[i] # director}
<1>1. PICK t : t = Filtered(cast, K)
  OBVIOUS
<1>2. K \in SUBSET DOMAIN cast
  OBVIOUS
<1>3. t \in Seq(S) /\ \E place \in [DOMAIN t -> K] : Picks(place, cast, K, t)
  <2> HIDE DEF K
  <2> QED BY <1>1, <1>2, FilteredIs
<1>4. PICK place \in [DOMAIN t -> K] : Picks(place, cast, K, t)
  BY <1>3
<1>5. \A n \in DOMAIN t : place[n] \in K /\ t[n] = cast[place[n]]
  BY <1>4 DEF Picks
<1>6. Range(t) \subseteq Range(cast) \ {director}
  BY <1>5 DEF Range
<1>7. t = <<>> => K = {}
  <2>1. t = <<>> => DOMAIN t = {}
    OBVIOUS
  <2> QED BY <1>4, <2>1 DEF Picks
<1>8. K = {} => Range(cast) \subseteq {director}
  BY DEF Range
<1>9. t = Candidates(cast, director)
  BY <1>1 DEF Candidates
<1> QED BY <1>3, <1>6, <1>7, <1>8, <1>9

LEMMA DistinctRange ==
  ASSUME NEW S, NEW t \in Seq(S), \A i, j \in 1 .. Len(t) : t[i] = t[j] => i = j
  PROVE  Cardinality(Range(t)) = Len(t)
<1>1. PICK n \in Nat : n = Len(t) /\ DOMAIN t = 1 .. n
  BY LenProperties
<1>2. IsFiniteSet(1 .. n) /\ Cardinality(1 .. n) = n
  BY IntervalSize
<1>3. \A i, j \in 1 .. n : t[i] = t[j] => i = j
  BY <1>1
<1>4. PICK A : A = 1 .. n
  OBVIOUS
<1>5. Cardinality({t[i] : i \in A}) = Cardinality(A)
  BY <1>2, <1>3, <1>4, ImageSize
<1>6. Range(t) = {t[i] : i \in A}
  BY <1>1, <1>4 DEF Range
<1> QED BY <1>1, <1>2, <1>4, <1>5, <1>6

LEMMA FallbackIs ==
  ASSUME NEW S, NEW candidates \in Seq(S), NEW speakers \in PickFallbackSpeakers(candidates)
  PROVE  speakers \in Chosen(candidates) /\ (speakers = <<>> => candidates = <<>>)
<1>1. CASE candidates = <<>>
  <2>1. speakers = <<>>
    BY <1>1 DEF PickFallbackSpeakers
  <2> QED BY <1>1, <2>1, NoNames
<1>2. CASE candidates # <<>>
  <2> DEFINE R == Range(candidates)
  <2>1. speakers \in {<<p>> : p \in R} \/ speakers \in {<<p, q>> : p, q \in R} \ {<<p, p>> : p \in R}
    BY <1>2 DEF PickFallbackSpeakers
  <2> HIDE DEF R
  <2>2. CASE speakers \in {<<p>> : p \in R}
    <3>1. PICK p \in R : speakers = <<p>>
      BY <2>2
    <3>2. speakers \in Seq(R) /\ Len(speakers) = 1
      BY <3>1
    <3>3. \A i, j \in 1 .. Len(speakers) : i = j
      BY <3>2
    <3>4. speakers \in Chosen(candidates)
      <4>1. Len(speakers) <= 2 /\ \A i, j \in 1 .. Len(speakers) : speakers[i] = speakers[j] => i = j
        BY <3>2, <3>3
      <4> QED BY <3>2, <4>1 DEF Chosen, R
    <3> QED BY <3>1, <3>4
  <2>3. CASE speakers \in {<<p, q>> : p, q \in R} \ {<<p, p>> : p \in R}
    <3>1. PICK p \in R, q \in R : speakers = <<p, q>>
      BY <2>3
    <3>2. p # q
      BY <2>3, <3>1
    <3>3. speakers \in Seq(R) /\ Len(speakers) = 2 /\ speakers[1] = p /\ speakers[2] = q
      BY <3>1
    <3>4. \A i, j \in 1 .. 2 : speakers[i] = speakers[j] => i = j
      <4>1. \A i \in 1 .. 2 : i = 1 \/ i = 2
        OBVIOUS
      <4> QED BY <3>2, <3>3, <4>1
    <3>5. speakers \in Chosen(candidates)
      <4>1. \A i, j \in 1 .. Len(speakers) : speakers[i] = speakers[j] => i = j
        BY <3>3, <3>4
      <4>2. Len(speakers) <= 2
        BY <3>3
      <4> QED BY <3>3, <4>1, <4>2 DEF Chosen, R
    <3> QED BY <3>1, <3>5
  <2> QED BY <2>1, <2>2, <2>3
<1> QED BY <1>1, <1>2

LEMMA SpeakersAre ==
  ASSUME NEW S, NEW cast \in Seq(S), NEW director, NEW W, NEW words \in Seq(W), NEW speakers,
         LET candidates == Candidates(cast, director)
             parsed == ParseSpeakerNames(words, candidates)
         IN  speakers \in IF parsed # <<>> THEN {parsed} ELSE PickFallbackSpeakers(candidates)
  PROVE  SpeakersFor(cast, director, speakers)
<1>1. PICK C : C = Candidates(cast, director)
  OBVIOUS
<1>2. /\ C \in Seq(S) /\ Range(C) \subseteq Range(cast) \ {director}
      /\ C = <<>> => Range(cast) \subseteq {director}
  BY <1>1, CandidatesAre
<1>3. speakers \in Chosen(C) /\ (speakers = <<>> => C = <<>>)
  <2>1. ParseSpeakerNames(words, C) \in Chosen(C)
    BY <1>2, ParsedNames
  <2>2. CASE ParseSpeakerNames(words, C) # <<>>
    BY <1>1, <2>1, <2>2
  <2>3. CASE ParseSpeakerNames(words, C) = <<>>
    <3>1. speakers \in PickFallbackSpeakers(C)
      BY <1>1, <2>3
    <3> QED BY <1>2, <3>1, FallbackIs
  <2> QED BY <2>2, <2>3
<1>4. /\ speakers \in Seq(Range(C)) /\ Len(speakers) <= 2
      /\ \A i, j \in 1 .. Len(speakers) : speakers[i] = speakers[j] => i = j
  BY <1>3 DEF Chosen
<1>5. Cardinality(Range(speakers)) = Len(speakers)
  BY <1>4, DistinctRange
<1>6. Range(speakers) \subseteq Range(C)
  <2>1. DOMAIN speakers = 1 .. Len(speakers) /\ \A i \in 1 .. Len(speakers) : speakers[i] \in Range(C)
    BY <1>4, LenProperties, ElementOfSeq
  <2> QED BY <2>1 DEF Range
<1> QED BY <1>2, <1>3, <1>4, <1>5, <1>6 DEF SpeakersFor

-----------------------------------------------------------------------------
PromptSpec == PromptInit /\ [][PromptNext]_promptVars

\* The calls of AssembleGroup and ChooseSpeakers.
CallGroup(n, sizes, users, question) ==
  LET talk == [i \in 1 .. n |->
                 [role |-> IF i \in users THEN "user" ELSE "assistant", size |-> sizes[i], id |-> i]]
      history == EnsureLatestUser(talk, question)
  IN  /\ promptGiven' = [task |-> "group", talk |-> talk, history |-> history, question |-> question]
      /\ promptMade' = FormatGroupHistory(history)

CallSchedule(cast, director, words) ==
  LET candidates == Candidates(cast, director)
      parsed == ParseSpeakerNames(words, candidates)
  IN  /\ promptGiven' = [task |-> "schedule", cast |-> cast, director |-> director, words |-> words]
      /\ \E speakers \in IF parsed # <<>> THEN {parsed} ELSE PickFallbackSpeakers(candidates) :
           promptMade' = speakers

\* The parts of PromptCorrect in the terms of the lemmas above.
LEMMA PromptByPriorityIs ==
  PromptByPriority <=>
    (promptGiven.task = "roleplay" =>
       /\ ByPriority(Contributions(promptGiven), promptMade)
       /\ RightEnds(Contributions(promptGiven), promptGiven.history))
BY Zenon DEF PromptByPriority, ByPriority, RightEnds

LEMMA GroupHistoryNewestIs ==
  GroupHistoryNewest <=>
    (promptGiven.task = "group" =>
       NewestFit(promptGiven.talk, promptGiven.question, promptGiven.history, promptMade))
BY Zenon DEF GroupHistoryNewest, NewestFit

LEMMA SpeakersOfTurnIs ==
  SpeakersOfTurn <=>
    (promptGiven.task = "schedule" => SpeakersFor(promptGiven.cast, promptGiven.director, promptMade))
BY Zenon DEF SpeakersOfTurn, SpeakersFor

LEMMA PromptCorrectNext ==
  PromptCorrect' <=>
    /\ promptGiven'.task = "roleplay" =>
         /\ ByPriority(Contributions(promptGiven'), promptMade')
         /\ RightEnds(Contributions(promptGiven'), promptGiven'.history)
    /\ promptGiven'.task = "group" =>
         NewestFit(promptGiven'.talk, promptGiven'.question, promptGiven'.history, promptMade')
    /\ promptGiven'.task = "schedule" => SpeakersFor(promptGiven'.cast, promptGiven'.director, promptMade')
<1>1. PromptByPriority' <=>
        (promptGiven.task = "roleplay" =>
           /\ ByPriority(Contributions(promptGiven), promptMade)
           /\ RightEnds(Contributions(promptGiven), promptGiven.history))'
  BY PromptByPriorityIs, PTL
<1>2. GroupHistoryNewest' <=>
        (promptGiven.task = "group" =>
           NewestFit(promptGiven.talk, promptGiven.question, promptGiven.history, promptMade))'
  BY GroupHistoryNewestIs, PTL
<1>3. SpeakersOfTurn' <=>
        (promptGiven.task = "schedule" => SpeakersFor(promptGiven.cast, promptGiven.director, promptMade))'
  BY SpeakersOfTurnIs, PTL
<1> QED BY <1>1, <1>2, <1>3 DEF PromptCorrect, GroupPromptCorrect

LEMMA InputLists ==
  Casts \subseteq Seq({"a", "ab", "b"}) /\ Replies \subseteq Seq(Spoken) /\ HitLists \subseteq Seq(Nat)
<1>1. Casts \subseteq Seq({"a", "ab", "b"})
  <2>1. <<>> \in Seq({"a", "ab", "b"})
    BY EmptySeq
  <2>2. /\ <<"a">> \in Seq({"a", "ab", "b"}) /\ <<"a", "ab">> \in Seq({"a", "ab", "b"})
        /\ <<"a", "ab", "b">> \in Seq({"a", "ab", "b"})
    OBVIOUS
  <2> DEFINE lists == Seq({"a", "ab", "b"})
  <2>3. <<>> \in lists /\ <<"a">> \in lists /\ <<"a", "ab">> \in lists /\ <<"a", "ab", "b">> \in lists
    BY <2>1, <2>2
  <2> HIDE DEF lists
  <2>4. \A c \in {<<>>, <<"a">>, <<"a", "ab">>, <<"a", "ab", "b">>} : c \in lists
    BY Zenon, <2>3
  <2> QED BY <2>4 DEF Casts, lists
<1>2. Replies \subseteq Seq(Spoken)
  <2> DEFINE lists == Seq(Spoken)
  <2>1. \A v, w \in Spoken : <<v, w>> \in lists
    OBVIOUS
  <2>2. <<>> \in lists
    BY EmptySeq
  <2> HIDE DEF lists
  <2>3. ASSUME NEW c \in Replies PROVE c \in lists
    <3>1. c = <<>> \/ \E v, w \in Spoken : c = <<v, w>>
      BY DEF Replies
    <3>2. CASE c = <<>>
      BY <2>2, <3>2
    <3>3. CASE \E v, w \in Spoken : c = <<v, w>>
      <4>1. PICK v \in Spoken, w \in Spoken : c = <<v, w>>
        BY <3>3
      <4> QED BY <2>1, <4>1
    <3> QED BY <3>1, <3>2, <3>3
  <2> QED BY <2>3 DEF lists
<1>3. HitLists \subseteq Seq(Nat)
  <2> DEFINE lists == Seq(Nat)
  <2>1. \A m, n \in HistorySizes : <<m, n>> \in lists
    BY PromptAssumption
  <2>2. <<>> \in lists
    BY EmptySeq
  <2> HIDE DEF lists
  <2>3. ASSUME NEW c \in HitLists PROVE c \in lists
    <3>1. c = <<>> \/ \E m, n \in HistorySizes : c = <<m, n>>
      BY DEF HitLists
    <3>2. CASE c = <<>>
      BY <2>2, <3>2
    <3>3. CASE \E m, n \in HistorySizes : c = <<m, n>>
      <4>1. PICK m \in HistorySizes, n \in HistorySizes : c = <<m, n>>
        BY <3>3
      <4> QED BY <2>1, <4>1
    <3> QED BY <3>1, <3>2, <3>3
  <2> QED BY <2>3 DEF lists
<1> QED BY <1>1, <1>2, <1>3

LEMMA RoleplayCorrect ==
  ASSUME AssembleRoleplay
  PROVE  PromptCorrect'
<1>1. PICK persona \in TextSizes \ {0}, world \in TextSizes, memory \in TextSizes, history \in TextSizes,
           hits \in HitLists, sameText \in BOOLEAN :
         LET in == [task |-> "roleplay", persona |-> persona, world |-> world, memory |-> memory,
                    history |-> history, hits |-> hits, sameText |-> sameText]
         IN  promptGiven' = in /\ promptMade' = Assembled(Contributions(in)).blocks
  BY DEF AssembleRoleplay
<1> DEFINE in == [task |-> "roleplay", persona |-> persona, world |-> world, memory |-> memory,
                  history |-> history, hits |-> hits, sameText |-> sameText]
<1>3. hits \in Seq(Nat)
  BY InputLists
<1>4. in \in RoleplayInputs
  <2>1. persona \in Nat \ {0} /\ world \in Nat /\ memory \in Nat /\ history \in Nat
    BY PromptAssumption
  <2> QED BY <1>3, <2>1 DEF RoleplayInputs
<1>5. promptGiven' = in /\ promptMade' = Assembled(Contributions(in)).blocks /\ in.task = "roleplay"
  BY <1>1
<1> HIDE DEF in
<1>6. /\ ByPriority(Contributions(in), Assembled(Contributions(in)).blocks)
      /\ RightEnds(Contributions(in), in.history)
  BY <1>4, RoleplayIs
<1>7. /\ ByPriority(Contributions(promptGiven'), promptMade')
      /\ RightEnds(Contributions(promptGiven'), promptGiven'.history)
  BY <1>5, <1>6
<1>8. promptGiven'.task = "roleplay"
  BY <1>5
<1> QED BY <1>7, <1>8, PromptCorrectNext

LEMMA GroupCorrect ==
  ASSUME AssembleGroup
  PROVE  PromptCorrect'
<1>0. PICK n \in 0 .. MaxMessages :
         \E sizes \in [1 .. n -> HistorySizes], users \in SUBSET (1 .. n), question \in HistorySizes \cup {0} :
           CallGroup(n, sizes, users, question)
  BY Zenon DEF AssembleGroup, CallGroup
<1>1. PICK sizes \in [1 .. n -> HistorySizes], users \in SUBSET (1 .. n), question \in HistorySizes \cup {0} :
         CallGroup(n, sizes, users, question)
  BY <1>0
<1>2. PICK talk : talk = [i \in 1 .. n |->
                           [role |-> IF i \in users THEN "user" ELSE "assistant", size |-> sizes[i], id |-> i]]
  OBVIOUS
<1>3. talk \in Seq(Messages)
  <2>1. n \in Nat
    BY PromptAssumption
  <2>2. ASSUME NEW i \in 1 .. n
        PROVE  [role |-> IF i \in users THEN "user" ELSE "assistant", size |-> sizes[i], id |-> i] \in Messages
    <3>1. sizes[i] \in HistorySizes /\ i \in Nat
      OBVIOUS
    <3>2. sizes[i] \in Nat
      BY <3>1, PromptAssumption
    <3>3. (IF i \in users THEN "user" ELSE "assistant") \in {"user", "assistant"}
      OBVIOUS
    <3> QED BY <3>1, <3>2, <3>3 DEF Messages
  <2>3. talk \in [1 .. n -> Messages]
    BY <1>2, <2>2
  <2> QED BY <2>1, <2>3, SeqDef
<1>4. question \in Nat
  BY PromptAssumption
<1>5. PICK history : history = EnsureLatestUser(talk, question)
  OBVIOUS
<1>6. /\ promptGiven' = [task |-> "group", talk |-> talk, history |-> history, question |-> question]
      /\ promptMade' = FormatGroupHistory(history)
  BY <1>1, <1>2, <1>5 DEF CallGroup
<1>7. /\ promptGiven'.task = "group" /\ promptGiven'.talk = talk
      /\ promptGiven'.history = history /\ promptGiven'.question = question
  BY <1>6
<1>8. NewestFit(talk, question, history, FormatGroupHistory(history))
  BY <1>3, <1>4, <1>5, GroupHistoryIs
<1>9. NewestFit(promptGiven'.talk, promptGiven'.question, promptGiven'.history, promptMade')
  BY <1>6, <1>7, <1>8
<1> QED BY <1>7, <1>9, PromptCorrectNext

LEMMA ScheduleCorrect ==
  ASSUME ChooseSpeakers
  PROVE  PromptCorrect'
<1>0. PICK cast \in Casts, director \in {"none", "a", "b"}, words \in Replies :
         CallSchedule(cast, director, words)
  BY Zenon DEF ChooseSpeakers, CallSchedule
<1>1. PICK speakers :
         LET candidates == Candidates(cast, director)
             parsed == ParseSpeakerNames(words, candidates)
         IN  /\ promptGiven' = [task |-> "schedule", cast |-> cast, director |-> director, words |-> words]
             /\ speakers \in IF parsed # <<>> THEN {parsed} ELSE PickFallbackSpeakers(candidates)
             /\ promptMade' = speakers
  BY <1>0 DEF CallSchedule
<1>2. cast \in Seq({"a", "ab", "b"})
  BY InputLists
<1>3. words \in Seq(Spoken)
  BY InputLists
<1>4. SpeakersFor(cast, director, speakers)
  BY <1>1, <1>2, <1>3, SpeakersAre
<1>5. /\ promptGiven'.task = "schedule" /\ promptGiven'.cast = cast
      /\ promptGiven'.director = director /\ promptMade' = speakers
  BY <1>1
<1>6. SpeakersFor(promptGiven'.cast, promptGiven'.director, promptMade')
  BY <1>4, <1>5
<1> QED BY <1>5, <1>6, PromptCorrectNext

LEMMA PromptsAreCorrect == PromptSpec => []PromptCorrect
<1>1. PromptInit => PromptCorrect
  BY DEF PromptInit, PromptCorrect, GroupPromptCorrect, PromptByPriority, GroupHistoryNewest, SpeakersOfTurn
<1>2. PromptCorrect /\ [PromptNext]_promptVars => PromptCorrect'
  <2> SUFFICES ASSUME PromptCorrect, [PromptNext]_promptVars PROVE PromptCorrect'
    OBVIOUS
  <2>1. CASE AssembleRoleplay
    BY <2>1, RoleplayCorrect
  <2>2. CASE AssembleGroup
    BY <2>2, GroupCorrect
  <2>3. CASE ChooseSpeakers
    BY <2>3, ScheduleCorrect
  <2>4. CASE UNCHANGED promptVars
    <3>1. /\ promptGiven.task = "roleplay" =>
               /\ ByPriority(Contributions(promptGiven), promptMade)
               /\ RightEnds(Contributions(promptGiven), promptGiven.history)
          /\ promptGiven.task = "group" =>
               NewestFit(promptGiven.talk, promptGiven.question, promptGiven.history, promptMade)
          /\ promptGiven.task = "schedule" => SpeakersFor(promptGiven.cast, promptGiven.director, promptMade)
      BY PromptByPriorityIs, GroupHistoryNewestIs, SpeakersOfTurnIs DEF PromptCorrect, GroupPromptCorrect
    <3>2. promptGiven' = promptGiven /\ promptMade' = promptMade
      BY <2>4 DEF promptVars
    <3> QED BY <3>1, <3>2, PromptCorrectNext
  <2> QED BY <2>1, <2>2, <2>3, <2>4 DEF PromptNext
<1> QED BY <1>1, <1>2, PTL DEF PromptSpec

(***************************************************************************)
(* Every prompt of a role-play keeps within its budget and spends it from  *)
(* the top: the sources in descending order of priority, each in whole but *)
(* for the end of the last, and nothing missing while there is room        *)
(* (assembleContext of workflows/context.ts, for any budget and caps).     *)
(***************************************************************************)
THEOREM PromptIsByPriority == PromptSpec => []PromptByPriority
<1>1. PromptCorrect => PromptByPriority
  BY DEF PromptCorrect
<1> QED BY <1>1, PromptsAreCorrect, PTL

(***************************************************************************)
(* Every speaker of a group is shown the newest messages that fit, and     *)
(* every turn of a group has its speakers: formatGroupHistory with         *)
(* ensureLatestUser, and parseSpeakerNames with pickFallbackSpeakers, for  *)
(* any caps.                                                               *)
(***************************************************************************)
THEOREM GroupPromptIsCorrect == PromptSpec => []GroupPromptCorrect
<1>1. PromptCorrect => GroupPromptCorrect
  BY DEF PromptCorrect
<1> QED BY <1>1, PromptsAreCorrect, PTL
=============================================================================

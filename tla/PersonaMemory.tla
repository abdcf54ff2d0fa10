---------------------------- MODULE PersonaMemory ----------------------------
(***************************************************************************)
(* Long-term memories: lib/memory-library.ts (one file per user, one       *)
(* summary per persona), lib/memory-handler.ts (refresh, clear, list) and  *)
(* the route above them.  A refresh works on a snapshot of the             *)
(* conversation; summaries come from the gateway outside any lock.  Each   *)
(* locked save or clear is one step, as SerialExecutor allows.             *)
(***************************************************************************)
EXTENDS Lists, SequencesExt

CONSTANTS
  Talks,          \* conversations
  MemoryCast,     \* the personas of each: memoryTargets
  MemoryOps,      \* requests: refreshes and clears
  UpdateStep,     \* 15: MIN_MESSAGES and UPDATE_STEP
  MaxSummaries,   \* 100
  TalkCap         \* 200: MAX_MESSAGES of a conversation

ASSUME MemoryAssumption ==
  /\ UpdateStep \in Nat \ {0} /\ MaxSummaries \in Nat \ {0} /\ TalkCap \in Nat
  /\ \A t \in Talks : MemoryCast[t] \in Seq(Range(MemoryCast[t])) /\ IsInjective(MemoryCast[t])

VARIABLES
  talkLen,       \* messages of each conversation
  memories,      \* personaSummaries, in the order of the file
  memoryOp       \* each request: where it is and what it holds
memoryVars == <<talkLen, memories, memoryOp>>

\* A summary: whose, from which conversation, of how many of its messages.
Summary(persona, talk, count) == [persona |-> persona, talk |-> talk, count |-> count]
NoSummary == [persona |-> "none", talk |-> "none", count |-> 0]

MemoryOf(store, persona) ==
  IF \E i \in DOMAIN store : store[i].persona = persona
  THEN store[CHOOSE i \in DOMAIN store : store[i].persona = persona] ELSE NoSummary

IdleMemoryOp == [at |-> "idle", talk |-> "none", count |-> 0, todo |-> <<>>, stale |-> <<>>, seen |-> <<>>]

MemoryInit ==
  /\ talkLen = [t \in Talks |-> 0] /\ memories = <<>>
  /\ memoryOp = [o \in MemoryOps |-> IdleMemoryOp]

\* At the cap an old message goes for every new one.
Talk(t) ==
  /\ talkLen[t] < TalkCap
  /\ talkLen' = [talkLen EXCEPT ![t] = @ + 1]
  /\ UNCHANGED <<memories, memoryOp>>

\* POST: the route has read the conversation; short talks are turned down.
StartRefresh(o) ==
  /\ memoryOp[o].at = "idle"
  /\ \E t \in Talks :
       memoryOp' = [memoryOp EXCEPT ![o] =
         [IdleMemoryOp EXCEPT !.at = IF talkLen[t] < UpdateStep \/ MemoryCast[t] = <<>> THEN "skipped" ELSE "checking",
                      !.talk = t, !.count = talkLen[t], !.todo = MemoryCast[t]]]
  /\ UNCHANGED <<talkLen, memories>>

\* Mutant of Stale: any growth is enough.
StaleWhenGrown(existing, count) == existing = NoSummary \/ count > existing.count

\* The counts are compared even if they are of different conversations.
Stale(existing, count) == existing = NoSummary \/ count >= existing.count + UpdateStep

CheckNext(o) ==
  LET op == memoryOp[o]
      existing == MemoryOf(memories, Head(op.todo))
      stale == Stale(existing, op.count)
      rest == Tail(op.todo)
  IN  /\ op.at = "checking"
      /\ memoryOp' = [memoryOp EXCEPT ![o] =
           [op EXCEPT !.todo = rest,
                      !.stale = IF stale THEN Append(@, Head(op.todo)) ELSE @,
                      !.seen = IF stale THEN Append(@, existing) ELSE @,
                      !.at = IF rest # <<>> THEN @
                             ELSE IF stale \/ op.stale # <<>> THEN "generating" ELSE "skipped"]]
      /\ UNCHANGED <<talkLen, memories>>

\* All summaries are asked for at once; one failure loses the others too.
Generate(o) ==
  /\ memoryOp[o].at = "generating"
  /\ \E answer \in {"saving", "failed"} : memoryOp' = [memoryOp EXCEPT ![o].at = answer]
  /\ UNCHANGED <<talkLen, memories>>

\* Mutant of Upserted: the old summary is not looked for.
UpsertedAlwaysNew(store, summary) ==
  Append(IF Len(store) >= MaxSummaries THEN Tail(store) ELSE store, summary)

\* savePersonaMemory: in its old place, or at the end of a file that may have
\* to give up its first entry.
Upserted(store, summary) ==
  IF \E i \in DOMAIN store : store[i].persona = summary.persona
  THEN [i \in DOMAIN store |-> IF store[i].persona = summary.persona THEN summary ELSE store[i]]
  ELSE Append(IF Len(store) >= MaxSummaries THEN Tail(store) ELSE store, summary)

SaveNext(o) ==
  LET op == memoryOp[o]
  IN  /\ op.at = "saving"
      /\ memories' = Upserted(memories, Summary(Head(op.stale), op.talk, op.count))
      /\ memoryOp' = [memoryOp EXCEPT ![o].stale = Tail(@), ![o].seen = Tail(@),
                                      ![o].at = IF Len(op.stale) = 1 THEN "updated" ELSE @]
      /\ UNCHANGED talkLen

StartClear(o) ==
  /\ memoryOp[o].at = "idle"
  /\ \E t \in Talks :
       memoryOp' = [memoryOp EXCEPT ![o] =
         [IdleMemoryOp EXCEPT !.at = IF MemoryCast[t] = <<>> THEN "cleared" ELSE "clearing",
                      !.talk = t, !.todo = MemoryCast[t]]]
  /\ UNCHANGED <<talkLen, memories>>

\* What is not the persona's, in its old order.
Cleared(store, persona) == Filtered(store, {i \in DOMAIN store : store[i].persona # persona})

ClearNext(o) ==
  LET op == memoryOp[o]
  IN  /\ op.at = "clearing"
      /\ memories' = Cleared(memories, Head(op.todo))
      /\ memoryOp' = [memoryOp EXCEPT ![o].todo = Tail(@),
                                      ![o].at = IF Len(op.todo) = 1 THEN "cleared" ELSE @]
      /\ UNCHANGED talkLen

\* A failing read or write, or the end of the process, between any two steps.
AbandonMemoryOp(o) ==
  /\ memoryOp[o].at \in {"checking", "saving", "clearing"}
  /\ memoryOp' = [memoryOp EXCEPT ![o].at = "failed"]
  /\ UNCHANGED <<talkLen, memories>>

MemoryNext ==
  \/ \E t \in Talks : Talk(t)
  \/ \E o \in MemoryOps :
       \/ StartRefresh(o) \/ CheckNext(o) \/ Generate(o) \/ SaveNext(o)
       \/ StartClear(o) \/ ClearNext(o) \/ AbandonMemoryOp(o)

MemorySpec == MemoryInit /\ [][MemoryNext]_memoryVars

-----------------------------------------------------------------------------
(***************************************************************************)
(* However refreshes and clears overlap, the file holds one summary per    *)
(* persona, of a conversation the persona is in, of messages that were     *)
(* there, and never of fewer than the least number.                        *)
(***************************************************************************)
MemoriesConsistent ==
  /\ \A i, j \in DOMAIN memories : memories[i].persona = memories[j].persona => i = j
  /\ Len(memories) <= MaxSummaries
  /\ \A m \in Range(memories) :
       /\ m.persona \in Range(MemoryCast[m.talk])
       /\ UpdateStep <= m.count /\ m.count <= talkLen[m.talk]

(***************************************************************************)
(* A refresh that saves over the summary it had found stale covers at      *)
(* least UpdateStep messages more.  (Over one that has come in between, by *)
(* an overlapping refresh, it may cover fewer.)                            *)
(***************************************************************************)
SummaryAdvances ==
  [][\A o \in MemoryOps :
       memoryOp[o].at = "saving" /\ memoryOp'[o].at # "failed" /\ memoryOp'[o] # memoryOp[o] =>
         LET op == memoryOp[o]
             found == MemoryOf(memories, Head(op.stale))
             saved == MemoryOf(memories', Head(op.stale))
         IN  /\ saved = Summary(Head(op.stale), op.talk, op.count)
             /\ found = Head(op.seen) /\ found # NoSummary => saved.count >= found.count + UpdateStep]_memoryVars

=============================================================================

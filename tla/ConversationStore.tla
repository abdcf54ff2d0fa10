-------------------------- MODULE ConversationStore --------------------------
(***************************************************************************)
(* The conversation store of lib/conversations.ts: one JSON file per user, *)
(* changed by reading the whole file, editing it in memory and replacing   *)
(* it, all under withFileLock.  The file is replaced by writing a          *)
(* temporary file and renaming it (writeJsonFile in lib/store.ts).  Every  *)
(* await in between is a point where other calls run or the process dies.  *)
(*                                                                         *)
(* Reads (list, getConversationDetail) take no lock and change nothing:    *)
(* they see one value of disk[f].                                          *)
(***************************************************************************)
EXTENDS FileLock, ConversationOps, FiniteSets

CONSTANTS
  InitialStore,  \* InitialStore[f]: what the file holds at first
  Workloads      \* the assignments of operations to calls that are explored

\* Ids are fresh: randomUUID never returns the id of another conversation.
FreshIds(w) ==
  \A c, d \in Calls :
    w[c].kind = "create" =>
      /\ w[c].conv \notin DOMAIN InitialStore[FileOf[c]]
      /\ w[d].kind = "create" /\ w[d].conv = w[c].conv => c = d

ASSUME StoreAssumption ==
  /\ DOMAIN InitialStore = Files
  /\ \A f \in Files : IsStore(InitialStore[f])
  /\ Calls \subseteq Messages
  /\ \A f \in Files : \A k \in DOMAIN InitialStore[f] :
       LET ms == InitialStore[f][k].messages IN \A i \in DOMAIN ms : ms[i] \notin Calls
  /\ Workloads \subseteq [Calls -> Ops]
  /\ \A w \in Workloads : FreshIds(w)

VARIABLES
  op,        \* op[c]: the operation call c was made for
  stage,     \* stage[c]: how far the body of call c has come
  snapshot,  \* snapshot[c]: the store call c read
  disk,      \* disk[f]: the content of the file, as the file system has it
  outcome    \* outcome[c]: "none", or how the operation ended

storeVars == <<op, stage, snapshot, disk, outcome>>
vars == <<lockVars, storeVars>>

Stages == {"out", "begun", "loaded", "writing", "staged", "ended"}

\* What is left of a file when its writer dies half way.
Torn == [mark |-> "torn"]

NoSnapshot == [mark |-> "no snapshot"]

Init ==
  /\ LockInit
  /\ op \in Workloads
  /\ stage = [c \in Calls |-> "out"]
  /\ snapshot = [c \in Calls |-> NoSnapshot]
  /\ disk = InitialStore
  /\ outcome = [c \in Calls |-> "none"]

Contents(c) == disk[FileOf[c]]

\* Call c moves from one stage of its body to the next.
Advance(c, from, to) ==
  /\ pc[c] = "running"
  /\ stage[c] = from
  /\ stage' = [stage EXCEPT ![c] = to]
  /\ UNCHANGED <<lockVars, op>>

\* The operation throws; the lock is still held until the finally block.
Throw(c, from, fate) ==
  /\ Advance(c, from, "ended")
  /\ outcome' = [outcome EXCEPT ![c] = fate]
  /\ UNCHANGED <<snapshot, disk>>

Arrive(c) == Enter(c) /\ UNCHANGED storeVars

Begin(c) ==
  /\ Start(c)
  /\ stage' = [stage EXCEPT ![c] = "begun"]
  /\ UNCHANGED <<op, snapshot, disk, outcome>>

\* createConversation validates its options first, under the lock.
RejectOptions(c) == Malformed(op[c]) /\ Throw(c, "begun", "refused")

\* readFile settles: the store as it is now.
Load(c) ==
  /\ ~Malformed(op[c])
  /\ Advance(c, "begun", "loaded")
  /\ snapshot' = [snapshot EXCEPT ![c] = Contents(c)]
  /\ UNCHANGED <<disk, outcome>>

\* The conversation is not in the store that was read.
RejectMissing(c) == NotFound(snapshot[c], op[c]) /\ Throw(c, "loaded", "refused")

\* Mutant of OpenTemporary: the file itself is overwritten in place.
OpenInPlace(c) ==
  /\ ~NotFound(snapshot[c], op[c])
  /\ Advance(c, "loaded", "writing")
  /\ disk' = [disk EXCEPT ![FileOf[c]] = Torn]
  /\ UNCHANGED <<snapshot, outcome>>

\* The temporary file is created and filled; nobody reads it yet.
OpenTemporary(c) ==
  /\ ~NotFound(snapshot[c], op[c])
  /\ Advance(c, "loaded", "writing")
  /\ UNCHANGED <<snapshot, disk, outcome>>

CloseTemporary(c) ==
  /\ Advance(c, "writing", "staged")
  /\ UNCHANGED <<snapshot, disk, outcome>>

\* rename replaces the file by the edited copy of what was read.
Rename(c) ==
  /\ Advance(c, "staged", "ended")
  /\ disk' = [disk EXCEPT ![FileOf[c]] = Apply(snapshot[c], op[c], c)]
  /\ outcome' = [outcome EXCEPT ![c] = "ok"]
  /\ UNCHANGED snapshot

\* Any of the file operations may fail, and a store over MAX_STORE_BYTES is
\* refused before the temporary file is opened.
IoError(c) ==
  /\ ~Malformed(op[c])
  /\ \/ Throw(c, "begun", "broken")
     \/ \E from \in {"loaded", "writing", "staged"} :
          ~NotFound(snapshot[c], op[c]) /\ Throw(c, from, "broken")

\* Mutant of End: the gate is opened on success only, without a finally.
EndOnSuccessOnly(c) ==
  /\ stage[c] = "ended" /\ outcome[c] = "ok"
  /\ Finish(c)
  /\ UNCHANGED storeVars

End(c) ==
  /\ stage[c] = "ended"
  /\ Finish(c)
  /\ UNCHANGED storeVars

\* The process dies with its calls; what is on disk stays there.
Crash ==
  /\ Restart
  /\ stage' = [c \in Calls |-> "out"]
  /\ snapshot' = [c \in Calls |-> NoSnapshot]
  /\ UNCHANGED <<op, disk, outcome>>

Body(c) ==
  \/ RejectOptions(c) \/ Load(c) \/ RejectMissing(c)
  \/ OpenTemporary(c) \/ CloseTemporary(c) \/ Rename(c)
  \/ IoError(c)

Next ==
  \/ \E c \in Calls : Arrive(c) \/ Begin(c) \/ Body(c) \/ End(c)
  \/ Crash

\* The event loop resumes what can run, and file operations settle.
Fairness ==
  \A c \in Calls : WF_vars(Begin(c)) /\ WF_vars(Body(c)) /\ WF_vars(End(c))

Spec == Init /\ [][Next]_vars /\ Fairness

-----------------------------------------------------------------------------
\* Every variable of the store has its type; in particular no file is torn.
TypeOK ==
  /\ op \in [Calls -> Ops]
  /\ stage \in [Calls -> Stages]
  /\ DOMAIN snapshot = Calls
  /\ \A c \in Calls : snapshot[c] = NoSnapshot \/ IsStore(snapshot[c])
  /\ DOMAIN disk = Files
  /\ \A f \in Files : IsStore(disk[f])
  /\ outcome \in [Calls -> {"none", "ok", "refused", "broken"}]

(***************************************************************************)
(* Between reading the store and replacing it, nobody else replaces it:    *)
(* what a call is about to write is an edit of what is on disk.            *)
(***************************************************************************)
SnapshotFresh ==
  \A c \in Calls :
    stage[c] \in {"loaded", "writing", "staged"} => snapshot[c] = Contents(c)

\* The calls whose append to conversation k of file f took effect.
AcknowledgedAppends(f, k) ==
  {c \in Calls : /\ FileOf[c] = f /\ outcome[c] = "ok"
                 /\ op[c].kind = "append" /\ op[c].conv = k}

(***************************************************************************)
(* A message whose append was acknowledged is in its conversation, until   *)
(* MaxMessages newer ones have pushed it out or the conversation is gone.  *)
(***************************************************************************)
AcknowledgedMessagesKept ==
  \A f \in Files : \A k \in DOMAIN disk[f] :
    LET appends == AcknowledgedAppends(f, k)
        ms      == disk[f][k].messages
    IN  \A c \in appends :
          \/ \E i \in DOMAIN ms : ms[i] = c
          \/ Cardinality({d \in appends : ticket[d] > ticket[c]}) >= MaxMessages

(***************************************************************************)
(* Messages of a conversation stand in the order in which the calls that   *)
(* append them were made, whatever the event loop did in between.          *)
(***************************************************************************)
MessagesInOrderOfCalls ==
  \A f \in Files : \A k \in DOMAIN disk[f] :
    LET ms == disk[f][k].messages IN
      \A i, j \in DOMAIN ms :
        i < j /\ ms[i] \in Calls => ms[j] \in Calls /\ ticket[ms[i]] < ticket[ms[j]]

(***************************************************************************)
(* Whatever fate a call met, the queue moves on: every call that arrived   *)
(* ends or dies with the process, one that throws included.                *)
(***************************************************************************)
EveryOperationEnds ==
  \A c \in Calls : pc[c] = "queued" ~> pc[c] \in {"done", "lost"}

-----------------------------------------------------------------------------
(***************************************************************************)
(* The inductive invariant: the body of a call runs under the lock, and    *)
(* the fate of a call is open until its body has decided it.               *)
(***************************************************************************)
BodyUnderLock ==
  \A c \in Calls :
    stage[c] \in {"begun", "loaded", "writing", "staged"} => pc[c] = "running"

LoadedIsWellFormed ==
  \A c \in Calls :
    stage[c] \in {"loaded", "writing", "staged"} => ~Malformed(op[c])

FoundBeforeWriting ==
  \A c \in Calls :
    stage[c] \in {"writing", "staged"} => ~NotFound(snapshot[c], op[c])

FateOpen ==
  \A c \in Calls :
    \/ stage[c] \in {"begun", "loaded", "writing", "staged"}
    \/ pc[c] \in {"idle", "queued"}
    => outcome[c] = "none"

StoreInv ==
  /\ LockInv /\ TypeOK
  /\ BodyUnderLock /\ LoadedIsWellFormed /\ FoundBeforeWriting
  /\ SnapshotFresh /\ FateOpen

(***************************************************************************)
(* The store implements the port: replacing the file is the instant at     *)
(* which the operation takes effect.                                       *)
(***************************************************************************)
Repository == INSTANCE ConversationRepository WITH store <- disk

ImplementsRepository == Repository!Spec
=============================================================================

------------------------------ MODULE FileLock ------------------------------
(***************************************************************************)
(* The in-process write lock of the JSON stores, withFileLock in           *)
(* lib/store.ts.  A call of withFileLock(file, run) makes a promise of its *)
(* own, its gate, leaves it in the map fileLocks for the next caller of    *)
(* the same file, waits for the gate it found there, runs, and opens its   *)
(* gate.  The map entry is deleted only by the call that is still its last *)
(* arrival.                                                                *)
(*                                                                         *)
(* A call stands for one invocation, so its gate is named by the call: the *)
(* gate of c is open exactly when c is "done".  The event loop interleaves *)
(* calls at their awaits only, hence one action per stretch of code        *)
(* between two awaits.                                                     *)
(***************************************************************************)
EXTENDS Naturals, FiniteSets

CONSTANTS
  Calls,    \* invocations of withFileLock
  Files,    \* store files, userStorePath(kind, userId)
  FileOf,   \* FileOf[c]: the file call c locks
  NoCall    \* "no gate": the map has no entry for the file

ASSUME FileLockAssumption ==
  /\ FileOf \in [Calls -> Files]
  /\ NoCall \notin Calls

VARIABLES
  pc,         \* pc[c]: where call c stands
  fileLocks,  \* the module-level map: the gate of the last arrival, per file
  previous,   \* previous[c]: the gate call c found in the map
  ticket,     \* history: ticket[c] is the rank of c's arrival, 0 before it
  arrivals    \* history: how many calls have arrived

lockVars == <<pc, fileLocks, previous, ticket, arrivals>>

States == {"idle", "queued", "running", "done", "lost"}

\* A call between its arrival and its end; "lost" calls died with the process.
Active(c) == pc[c] \in {"queued", "running"}

LockInit ==
  /\ pc = [c \in Calls |-> "idle"]
  /\ fileLocks = [f \in Files |-> NoCall]
  /\ previous = [c \in Calls |-> NoCall]
  /\ ticket = [c \in Calls |-> 0]
  /\ arrivals = 0

(***************************************************************************)
(* The synchronous prefix of withFileLock: read the map, put the own gate  *)
(* in it, suspend on the gate found.                                       *)
(***************************************************************************)
Enter(c) ==
  /\ pc[c] = "idle"
  /\ pc' = [pc EXCEPT ![c] = "queued"]
  /\ previous' = [previous EXCEPT ![c] = fileLocks[FileOf[c]]]
  /\ fileLocks' = [fileLocks EXCEPT ![FileOf[c]] = c]
  /\ arrivals' = arrivals + 1
  /\ ticket' = [ticket EXCEPT ![c] = arrivals + 1]

\* Mutants of GateOpen: a caller waits only for a body already running, or
\* forgets to await the gate it found.
GateOpenUnlessRunning(g) == g # NoCall => pc[g] # "running"
GateOpenAlways(g) == g = g

\* A missing map entry stands for an already resolved promise.
GateOpen(g) == g # NoCall => pc[g] = "done"

\* "await previous" resumes and run() begins.
Start(c) ==
  /\ pc[c] = "queued"
  /\ GateOpen(previous[c])
  /\ pc' = [pc EXCEPT ![c] = "running"]
  /\ UNCHANGED <<fileLocks, previous, ticket, arrivals>>

\* Mutant of Unlinked: the entry is deleted whoever put it there.
UnlinkedAlways(c) == [fileLocks EXCEPT ![FileOf[c]] = NoCall]

\* The map after call c leaves: its entry goes away only while it is c's own.
Unlinked(c) ==
  IF fileLocks[FileOf[c]] = c
  THEN [fileLocks EXCEPT ![FileOf[c]] = NoCall]
  ELSE fileLocks

\* run() returned or threw: the finally block opens the gate and tidies up.
Finish(c) ==
  /\ pc[c] = "running"
  /\ pc' = [pc EXCEPT ![c] = "done"]
  /\ fileLocks' = Unlinked(c)
  /\ UNCHANGED <<previous, ticket, arrivals>>

(***************************************************************************)
(* The process dies and is restarted: the map is module state of the new   *)
(* process, and the calls under way never continue.                        *)
(***************************************************************************)
Restart ==
  /\ \E c \in Calls : Active(c)
  /\ pc' = [c \in Calls |-> IF Active(c) THEN "lost" ELSE pc[c]]
  /\ fileLocks' = [f \in Files |-> NoCall]
  /\ UNCHANGED <<previous, ticket, arrivals>>

LockNext ==
  \/ \E c \in Calls : Enter(c) \/ Start(c) \/ Finish(c)
  \/ Restart

(***************************************************************************)
(* A queued call whose gate is open is resumed by the event loop, and run  *)
(* always settles: it does file I/O and, in the knowledge store, one       *)
(* gateway call with a timeout.                                            *)
(***************************************************************************)
LockFairness == \A c \in Calls : WF_lockVars(Start(c)) /\ WF_lockVars(Finish(c))

LockSpec == LockInit /\ [][LockNext]_lockVars /\ LockFairness

-----------------------------------------------------------------------------
\* Every variable has its type.
LockTypeOK ==
  /\ pc \in [Calls -> States]
  /\ fileLocks \in [Files -> Calls \cup {NoCall}]
  /\ previous \in [Calls -> Calls \cup {NoCall}]
  /\ ticket \in [Calls -> Nat]
  /\ arrivals \in Nat

(***************************************************************************)
(* The read-modify-write bodies of two calls on one file never overlap,    *)
(* which is what the comment above fileLocks asks of the lock.             *)
(***************************************************************************)
MutualExclusion ==
  \A c, d \in Calls :
    pc[c] = "running" /\ pc[d] = "running" /\ FileOf[c] = FileOf[d] => c = d

\* c arrived at its file before d did.
Before(c, d) ==
  FileOf[c] = FileOf[d] /\ ticket[c] # 0 /\ ticket[c] < ticket[d]

(***************************************************************************)
(* Calls are served in the order they were made: once a call runs, every   *)
(* call that reached the file before it has left.  Two messages appended   *)
(* one after the other are therefore stored in that order.                 *)
(***************************************************************************)
FirstComeFirstServed ==
  \A c, d \in Calls :
    Before(c, d) /\ pc[d] \in {"running", "done"} => ~Active(c)

(***************************************************************************)
(* The map does not leak: a file nobody uses has no entry, and a file in   *)
(* use has one, so that the next arrival queues behind it.                 *)
(***************************************************************************)
EntryIffInUse ==
  \A f \in Files :
    (fileLocks[f] # NoCall) <=> \E c \in Calls : FileOf[c] = f /\ Active(c)

(***************************************************************************)
(* What the stores rely on: read-modify-write bodies of one file exclude   *)
(* each other, run in the order of their calls, and leave no entry behind. *)
(***************************************************************************)
LockCorrect == MutualExclusion /\ FirstComeFirstServed /\ EntryIffInUse

-----------------------------------------------------------------------------
(***************************************************************************)
(* The inductive invariant.  The map holds the youngest call in use of     *)
(* each file, and the gate a waiting call found belongs to the youngest    *)
(* call before it that is still in use, if there is one.                   *)
(***************************************************************************)
TicketsInOrder ==
  /\ \A c \in Calls : ticket[c] <= arrivals /\ (ticket[c] = 0 <=> pc[c] = "idle")
  /\ \A c, d \in Calls : ticket[c] = ticket[d] /\ ticket[c] # 0 => c = d

MapHoldsYoungest ==
  \A f \in Files :
    LET g == fileLocks[f] IN
      /\ g # NoCall => FileOf[g] = f /\ Active(g)
      /\ \A c \in Calls :
           FileOf[c] = f /\ Active(c) => g # NoCall /\ ticket[c] <= ticket[g]

GateIsNextOlder ==
  \A c, d \in Calls :
    Active(d) /\ Before(c, d) /\ Active(c) =>
      /\ previous[d] # NoCall
      /\ ticket[c] <= ticket[previous[d]]

GateIsOlder ==
  \A d \in Calls :
    Active(d) /\ previous[d] # NoCall => Before(previous[d], d)

LockInv ==
  /\ LockTypeOK
  /\ TicketsInOrder
  /\ MapHoldsYoungest
  /\ GateIsOlder
  /\ GateIsNextOlder
  /\ FirstComeFirstServed

-----------------------------------------------------------------------------
(***************************************************************************)
(* The refinement mapping to SerialExecutor: the queue of a file is the    *)
(* calls on it that have arrived and not left, oldest first, so that the   *)
(* n-th is the one with n tickets up to its own.                           *)
(***************************************************************************)
InUse(f) == {c \in Calls : FileOf[c] = f /\ Active(c)}

PlaceIn(queue, c) == Cardinality({d \in queue : ticket[d] <= ticket[c]})

QueueOf(f) ==
  [n \in 1 .. Cardinality(InUse(f)) |-> CHOOSE c \in InUse(f) : PlaceIn(InUse(f), c) = n]

Served(f) == \E c \in Calls : FileOf[c] = f /\ pc[c] = "running"

Executor ==
  INSTANCE SerialExecutor WITH
    arrived <- {c \in Calls : pc[c] # "idle"},
    queue   <- [f \in Files |-> QueueOf(f)],
    serving <- [f \in Files |-> Served(f)]
=============================================================================

--------------------------- MODULE SerialExecutor ---------------------------
(***************************************************************************)
(* What withFileLock promises its callers, without promises or a map: each *)
(* file has a queue, the bodies of the calls in it are run one at a time   *)
(* and in order, and a restart of the process forgets the queues.          *)
(***************************************************************************)
EXTENDS Sequences

CONSTANTS Calls, Files, FileOf

VARIABLES
  arrived,  \* the calls made so far
  queue,    \* queue[f]: the calls on file f that have not left, oldest first
  serving   \* serving[f]: the body of the head of queue[f] is running

vars == <<arrived, queue, serving>>

Init ==
  /\ arrived = {}
  /\ queue = [f \in Files |-> <<>>]
  /\ serving = [f \in Files |-> FALSE]

Arrive(c) ==
  /\ c \notin arrived
  /\ arrived' = arrived \cup {c}
  /\ queue' = [queue EXCEPT ![FileOf[c]] = Append(@, c)]
  /\ UNCHANGED serving

Serve(f) ==
  /\ queue[f] # <<>>
  /\ ~serving[f]
  /\ serving' = [serving EXCEPT ![f] = TRUE]
  /\ UNCHANGED <<arrived, queue>>

Leave(f) ==
  /\ serving[f]
  /\ queue' = [queue EXCEPT ![f] = Tail(@)]
  /\ serving' = [serving EXCEPT ![f] = FALSE]
  /\ UNCHANGED arrived

Forget ==
  /\ queue' = [f \in Files |-> <<>>]
  /\ serving' = [f \in Files |-> FALSE]
  /\ UNCHANGED arrived

Next ==
  \/ \E c \in Calls : Arrive(c)
  \/ \E f \in Files : Serve(f) \/ Leave(f)
  \/ Forget

Spec ==
  /\ Init /\ [][Next]_vars
  /\ \A f \in Files : WF_vars(Serve(f)) /\ WF_vars(Leave(f))
=============================================================================

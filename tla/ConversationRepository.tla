----------------------- MODULE ConversationRepository -----------------------
(***************************************************************************)
(* What the port ConversationRepository promises: each call either takes   *)
(* effect on the user's conversations at one instant, or is refused        *)
(* because what it names is not there, or breaks without any effect.       *)
(***************************************************************************)
EXTENDS ConversationOps

CONSTANTS Calls, Files, FileOf, InitialStore, Workloads

VARIABLES
  op,       \* op[c]: the operation call c asks for; it never changes
  store,    \* store[f]: the conversations of one user
  outcome   \* outcome[c]: "none" until the fate of call c is settled

vars == <<op, store, outcome>>

Init ==
  /\ op \in Workloads
  /\ store = InitialStore
  /\ outcome = [c \in Calls |-> "none"]

Settle(c, fate) ==
  /\ outcome[c] = "none"
  /\ outcome' = [outcome EXCEPT ![c] = fate]
  /\ UNCHANGED op

Perform(c) ==
  /\ ~Malformed(op[c]) /\ ~NotFound(store[FileOf[c]], op[c])
  /\ store' = [store EXCEPT ![FileOf[c]] = Apply(@, op[c], c)]
  /\ Settle(c, "ok")

Refuse(c) ==
  /\ Malformed(op[c]) \/ NotFound(store[FileOf[c]], op[c])
  /\ Settle(c, "refused")
  /\ UNCHANGED store

Break(c) ==
  /\ Settle(c, "broken")
  /\ UNCHANGED store

Next == \E c \in Calls : Perform(c) \/ Refuse(c) \/ Break(c)

Spec == Init /\ [][Next]_vars
=============================================================================

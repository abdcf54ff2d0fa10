----------------------------- MODULE MCLiveness -----------------------------
(***************************************************************************)
(* What must happen in the end: the write lock serves every call, as the   *)
(* queue it implements does, every workflow run ends, and the browser      *)
(* stops waiting.  The first state says which component moves, and the     *)
(* others stand still.                                                     *)
(***************************************************************************)
EXTENDS FileLock, WorkflowRun, Account, PersonaDesk, GroupTurn, TLC

CONSTANTS
  Parts,                  \* the components to check
  c1, c2, c3, c4, f1, f2  \* calls and files of FileLock

VARIABLE part  \* the component that moves

\* What the constants of the components stand for.
MCCalls == {c1, c2, c3, c4}
MCFiles == {f1, f2}
\* Three calls compete for one file, a fourth uses another.
MCFileOf == [c \in MCCalls |-> IF c = c4 THEN f2 ELSE f1]
-----------------------------------------------------------------------------
MCInit ==
  /\ part \in Parts
  /\ LockInit
  /\ RunInit
  /\ AccountInit
  /\ DeskInit
  /\ GroupInit

\* All but the component that moves stand still.
Frame ==
  /\ UNCHANGED part
  /\ part # "lock" => UNCHANGED lockVars
  /\ part # "run" => UNCHANGED runVars
  /\ part # "account" => UNCHANGED accountVars
  /\ part # "desk" => UNCHANGED deskVars
  /\ part # "group" => UNCHANGED groupVars

LockMoves == part = "lock" /\ LockNext /\ Frame
RunMoves == part = "run" /\ RunNext /\ Frame
AccountMoves == part = "account" /\ AccountNext /\ Frame
DeskMoves == part = "desk" /\ DeskNext /\ Frame
GroupMoves == part = "group" /\ GroupNext /\ Frame

MCNext ==
  \/ LockMoves \/ RunMoves \/ AccountMoves \/ DeskMoves \/ GroupMoves

livenessVars ==
  <<part, lockVars, runVars, accountVars, deskVars, groupVars>>

\* The fairness of each component, while it is the one that moves.
MCFairness ==
  /\ \A c \in Calls : WF_lockVars(part = "lock" /\ Start(c)) /\ WF_lockVars(part = "lock" /\ Finish(c))
  /\ WF_runVars(part = "run" /\ RunGoesOn)
  /\ \A c \in AccountCalls : /\ WF_accountVars(part = "account" /\ Serve(c))
                             /\ WF_accountVars(part = "account" /\ Receive(c))
  /\ WF_accountVars(part = "account" /\ DiscoverySettles)
  /\ WF_deskVars(part = "desk" /\ DeskHandle)
  /\ WF_groupVars(part = "group" /\ RoundStep)

MCSpec == MCInit /\ [][MCNext]_livenessVars /\ MCFairness
-----------------------------------------------------------------------------
(***************************************************************************)
(* The promise chain of withFileLock implements a queue per file: every    *)
(* step of the lock is a step of SerialExecutor or changes nothing in it,  *)
(* and a queue that is not empty keeps moving.                             *)
(***************************************************************************)
ImplementsSerialExecutor == Executor!Spec
=============================================================================

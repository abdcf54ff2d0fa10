----------------------------- MODULE MCBrowser -----------------------------
(***************************************************************************)
(* The components of the browser that are checked one at a time, as one    *)
(* state machine: the first state says which component moves, and the      *)
(* others stand still.                                                     *)
(***************************************************************************)
EXTENDS Account, PersonaCards, PersonaDesk, GroupTurn, TLC

CONSTANT Parts  \* the components to check

VARIABLE part  \* the component that moves

\* What the constants of the components stand for: the two tables of limits,
\* written twice as in the code.
MCLimit == [name |-> 3, description |-> 6, firstMessage |-> 9, style |-> 3, world |-> 6, faction |-> 3, tags |-> 2, tag |-> 2]
MCCardLimit == [name |-> 3, description |-> 6, firstMessage |-> 9, style |-> 3, world |-> 6, faction |-> 3, tags |-> 2, tag |-> 2]
MCTags == {<<>>, <<"a">>, <<"a", "a", "a">>}

\* The speakers of a group differ in nothing but their name.
MCSymmetry == Permutations(Voices)
-----------------------------------------------------------------------------
MCInit ==
  /\ part \in Parts
  /\ AccountInit
  /\ CardInit
  /\ DeskInit
  /\ GroupInit

\* All but the component that moves stand still.
Frame ==
  /\ UNCHANGED part
  /\ part # "account" => UNCHANGED accountVars
  /\ part # "cards" => UNCHANGED cardVars
  /\ part # "desk" => UNCHANGED deskVars
  /\ part # "group" => UNCHANGED groupVars

AccountMoves == part = "account" /\ AccountNext /\ Frame
CardMoves == part = "cards" /\ CardNext /\ Frame
DeskMoves == part = "desk" /\ DeskNext /\ Frame
GroupMoves == part = "group" /\ GroupNext /\ Frame

MCNext ==
  \/ AccountMoves \/ CardMoves \/ DeskMoves \/ GroupMoves

browserVars ==
  <<part, accountVars, cardVars, deskVars, groupVars>>

MCSpec == MCInit /\ [][MCNext]_browserVars
=============================================================================

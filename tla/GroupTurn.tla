------------------------------ MODULE GroupTurn ------------------------------
(***************************************************************************)
(* Group conversations in one tab: the opening (runGroupOpening) and the   *)
(* turns (submit and runGroupTurn of hooks/use-conversation-state.ts),     *)
(* whose speakers are scheduled by one call and then answer all at once,   *)
(* while the user stops, opens another conversation, deletes one or is     *)
(* logged out.  Round 0 is the opening; texts are left out but for whether *)
(* a bubble is still empty.                                                *)
(***************************************************************************)
EXTENDS Naturals, Sequences, FiniteSets

CONSTANTS
  Groups,        \* the group conversations, all of one cast
  NewGroup,      \* the one that has just been made, and opens
  Voices,        \* the cast
  MaxTurns,      \* bound: questions asked
  MaxGroupMoves  \* bound: conversations opened and deleted

ASSUME GroupAssumption == NewGroup \in Groups /\ {MaxTurns, MaxGroupMoves} \subseteq Nat

VARIABLES
  groupFile,   \* the stored messages of each conversation, or that it is gone
  groupTab,    \* what the hook holds
  groupRound,  \* the rounds
  groupVoice,  \* what each speaker of a round has come to
  groupMove,   \* a conversation being opened or deleted
  groupMoves
groupVars == <<groupFile, groupTab, groupRound, groupVoice, groupMove, groupMoves>>

Rounds == 0 .. MaxTurns
Nowhere == "nowhere"
You == "you"
GroupMessage(t, by) == [round |-> t, by |-> by]
Bubble(t, by, full) == [round |-> t, by |-> by, full |-> full]
NoMove == [what |-> "none", id |-> Nowhere, read |-> {}, seen |-> FALSE]

GroupInit ==
  /\ groupFile = [g \in Groups |-> [kept |-> TRUE, messages |-> <<>>]]
  /\ groupTab = [at |-> NewGroup, shown |-> {}, pending |-> FALSE, abort |-> 0, loggedIn |-> TRUE]
  /\ groupRound = [t \in Rounds |-> [phase |-> IF t = 0 THEN "scheduling" ELSE "idle",
                                     at |-> IF t = 0 THEN NewGroup ELSE Nowhere,
                                     stopped |-> FALSE, refused |-> FALSE]]
  /\ groupVoice = [t \in Rounds |-> [v \in Voices |-> "none"]]
  /\ groupMove = NoMove
  /\ groupMoves = 0

-----------------------------------------------------------------------------
(* Pieces of the handlers. *)

\* The controller in abortRef, if there is one; the opening has none.
AbortedBy(tab, rounds) == IF tab.abort = 0 THEN rounds ELSE [rounds EXCEPT ![tab.abort].stopped = TRUE]

\* handleSessionExpired and the effect that follows it.
LoggedOut(tab) == [tab EXCEPT !.at = Nowhere, !.shown = {}, !.pending = FALSE, !.loggedIn = FALSE]

\* Mutant of LeftTurn: only a turn that succeeded unlocks the composer.
LeftTurnOnSuccess(tab, t, ok) ==
  IF t > 0 /\ ok THEN [tab EXCEPT !.pending = FALSE, !.abort = IF @ = t THEN 0 ELSE @] ELSE tab

\* The finally of submit, whose abortRef may be another's by now.
LeftTurn(tab, t, ok) == IF t > 0 THEN [tab EXCEPT !.pending = FALSE, !.abort = IF @ = t THEN 0 ELSE @] ELSE tab

\* A call of a round that fails, with a 401 perhaps: the round is over.
FailGroupRound(t) ==
  \E expired \in BOOLEAN :
    /\ groupTab' = LeftTurn(IF expired THEN LoggedOut(groupTab) ELSE groupTab, t, FALSE)
    /\ groupRound' = [(IF expired THEN AbortedBy(groupTab, groupRound) ELSE groupRound) EXCEPT ![t].phase = "over"]

\* Mutant of Kept: the reply goes to the conversation on screen.
KeptOnScreen(t) == IF groupTab.at = Nowhere THEN groupRound[t].at ELSE groupTab.at

\* The conversation the round was begun in.
Kept(t) == groupRound[t].at

WithMessage(g, message) == [groupFile EXCEPT ![g].messages = Append(@, message)]

-----------------------------------------------------------------------------
(* A round. *)

\* The request holds what is on screen; the route refuses an empty message.
AskGroup(t) ==
  /\ groupTab.loggedIn /\ ~groupTab.pending /\ groupTab.at # Nowhere
  /\ groupRound[t].phase = "idle" /\ \A u \in 1 .. t - 1 : groupRound[u].phase # "idle"
  /\ groupRound' = [groupRound EXCEPT ![t] = [phase |-> "saving", at |-> groupTab.at, stopped |-> FALSE,
                                              refused |-> \E b \in groupTab.shown : ~b.full]]
  /\ groupTab' = [groupTab EXCEPT !.shown = @ \cup {Bubble(t, You, TRUE)}, !.pending = TRUE, !.abort = t]
  /\ UNCHANGED <<groupFile, groupVoice, groupMove, groupMoves>>

\* The append has no signal; a request whose signal is aborted is not sent.
SaveGroupQuestion(t) ==
  /\ groupRound[t].phase = "saving" /\ groupFile[groupRound[t].at].kept
  /\ groupFile' = WithMessage(groupRound[t].at, GroupMessage(t, You))
  /\ groupRound' = [groupRound EXCEPT ![t].phase = "scheduling"]
  /\ UNCHANGED <<groupTab, groupVoice, groupMove, groupMoves>>

SaveGroupQuestionFails(t) ==
  /\ groupRound[t].phase = "saving"
  /\ FailGroupRound(t)
  /\ UNCHANGED <<groupFile, groupVoice, groupMove, groupMoves>>

\* The bubbles join whatever conversation is on screen by then.
ScheduleArrives(t) ==
  /\ groupRound[t].phase = "scheduling" /\ ~groupRound[t].refused /\ ~groupRound[t].stopped
  /\ \E chosen \in SUBSET Voices \ {{}} :
       /\ groupTab' = [groupTab EXCEPT !.shown = @ \cup {Bubble(t, v, FALSE) : v \in chosen}]
       /\ groupVoice' = [groupVoice EXCEPT ![t] = [v \in Voices |-> IF v \in chosen THEN "silent" ELSE "none"]]
  /\ groupRound' = [groupRound EXCEPT ![t].phase = "speaking"]
  /\ UNCHANGED <<groupFile, groupMove, groupMoves>>

ScheduleFails(t) ==
  /\ groupRound[t].phase = "scheduling"
  /\ FailGroupRound(t)
  /\ UNCHANGED <<groupFile, groupVoice, groupMove, groupMoves>>

Says(t, v, state) == groupVoice' = [groupVoice EXCEPT ![t][v] = state]
StillStreams(t, v) == groupVoice[t][v] \in {"silent", "talking"}
Without(tab, t, v) == [tab EXCEPT !.shown = @ \ {Bubble(t, v, TRUE), Bubble(t, v, FALSE)}]

\* The first text that passes the prefix filter fills the bubble, if it is
\* still on screen.
VoiceDelta(t, v) ==
  /\ groupVoice[t][v] = "silent" /\ ~groupRound[t].stopped
  /\ Says(t, v, "talking")
  /\ groupTab' = IF Bubble(t, v, FALSE) \in groupTab.shown
                 THEN [Without(groupTab, t, v) EXCEPT !.shown = @ \cup {Bubble(t, v, TRUE)}] ELSE groupTab
  /\ UNCHANGED <<groupFile, groupRound, groupMove, groupMoves>>

\* A reply to keep, one that speaks for the others, or nothing at all, which
\* is an error in a turn and passed over in the opening.
VoiceEnds(t, v) ==
  /\ StillStreams(t, v) /\ ~groupRound[t].stopped
  /\ \/ groupVoice[t][v] = "silent" /\ Says(t, v, IF t = 0 THEN "over" ELSE "failed") /\ UNCHANGED groupTab
     \/ groupVoice[t][v] = "talking" /\ Says(t, v, "keeping") /\ UNCHANGED groupTab
     \/ groupVoice[t][v] = "talking" /\ Says(t, v, "over") /\ groupTab' = Without(groupTab, t, v)
  /\ UNCHANGED <<groupFile, groupRound, groupMove, groupMoves>>

\* The request or its stream breaks, is stopped, or meets a 401; the reply is
\* not kept then.
VoiceBreaks(t, v) ==
  /\ StillStreams(t, v)
  /\ Says(t, v, IF t = 0 THEN "over" ELSE "failed")
  /\ \/ UNCHANGED <<groupTab, groupRound>>
     \/ groupTab' = LoggedOut(groupTab) /\ groupRound' = AbortedBy(groupTab, groupRound)
  /\ UNCHANGED <<groupFile, groupMove, groupMoves>>

KeepReply(t, v) ==
  /\ groupVoice[t][v] = "keeping" /\ groupFile[Kept(t)].kept
  /\ groupFile' = WithMessage(Kept(t), GroupMessage(t, v))
  /\ Says(t, v, "over")
  /\ UNCHANGED <<groupTab, groupRound, groupMove, groupMoves>>

KeepReplyFails(t, v) ==
  /\ groupVoice[t][v] = "keeping"
  /\ Says(t, v, IF t = 0 THEN "over" ELSE "failed")
  /\ \/ UNCHANGED <<groupTab, groupRound>>
     \/ t > 0 /\ groupTab' = LoggedOut(groupTab) /\ groupRound' = AbortedBy(groupTab, groupRound)
  /\ UNCHANGED <<groupFile, groupMove, groupMoves>>

FailedVoices(t) == {v \in Voices : groupVoice[t][v] = "failed"}

\* Mutant of Cleaned: the empty bubbles go when nobody has answered.
CleanedWhenAllFailed(t) ==
  IF \A v \in Voices : groupVoice[t][v] \in {"none", "failed"}
  THEN [groupTab EXCEPT !.shown = {b \in @ : b.round # t \/ b.full}] ELSE groupTab

\* After one failure all empty bubbles of the turn go.
Cleaned(t) ==
  IF FailedVoices(t) # {} THEN [groupTab EXCEPT !.shown = {b \in @ : b.round # t \/ b.full}] ELSE groupTab

\* Promise.allSettled: the round goes on when every speaker has ended.
AllSettled(t) ==
  /\ groupRound[t].phase = "speaking"
  /\ \A v \in Voices : groupVoice[t][v] \in {"none", "over", "failed"}
  /\ IF FailedVoices(t) # {}
     THEN groupTab' = LeftTurn(Cleaned(t), t, FALSE) /\ groupRound' = [groupRound EXCEPT ![t].phase = "over"]
     ELSE groupTab' = Cleaned(t) /\ groupRound' = [groupRound EXCEPT ![t].phase = "reloading"]
  /\ UNCHANGED <<groupFile, groupVoice, groupMove, groupMoves>>

\* The balance and the list; only a 401 of theirs has a consequence.
GroupReloaded(t) ==
  /\ groupRound[t].phase = "reloading"
  /\ \E expired \in BOOLEAN :
       /\ groupTab' = LeftTurn(IF expired THEN LoggedOut(groupTab) ELSE groupTab, t, TRUE)
       /\ groupRound' = [(IF expired THEN AbortedBy(groupTab, groupRound) ELSE groupRound) EXCEPT ![t].phase = "over"]
  /\ UNCHANGED <<groupFile, groupVoice, groupMove, groupMoves>>

-----------------------------------------------------------------------------
(* The user. *)

StopGroup ==
  /\ groupTab.pending /\ groupTab.abort # 0
  /\ groupRound' = AbortedBy(groupTab, groupRound)
  /\ groupRound' # groupRound
  /\ UNCHANGED <<groupFile, groupTab, groupVoice, groupMove, groupMoves>>

Moves == groupTab.loggedIn /\ groupMoves < MaxGroupMoves /\ groupMove = NoMove /\ groupMoves' = groupMoves + 1

OpenGroup(g) ==
  /\ Moves
  /\ groupMove' = [NoMove EXCEPT !.what = "open", !.id = g]
  /\ groupRound' = AbortedBy(groupTab, groupRound)
  /\ UNCHANGED <<groupFile, groupTab, groupVoice>>

ReadGroup ==
  /\ groupMove.what = "open"
  /\ \/ /\ groupFile[groupMove.id].kept
        /\ groupMove' = [groupMove EXCEPT !.what = "show",
             !.read = {Bubble(m.round, m.by, TRUE) : m \in {groupFile[groupMove.id].messages[i] :
                                                            i \in DOMAIN groupFile[groupMove.id].messages}}]
     \/ groupMove' = NoMove
  /\ UNCHANGED <<groupFile, groupTab, groupRound, groupVoice, groupMoves>>

ShowGroup ==
  /\ groupMove.what = "show"
  /\ groupTab' = [groupTab EXCEPT !.at = groupMove.id, !.shown = groupMove.read]
  /\ groupMove' = NoMove
  /\ UNCHANGED <<groupFile, groupRound, groupVoice, groupMoves>>

\* Whether it is the conversation on screen is asked of the click's render.
DeleteGroup(g) ==
  /\ Moves
  /\ groupFile[g].kept
  /\ groupMove' = [NoMove EXCEPT !.what = "delete", !.id = g, !.seen = groupTab.at = g]
  /\ UNCHANGED <<groupFile, groupTab, groupRound, groupVoice>>

\* Nothing is aborted: a turn of the deleted conversation goes on.
GroupDeleted ==
  /\ groupMove.what = "delete"
  /\ \/ /\ groupFile' = [groupFile EXCEPT ![groupMove.id] = [kept |-> FALSE, messages |-> <<>>]]
        /\ groupTab' = IF groupMove.seen THEN [groupTab EXCEPT !.at = Nowhere, !.shown = {}] ELSE groupTab
     \/ UNCHANGED <<groupFile, groupTab>>
  /\ groupMove' = NoMove
  /\ UNCHANGED <<groupRound, groupVoice, groupMoves>>

-----------------------------------------------------------------------------
RoundStep ==
  \E t \in Rounds :
    \/ SaveGroupQuestion(t) \/ SaveGroupQuestionFails(t)
    \/ ScheduleArrives(t) \/ ScheduleFails(t) \/ AllSettled(t) \/ GroupReloaded(t)
    \/ \E v \in Voices : VoiceEnds(t, v) \/ VoiceBreaks(t, v) \/ KeepReply(t, v) \/ KeepReplyFails(t, v)

GroupNext ==
  \/ \E t \in 1 .. MaxTurns : AskGroup(t)
  \/ \E t \in Rounds, v \in Voices : VoiceDelta(t, v)
  \/ RoundStep
  \/ StopGroup
  \/ \E g \in Groups : OpenGroup(g) \/ DeleteGroup(g)
  \/ ReadGroup \/ ShowGroup \/ GroupDeleted

\* The routes answer, or are cut off by their own time-outs.
GroupSpec == GroupInit /\ [][GroupNext]_groupVars /\ WF_groupVars(RoundStep)

-----------------------------------------------------------------------------
(* What is checked. *)

(***************************************************************************)
(* What is stored belongs together: a reply is in the conversation its     *)
(* question was asked in, after the question, whatever has been opened,    *)
(* stopped or deleted while the speakers were answering.                   *)
(***************************************************************************)
RepliesFollowQuestions ==
  \A g \in Groups : \A i \in DOMAIN groupFile[g].messages :
    LET m == groupFile[g].messages[i]
    IN  /\ groupRound[m.round].at = g
        /\ m.by # You /\ m.round > 0 => \E j \in 1 .. i - 1 : groupFile[g].messages[j] = GroupMessage(m.round, You)

(***************************************************************************)
(* A turn that is over, however it ended, leaves no empty bubble on        *)
(* screen: the next request would carry it and be refused.                 *)
(***************************************************************************)
NoEmptyBubbleLeft ==
  \A b \in groupTab.shown : b.round > 0 /\ ~b.full => groupRound[b.round].phase = "speaking"

\* The composer is unlocked again, whichever of the speakers fail.
GroupComposerUnlocked == groupTab.pending ~> ~groupTab.pending
=============================================================================

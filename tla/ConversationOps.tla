--------------------------- MODULE ConversationOps ---------------------------
(***************************************************************************)
(* The conversations of one user as a value, and what the operations of    *)
(* lib/conversations.ts do to it.  A store maps conversation ids to        *)
(* conversations; a message is named by the call that appends it, and a    *)
(* title by where it comes from.  Message texts, personas, worlds and time *)
(* stamps are left out; archived goes the way of pinned.                   *)
(***************************************************************************)
EXTENDS Naturals, Sequences

CONSTANTS
  Convs,        \* conversation ids
  Messages,     \* messages: the calls that append them, and some stored before
  MaxMessages   \* MAX_MESSAGES_PER_CONVERSATION

ASSUME MaxMessagesAssumption == MaxMessages \in Nat \ {0}

Modes == {"chat", "roleplay", "group"}

\* "new": DEFAULT_TITLE; "cast": the name of the persona or of the cast;
\* a message: the title derived from it, or set by the call of that name.
Titles == {"new", "cast"} \cup Messages

Conversation ==
  [mode : Modes, title : Titles, pinned : BOOLEAN, messages : Seq(Messages)]

IsStore(s) == DOMAIN s \subseteq Convs /\ s \in [DOMAIN s -> Conversation]

(***************************************************************************)
(* Operations.  "valid" is the outcome of createConversation's checks of   *)
(* persona, cast, director, world and user role; "title" and "pinned" are  *)
(* the optional fields of a patch.  Calls that appendMessage and           *)
(* updateConversation refuse before they take the lock do nothing at all.  *)
(***************************************************************************)
CreateOps == [kind : {"create"}, conv : Convs, mode : Modes, valid : BOOLEAN]
AppendOps == [kind : {"append"}, conv : Convs, role : {"user", "assistant"}]
UpdateOps ==
  [kind : {"update"}, conv : Convs, title : BOOLEAN, pinned : {"keep", "on", "off"}]
DeleteOps == [kind : {"delete"}, conv : Convs]

Ops == CreateOps \cup AppendOps \cup UpdateOps \cup DeleteOps

\* createConversation checks its options before it reads the store.
Malformed(o) == o.kind = "create" /\ ~o.valid

\* Everything but create looks the conversation up and throws without it.
NotFound(store, o) == o.kind # "create" /\ o.conv \notin DOMAIN store

NewConversation(o) ==
  [mode     |-> o.mode,
   title    |-> IF o.mode = "chat" THEN "new" ELSE "cast",
   pinned   |-> FALSE,
   messages |-> <<>>]

\* Mutant of Capped: the cap keeps one message too few.
CappedTooShort(s) ==
  IF Len(s) >= MaxMessages THEN SubSeq(s, Len(s) - MaxMessages + 2, Len(s)) ELSE s

\* push, then splice away the oldest messages over the cap.
Capped(s) ==
  IF Len(s) > MaxMessages THEN SubSeq(s, Len(s) - MaxMessages + 1, Len(s)) ELSE s

\* Call m appends its message; the first user message names a new conversation.
Appended(conversation, o, m) ==
  [conversation EXCEPT
     !.messages = Capped(Append(@, m)),
     !.title    = IF o.role = "user" /\ @ = "new" THEN m ELSE @]

Patched(conversation, o, m) ==
  [conversation EXCEPT
     !.title  = IF o.title THEN m ELSE @,
     !.pinned = IF o.pinned = "keep" THEN @ ELSE o.pinned = "on"]

\* The store after call m has done operation o to it.
Apply(store, o, m) ==
  CASE o.kind = "create" ->
         [k \in DOMAIN store \cup {o.conv} |->
            IF k = o.conv THEN NewConversation(o) ELSE store[k]]
    [] o.kind = "append" -> [store EXCEPT ![o.conv] = Appended(@, o, m)]
    [] o.kind = "update" -> [store EXCEPT ![o.conv] = Patched(@, o, m)]
    [] o.kind = "delete" -> [k \in DOMAIN store \ {o.conv} |-> store[k]]
=============================================================================

---------------------------- MODULE PersonaDesk ----------------------------
(***************************************************************************)
(* The library pages of one tab (hooks/use-persona-state.ts and            *)
(* hooks/use-world-state.ts over their actions and routes) and the stores  *)
(* of one user behind them: personas, favourites, worlds and knowledge     *)
(* documents.  A handler runs under its store's lock, so it is one step;   *)
(* its call may be served late, fail, or lose its answer.  Texts, and      *)
(* which of two edits a stored card holds, are left out.                   *)
(***************************************************************************)
EXTENDS Naturals, FiniteSets

CONSTANTS
  FirstPersonas, \* the library's personas when the page is opened
  MaxPersonas,   \* the personas there can be, numbered from 1
  MaxWorlds,
  MaxDocs,       \* the documents that can be made
  DeskCalls,     \* slots for calls in flight: 1, 2, ...
  MaxClicks,     \* bound: what the user does
  MaxDeskFaults  \* bound: calls that fail, or lose their answer

ASSUME DeskAssumption ==
  /\ 1 \in FirstPersonas /\ FirstPersonas \subseteq 1 .. MaxPersonas
  /\ {MaxPersonas, MaxWorlds, MaxDocs, MaxClicks, MaxDeskFaults} \subseteq Nat
  /\ DeskCalls \subseteq Nat

VARIABLES
  deskStore,    \* what the files hold
  deskTab,      \* what the hooks hold
  deskCall,     \* calls in flight
  deskClicks,
  deskFaults
deskVars == <<deskStore, deskTab, deskCall, deskClicks, deskFaults>>

PersonaIds == 1 .. MaxPersonas
UserScope == 0   \* "user", the scope of the user's own documents
Documents == 1 .. MaxDocs
Closed == 0
DeskIdle == [op |-> "none", id |-> 0, ids |-> {}, busy |-> "none", left |-> 0, stage |-> "idle"]

\* Persona 1 is a favourite and has a document; the boot's loads are not
\* yet sent.
DeskInit ==
  /\ deskStore = [personas |-> FirstPersonas, born |-> FirstPersonas, favorites |-> {1}, worlds |-> {}, worldsBorn |-> {},
                  docs |-> [d \in Documents |-> IF d = 1 THEN "kept" ELSE "fresh"],
                  of |-> [d \in Documents |-> IF d = 1 THEN 1 ELSE UserScope]]
  /\ deskTab = [boot |-> {"listPersonas", "getFavorites"}, personas |-> {},
                favorites |-> {}, worlds |-> {}, detail |-> Closed, knowledge |-> {}, userKnowledge |-> {},
                busy |-> {}, deleted |-> {}]
  /\ deskCall = [c \in DeskCalls |-> DeskIdle]
  /\ deskClicks = 0
  /\ deskFaults = 0

---------------------------------------------------------------------------
(* The routes and the libraries behind them. *)

Ok(s, c) == [store |-> s, call |-> [c EXCEPT !.stage = "ok"]]
OkIds(s, c, ids) == [store |-> s, call |-> [c EXCEPT !.stage = "ok", !.ids = ids]]
Refusal(s, c) == [store |-> s, call |-> [c EXCEPT !.stage = "failed"]]
DocsOf(s, scope) == {d \in Documents : s.docs[d] = "kept" /\ s.of[d] = scope}
NextOf(pool, born) == CHOOSE n \in pool \ born : \A k \in pool \ born : n <= k

CreatePersona(s, c) ==
  IF PersonaIds \subseteq s.born THEN Refusal(s, c)
  ELSE LET n == NextOf(PersonaIds, s.born)
       IN Ok([s EXCEPT !.personas = @ \cup {n}, !.born = @ \cup {n}], [c EXCEPT !.id = n])

UpdatePersona(s, c) == IF c.id \in s.personas THEN Ok(s, c) ELSE Refusal(s, c)

DeletePersona(s, c) ==
  IF c.id \in s.personas THEN Ok([s EXCEPT !.personas = @ \ {c.id}], c) ELSE Refusal(s, c)

SetFavoritePersonas(s, c) == Ok([s EXCEPT !.favorites = c.ids], c)

\* The route does not ask whether the persona exists.
AddDocument(s, c) ==
  LET fresh == {d \in Documents : s.docs[d] = "fresh"}
      n == NextOf(Documents, Documents \ fresh)
  IN IF fresh = {} THEN Refusal(s, c)
     ELSE Ok([s EXCEPT !.docs[n] = "kept", !.of[n] = c.id], c)

DeleteDocument(s, c) ==
  Ok([s EXCEPT !.docs = [d \in Documents |-> IF d \in c.ids \cap DocsOf(s, c.id) THEN "gone" ELSE @[d]]], c)
DeleteScope(s, c) ==
  Ok([s EXCEPT !.docs = [d \in Documents |-> IF d \in DocsOf(s, c.id) THEN "gone" ELSE @[d]]], c)

CreateWorld(s, c) ==
  IF 1 .. MaxWorlds \subseteq s.worldsBorn THEN Refusal(s, c)
  ELSE LET n == NextOf(1 .. MaxWorlds, s.worldsBorn)
       IN Ok([s EXCEPT !.worlds = @ \cup {n}, !.worldsBorn = @ \cup {n}], [c EXCEPT !.id = n])
UpdateWorld(s, c) == IF c.id \in s.worlds THEN Ok(s, c) ELSE Refusal(s, c)
DeleteWorld(s, c) == IF c.id \in s.worlds THEN Ok([s EXCEPT !.worlds = @ \ {c.id}], c) ELSE Refusal(s, c)

\* One operator per route file: which handler answers which call.
PersonasRoute(s, c) == IF c.op = "listPersonas" THEN OkIds(s, c, s.personas) ELSE CreatePersona(s, c)
PersonaRoute(s, c) == IF c.op = "updatePersona" THEN UpdatePersona(s, c) ELSE DeletePersona(s, c)
PreferencesRoute(s, c) == IF c.op = "getFavorites" THEN OkIds(s, c, s.favorites) ELSE SetFavoritePersonas(s, c)
WorldsRoute(s, c) == IF c.op = "listWorlds" THEN OkIds(s, c, s.worlds) ELSE CreateWorld(s, c)
WorldRoute(s, c) == IF c.op = "updateWorld" THEN UpdateWorld(s, c) ELSE DeleteWorld(s, c)
UserKnowledgeRoute(s, c) == IF c.op = "getUserKnowledge" THEN OkIds(s, c, DocsOf(s, UserScope)) ELSE AddDocument(s, c)
KnowledgeRoute(s, c) ==
  CASE c.op = "getKnowledge" -> OkIds(s, c, DocsOf(s, c.id))
    [] c.op = "addKnowledge" -> AddDocument(s, c)
    [] c.op = "deleteKnowledge" -> DeleteScope(s, c)

\* The calls of lib/*-actions.ts.
PersonaOps == {"updatePersona", "deletePersona"}
PersonasOps == {"listPersonas", "createPersona", "duplicatePersona", "importCard"}
PreferenceOps == {"getFavorites", "setFavorites"}
WorldOps == {"updateWorld", "deleteWorld"}
WorldsOps == {"listWorlds", "createWorld"}
UserKnowledgeOps == {"getUserKnowledge", "addUserKnowledge"}
ScopeOps == {"getKnowledge", "addKnowledge", "deleteKnowledge"}
DocumentOps == {"deleteDocument", "deleteUserDocument"}

Answered(s, c) ==
  CASE c.op \in PersonasOps -> PersonasRoute(s, c)
    [] c.op \in PersonaOps -> PersonaRoute(s, c)
    [] c.op \in PreferenceOps -> PreferencesRoute(s, c)
    [] c.op \in WorldsOps -> WorldsRoute(s, c)
    [] c.op \in WorldOps -> WorldRoute(s, c)
    [] c.op \in UserKnowledgeOps -> UserKnowledgeRoute(s, c)
    [] c.op \in ScopeOps -> KnowledgeRoute(s, c)
    [] c.op \in DocumentOps -> DeleteDocument(s, c)

---------------------------------------------------------------------------
(* The hooks. *)

Call(op, id) == [DeskIdle EXCEPT !.op = op, !.id = id, !.stage = "sent"]
FirstIdle(c) == deskCall[c] = DeskIdle /\ \A d \in DeskCalls : d < c => deskCall[d] # DeskIdle
Toggled(favorites, p) == IF p \in favorites THEN favorites \ {p} ELSE favorites \cup {p}

\* What a click does to the tab before it waits.
Click(c, tab) ==
  /\ deskClicks < MaxClicks
  /\ deskTab' = tab
  /\ \E n \in DeskCalls : FirstIdle(n) /\ deskCall' = [deskCall EXCEPT ![n] = c]
  /\ deskClicks' = deskClicks + 1
  /\ UNCHANGED <<deskStore, deskFaults>>

\* The loads the page starts with, sent in any order and served at any time.
\* (Worlds and user documents are loaded by their clicks, too.)
BootLoad(op) ==
  /\ op \in deskTab.boot
  /\ \E n \in DeskCalls : FirstIdle(n) /\ deskCall' = [deskCall EXCEPT ![n] = Call(op, UserScope)]
  /\ deskTab' = [deskTab EXCEPT !.boot = @ \ {op}]
  /\ UNCHANGED <<deskStore, deskClicks, deskFaults>>

\* The list the tab shows is sent, not the change.
ToggleFavorite(p) ==
  LET next == Toggled(deskTab.favorites, p)
  IN Click([Call("setFavorites", p) EXCEPT !.ids = next], [deskTab EXCEPT !.favorites = next])

OpenPersonaDetail(p) == Click(Call("getKnowledge", p), [deskTab EXCEPT !.detail = p])
OpenUserKnowledgeDrawer == Click(Call("getUserKnowledge", UserScope), deskTab)

AddUserKnowledge ==
  Click([Call("addUserKnowledge", UserScope) EXCEPT !.busy = "user"], [deskTab EXCEPT !.busy = @ \cup {"user"}])
DeleteUserKnowledgeDocument(d) == Click([Call("deleteUserDocument", UserScope) EXCEPT !.ids = {d}], deskTab)

\* left: uploadInitialKnowledge has a file and a text, one after the other.
AddKnowledge(p, left) ==
  Click([Call("addKnowledge", p) EXCEPT !.busy = "persona", !.left = left], [deskTab EXCEPT !.busy = @ \cup {"persona"}])

\* The documents are those shown, the persona the one that is open.
DeleteKnowledgeDocument(d) == Click([Call("deleteDocument", deskTab.detail) EXCEPT !.ids = {d}], deskTab)

SavePersonaEdit(p) == Click(Call("updatePersona", p), deskTab)
CreateLibraryPersona == Click(Call("createPersona", UserScope), deskTab)
DuplicatePersona == Click(Call("duplicatePersona", UserScope), deskTab)
ImportCard == Click(Call("importCard", UserScope), deskTab)
DeleteLibraryPersona(p) == Click(Call("deletePersona", p), deskTab)
SaveWorld == Click(Call("createWorld", UserScope), deskTab)
EditWorld(w) == Click(Call("updateWorld", w), deskTab)
RemoveWorld(w) == Click(Call("deleteWorld", w), deskTab)

Clicks ==
  \/ \E p \in deskTab.personas : ToggleFavorite(p) \/ OpenPersonaDetail(p) \/ SavePersonaEdit(p) \/ DeleteLibraryPersona(p)
  \/ \E p \in deskTab.personas, left \in 0 .. 1 : AddKnowledge(p, left)
  \/ \E d \in deskTab.knowledge : deskTab.detail # Closed /\ DeleteKnowledgeDocument(d)
  \/ \E d \in deskTab.userKnowledge : DeleteUserKnowledgeDocument(d)
  \/ \E w \in deskTab.worlds : EditWorld(w) \/ RemoveWorld(w)
  \/ CreateLibraryPersona \/ DuplicatePersona \/ ImportCard
  \/ AddUserKnowledge \/ OpenUserKnowledgeDrawer \/ SaveWorld

\* What a success shows.
Shown(t, c) ==
  CASE c.op = "listPersonas" -> [t EXCEPT !.personas = c.ids]
    [] c.op = "getFavorites" -> [t EXCEPT !.favorites = c.ids]
    [] c.op = "listWorlds" -> [t EXCEPT !.worlds = c.ids]
    [] c.op = "getKnowledge" -> [t EXCEPT !.knowledge = c.ids]
    [] c.op = "getUserKnowledge" -> [t EXCEPT !.userKnowledge = c.ids]
    [] c.op = "createPersona" -> [t EXCEPT !.personas = @ \cup {c.id}]
    [] c.op = "duplicatePersona" -> [t EXCEPT !.personas = @ \cup {c.id}, !.detail = c.id]
    [] c.op = "updatePersona" -> [t EXCEPT !.detail = c.id]
    [] c.op = "deleteKnowledge" ->
         [t EXCEPT !.personas = @ \ {c.id}, !.knowledge = {}, !.detail = Closed, !.deleted = @ \cup {c.id}]
    [] OTHER -> t

\* The call that follows a success, or a read that failed without a word.
Following(c) ==
  LET on(op) == [c EXCEPT !.op = op, !.ids = {}, !.stage = "sent"] IN
  CASE c.stage = "ok" /\ c.op \in {"createPersona", "duplicatePersona", "addKnowledge", "deleteDocument"} -> on("getKnowledge")
    [] c.stage = "ok" /\ c.op \in {"addUserKnowledge", "deleteUserDocument"} -> on("getUserKnowledge")
    [] c.stage = "ok" /\ c.op = "importCard" -> on("listPersonas")
    [] c.stage = "ok" /\ c.op = "deletePersona" -> on("deleteKnowledge")
    [] c.stage = "ok" /\ c.op \in {"createWorld", "updateWorld", "deleteWorld"} -> on("listWorlds")
    [] c.op = "getKnowledge" /\ c.left > 0 -> [on("addKnowledge") EXCEPT !.left = 0]
    [] OTHER -> DeskIdle

\* A toggle that failed is taken back in the list of now.
RolledBackToSent(t, c) ==
  IF c.op = "setFavorites" THEN [t EXCEPT !.favorites = Toggled(c.ids, c.id)] ELSE t
RolledBack(t, c) ==
  IF c.op = "setFavorites" THEN [t EXCEPT !.favorites = Toggled(@, c.id)] ELSE t

\* The finally of an upload.
FinishedOnSuccess(t, c) ==
  IF Following(c) = DeskIdle /\ c.stage = "ok" THEN [t EXCEPT !.busy = @ \ {c.busy}] ELSE t
Finished(t, c) == IF Following(c) = DeskIdle THEN [t EXCEPT !.busy = @ \ {c.busy}] ELSE t

---------------------------------------------------------------------------
ServeDesk(n) ==
  /\ deskCall[n].stage = "sent"
  /\ LET r == Answered(deskStore, deskCall[n])
     IN deskStore' = r.store /\ deskCall' = [deskCall EXCEPT ![n] = r.call]
  /\ UNCHANGED <<deskTab, deskClicks, deskFaults>>

\* A call that never arrives, or whose answer does not.
DeskFault(n) ==
  /\ deskFaults < MaxDeskFaults
  /\ deskCall[n].stage \in {"sent", "ok"}
  /\ deskCall' = [deskCall EXCEPT ![n].stage = "failed"]
  /\ deskFaults' = deskFaults + 1
  /\ UNCHANGED <<deskStore, deskTab, deskClicks>>

ReceiveAnswer(n) ==
  LET c == deskCall[n]
      t == IF c.stage = "ok" THEN Shown(deskTab, c) ELSE RolledBack(deskTab, c)
  IN /\ c.stage \in {"ok", "failed"}
     /\ deskTab' = Finished(t, c)
     /\ deskCall' = [deskCall EXCEPT ![n] = Following(c)]
     /\ UNCHANGED <<deskStore, deskClicks, deskFaults>>

DeskHandle == \E n \in DeskCalls : ServeDesk(n) \/ ReceiveAnswer(n)

DeskNext ==
  \/ Clicks
  \/ \E op \in deskTab.boot : BootLoad(op)
  \/ DeskHandle
  \/ \E n \in DeskCalls : DeskFault(n)

DeskSpec == DeskInit /\ [][DeskNext]_deskVars /\ WF_deskVars(DeskHandle)

---------------------------------------------------------------------------
(* What is checked. *)

\* Only a load changes more than one star at a time: a toggle that fails
\* while others were clicked takes back its own star and no other
\* (toggleFavorite's catch).
OneStarAtATime ==
  [][(\A n \in DeskCalls : deskCall[n].op = "getFavorites" => deskCall'[n] = deskCall[n]) =>
     Cardinality((deskTab.favorites \ deskTab.favorites') \cup (deskTab.favorites' \ deskTab.favorites)) <= 1]_deskVars

\* An upload that failed, or that runs beside another, does not leave its
\* drawer busy for ever (the finally of addKnowledgeText and the like).
DrawersGetFree == \A b \in {"persona", "user"} : (b \in deskTab.busy) ~> (b \notin deskTab.busy)
=============================================================================

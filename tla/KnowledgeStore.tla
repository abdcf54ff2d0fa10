---------------------------- MODULE KnowledgeStore ----------------------------
(***************************************************************************)
(* A user's reference documents.  The file adapter (knowledge-library.ts)  *)
(* works under the lock of the user's file and asks the gateway for        *)
(* embeddings while it holds it; the in-memory adapter                     *)
(* (knowledge-memory-repository.ts) changes its maps before and after the  *)
(* same call, without a lock.  The lock's queue is FileLock's; here a      *)
(* request simply waits for the file to be free.                           *)
(***************************************************************************)
EXTENDS Naturals, FiniteSets, FiniteSetsExt

CONSTANTS
  Scopes,          \* "user" and the ids of personas
  KnowledgeOps,    \* requests, numbered in the order of their arrival
  Models,          \* embedding models of the session, over time
  Dimension,       \* the length of a model's vectors
  ChunkCounts,     \* how many chunks a document falls into
  MaxDocuments,    \* 20: MAX_DOCUMENTS_PER_PERSONA
  MaxChunks        \* 600: MAX_CHUNKS_PER_USER, of one base

ASSUME KnowledgeAssumption ==
  /\ KnowledgeOps \subseteq Nat \ {0}
  /\ MaxDocuments \in Nat \ {0} /\ MaxChunks \in Nat
  /\ ChunkCounts \subseteq Nat \ {0} /\ Dimension \in [Models -> Nat \ {0}]

VARIABLES
  kbAdapter,   \* which adapter this is
  kbStore,     \* bases, documents and chunks
  kbHolder,    \* the request in withFileLock's body
  kbOp         \* each request: what it wants, where it is, what it has in hand
knowledgeVars == <<kbAdapter, kbStore, kbHolder, kbOp>>

NoRequest == 0
EmptyStore == [bases |-> {}, documents |-> {}, chunks |-> {}]

\* Ids are those of the request that makes them; chunks carry their model, as
\* their vectors are made with it.
KnowledgeBase(id, scope, model) == [id |-> id, scope |-> scope, model |-> model]
KnowledgeDocument(id, base, count) == [id |-> id, base |-> base, count |-> count]
ChunksOf(id, base, model, count) ==
  {[document |-> id, base |-> base, model |-> model, index |-> i] : i \in 1 .. count}

BasesOf(store, scope) == {b \in store.bases : b.scope = scope}
DocumentsIn(store, base) == {d \in store.documents : d.base = base}
ChunksIn(store, base) == {c \in store.chunks : c.base = base}

\* ensureKnowledgeBase: a base keeps the model of its first document.
WithBase(store, o, scope, model) ==
  IF BasesOf(store, scope) # {} THEN store
  ELSE [store EXCEPT !.bases = @ \cup {KnowledgeBase(o, scope, model)}]
BaseId(store, scope) == (CHOOSE b \in BasesOf(store, scope) : TRUE).id

\* Mutant of Room: the chunks that are coming are not counted.
RoomForDocument(store, base, count) ==
  /\ Cardinality(DocumentsIn(store, base)) < MaxDocuments
  /\ Cardinality(ChunksIn(store, base)) <= MaxChunks

Room(store, base, count) ==
  /\ Cardinality(DocumentsIn(store, base)) < MaxDocuments
  /\ Cardinality(ChunksIn(store, base)) + count <= MaxChunks

WithDocument(store, o, base, model, count) ==
  [store EXCEPT !.documents = @ \cup {KnowledgeDocument(o, base, count)},
                !.chunks = @ \cup ChunksOf(o, base, model, count)]

\* Mutant of WithoutDocument: the chunks of the document stay.
WithoutDocumentButChunks(store, id) ==
  [store EXCEPT !.documents = {d \in @ : d.id # id}]

WithoutDocument(store, id) ==
  [store EXCEPT !.documents = {d \in @ : d.id # id}, !.chunks = {c \in @ : c.document # id}]

WithoutScope(store, scope) ==
  LET gone == {b.id : b \in BasesOf(store, scope)}
  IN  [bases |-> {b \in store.bases : b.id \notin gone},
       documents |-> {d \in store.documents : d.base \notin gone},
       chunks |-> {c \in store.chunks : c.base \notin gone}]

IdleRequest == [at |-> "idle", wants |-> "none", scope |-> "none", document |-> NoRequest, model |-> "none",
         count |-> 0, draft |-> EmptyStore]

KnowledgeInit ==
  /\ kbAdapter = "none" /\ kbStore = EmptyStore /\ kbHolder = NoRequest
  /\ kbOp = [o \in KnowledgeOps |-> IdleRequest]

OpenKnowledge ==
  /\ kbAdapter = "none"
  /\ kbAdapter' \in {"file", "memory"}
  /\ UNCHANGED <<kbStore, kbHolder, kbOp>>

\* A route hands a request to the adapter.
AskKnowledge(o) ==
  /\ kbAdapter # "none" /\ kbOp[o].at = "idle"
  /\ \A earlier \in KnowledgeOps : earlier < o => kbOp[earlier].at # "idle"
  /\ \/ \E scope \in Scopes, model \in Models, count \in ChunkCounts :
          kbOp' = [kbOp EXCEPT ![o] = [IdleRequest EXCEPT !.at = "waiting", !.wants = "add",
                                         !.scope = scope, !.model = model, !.count = count]]
     \/ \E id \in {d \in KnowledgeOps : d < o} :
          kbOp' = [kbOp EXCEPT ![o] = [IdleRequest EXCEPT !.at = "waiting", !.wants = "delete", !.document = id]]
     \/ \E scope \in Scopes :
          kbOp' = [kbOp EXCEPT ![o] = [IdleRequest EXCEPT !.at = "waiting", !.wants = "clear", !.scope = scope]]
  /\ UNCHANGED <<kbAdapter, kbStore, kbHolder>>

EndRequest(o, at) == kbOp' = [kbOp EXCEPT ![o].at = at, ![o].draft = EmptyStore]

-----------------------------------------------------------------------------
(***************************************************************************)
(* The file adapter.                                                       *)
(***************************************************************************)
\* Mutant of Free: the body runs at once.
FreeAlways == TRUE

Free == kbHolder = NoRequest

\* Into the body: the file is read, what is wrong is found out.
EnterFile(o) ==
  LET op == kbOp[o]
      store == WithBase(kbStore, o, op.scope, op.model)
      draft == CASE op.wants = "add" -> store
                 [] op.wants = "delete" -> WithoutDocument(kbStore, op.document)
                 [] op.wants = "clear" -> WithoutScope(kbStore, op.scope)
      bad == \/ op.wants = "add" /\ ~Room(store, BaseId(store, op.scope), op.count)
             \/ op.wants = "delete" /\ ~\E d \in kbStore.documents : d.id = op.document
      nothing == op.wants = "clear" /\ BasesOf(kbStore, op.scope) = {}
  IN  /\ kbAdapter = "file" /\ op.at = "waiting" /\ Free
      /\ IF bad \/ nothing
         THEN EndRequest(o, IF bad THEN "failed" ELSE "done") /\ UNCHANGED kbHolder
         ELSE /\ kbHolder' = o
              /\ kbOp' = [kbOp EXCEPT ![o].draft = draft,
                                      ![o].at = IF op.wants = "add" THEN "embedding" ELSE "writing"]
      /\ UNCHANGED <<kbAdapter, kbStore>>

\* The gateway answers, refuses (a 401 included), sends too few vectors, or the
\* call times out after ten seconds.
EmbeddingOk(o) ==
  LET op == kbOp[o]
  IN  /\ kbAdapter = "file" /\ op.at = "embedding"
      /\ kbOp' = [kbOp EXCEPT ![o].at = "writing",
                    ![o].draft = WithDocument(@, o, BaseId(@, op.scope), op.model, op.count)]
      /\ UNCHANGED <<kbAdapter, kbStore, kbHolder>>

EmbeddingFails(o) ==
  /\ kbAdapter = "file" /\ kbOp[o].at = "embedding"
  /\ EndRequest(o, "failed")
  /\ kbHolder' = NoRequest
  /\ UNCHANGED <<kbAdapter, kbStore>>

\* writeJsonFile replaces the file, or throws and leaves it.
WriteFile(o) ==
  /\ kbOp[o].at = "writing"
  /\ \/ kbStore' = kbOp[o].draft /\ EndRequest(o, "done")
     \/ UNCHANGED kbStore /\ EndRequest(o, "failed")
  /\ kbHolder' = NoRequest
  /\ UNCHANGED kbAdapter

-----------------------------------------------------------------------------
(***************************************************************************)
(* The in-memory adapter: no limits, and the base is looked up before the  *)
(* call for embeddings.                                                    *)
(***************************************************************************)
BeginInMemory(o) ==
  LET op == kbOp[o]
  IN  /\ kbAdapter = "memory" /\ op.at = "waiting"
      /\ \/ /\ op.wants = "add"
            /\ kbStore' = WithBase(kbStore, o, op.scope, op.model)
            /\ kbOp' = [kbOp EXCEPT ![o].at = "embedding", ![o].document = BaseId(kbStore', op.scope)]
         \/ /\ op.wants = "delete"
            /\ kbStore' = WithoutDocument(kbStore, op.document)
            /\ EndRequest(o, IF \E d \in kbStore.documents : d.id = op.document THEN "done" ELSE "failed")
         \/ /\ op.wants = "clear"
            /\ kbStore' = WithoutScope(kbStore, op.scope)
            /\ EndRequest(o, "done")
      /\ UNCHANGED <<kbAdapter, kbHolder>>

\* Into the base that was there before, which may be gone by now.
EndInMemory(o) ==
  /\ kbAdapter = "memory" /\ kbOp[o].at = "embedding"
  /\ \/ /\ kbStore' = WithDocument(kbStore, o, kbOp[o].document, kbOp[o].model, kbOp[o].count)
        /\ EndRequest(o, "done")
     \/ UNCHANGED kbStore /\ EndRequest(o, "failed")
  /\ UNCHANGED <<kbAdapter, kbHolder>>

KnowledgeHandle ==
  \E o \in KnowledgeOps :
    EnterFile(o) \/ EmbeddingOk(o) \/ EmbeddingFails(o) \/ WriteFile(o) \/ BeginInMemory(o) \/ EndInMemory(o)

KnowledgeNext == OpenKnowledge \/ (\E o \in KnowledgeOps : AskKnowledge(o)) \/ KnowledgeHandle

KnowledgeSpec == KnowledgeInit /\ [][KnowledgeNext]_knowledgeVars

-----------------------------------------------------------------------------
(***************************************************************************)
(* Searching: searchPersonaKnowledge, searchUserKnowledge, vector-index.ts.*)
(***************************************************************************)
\* The similarity of vectors of different lengths is 0, below any threshold; the
\* in-memory adapter multiplies as far as the shorter one goes.
Comparable(chunk, model) == kbAdapter = "memory" \/ Dimension[chunk.model] = Dimension[model]

\* The chunks a search of a scope may return for a question.
Searchable(store, scope, model) ==
  {c \in store.chunks : (\E b \in BasesOf(store, scope) : c.base = b.id) /\ Comparable(c, model)}

-----------------------------------------------------------------------------

(***************************************************************************)
(* The file is whole whatever fails: one base per scope, every document in *)
(* a base with as many chunks as it says, no chunk without its document,   *)
(* and no base above its limits.                                           *)
(***************************************************************************)
NoOrphans ==
  kbAdapter = "file" =>
    /\ \A scope \in Scopes : Cardinality(BasesOf(kbStore, scope)) <= 1
    /\ \A d \in kbStore.documents :
         /\ \E b \in kbStore.bases : b.id = d.base
         /\ Cardinality({c \in kbStore.chunks : c.document = d.id /\ c.base = d.base}) = d.count
    /\ \A c \in kbStore.chunks : \E d \in kbStore.documents : c.document = d.id
    /\ \A b \in kbStore.bases :
         /\ Cardinality(DocumentsIn(kbStore, b.id)) <= MaxDocuments
         /\ Cardinality(ChunksIn(kbStore, b.id)) <= MaxChunks

(***************************************************************************)
(* What is found exists: in either adapter, whatever is deleted while      *)
(* documents are being embedded, a search only returns chunks of documents *)
(* that are listed for that scope.                                         *)
(***************************************************************************)
FoundMeansListed ==
  \A scope \in Scopes, model \in Models : \A c \in Searchable(kbStore, scope, model) :
    \E b \in BasesOf(kbStore, scope), d \in kbStore.documents : d.id = c.document /\ d.base = b.id

(***************************************************************************)
(* A document enters the file once, by the request that adds it: no other  *)
(* request that was under way when it was deleted writes it back.          *)
(***************************************************************************)
DeletedStaysDeleted ==
  [][\A o \in KnowledgeOps :
       (\E d \in kbStore'.documents : d.id = o) /\ (\A d \in kbStore.documents : d.id # o) =>
         kbOp[o].at \in {"writing", "embedding"} /\ kbOp'[o].at = "done"]_knowledgeVars

=============================================================================

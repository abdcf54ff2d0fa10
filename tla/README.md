# A TLA+ model of the yanchuaner AI web application

The repository is the chat application `ai.yanchuaner.cn`: a Next.js server that
acts as a backend for the browser ("BFF"), keeps its data in JSON files, and
forwards completions and embeddings to an API gateway that charges for them.
This directory models the parts of it where the order of events matters, checks
the models with TLC on small instances, and proves their main invariants with
TLAPS for instances of any size. Paths below are relative to
`src/apps/ai-web/src/` unless they start with `src/`.

Contents: [1 the system](#1-the-system), [2 how the project is
built](#2-how-the-project-is-built), [3 modules and code](#3-modules-and-code), [4
runs](#4-runs), [5 fairness](#5-fairness), [6 proofs](#6-proofs), [7 where code and
documents disagree](#7-where-code-and-documents-disagree), [8 what is not
modelled](#8-what-is-not-modelled).

## 1 The system

One Node process serves all users. Its concurrency is that of the event loop:
code runs without interruption from one `await` to the next, and anything may
happen in between, a restart included. State is kept in four places: the JSON
files (survive a restart), module variables of the server (do not), the browser
tab, and the gateway.

| component | state | operations | what is hard | what makes it correct |
|---|---|---|---|---|
| write lock (`lib/store.ts`) | map from file to the promise of its last caller | `withFileLock` | callers arriving while others wait, run or leave; bodies that throw; restart | one body at a time per file, first come first served, nobody waits for ever, no leak |
| conversation store (`lib/conversations.ts`) | one file per user | create, append, update, delete; list and detail without the lock | every `await` of a read-modify-replace; crash while writing; cap of 200 messages | each call acts atomically or not at all; acknowledged messages stay, in order |
| request dedupe (`lib/request-dedupe.ts`) | map from client request id to status and time | `begin`, `finish`, pruning in `begin` | outcomes that stay unknown, the TTL running out, a retry during or after the first try | one key enters the gateway once per TTL unless it is known to have failed |
| chat handler (`lib/chat-handler.ts`, `lib/chat.ts`) | the request under way | admission, routing by the stored conversation, reply | client aborts, timeouts, late or odd replies of the gateway, many ways out | every way out finishes the key with what really happened; a revoked session stops |
| workflows (`workflows/*-v1.ts`, `domain/workflow-runtime.ts`) | steps of a run, two abort signals | chat, roleplay, group schedule, group speaker | timeout against cancellation, degraded steps, events in order | every run ends with exactly one final event; errors that must stop are not degraded |
| prompts (`workflows/context.ts`, `group-prompts.ts`, `lib/group-speech.ts`) | none | budgets, speaker selection, prefix removal | boundaries of budgets, streams cut inside a prefix | agreement with a direct definition |
| browser chat (`hooks/use-conversation-state.ts`, `lib/chat-events.ts`) | messages on screen, pending flag, remembered key of the last failure | submit, retry, stop, open, group turn | state read before an await and used after it, cut streams | retry reuses its key; screen, store and charges agree |
| persona memory (`lib/memory-*.ts`) | one file per user | generate, save, clear | generation outside the lock | one summary per persona, of a conversation the persona is in; a refresh covers more than what it found stale |
| knowledge (`lib/knowledge-*.ts`, `vector-index.ts`, `chunker.ts`) | one file per user | add, remove, search | gateway call inside the lock, limits, changing models | documents and chunks belong together, limits hold |
| libraries (`persona-library.ts`, `worlds.ts`, `preferences.ts`, `byok-settings-*`) | files per user | save, delete, list | the same lock | caps, references to deleted items |
| session and login (`lib/session.ts`, `oidc.ts`, `session-guard.ts`) | sealed cookies | login, callback, logout, revoke | two tabs, late answers | a refused session stays gone; a logout ends the logins under way |
| observability (`observability/`) | log file and rotated ones | export, rotate, query | concurrent rotations | a query finds what is in the files when it begins and stays there |
| migration (`lib/data-migrations.ts`, `instrumentation.ts`) | the files | migrate, roll back | rollback outside the lock | no later write is overwritten |
| operations (`src/scripts/`) | archives, ledger reports | back up, restore, reconcile | live files, double charges | a restore is consistent; every anomaly is flagged |

How they interact: a browser tab submits to the handler with a client request
id; the handler claims the id in the registry, reads the conversation from the
store without a lock, runs a workflow that reads memory and knowledge and calls
the gateway up to twice (embedding, completion), finishes the id and returns the
stream; the browser then appends the answer to the store under the lock. All
stores share `withFileLock`.

The hazards the code is exposed to, each at its line, are listed in
`PROJECT.json` under `hazards`, with the properties that cover them or the
reason why none does.

## 2 How the project is built

Order of work, most important behaviour first; all of it is carried out.

1. The write lock and the store on top of it: `FileLock` with its abstract
   specification `SerialExecutor`; `ConversationOps` (the data) and
   `ConversationStore` (which composes `FileLock` with the body of each
   operation) with their abstract specification `ConversationRepository`.
2. The path of a question: `RequestDedupe` (the registry), `ChatCompletion` (the
   handler, its workflows and the gateway around it), `ClientChat` (one tab in
   front of `ChatCompletion`), `GroupTurn` (the same tab in a group).
3. What a run is made of: `WorkflowRun` (steps, events, aborts),
   `PromptAssembly` and `SpeakerPrefix` (pure algorithms).
4. The other stores: `PersonaMemory`, `KnowledgeStore` with `Chunker`,
   `Settings`, `PersonaDesk` and `PersonaCards`, `DataMigration`,
   `ObservabilityLog`.
5. Sessions: `Account`.

`Lists` holds the two operators on lists that several components use: `Filtered`,
the array filter, and `SumOf`. Loops of the code are recursive functions
(`run[i]`), one round of the loop from `run[i - 1]` to `run[i]`.

Each component has variables with names of its own, so that components can be put
into one state machine: `MCServer`, `MCBrowser` and `MCLiveness` extend several
of them and let the first state choose which one moves (`part`) while the others
stand still. That is not a composition: these components touch in nothing the
properties speak about. Where they do touch, they are composed
(`ConversationStore` with `FileLock`, `ClientChat` with `ChatCompletion`), or
the one below is replaced by what it is shown to implement: a locked operation
of a store is one step in `ClientChat`, `PersonaMemory`, `PersonaDesk`,
`Settings` and `GroupTurn`, because `SerialExecutor` and `ConversationRepository`
allow it.

What could still be added: a group turn in front of `ChatCompletion` as `ClientChat`
has it (a group run has no client request id, so nothing of the registry would show).

## 3 Modules and code

`PROJECT.json` maps every definition to its lines. Operators whose comment begins
with "Mutant of" describe plausible mistakes and take no part in a
specification; each property of a passing run has one that violates it.

### FileLock, SerialExecutor (`lib/store.ts`)

A *call* is one invocation of `withFileLock`. It makes a promise of its own (the
gate), so a gate is named by its call and is open when the call is `"done"`.
`fileLocks` is the map of the code, `previous[c]` the local variable. `Enter` is
the synchronous prefix up to `await previous`, `Start` the resumption, `Finish`
the `finally` block, which runs whether the body returned or threw. `Restart`
clears the map and loses the calls under way. `ticket` and `arrivals` are history
variables that record the order of arrival.

`SerialExecutor` is the promise without promises: one queue per file, its head is
served, a restart forgets the queues. `Executor` of `FileLock` is the refinement mapping:
the queue of a file is the calls that have arrived and not left, by ticket.

### ConversationOps, ConversationStore, ConversationRepository (`lib/conversations.ts`)

A store maps ids to conversations. A message is named by the call that appended
it, which is what the properties tell apart; a title by where it comes from. The
text of messages, personas, worlds and time stamps are left out; `archived`
behaves like `pinned`. The checks of `createConversation` are one outcome,
`valid`, made under the lock as in the code. Calls that `appendMessage` and
`updateConversation` refuse before they take the lock do nothing and are left out.

The body of a call passes through the stages
`begun -> loaded -> writing -> staged -> ended`, one per `await`:

| action | code |
|---|---|
| `Arrive`, `Begin`, `End` | `withFileLock` around every operation |
| `RejectOptions` | the throws of `createConversation` before it reads |
| `Load` | `readStore` / `readJsonFile` |
| `RejectMissing` | "conversation not found" |
| `OpenTemporary`, `CloseTemporary` | `writeFile(temporary, ...)`, during which the temporary file is incomplete |
| `Rename` | `rename(temporary, file)`: the file now holds `Apply(snapshot, op)` |
| `IoError` | any file operation fails, or the store is over `MAX_STORE_BYTES` |
| `Crash` | the process dies; `disk` stays |

`Apply` is the edit each operation makes, with the cap of the message list.
`rename` is atomic, as POSIX has it; power failures that lose a rename without
`fsync` are not modelled. `op` is chosen at the start from `Workloads` and never
changes. `createConversation` uses `randomUUID`, hence the assumption `FreshIds`.
A file that a well-behaved version wrote is its own normal form, so
`normalizeConversation` is the identity on the stores reached here.

`ConversationRepository` is the port's promise: each call performs its whole
operation at one instant, is refused because what it names is not there, or
breaks without an effect. `store` is mapped to `disk`.

### RequestDedupe, ChatCompletion (`lib/request-dedupe.ts`, `lib/chat-handler.ts`, `lib/chat.ts`, `workflows/`)

`RequestDedupe` has the two synchronous functions as operators: `Claim` and
`Taken` for `begin` (with pruning of *all* keys first), `Release` for `finish`.
Time is a counter `now`; `Expired` is the strict comparison of the code.

A *request* in `ChatCompletion` is one HTTP request. It is turned away, refused
as a duplicate, or admitted; then `ReadConversation` decides the route (the
stored conversation's mode and the body's `groupSchedule` / `speakerId`), and the
handler runs the workflow of that route to one of its ends:

| action | code |
|---|---|
| `AnswerNoSpeaker` | the 400 of chat-handler.ts:222, the only exit without `finish` |
| `AnswerNoRoute` | the last two lines of the handler |
| `RunRejected` | `createWorkflowEvent` refuses an id of the request, the run never starts |
| `BuildContext` | the context step of roleplay and group speaker, with its embedding call |
| `Send` | `fetch` of the completion |
| `Interrupted` | client abort, 120 s / 30 s timeout, network error |
| `Succeed`, `Fail`, `Revoke` | what the workflow makes of the reply |
| `ReplyUnrecorded` | the gateway's `x-request-id` is not accepted as an event id, after the reply |
| `Charge`, `TurnDown` | the gateway (external): it may answer after the BFF has given up |
| `Tick`, `Restart` | time; a new process with an empty registry |

`Conclude` is the shared end: the answer, and `finish` with `billed`, `failed`
(a `ChatV1Error`) or `unknown` (anything else).

`Tick` may not pass while a handler is older than `FlightBound`, which is smaller
than `TTL`. In the code a handler spends at most about 130 s between `begin` and
`finish` (10 s embedding timeout, 120 s completion timeout, besides reading two
or three local files), and the TTL is 10 minutes. Were the bound not there, an
entry could be pruned under a running request. That files are read quickly is an
assumption.

### ClientChat (`hooks/use-conversation-state.ts`, `lib/chat-actions.ts`, `lib/chat-events.ts`)

One tab in front of `ChatCompletion`. A *request* here is one run of `submit`,
which makes at most one HTTP request; it also names the question, the answer and
the client request id that the run creates, so `Keys = Requests`. A run passes
through `idle -> creating -> saving -> posting -> streaming -> keeping ->
reloading -> done`, one stage per `await`; `creating` is skipped when there is a
conversation, because then no task runs between the test and the lock of the
composer. A run with an image (`Pictured`) is `describing` first, with the composer
open meanwhile, and is never a retry. The tab starts without a conversation, as
the code does. What a run took from its render (`run[r]`: the conversation, the
messages to send along) it keeps, whatever the screen shows meanwhile.

| action | code |
|---|---|
| `Type`, `Submit`, `SubmitImage`, `Stop` | the text area, `submit` up to its first real await, the stop button |
| `Described` | the image is described; on with `ensureConversation` |
| `Created`, `CreateFails` | `ensureConversation` inside `submit` |
| `SaveQuestion`, `SaveFails` | the first `appendConversationMessage` |
| `Arrives`, `Serve` | the request at the server: `ChatCompletion`, which also sees requests whose client has gone |
| `Duplicate`, `Refused`, `Expires` | 409, any other error, 401 |
| `StreamStarts`, `Delta`, `StreamEnds`, `Breaks` | the stream, which may end early without notice, break, or be stopped |
| `KeepAnswer`, `KeepFails`, `Reloaded` | the second append and the reloads |
| `OpenClick`, `OpenRead`, `OpenShow` | `openConversation`: request, read by the server, answer |
| `NewClick`, `NewShow` | `startPlainConversation`, and `navigate`, which makes a conversation under what is on screen |
| `DeleteClick`, `DeleteRead`, `DeleteShow` | `deleteConversationById`: the answer clears the screen if the conversation was on it *at the click* |
| `DrawClick`, `DrawShow`, `DrawStored` | `generateImage` of app/page.tsx: the picture joins what is on screen by then, and is stored where the click was |
| `TurnFails`, `TurnExpires` | failures and a 401 of these |

Appending to the store is one step here, as `ConversationRepository` promises. `draft`
is a history variable: which run first submitted the text now in the composer. `hollow`
says that a message sent along has no content, which `parseAiChatRequest` refuses.
`mixed` is a history variable too: set by the three steps of the code that put a message
on a screen with those of another conversation (`ensureConversation`, a drawn picture, a
question whose image was being described), and reset when the screen is next replaced;
`blended` is what a run found of it. `deleted` remembers the conversations there were. A
session that is over stays over: logging in again loads the page anew. The model name
and personas are left out.

### GroupTurn (`hooks/use-conversation-state.ts`, group part)

A *round* is one question to a group, or (round 0) the opening of a new one. It
goes `idle -> saving -> scheduling -> speaking -> reloading -> over`; in
`speaking`, each scheduled voice goes `silent -> talking -> keeping` and is then
`over` or `failed`, all of them at once (`Promise.allSettled`). `groupTab` is what
the hook holds: the conversation on screen, the bubbles (of which it matters
whether they are empty), `pending`, and whose controller is in `abortRef`.

| action | code |
|---|---|
| `AskGroup`, `SaveGroupQuestion`, `SaveGroupQuestionFails` | `submit` up to the stored question |
| `ScheduleArrives`, `ScheduleFails` | the call that chooses the speakers, which the signal of the turn cancels |
| `VoiceDelta`, `VoiceEnds`, `VoiceBreaks`, `KeepReply`, `KeepReplyFails` | one speaker's stream and the append of its reply; a reply that speaks for others is dropped |
| `AllSettled`, `GroupReloaded` | the summary after all have settled, which removes the empty bubbles of failed speakers, and the reload |
| `StopGroup`, `OpenGroup`, `ReadGroup`, `ShowGroup`, `DeleteGroup`, `GroupDeleted` | the stop button; opening and deleting a conversation: click, server, answer |

A 401 of any of these calls logs the tab out and aborts the turn. `RoundStep` is
the union of what the tab does when an answer comes in.

### WorkflowRun (`domain/workflow-runtime.ts`, `workflow-events.ts`, `workflows/*-v1.ts`)

One `runWorkflow` with the steps of the four workflows. `RunStart` emits
`run.started` and runs to the first await; `ReadMemory` and `SearchKnowledge` are
the build step, which degrades on an error and takes no notice of an abort;
the latter has a time-out of its own (`SearchTimesOut`). `fetch` does not send what is
aborted already (`SendText`); `GatewayReplies` (external) answers;
`NoticeAbort`, `CallTimesOut`, `NetworkFails`, `Usable` and `RefusedByGateway` are
the ways on, `CompleteRun` and `FailRun` the two ends, `Verdict` the catch block that
decides between cancelled, timed out and failed. `TimerFires` and `ClientLeaves`
may happen at any time; `AbortSignal.any` keeps the reason of the first
(`runCause`). The ids and durations of events are left out.

### PromptAssembly, SpeakerPrefix, Chunker (pure algorithms)

Their state machines call the algorithm once, on every input within the bounds.

* `PromptAssembly` (`workflows/context.ts`, `group-prompts.ts`, `group-v1.ts`): a
  text is its length, or the interval of positions that is left of it, so that
  cutting at the beginning and cutting at the end differ. `Assembled` fills the
  budget in order of priority (`Ordered`), `FormatGroupHistory` keeps the newest messages
  (`Collected` is its loop, which stops for good at the first that does not fit),
  `ParseSpeakerNames` and `PickFallbackSpeakers` choose who speaks.
* `SpeakerPrefix` (`lib/group-speech.ts`): the stateful `push` over chunks of any
  size. Letters are kept one by one because the regular expression is the point;
  `NameAt` tries the bracket first and then without it, as the pattern backtracks.
* `Chunker` (`lib/chunker.ts`): paragraphs of sentences, of which only the lengths
  count; a chunk is a sequence of intervals of the document. `RawOf` is the loop over
  the sentences of one paragraph, `Raw` the one over paragraphs, `Merge` a round of
  the last, in which a short chunk takes the next one in.

### PersonaMemory (`lib/memory-handler.ts`, `memory-library.ts`)

A request is a refresh or a clear. `StartRefresh` takes the snapshot of the
conversation (the number of its messages), `CheckNext` asks the file persona by
persona whether its summary is stale, `Generate` asks the gateway for all stale
ones outside any lock and fails for all if one fails, `SaveNext` and `ClearNext`
are the locked writes one by one. `Talk` adds messages up to the cap;
`AbandonMemoryOp` is a failure, or the end of the process.

### KnowledgeStore (`lib/knowledge-library.ts`, `knowledge-memory-repository.ts`)

Both adapters of the same port. The file adapter holds the lock of the user's
file (`kbHolder`) over the gateway call (`EnterFile`, `EmbeddingOk`,
`EmbeddingFails`, `WriteFile`); the in-memory adapter changes its maps before
and after the call without a lock (`BeginInMemory`, `EndInMemory`). A chunk carries the
model its vector was made with; `Comparable` says which can be searched: those of the
same dimension, and all of them in the in-memory adapter, which multiplies as far as
the shorter vector goes. Ranking by similarity is left out.

### Settings (`lib/media-settings.ts`, `lib/voice-settings.ts`, `hooks/use-media-state.ts`, `use-voice-state.ts`)

Both encrypted settings files as sections (`media`, `asr`, `tts`). The hooks send
what is typed (`SaveMediaSettings`, `SaveVoiceSettings`, `ClearVoiceSection`, ...); a
blank key keeps the stored one (`Newer`). The media route validates the merged
section; the voice route validates each section as it was sent, takes only the voice and the key
from what is stored, and stores neither section if one is refused.
`ServeSettings` and `ServeUse` are the routes, `ProviderAnswers` the foreign
provider, `LoseCall` a lost answer. `settingsCleared` is a history variable. What
is stored of a key is the key; one that consists of blanks alone passes the form
and decrypts to nothing.

### Account (`lib/session.ts`, `oidc.ts`, `session-guard.ts`, `hooks/use-account-state.ts`)

One cookie jar, several tabs, requests that carry the cookies they were sent
with, and answers that set or clear cookies whenever they come in. A cookie is the
number of the login it belongs to. `Serve` runs a route: session, login, callback
(two steps: the discovery, which all logins share, and the exchange), logout and
the routes of the pages, which differ in what they do with a 401 of the
gateway; `Receive` is the browser and the page. `RestartServer` drops the cached discovery,
`TimePasses` and `RevokeGrant` end cookies and grants, `LoseReply` loses an answer.
Sealing, PKCE and ID tokens are external: the provider accepts a code once.

### PersonaDesk, PersonaCards (`hooks/use-persona-state.ts`, `use-world-state.ts`, `lib/personas.ts`, `chara-card.ts`)

`PersonaDesk` is the library pages of one tab with the stores behind them: each
click sends a call or a chain of calls (`Following`), `ServeDesk` is the route
under its lock, `ReceiveAnswer` what the hook does with the answer, `DeskFault` a
call that fails before or after it was served. Stars change on screen first
(`Toggled`) and are taken back on failure (`RolledBack`).

`PersonaCards` is the data of a persona: a text is the length of what trimming leaves,
the white space before it or behind, and the places of white space inside, where a
cut may end (`Cut`, `Joined`). `CharaCardV3ToPersonaInput` cuts an imported card to
limits written down a second time (`CardLimit`, read by `CardCap`); in the run they
are a table of their own with the same numbers as `Limit`, as in the code, and the mutant
changes one table and not the other. A missing first message becomes a greeting with
the name in it, which is not cut (`Greeting`). `IsValidPersonaInput` and
`BuildPersona` are the gate before the store. Tags hold no white space.

### ObservabilityLog (`observability/jsonl-exporter.ts`, `port.ts`)

Exports that nobody awaits: `LookAtSize`, `RenameNext` once per file of the history,
`AppendLine`; the query reads file after file (`ReadNextLog`). Two exports may find
the log full at once and rotate it twice.

### DataMigration (`lib/data-migrations.ts`, `instrumentation.ts`)

Each start goes through the files: `ReadStore`, `BackUp`, `BackedUp`, `ReplaceStore`;
an error (`StepFails`) leads to the roll-back (`RestoreBegins`, `Restored`, `RestoreFails`)
and the start is refused. Copies are not atomic, so each is two steps with a half
written file between them, and restoring removes the store before it copies (`RemovedStore`,
which the next start does not list); `StopProcess` may come anywhere. `ServeWrite` is the
running server, which writes stores without the version, but for the voice settings,
which keep what they read.

## 4 Runs

Deadlock checking is off in all of them because what users do is bounded and the
system stops when it is done.

| run | instance | distinct states | shows |
|---|---|---|---|
| `conversation_store` | 3 calls on one user's file, all mixtures of 7 operations, cap 2 | 382 thousand | no lost update (`SnapshotFresh`), `AcknowledgedMessagesKept`, `MessagesInOrderOfCalls`, the refinement of the repository, `EveryOperationEnds`, with I/O errors and crashes anywhere |
| `chat_completion` | 2 requests with one key or none, all routes, TTL 2, time to 3 | 1.4 million | `InFlightHoldsKey`, `OneEntryPerTTL`, `EveryRequestAnswered` |
| `client_chat` | from an empty tab: 2 submits of one text, with images or without, 2 conversations, and 1 of them opened, made or deleted, or 1 picture drawn | 1.7 million | `OneConversationInContext` |
| `client_chat_retry` | from an empty tab: 2 submits, one of which may have an image, 2 texts | 401 thousand | `KeyHandedOn`, `ChargedQuestionsStored`, `PendingEnds` |
| `server` | nine parts, see below | 496 thousand | see below |
| `browser` | four parts, see below | 907 thousand | see below |
| `liveness` | five parts, see below | 134 thousand | see below |
| `pending_without_entry`, `double_charge`, `unauthorized_embedding`, `double_submit` | 2 requests | | section 7 |
| `hollow_request` | 3 submits | | section 7 |

The parts of `server`:

| part | instance | properties |
|---|---|---|
| run | one run of each workflow | `RunLogClosed`, `VerdictNamesFirstAbort` |
| prompt | budgets 12, 8 and 6, texts up to 10, histories of 4 | `PromptByPriority`, `GroupPromptCorrect` |
| prefix | a name of two letters, replies of up to 7 letters, chunks of up to 3 | `PrefixCorrect` |
| memory | 2 conversations sharing a persona, 2 requests, step 2, cap 4 | `MemoriesConsistent`, `SummaryAdvances` |
| knowledge | 3 requests, 2 models, 1 or 2 chunks each of 3 allowed, both adapters | `NoOrphans`, `FoundMeansListed`, `DeletedStaysDeleted` |
| chunker | 3 sentences of up to 13 letters, chunks of 3 to 6, overlap 2 | `ChunksCover` |
| log | 4 exports, 2 rotated files of 2 lines, 2 under way | `QueryMissesNothing` |
| migration | 2 stores, 3 starts, 2 writes | `LastWriteSurvives`, `RefusedStartChangesNothing` |
| settings | 3 drafts, 2 keys, 2 calls, 3 steps of the user | `SettingsCorrect` |

The parts of `browser`:

| part | instance | properties |
|---|---|---|
| account | 2 tabs, 2 requests at a time, 2 logins, 1 fault | `RefusedSessionGone`, `LogoutEndsLogins` |
| cards | limits 2 to 9, the same in both tables; texts of 0, 1, 5 and 12 letters with white space before them and inside | `CardsCorrect` |
| desk | 3 personas, 2 documents, 1 world, 2 clicks, 2 calls at a time, 1 fault | `OneStarAtATime` |
| group | 2 groups, 2 voices, the opening, 1 question, 1 conversation opened or deleted | `RepliesFollowQuestions`, `NoEmptyBubbleLeft` |

The parts of `liveness`: the write lock with 4 calls, 3 of them on one file
(`LockCorrect`, `ImplementsSerialExecutor`), one run of each workflow (`RunEnds`), one
tab's account over all kinds of routes (`NoTabLoadsForEver`), the library pages with two
clicks, of which two uploads overlap (`DrawersGetFree`), and a group turn with one voice
(`GroupComposerUnlocked`).

Bounds that stand in a guard: `MaxTime` and `FlightBound` (`Tick`), `MaxFaults` and
`MaxLogins` (`Account`), `MaxClicks` and `MaxDeskFaults` (`PersonaDesk`), `MaxTurns` and
`MaxGroupMoves` (`GroupTurn`), `MaxSteps` (`Settings`), `MaxStarts` and `MaxWrites`
(`DataMigration`), `MaxUnderWay` (`ObservabilityLog`), `MaxChunk` (`SpeakerPrefix`).
`MaxMessages`, `MaxSentences` and `MaxCardTags` bound inputs. `TalkCap`, `MaxSummaries`,
`MaxDocuments`, `MaxChunks`, `KeepLogs`, `MaxLines`, the budgets and the `Limit`s are
the code's own, scaled down.

Why they are enough.

* *Lock*: three calls on one file are one running, one waiting behind it and one
  arriving while the first leaves, the case in which deleting the wrong map entry
  shows; the fourth shows that files do not disturb each other.
* *Store*: two calls race, the third sees the result or deletes the conversation
  under them; with a cap of 2 and one message there at first, two appends reach
  the cap and the third passes it.
* *Chat*: two requests are a try and its duplicate, or a try and its retry after the
  TTL; more keys add nothing to a race on one key. `MaxTime` is the TTL and the longest
  flight together, the first time at which an entry with the wrong stamp lets a
  request in too early. `ChatOneEntryPerTTL` holds for all numbers of requests, keys
  and times. (The group speaker takes the way of roleplay.)
* *Browser chat*: two submits are a try and its retry, or two at once; a third is
  needed only where a message left behind by the second must be sent along. One
  turn reaches every stage of both, a deletion that empties the tab in mid-session
  included. `OneConversationInContext` excepts the runs that find the screen `mixed`; its
  mutant mixes it in a fourth way.
* *Memory*: two requests are two refreshes of one persona from two conversations,
  or a refresh and a clear. *Knowledge*: two documents fit and the third does not,
  by number and by chunks; or one is deleted, or cleared, while another is embedded.
* *Log*: two full rotations and a query across both. *Migration*: one start
  fails or dies in the middle, the next finds what it left, writes lie between them, and a third
  start comes after that.
* *Settings*: save, clear, and save with a blank key are the three steps it takes to revive
  a key. *Account*: an old and a new login; answers of the old one may come late in
  either tab. *Desk*: two clicks are two stars, or an upload and a second one beside it.
  *Group*: a second question would only start after the first turn is over or
  was left; what disturbs a turn is a stop or a turn to another group.
* *Pure algorithms*: the sizes lie below, at and above every cap, and two sources
  together exceed the budget.

The proofs of section 6 do not depend on any of these bounds.

Symmetry is used for the runs in `client_chat`, which may all have an image, and for the
voices in `browser`, which check invariants (and, of `browser`, properties of single
steps) only: what they are called makes no difference to any definition. The store run
uses none; instead `MCWorkloads` hands each mixture of operations to the calls in one
order only, since which call performs which is a matter of names and the calls may
arrive in any order.

## 5 Fairness

* `FileLock`: weak fairness of `Start` (a resolved promise resumes its awaiter)
  and of `Finish` (every body settles: file operations do, and the one gateway
  call made under a lock has a timeout). `Enter` and `Restart` are not fair:
  nobody has to call, and the process does not have to die.
* `ConversationStore`: the same for the steps of a body.
* `ChatCompletion`: weak fairness of the handler's steps only. The gateway has
  none: it may never answer, and `Interrupted` stands for the timeouts that end
  the wait. Time has none either. A handler between two ends always has a step
  enabled.
* `ClientChat`: weak fairness of the steps of each run of `submit`. Its requests to
  the store are answered or fail, and the server's 120 s timeout ends the stream.
  Neither the user nor the server's handlers are fair: the tab may not rely on
  them.
* `Account`: weak fairness of `Serve` and `Receive` of each request and of
  `DiscoverySettles` (an HTTP call of the server settles). A lost reply is an answer
  too: the browser's `fetch` rejects.
* `PersonaDesk` (`DeskHandle`) and `GroupTurn` (`RoundStep`): weak fairness of the
  answers, as each call is answered or fails, and of the streams, which end or break.
  `VoiceDelta` is not fair.
* `WorkflowRun`: weak fairness of `RunGoesOn`. A file is read in the end, the
  embedding and the text call have time-outs of their own (10 s, and 120 s or 30 s), and
  what was answered or aborted goes on. Neither the gateway nor the workflow's timer nor
  the client is fair.
* The other modules state safety only and have no fairness (`PersonaMemory`,
  `KnowledgeStore`, `Settings`, `DataMigration`, `ObservabilityLog`).

## 6 Proofs

Eight modules hold the proofs; all of it is checked by `tlapm`, with no step left open.
They assume only what the modules assume of their constants, in the `ASSUME`s named
`...Assumption`, which TLC evaluates in the runs: for instance that every call has a
file, that ids of new conversations are fresh, that `FlightBound < TTL`. One theorem has
a hypothesis of its own, `CardsKeepTheirWay` (see there). Every inductive invariant
named below was checked by TLC, as an invariant of the component's run, before it was
proved (but for `Listed`, an existential over sequences, where TLC checked the
refinement itself, and for the invariants of the loops inside the pure algorithms, where
it checked what the loops return).

| module | proves about |
|---|---|
| `FileLock_proofs` | `FileLock`, `SerialExecutor` |
| `ConversationStore_proofs` | `ConversationStore`, `ConversationRepository` |
| `ChatCompletion_proofs` | `ChatCompletion`, `RequestDedupe` |
| `ClientChat_proofs` | `ClientChat` |
| `WorkflowRun_proofs` | `WorkflowRun`, `SpeakerPrefix`, `PromptAssembly` |
| `Browser_proofs` | `Account`, `PersonaDesk`, `PersonaCards`, `GroupTurn` |
| `Stores_proofs` | `DataMigration`, `Settings`, `KnowledgeStore`, `Chunker`, `ObservabilityLog`, `PersonaMemory` |
| `Lists_proofs` | `Lists`: lemmas for the others, no theorem of its own |

**Lists_proofs.** The library's induction theorems take an operator as a parameter,
which the provers cannot instantiate, so they can prove nothing about a recursive
definition over all inputs by themselves. What takes the place of induction here is a
statement about *sets*: a non-empty set of numbers has a least one (`LeastOf`, from
the well-foundedness of inclusion on finite sets), hence a set with 0 in it and
closed under the next number holds all numbers up to a bound (`InductionUpTo`), and
a loop whose body keeps a set of values has a value at each of its rounds
(`IterationExists`). A loop `run[i]` is then proved about in three steps: that it has
a solution among its states; that the definition, a `CHOOSE`, is one; that the set of
rounds at which the loop's invariant holds is closed. On these rest the facts about
`Filtered` (`FilteredIs`: what is kept, all of it, in its order), `SumOf`
(`SumOfConcat`, `SumOfPart`) and about a sort by ranks (`RankIs`). The community
modules' `SelectSeq` and folds are recursions of another kind, which is why the
components say `Filtered`, `SumOf` and `run[i]` instead.

**FileLock_proofs.** `MutualExclusion` is not inductive: that a caller's gate is
open says nothing by itself about the others. `LockInv` adds that tickets order
the calls (`TicketsInOrder`), that the map holds the youngest call in use of a
file (`MapHoldsYoungest`), and that the gate a waiting caller found belongs to the
youngest call before it, if that is still in use (`GateIsOlder`,
`GateIsNextOlder`). Then an open gate means that every earlier call has left,
which is `FirstComeFirstServed`, and mutual exclusion follows because of two
running calls one came first. Proved: `LockMutualExclusion`,
`LockFirstComeFirstServed`, `LockEntryIffInUse`, `LockTypeCorrect`, and together
`LockSafety`.

The refinement: `Listed` says that the calls in use of every file can be listed by
ticket (`Lists`), which a step keeps, since who arrives has the highest ticket
(`EnterLists`) and who leaves the lowest (`HeadRuns`, by `FirstComeFirstServed`); and
such a list is what the mapping counts out (`ListCounts`). So `Enter` is `Arrive`,
`Start` is `Serve`, `Finish` is `Leave` and `Restart` is `Forget`:
`LockImplementsExecutor`, which is `ImplementsSerialExecutor` without its fairness.

**ConversationStore_proofs.** A step of the store is a step of the lock or leaves
it alone (`StoreStepIsLockStep`), so `LockInv` carries over. With mutual exclusion
nobody else can replace the file between a call's `Load` and its `Rename`:
`SnapshotFresh`. From it follows that `Rename` applies the operation to what is on
disk *now*, which is `Perform` of the repository; every other step maps to
`Refuse`, `Break` or a stutter. Proved: `StoreTypeCorrect` (no file is ever torn),
`StoreSnapshotFresh`, `StoreImplementsRepository`.

The messages: `MessagesInv` says that they stand in the order of the tickets
(`InOrder`) behind those from before, that a call's message is there only once its append
took effect (`OnlyAcknowledged`), and that one which took effect is missing only when
the conversation is full of younger ones (`LatestKept`). `Rename` keeps it
because the lock serves calls in the order of their tickets, so that the
message appended is younger than all there are; `NotYetCreated` says that nothing is
in a conversation whose creation is still to come, and `LostBehindNobody` that
calls which died in a restart did not leave an older one waiting. The
constants' assumption says that the messages there at first are not calls.
Proved: `StoreMessagesInOrder`, `StoreKeepsAcknowledged`.

**ChatCompletion_proofs.** `OneEntryPerTTL` speaks about the past, the registry
only about the present. `ChatInv` connects them: a request under way owns its
pending entry, stamped with its begin, and the entry cannot be pruned because
handlers are quicker than the TTL (`InFlightHoldsKey`); one that ended billed or
unknown still holds its entry as long as the TTL lasts (`SettledHoldsKey`); hence
two that used one key without being seen to fail are apart by the TTL
(`UsesApart`). Proved: `ChatTypeCorrect`, `ChatInFlightHoldsKey`,
`ChatOneEntryPerTTL`.

**ClientChat_proofs.** Every step of the composition is a step of `ChatCompletion` or
leaves it alone (`TabRefinesServer`), so `ChatInv` carries over, with
`TabOneEntryPerTTL`. `HistoryInv` follows the question: a completion is only asked
for behind its stored question, which stays in the conversation it was asked in until that
is deleted (`QuestionsKept`), an answer stands behind its question (`AnswersBehind`), and the
id of a deleted conversation is not used again; a charge comes only behind a post: `TabChargedQuestionsStored`. `KeyInv` says of the draft
kept after a failure that its run is over (`FailureOver`) and that only a run whose
predecessor is over takes its key: `TabKeyHandedOn`. `ContextInv`: unless the screen is
`mixed`, the messages on it belong to the conversation on screen, and there are none
without one (`ScreenBelongs`); unless the run is `blended`, so do those it sends along
(`AskedBelong`); and those on their way from the server (`DetailsBelong`) and stored
(`StoredBelong`) always do. The tab starts empty, so this needs no hypothesis:
`TabOneConversation`. What remains of the hazard of `ensureConversation` is in the
property itself, which says nothing of blended runs.

**WorkflowRun_proofs.** `VerdictInv` ties the timer, the client's signal and the
combined signal together (the first abort is the cause, each cause has happened), and a
run that is not over has no verdict yet: `RunVerdict`. For `RunLogIsClosed`, `LogInv`
says of a run under way that its log has no final event yet, that the steps named in it
go up to the current one (`InBuild`, `InText`), and in order; appending the final event
is then the only way to leave that state.

`PrefixKeepsText` is about the filter of `SpeakerPrefix`, for every name, reply and
division into chunks. `PrefixInv`: undecided, the buffer is all that has been
pushed, shorter than the name and four letters, and nothing is shown; decided,
there was a cut at which the buffer was not held, and what is shown is what has
been pushed without the marker matched there (`Decided`). That a match does not depend on
what follows it, when there are no spaces and brackets, is `MarkerEndFree`.

`PromptIsByPriority` and `GroupPromptIsCorrect` are about the three calls of
`PromptAssembly`, for any lengths of texts, budget and caps. *Role-play:* `AssemblyInv`
is what the loop of `assembleContext` keeps: the sizes of the blocks add up to `used`,
every block comes from an entry before which every other is there in whole or is a text
that was there already (`Placed`), and as long as room is left no entry has been missed.
That the list is in order of priority is `RankIs`, with the priorities as keys. *Group:*
`LinesInv` says that the lines collected are the newest messages, as many as fit, and
that the loop is full only if the next did not (`FirstThatFit`); turned round they are
the end of the history (`LastOfIs`, `ReverseIs`). The last part of `GroupHistoryNewest`
is about a question in a talk without one: it is the newest message and is shown,
provided it is within the cap by itself. *Speakers:* `PickKeeps` for the loop of
`parseSpeakerNames`, `FallbackIs` for the fallback; the lemmas hold of any cast and any
words (`SpeakersAre`), the state machine asks about those it lists.

**Browser_proofs.** *GroupTurn.* `GroupInv` adds to the types that a stored message is in the
conversation of its round (`MessagesBelong`), that a round which has got beyond
saving has its question stored, unless the conversation is gone (`QuestionStored`),
and that voices are silent outside `speaking` (`QuietOutsideSpeaking`). `BubblesInv`
says whose an empty bubble is: of a voice of a turn that is speaking, which has
not begun to talk or has failed; the end of a turn cleans up after the
failed ones. Proved: `GroupRepliesBelong`, `GroupNoEmptyBubble`.

*Account.* A session that was refused could come back only by an answer
that still carries its cookie. `AccountInv` rules that out: a code that is fresh has
no answer and no use yet, at most one answer on its way sets the cookie of a login, the
session is unused until that answer has come in, and a 401 for a session clears
it: `RefusedSessionIsGone`. `EndedInv`: a login that a logout has ended is not new, and neither
a cookie nor an answer nor a callback on its way is about it (`Gone`); the answer
to a logout clears both cookies: `LogoutEndsThem`.

*PersonaDesk.* `DeskOneStar` needs little of the state (`DeskShape`) and much of the
steps: each of the ways an answer is received is shown to leave the stars alone, to
toggle one (`OneStarApart`), or to be a load.

*PersonaCards.* Each text of an imported persona is trimmed and within its limit
(`ReadIs`), its tags are not empty, not too long and not too many (`ImportedTagsAre`),
so that the validator takes it; dropping repeated tags and trimming again leave it valid
and are without effect the second time (`BuiltTagsAre`), which gives the round trip, the
longer description apart: it is the old one with the style behind it, cut, and trimmed
because the cut may end in white space. `CardsKeepTheirWay` holds for any lengths, white
space, tags and limits, under the hypothesis `SameLimits`: the two tables of limits
agree. Where one is changed alone, the run's mutant shows what breaks. A greeting made
of a name that is too long for a first message is excepted: the code does not cut it,
and the validator refuses it.

**Stores_proofs.** *DataMigration.* `StoresSafe`: a store holds the last write, or was
damaged from the beginning, or is half written and has a backup, of this start or of an
earlier one, that holds it.
`ChangesBackedUp`: as long as a start is undecided, what it has changed it has
a backup of, taken before the change, and `RunOrdered` ties the list of those backups
to where the start stands. Proved: `MigrationKeepsLastWrite`, `MigrationRefusesCleanly`, for any
number of stores, starts and writes.

*Settings.* `SettingsInv`: every stored section is empty or complete, and
does not hold a key that was deleted and not typed since. What a save stores is the
section merged from the stored one and what was sent, which is complete because what
was left blank is there already.
Proved: `StoredProvidersSound`.

*KnowledgeStore.* `KnowledgeInv` is for both adapters: chunks are of documents of their
base (`AllListed`), and what a request under the lock is about to write follows the
store as it is, with no new document but its own (`DraftsUnderLock`, `DraftsFollow`).
`FileInv` is for the file: the store and the drafts are whole, and the room that was
found before the call to the gateway is still there after it, because the lock is held
meanwhile (`RoomKept`). Proved: `KnowledgeNoOrphans`, `KnowledgeFoundListed`,
`KnowledgeDeletedStays`.

*Chunker.* The chunks of a text are an ordered list without a gap (`Covering`): each is
an interval of letters and of a size that may be sent (`Solids`), each begins behind the
beginning of the one before and no further on than the letter after its end (`Touch`),
and has no letter in common with those before that (`Apart`). Windows over a long
sentence are such a list (`WindowsCover`, where `2 * Overlap <= MaxChars` keeps every
second window apart), a list put behind another is one (`CoveringJoined`), so every
round of the loops keeps it (`AddSentenceStep`, `AddParagraphStep`). For merging,
`MergeInv` adds that what is merged so far ends where the last chunk taken in ends, and
that all of it but the last is apart from every chunk still to come. At the end each
letter is in the first chunk that reaches it (`NoneMissing`) and at most in the one
behind (`TwoAtMost`): `ChunksCoverText`, for any lengths of sentences, sizes and
overlap.

*ObservabilityLog.* Rotations move lines towards older files, the way the query
goes. `AheadOfQuery`: what it is due to find is found already, or in a file it has
still to read, or dropped. Proved: `LogQueryMissesNothing`.

*PersonaMemory.* `MemInv` gives each request what its snapshot is worth later: the count it took
is no more than the messages there are now, each summary it found stale was
missing or of `UpdateStep` messages fewer (`RequestCorrect`), and the file has one summary per
persona, who is in the cast of its conversation. Proved: `MemoryConsistent`,
`MemoryAdvances`.

Only model-checked:

* Liveness, which is out of the prover's reach: `EveryOperationEnds`,
  `EveryRequestAnswered`, `PendingEnds`, `RunEnds`, `NoTabLoadsForEver`, `DrawersGetFree`,
  `GroupComposerUnlocked`; and of `ImplementsSerialExecutor` the fairness.

Every safety property of the passing runs is proved, invariants and action properties
alike. What the runs check beyond that is that the models are not empty: every action
fires, and every property has a mutant of the code that breaks it. The runs that expect
a violation show their counterexample on the small instance, which is all that a
counterexample needs.

## 7 Where code and documents disagree

Five runs are expected to find a violation. Each checks one statement of the
repository against the model.

* `pending_without_entry`. A group request whose `speakerId` is not in the cast is
  answered 400 at chat-handler.ts:222 without `finish`. Its key stays `pending`
  for the TTL although nothing went to the gateway, against the meaning of
  `pending` in request-dedupe.ts:6. Ids that `request-ids.ts` lets through and
  workflow events refuse lead to the same state.
* `double_charge`. A 2xx reply that is not an event stream becomes a 502
  (chat.ts:68-71), a `ChatV1Error`, and the status `failed`, which
  request-dedupe.ts:8 explains as "not charged or refunded". The retry with the same
  key is admitted and charged again; `src/docs/billing.md:26` counts a JSON success as
  `billed`.
* `unauthorized_embedding`. A 401 or 403 of the embedding call is caught by the
  context step as `knowledge_unavailable` and the completion is sent with the
  revoked key, against `src/docs/gateway.md:26` and `src/docs/workflow.md:47`.
* `double_submit`. `submit` tests `pending` (line 427), awaits the creation of the
  conversation (453) and locks the composer only afterwards (503). Enter pressed
  twice in a tab without a conversation sends and charges one draft twice, under
  two keys and in two conversations; `src/docs/billing.md:3` says that the same
  logical request does not enter the gateway twice.
* `hollow_request`. A 409 leaves the empty answer on screen
  (use-conversation-state.ts:567-570). It is sent along with every later question
  and refused by chat.ts:34 with 400, until the conversation is opened again;
  `src/docs/operations.md:103` tells the user to try again with a new id or after
  the TTL.

## 8 What is not modelled

Components without a module: the in-memory conversation repository (each of its
operations is one step already), key storage and ciphers, the redaction of log values,
the capability registry, the message envelope and the validators of stored data, ledger
reconciliation, the backup and restore scripts, the user interface, deployment and
contracts. They are static tables, pure functions of single values, or the work of
external tools; the reasons stand in `PROJECT.json`.

Left out of the modules there are:

* The wording of messages and prompts. Damaged files, which
  `readStore` silently thins out and the next write makes final, are not a state
  the modelled operations reach, but for `DataMigration`, where a store may be damaged.
* Orphaned temporary files after a crash: nobody reads them.
* More than one process on the same data directory: the lock is a module variable
  and the deployment runs one container. The command line of the migration next to
  a running server is left out for the same reason.
* Titles and the refresh of memories in `ClientChat`; voice bindings; world cards; audio; white
  space inside the tags of a card.
* Drafts of providers with a malformed URL or a blank model in the `settings` part of the run;
  `StoredProvidersSound` is for any drafts.
* The gateway's own accounting, TLS, cryptography, rendering, configuration.

Behaviour of the code that no property rules out. Of most of it no statement of the
repository speaks. Some of it goes against one: the memories that stay after a persona is
deleted (`src/docs/security.md:28`), and the quota and knowledge routes, which leave the
cookie of a revoked session in place (`src/docs/gateway.md:26`, `src/docs/security.md:9`);
the first spans components that no run composes, the second is one catch clause of each
route. A reader who changes the code should know of all of it:

* `ensureConversation` replaces the conversation id after an `await` and leaves the
  messages; a conversation opened meanwhile sends its messages along with questions of
  the new one. A drawn picture, and a question whose image was being described, join the
  messages of whatever was opened meanwhile.
* A deletion that is answered late closes the screen by what was on it at the click: one opened
  meanwhile may be closed, or the deleted one stay, where the next question cannot be stored.
* A failed speaker of an *opening* leaves an empty bubble, which the next request
  carries and the server refuses; `NoEmptyBubbleLeft` speaks of turns only. (The comment
  at line 335 of the hook, that after a failed opening the user simply speaks, holds
  when the schedule fails.) Likewise more than 64 messages or 32,000 characters on
  screen are refused with 400.
* Deleting a persona is two calls; when the second fails its documents stay, and
  its memories are never deleted.
* The registry of client request ids is lost on a restart, a group turn has no id at all, and a
  retry appends the question a second time under another message id.
* A stream that is cut off without its end mark is taken for complete and stored.
* A summary saved by an overlapping refresh may be of fewer messages than the one it
  replaces, or bring back one that was cleared meanwhile; near the cap of 200 messages a
  summary is never found stale again; one failed summary throws those of all personas
  away.
* Two exports that find the log full at once rotate twice, and one file of the
  history is lost before its time.
* A speaker's reply that is shorter than its name plus four letters, and may still be
  its prefix, is held back for ever: there is no flush.
* A knowledge base keeps the model of its first document; documents embedded
  later with a model of another dimension are never found.
* A key of blanks alone is stored as configured and decrypts to nothing.
* A late 401 of an old session clears the cookie of a newer one.
* A star clicked twice while its first save is under way: `OneStarAtATime` asks that no other
  star changes with it, not which of the two clicks wins.
* A session the gateway has revoked is answered 400 or 502, without clearing the
  cookie, by the quota and the knowledge routes.
* A load that comes in late shows its result on the page that was opened meanwhile.

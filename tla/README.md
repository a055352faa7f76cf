# SyncTeX in TLA+

SyncTeX is a collaborative LaTeX editor: a React front end whose editors share
Yjs documents, and a set of services behind nginx. This directory holds TLA+
models of its core logic, the TLC configurations that check them on small
instances, and theorems that TLAPS proves for all instances.

    tlc -workers 2 -config HubFaults.cfg MCCollabHub.tla    # one run
    tlapm CollabHub_proofs.tla                              # one component's proofs

`PROJECT.json` lists the runs, for each property a mutation of the model that
breaks it, the source lines behind each definition, the hazards of the code
and the theorems.

## 1. The system

| part | state | operations | talks to |
|---|---|---|---|
| collab-service `hub` | registry of documents; per document: clients, cached awareness, update log, debounce timer | GetOrCreate, Register, Unregister, HandleMessage, upload, removeIfEmpty | clients' channels; Seeder and Uploader |
| collab-service `client`, `handler` | socket, Send channel (512), role | ServeHTTP, ReadPump, WritePump | hub; browser by websocket |
| collab-service `persist` | seed cached by `sync.Once` | Load, Upload, FileRoomEmpty | projects-service by HTTP; object store by presigned URL |
| projects-service internal API | `files` rows with text etag; buckets uploads, snapshot, text | download, upload, compact, text export | object store; file-data-service by gRPC |
| projects-service public API | projects, directories, files, collaborators, invites, showcase | CRUD, invites, roles | Postgres, object store, users-service |
| file-data-service | none | CompactDocument, ExportDocument | object store |
| assistant-service index | index state, file index, chunks | toggle, index_project, retrieval | projects-service, embeddings, Postgres |
| assistant-service chat | settings, usage log, chats | chat_stream, budget | LLM providers, Postgres |
| users-service | users, OAuth states | register, login, OAuth callbacks | Google, GitHub |
| front end session (`session.js`, `useCollabSessions`) | Y.Doc, socket, reconnect timer, binding; one session per file, status, live editors | connect, local edit, remote update, bind, destroy | hub |
| front end files (`useFileManager`, `useTabManager`, `EditorView`) | tabs, texts, dirty flags, saving flag, tree | open, edit, save, create, rename, delete, upload, close | projects-service, object store, sessions |
| front end chats (`useChatManager`, `ChatWindow`, `streamChat`) | chat list, message cache, stream buffer | open, create, delete, ask, stop | assistant-service |
| front end login (`AuthContext`, login, callback, join and guard views) | token, user, loading, stored redirect | check, login, OAuth, logout, accept invite, redirects | users-service, projects-service |
| file browser (`FileTree`) | directory shown, selection, inline edit, dialog, upload | navigate, create, rename, delete, upload | files hook |
| collaborators panel | tab, links, members, loading | load, generate, revoke, remove | projects-service |

Left aside: nginx, deployment scripts, compose files, generated query code
(sqlc), rendering and styles, documents, and the tests, which are read as
statements about the code.

### What is hard

Almost all of the risk is in the life of a shared document:

* Each websocket has two goroutines, each document has timer goroutines and a
  final-save goroutine, and they share the document under a lock that is
  released between reading and using what was read.
* The registry is consulted again by every message and by Unregister, so one
  client may deal with several `*Document` instances of one id.
* The only copy of recent edits is in memory. It reaches the object store by
  unordered whole-object PUTs, and a compaction by two other services reads,
  merges and deletes in separate requests.
* Channels are bounded: broadcasts drop, registration blocks.

Outside of it: indexing runs that overlap (assistant-service), counters read and
written back in Python (token budget), grants that stop half-way (showcase
projects), a save button that overwrites the collaborative log. In the front
end every handler is cut in pieces by its awaits: answers come in any order,
after the tab, the view, the token or the directory they were for has gone,
and React renders and runs effects in between; edits made while a socket is
down are not sent again. The full list, line by line,
is `hazards` in `PROJECT.json`.

### What makes each part correct

| part | properties |
|---|---|
| hub | no send on a closed channel; viewers change nothing; no forgotten timer; the stored log can be read as one; the goroutines of a dead connection end; reopening a document finds everything accepted |
| persistence and compaction | nothing saved is lost by a later save, by compaction or by its failure half-way |
| projects-service | a role is what owner, invite and collaborator rows say; deletes leave no reachable orphan; showcase access is all or retried |
| assistant-service | chunks of a file are those of one indexing run; a status reflects a run that exists; the counter equals the usage log |
| front end session | status and live editors shown are those of the session; one session per file; what is typed reaches the log without gaps; the editor is bound to its file's session; a session that is down does not wait for nothing |
| files | tabs stay consistent; nothing of a closed tab stays behind; saves do not overlap |
| chats | an answer goes to the chat it was asked in; streams are not mixed; the cache is what the server keeps; nothing waits for a request that is over |
| login | the user shown has the stored token; an invite is accepted once; loading ends |
| file browser | the directory shown stays, or is an ancestor that survives; the selection is shown; one edit at a time; nothing stays pending |
| collaborators panel | each link and member listed once, and only those there are |

## 2. Modules

    CollabDocument      the promise: open, accept, save, close
          ^ refinement
    CollabSerial        CollabHub when background work is not overtaken
          | EXTENDS
    CollabHub           the hub, its clients, persistence, compaction

    CollabHub_proofs    theorems about both (EXTENDS CollabSerial)
    MCCollabHub, MCCollabSerial

    RagIndexer          the retrieval index of assistant-service
    CollabSession       sessions of the browser: sockets, bindings, sessions map
    EditorFiles         tabs, texts, saves and tree mutations of an editor view
    ChatPanel           chats: list, cache, window, streams
    AuthSession         token, user and the views that redirect
    FileBrowser         the Files panel
    CollaboratorsPanel  invite links and members

Each of the last seven has an `MC` module that only declares model values and
definitions for its cfg, and a `_proofs` module that extends it. Front end
modules share the environment (an editor view, projects-service) and no
variables: `EditorFiles` keeps of a session only whether it exists,
`FileBrowser` of the files only the tree, and `CollabSession` of the hub only the
log that updates are sent to.

### CollabHub

One document id, because documents of different ids share nothing but the map
entry. Several *instances* of it, because eviction and GetOrCreate create new
`*Document` values for the same id while goroutines still hold old ones; this
is where most of the difficulty comes from.

| variable | code |
|---|---|
| `registry`, `created` | `Hub.documents[id]`; how many instances exist |
| `clients`, `awareness`, `updateLog`, `timer` | fields of each `Document` (hub.go) |
| `seedPc`, `seedSnap`, `seedUps` | `Seeder.once`, `.snapshot`, `.updates` (seed.go) |
| `pc`, `at`, `msg`, `pending` | a connection's goroutine: the step it is at, the `*Document` it looked up, the message it handles, the awareness it has yet to send |
| `send`, `closed`, `sock`, `pump` | the Send channel, the socket, whether the write pump runs |
| `recv` | what the browser behind the connection has seen |
| `jpc`, `jdoc`, `jbuf`, `jbase` | an upload goroutine: step, instance, blob, merged snapshot |
| `snapshot`, `uploads` | the two objects of the document in the object store |
| `author`, `chatter`, `faults` | history and bounds |

A step is one lock-protected region, one channel operation or one HTTP request;
between two of them anything may happen. Registration is `Connect` (lookup),
`LoadSnapshot`/`LoadUploads` (the `sync.Once`), `SeedClient` (copy of the log,
sends), `Join` (insertion), `Announce` (awareness), `StartPumps`. A message is
`ReceiveUpdate` or `ReceiveChatter`, then `AppendUpdate` or `CacheAwareness`,
`Broadcast`, `ScheduleUpload`. Departure is `LeaveLookup`, `Unregister`. An
upload is `BuildBlob`, `Put`; the final one goes on with `ReadBase`, `ReadRaw`,
`WriteSnapshot`, `DeleteUploads` (`InternalCompactFile` and `run_compaction`)
and `RemoveIfEmpty`. `LoadFails`, `PutFails`, `ReadBaseFails`,
`CompactionFails` and `Crash` are the faults.

Abstractions. An update is a number: Yjs updates are opaque to the hub,
commutative and idempotent, so a snapshot is a set of updates, a log a
sequence. The seed is sent in one step: nothing else can touch a channel whose
client has not joined. The buckets' two downloads are separate steps. A socket
that fails before the pumps start is noticed when they do. Time is not
modelled: an armed timer may fire at any moment.

### CollabSerial and CollabDocument

`CollabDocument` says what users rely on: nothing saved is lost, and a document
closes only when everything accepted is saved. `CollabHub` does not implement
it (section 4). `CollabSerial` is `CollabHub` restricted by `Serial`: at most
one upload goroutine works at a time, and nobody is connected during a final
save; no request fails except those of a compaction. Under that assumption,
which the code makes by choosing a debounce delay longer than a PUT, the hub
implements `CollabDocument` through the mapping `open <- registry # None`,
`accepted <- Accepted`, `saved <- Durable`.

### RagIndexer

One project. `status` is in its row of `rag_index_state`; `fileStatus`,
`fileCount` the rows of `rag_file_index`; `chunks` the committed rows of
`rag_chunks`, each named by the run that inserted it and its index. A run
(`rpc`, `seen`) is the background task `index_project`; each of its files is a
coroutine (`task`, `found`, `gone`, `read`). A step is one transaction or one
statement that another coroutine can get between: `set_index_status` reads and
then writes (`ReadStatus`, `WriteStatus`), `replace_file_chunks` deletes what
it sees and then commits (`DeleteChunks`, `CommitChunks`). SQLAlchemy writes back
only attributes that changed (`Flushed`), so a write of the value read earlier
leaves alone what another run wrote. `RunFails` and `FileFails` are
exceptions at any await, with the handlers that follow; `Crash` stops the
service. Downloading, splitting and embedding are one choice of a number of
chunks. The row's `enabled` flag is left out: a toggle is the choice of when
`Enable` starts a run, and nothing else of the module reads the flag.
`overlapped` is history: a run was started while another one worked.

### CollabSession

One editor view of a collaborative project, from mount to unmount. `sess` holds
every session `createCollabSession` made, also destroyed ones, because their
sockets, timers and retries may call back later; `current`, `bound`, `status`,
`shown` are the refs and state of `useCollabSessions`; `editor`, `model`,
`retries` the Monaco editor and the 50 ms retries of `bindActiveSession`. A
session's `ws` goes "connecting", "open", "closing" (after `destroy`),
"closed"; `timer` and `attempts` are the reconnects; `made` and `out` the updates
typed and those on their way to the hub; `peers` the awareness clients of others
it knows. An update is named by its author and the author's Yjs clock. `Opened`,
`Closed`, `TimerFires`, `Edit`, `Awareness` are the callbacks of a session,
`OpenSession`, `CloseFile`, `BindEditor`, `RetryBind`, `Unmount` those of the
hook, and `CreateDone` is the answer to a creation, which may come after the
unmount. `late` is history: an editor was mounted before its model.

Of the hub there is the log `HubReceives` appends to. What it sends back is left
out, and with it the text of the Y.Doc: that the hub drops messages for a full
channel, and misses updates between a new client's seed and its insertion, is in
`CollabHub`, and a session can do nothing about either. An awareness client that
stays silent is removed after 30 s, whether or not the socket is open; the
session then lists those it still knows.

### EditorFiles

One user's view of one project. A step is what runs between two awaits. `tabs`,
`active` are `useTabManager`; `contents`, `original`, `unsaved`, `isSaving`,
`tree` are `useFileManager`; `sessions` the keys of the sessions map; `saves`,
`loads`, `ops` the requests under way. A tree mutation is `BeginOp` (it takes
effect), `TreeRead` (refreshTree reads), `OpDone` (the rest of the handler).
The object store is not modelled: others write there, so a download may bring
any text.

### ChatPanel

Two sides: what assistant-service keeps (`rows`, `history`) and what the view
shows (`chats`, `messages`, `loading`, the tabs, and the one ChatWindow all chats
share). The stream buffer exists three times in the code, as state set, as
state rendered and as the ref an answer is read from, and a passive effect
copies the second to the third at some later time: `buffer`, `rendered`,
`ref`, `effect`; `Render` and `RunEffect` are React's steps. A request ends with
`onDone` (`Done`), with `onError` (`StreamFails`), or with neither
(`EndsSilently`): its body ends without a done event, or the error event has an
empty message. A question and its answer have the number of the stream. `raced` is history: chats asked a question
while an answer that replaces their cache was under way.

### AuthSession

One browser tab. `page` is the route, `token` and `saved` are localStorage,
`user` and `loading` the AuthProvider, `calls` its requests, which go on when
the provider is replaced (`old`). `LoginRedirects`, `GuardRedirects`,
`JoinEffect` are effects that run some time after the render that causes
them. OAuthCallback's effect runs again when the user or the loading flag changes
while it is mounted, as BrowserRouter navigates in a transition, after them. `joinSeen` is the dependency list JoinView's effect last ran with.
`disturbed` is history: an answer came for a token that was replaced, or to a
provider that was gone.

### FileBrowser

A tree maps a node to its parent; `disk` is the service's, `tree` the view's,
`previous` what `previousIndexRef` holds. A change of the tree or of the
directory runs the effects (`Settle`): a directory that is gone is left for an
ancestor, and selection and focus leave rows that are not shown. The ancestor is
looked up by a state updater that reads the ref when it runs: at once, in the
old index, or, when the end of the panel's own request was rendered with the new
tree, at the next render, in the new index, which has no parent of a node that
is gone (`IndexesRead`). `edit`, `target`, `deleting`, `operation` are the inline
edit, the dialog and the upload, `calls` the requests, which go on when the panel
unmounts. `strayed` is history: the end of a request selected a node of a
directory not shown.

### CollaboratorsPanel

`links` counts how often each link is listed, `people` are the members listed,
`loading` the one flag every handler raises and lowers, `calls` up to three
requests under way. A request is sent (`ShowTab` for a load, `GenerateLink`,
`RevokeLink`, `RemoveCollaborator`), served or refused, its answer lost or not,
and ends (`LoadDone`, `GenerateDone`, `RevokeDone`, `RemoveDone`, `Fails`).
Others accept invites (`Join`), and invites expire. A load notes the changes it
overlaps (`dirty`), which its answer puts into `raced`.

## 3. Runs that pass

| run | instance | shows |
|---|---|---|
| `HubFaults` | 1 writer, 1 viewer, 4 instances, channels of 1, 2 messages, each an update, awareness or sync-step-1, 1 fault | `TypeOK`, `NoSendOnClosedChannel`, `ViewersCannotWrite`, `ArmedTimerIsKnown`, `StoredLogIsALog` with any request failing and a crash anywhere; `DeadConnectionsEnd` with requests that never return as well |
| `HubSerial` | 2 writers, 2 instances, 3 messages, at most 2 of them updates, 1 compaction failure | `SeedIsComplete`, `ImplementsDocument` |
| `RagOverlap` | 2 runs, 2 files, semaphore of 1, 1 chunk, 1 fault | `TypeOK`, `IndexingMeansWorking`, `NeverEmptied`, `RunsEnd` with overlapping runs, `SerialIsCurrent` for the behaviours without |
| `CollabSession` | 1 file, 2 sessions, 3 editors, 2 reconnects, 1 update by the user per session, 2 others | `TypeOK`, `StatusTells`, `OneSessionPerFile`, `EditorIsBound`, `NoLimbo` |
| `EditorFiles` | 1 file and 1 that may be made, 2 texts, 1 download, 2 tree mutations | `TypeOK`, `OneActiveTab`, `NothingOutlivesItsTab`, `SavesDoNotOverlap` |
| `ChatPanel` | 1 chat and 1 that may be made, 1 creation or deletion, 2 questions of 1 chunk | `TypeOK`, `AnswersStayInTheirChat`, `OneLiveStream`, `AnswersAreNotMixed`, `CacheAgrees` |
| `AuthSession` | 2 tokens, 6 acts of the user | `TypeOK`, `UserHasToken`, `JoinsOnce`, `WaitingEnds` |
| `FileBrowser` | a root, a directory, 1 directory that may be made, 1 file that may be uploaded, 4 requests, 2 at a time | `TypeOK`, `SelectionShown`, `NothingWaitsInVain`, `StaysOnItsPath` |
| `CollaboratorsPanel` | 1 link that may be made, 1 member, 3 requests at a time | `TypeOK`, `ListsAgree` |

Bounds. In the hub, two instances are what it takes for a client to meet an
instance it did not join. Channels of one message make every broadcast a
candidate for a drop and a second seed entry a block. In `HubFaults` one update
and one other message are enough for a client to be sent something while it
leaves, and two updates for a log that grows while it is uploaded or read
(`MaxMessages` bounds both kinds together); in `HubSerial` two updates give an
upload that is older than another. The four instances of `HubFaults` are as many
as two connections can create before the bound would stop an Unregister; a run
with fewer could confuse the bound with a hang. For the index, two runs are what
it takes to overlap, or for one to repair what the other left; two files and a
semaphore of one let a file wait for another.

In the front end, two sessions of a file are one that was destroyed and its
successor; three editors one that was unmounted, the next, and one more for the
successor; files do not share sessions, so one file and the switch away from it
suffice. Two reconnects are one that is not the last allowed and one that is;
of two others, one can age out while the other is still listed. `MaxOps` and
`MaxRequests` bound how many mutations of the tree, creations and deletions of chats, and requests of the
file browser there are in all (`begun`, `asked` count them, which no code does):
two mutations race, and a third adds no new pair; four requests are a directory
made, another made in it, and both deleted. Two questions are what mixes
answers, and what lets an answer end in another chat. Six acts lead from a link
through login and back, or through a logout and a second login, with answers in
any order. In the collaborators panel the third request is the change that falls
between two overlapping loads.

Every safety invariant, every action property and the refinement have also been
proved without these bounds (section 5); for them a run is the first evidence
and not the only one. Liveness rests on the runs alone.

Histories. Some properties name the one circumstance in which they do not
hold, with a history variable: `late`, `raced`, `disturbed`, `strayed`, `lost`,
`overlapped`. What the code does then is left to the hazards of `PROJECT.json`,
which do not count these properties as covering it; every other behaviour is
checked. `CollaboratorsPanel`
is reduced by the symmetry of its slots, which nothing distinguishes; its
properties are invariants.

Fairness. In the hub (`Fairness`) the Go scheduler runs every runnable
goroutine, so each goroutine's next step is weakly fair; timers expire. No
fairness is assumed of what clients send, of connecting or leaving, of faults, or
of HTTP requests (`Load`, `Put` and the compaction): the clients of seed.go:34
and upload.go:25 have no timeout, and a request that hangs holds the
`sync.Once`, and every goroutine that waits on it, for good. That is why no
property says that uploads end or that Register returns; `DeadConnectionsEnd`
does not need a request to return. In `RagIndexer` the event loop resumes every coroutine
whose request, transaction or semaphore is available; toggles are not fair. In
`CollabSession` a connection attempt ends one way or the other and a timer
expires. In `AuthSession` effects run and requests are answered, well or not.

`CHECK_DEADLOCK FALSE` where the system may rest: all clients have left; the
view was left, or shows its error screen; there is no chat; everything was deleted.

## 4. What the comments say and the code does not do

| run | statement | what happens |
|---|---|---|
| `HubLosesEdits` | hub.go:212 "upload synchronously before evicting so no edits are lost" | a debounced PUT in flight overtakes the final one |
| `BrowserEdits` | file-explorer-ui.md:202 "While a mutation is pending, [...] do not allow another edit to start" | opening another directory drops the pending edit, and with it the guard: another edit starts, and the first request's end closes or fails it |
| `SessionGap` | session.js:276 "Observe local Y.Doc changes and forward them to the server" | an update typed while the socket is down is never sent, one typed after the reconnect is, and Yjs integrates nothing of that author behind the gap |

Other statements of the comments fail as well. They are defined at the end of
their modules and have no run of their own; TLC refutes each in place of
`NoEditsLost` in `HubLosesEdits.cfg` with two writers (and 2 instances for the
first and third; channels of 1 and 2 updates for the third, 1 update for the
others; `FairSpec` and `PROPERTIES` for the last two):

* `OpenDocumentsAreRegistered` (hub.go:40 "global registry of open documents"):
  an eviction between a connection's lookup and its insertion leaves it in an
  instance the hub does not know; the departure of that client then creates an
  instance that nobody evicts.
* `NewClientIsCurrent` (hub.go:132 "bring a new client to the current document
  state"): an update between the copy of the log and the insertion is missed.
* `RegisterReturns` (ws.go:73 "Register adds the client to the doc and sends it
  the seed state"): a seed longer than the channel blocks for good.
* `DebouncedUploadFires` (hub.go:304 "fires after a quiet period with no new
  updates"): another client's departure cancels the timer.

`NothingSurvivesUnmount` of `CollabSession` ("Tear down all sessions on
unmount") fails when a creation is answered after the unmount. Two overlapping
indexing runs leave the chunks of both in `RagIndexer` (crud.py:169 "Delete all
existing chunks for a file and insert fresh ones atomically"), which is why
`SerialIsCurrent` speaks of runs that do not overlap. In `ChatPanel` the window
goes on waiting when `streamChat` calls neither `onDone` nor `onError`: after
"Stop generation", whose abort it swallows (llm.js:117), after a body that ends
without a done event (llm.js:139), and after an error event with an empty message
(router.py:267, llm.js:149). `OneLiveStream` says that it is only then, with the
values "aborted" and "silent" in its second conjunct. In `FileBrowser` a panel
whose directory goes with its own request shows the root and not the "nearest
surviving ancestor" (file-explorer-ui.md:125); `StaysOnItsPath` says how far it
may go. In `CollabSession` others are listed again as live editors of a file that
is shown as disconnected when one of them ages out; `StatusTells` allows that,
and nobody else.

## 5. Proofs

Each `_proofs` module proves, for every value of the constants (any number of
connections, files, sessions, requests, chunks; no bound of a run), what the
component's run checks on a small instance. The argument is the same everywhere:
`Types` (or `TypeOK`) is inductive; each further property is strengthened to an
inductive invariant, which TLC checked first; a lemma per invariant has one step
per action, and actions that leave the invariant's variables alone are grouped.
The last step of each theorem is temporal (PTL).

Assumptions. Only those of the modules themselves. `ConstantsAssumption`,
`NoneIsNone`, `BoundsAssumption`, `BoundsAreNaturals` and `TreeAssumption` say of
what kind the constants are; the last one says of the tree the panel starts with
that it has no cycle, which projects-service sees to: CreateDirectory makes a
directory in an existing one, and UpdateDirectory sets its name and not its
parent. `NoneAssumption`, `NoBindingIsNone`,
`NoEditIsNone` and `AnswersAssumption` say that the value "nothing" is none of
the values it stands in for (messages, bindings, edits, answers), as `null` is
in the code; TLA+ is untyped and does not tell.

`CollabHub_proofs`

* `TypeCorrect`: `TypeOK` is inductive: besides types it says that every
  goroutine past its lookup holds an instance and that no channel exceeds its
  capacity. `TypeFrame` reduces each action to the groups of variables it
  changes.
* `ChannelSafety`, from `MembershipCorrect`. `NoSendOnClosedChannel` is not
  inductive: that the members of an instance have open channels says
  nothing about a client that is a member of two instances, one of which closes
  its channel. `Membership` adds that nobody is in two instances, because a
  connection joins once, in the step after "join", and that a closed channel
  belongs to a connection that is gone.
* `TimersKnown`: inductive with `TypeOK`: whoever overwrites `debounceTimer`
  stops the timer it refers to (`StoppedTimers`).
* `ViewersCorrect`: what is in a bucket came from a blob, a blob from a log and
  a seed, those from a message a writer sent. The invariant says of every place
  an update can be in that it holds only updates of writers.
* `StoredLogCorrect`: whatever overtakes, fails or crashes, the stored log names
  no update twice, is the beginning of what one loaded instance has seen, and
  holds nothing that was not accepted. `StoredLogIsALog` says nothing of the
  blob a goroutine is about to PUT, or of an instance that logs updates before
  it has loaded its seed, as one that HandleMessage created does. `LogInv` says
  that every copy of a log, in the bucket, in a goroutine or in a seed, was read
  off a loaded instance, whose own log only grows at its end
  (`CopiesReadable`); that an update enters one in-memory log, once
  (`LoggedOnce`); and that a log shares nothing with its own seed nor, before
  its instance is loaded, with any (`LogsApart`). A second download of a seed
  would break it, and the `sync.Once` is where the proof uses that there is
  none. It holds of every behaviour, unlike `NoEditsLost`: edits may be lost,
  but what is stored is not garbled.
* `HubImplementsDocument`: `SerialSpec => Doc!Spec`, with `SeedComplete`,
  `NothingLostSerially` (`NoEditsLost`, which `HubLosesEdits` refutes for `Spec`)
  and `ClosedDocuments` (what `CollabDocument` promises of a closed document).
  The inductive invariant `SerialInv` has two parts. `Attachment`: connections,
  members, goroutines and armed timers are all at the registered instance, which
  is the newest, and instances are loaded in order; this is what two clients of
  different instances violate in `CollabHub`. `Stored`: everything accepted is
  saved while the instance is not loaded and from the final PUT on (`SavedAll`);
  in between, the stored log lies between the one the instance was seeded with
  and the one it has (`SeedFollows`), and each blob between the stored log and
  the one in memory (`UploadsFollow`). Then `DocumentStep` maps each action:
  `Connect` to `Open` when nothing is registered, `AppendUpdate` to `Accept`,
  `Put` and the steps of a compaction, failed ones included, to `Save`,
  `RemoveIfEmpty` to `Close`, everything else to a stutter.

`EditorFiles_proofs`

* `TypeCorrect`, `TabsCorrect`: `TypeOK` and `OneActiveTab` are inductive
  together: that closing the active tab leaves an open one active needs the
  tabs to be a sequence without repetitions, which the removal of a tab
  preserves (lemmas about `Without`, `AddTab` and `CloseTabs`).
* `CleanupCorrect`, from the former: a session is opened and a text marked
  unsaved only with the tab there, and every step that takes a tab away takes
  both. It is about tabs: a file deleted with its directory, or whose deletion
  ends with a failed refresh, keeps its tab with its session and its mark.
* `SavesCorrect`: inductive by itself.

`CollabSession_proofs`

* `TypeCorrect`; `SessionsCorrect` with `Ownership`: each session is filed under
  its own file, and only a session that is alive closes on its own account.
* `StatusCorrect`: what is shown changes with the one session it is shown of
  (`TellsOne`), for any set of others, and a destroyed session's callbacks change
  nothing.
* `EditorBound` with `EditorFollows`: as long as every editor came with its
  model there is nothing to retry, and showing a tab binds it.

`ChatPanel_proofs`

* `TypeCorrect`; `LiveStreamCorrect`: inductive with the fact that a window that
  waits has asked: it waits for a request under way, one it stopped, or one that
  ended without a callback; `AnswersNotMixed` on top of it.
* `AnswersStay` with `MessagesBelong`: messages cached, stored, or on their way
  in the answer to a load all belong to their chat.
* `CacheCorrect` with `OnlyKnownChats` (a deleted chat does not come back),
  `QuestionsCached` (a question makes its chat cached or raced) and
  `CacheFollows`, which says how far the cache is from what the server has by
  what the request under way has done so far.

`RagIndexer_proofs`

* `TypeCorrect`: `Semaphore` adds that the holders are finitely many, which a
  cardinality needs when files may be infinite.
* `NeverEmptiedCorrect`, an action property: only `CommitChunks` changes a
  file's chunks.
* `IndexingCorrect` with `IndexingIsOverwritten`: a run that finds the status it
  read equal to what it is to write does not write; the run that wrote
  "indexing" last has read something else.
* `SerialCorrect` with `OneAtWork` and `TasksAreAlone`: until runs overlap,
  nobody else writes the rows a task works on.

`AuthSession_proofs`

* `TypeCorrect`; `UserCorrect` with `Checked`: the user shown is that of the
  stored token, or a check is under way that will make it so.
* `JoinsOnceCorrect` with `Joined`: after an acceptance the effect has run with
  a known user, and only a new mount sets `loading` again.

`FileBrowser_proofs`

* `SelectionCorrect` with `Selection`: the effects (`Settle`) run at every
  change of tree or directory, and notice every row that went.
* `NothingWaits` with `Awaited`, shown in three independent parts. These need only
  `Shape` of the types, which says nothing of cycles.
* `TypeCorrect` and `TreesAgree`, from `Typed` and `Agreement`: a tree is
  `Rooted` (every set of its nodes but {} has one whose parent is outside) and stays so
  when a leaf is added or a node is taken out with all that is below it; and all
  trees, the service's, the view's and the answers on their way, agree about the
  parents of the nodes they share, because no node is ever moved and no id used
  again.
* `PathCorrect`, an action property. `Surviving` looks for the nearest ancestor in
  the old tree, while the path it leads to is one in the new tree; that the two
  agree is `Agreement`. An updater that reads the new index ends at the root.

`Path` is a recursive function on trees of any depth. `PathEquation` shows that
it has the equation it is defined by, by giving a solution (the least set that
contains a node and, with a node, its parent), and `TreeInduction` is the
induction over a tree in first-order form, where a set takes the place of the
predicate: what is to be shown of every node is gathered in a set, and
`Rooted`, applied to what the set lacks, shows that it lacks nothing.
`PathFacts`, `PathTransitive`, `PathAntisymmetric`, `PathsAgree` and
`SurvivingFacts` follow.

`CollaboratorsPanel_proofs`

* `TypeCorrect` and `ListsCorrect`: `ListsAgree` says nothing of items with a
  change under way. `ListsWillAgree` does: the list is right, or an answer on
  its way will put it right, with what each kind of request knows (`Generating`,
  `Revoking`, `Removing`, `Loading`) and what a load notes of the changes it
  overlaps. `TypeCorrect` needs it too: that a new link is listed at most twice
  depends on the loads that may have seen it.

Only model-checked: liveness (`DeadConnectionsEnd`, `RunsEnd`, `NoLimbo`,
`WaitingEnds`), because fairness and ENABLED are beyond the prover.
The theorems of the library on induction are beyond it as well, since they take
the predicate as a parameter; nothing here needs them.

## 6. Not modelled, and the plan

* A save of a collaborative file PUTs plain text over the hub's log
  (useFileManager.js:97): it needs `CollabHub` and `EditorFiles` over one bucket.
* The etag and the regeneration of texts (`TextExport`), with the byte framing
  of the log: planned as functions against a reference definition.
* What a session receives (`onmessage`), and the text of its Y.Doc: it needs the
  hub and the sessions over one channel.
* The token budget (`TokenBudget`): check, stream, record by concurrent
  requests. Context assembly and the splitting of texts: pure functions.
* `ProjectAccess` (roles, showcase grants) and `ProjectTree` (cascading deletes)
  of projects-service, and the accounts of users-service: the front end modules
  have their answers as an environment.
* Dashboard, settings, local models panel, markup, styles and themes: no state
  shared with the rest, one request per action. `RightSidebar` is commented
  out. Who of the members is editing is a pure function of the awareness users.
* nginx, deployment scripts, compose files, generated query code (sqlc).

Of the proofs, what is left is liveness, which is beyond the prover (section 5).
New modules of this plan would come with theirs.

---------------------------- MODULE EditorFiles ----------------------------
(***************************************************************************)
(* The file side of the editor view: the tabs (useTabManager), the file    *)
(* contents, dirty flags, saves and tree mutations (useFileManager), and   *)
(* the wiring between them and the collaboration sessions (EditorView).    *)
(*                                                                         *)
(* One user's view of one project. A step is what runs between two awaits: *)
(* a user event with the render that follows it, a request taking effect   *)
(* at the server, or the resumption of a handler by an answer. Of the      *)
(* server the tree is modelled. What the object store holds is not: others *)
(* write there too, so a download may bring any text. What a session does  *)
(* is CollabSession's.                                                     *)
(***************************************************************************)
EXTENDS Naturals, Sequences, FiniteSets

CONSTANTS
    Files,       \* files the project has or may get
    Existing,    \* those it has when the view opens, all of them text
    Missing,     \* undefined: no entry in a map
    Url,         \* a presigned URL, kept in fileContents for an image
    MaxText,     \* bound: texts a user can type, 0 is the empty string
    MaxLoads,    \* bound: downloads in flight
    MaxOps       \* bound: tree mutations begun, which may all overlap

ASSUME ConstantsAssumption ==
    /\ Existing \subseteq Files
    /\ {MaxText, MaxLoads, MaxOps} \subseteq Nat
    /\ {Missing, Url} \cap (0 .. MaxText) = {}
    /\ Missing # Url
    /\ Missing \notin Files

Text == 0 .. MaxText
Content == Text \cup {Url, Missing}

Kinds == {"create", "rename", "delete", "rmdir", "upload"}

VARIABLES
    \* The server: the files of the project, and which of them are images.
    rows, images,
    \* EditorView: has the project loaded, is the error screen shown, the
    \* project's mode as of then; useFileManager's treeData.
    loaded, error, isCollab, readOnly, tree,
    \* useTabManager.
    tabs, active,
    \* useFileManager: fileContents, originalContentsRef, unsavedFiles.
    contents, original, unsaved,
    isSaving,
    \* Keys of collabSessions.
    sessions,
    \* Requests: PUTs of handleSaveFile, downloads, tree mutations.
    saves, loads, ops,
    \* History: the files ever created, and how many mutations were begun.
    born, begun

serverVars == <<rows, images>>
viewVars   == <<loaded, error, isCollab, readOnly>>
tabVars    == <<tabs, active>>
textVars   == <<contents, original, unsaved>>
saveVars   == <<isSaving, saves>>
historyVars == <<born, begun>>
vars == <<serverVars, viewVars, tree, tabVars, textVars, saveVars, sessions,
          loads, ops, historyVars>>

NoText == [f \in Files |-> Missing]

Init ==
    /\ rows = Existing
    /\ images = {}
    /\ loaded = FALSE /\ error = FALSE /\ isCollab = FALSE
    /\ readOnly = FALSE
    /\ tree = {}
    /\ tabs = <<>> /\ active = Missing
    /\ contents = NoText /\ original = NoText /\ unsaved = {}
    /\ isSaving = FALSE /\ saves = {}
    /\ sessions = {} /\ loads = {} /\ ops = {}
    /\ born = Existing /\ begun = 0

Open == {tabs[i] : i \in DOMAIN tabs}

\* The view is drawn: neither "Loading project" nor the error screen.
Shown == loaded /\ ~error

-----------------------------------------------------------------------------
(***************************************************************************)
(* useTabManager, and what opening and closing a tab does besides.         *)
(***************************************************************************)

\* addTab.
AddTab(f) ==
    /\ tabs' = IF f \in Open THEN tabs ELSE Append(tabs, f)
    /\ active' = f

\* The tabs without the k-th.
Without(k) ==
    [i \in 1 .. Len(tabs) - 1 |-> IF i < k THEN tabs[i] ELSE tabs[i + 1]]

RightmostOfAll(list) == tabs[Len(tabs)]

\* The last of a list of tabs.
Rightmost(list) == IF list = <<>> THEN Missing ELSE list[Len(list)]

\* handleTabClose: the rightmost remaining tab replaces the active one.
CloseTabs(f) ==
    \/ f \notin Open /\ UNCHANGED tabVars
    \/ \E k \in DOMAIN tabs :
        /\ tabs[k] = f
        /\ tabs' = Without(k)
        /\ active' = IF active = f THEN Rightmost(Without(k)) ELSE active

\* clearFileContent.
ClearText(f) ==
    /\ contents' = [contents EXCEPT ![f] = Missing]
    /\ original' = [original EXCEPT ![f] = Missing]
    /\ UNCHANGED unsaved
ClearContent(f) ==
    /\ contents' = [contents EXCEPT ![f] = Missing]
    /\ original' = [original EXCEPT ![f] = Missing]
    /\ unsaved' = unsaved \ {f}

\* openCollabSession, unless one is open.
OpenSession(f) == sessions' = sessions \cup {f}

-----------------------------------------------------------------------------
(***************************************************************************)
(* The initial load of the project.                                        *)
(***************************************************************************)

Load ==
    /\ ~loaded
    /\ loaded' = TRUE
    /\ tree' = rows
    /\ isCollab' \in BOOLEAN
    /\ readOnly' \in BOOLEAN
    /\ UNCHANGED <<serverVars, error, tabVars, textVars, saveVars, sessions,
                   loads, ops, historyVars>>

LoadFails ==
    /\ ~loaded
    /\ loaded' = TRUE
    /\ error' = TRUE
    /\ UNCHANGED <<serverVars, isCollab, readOnly, tree, tabVars, textVars, saveVars,
                   sessions, loads, ops, historyVars>>

-----------------------------------------------------------------------------
(***************************************************************************)
(* Selecting, closing and editing.                                         *)
(***************************************************************************)

\* loadFileContent: a download starts unless some text is there already.
StartLoad(f) ==
    IF contents[f] \notin {Missing, 0} THEN UNCHANGED loads
    ELSE \E n \in 1 .. MaxLoads :
            /\ \A l \in loads : l.id # n
            /\ loads' = loads \cup {[id |-> n, file |-> f]}

\* handleFileSelect of a file that has no tab.
SelectNewFile(f) ==
    /\ Shown /\ f \in tree /\ f \notin Open
    /\ AddTab(f)
    /\ \/ /\ f \in images
          /\ contents' = [contents EXCEPT ![f] = Url]
          /\ UNCHANGED <<sessions, loads>>
       \/ /\ f \notin images /\ isCollab
          /\ OpenSession(f)
          /\ UNCHANGED <<contents, loads>>
       \/ /\ f \notin images /\ ~isCollab
          /\ StartLoad(f)
          /\ UNCHANGED <<sessions, contents>>
    /\ UNCHANGED <<serverVars, viewVars, tree, original,
                   unsaved, saveVars, ops, historyVars>>

\* A click on a tab, or on a file that has one.
SelectTab(f) ==
    /\ Shown /\ f \in Open /\ active # f
    /\ active' = f
    /\ UNCHANGED <<serverVars, viewVars, tree, tabs, textVars, saveVars,
                   sessions, loads, ops, historyVars>>

\* handleTabCloseWithCleanup and handleTabClose.
CloseTab(f) ==
    /\ Shown /\ f \in Open
    /\ CloseTabs(f)
    /\ ClearContent(f)
    /\ sessions' = sessions \ {f}
    /\ UNCHANGED <<serverVars, viewVars, tree, saveVars, loads, ops, historyVars>>

\* What the editor of a plain file shows: '' until there is a content.
ShownText(f) == IF contents[f] = Missing THEN 0 ELSE contents[f]

\* handleEditorChange of a plain file.
Edit(f, t) ==
    /\ Shown /\ active = f /\ f \notin images /\ f \notin sessions
    /\ ~readOnly /\ t # ShownText(f)
    /\ contents' = [contents EXCEPT ![f] = t]
    /\ unsaved' = IF t # original[f] THEN unsaved \cup {f} ELSE unsaved \ {f}
    /\ UNCHANGED <<serverVars, viewVars, tree, tabVars, original, saveVars,
                   sessions, loads, ops, historyVars>>

-----------------------------------------------------------------------------
(***************************************************************************)
(* handleSaveFile on Ctrl+S. The listener is on the window: it also works  *)
(* behind the error screen, and for an image.                              *)
(***************************************************************************)

SessionItself(f) == IF f \in sessions THEN f ELSE contents[f]

\* What is sent: the text of the session's Y.Doc, which is not kept here, or
\* the entry of fileContents; a missing entry makes an empty body.
Saved(f) == IF f \in sessions THEN Missing ELSE contents[f]

MayAlwaysSave == TRUE
MaySave == ~isSaving

Save(f) ==
    /\ loaded /\ active = f /\ MaySave
    /\ isSaving' = TRUE
    /\ saves' = saves \cup {[file |-> f, data |-> Saved(f),
                              collab |-> f \in sessions]}
    /\ UNCHANGED <<serverVars, viewVars, tree, tabVars, textVars, sessions,
                   loads, ops, historyVars>>

\* The end of handleSaveFile: the file is marked clean whatever has been
\* typed since.
MarkSaved(s) ==
    IF s.collab THEN UNCHANGED <<original, unsaved>>
    ELSE /\ original' = [original EXCEPT ![s.file] = s.data]
         /\ unsaved' = unsaved \ {s.file}

SaveDone(s) ==
    /\ s \in saves /\ ~readOnly
    /\ saves' = saves \ {s}
    /\ isSaving' = FALSE
    /\ MarkSaved(s)
    /\ UNCHANGED <<serverVars, viewVars, tree, tabVars, contents,
                   sessions, loads, ops, historyVars>>

\* An error, from a request that fails or a file that is gone, replaces the
\* view by the error screen; "finally" lowers isSaving.
SaveFails(s) ==
    /\ s \in saves
    /\ saves' = saves \ {s}
    /\ isSaving' = FALSE
    /\ error' = TRUE
    /\ UNCHANGED <<serverVars, loaded, isCollab, readOnly, tree, tabVars, textVars,
                   sessions, loads, ops, historyVars>>

-----------------------------------------------------------------------------
(***************************************************************************)
(* Downloads. The object store answers with the object or with an error,   *)
(* whose body is taken for the content.                                    *)
(***************************************************************************)

\* The end of loadFileContent, whatever has happened to the file meanwhile.
LoadArrives(l, content) ==
    /\ l \in loads
    /\ content \in Text
    /\ loads' = loads \ {l}
    /\ contents' = [contents EXCEPT ![l.file] = content]
    /\ original' = [original EXCEPT ![l.file] = content]
    /\ UNCHANGED <<serverVars, viewVars, tree, tabVars, unsaved, saveVars,
                   sessions, ops, historyVars>>

\* fetch rejects: handleFileSelect shows the error screen.
LoadRejected(l) ==
    /\ l \in loads
    /\ loads' = loads \ {l}
    /\ error' = TRUE
    /\ UNCHANGED <<serverVars, loaded, isCollab, readOnly, tree, tabVars, textVars,
                   saveVars, sessions, ops, historyVars>>

-----------------------------------------------------------------------------
(***************************************************************************)
(* Tree mutations: a request, then refreshTree, then the rest of the       *)
(* handler. Several may overlap, and so may their refreshes.               *)
(***************************************************************************)

\* A handler that waits for the answer. After a renaming, or the deletion of a
\* directory, it only refreshes the tree.
Pending(kind, f) ==
    LET onlyRefreshes == kind \in {"rename", "rmdir"}
    IN [kind |-> IF onlyRefreshes THEN "refresh" ELSE kind,
        file |-> IF onlyRefreshes THEN Missing ELSE f,
        step |-> "applied", got |-> {}]

\* The file explorer asks for a mutation of a file it shows, or for a new
\* one, and the request takes effect at projects-service; "rmdir" deletes the
\* directory the file is in. A request that is refused changes nothing.
BeginOp(kind, f) ==
    /\ Shown /\ ~readOnly /\ begun < MaxOps
    /\ begun' = begun + 1
    /\ IF kind \in {"create", "upload"} THEN f \notin born
       ELSE f \in tree \cap rows
    /\ rows' = IF kind \in {"delete", "rmdir"} THEN rows \ {f}
               ELSE rows \cup {f}
    /\ born' = born \cup {f}
    /\ images' = IF kind = "upload" THEN images \cup {f} ELSE images
    /\ ops' = ops \cup {Pending(kind, f)}
    /\ UNCHANGED <<viewVars, tree, tabVars, textVars, saveVars, sessions, loads>>

\* refreshTree reads the tree.
TreeRead(o) ==
    /\ o \in ops /\ o.step = "applied"
    /\ ops' = (ops \ {o}) \cup {[o EXCEPT !.step = "listed", !.got = rows]}
    /\ UNCHANGED <<serverVars, viewVars, tree, tabVars, textVars, saveVars,
                   sessions, loads, historyVars>>

\* The image's PUT or the refresh fails: the handler rejects, the explorer
\* shows the message, and nothing that follows the failed await happens.
OpFails(o) ==
    /\ o \in ops
    /\ ops' = ops \ {o}
    /\ UNCHANGED <<serverVars, viewVars, tree, tabVars, textVars, saveVars,
                   sessions, loads, historyVars>>

\* handleCreateFile and handleCreateFileAndOpen; findFile looks the file up in
\* the refreshed tree and falls back on the answer of the POST.
CreateDone(o) ==
    /\ contents' = [contents EXCEPT ![o.file] = 0]
    /\ unsaved' = unsaved \cup {o.file}
    /\ original' = [original EXCEPT ![o.file] = 0]
    /\ AddTab(o.file)
    /\ IF isCollab THEN OpenSession(o.file) ELSE UNCHANGED sessions

\* handleImageUpload and handleImageUploadAndOpen.
UploadDone(o) ==
    /\ contents' = [contents EXCEPT ![o.file] = Url]
    /\ AddTab(o.file)
    /\ UNCHANGED <<original, unsaved, sessions>>

\* handleDeleteItem and handleDeleteItemAndClose.
DeleteDone(o) ==
    /\ ClearContent(o.file)
    /\ CloseTabs(o.file)
    /\ sessions' = sessions \ {o.file}

OpDone(o) ==
    /\ o \in ops /\ o.step = "listed"
    /\ ops' = ops \ {o}
    /\ tree' = o.got
    /\ \/ o.kind = "create" /\ CreateDone(o)
       \/ o.kind = "upload" /\ UploadDone(o)
       \/ o.kind = "delete" /\ DeleteDone(o)
       \/ o.kind = "refresh" /\ UNCHANGED <<tabVars, textVars, sessions>>
    /\ UNCHANGED <<serverVars, viewVars, saveVars, loads, historyVars>>

-----------------------------------------------------------------------------
Next ==
    \/ Load \/ LoadFails
    \/ \E f \in Files :
        \/ SelectNewFile(f) \/ SelectTab(f) \/ CloseTab(f) \/ Save(f)
        \/ \E t \in Text : Edit(f, t)
        \/ \E kind \in Kinds : BeginOp(kind, f)
    \/ \E s \in saves :
        SaveDone(s) \/ SaveFails(s)
    \/ \E l \in loads :
        \/ \E content \in Text : LoadArrives(l, content)
        \/ LoadRejected(l)
    \/ \E o \in ops :
        TreeRead(o) \/ OpDone(o) \/ OpFails(o)

Spec == Init /\ [][Next]_vars

-----------------------------------------------------------------------------
(***************************************************************************)
(* Properties.                                                             *)
(***************************************************************************)

SaveRequest == [file : Files, data : Content, collab : BOOLEAN]
Download == [id : 1 .. MaxLoads, file : Files]
Mutation == [kind : {"create", "upload", "delete"}, file : Files,
             step : {"applied", "listed"}, got : SUBSET Files]
            \cup [kind : {"refresh"}, file : {Missing},
                  step : {"applied", "listed"}, got : SUBSET Files]

TypeView ==
    /\ rows \subseteq Files /\ images \subseteq Files /\ tree \subseteq Files
    /\ born \subseteq Files /\ begun \in 0 .. MaxOps
    /\ loaded \in BOOLEAN /\ error \in BOOLEAN
    /\ isCollab \in BOOLEAN /\ readOnly \in BOOLEAN

TypeTabs == tabs \in Seq(Files) /\ active \in Files \cup {Missing}

TypeTexts ==
    /\ contents \in [Files -> Content] /\ original \in [Files -> Content]
    /\ unsaved \subseteq Files /\ sessions \subseteq Files

TypeRequests ==
    /\ isSaving \in BOOLEAN /\ saves \subseteq SaveRequest
    /\ loads \subseteq Download /\ ops \subseteq Mutation

\* The types of the variables.
TypeOK == TypeView /\ TypeTabs /\ TypeTexts /\ TypeRequests

\* Whatever is selected, closed, created, deleted or renamed, in whatever
\* order the handlers resume: a file has at most one tab, and the editor shows
\* an open tab whenever there is one (useTabManager).
OneActiveTab ==
    /\ \A i, j \in DOMAIN tabs : tabs[i] = tabs[j] => i = j
    /\ IF tabs = <<>> THEN active = Missing ELSE active \in Open

\* A tab that goes takes its session and its dirty flag along, whatever
\* creations, uploads, downloads and saves overlap its closing: no session stays
\* connected and no file counts as unsaved without a tab to close or save it
\* from (handleTabCloseWithCleanup, handleDeleteItemAndClose). It is the tab
\* that counts: a file deleted with its directory, or whose deletion ends with a
\* failed refresh, keeps its tab, and with it its session and its mark.
NothingOutlivesItsTab == sessions \cup unsaved \subseteq Open

\* Two PUTs of handleSaveFile never race for the object of a file, and the
\* guard that prevents it is lowered on every path, so that the next Ctrl+S is
\* not ignored for good: isSaving is up exactly while a save is under way.
SavesDoNotOverlap ==
    /\ isSaving <=> saves # {}
    /\ \A s, t \in saves : s = t

=============================================================================

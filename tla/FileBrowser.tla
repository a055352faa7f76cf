----------------------------- MODULE FileBrowser -----------------------------
(***************************************************************************)
(* The Files panel (FileTree): which directory it shows, what is selected, *)
(* the inline edit, the delete dialog and the upload, while the requests   *)
(* of its own handlers and other people's changes replace the tree under   *)
(* it. The panel unmounts when another one is opened, its requests go on.  *)
(*                                                                         *)
(* A tree maps each node to its parent. Names, and with them the local     *)
(* validation of a name, are left out; a menu and the click on one of its  *)
(* items are one step; tabs are the subject of EditorFiles. React runs the *)
(* effects of a change before the user's next action, so that they belong  *)
(* to the action that makes the change. The delete dialog covers the view: *)
(* nothing else is used while it is open.                                  *)
(***************************************************************************)
EXTENDS Naturals, FiniteSets

CONSTANTS
    Folders, Plain, \* directories and files
    Root,           \* the first root directory
    Initial,        \* the tree when the view opens
    None,           \* null; the parent of Root
    Types,          \* bound: what the toolbar creates, of "file" and "folder"
    MaxCalls,       \* bound: requests under way
    MaxRequests     \* bound: requests sent

Nodes == Folders \cup Plain

\* The directories of a project were made one in another (CreateDirectory) and
\* never move: none is its own ancestor.
ASSUME TreeAssumption ==
    /\ Folders \cap Plain = {} /\ None \notin Nodes
    /\ Root \in Folders \cap DOMAIN Initial /\ Initial[Root] = None
    /\ DOMAIN Initial \subseteq Nodes
    /\ \A n \in DOMAIN Initial \ {Root} : Initial[n] \in Folders \cap DOMAIN Initial
    /\ \A s \in SUBSET DOMAIN Initial : s # {} => \E n \in s : Initial[n] \notin s

\* An inline edit; none is not mistaken for one.
Edits == [kind : {"create", "rename"}, type : {"file", "folder"},
          node : Nodes \cup {None}, pending : BOOLEAN]
ASSUME NoEditIsNone == None \notin Edits

ASSUME BoundsAssumption ==
    Types \subseteq {"file", "folder"} /\ {MaxCalls, MaxRequests} \subseteq Nat

VARIABLES
    disk,       \* the service: the tree there is
    fresh,      \* the nodes no request has created yet
    tree,       \* treeData of the view
    calls,      \* requests of the panel's handlers under way
    asked,      \* history: how many were sent
    readOnly,   \* is the user a viewer
    panel,      \* is the panel mounted
    previous,   \* previousIndexRef
    dir,        \* currentDirectoryId
    sel, foc,   \* selectedNodeId, focusedNodeId
    edit,       \* the inline create or rename
    target,     \* deleteTarget
    deleting,   \* deletePending
    operation,  \* the upload that is pending or has failed, if one has
    strayed     \* history: was a node selected that the panel does not show

requestVars == <<calls, asked>>
viewVars == <<previous, dir, sel, foc>>
taskVars == <<edit, target, deleting, operation>>
vars == <<disk, fresh, tree, requestVars, readOnly, panel, viewVars, taskVars, strayed>>

-----------------------------------------------------------------------------
(***************************************************************************)
(* Trees.                                                                  *)
(***************************************************************************)

\* childrenByDirectory, without its order; First is the first child.
Children(t, d) == {n \in DOMAIN t : d # None /\ t[n] = d}
First(t, d) == IF Children(t, d) = {} THEN None
               ELSE CHOOSE n \in Children(t, d) : TRUE

\* n and the directories above it.
Path(t, n) ==
    LET up[x \in Nodes \cup {None}] ==
            IF x \notin DOMAIN t THEN {} ELSE {x} \cup up[t[x]]
    IN  up[n]

Added(t, n, d) == [x \in DOMAIN t \cup {n} |-> IF x = n THEN d ELSE t[x]]

\* A directory goes with all it contains.
Removed(t, n) == [x \in {y \in DOMAIN t : n \notin Path(t, y)} |-> t[x]]

-----------------------------------------------------------------------------
(***************************************************************************)
(* The effects that follow a change of the tree or of the directory.       *)
(***************************************************************************)

\* previousIndexRef is read inside a state updater, which React runs at once
\* only if the panel had no update of its own in the render before. The end of
\* a request of the panel always has one, in the render that brings the tree:
\* the updater runs at the next render, when the ref holds the new tree. An
\* update of another origin, as a toast that expires, may do the same to a tree
\* that another panel's request brings.
IndexesRead(c) == {c.got} \cup (IF c.here THEN {} ELSE {previous})

Unmoved(t, d, index) == d
\* The directory to show of tree t instead of d: d if it is there, or its
\* nearest ancestor in the index read that is, or the root.
Surviving(t, d, index) ==
    LET climb[x \in Nodes \cup {None}] ==
            IF x = None THEN Root
            ELSE IF x \in DOMAIN t \cap Folders THEN x
            ELSE climb[IF x \in DOMAIN index THEN index[x] ELSE None]
    IN  climb[d]

KeptAnyway(changed, visible, n, otherwise) == n
\* A selected or focused node that the changed list does not show is dropped.
Kept(changed, visible, n, otherwise) ==
    IF changed /\ n \notin visible THEN otherwise ELSE n

\* The panel shows directory d of tree t, with s selected and f focused, and
\* the effects run: once for what is shown, once more if that moves to an
\* ancestor, looked up in index.
Settle(t, d, s, f, index) ==
    LET there  == Surviving(t, d, index)
        before == d # dir \/ Children(t, d) # Children(tree, dir)
        Twice(n, first, second) ==
            Kept(there # d, Children(t, there),
                 Kept(before, Children(t, d), n, first), second)
    IN  /\ tree' = t /\ previous' = t /\ dir' = there
        /\ sel' = Twice(s, None, None)
        /\ foc' = Twice(f, First(t, d), First(t, there))

NoOperation == [dir |-> None, status |-> "none"]

\* The panel as it is mounted.
Init ==
    /\ disk = Initial /\ tree = Initial /\ fresh = Nodes \ DOMAIN Initial
    /\ calls = {} /\ asked = 0 /\ readOnly \in BOOLEAN
    /\ panel = TRUE
    /\ previous = Initial /\ dir = Root
    /\ sel = None /\ foc = First(Initial, Root)
    /\ edit = None /\ target = None /\ deleting = FALSE /\ operation = NoOperation
    /\ strayed = FALSE

-----------------------------------------------------------------------------
(***************************************************************************)
(* What the user does in the panel.                                        *)
(***************************************************************************)

UserActs == panel /\ target = None

\* The input of an inline edit is there: that of a rename needs its row. An
\* input that loses the focus cancels its edit unless that is pending; one
\* that is removed with its row does not.
InputShown == edit # None /\ (edit.kind = "rename" => edit.node \in Children(tree, dir))
Blurred == IF InputShown /\ ~edit.pending THEN None ELSE edit

Pending == edit # None /\ edit.pending
Uploading == operation.status = "pending"

\* selectNode, of a row that is shown.
SelectNode(n) ==
    /\ n \in Children(tree, dir)
    /\ sel' = n /\ foc' = n /\ strayed' = FALSE

\* openRowMenu: the row's menu stays shut while an edit is pending.
OpenRowMenu(n) == ~Pending /\ SelectNode(n)

\* A click on a row, or its focus by the keyboard.
Select(n) ==
    /\ UserActs /\ SelectNode(n)
    /\ edit' = Blurred
    /\ UNCHANGED <<disk, fresh, tree, requestVars, readOnly, panel, previous, dir,
                   target, deleting, operation>>

\* openDirectory: a folder's row or menu, a breadcrumb, or the options menu.
\* It ends the edit, be that pending or not.
OpenDirectory(d) ==
    /\ UserActs
    /\ d \in Folders \cap (Children(tree, dir) \cup Path(tree, dir))
    /\ Settle(tree, d, First(tree, d), First(tree, d), previous)
    /\ edit' = None
    /\ strayed' = FALSE
    /\ UNCHANGED <<disk, fresh, requestVars, readOnly, panel, target, deleting,
                   operation>>

\* The guard of beginCreate and beginRename.
AlwaysMayBegin == TRUE
MayBegin == ~Pending

OfType(type) == IF type = "folder" THEN Folders ELSE Plain
TypeOf(n) == IF n \in Folders THEN "folder" ELSE "file"

NewEdit(kind, type, n) == [kind |-> kind, type |-> type, node |-> n, pending |-> FALSE]

\* Bound: only what can still be created.
BeginCreate(type) ==
    /\ UserActs /\ ~readOnly /\ MayBegin /\ fresh \cap OfType(type) # {}
    /\ edit' = NewEdit("create", type, None)
    /\ UNCHANGED <<disk, fresh, tree, requestVars, readOnly, panel, viewVars,
                   target, deleting, operation, strayed>>

BeginRename(n) ==
    /\ UserActs /\ ~readOnly /\ MayBegin /\ OpenRowMenu(n)
    /\ edit' = NewEdit("rename", TypeOf(n), n)
    /\ UNCHANGED <<disk, fresh, tree, requestVars, readOnly, panel, previous, dir,
                   target, deleting, operation>>

\* Escape, or the focus moves away.
CancelEdit ==
    /\ UserActs /\ InputShown /\ ~edit.pending
    /\ edit' = None
    /\ UNCHANGED <<disk, fresh, tree, requestVars, readOnly, panel, viewVars,
                   target, deleting, operation, strayed>>

\* A request is sent for directory d and node n, or for a node of some type
\* that the service will name.
Call(kind, type, n, d) ==
    /\ Cardinality(calls) < MaxCalls /\ asked < MaxRequests
    /\ asked' = asked + 1
    /\ calls' = calls \cup
         {[kind |-> kind, type |-> type, node |-> n, dir |-> d, here |-> TRUE,
           got |-> None,
           id |-> CHOOSE i \in 1 .. MaxCalls :
                     \A c \in calls : <<c.kind, c.id>> # <<kind, i>>]}

\* commitEdit.
CommitEdit ==
    /\ UserActs /\ InputShown /\ ~edit.pending
    /\ Call(edit.kind, edit.type, edit.node, IF edit.kind = "create" THEN dir ELSE None)
    /\ edit' = [edit EXCEPT !.pending = TRUE]
    /\ UNCHANGED <<disk, fresh, tree, readOnly, panel, viewVars, target, deleting,
                   operation, strayed>>

\* Delete in a row's menu opens the dialog.
AskDelete(n) ==
    /\ UserActs /\ ~readOnly /\ OpenRowMenu(n)
    /\ target' = n /\ edit' = Blurred
    /\ UNCHANGED <<disk, fresh, tree, requestVars, readOnly, panel, previous, dir,
                   deleting, operation>>

CancelDelete ==
    /\ panel /\ target # None /\ ~deleting
    /\ target' = None
    /\ UNCHANGED <<disk, fresh, tree, requestVars, readOnly, panel, viewVars, edit,
                   deleting, operation, strayed>>

ConfirmDelete ==
    /\ panel /\ target # None /\ ~deleting
    /\ Call("delete", TypeOf(target), target, None)
    /\ deleting' = TRUE
    /\ UNCHANGED <<disk, fresh, tree, readOnly, panel, viewVars, edit, target,
                   operation, strayed>>

\* When the upload button can be used.
MayUpload == ~Pending /\ ~Uploading

\* uploadImage for directory d.
Upload(d) ==
    /\ Call("upload", "file", None, d)
    /\ operation' = [dir |-> d, status |-> "pending"]
    /\ edit' = Blurred
    /\ UNCHANGED <<disk, fresh, tree, readOnly, panel, viewVars, target,
                   deleting, strayed>>

ChooseImage == UserActs /\ ~readOnly /\ MayUpload /\ Upload(dir)

RetryUpload ==
    /\ UserActs /\ ~readOnly /\ operation.status = "error"
    /\ Upload(operation.dir)

\* Another panel is shown, or none; and this one again, as a new one. Bound:
\* only while a request of the panel, of which it has no other, is under way.
ClosePanel ==
    /\ UserActs /\ Cardinality(calls) = 1
    /\ panel' = FALSE
    /\ calls' = {[c EXCEPT !.here = FALSE] : c \in calls}
    /\ previous' = None /\ dir' = None /\ sel' = None /\ foc' = None
    /\ edit' = None /\ target' = None /\ deleting' = FALSE
    /\ operation' = NoOperation
    /\ strayed' = FALSE
    /\ UNCHANGED <<disk, fresh, tree, asked, readOnly>>

OpenPanel ==
    /\ ~panel /\ panel' = TRUE
    /\ previous' = tree /\ dir' = Root /\ foc' = First(tree, Root)
    /\ UNCHANGED <<disk, fresh, tree, requestVars, readOnly, sel, taskVars, strayed>>

-----------------------------------------------------------------------------
(***************************************************************************)
(* The service.                                                            *)
(***************************************************************************)

Makes(c) == c.kind \in {"create", "upload"}

\* The service accepts request c, of a new or a known node n.
Accepts(c, n) ==
    /\ c \in calls /\ c.got = None
    /\ IF Makes(c) THEN c.dir \in DOMAIN disk /\ n \in fresh \cap OfType(c.type)
       ELSE n = c.node /\ n \in DOMAIN disk
    /\ fresh' = fresh \ {n}

After(c, n) ==
    CASE Makes(c)           -> Added(disk, n, c.dir)
      [] c.kind = "delete"  -> Removed(disk, n)
      [] c.kind = "rename"  -> disk

\* The request is done, and refreshTree's answer is on its way. Somebody else
\* may have deleted directory "gone": that shows in a refresh only.
Serve(c, n, gone) ==
    /\ Accepts(c, n)
    /\ disk' = Removed(After(c, n), gone)
    /\ calls' = (calls \ {c}) \cup {[c EXCEPT !.node = n, !.got = disk']}
    /\ UNCHANGED <<tree, asked, readOnly, panel, viewVars, taskVars, strayed>>

-----------------------------------------------------------------------------
(***************************************************************************)
(* What follows the answers. The state of a panel that is gone is not      *)
(* changed any more.                                                       *)
(***************************************************************************)

\* The tree arrives with the end of request c. A create, a rename and an upload
\* select their node.
Succeeds(c) ==
    LET chosen == c.kind # "delete"
    IN  /\ c \in calls /\ c.got # None
        /\ calls' = calls \ {c}
        /\ IF ~panel THEN tree' = c.got /\ UNCHANGED viewVars
           ELSE \E index \in IndexesRead(c) :
                    IF c.here /\ chosen THEN Settle(c.got, dir, c.node, c.node, index)
                    ELSE Settle(c.got, dir, sel, foc, index)
        /\ edit' = IF c.here /\ c.kind \in {"create", "rename"} THEN None ELSE edit
        /\ target' = IF c.here /\ c.kind = "delete" THEN None ELSE target
        /\ deleting' = (deleting /\ ~(c.here /\ c.kind = "delete"))
        /\ operation' = IF c.here /\ c.kind = "upload" THEN NoOperation ELSE operation
        /\ strayed' = IF c.here /\ chosen THEN c.node \notin Children(c.got, dir')
                      ELSE strayed
        /\ UNCHANGED <<disk, fresh, asked, readOnly, panel>>

\* What a failed commit leaves of the edit that is open.
StillPending == edit
NotPending == IF edit = None THEN None ELSE [edit EXCEPT !.pending = FALSE]

\* The request, or the refresh after it, fails.
Fails(c) ==
    /\ c \in calls /\ c.got = None
    /\ calls' = calls \ {c}
    /\ \/ UNCHANGED <<disk, fresh>>
       \/ \E n \in Nodes : Accepts(c, n) /\ disk' = After(c, n)
    /\ edit' = IF c.here /\ c.kind \in {"create", "rename"} THEN NotPending ELSE edit
    /\ deleting' = (deleting /\ ~(c.here /\ c.kind = "delete"))
    /\ operation' = IF c.here /\ c.kind = "upload"
                    THEN [dir |-> c.dir, status |-> "error"] ELSE operation
    /\ UNCHANGED <<tree, asked, readOnly, panel, viewVars, target, strayed>>

-----------------------------------------------------------------------------
Answers == \E c \in calls :
    \/ Succeeds(c) \/ Fails(c)
    \/ \E n \in Nodes, gone \in Folders \cup {None} : gone # Root /\ Serve(c, n, gone)

Next ==
    \/ Answers
    \/ \E n \in Nodes :
        \/ Select(n) \/ OpenDirectory(n) \/ BeginRename(n) \/ AskDelete(n)
    \/ \E type \in Types : BeginCreate(type)
    \/ CancelEdit \/ CommitEdit \/ CancelDelete \/ ConfirmDelete
    \/ ChooseImage \/ RetryUpload \/ ClosePanel \/ OpenPanel

Spec == Init /\ [][Next]_vars

-----------------------------------------------------------------------------
(***************************************************************************)
(* Properties.                                                             *)
(***************************************************************************)

IsTree(t) == /\ DOMAIN t \subseteq Nodes /\ Root \in DOMAIN t
             /\ \A n \in DOMAIN t : Root \in Path(t, n)

\* The types of the variables; the directory shown is one of the tree.
TypeOK ==
    /\ IsTree(disk) /\ IsTree(tree)
    /\ fresh \subseteq Nodes /\ asked \in 0 .. MaxRequests
    /\ \A c \in calls :
        /\ c.kind \in {"create", "rename", "delete", "upload"}
        /\ c.node \in Nodes \cup {None} /\ c.type \in {"file", "folder"}
        /\ c.dir \in Folders \cup {None}
        /\ c.here \in BOOLEAN /\ c.id \in 1 .. MaxCalls
        /\ c.got = None \/ IsTree(c.got)
    /\ readOnly \in BOOLEAN /\ panel \in BOOLEAN /\ deleting \in BOOLEAN
    /\ strayed \in BOOLEAN
    /\ IF ~panel THEN dir = None
       ELSE dir \in Folders \cap DOMAIN tree /\ previous = tree
    /\ {sel, foc, target} \subseteq Nodes \cup {None}
    /\ edit \in Edits \cup {None}
    /\ operation \in {NoOperation} \cup [dir : Folders, status : {"pending", "error"}]

\* "Preserve current directory [...] by stable IDs across ordinary refreshes"
\* (file-explorer-ui.md): a new tree, whoever's request brings it, leaves the
\* panel in its directory while that exists, at the place it had; and a panel
\* whose directory is gone shows an ancestor of it, the nearest that survives or
\* the first root. "Move to its nearest surviving ancestor" is not kept: an end
\* of the panel's own request takes it to the root (IndexesRead).
StaysOnItsPath ==
    [][panel /\ panel' = panel /\ tree' # tree =>
        \/ Path(tree', dir') = Path(tree, dir) \cap DOMAIN tree'
        \/ dir \notin DOMAIN tree' /\ dir' = Root]_vars

\* The selected and the focused row are rows that are shown, through refreshes
\* and navigation, unless the end of a request selected a node of another
\* directory; and a list that is not empty can be reached by the keyboard.
SelectionShown ==
    panel /\ ~strayed =>
        /\ sel \in Children(tree, dir) \cup {None}
        /\ IF Children(tree, dir) = {} THEN foc = None
           ELSE foc \in Children(tree, dir)

\* "While a mutation is pending, keep the row visible, disable repeated submit,
\* and do not allow another edit to start" (file-explorer-ui.md): as long as a
\* create or rename of the panel is under way no other edit is open. The guards
\* of beginCreate and beginRename do not achieve it, as openDirectory drops an
\* edit that is pending.
NoOtherEdit ==
    (\E c \in calls : c.here /\ c.kind \in {"create", "rename"}) => edit = None \/ Pending

\* "Saving", "Uploading" and the dialog that cannot be left stay only while a
\* request of this panel is under way that will end them, and an upload is
\* under way only while it is the one shown: no order of ends, failures,
\* retries and new mounts leaves one behind or hides one.
NothingWaitsInVain ==
    LET Under(kinds) == {c \in calls : c.here /\ c.kind \in kinds}
    IN  /\ Pending => Under({"create", "rename"}) # {}
        /\ deleting <=> Under({"delete"}) # {}
        /\ Uploading <=> Under({"upload"}) # {}
        /\ \A c, e \in Under({"upload"}) : c = e /\ operation.dir = c.dir

=============================================================================

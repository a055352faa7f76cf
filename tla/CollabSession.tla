--------------------------- MODULE CollabSession ---------------------------
(***************************************************************************)
(* The browser's side of collaborative editing: the sessions of            *)
(* createCollabSession (a Y.Doc, a WebSocket with reconnects, a binding to *)
(* a Monaco model), and useCollabSessions, which keeps one per open file   *)
(* and binds it to the editor that is mounted.                             *)
(*                                                                         *)
(* One editor view of a collaborative project, from its mount to its       *)
(* unmount. Of the hub there is only the log that the updates sent to it   *)
(* go into: what it sends back, and when it loses that, is CollabHub's     *)
(* subject. An update is named by its author and the author's Yjs clock.   *)
(***************************************************************************)
EXTENDS Naturals, Sequences, FiniteSets

CONSTANTS
    Files,
    Peers,                  \* awareness clients of the others
    None,                   \* null, undefined: no entry
    MAX_RECONNECT_ATTEMPTS,
    MaxTries,               \* retries of bindActiveSession (10)
    MaxSessions,            \* bound: sessions created
    MaxEditors,             \* bound: mounts of the Monaco editor
    MaxEdits                \* bound: updates per session

ASSUME BoundsAreNaturals ==
    {MAX_RECONNECT_ATTEMPTS, MaxTries, MaxSessions, MaxEditors, MaxEdits}
        \subseteq Nat

ASSUME NoneIsNone ==
    /\ None \notin Files /\ None \notin Nat
    /\ \A ps \in SUBSET Peers : ps # None

Sessions == 1 .. MaxSessions
Updates == [by : Sessions, clock : Nat \ {0}]

\* An entry of boundEditors; a missing one is not mistaken for it.
Binding == [session : Sessions, model : 1 .. MaxEditors]
ASSUME NoBindingIsNone == None \notin Binding

VARIABLES
    mounted,    \* is the editor view there
    active,     \* the active file
    editor,     \* the mounted Monaco editor: its number, 0 for none
    model,      \* has it a model
    editors,    \* editors mounted so far
    late,       \* history: was an editor ever mounted before its model
    current,    \* collabSessions.current
    bound,      \* boundEditors: file -> session and model
    status,     \* collabStatus
    shown,      \* liveEditorsByFile: the others that are listed
    retries,    \* pending 50 ms timers of bindActiveSession
    creating,   \* files that handleCreateFileAndOpen is creating
    sess,       \* the sessions created, destroyed ones included
    log         \* the hub: the updates of each file

viewVars == <<mounted, active, editor, model, editors, late, retries>>
hookVars == <<current, bound, status, shown>>
vars == <<viewVars, hookVars, creating, sess, log>>

Created == DOMAIN sess
Alive(s) == ~sess[s].destroyed

Init ==
    /\ mounted = TRUE /\ active = None
    /\ editor = 0 /\ model = FALSE /\ editors = 0 /\ late = FALSE
    /\ current = [f \in Files |-> None]
    /\ bound = [f \in Files |-> None]
    /\ status = [f \in Files |-> None]
    /\ shown = [f \in Files |-> None]
    /\ retries = {} /\ creating = {}
    /\ sess = <<>>
    /\ log = [f \in Files |-> {}]

-----------------------------------------------------------------------------
(***************************************************************************)
(* createCollabSession: connecting.                                        *)
(***************************************************************************)

\* A new session has an empty Y.Doc and has called connect(): its status is
\* 'connecting', its only awareness state the local one.
NewSession(f) ==
    [file |-> f, ws |-> "connecting", timer |-> FALSE, attempts |-> 0,
     destroyed |-> FALSE, binding |-> None,
     made |-> 0, out |-> <<>>, peers |-> {}]

\* onStatus of useCollabSessions: only a connected session lists the users it
\* knows. The setters of an unmounted view do nothing. (emitAwarenessChange,
\* which onopen calls next, finds the list unchanged and emits nothing.)
ForgetfulStatus(s, word) ==
    IF ~mounted THEN UNCHANGED <<status, shown>>
    ELSE /\ status' = [status EXCEPT ![sess[s].file] = word]
         /\ shown' = [shown EXCEPT ![sess[s].file] = {}]
OnStatus(s, word) ==
    IF ~mounted THEN UNCHANGED <<status, shown>>
    ELSE /\ status' = [status EXCEPT ![sess[s].file] = word]
         /\ shown' = [shown EXCEPT ![sess[s].file] =
                        IF word = "connected" THEN sess[s].peers ELSE {}]

\* onopen.
Opened(s) ==
    /\ sess[s].ws = "connecting"
    /\ sess' = [sess EXCEPT ![s].ws = "open", ![s].attempts = 0]
    /\ OnStatus(s, "connected")
    /\ UNCHANGED <<viewVars, current, bound, creating, log>>

\* The guard of onclose.
MayReconnect(s) == ~sess[s].destroyed

OneTooMany(s) == sess[s].attempts <= MAX_RECONNECT_ATTEMPTS
AttemptsLeft(s) == sess[s].attempts < MAX_RECONNECT_ATTEMPTS

\* onclose: the connection was refused or lost, with whatever was under way
\* on it, or closed by destroy(). scheduleReconnect counts and arms the timer
\* until the attempts are used up.
Closed(s) ==
    LET down == [sess[s] EXCEPT !.ws = "closed", !.out = <<>>]
    IN  /\ sess[s].ws \in {"connecting", "open", "closing"}
        /\ \/ /\ ~MayReconnect(s)
              /\ sess' = [sess EXCEPT ![s] = down]
              /\ UNCHANGED <<status, shown>>
           \/ /\ MayReconnect(s) /\ AttemptsLeft(s)
              /\ sess' = [sess EXCEPT ![s] = [down EXCEPT !.timer = TRUE,
                                                          !.attempts = @ + 1]]
              /\ OnStatus(s, "disconnected")
           \/ /\ MayReconnect(s) /\ ~AttemptsLeft(s)
              /\ sess' = [sess EXCEPT ![s] = down]
              /\ OnStatus(s, "disconnected")
        /\ UNCHANGED <<viewVars, current, bound, creating, log>>

\* The attempts after a call of connect.
StartOver(s) == 0
AttemptsSoFar(s) == sess[s].attempts

\* The reconnect timer calls connect.
TimerFires(s) ==
    /\ sess[s].timer
    /\ \/ /\ sess[s].destroyed
          /\ sess' = [sess EXCEPT ![s].timer = FALSE]
          /\ UNCHANGED <<status, shown>>
       \/ /\ ~sess[s].destroyed
          /\ sess' = [sess EXCEPT ![s].timer = FALSE, ![s].ws = "connecting",
                                  ![s].attempts = AttemptsSoFar(s)]
          /\ OnStatus(s, "connecting")
    /\ UNCHANGED <<viewVars, current, bound, creating, log>>

-----------------------------------------------------------------------------
(***************************************************************************)
(* Updates and awareness.                                                  *)
(***************************************************************************)

\* The user types into the editor, bound to the session's Y.Doc. The update
\* observer sends the update if the socket is open, and drops it otherwise.
Edit(s) ==
    /\ mounted /\ editor # 0 /\ model /\ sess[s].file = active
    /\ sess[s].binding = editor /\ sess[s].made < MaxEdits
    /\ LET k == sess[s].made + 1
       IN  sess' = [sess EXCEPT ![s].made = k,
                        ![s].out = IF sess[s].ws = "open" THEN Append(@, k)
                                   ELSE @]
    /\ UNCHANGED <<viewVars, hookVars, creating, log>>

\* The next update on its way arrives at the hub, which logs it: the user may
\* write.
HubReceives(s) ==
    LET u == [by |-> s, clock |-> Head(sess[s].out)]
        f == sess[s].file
    IN  /\ sess[s].out # <<>>
        /\ log' = [log EXCEPT ![f] = @ \cup {u}]
        /\ sess' = [sess EXCEPT ![s].out = Tail(@)]
        /\ UNCHANGED <<viewVars, hookVars, creating>>

\* The awareness of some of the others arrives, or is removed: by a message
\* while the socket is open, by its age at any time. emitAwarenessChange lists
\* those that are left, also while the session is not connected.
Awareness(s) ==
    /\ Alive(s)
    /\ \E ps \in SUBSET Peers :
        /\ ps # sess[s].peers
        /\ sess[s].ws = "open" \/ ps \subseteq sess[s].peers
        /\ sess' = [sess EXCEPT ![s].peers = ps]
        /\ shown' = IF mounted THEN [shown EXCEPT ![sess[s].file] = ps] ELSE shown
    /\ UNCHANGED <<viewVars, current, bound, status, creating, log>>

-----------------------------------------------------------------------------
(***************************************************************************)
(* Opening and closing sessions.                                           *)
(***************************************************************************)

NeverOpen(f) == FALSE
AlreadyOpen(f) == current[f] # None

\* openCollabSession: nothing happens if the file has a session.
OpenSession(f) ==
    \/ AlreadyOpen(f) /\ UNCHANGED <<hookVars, sess>>
    \/ /\ ~AlreadyOpen(f) /\ Len(sess) < MaxSessions
       /\ sess' = Append(sess, NewSession(f))
       /\ current' = [current EXCEPT ![f] = Len(sess) + 1]
       /\ IF mounted
          THEN /\ status' = [status EXCEPT ![f] = "connecting"]
               /\ shown' = [shown EXCEPT ![f] = {}]
          ELSE UNCHANGED <<status, shown>>
       /\ UNCHANGED bound

\* Another tab, or none, becomes active. The editor is keyed by the file: it
\* unmounts and disposes of its model, and with that of the binding's hold.
Show(f) ==
    /\ active' = f
    /\ editor' = 0 /\ model' = FALSE

\* handleFileSelect of a file without a tab.
OpenFile(f) ==
    /\ mounted /\ current[f] = None
    /\ OpenSession(f)
    /\ Show(f)
    /\ UNCHANGED <<mounted, editors, late, retries, creating, log>>

\* A click on another tab; None is a chat, an image or a main panel.
SwitchTo(f) ==
    /\ mounted /\ f # active
    /\ f \in {None} \cup {h \in Files : current[h] # None}
    /\ Show(f)
    /\ UNCHANGED <<mounted, editors, late, retries, hookVars, creating, sess, log>>

\* destroy(). What was sent before the close still arrives, unless the
\* connection has failed unnoticed.
Destroyed(s) ==
    [sess[s] EXCEPT !.destroyed = TRUE, !.timer = FALSE, !.binding = None,
                    !.ws = IF @ \in {"connecting", "open"} THEN "closing" ELSE @,
                    !.out = <<>>, !.peers = {}]

Arrived(s, k) == {[by |-> s, clock |-> sess[s].out[i]] : i \in 1 .. k}

Forgotten(map, s) == [map EXCEPT ![sess[s].file] = None]

\* handleTabClose and handleDeleteItemAndClose: closeCollabSession.
CloseFile(f) ==
    LET s == current[f]
    IN  /\ mounted /\ s # None
        /\ \E k \in 0 .. Len(sess[s].out) :
             log' = [log EXCEPT ![f] = @ \cup Arrived(s, k)]
        /\ sess' = [sess EXCEPT ![s] = Destroyed(s)]
        /\ current' = Forgotten(current, s)
        /\ bound' = Forgotten(bound, s)
        /\ status' = Forgotten(status, s)
        /\ shown' = Forgotten(shown, s)
        /\ IF active # f THEN UNCHANGED <<active, editor, model>>
           ELSE \E g \in {None} \cup {h \in Files : current'[h] # None} : Show(g)
        /\ UNCHANGED <<mounted, editors, late, retries, creating>>

\* The view unmounts: the effect's cleanup closes every session.
Unmount ==
    /\ mounted
    /\ mounted' = FALSE
    /\ Show(None)
    /\ sess' = [s \in Created |->
                   IF \E f \in Files : current[f] = s THEN Destroyed(s) ELSE sess[s]]
    /\ \E lost \in BOOLEAN :
          log' = [f \in Files |->
                    IF lost \/ current[f] = None THEN log[f]
                    ELSE log[f] \cup Arrived(current[f], Len(sess[current[f]].out))]
    /\ current' = [f \in Files |-> None]
    /\ bound' = [f \in Files |-> None]
    /\ UNCHANGED <<editors, late, retries, status, shown, creating>>

\* handleCreateFileAndOpen: the requests of handleCreateFile, and what follows
\* them whether or not the view is still there.
StartCreate(f) ==
    /\ mounted /\ f \notin creating
    /\ \A s \in Created : sess[s].file # f
    /\ creating' = creating \cup {f}
    /\ UNCHANGED <<viewVars, hookVars, sess, log>>

CreateDone(f) ==
    /\ f \in creating
    /\ creating' = creating \ {f}
    /\ OpenSession(f)
    /\ IF mounted /\ active # f THEN Show(f)
       ELSE UNCHANGED <<active, editor, model>>
    /\ UNCHANGED <<mounted, editors, late, retries, log>>

-----------------------------------------------------------------------------
(***************************************************************************)
(* Binding. A model is named by its editor: the wrapper makes one for each *)
(* mount and disposes of it at the unmount.                                *)
(***************************************************************************)

\* bindEditor: the previous binding goes even if there is no model to bind.
BindEditor(s, e, hasModel) ==
    sess' = [sess EXCEPT ![s].binding = IF hasModel THEN e ELSE None]

\* The no-op guard of bindActiveSession; a null binding matches no session.
SameSession(f, b) == bound[f] # None /\ bound[f].session = b.session
AlreadyBound(f, b) == bound[f] = b

\* bindActiveSession for file f, after n tries. Nothing is done if the model
\* is the one already bound to this session; without a model it tries again.
BindActiveSession(f, e, hasModel, n, others) ==
    LET s == current[f]
        b == [session |-> s, model |-> e]
    IN  IF s = None \/ (hasModel /\ AlreadyBound(f, b))
        THEN /\ retries' = others
             /\ UNCHANGED <<bound, sess>>
        ELSE /\ BindEditor(s, e, hasModel)
             /\ bound' = IF hasModel THEN [bound EXCEPT ![f] = b] ELSE bound
             /\ retries' = IF hasModel \/ n >= MaxTries THEN others
                           ELSE others \cup {[editor |-> e, session |-> s,
                                              tries |-> n + 1]}

\* The Monaco editor of the active file mounts: handleEditorMount.
EditorMounts ==
    /\ mounted /\ active # None /\ editor = 0 /\ editors < MaxEditors
    /\ editors' = editors + 1 /\ editor' = editors'
    /\ model' \in BOOLEAN
    /\ late' = (late \/ ~model')
    /\ BindActiveSession(active, editors', model', 0, retries)
    /\ UNCHANGED <<mounted, active, current, status, shown, creating, log>>

\* The editor gets its model after all.
ModelReady ==
    /\ editor # 0 /\ ~model
    /\ model' = TRUE
    /\ UNCHANGED <<mounted, active, editor, editors, late, retries, hookVars,
                   creating, sess, log>>

\* The guard of the retry.
StillCurrent(r) == current[sess[r.session].file] = r.session

\* A retry of bindActiveSession, for an editor that may be gone.
RetryBind(r) ==
    LET f == sess[r.session].file
    IN  /\ r \in retries
        /\ IF StillCurrent(r)
           THEN BindActiveSession(f, r.editor, editor = r.editor /\ model,
                                  r.tries, retries \ {r})
           ELSE retries' = retries \ {r} /\ UNCHANGED <<bound, sess>>
        /\ UNCHANGED <<mounted, active, editor, model, editors, late, current,
                       status, shown, creating, log>>

-----------------------------------------------------------------------------
Next ==
    \/ \E s \in Created :
        \/ Opened(s) \/ Closed(s) \/ TimerFires(s)
        \/ Edit(s) \/ HubReceives(s) \/ Awareness(s)
    \/ \E f \in Files :
        \/ OpenFile(f) \/ CloseFile(f)
        \/ StartCreate(f) \/ CreateDone(f)
    \/ \E f \in Files \cup {None} : SwitchTo(f)
    \/ Unmount \/ EditorMounts \/ ModelReady
    \/ \E r \in retries : RetryBind(r)

Spec == Init /\ [][Next]_vars

\* The browser ends every attempt to connect, well or not, and runs its timers.
FairSpec ==
    /\ Spec
    /\ \A s \in Sessions :
        /\ WF_vars(s \in Created /\ sess[s].ws = "connecting" /\ (Opened(s) \/ Closed(s)))
        /\ WF_vars(s \in Created /\ TimerFires(s))

-----------------------------------------------------------------------------
(***************************************************************************)
(* Properties.                                                             *)
(***************************************************************************)

SessionState ==
    [file : Files, ws : {"connecting", "open", "closing", "closed"},
     timer : BOOLEAN, attempts : 0 .. MAX_RECONNECT_ATTEMPTS,
     destroyed : BOOLEAN, binding : {None} \cup (1 .. MaxEditors),
     made : 0 .. MaxEdits, out : Seq(1 .. MaxEdits), peers : SUBSET Peers]

Retry == [editor : 1 .. MaxEditors, session : Sessions, tries : 1 .. MaxTries]

\* The types of the variables.
TypeOK ==
    /\ mounted \in BOOLEAN /\ model \in BOOLEAN /\ late \in BOOLEAN
    /\ active \in Files \cup {None}
    /\ editors \in 0 .. MaxEditors /\ editor \in 0 .. editors
    /\ current \in [Files -> Created \cup {None}]
    /\ bound \in [Files -> Binding \cup {None}]
    /\ status \in [Files -> {None, "connecting", "connected", "disconnected"}]
    /\ shown \in [Files -> {None} \cup SUBSET Peers]
    /\ retries \subseteq Retry
    /\ creating \subseteq Files
    /\ sess \in Seq(SessionState) /\ Len(sess) <= MaxSessions
    /\ log \in [Files -> SUBSET Updates]

\* What the status bar says of a file is what its session knows, through
\* reconnects. The live editors listed are exactly those known, once the
\* session is connected; while it is not, nobody is listed who is not known any
\* more (the others of one that aged out meanwhile are listed again). And a
\* file whose session is closed has no entry: no late callback of a destroyed
\* session (its onclose comes after the close) brings one back (onStatus and
\* onAwarenessChange of useCollabSessions, closeCollabSession).
StatusTells ==
    mounted => \A f \in Files :
        LET s == current[f]
        IN  IF s = None THEN status[f] = None /\ shown[f] = None
            ELSE /\ CASE sess[s].ws = "open"       -> status[f] = "connected"
                      [] sess[s].ws = "connecting" -> status[f] = "connecting"
                      [] sess[s].ws = "closed"     -> status[f] = "disconnected"
                      [] sess[s].ws = "closing"    -> FALSE
                 /\ shown[f] \in SUBSET sess[s].peers
                 /\ sess[s].ws = "open" => shown[f] = sess[s].peers

\* While the view is there, every session is the one of its file or has been
\* destroyed: a file never has two, which would relay each edit to the other.
\* A destroyed session stays dead, although its timer, its socket and a retry
\* of a binding may call back after destroy().
OneSessionPerFile ==
    \A s \in Created :
        IF Alive(s) THEN mounted => current[sess[s].file] = s
        ELSE /\ sess[s].ws \in {"closing", "closed"} /\ ~sess[s].timer
             /\ sess[s].binding = None
             /\ \A f \in Files : current[f] # s

\* The editor the user types into is bound to the session of its file, after
\* any switching of tabs, if every editor came with its model.
EditorIsBound ==
    editor # 0 /\ ~late /\ current[active] # None =>
        sess[current[active]].binding = editor

\* A session that is down comes up again, is closed, or has used up its
\* attempts: it neither waits for nothing nor tries without end.
NoLimbo ==
    \A s \in Sessions : (s \in Created) ~>
        s \in Created /\ \/ sess[s].ws = "open" \/ sess[s].destroyed
                         \/ /\ sess[s].attempts = MAX_RECONNECT_ATTEMPTS
                            /\ ~sess[s].timer

\* "Observe local Y.Doc changes and forward them to the server": the updates of
\* a session reach the log without gaps. Yjs integrates an update only after
\* all earlier ones of its author, so after a gap nothing that author types is
\* seen by the others.
NoGapInLog ==
    \A f \in Files : \A u \in log[f] : \A k \in 1 .. u.clock :
        [by |-> u.by, clock |-> k] \in log[f]

\* "Tear down all sessions on unmount."
NothingSurvivesUnmount ==
    ~mounted => \A s \in Created : sess[s].destroyed

=============================================================================

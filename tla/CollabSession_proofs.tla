------------------------ MODULE CollabSession_proofs ------------------------
(***************************************************************************)
(* Proofs about CollabSession: the sessions of a view, what is shown of    *)
(* them, and that the editor is bound to the one of its file.              *)
(***************************************************************************)
EXTENDS CollabSession, SequenceTheorems, TLAPS

-----------------------------------------------------------------------------
(***************************************************************************)
(* The inductive invariants.                                               *)
(***************************************************************************)

\* TypeOK, and a binding is tried again only for a session there is.
Types ==
    /\ TypeOK
    /\ \A r \in retries : r.session \in Created

\* OneSessionPerFile, that current keeps each session under its own file, and
\* that a socket closes on its own account or because of destroy().
Ownership ==
    /\ OneSessionPerFile
    /\ \A f \in Files : current[f] # None => sess[current[f]].file = f
    /\ \A s \in Created : sess[s].ws = "closing" => sess[s].destroyed

\* EditorIsBound; a tab that is in front has a session; a binding is of an
\* editor that was mounted; and as long as every editor came with its model,
\* nothing is left to retry.
EditorFollows ==
    /\ EditorIsBound
    /\ active # None => current[active] # None
    /\ editor # 0 => active # None
    /\ \A f \in Files : bound[f] # None => bound[f].model <= editors
    /\ ~late => retries = {}

-----------------------------------------------------------------------------
(***************************************************************************)
(* Facts about the operators the actions are built from.                   *)
(***************************************************************************)

\* A session is a record, and so is one of which some fields have changed.
LEMMA SessionTypes ==
    ASSUME TypeOK
    PROVE  /\ Created = 1 .. Len(sess) /\ Len(sess) \in Nat
           /\ Created \subseteq Sessions /\ None \notin Created
           /\ \A s \in Created : sess[s] \in SessionState
BY NoneIsNone, BoundsAreNaturals DEF TypeOK, Created, Sessions

\* destroy() of a session.
LEMMA DestroyedFacts ==
    ASSUME TypeOK, NEW s \in Created
    PROVE  /\ Destroyed(s) \in SessionState
           /\ Destroyed(s).file = sess[s].file /\ Destroyed(s).destroyed
           /\ Destroyed(s).ws \in {"closing", "closed"} /\ ~Destroyed(s).timer
           /\ Destroyed(s).binding = None
<1>1. sess[s] \in SessionState
  BY SessionTypes
<1>2. <<>> \in Seq(1 .. MaxEdits)
  OBVIOUS
<1> QED
  BY <1>1, <1>2 DEF Destroyed, SessionState

\* What still arrives when a session is destroyed are updates.
LEMMA ArrivedFacts ==
    ASSUME TypeOK, NEW s \in Created, NEW k \in 0 .. Len(sess[s].out)
    PROVE  Arrived(s, k) \subseteq Updates
<1>1. sess[s].out \in Seq(1 .. MaxEdits) /\ s \in Sessions
  BY SessionTypes DEF SessionState
<1>2. k \in Nat /\ \A i \in 1 .. k : sess[s].out[i] \in Nat \ {0}
  <2>1. Len(sess[s].out) \in Nat /\ k \in Nat /\ k <= Len(sess[s].out)
    BY <1>1
  <2>2. \A i \in 1 .. Len(sess[s].out) : sess[s].out[i] \in 1 .. MaxEdits
    <3>1. ASSUME NEW S, NEW o \in Seq(S) PROVE \A i \in 1 .. Len(o) : o[i] \in S
      OBVIOUS
    <3> QED
      BY <1>1, <3>1
  <2>3. 1 .. MaxEdits \subseteq Nat \ {0} /\ 1 .. k \subseteq 1 .. Len(sess[s].out)
    BY <2>1, BoundsAreNaturals
  <2> QED
    BY <2>1, <2>2, <2>3
<1>3. \A i \in 1 .. k : [by |-> s, clock |-> sess[s].out[i]] \in Updates
  BY <1>1, <1>2 DEF Updates
<1> QED
  BY <1>3 DEF Arrived

\* Opening a session: there is one, a new one or the one there was.
LEMMA OpenFacts ==
    ASSUME TypeOK, NEW f \in Files, OpenSession(f)
    PROVE  \/ current[f] # None /\ UNCHANGED <<hookVars, sess>>
           \/ /\ current[f] = None /\ Len(sess) < MaxSessions
              /\ Len(sess') = Len(sess) + 1 /\ DOMAIN sess' = Created \cup {Len(sess')}
              /\ Len(sess') \notin Created
              /\ sess' \in Seq(SessionState)
              /\ \A s \in Created : sess'[s] = sess[s]
              /\ sess'[Len(sess')] = NewSession(f)
              /\ current' = [current EXCEPT ![f] = Len(sess')]
              /\ mounted => /\ status' = [status EXCEPT ![f] = "connecting"]
                            /\ shown' = [shown EXCEPT ![f] = {}]
              /\ ~mounted => UNCHANGED <<status, shown>>
              /\ UNCHANGED bound
<1>1. CASE current[f] # None
  BY <1>1 DEF OpenSession, AlreadyOpen
<1>2. CASE current[f] = None
  <2>1. NewSession(f) \in SessionState
    <3>1. <<>> \in Seq(1 .. MaxEdits) /\ 0 \in 0 .. MAX_RECONNECT_ATTEMPTS /\ 0 \in 0 .. MaxEdits
      BY BoundsAreNaturals
    <3> QED
      BY <3>1 DEF NewSession, SessionState
  <2>2. /\ Len(sess) < MaxSessions /\ sess' = Append(sess, NewSession(f))
        /\ current' = [current EXCEPT ![f] = Len(sess) + 1]
    BY <1>2 DEF OpenSession, AlreadyOpen
  <2>3. sess \in Seq(SessionState) /\ Len(sess) \in Nat /\ Created = 1 .. Len(sess)
    BY SessionTypes DEF TypeOK
  <2>4. /\ sess' \in Seq(SessionState) /\ Len(sess') = Len(sess) + 1
        /\ sess'[Len(sess')] = NewSession(f)
        /\ \A s \in Created : sess'[s] = sess[s]
    BY <2>1, <2>2, <2>3
  <2>5. DOMAIN sess' = 1 .. Len(sess') /\ DOMAIN sess' = Created \cup {Len(sess')}
    BY <2>3, <2>4
  <2> QED
    BY <1>2, <2>2, <2>3, <2>4, <2>5 DEF OpenSession, AlreadyOpen
<1> QED
  BY <1>1, <1>2

-----------------------------------------------------------------------------
(***************************************************************************)
(* What the actions do to the sessions.                                    *)
(***************************************************************************)

SameSessions == Len(sess') = Len(sess) /\ DOMAIN sess' = Created

\* One session changes, and stays a session.
LEMMA OneChanges ==
    ASSUME TypeOK, NEW s \in Created, NEW new \in SessionState,
           sess' = [sess EXCEPT ![s] = new]
    PROVE  /\ sess' \in Seq(SessionState) /\ SameSessions
           /\ sess'[s] = new /\ \A q \in Created : q # s => sess'[q] = sess[q]
<1>1. sess \in Seq(SessionState) /\ Created = 1 .. Len(sess)
  BY SessionTypes DEF TypeOK
<1> QED
  BY <1>1 DEF SameSessions, Created

\* Connecting, and the awareness of the others.
LEMMA ConnectSteps ==
    ASSUME TypeOK, NEW s \in Created,
           Opened(s) \/ Closed(s) \/ TimerFires(s) \/ Awareness(s)
    PROVE  /\ sess' \in Seq(SessionState) /\ SameSessions
           /\ \A q \in Created : q # s => sess'[q] = sess[q]
           /\ LET new == sess'[s]
                  old == sess[s]
              IN  /\ new \in SessionState
                  /\ new.file = old.file /\ new.binding = old.binding
                  /\ new.destroyed = old.destroyed
                  /\ \/ /\ Opened(s) /\ old.ws = "connecting" /\ new.ws = "open"
                        /\ new.timer = old.timer /\ new.peers = old.peers
                     \/ /\ Closed(s) /\ new.ws = "closed" /\ new.peers = old.peers
                        /\ old.destroyed => new.timer = old.timer
                     \/ /\ TimerFires(s) /\ new.timer = FALSE /\ new.peers = old.peers
                        /\ old.timer
                        /\ IF old.destroyed THEN new.ws = old.ws ELSE new.ws = "connecting"
                     \/ /\ Awareness(s)
                        /\ new.ws = old.ws /\ new.timer = old.timer
           /\ UNCHANGED log
<1>1. sess[s] \in SessionState
  BY SessionTypes
<1>2. 0 \in 0 .. MAX_RECONNECT_ATTEMPTS /\ <<>> \in Seq(1 .. MaxEdits)
  BY BoundsAreNaturals
<1>3. CASE Opened(s)
  <2> DEFINE new == [sess[s] EXCEPT !.ws = "open", !.attempts = 0]
  <2>1. sess' = [sess EXCEPT ![s] = new] /\ sess[s].ws = "connecting" /\ log' = log
    BY <1>3 DEF Opened
  <2>2. /\ new \in SessionState
        /\ new.file = sess[s].file /\ new.binding = sess[s].binding
        /\ new.destroyed = sess[s].destroyed /\ new.ws = "open"
        /\ new.timer = sess[s].timer /\ new.peers = sess[s].peers
    BY <1>1, <1>2 DEF SessionState
  <2> HIDE DEF new
  <2> QED
    BY <1>3, <2>1, <2>2, OneChanges
<1>4. CASE Closed(s)
  <2> DEFINE down == [sess[s] EXCEPT !.ws = "closed", !.out = <<>>]
             again == [down EXCEPT !.timer = TRUE, !.attempts = @ + 1]
  <2>1. /\ \/ sess' = [sess EXCEPT ![s] = down]
           \/ sess' = [sess EXCEPT ![s] = again] /\ ~sess[s].destroyed
              /\ sess[s].attempts < MAX_RECONNECT_ATTEMPTS
        /\ log' = log
    BY <1>4 DEF Closed, MayReconnect, AttemptsLeft
  <2>2. /\ down \in SessionState
        /\ down.file = sess[s].file /\ down.binding = sess[s].binding
        /\ down.destroyed = sess[s].destroyed /\ down.ws = "closed"
        /\ down.timer = sess[s].timer /\ down.peers = sess[s].peers
        /\ down.attempts = sess[s].attempts
    BY <1>1, <1>2 DEF SessionState
  <2> HIDE DEF down
  <2>3. ASSUME sess[s].attempts < MAX_RECONNECT_ATTEMPTS
        PROVE  /\ again \in SessionState
               /\ again.file = down.file /\ again.binding = down.binding
               /\ again.destroyed = down.destroyed /\ again.ws = "closed"
               /\ again.peers = down.peers
    <3>1. down.attempts + 1 \in 0 .. MAX_RECONNECT_ATTEMPTS
      BY <1>1, <2>2, <2>3, BoundsAreNaturals DEF SessionState
    <3> QED
      BY <2>2, <3>1 DEF SessionState
  <2> HIDE DEF again
  <2>4. CASE sess' = [sess EXCEPT ![s] = down]
    BY <1>4, <2>1, <2>2, <2>4, OneChanges
  <2>5. CASE sess' = [sess EXCEPT ![s] = again] /\ ~sess[s].destroyed
              /\ sess[s].attempts < MAX_RECONNECT_ATTEMPTS
    BY <1>4, <2>1, <2>2, <2>3, <2>5, OneChanges
  <2> QED
    BY <2>1, <2>4, <2>5
<1>5. CASE TimerFires(s)
  <2> DEFINE off == [sess[s] EXCEPT !.timer = FALSE]
             new == [sess[s] EXCEPT !.timer = FALSE, !.ws = "connecting",
                                    !.attempts = AttemptsSoFar(s)]
  <2>1. /\ sess[s].timer /\ log' = log
        /\ IF sess[s].destroyed THEN sess' = [sess EXCEPT ![s] = off]
           ELSE sess' = [sess EXCEPT ![s] = new]
    BY <1>5 DEF TimerFires
  <2>2. /\ off \in SessionState
        /\ off.file = sess[s].file /\ off.binding = sess[s].binding
        /\ off.destroyed = sess[s].destroyed /\ off.ws = sess[s].ws
        /\ off.timer = FALSE /\ off.peers = sess[s].peers
    BY <1>1 DEF SessionState
  <2>3. /\ new \in SessionState
        /\ new.file = sess[s].file /\ new.binding = sess[s].binding
        /\ new.destroyed = sess[s].destroyed /\ new.ws = "connecting"
        /\ new.timer = FALSE /\ new.peers = sess[s].peers
    BY <1>1 DEF SessionState, AttemptsSoFar
  <2> HIDE DEF off, new
  <2> QED
    BY <1>5, <2>1, <2>2, <2>3, OneChanges
<1>6. CASE Awareness(s)
  <2>1. PICK ps \in SUBSET Peers : sess' = [sess EXCEPT ![s].peers = ps]
    BY <1>6 DEF Awareness
  <2> DEFINE new == [sess[s] EXCEPT !.peers = ps]
  <2>2. sess' = [sess EXCEPT ![s] = new] /\ log' = log
    BY <1>6, <2>1 DEF Awareness
  <2>3. /\ new \in SessionState
        /\ new.file = sess[s].file /\ new.binding = sess[s].binding
        /\ new.destroyed = sess[s].destroyed /\ new.ws = sess[s].ws
        /\ new.timer = sess[s].timer
    BY <1>1 DEF SessionState
  <2> HIDE DEF new
  <2> QED
    BY <1>6, <2>2, <2>3, OneChanges
<1> QED
  BY <1>3, <1>4, <1>5, <1>6

\* What changes of a session while updates come and go: not what it is.
Steady(s) ==
    /\ sess'[s].file = sess[s].file /\ sess'[s].ws = sess[s].ws
    /\ sess'[s].timer = sess[s].timer /\ sess'[s].destroyed = sess[s].destroyed
    /\ sess'[s].binding = sess[s].binding /\ sess'[s].peers = sess[s].peers

\* An edit, or its arrival at the hub, changes what is on the way, and the log.
LEMMA EditSteps ==
    ASSUME TypeOK, NEW s \in Created, Edit(s) \/ HubReceives(s)
    PROVE  /\ sess' \in Seq(SessionState) /\ SameSessions
           /\ \A q \in Created : Steady(q)
           /\ log' \in [Files -> SUBSET Updates]
<1>1. sess[s] \in SessionState /\ s \in Sessions /\ log \in [Files -> SUBSET Updates]
      /\ sess[s].out \in Seq(1 .. MaxEdits)
  BY SessionTypes DEF TypeOK, SessionState
<1>2. CASE Edit(s)
  <2> DEFINE k == sess[s].made + 1
             sent == IF sess[s].ws = "open" THEN Append(sess[s].out, k) ELSE sess[s].out
             new == [sess[s] EXCEPT !.made = k, !.out = sent]
  <2>1. sess' = [sess EXCEPT ![s] = new] /\ log' = log /\ sess[s].made < MaxEdits
    BY <1>2 DEF Edit
  <2>2. k \in 1 .. MaxEdits /\ k \in 0 .. MaxEdits
    BY <1>1, <2>1, BoundsAreNaturals DEF SessionState
  <2> HIDE DEF k
  <2>3. sent \in Seq(1 .. MaxEdits)
    BY <1>1, <2>2, AppendProperties
  <2> HIDE DEF sent
  <2>4. /\ new \in SessionState
        /\ new.file = sess[s].file /\ new.ws = sess[s].ws
        /\ new.timer = sess[s].timer /\ new.destroyed = sess[s].destroyed
        /\ new.binding = sess[s].binding /\ new.peers = sess[s].peers
    BY <1>1, <2>2, <2>3 DEF SessionState
  <2> HIDE DEF new
  <2> QED
    BY <1>1, <2>1, <2>4, OneChanges DEF Steady
<1>3. CASE HubReceives(s)
  <2> DEFINE new == [sess[s] EXCEPT !.out = Tail(@)]
             u == [by |-> s, clock |-> Head(sess[s].out)]
  <2>1. /\ sess' = [sess EXCEPT ![s] = new] /\ sess[s].out # <<>>
        /\ log' = [log EXCEPT ![sess[s].file] = log[sess[s].file] \cup {u}]
    BY <1>3 DEF HubReceives
  <2>2. Head(sess[s].out) \in 1 .. MaxEdits /\ Tail(sess[s].out) \in Seq(1 .. MaxEdits)
    BY <1>1, <2>1, HeadTailProperties
  <2>3. u \in Updates
    BY <1>1, <2>2, BoundsAreNaturals DEF Updates
  <2>4. /\ new \in SessionState
        /\ new.file = sess[s].file /\ new.ws = sess[s].ws
        /\ new.timer = sess[s].timer /\ new.destroyed = sess[s].destroyed
        /\ new.binding = sess[s].binding /\ new.peers = sess[s].peers
    BY <1>1, <2>2 DEF SessionState
  <2> HIDE DEF new, u
  <2>5. log' \in [Files -> SUBSET Updates]
    BY <1>1, <2>1, <2>3
  <2> QED
    BY <2>1, <2>4, <2>5, OneChanges DEF Steady
<1> QED
  BY <1>2, <1>3

\* A model is bound, for the session that is current, or nothing is done.
LEMMA BindSteps ==
    ASSUME TypeOK, NEW f \in Files, NEW e \in 1 .. MaxEditors, NEW hasModel \in BOOLEAN,
           NEW n \in 0 .. MaxTries, NEW others \in SUBSET Retry,
           BindActiveSession(f, e, hasModel, n, others)
    PROVE  /\ sess' \in Seq(SessionState) /\ SameSessions
           /\ \A q \in Created :
                /\ sess'[q].file = sess[q].file /\ sess'[q].ws = sess[q].ws
                /\ sess'[q].timer = sess[q].timer /\ sess'[q].destroyed = sess[q].destroyed
                /\ sess'[q].peers = sess[q].peers
                /\ q # current[f] => sess'[q].binding = sess[q].binding
           /\ \/ UNCHANGED <<bound, sess>> /\ retries' = others
              \/ /\ current[f] # None
                 /\ sess'[current[f]].binding = IF hasModel THEN e ELSE None
                 /\ bound' = IF hasModel
                             THEN [bound EXCEPT ![f] = [session |-> current[f], model |-> e]]
                             ELSE bound
                 /\ hasModel => retries' = others
           /\ bound' \in [Files -> Binding \cup {None}] /\ retries' \subseteq Retry
           /\ \A r \in retries' : r \in others \/ r.session \in Created
           /\ current[f] # None /\ hasModel /\ (bound[f] # None => bound[f].model # e) =>
                sess'[current[f]].binding = e
<1> DEFINE s == current[f]
           b == [session |-> s, model |-> e]
<1>1. CASE s = None \/ (hasModel /\ AlreadyBound(f, b))
  <2>1. retries' = others /\ UNCHANGED <<bound, sess>>
    BY <1>1 DEF BindActiveSession
  <2>2. s # None /\ hasModel => bound[f] # None /\ bound[f].model = e
    <3>1. s # None => b \in Binding
      BY SessionTypes DEF TypeOK, Binding
    <3> QED
      BY <1>1, <3>1, NoBindingIsNone DEF AlreadyBound
  <2> QED
    BY <2>1, <2>2 DEF SameSessions, TypeOK, Created
<1>2. CASE ~(s = None \/ (hasModel /\ AlreadyBound(f, b)))
  <2> DEFINE new == [sess[s] EXCEPT !.binding = IF hasModel THEN e ELSE None]
  <2>1. /\ sess' = [sess EXCEPT ![s] = new]
        /\ bound' = IF hasModel THEN [bound EXCEPT ![f] = b] ELSE bound
        /\ retries' = IF hasModel \/ n >= MaxTries THEN others
                      ELSE others \cup {[editor |-> e, session |-> s, tries |-> n + 1]}
    BY <1>2 DEF BindActiveSession, BindEditor
  <2>2. s \in Created /\ sess[s] \in SessionState /\ s \in Sessions
    BY <1>2, SessionTypes DEF TypeOK
  <2>3. /\ new \in SessionState
        /\ new.file = sess[s].file /\ new.ws = sess[s].ws
        /\ new.timer = sess[s].timer /\ new.destroyed = sess[s].destroyed
        /\ new.peers = sess[s].peers
        /\ new.binding = IF hasModel THEN e ELSE None
    BY <2>2 DEF SessionState
  <2>4. b \in Binding
    BY <2>2 DEF Binding
  <2>5. bound' \in [Files -> Binding \cup {None}]
    BY <2>1, <2>4 DEF TypeOK
  <2>6. retries' \subseteq Retry /\ \A r \in retries' : r \in others \/ r.session \in Created
    <3>1. n < MaxTries => n + 1 \in 1 .. MaxTries
      BY BoundsAreNaturals
    <3>2. n < MaxTries => [editor |-> e, session |-> s, tries |-> n + 1] \in Retry
      BY <2>2, <3>1 DEF Retry
    <3>3. n >= MaxTries \/ n < MaxTries
      BY BoundsAreNaturals
    <3> QED
      BY <2>1, <2>2, <3>2, <3>3
  <2> HIDE DEF new, b
  <2>7. /\ sess' \in Seq(SessionState) /\ SameSessions /\ sess'[s] = new
        /\ \A q \in Created : q # s => sess'[q] = sess[q]
    BY <2>1, <2>2, <2>3, OneChanges
  <2> QED
    BY <1>2, <2>1, <2>2, <2>3, <2>5, <2>6, <2>7 DEF b
<1> QED
  BY <1>1, <1>2

\* A session that has just been destroyed.
Dead(s) ==
    /\ sess'[s].file = sess[s].file /\ sess'[s].destroyed
    /\ sess'[s].ws \in {"closing", "closed"} /\ ~sess'[s].timer
    /\ sess'[s].binding = None

\* Closing a file destroys its session and no other; updates it sent may arrive.
LEMMA CloseSteps ==
    ASSUME TypeOK, NEW f \in Files, CloseFile(f)
    PROVE  /\ sess' \in Seq(SessionState) /\ SameSessions
           /\ current[f] \in Created /\ Dead(current[f])
           /\ \A q \in Created : q # current[f] => Steady(q)
           /\ log' \in [Files -> SUBSET Updates]
<1> DEFINE s == current[f]
<1>1. s \in Created /\ s # None /\ log \in [Files -> SUBSET Updates]
  BY SessionTypes DEF CloseFile, TypeOK
<1>2. PICK k \in 0 .. Len(sess[s].out) : log' = [log EXCEPT ![f] = log[f] \cup Arrived(s, k)]
  BY DEF CloseFile
<1>3. Arrived(s, k) \subseteq Updates
  BY <1>1, ArrivedFacts
<1>4. log' \in [Files -> SUBSET Updates]
  BY <1>1, <1>2, <1>3
<1>5. sess' = [sess EXCEPT ![s] = Destroyed(s)]
  BY DEF CloseFile
<1>6. Destroyed(s) \in SessionState
  BY <1>1, DestroyedFacts
<1>7. /\ sess' \in Seq(SessionState) /\ SameSessions
      /\ sess'[s] = Destroyed(s) /\ \A q \in Created : q # s => sess'[q] = sess[q]
  BY <1>1, <1>5, <1>6, OneChanges
<1>8. Dead(s)
  BY <1>1, <1>7, DestroyedFacts DEF Dead
<1> QED
  BY <1>1, <1>4, <1>7, <1>8 DEF Steady

\* Unmounting destroys the current session of every file.
LEMMA UnmountSteps ==
    ASSUME Types, Unmount
    PROVE  /\ sess' \in Seq(SessionState) /\ SameSessions
           /\ \A q \in Created :
                IF \E f \in Files : current[f] = q THEN Dead(q) ELSE sess'[q] = sess[q]
           /\ log' \in [Files -> SUBSET Updates]
<1>0. TypeOK
  BY DEF Types
<1>1. sess' = [s \in Created |->
                   IF \E f \in Files : current[f] = s THEN Destroyed(s) ELSE sess[s]]
  BY DEF Unmount
<1>2. \A s \in Created : sess'[s] \in SessionState
  BY <1>0, <1>1, DestroyedFacts, SessionTypes
<1>3. DOMAIN sess' = Created /\ Created = 1 .. Len(sess) /\ Len(sess) \in Nat
  BY <1>0, <1>1, SessionTypes
<1>4. sess' = [s \in 1 .. Len(sess) |-> sess'[s]]
  BY <1>1, <1>3
<1>5. sess' \in Seq(SessionState) /\ SameSessions
  BY <1>2, <1>3, <1>4 DEF SameSessions
<1>6. \A q \in Created :
                IF \E f \in Files : current[f] = q THEN Dead(q) ELSE sess'[q] = sess[q]
  BY <1>0, <1>1, DestroyedFacts DEF Dead
<1>7. PICK lost \in BOOLEAN :
          log' = [f \in Files |->
                    IF lost \/ current[f] = None THEN log[f]
                    ELSE log[f] \cup Arrived(current[f], Len(sess[current[f]].out))]
  BY DEF Unmount
<1>8. ASSUME NEW f \in Files PROVE log'[f] \in SUBSET Updates
  <2>1. log[f] \in SUBSET Updates
    BY DEF Types, TypeOK
  <2>2. CASE current[f] = None
    BY <1>7, <2>1, <2>2
  <2>3. CASE current[f] # None
    <3>1. current[f] \in Created
      BY <1>0, <2>3 DEF TypeOK
    <3>2. sess[current[f]].out \in Seq(1 .. MaxEdits)
      BY <1>0, <3>1, SessionTypes DEF SessionState
    <3>3. Len(sess[current[f]].out) \in 0 .. Len(sess[current[f]].out)
      BY <3>2
    <3>4. Arrived(current[f], Len(sess[current[f]].out)) \subseteq Updates
      BY <1>0, <3>1, <3>3, ArrivedFacts
    <3> QED
      BY <1>7, <2>1, <3>4
  <2> QED
    BY <2>2, <2>3
<1>9. log' \in [Files -> SUBSET Updates]
  BY <1>7, <1>8
<1> QED
  BY <1>5, <1>6, <1>9

\* A retry binds for a file there is, an editor that was mounted.
LEMMA RetrySteps ==
    ASSUME Types, NEW r \in retries, RetryBind(r), StillCurrent(r)
    PROVE  /\ sess[r.session].file \in Files /\ r.editor \in 1 .. MaxEditors
           /\ r.tries \in 0 .. MaxTries /\ retries \ {r} \in SUBSET Retry
           /\ \E hasModel \in BOOLEAN :
                /\ hasModel => r.editor = editor
                /\ BindActiveSession(sess[r.session].file, r.editor, hasModel,
                                     r.tries, retries \ {r})
<1>1. r \in Retry /\ sess[r.session] \in SessionState /\ retries \subseteq Retry
  BY SessionTypes DEF Types, TypeOK
<1>2. /\ sess[r.session].file \in Files /\ r.editor \in 1 .. MaxEditors
      /\ r.tries \in 0 .. MaxTries
  BY <1>1, BoundsAreNaturals DEF Retry, SessionState
<1>3. (editor = r.editor /\ model) \in BOOLEAN
  OBVIOUS
<1>4. \E hasModel \in BOOLEAN :
          /\ hasModel => r.editor = editor
          /\ BindActiveSession(sess[r.session].file, r.editor, hasModel,
                               r.tries, retries \ {r})
  BY <1>3 DEF RetryBind
<1> QED
  BY <1>1, <1>2, <1>4

-----------------------------------------------------------------------------
(***************************************************************************)
(* Types.                                                                  *)
(***************************************************************************)

\* Sessions stay sessions, and every session that is current exists.
LEMMA TypesKept ==
    ASSUME TypeOK, sess' \in Seq(SessionState), SameSessions
    PROVE  Len(sess') <= MaxSessions /\ Created' = Created
           /\ current \in [Files -> Created' \cup {None}]
BY DEF TypeOK, SameSessions, Created

\* Every step keeps the types.
LEMMA TypesStep == Types /\ [Next]_vars => Types'
<1> SUFFICES ASSUME Types, [Next]_vars PROVE Types'
  OBVIOUS
<1> DEFINE LogType == log' \in [Files -> SUBSET Updates]
<1>0. TypeOK /\ 0 \in 0 .. editors /\ editors \in Nat
  BY BoundsAreNaturals, NoneIsNone DEF Types, TypeOK
<1>1. log' = log => LogType
  BY DEF Types, TypeOK
<1> USE DEF viewVars, hookVars
<1>2. ASSUME NEW s \in Created,
             Opened(s) \/ Closed(s) \/ TimerFires(s) \/ Awareness(s)
      PROVE  Types'
  <2>1. sess' \in Seq(SessionState) /\ SameSessions /\ log' = log
    BY <1>0, <1>2, ConnectSteps
  <2>2. sess[s].file \in Files /\ sess[s].peers \in SUBSET Peers
    BY <1>0, SessionTypes DEF SessionState
  <2>3. /\ status' \in [Files -> {None, "connecting", "connected", "disconnected"}]
        /\ shown' \in [Files -> {None} \cup SUBSET Peers]
    <3>1. ASSUME NEW word \in {"connecting", "connected", "disconnected"}, OnStatus(s, word)
          PROVE  /\ status' \in [Files -> {None, "connecting", "connected", "disconnected"}]
                 /\ shown' \in [Files -> {None} \cup SUBSET Peers]
      BY <1>0, <2>2, <3>1 DEF OnStatus, TypeOK
    <3>2. CASE Opened(s)
      BY <3>1, <3>2 DEF Opened
    <3>3. CASE Closed(s)
      BY <1>0, <3>1, <3>3 DEF Closed, TypeOK
    <3>4. CASE TimerFires(s)
      BY <1>0, <3>1, <3>4 DEF TimerFires, TypeOK
    <3>5. CASE Awareness(s)
      BY <1>0, <2>2, <3>5 DEF Awareness, TypeOK
    <3> QED
      BY <1>2, <3>2, <3>3, <3>4, <3>5
  <2>4. UNCHANGED <<viewVars, current, bound, creating>>
    BY <1>2 DEF Opened, Closed, TimerFires, Awareness
  <2> QED
    BY <1>0, <1>1, <2>1, <2>3, <2>4, TypesKept DEF Types, TypeOK
<1>3. ASSUME NEW s \in Created, Edit(s) \/ HubReceives(s) PROVE Types'
  <2>1. sess' \in Seq(SessionState) /\ SameSessions /\ LogType
    BY <1>0, <1>3, EditSteps
  <2>2. UNCHANGED <<viewVars, hookVars, creating>>
    BY <1>3 DEF Edit, HubReceives
  <2> QED
    BY <1>0, <2>1, <2>2, TypesKept DEF Types, TypeOK
\* A session is opened, or is there.
<1>5. ASSUME NEW f \in Files, OpenSession(f)
      PROVE  /\ sess' \in Seq(SessionState) /\ Len(sess') <= MaxSessions
             /\ current' \in [Files -> Created' \cup {None}]
             /\ bound' \in [Files -> Binding \cup {None}]
             /\ status' \in [Files -> {None, "connecting", "connected", "disconnected"}]
             /\ shown' \in [Files -> {None} \cup SUBSET Peers]
             /\ current'[f] # None /\ Created \subseteq Created'
  <2>1. CASE current[f] # None /\ UNCHANGED <<hookVars, sess>>
    BY <1>0, <2>1 DEF TypeOK, Created
  <2>2. CASE ~(current[f] # None /\ UNCHANGED <<hookVars, sess>>)
    <3>1. /\ current[f] = None /\ Len(sess) < MaxSessions
          /\ Len(sess') = Len(sess) + 1 /\ DOMAIN sess' = Created \cup {Len(sess')}
          /\ Len(sess') \notin Created
          /\ sess' \in Seq(SessionState)
          /\ current' = [current EXCEPT ![f] = Len(sess')]
          /\ mounted => /\ status' = [status EXCEPT ![f] = "connecting"]
                        /\ shown' = [shown EXCEPT ![f] = {}]
          /\ ~mounted => UNCHANGED <<status, shown>>
          /\ UNCHANGED bound
      BY <1>0, <1>5, <2>2, OpenFacts
    <3>2. Len(sess') <= MaxSessions /\ Len(sess') # None
      BY <1>0, <3>1, SessionTypes, BoundsAreNaturals, NoneIsNone
    <3>3. current' \in [Files -> Created' \cup {None}] /\ current'[f] # None
      BY <1>0, <3>1, <3>2 DEF TypeOK, Created
    <3>4. Created \subseteq Created'
      BY <3>1 DEF Created
    <3>5. bound' \in [Files -> Binding \cup {None}]
      BY <1>0, <3>1 DEF TypeOK
    <3>6. /\ status' \in [Files -> {None, "connecting", "connected", "disconnected"}]
          /\ shown' \in [Files -> {None} \cup SUBSET Peers]
      BY <1>0, <3>1 DEF TypeOK
    <3> QED
      BY <3>1, <3>2, <3>3, <3>4, <3>5, <3>6
  <2> QED
    BY <2>1, <2>2
<1>6. ASSUME NEW f \in Files, OpenFile(f) \/ CreateDone(f) PROVE Types'
  <2>1. OpenSession(f)
    BY <1>6 DEF OpenFile, CreateDone
  <2>2. /\ UNCHANGED <<mounted, editors, late, retries, log>> /\ creating' \subseteq creating
        /\ \/ active' = f /\ editor' = 0 /\ model' = FALSE
           \/ UNCHANGED <<active, editor, model>>
    BY <1>6 DEF OpenFile, CreateDone, Show
  <2> QED
    BY <1>0, <1>1, <1>5, <2>1, <2>2 DEF Types, TypeOK
<1>7. ASSUME NEW f \in Files, CloseFile(f) PROVE Types'
  <2>1. sess' \in Seq(SessionState) /\ SameSessions /\ LogType
        /\ current[f] \in Created
    BY <1>0, <1>7, CloseSteps
  <2>2. sess[current[f]].file \in Files
    BY <1>0, <2>1, SessionTypes DEF SessionState
  <2>3. /\ current' \in [Files -> Created \cup {None}]
        /\ bound' \in [Files -> Binding \cup {None}]
        /\ status' \in [Files -> {None, "connecting", "connected", "disconnected"}]
        /\ shown' \in [Files -> {None} \cup SUBSET Peers]
    BY <1>0, <1>7, <2>2 DEF CloseFile, Forgotten, TypeOK
  <2>4. /\ UNCHANGED <<mounted, editors, late, retries, creating>>
        /\ \/ active' \in Files \cup {None} /\ editor' = 0 /\ model' = FALSE
           \/ UNCHANGED <<active, editor, model>>
    BY <1>7 DEF CloseFile, Show
  <2> QED
    BY <1>0, <2>1, <2>3, <2>4, TypesKept DEF Types, TypeOK
<1>8. ASSUME NEW f \in Files, StartCreate(f) PROVE Types'
  BY <1>0, <1>1, <1>8 DEF StartCreate, Types, TypeOK, Created
<1>9. ASSUME NEW f \in Files \cup {None}, SwitchTo(f) PROVE Types'
  BY <1>0, <1>1, <1>9 DEF SwitchTo, Show, Types, TypeOK, Created
<1>10. CASE Unmount
  <2>1. sess' \in Seq(SessionState) /\ SameSessions /\ LogType
    BY <1>10, UnmountSteps
  <2>2. /\ mounted' = FALSE /\ active' = None /\ editor' = 0 /\ model' = FALSE
        /\ current' = [f \in Files |-> None] /\ bound' = [f \in Files |-> None]
        /\ UNCHANGED <<editors, late, retries, status, shown, creating>>
    BY <1>10 DEF Unmount, Show
  <2> QED
    BY <1>0, <2>1, <2>2, TypesKept DEF Types, TypeOK
<1>11. CASE EditorMounts
  <2>1. /\ mounted /\ active \in Files /\ editors' \in 1 .. MaxEditors /\ editors' \in 0 .. MaxEditors
        /\ editor' = editors' /\ model' \in BOOLEAN /\ late' = (late \/ ~model')
        /\ BindActiveSession(active, editors', model', 0, retries)
        /\ UNCHANGED <<mounted, active, current, status, shown, creating, log>>
    BY <1>0, <1>11, BoundsAreNaturals DEF EditorMounts, TypeOK
  <2>2. 0 \in 0 .. MaxTries /\ retries \in SUBSET Retry
    BY <1>0, BoundsAreNaturals DEF TypeOK
  <2>3. /\ sess' \in Seq(SessionState) /\ SameSessions
        /\ bound' \in [Files -> Binding \cup {None}] /\ retries' \subseteq Retry
        /\ \A r \in retries' : r.session \in Created
    BY <1>0, <2>1, <2>2, BindSteps DEF Types
  <2>4. late' \in BOOLEAN /\ editor' \in 0 .. editors'
    BY <1>0, <2>1 DEF TypeOK
  <2> QED
    BY <1>0, <1>1, <2>1, <2>3, <2>4, TypesKept DEF Types, TypeOK
<1>12. CASE ModelReady
  BY <1>0, <1>1, <1>12 DEF ModelReady, Types, TypeOK, Created
<1>13. ASSUME NEW r \in retries, RetryBind(r) PROVE Types'
  <2>1. /\ sess' \in Seq(SessionState) /\ SameSessions
        /\ bound' \in [Files -> Binding \cup {None}] /\ retries' \subseteq Retry
        /\ \A q \in retries' : q.session \in Created
    <3>1. CASE StillCurrent(r)
      <4>1. PICK hasModel \in BOOLEAN :
                BindActiveSession(sess[r.session].file, r.editor, hasModel,
                                  r.tries, retries \ {r})
        BY <1>13, <3>1, RetrySteps
      <4>2. /\ sess[r.session].file \in Files /\ r.editor \in 1 .. MaxEditors
            /\ r.tries \in 0 .. MaxTries /\ retries \ {r} \in SUBSET Retry
        BY <1>13, <3>1, RetrySteps
      <4> QED
        BY <1>0, <4>1, <4>2, BindSteps DEF Types
    <3>2. CASE ~StillCurrent(r)
      BY <1>0, <1>13, <3>2 DEF RetryBind, SameSessions, Types, TypeOK, Created
    <3> QED
      BY <3>1, <3>2
  <2>2. UNCHANGED <<mounted, active, editor, model, editors, late, current,
                    status, shown, creating, log>>
    BY <1>13 DEF RetryBind
  <2> QED
    BY <1>0, <1>1, <2>1, <2>2, TypesKept DEF Types, TypeOK
<1>14. CASE UNCHANGED vars
  BY <1>0, <1>1, <1>14 DEF vars, Types, TypeOK, Created
<1>15. ASSUME NEW s \in Created,
              \/ Opened(s) \/ Closed(s) \/ TimerFires(s)
              \/ Edit(s) \/ HubReceives(s) \/ Awareness(s)
       PROVE  Types'
  BY <1>2, <1>3, <1>15
<1>16. ASSUME NEW f \in Files,
              \/ OpenFile(f) \/ CloseFile(f)
              \/ StartCreate(f) \/ CreateDone(f)
       PROVE  Types'
  BY <1>6, <1>7, <1>8, <1>16
<1> QED
  BY <1>9, <1>10, <1>11, <1>12, <1>13, <1>14, <1>15, <1>16 DEF Next

\* They hold at first,
LEMMA TypesInit == Init => Types
<1> SUFFICES ASSUME Init PROVE Types
  OBVIOUS
<1>1. sess \in Seq(SessionState) /\ Len(sess) <= MaxSessions /\ Created = {}
  BY BoundsAreNaturals DEF Init, Created
<1>3. /\ current \in [Files -> Created \cup {None}] /\ bound \in [Files -> Binding \cup {None}]
      /\ status \in [Files -> {None, "connecting", "connected", "disconnected"}]
      /\ shown \in [Files -> {None} \cup SUBSET Peers]
      /\ log \in [Files -> SUBSET Updates]
  BY DEF Init
<1>4. editors \in 0 .. MaxEditors /\ editor \in 0 .. editors
  BY BoundsAreNaturals DEF Init
<1>5. TypeOK
  BY <1>1, <1>3, <1>4 DEF Init, TypeOK
<1> QED
  BY <1>5 DEF Init, Types

\* and so of every behaviour.
LEMMA TypesAlways == Spec => []Types
BY TypesInit, TypesStep, PTL DEF Spec

\* The types of the variables, for any number of files, sessions and editors.
THEOREM TypeCorrect == Spec => []TypeOK
<1>1. Types => TypeOK
  BY DEF Types
<1> QED
  BY <1>1, TypesAlways, PTL

-----------------------------------------------------------------------------
(***************************************************************************)
(* One session per file.                                                   *)
(***************************************************************************)

\* Steps that neither open nor destroy a session.
LEMMA OwnershipKept ==
    ASSUME TypeOK, Ownership, SameSessions, UNCHANGED <<current, mounted>>,
           \A q \in Created :
              /\ sess'[q].file = sess[q].file /\ sess'[q].destroyed = sess[q].destroyed
              /\ sess'[q].ws = "closing" => sess[q].ws = "closing"
              /\ sess[q].destroyed =>
                    /\ sess'[q].ws \in {"closing", "closed"} /\ ~sess'[q].timer
                    /\ sess'[q].binding = sess[q].binding
    PROVE  Ownership'
<1>1. Created' = Created
  BY DEF SameSessions, Created
<1>2. OneSessionPerFile'
  BY <1>1 DEF Ownership, OneSessionPerFile, Alive
<1>3. \A f \in Files : current'[f] # None => sess'[current'[f]].file = f
  BY DEF Ownership, TypeOK
<1> QED
  BY <1>1, <1>2, <1>3 DEF Ownership

\* Every step keeps each session under its own file, and destroyed ones quiet.
LEMMA OwnershipStep ==
    ASSUME Types, Ownership, [Next]_vars
    PROVE  Ownership'
<1>0. TypeOK /\ None \notin Created
  BY SessionTypes DEF Types
<1> USE DEF viewVars, hookVars
\* What a destroyed session is like.
<1>1. \A q \in Created : sess[q].destroyed =>
            /\ sess[q].ws \in {"closing", "closed"} /\ ~sess[q].timer
            /\ sess[q].binding = None /\ \A f \in Files : current[f] # q
  BY DEF Ownership, OneSessionPerFile, Alive
<1>2. ASSUME NEW s \in Created,
             Opened(s) \/ Closed(s) \/ TimerFires(s) \/ Awareness(s)
      PROVE  Ownership'
  <2>1. UNCHANGED <<current, mounted>>
    BY <1>2 DEF Opened, Closed, TimerFires, Awareness
  <2> QED
    BY <1>0, <1>1, <1>2, <2>1, ConnectSteps, OwnershipKept
<1>3. ASSUME NEW s \in Created, Edit(s) \/ HubReceives(s) PROVE Ownership'
  <2>1. UNCHANGED <<current, mounted>>
    BY <1>3 DEF Edit, HubReceives
  <2> QED
    BY <1>0, <1>1, <1>3, <2>1, EditSteps, OwnershipKept DEF Steady
<1>5. ASSUME UNCHANGED <<current, mounted, sess>> PROVE Ownership'
  BY <1>5 DEF Ownership, OneSessionPerFile, Alive, Created
<1>6. ASSUME NEW f \in Files, OpenFile(f) \/ CreateDone(f) PROVE Ownership'
  <2>1. OpenSession(f) /\ UNCHANGED mounted
    BY <1>6 DEF OpenFile, CreateDone
  <2>2. CASE UNCHANGED <<hookVars, sess>>
    BY <1>5, <2>1, <2>2
  <2>3. CASE ~UNCHANGED <<hookVars, sess>>
    <3> DEFINE new == Len(sess')
    <3>1. /\ current[f] = None
          /\ DOMAIN sess' = Created \cup {new} /\ new \notin Created
          /\ \A s \in Created : sess'[s] = sess[s]
          /\ sess'[new] = NewSession(f)
          /\ current' = [current EXCEPT ![f] = new]
      BY <1>0, <2>1, <2>3, OpenFacts
    <3> HIDE DEF new
    <3>2. /\ sess'[new].file = f /\ ~sess'[new].destroyed /\ sess'[new].ws = "connecting"
      BY <3>1 DEF NewSession
    <3>3. current \in [Files -> Created \cup {None}]
      BY <1>0 DEF TypeOK
    <3>4. \A g \in Files : g # f => current'[g] = current[g]
      BY <3>1, <3>3
    <3>5. current'[f] = new
      BY <3>1, <3>3
    <3>6. ASSUME NEW s \in Created'
          PROVE  IF Alive(s)' THEN mounted' => current'[sess'[s].file] = s
                 ELSE /\ sess'[s].ws \in {"closing", "closed"} /\ ~sess'[s].timer
                      /\ sess'[s].binding = None
                      /\ \A g \in Files : current'[g] # s
      <4>1. CASE s = new
        BY <3>2, <3>5, <4>1 DEF Alive
      <4>2. CASE s \in Created
        <5>1. sess'[s] = sess[s] /\ s # new /\ s # None /\ sess[s].file \in Files
          BY <1>0, <3>1, <4>2, SessionTypes DEF SessionState
        <5>2. CASE Alive(s)
          <6>1. mounted => current[sess[s].file] = s
            BY <4>2, <5>2 DEF Ownership, OneSessionPerFile
          <6>2. mounted => sess[s].file # f
            BY <3>1, <5>1, <6>1
          <6> QED
            BY <2>1, <3>4, <5>1, <5>2, <6>1, <6>2 DEF Alive
        <5>3. CASE ~Alive(s)
          BY <1>1, <3>4, <3>5, <4>2, <5>1, <5>3 DEF Alive
        <5> QED
          BY <5>2, <5>3
      <4> QED
        BY <3>1, <4>1, <4>2 DEF Created
    <3>7. \A g \in Files : current'[g] # None => sess'[current'[g]].file = g
      BY <3>1, <3>2, <3>3, <3>4, <3>5 DEF Ownership
    <3>8. \A s \in Created' : sess'[s].ws = "closing" => sess'[s].destroyed
      BY <3>1, <3>2 DEF Ownership, Created
    <3> QED
      BY <3>6, <3>7, <3>8 DEF Ownership, OneSessionPerFile
  <2> QED
    BY <2>2, <2>3
<1>7. ASSUME NEW f \in Files, CloseFile(f) PROVE Ownership'
  <2> DEFINE s == current[f]
  <2>1. /\ DOMAIN sess' = Created /\ s \in Created /\ Dead(s)
        /\ \A q \in Created : q # s => Steady(q)
    BY <1>0, <1>7, CloseSteps DEF SameSessions
  <2>2. s # None /\ sess[s].file = f
    BY <1>7 DEF CloseFile, Ownership
  <2>3. /\ mounted /\ mounted' = mounted
        /\ current' = [current EXCEPT ![f] = None]
    BY <1>7, <2>2 DEF CloseFile, Forgotten
  <2>4. current \in [Files -> Created \cup {None}]
    BY <1>0 DEF TypeOK
  <2>5. current'[f] = None /\ \A g \in Files : g # f => current'[g] = current[g]
    BY <2>3, <2>4
  <2> HIDE DEF s
  <2>6. ASSUME NEW q \in Created
        PROVE  IF Alive(q)' THEN mounted' => current'[sess'[q].file] = q
               ELSE /\ sess'[q].ws \in {"closing", "closed"} /\ ~sess'[q].timer
                    /\ sess'[q].binding = None
                    /\ \A g \in Files : current'[g] # q
    <3>1. CASE q = s
      <4>1. \A g \in Files : current[g] = s => g = f
        BY <2>2 DEF Ownership
      <4>2. \A g \in Files : current'[g] # s
        BY <2>2, <2>5, <4>1
      <4> QED
        BY <2>1, <3>1, <4>2 DEF Dead, Alive
    <3>2. CASE q # s
      <4>1. Steady(q)
        BY <2>1, <3>2
      <4>2. CASE Alive(q)
        <5>1. current[sess[q].file] = q /\ sess[q].file \in Files
          BY <1>0, <2>3, <4>2, SessionTypes DEF Ownership, OneSessionPerFile, SessionState
        <5>2. sess[q].file # f
          BY <3>2, <5>1 DEF s
        <5> QED
          BY <2>5, <4>1, <4>2, <5>1, <5>2 DEF Steady, Alive
      <4>3. CASE ~Alive(q)
        BY <1>0, <1>1, <2>5, <4>1, <4>3 DEF Steady, Alive
      <4> QED
        BY <4>2, <4>3
    <3> QED
      BY <3>1, <3>2
  <2>7. \A g \in Files : current'[g] # None => sess'[current'[g]].file = g
    BY <2>1, <2>4, <2>5 DEF Ownership, Dead, Steady
  <2>8. \A q \in Created : sess'[q].ws = "closing" => sess'[q].destroyed
    BY <2>1 DEF Ownership, Dead, Steady
  <2> QED
    BY <2>1, <2>6, <2>7, <2>8 DEF Ownership, OneSessionPerFile, Created
<1>8. CASE Unmount
  <2>1. /\ DOMAIN sess' = Created
        /\ \A q \in Created :
                IF \E f \in Files : current[f] = q THEN Dead(q) ELSE sess'[q] = sess[q]
    BY <1>8, UnmountSteps DEF SameSessions
  <2>2. mounted' = FALSE /\ current' = [f \in Files |-> None]
    BY <1>8 DEF Unmount
  <2>3. ASSUME NEW q \in Created
        PROVE  ~Alive(q)' => /\ sess'[q].ws \in {"closing", "closed"} /\ ~sess'[q].timer
                             /\ sess'[q].binding = None
                             /\ \A g \in Files : current'[g] # q
    BY <1>0, <1>1, <2>1, <2>2 DEF Alive, Dead
  <2>4. \A q \in Created : sess'[q].ws = "closing" => sess'[q].destroyed
    BY <2>1 DEF Ownership, Dead
  <2> QED
    BY <2>1, <2>2, <2>3, <2>4 DEF Ownership, OneSessionPerFile, Created
<1>9. ASSUME NEW f \in Files, NEW e \in 1 .. MaxEditors, NEW hasModel \in BOOLEAN,
             NEW n \in 0 .. MaxTries, NEW others \in SUBSET Retry,
             BindActiveSession(f, e, hasModel, n, others),
             UNCHANGED <<current, mounted>>
      PROVE  Ownership'
  BY <1>0, <1>1, <1>9, BindSteps, OwnershipKept
<1>10. CASE EditorMounts
  <2>1. /\ active \in Files /\ editors' \in 1 .. MaxEditors /\ model' \in BOOLEAN
        /\ BindActiveSession(active, editors', model', 0, retries)
        /\ UNCHANGED <<mounted, current>>
    BY <1>0, <1>10, BoundsAreNaturals DEF EditorMounts, TypeOK
  <2>2. 0 \in 0 .. MaxTries /\ retries \in SUBSET Retry
    BY <1>0, BoundsAreNaturals DEF TypeOK
  <2> QED
    BY <1>9, <2>1, <2>2
<1>11. ASSUME NEW r \in retries, RetryBind(r) PROVE Ownership'
  <2>1. UNCHANGED <<current, mounted>>
    BY <1>11 DEF RetryBind
  <2>2. CASE StillCurrent(r)
    BY <1>0, <1>9, <1>11, <2>1, <2>2, RetrySteps
  <2>3. CASE ~StillCurrent(r)
    BY <1>5, <1>11, <2>1, <2>3 DEF RetryBind
  <2> QED
    BY <2>2, <2>3
<1>12. ASSUME NEW f \in Files \cup {None}, SwitchTo(f) \/ StartCreate(f) \/ ModelReady \/ UNCHANGED vars
       PROVE  Ownership'
  BY <1>5, <1>12 DEF SwitchTo, StartCreate, ModelReady, vars
<1>13. ASSUME NEW s \in Created,
              \/ Opened(s) \/ Closed(s) \/ TimerFires(s)
              \/ Edit(s) \/ HubReceives(s) \/ Awareness(s)
       PROVE  Ownership'
  BY <1>2, <1>3, <1>13
<1>14. ASSUME NEW f \in Files,
              \/ OpenFile(f) \/ CloseFile(f)
              \/ StartCreate(f) \/ CreateDone(f)
       PROVE  Ownership'
  BY <1>6, <1>7, <1>12, <1>14
<1> QED
  BY <1>8, <1>10, <1>11, <1>12, <1>13, <1>14 DEF Next

\* So they are in every behaviour.
LEMMA OwnershipAlways == Spec => [](Types /\ Ownership)
<1>1. Init => Ownership
  BY DEF Init, Ownership, OneSessionPerFile, Created
<1>2. Types /\ Ownership /\ [Next]_vars => Ownership'
  BY OwnershipStep
<1> QED
  BY <1>1, <1>2, TypesAlways, PTL DEF Spec

\* A file has one session while the view is there, and a destroyed session
\* stays dead, for any number of files, sessions and reconnects.
THEOREM SessionsCorrect == Spec => []OneSessionPerFile
<1>1. Ownership => OneSessionPerFile
  BY DEF Ownership
<1> QED
  BY <1>1, OwnershipAlways, PTL

-----------------------------------------------------------------------------
(***************************************************************************)
(* What is shown of a session.                                             *)
(***************************************************************************)

\* What StatusTells says of a file that has a session.
Says(session, word, listed) ==
    /\ session.ws = "open" => word = "connected"
    /\ session.ws = "connecting" => word = "connecting"
    /\ session.ws = "closed" => word = "disconnected"
    /\ session.ws # "closing"
    /\ listed \in SUBSET session.peers
    /\ session.ws = "open" => listed = session.peers
Tells(f) ==
    IF current[f] = None THEN status[f] = None /\ shown[f] = None
    ELSE Says(sess[current[f]], status[f], shown[f])

\* StatusTells, file by file, in this state
LEMMA TellsForm ==
    ASSUME TypeOK
    PROVE  StatusTells <=> (mounted => \A f \in Files : Tells(f))
<1>1. ASSUME NEW f \in Files, current[f] # None
      PROVE  sess[current[f]].ws \in {"connecting", "open", "closing", "closed"}
  BY <1>1, SessionTypes DEF TypeOK, SessionState
<1> QED
  BY <1>1 DEF StatusTells, Tells, Says

\* and in the next.
LEMMA TellsNext ==
    ASSUME TypeOK', mounted' => \A f \in Files : Tells(f)'
    PROVE  StatusTells'
<1>1. ASSUME NEW f \in Files, current'[f] # None
      PROVE  sess'[current'[f]].ws \in {"connecting", "open", "closing", "closed"}
  <2>1. current'[f] \in DOMAIN sess' /\ sess' \in Seq(SessionState)
    BY <1>1 DEF TypeOK, Created
  <2>2. sess'[current'[f]] \in SessionState
    BY <2>1
  <2> QED
    BY <2>2 DEF SessionState
<1> QED
  BY <1>1 DEF StatusTells, Tells, Says

\* One session changes, and what is shown of it with it.
LEMMA TellsOne ==
    ASSUME Types, TypeOK', Ownership, StatusTells, UNCHANGED <<current, mounted>>,
           NEW s \in Created, \A q \in Created : q # s => sess'[q] = sess[q],
           \A f \in Files : f # sess[s].file => status'[f] = status[f] /\ shown'[f] = shown[f],
           Alive(s) \/ UNCHANGED <<status, shown>>,
           mounted /\ Alive(s) =>
                Says(sess'[s], status'[sess[s].file], shown'[sess[s].file])
    PROVE  StatusTells'
<1>0. TypeOK /\ current \in [Files -> Created \cup {None}]
  BY DEF Types, TypeOK
<1>1. ASSUME mounted, NEW f \in Files PROVE Tells(f)'
  <2>1. Tells(f)
    BY <1>0, <1>1, TellsForm
  <2>2. CASE current[f] = None
    <3>1. ~(Alive(s) /\ f = sess[s].file)
      BY <1>1, <2>2, SessionTypes, <1>0 DEF Ownership, OneSessionPerFile
    <3> QED
      BY <1>1, <2>1, <2>2, <3>1 DEF Tells
  <2>3. CASE current[f] = s
    <3>1. Alive(s) /\ sess[s].file = f /\ current[f] # None
      BY <1>0, <2>3, SessionTypes DEF Ownership, OneSessionPerFile
    <3> QED
      BY <1>1, <2>3, <3>1 DEF Tells
  <2>4. CASE current[f] # None /\ current[f] # s
    <3>1. sess'[current[f]] = sess[current[f]]
      BY <1>0, <2>4
    <3>2. ~(Alive(s) /\ f = sess[s].file)
      BY <1>0, <1>1, <2>4 DEF Ownership, OneSessionPerFile
    <3>3. status'[f] = status[f] /\ shown'[f] = shown[f]
      BY <3>2
    <3> QED
      BY <2>1, <2>4, <3>1, <3>3 DEF Tells
  <2> QED
    BY <2>2, <2>3, <2>4
<1> QED
  BY <1>1, TellsNext

\* Steps that change nothing of what is shown, nor of what it is shown of.
LEMMA TellsKept ==
    ASSUME TypeOK, TypeOK', StatusTells, UNCHANGED <<current, mounted, status, shown>>,
           \A q \in Created : sess'[q].ws = sess[q].ws /\ sess'[q].peers = sess[q].peers
    PROVE  StatusTells'
<1>1. current \in [Files -> Created \cup {None}]
  BY DEF TypeOK
<1>2. ASSUME mounted, NEW f \in Files PROVE Tells(f)'
  <2>1. Tells(f)
    BY <1>2, TellsForm
  <2> QED
    BY <1>1, <2>1 DEF Tells, Says
<1> QED
  BY <1>2, TellsNext

\* Every step keeps what is shown in line with the current session.
LEMMA StatusStep ==
    ASSUME Types, Types', Ownership, StatusTells, [Next]_vars
    PROVE  StatusTells'
<1>0. TypeOK /\ TypeOK' /\ None \notin Created
  BY SessionTypes DEF Types
<1> USE DEF viewVars, hookVars
<1>1. /\ \A q \in Created : sess[q] \in SessionState
      /\ status \in [Files -> {None, "connecting", "connected", "disconnected"}]
      /\ shown \in [Files -> {None} \cup SUBSET Peers]
      /\ current \in [Files -> Created \cup {None}]
  BY <1>0, SessionTypes DEF TypeOK
<1>2. ASSUME NEW s \in Created,
             Opened(s) \/ Closed(s) \/ TimerFires(s) \/ Awareness(s)
      PROVE  StatusTells'
  <2>1. UNCHANGED <<current, mounted>>
    BY <1>2 DEF Opened, Closed, TimerFires, Awareness
  <2>2. \A q \in Created : q # s => sess'[q] = sess[q]
    BY <1>0, <1>2, ConnectSteps
  <2>3. /\ sess[s].destroyed => UNCHANGED <<status, shown>>
        /\ ~mounted => UNCHANGED <<status, shown>>
    <3>1. sess[s].destroyed => sess[s].ws \in {"closing", "closed"} /\ ~sess[s].timer
      BY DEF Ownership, OneSessionPerFile, Alive
    <3> QED
      BY <1>2, <3>1 DEF Opened, Closed, TimerFires, Awareness, OnStatus, MayReconnect, Alive
  <2>4. \A f \in Files : f # sess[s].file => status'[f] = status[f] /\ shown'[f] = shown[f]
    BY <1>1, <1>2 DEF Opened, Closed, TimerFires, Awareness, OnStatus
  <2>5. ASSUME mounted, Alive(s)
        PROVE  Says(sess'[s], status'[sess[s].file], shown'[sess[s].file])
    <3> DEFINE f == sess[s].file
    <3>1. f \in Files /\ current[f] = s /\ s # None /\ sess[s].peers \in SUBSET Peers
          /\ ~sess[s].destroyed
      BY <1>0, <1>1, <2>5 DEF Ownership, OneSessionPerFile, SessionState, Alive
    <3>2. Says(sess[s], status[f], shown[f])
      BY <1>0, <2>5, <3>1, TellsForm DEF Tells
    <3>3. CASE Opened(s) /\ sess'[s].ws = "open" /\ sess'[s].peers = sess[s].peers
      <4>1. status'[f] = "connected" /\ shown'[f] = sess[s].peers
        BY <1>1, <2>5, <3>1, <3>3 DEF Opened, OnStatus
      <4> QED
        BY <3>1, <3>3, <4>1 DEF Says
    <3>4. CASE Closed(s) /\ sess'[s].ws = "closed"
      <4>1. status'[f] = "disconnected" /\ shown'[f] = {}
        BY <1>1, <2>5, <3>1, <3>4 DEF Closed, OnStatus, MayReconnect
      <4> QED
        BY <3>4, <4>1 DEF Says
    <3>5. CASE TimerFires(s) /\ sess'[s].ws = "connecting"
      <4>1. status'[f] = "connecting" /\ shown'[f] = {}
        BY <1>1, <2>5, <3>1, <3>5 DEF TimerFires, OnStatus
      <4> QED
        BY <3>5, <4>1 DEF Says
    <3>6. CASE Awareness(s) /\ sess'[s].ws = sess[s].ws
      <4>1. PICK ps \in SUBSET Peers :
              /\ sess' = [sess EXCEPT ![s].peers = ps]
              /\ shown' = [shown EXCEPT ![f] = ps]
        BY <2>5, <3>6 DEF Awareness
      <4>2. sess'[s].peers = ps /\ shown'[f] = ps
        <5>1. sess[s] \in SessionState /\ s \in DOMAIN sess
          BY <1>1 DEF Created
        <5> QED
          BY <1>1, <3>1, <4>1, <5>1 DEF SessionState
      <4>3. status'[f] = status[f]
        BY <3>6 DEF Awareness
      <4> QED
        BY <3>2, <3>6, <4>2, <4>3 DEF Says
    <3> QED
      BY <1>0, <1>2, <3>1, <3>3, <3>4, <3>5, <3>6, ConnectSteps
  <2> QED
    BY <1>0, <2>1, <2>2, <2>3, <2>4, <2>5, TellsOne DEF Alive
<1>3. ASSUME NEW s \in Created, Edit(s) \/ HubReceives(s) PROVE StatusTells'
  <2>1. UNCHANGED <<current, mounted, status, shown>>
    BY <1>3 DEF Edit, HubReceives
  <2> QED
    BY <1>0, <1>3, <2>1, EditSteps, TellsKept DEF Steady
<1>5. ASSUME UNCHANGED <<current, mounted, status, shown, sess>> PROVE StatusTells'
  BY <1>0, <1>5, TellsKept
<1>6. ASSUME NEW f \in Files, OpenFile(f) \/ CreateDone(f) PROVE StatusTells'
  <2>1. OpenSession(f) /\ UNCHANGED mounted
    BY <1>6 DEF OpenFile, CreateDone
  <2>2. CASE UNCHANGED <<hookVars, sess>>
    BY <1>5, <2>1, <2>2
  <2>3. CASE ~UNCHANGED <<hookVars, sess>>
    <3> DEFINE new == Len(sess')
    <3>1. /\ current[f] = None /\ new \notin Created
          /\ DOMAIN sess' = Created \cup {new}
          /\ \A s \in Created : sess'[s] = sess[s]
          /\ sess'[new] = NewSession(f)
          /\ current' = [current EXCEPT ![f] = new]
          /\ mounted => /\ status' = [status EXCEPT ![f] = "connecting"]
                        /\ shown' = [shown EXCEPT ![f] = {}]
      BY <1>0, <2>1, <2>3, OpenFacts
    <3> HIDE DEF new
    <3>2. ASSUME mounted, NEW g \in Files PROVE Tells(g)'
      <4>1. CASE g = f
        <5>1. current'[g] = new /\ status'[g] = "connecting" /\ shown'[g] = {}
          BY <1>1, <3>1, <3>2, <4>1
        <5>2. Says(sess'[new], "connecting", {})
          BY <3>1 DEF Says, NewSession
        <5>3. new # None
          BY <1>0, <3>1, NoneIsNone DEF TypeOK, Created, Sessions
        <5> QED
          BY <5>1, <5>2, <5>3 DEF Tells
      <4>2. CASE g # f
        <5>1. Tells(g)
          BY <1>0, <3>2, TellsForm
        <5>2. current'[g] = current[g] /\ status'[g] = status[g] /\ shown'[g] = shown[g]
          BY <1>1, <3>1, <3>2, <4>2
        <5> QED
          BY <1>1, <3>1, <5>1, <5>2 DEF Tells
      <4> QED
        BY <4>1, <4>2
    <3> QED
      BY <1>0, <2>1, <3>2, TellsNext
  <2> QED
    BY <2>2, <2>3
<1>7. ASSUME NEW f \in Files, CloseFile(f) PROVE StatusTells'
  <2> DEFINE s == current[f]
  <2>1. /\ s \in Created /\ s # None /\ sess[s].file = f
        /\ \A q \in Created : q # s => Steady(q)
    BY <1>0, <1>7, CloseSteps DEF Ownership
  <2>2. /\ mounted
        /\ current' = [current EXCEPT ![f] = None]
        /\ status' = [status EXCEPT ![f] = None]
        /\ shown' = [shown EXCEPT ![f] = None]
    BY <1>7, <2>1 DEF CloseFile, Forgotten
  <2>3. ASSUME NEW g \in Files PROVE Tells(g)'
    <3>1. CASE g = f
      BY <1>1, <2>2, <3>1 DEF Tells
    <3>2. CASE g # f
      <4>1. current'[g] = current[g] /\ status'[g] = status[g] /\ shown'[g] = shown[g]
        BY <1>1, <2>2, <3>2
      <4>2. Tells(g)
        BY <1>0, <2>2, TellsForm
      <4>3. current[g] # None => current[g] \in Created /\ current[g] # s
        BY <1>1, <2>1, <3>2 DEF Ownership
      <4> HIDE DEF s
      <4>4. current[g] # None => Steady(current[g])
        BY <2>1, <4>3
      <4> QED
        BY <4>1, <4>2, <4>4 DEF Tells, Says, Steady
    <3> QED
      BY <3>1, <3>2
  <2> QED
    BY <1>0, <2>3, TellsNext
<1>8. CASE Unmount
  BY <1>8 DEF Unmount, StatusTells
<1>9. ASSUME NEW f \in Files, NEW e \in 1 .. MaxEditors, NEW hasModel \in BOOLEAN,
             NEW n \in 0 .. MaxTries, NEW others \in SUBSET Retry,
             BindActiveSession(f, e, hasModel, n, others),
             UNCHANGED <<current, mounted, status, shown>>
      PROVE  StatusTells'
  BY <1>0, <1>9, BindSteps, TellsKept
<1>10. CASE EditorMounts
  <2>1. /\ active \in Files /\ editors' \in 1 .. MaxEditors /\ model' \in BOOLEAN
        /\ BindActiveSession(active, editors', model', 0, retries)
        /\ UNCHANGED <<mounted, current, status, shown>>
    BY <1>0, <1>10, BoundsAreNaturals DEF EditorMounts, TypeOK
  <2>2. 0 \in 0 .. MaxTries /\ retries \in SUBSET Retry
    BY <1>0, BoundsAreNaturals DEF TypeOK
  <2> QED
    BY <1>9, <2>1, <2>2
<1>11. ASSUME NEW r \in retries, RetryBind(r) PROVE StatusTells'
  <2>1. UNCHANGED <<current, mounted, status, shown>>
    BY <1>11 DEF RetryBind
  <2>2. CASE StillCurrent(r)
    BY <1>0, <1>9, <1>11, <2>1, <2>2, RetrySteps
  <2>3. CASE ~StillCurrent(r)
    BY <1>5, <1>11, <2>1, <2>3 DEF RetryBind
  <2> QED
    BY <2>2, <2>3
<1>12. ASSUME NEW f \in Files \cup {None}, SwitchTo(f) \/ StartCreate(f) \/ ModelReady \/ UNCHANGED vars
       PROVE  StatusTells'
  BY <1>5, <1>12 DEF SwitchTo, StartCreate, ModelReady, vars
<1>13. ASSUME NEW s \in Created,
              \/ Opened(s) \/ Closed(s) \/ TimerFires(s)
              \/ Edit(s) \/ HubReceives(s) \/ Awareness(s)
       PROVE  StatusTells'
  BY <1>2, <1>3, <1>13
<1>14. ASSUME NEW f \in Files,
              \/ OpenFile(f) \/ CloseFile(f)
              \/ StartCreate(f) \/ CreateDone(f)
       PROVE  StatusTells'
  BY <1>6, <1>7, <1>12, <1>14
<1> QED
  BY <1>8, <1>10, <1>11, <1>12, <1>13, <1>14 DEF Next

\* What the status bar says of a file and the live editors listed for it, all of
\* those known once it is connected and never one that is not known, are those
\* of its session, for any number of files, sessions, others and reconnects: no
\* late callback of a destroyed session is shown (onStatus, closeCollabSession).
THEOREM StatusCorrect == Spec => []StatusTells
<1>1. Init => StatusTells
  BY DEF Init, StatusTells
<1>2. Types /\ Types' /\ Ownership /\ StatusTells /\ [Next]_vars => StatusTells'
  BY StatusStep
<1> QED
  BY <1>1, <1>2, OwnershipAlways, PTL DEF Spec

-----------------------------------------------------------------------------
(***************************************************************************)
(* The editor is bound to the session of its file.                         *)
(***************************************************************************)

\* Steps of the sessions that change no binding.
LEMMA FollowsKept ==
    ASSUME TypeOK, EditorFollows,
           UNCHANGED <<active, editor, editors, late, current, bound, retries>>,
           \A q \in Created : sess'[q].binding = sess[q].binding
    PROVE  EditorFollows'
<1>1. current \in [Files -> Created \cup {None}] /\ active \in Files \cup {None}
  BY DEF TypeOK
<1>2. editor # 0 /\ ~late /\ current[active] # None =>
            active \in Files /\ sess'[current[active]].binding = editor
  BY <1>1 DEF EditorFollows, EditorIsBound
<1>3. EditorIsBound'
  BY <1>2 DEF EditorIsBound
<1> QED
  BY <1>3 DEF EditorFollows

\* Steps after which another tab, or none, is in front.
LEMMA FollowsShow ==
    ASSUME EditorFollows, NEW g, Show(g), g # None => current'[g] # None,
           \A f \in Files : bound'[f] # None => bound'[f] = bound[f],
           UNCHANGED <<editors, late, retries>>
    PROVE  EditorFollows'
<1>1. EditorIsBound'
  BY DEF EditorIsBound, Show
<1>2. editor' = 0 /\ active' = g
  BY DEF Show
<1> QED
  BY <1>1, <1>2 DEF EditorFollows

\* Every step leaves the editor bound to the session of the file in front.
LEMMA FollowsStep ==
    ASSUME Types, Types', Ownership, EditorFollows, [Next]_vars
    PROVE  EditorFollows'
<1>0. TypeOK /\ TypeOK' /\ None \notin Created
  BY SessionTypes DEF Types
<1> USE DEF viewVars, hookVars
<1>1. /\ current \in [Files -> Created \cup {None}] /\ active \in Files \cup {None}
      /\ bound \in [Files -> Binding \cup {None}]
      /\ editors \in 0 .. MaxEditors /\ editor \in 0 .. editors /\ MaxEditors \in Nat
  BY <1>0, BoundsAreNaturals DEF TypeOK
<1>2. ASSUME NEW s \in Created,
             Opened(s) \/ Closed(s) \/ TimerFires(s) \/ Awareness(s)
      PROVE  EditorFollows'
  <2>1. UNCHANGED <<active, editor, editors, late, current, bound, retries>>
    BY <1>2 DEF Opened, Closed, TimerFires, Awareness
  <2>2. \A q \in Created : sess'[q].binding = sess[q].binding
    BY <1>0, <1>2, ConnectSteps
  <2> QED
    BY <1>0, <2>1, <2>2, FollowsKept
<1>3. ASSUME NEW s \in Created, Edit(s) \/ HubReceives(s) PROVE EditorFollows'
  <2>1. UNCHANGED <<active, editor, editors, late, current, bound, retries>>
    BY <1>3 DEF Edit, HubReceives
  <2> QED
    BY <1>0, <1>3, <2>1, EditSteps, FollowsKept DEF Steady
<1>5. ASSUME UNCHANGED <<active, editor, editors, late, current, bound, retries, sess>>
      PROVE  EditorFollows'
  BY <1>0, <1>5, FollowsKept
<1>6. ASSUME NEW f \in Files, OpenFile(f) \/ CreateDone(f) PROVE EditorFollows'
  <2>1. OpenSession(f) /\ UNCHANGED <<editors, late, retries>>
    BY <1>6 DEF OpenFile, CreateDone
  <2>2. /\ bound' = bound /\ current'[f] # None
        /\ \A g \in Files : current[g] # None =>
              /\ current'[g] = current[g]
              /\ sess'[current[g]].binding = sess[current[g]].binding
    <3>1. CASE UNCHANGED <<hookVars, sess>> /\ current[f] # None
      BY <3>1
    <3>2. CASE ~UNCHANGED <<hookVars, sess>>
      <4>1. /\ current[f] = None
            /\ \A s \in Created : sess'[s] = sess[s]
            /\ current' = [current EXCEPT ![f] = Len(sess')] /\ bound' = bound
            /\ Len(sess') \in DOMAIN sess'
        BY <1>0, <2>1, <3>2, OpenFacts
      <4>2. current'[f] # None
        <5>1. DOMAIN sess' \subseteq Nat
          BY <1>0 DEF TypeOK
        <5> QED
          BY <1>1, <4>1, <5>1, NoneIsNone
      <4> QED
        BY <1>1, <4>1, <4>2
    <3> QED
      BY <1>0, <2>1, <3>1, <3>2, OpenFacts
  <2>3. CASE Show(f)
    BY <2>1, <2>2, <2>3, FollowsShow
  <2>4. CASE UNCHANGED <<active, editor, model>>
    <3>1. EditorIsBound'
      BY <1>1, <2>1, <2>2, <2>4 DEF EditorIsBound, EditorFollows
    <3> QED
      BY <1>1, <2>1, <2>2, <2>4, <3>1 DEF EditorFollows
  <2> QED
    BY <1>6, <2>3, <2>4 DEF OpenFile, CreateDone
<1>7. ASSUME NEW f \in Files, CloseFile(f) PROVE EditorFollows'
  <2> DEFINE s == current[f]
  <2>1. /\ s \in Created /\ s # None /\ sess[s].file = f
        /\ \A q \in Created : q # s => Steady(q)
    BY <1>0, <1>7, CloseSteps DEF Ownership
  <2>2. /\ current' = [current EXCEPT ![f] = None]
        /\ bound' = [bound EXCEPT ![f] = None]
        /\ UNCHANGED <<editors, late, retries>>
    BY <1>7, <2>1 DEF CloseFile, Forgotten
  <2>3. CASE active = f
    <3>1. PICK g \in {None} \cup {h \in Files : current'[h] # None} : Show(g)
      BY <1>7, <2>3 DEF CloseFile
    <3>2. \A h \in Files : bound'[h] # None => bound'[h] = bound[h]
      BY <1>1, <2>2
    <3> QED
      BY <2>2, <3>1, <3>2, FollowsShow
  <2>4. CASE active # f
    <3>1. UNCHANGED <<active, editor, model>>
      BY <1>7, <2>4 DEF CloseFile
    <3>2. active # None => /\ current'[active] = current[active]
                           /\ current[active] \in Created /\ current[active] # s
      BY <1>1, <2>1, <2>2, <2>4 DEF Ownership, EditorFollows
    <3> HIDE DEF s
    <3>3. active # None => sess'[current[active]].binding = sess[current[active]].binding
      BY <2>1, <3>2 DEF Steady
    <3>4. EditorIsBound'
      BY <1>1, <2>2, <3>1, <3>2, <3>3 DEF EditorIsBound, EditorFollows
    <3> QED
      BY <1>0, <1>1, <2>2, <3>1, <3>2, <3>4 DEF EditorFollows
  <2> QED
    BY <2>3, <2>4
<1>8. CASE Unmount
  <2>1. /\ Show(None) /\ UNCHANGED <<editors, late, retries>>
        /\ \A f \in Files : bound'[f] = None
    BY <1>8 DEF Unmount
  <2> QED
    BY <2>1, FollowsShow
<1>9. CASE EditorMounts
  <2> DEFINE e == editors'
  <2>1. /\ active \in Files /\ e = editors + 1 /\ e \in 1 .. MaxEditors /\ model' \in BOOLEAN
        /\ editor' = e /\ late' = (late \/ ~model')
        /\ BindActiveSession(active, e, model', 0, retries)
        /\ UNCHANGED <<active, current>>
    BY <1>1, <1>9 DEF EditorMounts
  <2>2. 0 \in 0 .. MaxTries /\ retries \in SUBSET Retry
    BY <1>0, BoundsAreNaturals DEF TypeOK
  <2>3. \A f \in Files : bound[f] # None =>
            /\ bound[f].model \in Nat /\ bound[f].model <= editors /\ bound[f].model # e
    <3>1. \A f \in Files : bound[f] # None => bound[f].model \in Nat
      BY <1>1 DEF Binding
    <3>2. editors \in Nat
      BY <1>1
    <3> QED
      BY <2>1, <3>1, <3>2 DEF EditorFollows
  <2>4. /\ \/ UNCHANGED <<bound, sess>> /\ retries' = retries
           \/ /\ bound' = IF model'
                          THEN [bound EXCEPT ![active] = [session |-> current[active], model |-> e]]
                          ELSE bound
              /\ model' => retries' = retries
        /\ current[active] # None /\ model' => sess'[current[active]].binding = e
    BY <1>0, <2>1, <2>2, <2>3, BindSteps
  <2> HIDE DEF e
  <2>5. EditorIsBound'
    BY <2>1, <2>4 DEF EditorIsBound
  <2>6. ASSUME NEW f \in Files, bound'[f] # None PROVE bound'[f].model <= editors'
    <3>1. bound'[f] = bound[f] \/ bound'[f].model = e
      BY <1>1, <2>4
    <3>2. e = editors' /\ e = editors + 1 /\ editors \in Nat
      BY <1>1, <2>1 DEF e
    <3> QED
      BY <2>3, <2>6, <3>1, <3>2
  <2>7. ~late' => retries' = {}
    BY <2>1, <2>4 DEF EditorFollows
  <2>8. active' # None => current'[active'] # None
    BY <2>1 DEF EditorFollows
  <2>9. editor' # 0 => active' # None
    BY <2>1, NoneIsNone
  <2> QED
    BY <2>5, <2>6, <2>7, <2>8, <2>9 DEF EditorFollows
<1>10. ASSUME NEW r \in retries, RetryBind(r) PROVE EditorFollows'
  <2>1. /\ UNCHANGED <<active, editor, editors, late, current>>
        /\ late
    BY <1>10 DEF RetryBind, EditorFollows
  <2>2. CASE StillCurrent(r)
    <3>1. PICK hasModel \in BOOLEAN :
            /\ hasModel => r.editor = editor
            /\ BindActiveSession(sess[r.session].file, r.editor, hasModel,
                                 r.tries, retries \ {r})
      BY <1>10, <2>2, RetrySteps
    <3>2. \/ bound' = bound
          \/ hasModel /\ bound' = [bound EXCEPT ![sess[r.session].file] =
                                      [session |-> current[sess[r.session].file],
                                       model |-> r.editor]]
      BY <3>1 DEF BindActiveSession
    <3>3. ASSUME NEW f \in Files, bound'[f] # None PROVE bound'[f].model <= editors'
      <4>1. bound'[f] = bound[f] \/ (hasModel /\ bound'[f].model = r.editor)
        BY <1>1, <3>2
      <4>2. editor <= editors
        BY <1>1
      <4> QED
        BY <2>1, <3>1, <3>3, <4>1, <4>2 DEF EditorFollows
    <3> QED
      BY <2>1, <3>3 DEF EditorFollows, EditorIsBound
  <2>3. CASE ~StillCurrent(r)
    <3>1. UNCHANGED bound
      BY <1>10, <2>3 DEF RetryBind
    <3> QED
      BY <2>1, <3>1 DEF EditorFollows, EditorIsBound
  <2> QED
    BY <2>2, <2>3
<1>11. ASSUME NEW f \in Files \cup {None}, SwitchTo(f) PROVE EditorFollows'
  <2>1. /\ Show(f) /\ UNCHANGED <<editors, late, retries, bound>>
        /\ f # None => current'[f] # None
    BY <1>11 DEF SwitchTo
  <2> QED
    BY <2>1, FollowsShow
<1>12. ASSUME NEW f \in Files, StartCreate(f) PROVE EditorFollows'
  BY <1>5, <1>12 DEF StartCreate
<1>13. CASE ModelReady \/ UNCHANGED vars
  BY <1>5, <1>13 DEF ModelReady, vars
<1>14. ASSUME NEW s \in Created,
              \/ Opened(s) \/ Closed(s) \/ TimerFires(s)
              \/ Edit(s) \/ HubReceives(s) \/ Awareness(s)
       PROVE  EditorFollows'
  BY <1>2, <1>3, <1>14
<1>15. ASSUME NEW f \in Files,
              \/ OpenFile(f) \/ CloseFile(f)
              \/ StartCreate(f) \/ CreateDone(f)
       PROVE  EditorFollows'
  BY <1>6, <1>7, <1>12, <1>15
<1> QED
  BY <1>8, <1>9, <1>10, <1>11, <1>13, <1>14, <1>15 DEF Next

\* The editor the user types into is bound to the session of its file, however
\* often tabs and editors come and go, if every editor came with its model
\* (bindActiveSession, handleEditorMount).
THEOREM EditorBound == Spec => []EditorIsBound
<1>1. Init => EditorFollows
  BY DEF Init, EditorFollows, EditorIsBound
<1>2. Types /\ Types' /\ Ownership /\ EditorFollows /\ [Next]_vars => EditorFollows'
  BY FollowsStep
<1>3. EditorFollows => EditorIsBound
  BY DEF EditorFollows
<1> QED
  BY <1>1, <1>2, <1>3, OwnershipAlways, PTL DEF Spec
=============================================================================

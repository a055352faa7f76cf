------------------------- MODULE CollaboratorsPanel -------------------------
(***************************************************************************)
(* The collaborators panel of the editor: invite links in its share tab,   *)
(* members of the project in its members tab, and the requests it sends to *)
(* projects-service. Each tab loads its list when it is shown; a link is   *)
(* added, and a link or a member taken out, when the service has answered. *)
(*                                                                         *)
(* One visit of the panel, one project. The owner is not among its members.*)
(* Left out: the order and the roles of the links, copying a link, who of  *)
(* the members is editing, and the wording of the error banner.            *)
(***************************************************************************)
EXTENDS Naturals

CONSTANTS
    Invites,   \* invites that exist or may come to exist; ids are not reused
    People,    \* members the project has or may get
    OldInvites, OldMembers,   \* those it has when the panel opens
    Slots,     \* bound: requests under way at the same time
    None,      \* no request in a slot; no answer yet
    Failed     \* an answer that is not ok, or none because the connection broke

ASSUME ConstantsAssumption ==
    /\ OldInvites \subseteq Invites /\ OldMembers \subseteq People
    /\ Invites \cap People = {}
    /\ {None, Failed} \cap (Invites \cup People) = {} /\ None # Failed

\* A request: what it is for, the link or member a change is about, the answer,
\* which for a load is a list; and the changes that overlapped a load so far.
Call == [op : {"share", "members", "generate", "revoke", "remove"},
         item : Invites \cup People \cup {None},
         answer : {None, Failed} \cup (SUBSET Invites) \cup (SUBSET People),
         dirty : (SUBSET Invites) \cup (SUBSET People)]

\* No list is mistaken for a failure, no request for an empty slot.
ASSUME AnswersAssumption ==
    /\ \A S \in (SUBSET Invites) \cup (SUBSET People) : S \notin {None, Failed}
    /\ \A c \in Call : c # None

VARIABLES
    \* projects-service: the rows of invites and of members, the rows of invites
    \* whose time is over, and the invites that were deleted.
    invites, members, expired, deleted,
    \* CollaboratorsPanel: activeTab, links (how often each is listed),
    \* collaborators, loading, error.
    tab, links, people, loading, error,
    \* What is in each slot.
    calls,
    \* History: items the panel may show wrongly, see ListsAgree.
    raced

serverVars == <<invites, members, expired, deleted>>
panelVars  == <<tab, links, people, loading, error>>
vars == <<serverVars, panelVars, calls, raced>>

Listed(S) == [i \in Invites |-> IF i \in S THEN 1 ELSE 0]

Active == invites \ expired
\* The service's answer to a GET holds what there is when it reads.
Kind(t) == IF t = "share" THEN Invites ELSE People
Now(t)  == IF t = "share" THEN Active ELSE members

Busy == {s \in Slots : calls[s] # None}
Free == Slots \ Busy
Under(op) == {s \in Busy : calls[s].op = op}
Loads == Under("share") \cup Under("members")
\* The links and members whose change was asked for and not yet answered.
Changing == {calls[s].item : s \in Busy \ Loads}

Accepted(s) == calls[s].answer \notin {None, Failed}

\* A GET and the changes that overlap it so far, or a change of one item.
Load(t) == [op |-> t, item |-> None, answer |-> None,
            dirty |-> Changing \cap Kind(t)]
Change(op, i) == [op |-> op, item |-> i, answer |-> None, dirty |-> {}]

\* calls, with the change of an item noted at the GETs it overlaps.
Overlapped(i) ==
    [s \in Slots |->
        IF s \in Loads /\ i \in Kind(calls[s].op)
        THEN [calls[s] EXCEPT !.dirty = @ \cup {i}] ELSE calls[s]]

\* The effect runs loadData when the panel mounts.
Init ==
    /\ invites = OldInvites /\ members = OldMembers
    /\ expired = {} /\ deleted = {}
    /\ tab = "share" /\ links = Listed({}) /\ people = {}
    /\ loading = TRUE /\ error = FALSE
    /\ \E s \in Slots :
          calls = [r \in Slots |-> IF r = s
                     THEN [op |-> "share", item |-> None, answer |-> None, dirty |-> {}]
                     ELSE None]
    /\ raced = Invites \cup People

-----------------------------------------------------------------------------
(***************************************************************************)
(* The user.                                                               *)
(***************************************************************************)

\* Another tab, whose effect runs loadData. A load under way goes on.
ShowTab(t, s) ==
    /\ tab # t /\ s \in Free
    /\ tab' = t /\ loading' = TRUE /\ error' = FALSE
    /\ calls' = [calls EXCEPT ![s] = Load(t)]
    /\ UNCHANGED <<serverVars, links, people, raced>>

\* Sends the request that changes item i.
Send(op, i, s) ==
    /\ s \in Free
    /\ loading' = TRUE
    /\ calls' = [Overlapped(i) EXCEPT ![s] = Change(op, i)]
    /\ UNCHANGED <<serverVars, tab, links, people, error, raced>>

\* handleGenerateLink, by a button that is disabled while loading. The service
\* will give the invite an id it has not given before.
GenerateLink(i, s) ==
    /\ tab = "share" /\ ~loading
    /\ i \notin invites \cup deleted \cup Changing
    /\ Send("generate", i, s)

\* handleRevokeLink. The button is there while the link is listed, even if it
\* is being revoked already.
RevokeLink(i, s) ==
    /\ tab = "share" /\ links[i] > 0
    /\ Send("revoke", i, s)

\* handleRemoveCollaborator. The members are not drawn while loading.
RemoveCollaborator(p, s) ==
    /\ tab = "members" /\ ~loading /\ p \in people
    /\ Send("remove", p, s)

-----------------------------------------------------------------------------
(***************************************************************************)
(* projects-service, and what happens to the project elsewhere.            *)
(***************************************************************************)

\* The answer of a request the service accepts: a list, or nothing more for a
\* change. To revoke an invite that was deleted fails, one that has expired
\* can be; to remove a member who has gone does not fail.
Answer(c) ==
    IF c.op \in {"share", "members"} THEN Now(c.op)
    ELSE IF c.op = "revoke" /\ c.item \notin invites THEN Failed ELSE {}

Serve(s) ==
    LET c == calls[s]
    IN  /\ s \in Busy /\ c.answer = None
        /\ invites' = IF c.op = "generate" THEN invites \cup {c.item}
                      ELSE invites \ (IF c.op = "revoke" THEN {c.item} ELSE {})
        /\ deleted' = IF c.op = "revoke" THEN deleted \cup {c.item} ELSE deleted
        /\ members' = IF c.op = "remove" THEN members \ {c.item} ELSE members
        /\ calls' = [calls EXCEPT ![s].answer = Answer(c)]
        /\ expired' = expired \cap invites'
        /\ UNCHANGED <<panelVars, raced>>

\* The service refuses a request: the user is not the owner, or it is broken.
Refuse(s) ==
    /\ s \in Busy /\ calls[s].answer = None
    /\ calls' = [calls EXCEPT ![s].answer = Failed]
    /\ UNCHANGED <<serverVars, panelVars, raced>>

\* The connection breaks after the service has answered.
LoseAnswer(s) ==
    /\ s \in Busy /\ Accepted(s)
    /\ calls' = [calls EXCEPT ![s].answer = Failed]
    /\ raced' = raced \cup ({calls[s].item} \cap (Invites \cup People))
    /\ UNCHANGED <<serverVars, panelVars>>

\* Someone follows an invite.
Join(p) ==
    /\ Active # {} /\ p \notin members
    /\ members' = members \cup {p}
    /\ raced' = raced \cup {p}
    /\ calls' = Overlapped(p)
    /\ UNCHANGED <<invites, expired, deleted, panelVars>>

\* An invite expires.
Expire(i) ==
    /\ i \in Active
    /\ expired' = expired \cup {i}
    /\ raced' = raced \cup {i}
    /\ calls' = Overlapped(i)
    /\ UNCHANGED <<invites, members, deleted, panelVars>>

-----------------------------------------------------------------------------
(***************************************************************************)
(* The answers.                                                            *)
(***************************************************************************)

\* Every handler ends with finally: setLoading(false).
Ends(s) == calls' = [calls EXCEPT ![s] = None] /\ loading' = FALSE

\* loadData: the answer replaces the list, whichever tab is shown by now.
LoadDone(s) ==
    LET c == calls[s]
    IN  /\ s \in Loads /\ Accepted(s)
        /\ links' = IF c.op = "share" THEN Listed(c.answer) ELSE links
        /\ people' = IF c.op = "members" THEN c.answer ELSE people
        /\ raced' = (raced \ Kind(c.op)) \cup c.dirty
        /\ Ends(s)
        /\ UNCHANGED <<serverVars, tab, error>>

\* setLinks((prev) => [response, ...prev]).
GenerateDone(s) ==
    /\ s \in Under("generate") /\ Accepted(s)
    /\ links' = [links EXCEPT ![calls[s].item] = @ + 1]
    /\ error' = FALSE
    /\ Ends(s)
    /\ UNCHANGED <<serverVars, tab, people, raced>>

OneLess(i) == [links EXCEPT ![i] = @ - 1]
\* setLinks((prev) => prev.filter((l) => l.invite_id !== linkId)).
WithoutLink(i) == [links EXCEPT ![i] = 0]

AllOf(p) == people
\* setCollaborators((prev) => prev.filter((c) => c.user_id !== userId)).
WithoutPerson(p) == people \ {p}

RevokeDone(s) ==
    /\ s \in Under("revoke") /\ Accepted(s)
    /\ links' = WithoutLink(calls[s].item)
    /\ error' = FALSE
    /\ Ends(s)
    /\ UNCHANGED <<serverVars, tab, people, raced>>

\* A member who was removed may have joined again, or been removed twice.
RemoveDone(s) ==
    /\ s \in Under("remove") /\ Accepted(s)
    /\ people' = WithoutPerson(calls[s].item)
    /\ error' = FALSE
    /\ Ends(s)
    /\ UNCHANGED <<serverVars, tab, links, raced>>

\* The catch clauses: the list stays as it is.
Fails(s) ==
    /\ s \in Busy /\ calls[s].answer = Failed
    /\ error' = TRUE
    /\ Ends(s)
    /\ UNCHANGED <<serverVars, tab, links, people, raced>>

-----------------------------------------------------------------------------
Next ==
    \/ \E s \in Slots :
        \/ \E t \in {"share", "members"} : ShowTab(t, s)
        \/ \E i \in Invites : GenerateLink(i, s) \/ RevokeLink(i, s)
        \/ \E p \in People : RemoveCollaborator(p, s)
        \/ Serve(s) \/ Refuse(s) \/ LoseAnswer(s)
        \/ LoadDone(s) \/ GenerateDone(s) \/ RevokeDone(s) \/ RemoveDone(s)
        \/ Fails(s)
    \/ \E p \in People : Join(p)
    \/ \E i \in Invites : Expire(i)

Spec == Init /\ [][Next]_vars

-----------------------------------------------------------------------------
(***************************************************************************)
(* Properties.                                                             *)
(***************************************************************************)

\* The types of the variables. A link may be listed twice, once by a GET that
\* has seen it and once by the POST, but not more often.
TypeOK ==
    /\ invites \subseteq Invites /\ members \subseteq People
    /\ expired \subseteq invites /\ deleted \subseteq Invites \ invites
    /\ tab \in {"share", "members"}
    /\ links \in [Invites -> 0 .. 2] /\ people \subseteq People
    /\ loading \in BOOLEAN /\ error \in BOOLEAN
    /\ calls \in [Slots -> Call \cup {None}]
    /\ raced \subseteq Invites \cup People

\* The panel never lists a link that is gone, twice, or not at all, nor a
\* member who is none, once no change of it is under way - unless the change
\* overlapped the load of the list shown now, its answer was lost, it happened
\* elsewhere, or no load has succeeded yet. A list is updated in place and
\* never loaded again after a change (handleRevokeLink,
\* handleRemoveCollaborator, handleGenerateLink, loadData).
ListsAgree ==
    LET Settled == (Invites \cup People) \ (raced \cup Changing)
    IN  /\ \A i \in Settled \cap Invites : links[i] = Listed(Active)[i]
        /\ \A p \in Settled \cap People : p \in people <=> p \in members

=============================================================================

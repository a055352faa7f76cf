---------------------- MODULE CollaboratorsPanel_proofs ----------------------
(***************************************************************************)
(* Proofs about CollaboratorsPanel: its type invariant and ListsAgree.     *)
(***************************************************************************)
EXTENDS CollaboratorsPanel, TLAPS

-----------------------------------------------------------------------------
(***************************************************************************)
(* The inductive invariant. ListsAgree speaks of items nothing is under    *)
(* way for; what makes it true is what holds while something is: which     *)
(* answers may still change a list, and what they will make of it.         *)
(***************************************************************************)

\* An invite the service has not created yet is in no list and in no answer,
\* and nobody can have asked for it to be revoked.
Fresh ==
    \A x \in Invites \ (invites \cup deleted) :
        /\ links[x] = 0
        /\ \A s \in Busy :
            /\ calls[s].op = "share" /\ Accepted(s) => x \notin calls[s].answer
            /\ calls[s].item = x => calls[s].op = "generate" /\ ~Accepted(s)

\* One request generates an invite. Until its answer is seen, the invite is
\* listed at most once, and not at all if no load overlapped the request.
Generating ==
    \A s \in Under("generate") : LET x == calls[s].item IN
        /\ x \in Invites
        /\ \A r \in Under("generate") : calls[r].item = x => r = s
        /\ links[x] <= 1
        /\ calls[s].answer = None => x \notin invites \cup deleted
        /\ x \notin raced =>
            /\ links[x] = 0
            /\ \A r \in Busy : calls[r].item = x => r = s
            /\ Accepted(s) => x \in Active
            /\ calls[s].answer = Failed => x \notin invites

\* Accepted changes have been made, and stay made unless the item is raced.
Revoking ==
    \A s \in Under("revoke") :
        calls[s].item \in Invites /\ (Accepted(s) => calls[s].item \in deleted)
Removing ==
    \A s \in Under("remove") : LET x == calls[s].item IN
        x \in People /\ (Accepted(s) /\ x \notin raced => x \notin members)

\* A load knows the changes it overlaps; of any other item, its answer says
\* what is still so.
Loading ==
    \A s \in Loads : LET c == calls[s] IN
        /\ c.item = None
        /\ Changing \cap Kind(c.op) \subseteq c.dirty
        /\ c.dirty \subseteq Kind(c.op)
        /\ Accepted(s) =>
            /\ c.answer \subseteq Kind(c.op)
            /\ \A x \in Kind(c.op) \ c.dirty : x \in c.answer <=> x \in Now(c.op)

\* A list is right about an item, or an answer that will put it right is on
\* its way.
LinksAgree ==
    \A x \in Invites \ raced :
        \/ links[x] = Listed(Active)[x]
        \/ \E s \in Busy : /\ calls[s].item = x /\ Accepted(s)
                           /\ calls[s].op \in {"generate", "revoke"}
PeopleAgree ==
    \A x \in People \ raced :
        \/ x \in people <=> x \in members
        \/ \E s \in Under("remove") : calls[s].item = x /\ Accepted(s)

ListsWillAgree ==
    /\ TypeOK /\ Fresh /\ Generating /\ Revoking /\ Removing /\ Loading
    /\ LinksAgree /\ PeopleAgree

-----------------------------------------------------------------------------

\* What the invariant is for.
LEMMA ListsWillAgreeSuffices == ListsWillAgree => ListsAgree
BY DEF ListsWillAgree, LinksAgree, PeopleAgree, ListsAgree, Changing, Generating,
       Revoking, Removing, Loads, Under, Busy

\* What is in a slot, while it is in use.
LEMMA Slot ==
    ASSUME TypeOK, NEW s \in Busy
    PROVE  s \in Slots /\ calls[s] \in Call
BY DEF TypeOK, Busy

\* A slot that is filled.
LEMMA Filled ==
    ASSUME TypeOK, NEW s \in Slots, NEW c \in Call, calls' = [calls EXCEPT ![s] = c]
    PROVE  /\ calls' \in [Slots -> Call \cup {None}]
           /\ calls'[s] = c /\ c # None
           /\ \A r \in Slots : r # s => calls'[r] = calls[r]
BY AnswersAssumption DEF TypeOK

\* A slot that gets its answer.
LEMMA Answered ==
    ASSUME TypeOK, NEW s \in Busy,
           NEW a \in {None, Failed} \cup (SUBSET Invites) \cup (SUBSET People),
           calls' = [calls EXCEPT ![s].answer = a]
    PROVE  /\ calls' \in [Slots -> Call \cup {None}]
           /\ Busy' = Busy
           /\ \A r \in Slots : r # s => calls'[r] = calls[r]
           /\ \A r \in Busy : /\ calls'[r].op = calls[r].op
                              /\ calls'[r].item = calls[r].item
                              /\ calls'[r].dirty = calls[r].dirty
           /\ calls'[s].answer = a
<1> DEFINE c == [calls[s] EXCEPT !.answer = a]
<1>1. s \in Slots /\ calls[s] \in Call
  BY Slot
<1>2. c \in Call /\ c.op = calls[s].op /\ c.item = calls[s].item
      /\ c.dirty = calls[s].dirty /\ c.answer = a
  BY <1>1 DEF Call
<1>3. calls' = [calls EXCEPT ![s] = c]
  OBVIOUS
<1> HIDE DEF c
<1>4. /\ calls' \in [Slots -> Call \cup {None}]
      /\ calls'[s] = c /\ c # None
      /\ \A r \in Slots : r # s => calls'[r] = calls[r]
  BY <1>1, <1>2, <1>3, Filled
<1>5. Busy' = Busy
  BY <1>1, <1>4 DEF Busy
<1>6. \A r \in Busy : r \in Slots
  BY DEF Busy
<1> QED
  BY <1>1, <1>2, <1>4, <1>5, <1>6

\* A slot that is emptied.
LEMMA Emptied ==
    ASSUME TypeOK, NEW s \in Busy, calls' = [calls EXCEPT ![s] = None]
    PROVE  /\ calls' \in [Slots -> Call \cup {None}]
           /\ Busy' = Busy \ {s}
           /\ \A r \in Busy' : calls'[r] = calls[r]
BY DEF TypeOK, Busy

\* A change noted at the loads it overlaps.
LEMMA Noted ==
    ASSUME TypeOK, Loading, NEW i \in Invites \cup People
    PROVE  /\ Overlapped(i) \in [Slots -> Call \cup {None}]
           /\ \A r \in Slots : Overlapped(i)[r] # None <=> r \in Busy
           /\ \A r \in Busy : /\ Overlapped(i)[r].op = calls[r].op
                              /\ Overlapped(i)[r].item = calls[r].item
                              /\ Overlapped(i)[r].answer = calls[r].answer
                              /\ calls[r].dirty \subseteq Overlapped(i)[r].dirty
                              /\ Overlapped(i)[r].dirty \subseteq calls[r].dirty \cup {i}
           /\ \A r \in Loads : i \in Kind(calls[r].op) =>
                Overlapped(i)[r].dirty = calls[r].dirty \cup {i}
           /\ \A r \in Loads : i \notin Kind(calls[r].op) =>
                Overlapped(i)[r].dirty = calls[r].dirty
<1>1. ASSUME NEW r \in Loads, i \in Kind(calls[r].op)
      PROVE  LET c == [calls[r] EXCEPT !.dirty = @ \cup {i}]
             IN  /\ Overlapped(i)[r] = c /\ c \in Call
                 /\ c.op = calls[r].op /\ c.item = calls[r].item
                 /\ c.answer = calls[r].answer /\ c.dirty = calls[r].dirty \cup {i}
  <2>1. r \in Busy /\ r \in Slots /\ calls[r] \in Call
    BY Slot DEF Loads, Under
  <2>2. calls[r].dirty \cup {i} \in (SUBSET Invites) \cup (SUBSET People)
    BY <1>1 DEF Loading, Kind
  <2>3. Overlapped(i)[r] = [calls[r] EXCEPT !.dirty = @ \cup {i}]
    BY <1>1, <2>1 DEF Overlapped
  <2> QED
    BY <2>1, <2>2, <2>3 DEF Call
<1>2. \A r \in Slots : ~(r \in Loads /\ i \in Kind(calls[r].op)) => Overlapped(i)[r] = calls[r]
  BY DEF Overlapped
<1>3. \A r \in Slots : calls[r] \in Call \cup {None}
  BY DEF TypeOK
<1>4. Loads \subseteq Busy /\ Busy \subseteq Slots
  BY DEF Loads, Under, Busy
<1>5. \A r \in Slots : Overlapped(i)[r] \in Call \cup {None}
  BY <1>1, <1>2, <1>3
<1>6. \A r \in Slots : Overlapped(i)[r] # None <=> r \in Busy
  BY <1>1, <1>2, <1>4, AnswersAssumption DEF Busy
<1>7. Overlapped(i) \in [Slots -> Call \cup {None}]
  BY <1>5 DEF Overlapped
<1> QED
  BY <1>1, <1>2, <1>4, <1>6, <1>7

\* Sending a request that changes item i: what becomes of the slots.
LEMMA Sent ==
    ASSUME TypeOK, Loading, NEW op \in {"generate", "revoke", "remove"},
           NEW i \in Invites \cup People, NEW s \in Free,
           calls' = [Overlapped(i) EXCEPT ![s] = Change(op, i)]
    PROVE  /\ calls' \in [Slots -> Call \cup {None}]
           /\ Busy' = Busy \cup {s} /\ s \notin Busy
           /\ calls'[s] = Change(op, i)
           /\ \A r \in Busy : /\ calls'[r].op = calls[r].op
                              /\ calls'[r].item = calls[r].item
                              /\ calls'[r].answer = calls[r].answer
                              /\ calls[r].dirty \subseteq calls'[r].dirty
           /\ \A r \in Loads : calls'[r].dirty = calls[r].dirty \cup ({i} \cap Kind(calls[r].op))
           /\ Loads' = Loads /\ Changing' = Changing \cup {i}
<1>1. s \in Slots /\ s \notin Busy /\ Busy \subseteq Slots /\ Loads \subseteq Busy
  BY DEF Free, Busy, Loads, Under
<1>2. Change(op, i) \in Call /\ Change(op, i).op = op /\ Change(op, i).item = i
  BY DEF Change, Call
<1>3. Overlapped(i) \in [Slots -> Call \cup {None}]
  BY Noted
<1>4. /\ calls' \in [Slots -> Call \cup {None}]
      /\ calls'[s] = Change(op, i) /\ Change(op, i) # None
      /\ \A r \in Slots : r # s => calls'[r] = Overlapped(i)[r]
  BY <1>1, <1>2, <1>3, AnswersAssumption
<1>5. Busy' = Busy \cup {s}
  BY <1>1, <1>4, Noted DEF Busy
<1>6. /\ \A r \in Busy : /\ calls'[r].op = calls[r].op
                         /\ calls'[r].item = calls[r].item
                         /\ calls'[r].answer = calls[r].answer
                         /\ calls[r].dirty \subseteq calls'[r].dirty
  BY <1>1, <1>4, Noted
<1>7. \A r \in Loads : calls'[r].dirty = calls[r].dirty \cup ({i} \cap Kind(calls[r].op))
  BY <1>1, <1>4, Noted
<1>8. Loads' = Loads
  BY <1>2, <1>4, <1>5, <1>6 DEF Loads, Under
<1>9. Changing' = Changing \cup {i}
  BY <1>1, <1>2, <1>4, <1>5, <1>6, <1>8 DEF Changing
<1> QED
  BY <1>1, <1>4, <1>5, <1>6, <1>7, <1>8, <1>9

\* A request for a link is sent: the lists will agree once it is answered,
LEMMA StepGenerateLink ==
    ASSUME ListsWillAgree, NEW i \in Invites, NEW s \in Slots, GenerateLink(i, s)
    PROVE  ListsWillAgree'
<1>0. /\ TypeOK /\ Fresh /\ Generating /\ Revoking /\ Removing /\ Loading
      /\ LinksAgree /\ PeopleAgree
  BY DEF ListsWillAgree
<1>1. /\ s \in Free /\ i \notin invites \cup deleted \cup Changing
      /\ UNCHANGED <<invites, members, expired, deleted, tab, links, people, error, raced>>
      /\ calls' = [Overlapped(i) EXCEPT ![s] = Change("generate", i)]
      /\ loading' = TRUE
  BY DEF GenerateLink, Send, serverVars
<1>2. /\ calls' \in [Slots -> Call \cup {None}]
      /\ Busy' = Busy \cup {s} /\ s \notin Busy
      /\ calls'[s] = Change("generate", i)
      /\ \A r \in Busy : /\ calls'[r].op = calls[r].op
                         /\ calls'[r].item = calls[r].item
                         /\ calls'[r].answer = calls[r].answer
      /\ \A r \in Loads : calls'[r].dirty = calls[r].dirty \cup ({i} \cap Kind(calls[r].op))
      /\ Loads' = Loads /\ Changing' = Changing \cup {i}
  BY <1>0, <1>1, Sent
<1>3. \A r \in Busy : calls[r].item # i
  BY <1>0, <1>1, ConstantsAssumption DEF Changing, Loading
<1>4. TypeOK'
  BY <1>0, <1>1, <1>2 DEF TypeOK
<1>5. Fresh'
  BY <1>0, <1>1, <1>2 DEF Fresh, Accepted, Change
<1>6. Generating'
  BY <1>0, <1>1, <1>2, <1>3 DEF Generating, Fresh, Under, Accepted, Change, Active
<1>7. Revoking' /\ Removing'
  BY <1>0, <1>1, <1>2 DEF Revoking, Removing, Under, Accepted, Change
<1>8. Loading'
  BY <1>0, <1>1, <1>2 DEF Loading, Loads, Under, Accepted, Change, Active, Kind, Now
<1>9. LinksAgree' /\ PeopleAgree'
  BY <1>0, <1>1, <1>2 DEF LinksAgree, PeopleAgree, Listed, Active, Accepted, Under
<1> QED
  BY <1>4, <1>5, <1>6, <1>7, <1>8, <1>9 DEF ListsWillAgree

\* as they will for a revocation,
LEMMA StepRevokeLink ==
    ASSUME ListsWillAgree, NEW i \in Invites, NEW s \in Slots, RevokeLink(i, s)
    PROVE  ListsWillAgree'
<1>0. /\ TypeOK /\ Fresh /\ Generating /\ Revoking /\ Removing /\ Loading
      /\ LinksAgree /\ PeopleAgree
  BY DEF ListsWillAgree
<1>1. /\ s \in Free /\ links[i] > 0
      /\ UNCHANGED <<invites, members, expired, deleted, tab, links, people, error, raced>>
      /\ calls' = [Overlapped(i) EXCEPT ![s] = Change("revoke", i)]
      /\ loading' = TRUE
  BY DEF RevokeLink, Send, serverVars
<1>2. /\ calls' \in [Slots -> Call \cup {None}]
      /\ Busy' = Busy \cup {s} /\ s \notin Busy
      /\ calls'[s] = Change("revoke", i)
      /\ \A r \in Busy : /\ calls'[r].op = calls[r].op
                         /\ calls'[r].item = calls[r].item
                         /\ calls'[r].answer = calls[r].answer
      /\ \A r \in Loads : calls'[r].dirty = calls[r].dirty \cup ({i} \cap Kind(calls[r].op))
      /\ Loads' = Loads /\ Changing' = Changing \cup {i}
  BY <1>0, <1>1, Sent
<1>3. TypeOK'
  BY <1>0, <1>1, <1>2 DEF TypeOK
<1>4. Fresh'
  BY <1>0, <1>1, <1>2, ConstantsAssumption DEF Fresh, Accepted, Change, TypeOK
<1>5. Generating'
  BY <1>0, <1>1, <1>2, ConstantsAssumption DEF Generating, Under, Accepted, Change, Active
<1>6. Revoking' /\ Removing'
  BY <1>0, <1>1, <1>2 DEF Revoking, Removing, Under, Accepted, Change
<1>7. Loading'
  BY <1>0, <1>1, <1>2 DEF Loading, Loads, Under, Accepted, Change, Active, Kind, Now
<1>8. LinksAgree' /\ PeopleAgree'
  BY <1>0, <1>1, <1>2 DEF LinksAgree, PeopleAgree, Listed, Active, Accepted, Under
<1> QED
  BY <1>3, <1>4, <1>5, <1>6, <1>7, <1>8 DEF ListsWillAgree

\* and for the removal of a member.
LEMMA StepRemoveCollaborator ==
    ASSUME ListsWillAgree, NEW p \in People, NEW s \in Slots, RemoveCollaborator(p, s)
    PROVE  ListsWillAgree'
<1>0. /\ TypeOK /\ Fresh /\ Generating /\ Revoking /\ Removing /\ Loading
      /\ LinksAgree /\ PeopleAgree
  BY DEF ListsWillAgree
<1>1. /\ s \in Free /\ p \in people
      /\ UNCHANGED <<invites, members, expired, deleted, tab, links, people, error, raced>>
      /\ calls' = [Overlapped(p) EXCEPT ![s] = Change("remove", p)]
      /\ loading' = TRUE
  BY DEF RemoveCollaborator, Send, serverVars
<1>2. /\ calls' \in [Slots -> Call \cup {None}]
      /\ Busy' = Busy \cup {s} /\ s \notin Busy
      /\ calls'[s] = Change("remove", p)
      /\ \A r \in Busy : /\ calls'[r].op = calls[r].op
                         /\ calls'[r].item = calls[r].item
                         /\ calls'[r].answer = calls[r].answer
      /\ \A r \in Loads : calls'[r].dirty = calls[r].dirty \cup ({p} \cap Kind(calls[r].op))
      /\ Loads' = Loads /\ Changing' = Changing \cup {p}
  BY <1>0, <1>1, Sent
<1>3. TypeOK'
  BY <1>0, <1>1, <1>2 DEF TypeOK
<1>4. Fresh'
  BY <1>0, <1>1, <1>2, ConstantsAssumption DEF Fresh, Accepted, Change, TypeOK
<1>5. Generating'
  BY <1>0, <1>1, <1>2, ConstantsAssumption DEF Generating, Under, Accepted, Change, Active
<1>6. Revoking' /\ Removing'
  BY <1>0, <1>1, <1>2 DEF Revoking, Removing, Under, Accepted, Change
<1>7. Loading'
  BY <1>0, <1>1, <1>2 DEF Loading, Loads, Under, Accepted, Change, Active, Kind, Now
<1>8. LinksAgree' /\ PeopleAgree'
  BY <1>0, <1>1, <1>2 DEF LinksAgree, PeopleAgree, Listed, Active, Accepted, Under
<1> QED
  BY <1>3, <1>4, <1>5, <1>6, <1>7, <1>8 DEF ListsWillAgree

\* A load is sent: it knows of the changes under way.
LEMMA StepShowTab ==
    ASSUME ListsWillAgree, NEW t \in {"share", "members"}, NEW s \in Slots, ShowTab(t, s)
    PROVE  ListsWillAgree'
<1>0. /\ TypeOK /\ Fresh /\ Generating /\ Revoking /\ Removing /\ Loading
      /\ LinksAgree /\ PeopleAgree
  BY DEF ListsWillAgree
<1>1. /\ s \in Slots /\ s \notin Busy
      /\ UNCHANGED <<invites, members, expired, deleted, links, people, raced>>
      /\ calls' = [calls EXCEPT ![s] = Load(t)]
      /\ tab' = t /\ loading' = TRUE /\ error' = FALSE
  BY DEF ShowTab, serverVars, Free, Busy
<1>2. Load(t) \in Call
  <2>1. Changing \cap Kind(t) \in (SUBSET Invites) \cup (SUBSET People)
    BY DEF Kind
  <2> QED
    BY <2>1 DEF Load, Call
<1>3. /\ calls' \in [Slots -> Call \cup {None}]
      /\ calls'[s] = Load(t)
      /\ \A r \in Busy : calls'[r] = calls[r]
      /\ Busy' = Busy \cup {s}
  BY <1>0, <1>1, <1>2, Filled DEF Busy
<1>4. Loads' = Loads \cup {s} /\ Changing' = Changing
  BY <1>1, <1>3 DEF Loads, Changing, Under, Load
<1>5. TypeOK'
  BY <1>0, <1>1, <1>3 DEF TypeOK
<1>6. Fresh'
  BY <1>0, <1>1, <1>3, ConstantsAssumption DEF Fresh, Accepted, Load
<1>7. Generating'
  BY <1>0, <1>1, <1>3, ConstantsAssumption DEF Generating, Under, Accepted, Load, Active
<1>8. Revoking' /\ Removing'
  BY <1>0, <1>1, <1>3 DEF Revoking, Removing, Under, Accepted, Load
<1>9. Loading'
  BY <1>0, <1>1, <1>3, <1>4 DEF Loading, Accepted, Load, Active, Kind, Now
<1>10. LinksAgree' /\ PeopleAgree'
  BY <1>0, <1>1, <1>3 DEF LinksAgree, PeopleAgree, Listed, Active, Accepted, Under
<1> QED
  BY <1>5, <1>6, <1>7, <1>8, <1>9, <1>10 DEF ListsWillAgree

\* The two steps that turn the answer of a request into a failure.
LEMMA StepNotAccepted ==
    ASSUME ListsWillAgree, NEW s \in Slots, Refuse(s) \/ LoseAnswer(s)
    PROVE  ListsWillAgree'
<1>0. /\ TypeOK /\ Fresh /\ Generating /\ Revoking /\ Removing /\ Loading
      /\ LinksAgree /\ PeopleAgree
  BY DEF ListsWillAgree
<1>1. /\ s \in Busy /\ calls[s].answer # Failed
      /\ UNCHANGED <<invites, members, expired, deleted, tab, links, people, loading, error>>
      /\ calls' = [calls EXCEPT ![s].answer = Failed]
  BY ConstantsAssumption DEF Refuse, LoseAnswer, serverVars, panelVars, Accepted
<1>2. /\ calls' \in [Slots -> Call \cup {None}] /\ Busy' = Busy
      /\ \A r \in Busy : r # s => calls'[r] = calls[r]
      /\ \A r \in Busy : /\ calls'[r].op = calls[r].op
                         /\ calls'[r].item = calls[r].item
                         /\ calls'[r].dirty = calls[r].dirty
      /\ calls'[s].answer = Failed
  BY <1>0, <1>1, Answered DEF Busy
<1>3. Loads' = Loads /\ Changing' = Changing
  BY <1>2 DEF Loads, Changing, Under
<1>4. /\ raced \subseteq raced' /\ raced' \subseteq Invites \cup People
      /\ (Accepted(s) /\ calls[s].item \in Invites \cup People) => calls[s].item \in raced'
      /\ calls[s].answer # None => Accepted(s)
  <2>1. CASE Refuse(s)
    BY <1>0, <2>1 DEF Refuse, Accepted, TypeOK
  <2>2. CASE LoseAnswer(s)
    BY <1>0, <2>2 DEF LoseAnswer, Accepted, TypeOK
  <2> QED
    BY <2>1, <2>2
<1>5. TypeOK'
  BY <1>0, <1>1, <1>2, <1>4 DEF TypeOK
<1>6. Fresh'
  BY <1>0, <1>1, <1>2 DEF Fresh, Accepted
<1>7. Generating'
  <2> SUFFICES ASSUME NEW r \in Under("generate")'
               PROVE  LET x == calls'[r].item IN
                        /\ x \in Invites
                        /\ \A q \in Under("generate")' : calls'[q].item = x => q = r
                        /\ links[x] <= 1
                        /\ calls'[r].answer = None => x \notin invites \cup deleted
                        /\ x \notin raced' =>
                            /\ links[x] = 0
                            /\ \A q \in Busy : calls'[q].item = x => q = r
                            /\ Accepted(r)' => x \in Active
                            /\ calls'[r].answer = Failed => x \notin invites
    BY <1>1, <1>2 DEF Generating, Active
  <2>1. Under("generate")' = Under("generate")
    BY <1>2 DEF Under
  <2>2. calls'[r].item = calls[r].item /\ calls[r].item \in Invites
    BY <1>0, <1>2, <2>1 DEF Generating, Under
  <2>3. CASE r = s
    BY <1>0, <1>1, <1>2, <1>4, <2>1, <2>2, <2>3, ConstantsAssumption
    DEF Generating, Under, Accepted
  <2>4. CASE r # s
    BY <1>0, <1>1, <1>2, <1>4, <2>1, <2>2, <2>4 DEF Generating, Under, Accepted
  <2> QED
    BY <2>3, <2>4
<1>8. Revoking' /\ Removing'
  BY <1>0, <1>1, <1>2, <1>4 DEF Revoking, Removing, Under, Accepted
<1>9. Loading'
  BY <1>0, <1>1, <1>2, <1>3 DEF Loading, Loads, Under, Accepted, Active, Kind, Now
<1>10. LinksAgree'
  BY <1>0, <1>1, <1>2, <1>4 DEF LinksAgree, Listed, Active, Accepted
<1>11. PeopleAgree'
  BY <1>0, <1>1, <1>2, <1>4 DEF PeopleAgree, Accepted, Under
<1> QED
  BY <1>5, <1>6, <1>7, <1>8, <1>9, <1>10, <1>11 DEF ListsWillAgree

\* What happens elsewhere to item i.
LEMMA StepElsewhere ==
    ASSUME ListsWillAgree, NEW i \in Invites \cup People,
           (i \in People /\ Join(i)) \/ (i \in Invites /\ Expire(i))
    PROVE  ListsWillAgree'
<1>0. /\ TypeOK /\ Fresh /\ Generating /\ Revoking /\ Removing /\ Loading
      /\ LinksAgree /\ PeopleAgree
  BY DEF ListsWillAgree
<1>1. /\ UNCHANGED <<invites, deleted, tab, links, people, loading, error>>
      /\ calls' = Overlapped(i) /\ raced' = raced \cup {i}
      /\ expired \subseteq expired' /\ expired' \subseteq expired \cup ({i} \cap invites)
      /\ members \subseteq members' /\ members' \subseteq members \cup {i}
      /\ members' \subseteq People
  BY <1>0 DEF Join, Expire, panelVars, Active, TypeOK
<1>2. /\ calls' \in [Slots -> Call \cup {None}] /\ Busy' = Busy
      /\ \A r \in Busy : /\ calls'[r].op = calls[r].op
                         /\ calls'[r].item = calls[r].item
                         /\ calls'[r].answer = calls[r].answer
      /\ \A r \in Loads : calls'[r].dirty = calls[r].dirty \cup ({i} \cap Kind(calls[r].op))
  BY <1>0, <1>1, Noted DEF Busy
<1>3. Loads' = Loads /\ Changing' = Changing
  BY <1>2 DEF Loads, Changing, Under
<1>4. TypeOK'
  BY <1>0, <1>1, <1>2 DEF TypeOK
<1>5. Fresh'
  BY <1>0, <1>1, <1>2 DEF Fresh, Accepted
<1>6. Generating'
  BY <1>0, <1>1, <1>2 DEF Generating, Under, Accepted, Active
<1>7. Revoking' /\ Removing'
  BY <1>0, <1>1, <1>2 DEF Revoking, Removing, Under, Accepted
<1>8. Loading'
  BY <1>0, <1>1, <1>2, <1>3, ConstantsAssumption DEF Loading, Loads, Under, Accepted, Active, Kind, Now
<1>9. LinksAgree' /\ PeopleAgree'
  BY <1>0, <1>1, <1>2 DEF LinksAgree, PeopleAgree, Listed, Active, Accepted, Under
<1> QED
  BY <1>4, <1>5, <1>6, <1>7, <1>8, <1>9 DEF ListsWillAgree

\* projects-service answers a load.
LEMMA StepServeLoad ==
    ASSUME ListsWillAgree, NEW s \in Slots, Serve(s), calls[s].op \in {"share", "members"}
    PROVE  ListsWillAgree'
<1>0. /\ TypeOK /\ Fresh /\ Generating /\ Revoking /\ Removing /\ Loading
      /\ LinksAgree /\ PeopleAgree
  BY DEF ListsWillAgree
<1> DEFINE x == calls[s].item
<1>1. /\ s \in Busy /\ calls[s].answer = None
      /\ UNCHANGED <<tab, links, people, loading, error, raced>>
      /\ calls' = [calls EXCEPT ![s].answer = Answer(calls[s])]
      /\ UNCHANGED <<invites, members, deleted, expired>>
  BY <1>0 DEF Serve, panelVars, TypeOK
<1>2. /\ Answer(calls[s]) \in (SUBSET Invites) \cup (SUBSET People)
      /\ Answer(calls[s]) = Now(calls[s].op)
  BY <1>0 DEF Answer, Now, Active, TypeOK
<1>3. /\ calls' \in [Slots -> Call \cup {None}] /\ Busy' = Busy
      /\ \A r \in Busy : r # s => calls'[r] = calls[r]
      /\ \A r \in Busy : /\ calls'[r].op = calls[r].op
                         /\ calls'[r].item = calls[r].item
                         /\ calls'[r].dirty = calls[r].dirty
      /\ calls'[s].answer = Answer(calls[s])
  BY <1>0, <1>1, <1>2, Answered DEF Busy
<1>4. Loads' = Loads /\ Changing' = Changing
  BY <1>3 DEF Loads, Changing, Under
<1>5. TypeOK'
  BY <1>0, <1>1, <1>2, <1>3 DEF TypeOK
<1>6. Fresh'
  BY <1>0, <1>1, <1>2, <1>3 DEF Fresh, Accepted, Now, Active, TypeOK
<1>7. Generating'
  BY <1>0, <1>1, <1>2, <1>3 DEF Generating, Under, Accepted, Active, Fresh, TypeOK
<1>8. Revoking' /\ Removing'
  BY <1>0, <1>1, <1>2, <1>3 DEF Revoking, Removing, Under, Accepted
<1>9. Loading'
  BY <1>0, <1>1, <1>2, <1>3, <1>4, ConstantsAssumption DEF Loading, Loads, Under, Accepted, Active, Kind, Now, Changing, TypeOK
<1>10. LinksAgree'
  BY <1>0, <1>1, <1>2, <1>3 DEF LinksAgree, Listed, Active, Accepted, Under, TypeOK
<1>11. PeopleAgree'
  BY <1>0, <1>1, <1>2, <1>3 DEF PeopleAgree, Accepted, Under
<1> QED
  BY <1>5, <1>6, <1>7, <1>8, <1>9, <1>10, <1>11 DEF ListsWillAgree

\* projects-service creates an invite.
LEMMA StepServeGenerate ==
    ASSUME ListsWillAgree, NEW s \in Slots, Serve(s), calls[s].op = "generate"
    PROVE  ListsWillAgree'
<1>0. /\ TypeOK /\ Fresh /\ Generating /\ Revoking /\ Removing /\ Loading
      /\ LinksAgree /\ PeopleAgree
  BY DEF ListsWillAgree
<1> DEFINE x == calls[s].item
<1>1. /\ s \in Busy /\ calls[s].answer = None
      /\ UNCHANGED <<tab, links, people, loading, error, raced>>
      /\ calls' = [calls EXCEPT ![s].answer = Answer(calls[s])]
      /\ UNCHANGED <<members, deleted, expired>>
      /\ invites' = invites \cup {x}
  BY <1>0 DEF Serve, panelVars, TypeOK
<1>2. /\ Answer(calls[s]) = {} /\ {} \notin {None, Failed}
      /\ Answer(calls[s]) \in (SUBSET Invites) \cup (SUBSET People)
      /\ x \in Invites /\ x \notin invites \cup deleted
  BY <1>0, <1>1, AnswersAssumption DEF Answer, Generating, Under
<1>3. /\ calls' \in [Slots -> Call \cup {None}] /\ Busy' = Busy
      /\ \A r \in Busy : r # s => calls'[r] = calls[r]
      /\ \A r \in Busy : /\ calls'[r].op = calls[r].op
                         /\ calls'[r].item = calls[r].item
                         /\ calls'[r].dirty = calls[r].dirty
      /\ calls'[s].answer = Answer(calls[s])
  BY <1>0, <1>1, <1>2, Answered DEF Busy
<1>4. Loads' = Loads /\ Changing' = Changing
  BY <1>3 DEF Loads, Changing, Under
<1>5. TypeOK'
  BY <1>0, <1>1, <1>2, <1>3 DEF TypeOK
<1>6. Fresh'
  BY <1>0, <1>1, <1>2, <1>3 DEF Fresh, Accepted, Under, Generating, Active, TypeOK
<1>7. Generating'
  BY <1>0, <1>1, <1>2, <1>3 DEF Generating, Under, Accepted, Active, Fresh, TypeOK
<1>8. Revoking' /\ Removing'
  BY <1>0, <1>1, <1>2, <1>3 DEF Revoking, Removing, Under, Accepted
<1>9. Loading'
  BY <1>0, <1>1, <1>2, <1>3, <1>4, ConstantsAssumption DEF Loading, Loads, Under, Accepted, Active, Kind, Now, Changing, TypeOK
<1>10. LinksAgree'
  BY <1>0, <1>1, <1>2, <1>3 DEF LinksAgree, Listed, Active, Accepted, Under, TypeOK
<1>11. PeopleAgree'
  BY <1>0, <1>1, <1>2, <1>3 DEF PeopleAgree, Accepted, Under
<1> QED
  BY <1>5, <1>6, <1>7, <1>8, <1>9, <1>10, <1>11 DEF ListsWillAgree

\* projects-service deletes an invite, or finds it gone.
LEMMA StepServeRevoke ==
    ASSUME ListsWillAgree, NEW s \in Slots, Serve(s), calls[s].op = "revoke"
    PROVE  ListsWillAgree'
<1>0. /\ TypeOK /\ Fresh /\ Generating /\ Revoking /\ Removing /\ Loading
      /\ LinksAgree /\ PeopleAgree
  BY DEF ListsWillAgree
<1> DEFINE x == calls[s].item
<1>1. /\ s \in Busy /\ calls[s].answer = None
      /\ UNCHANGED <<tab, links, people, loading, error, raced>>
      /\ calls' = [calls EXCEPT ![s].answer = Answer(calls[s])]
      /\ UNCHANGED members
      /\ invites' = invites \ {x} /\ deleted' = deleted \cup {x}
      /\ expired' = expired \cap invites'
  BY <1>0 DEF Serve, panelVars, TypeOK
<1>2. /\ Answer(calls[s]) = (IF x \in invites THEN {} ELSE Failed)
      /\ {} \notin {None, Failed}
      /\ Answer(calls[s]) \in {None, Failed} \cup (SUBSET Invites) \cup (SUBSET People)
      /\ x \in Invites
  BY <1>0, <1>1, AnswersAssumption DEF Answer, Revoking, Under
<1>3. /\ calls' \in [Slots -> Call \cup {None}] /\ Busy' = Busy
      /\ \A r \in Busy : r # s => calls'[r] = calls[r]
      /\ \A r \in Busy : /\ calls'[r].op = calls[r].op
                         /\ calls'[r].item = calls[r].item
                         /\ calls'[r].dirty = calls[r].dirty
      /\ calls'[s].answer = Answer(calls[s])
  BY <1>0, <1>1, <1>2, Answered DEF Busy
<1>4. Loads' = Loads /\ Changing' = Changing
  BY <1>3 DEF Loads, Changing, Under
<1>5. TypeOK'
  BY <1>0, <1>1, <1>2, <1>3 DEF TypeOK
<1>6. Fresh'
  BY <1>0, <1>1, <1>2, <1>3 DEF Fresh, Accepted, Under, Generating, Active, TypeOK
<1>7. Generating'
  BY <1>0, <1>1, <1>2, <1>3 DEF Generating, Under, Accepted, Active, Fresh, TypeOK
<1>8. Revoking' /\ Removing'
  BY <1>0, <1>1, <1>2, <1>3 DEF Revoking, Removing, Under, Accepted
<1>9. Loading'
  BY <1>0, <1>1, <1>2, <1>3, <1>4, ConstantsAssumption DEF Loading, Loads, Under, Accepted, Active, Kind, Now, Changing, TypeOK
<1>10. LinksAgree'
  BY <1>0, <1>1, <1>2, <1>3 DEF LinksAgree, Listed, Active, Accepted, Under, TypeOK
<1>11. PeopleAgree'
  BY <1>0, <1>1, <1>2, <1>3 DEF PeopleAgree, Accepted, Under
<1> QED
  BY <1>5, <1>6, <1>7, <1>8, <1>9, <1>10, <1>11 DEF ListsWillAgree

\* projects-service takes a member out.
LEMMA StepServeRemove ==
    ASSUME ListsWillAgree, NEW s \in Slots, Serve(s), calls[s].op = "remove"
    PROVE  ListsWillAgree'
<1>0. /\ TypeOK /\ Fresh /\ Generating /\ Revoking /\ Removing /\ Loading
      /\ LinksAgree /\ PeopleAgree
  BY DEF ListsWillAgree
<1> DEFINE x == calls[s].item
<1>1. /\ s \in Busy /\ calls[s].answer = None
      /\ UNCHANGED <<tab, links, people, loading, error, raced>>
      /\ calls' = [calls EXCEPT ![s].answer = Answer(calls[s])]
      /\ UNCHANGED <<invites, deleted, expired>>
      /\ members' = members \ {x}
  BY <1>0 DEF Serve, panelVars, TypeOK
<1>2. /\ Answer(calls[s]) = {} /\ {} \notin {None, Failed}
      /\ Answer(calls[s]) \in (SUBSET Invites) \cup (SUBSET People)
      /\ x \in People
  BY <1>0, <1>1, AnswersAssumption DEF Answer, Removing, Under
<1>3. /\ calls' \in [Slots -> Call \cup {None}] /\ Busy' = Busy
      /\ \A r \in Busy : r # s => calls'[r] = calls[r]
      /\ \A r \in Busy : /\ calls'[r].op = calls[r].op
                         /\ calls'[r].item = calls[r].item
                         /\ calls'[r].dirty = calls[r].dirty
      /\ calls'[s].answer = Answer(calls[s])
  BY <1>0, <1>1, <1>2, Answered DEF Busy
<1>4. Loads' = Loads /\ Changing' = Changing
  BY <1>3 DEF Loads, Changing, Under
<1>5. TypeOK'
  BY <1>0, <1>1, <1>2, <1>3 DEF TypeOK
<1>6. Fresh'
  BY <1>0, <1>1, <1>2, <1>3 DEF Fresh, Accepted, Under, Generating, Active, TypeOK
<1>7. Generating'
  BY <1>0, <1>1, <1>2, <1>3 DEF Generating, Under, Accepted, Active, Fresh, TypeOK
<1>8. Revoking' /\ Removing'
  BY <1>0, <1>1, <1>2, <1>3 DEF Revoking, Removing, Under, Accepted
<1>9. Loading'
  BY <1>0, <1>1, <1>2, <1>3, <1>4, ConstantsAssumption DEF Loading, Loads, Under, Accepted, Active, Kind, Now, Changing, TypeOK
<1>10. LinksAgree'
  BY <1>0, <1>1, <1>2, <1>3 DEF LinksAgree, Listed, Active, Accepted, Under, TypeOK
<1>11. PeopleAgree'
  BY <1>0, <1>1, <1>2, <1>3 DEF PeopleAgree, Accepted, Under
<1> QED
  BY <1>5, <1>6, <1>7, <1>8, <1>9, <1>10, <1>11 DEF ListsWillAgree

\* A load ends: its list is shown.
LEMMA StepLoadDone ==
    ASSUME ListsWillAgree, NEW s \in Slots, LoadDone(s)
    PROVE  ListsWillAgree'
<1>0. /\ TypeOK /\ Fresh /\ Generating /\ Revoking /\ Removing /\ Loading
      /\ LinksAgree /\ PeopleAgree
  BY DEF ListsWillAgree
<1> DEFINE c == calls[s]
<1>1. /\ s \in Busy /\ c.op \in {"share", "members"} /\ Accepted(s)
      /\ UNCHANGED <<invites, members, expired, deleted, tab>>
      /\ calls' = [calls EXCEPT ![s] = None]
      /\ loading' = FALSE /\ error' \in BOOLEAN
      /\ links' = (IF c.op = "share" THEN Listed(c.answer) ELSE links)
      /\ people' = (IF c.op = "members" THEN c.answer ELSE people)
      /\ raced' = (raced \ Kind(c.op)) \cup c.dirty
  BY <1>0, ConstantsAssumption DEF LoadDone, Ends, serverVars, Under, Loads, Accepted, WithoutLink, WithoutPerson, TypeOK
<1>2. /\ calls' \in [Slots -> Call \cup {None}]
      /\ Busy' = Busy \ {s}
      /\ \A r \in Busy' : calls'[r] = calls[r]
  BY <1>0, <1>1, Emptied
<1>3. c \in Call
  BY <1>0, <1>1, Slot
<1>4. /\ raced' \subseteq Invites \cup People
      /\ c.answer \subseteq Kind(c.op)
      /\ \A y \in Kind(c.op) \ raced' :
            /\ \A r \in Busy : calls[r].item # y
            /\ y \in c.answer <=> y \in Now(c.op)
      /\ \A y \in (Invites \cup People) \ Kind(c.op) : y \in raced' <=> y \in raced
      /\ Kind("share") = Invites /\ Kind("members") = People
      /\ Invites \cap People = {}
      /\ Now("share") = Active /\ Now("members") = members
  BY <1>0, <1>1, <1>3, ConstantsAssumption DEF Loading, Loads, Under, Kind, Changing, TypeOK, Now
<1>5. TypeOK'
  <2>1. links' \in [Invites -> 0 .. 2]
    BY <1>0, <1>1, <1>4 DEF TypeOK, Listed
  <2>2. people' \subseteq People /\ raced' \subseteq Invites \cup People
    BY <1>0, <1>1, <1>4 DEF TypeOK
  <2> QED
    BY <1>0, <1>1, <1>2, <2>1, <2>2 DEF TypeOK
<1>6. Fresh'
  BY <1>0, <1>1, <1>2 DEF Fresh, Accepted, Listed
<1>7. Generating'
  BY <1>0, <1>1, <1>2, <1>4 DEF Generating, Under, Accepted, Active, Listed
<1>8. Revoking' /\ Removing'
  BY <1>0, <1>1, <1>2, <1>4 DEF Revoking, Removing, Under, Accepted
<1>9. Loading'
  BY <1>0, <1>1, <1>2 DEF Loading, Loads, Under, Accepted, Active, Kind, Now, Changing
<1>10. LinksAgree'
  BY <1>0, <1>1, <1>2, <1>4 DEF LinksAgree, Listed, Active, Accepted, Under, TypeOK
<1>11. PeopleAgree'
  BY <1>0, <1>1, <1>2, <1>4 DEF PeopleAgree, Accepted, Under
<1> QED
  BY <1>5, <1>6, <1>7, <1>8, <1>9, <1>10, <1>11 DEF ListsWillAgree

\* A new link is put at the head of the list.
LEMMA StepGenerateDone ==
    ASSUME ListsWillAgree, NEW s \in Slots, GenerateDone(s)
    PROVE  ListsWillAgree'
<1>0. /\ TypeOK /\ Fresh /\ Generating /\ Revoking /\ Removing /\ Loading
      /\ LinksAgree /\ PeopleAgree
  BY DEF ListsWillAgree
<1> DEFINE c == calls[s]
<1>1. /\ s \in Busy /\ c.op = "generate" /\ Accepted(s)
      /\ UNCHANGED <<invites, members, expired, deleted, tab>>
      /\ calls' = [calls EXCEPT ![s] = None]
      /\ loading' = FALSE /\ error' \in BOOLEAN
      /\ links' = [links EXCEPT ![c.item] = @ + 1]
      /\ UNCHANGED <<people, raced>>
  BY <1>0, ConstantsAssumption DEF GenerateDone, Ends, serverVars, Under, Loads, Accepted, WithoutLink, WithoutPerson, TypeOK
<1>2. /\ calls' \in [Slots -> Call \cup {None}]
      /\ Busy' = Busy \ {s}
      /\ \A r \in Busy' : calls'[r] = calls[r]
  BY <1>0, <1>1, Emptied
<1>3. c \in Call
  BY <1>0, <1>1, Slot
<1>4. /\ c.item \in Invites /\ links[c.item] \in 0 .. 1
      /\ \A r \in Busy : r # s /\ calls[r].op = "generate" => calls[r].item # c.item
      /\ c.item \in invites \cup deleted
      /\ c.item \notin raced => links[c.item] = 0 /\ c.item \in Active
  BY <1>0, <1>1 DEF Generating, Under, Fresh, TypeOK
<1>5. TypeOK'
  <2>1. links' \in [Invites -> 0 .. 2]
    BY <1>0, <1>1, <1>4 DEF TypeOK, Listed
  <2>2. people' \subseteq People /\ raced' \subseteq Invites \cup People
    BY <1>0, <1>1, <1>4 DEF TypeOK
  <2> QED
    BY <1>0, <1>1, <1>2, <2>1, <2>2 DEF TypeOK
<1>6. Fresh'
  BY <1>0, <1>1, <1>2 DEF Fresh, Accepted, Listed
<1>7. Generating'
  BY <1>0, <1>1, <1>2, <1>4 DEF Generating, Under, Accepted, Active, Listed
<1>8. Revoking' /\ Removing'
  BY <1>0, <1>1, <1>2, <1>4 DEF Revoking, Removing, Under, Accepted
<1>9. Loading'
  BY <1>0, <1>1, <1>2 DEF Loading, Loads, Under, Accepted, Active, Kind, Now, Changing
<1>10. LinksAgree'
  BY <1>0, <1>1, <1>2, <1>4 DEF LinksAgree, Listed, Active, Accepted, Under, TypeOK
<1>11. PeopleAgree'
  BY <1>0, <1>1, <1>2, <1>4 DEF PeopleAgree, Accepted, Under
<1> QED
  BY <1>5, <1>6, <1>7, <1>8, <1>9, <1>10, <1>11 DEF ListsWillAgree

\* A revoked link is filtered out.
LEMMA StepRevokeDone ==
    ASSUME ListsWillAgree, NEW s \in Slots, RevokeDone(s)
    PROVE  ListsWillAgree'
<1>0. /\ TypeOK /\ Fresh /\ Generating /\ Revoking /\ Removing /\ Loading
      /\ LinksAgree /\ PeopleAgree
  BY DEF ListsWillAgree
<1> DEFINE c == calls[s]
<1>1. /\ s \in Busy /\ c.op = "revoke" /\ Accepted(s)
      /\ UNCHANGED <<invites, members, expired, deleted, tab>>
      /\ calls' = [calls EXCEPT ![s] = None]
      /\ loading' = FALSE /\ error' \in BOOLEAN
      /\ links' = [links EXCEPT ![c.item] = 0]
      /\ UNCHANGED <<people, raced>>
  BY <1>0, ConstantsAssumption DEF RevokeDone, Ends, serverVars, Under, Loads, Accepted, WithoutLink, WithoutPerson, TypeOK
<1>2. /\ calls' \in [Slots -> Call \cup {None}]
      /\ Busy' = Busy \ {s}
      /\ \A r \in Busy' : calls'[r] = calls[r]
  BY <1>0, <1>1, Emptied
<1>3. c \in Call
  BY <1>0, <1>1, Slot
<1>4. c.item \in Invites /\ c.item \in deleted /\ c.item \notin Active
  BY <1>0, <1>1 DEF Revoking, Under, TypeOK, Active
<1>5. TypeOK'
  <2>1. links' \in [Invites -> 0 .. 2]
    BY <1>0, <1>1, <1>4 DEF TypeOK, Listed
  <2>2. people' \subseteq People /\ raced' \subseteq Invites \cup People
    BY <1>0, <1>1, <1>4 DEF TypeOK
  <2> QED
    BY <1>0, <1>1, <1>2, <2>1, <2>2 DEF TypeOK
<1>6. Fresh'
  BY <1>0, <1>1, <1>2 DEF Fresh, Accepted, Listed
<1>7. Generating'
  BY <1>0, <1>1, <1>2, <1>4 DEF Generating, Under, Accepted, Active, Listed
<1>8. Revoking' /\ Removing'
  BY <1>0, <1>1, <1>2, <1>4 DEF Revoking, Removing, Under, Accepted
<1>9. Loading'
  BY <1>0, <1>1, <1>2 DEF Loading, Loads, Under, Accepted, Active, Kind, Now, Changing
<1>10. LinksAgree'
  BY <1>0, <1>1, <1>2, <1>4 DEF LinksAgree, Listed, Active, Accepted, Under, TypeOK
<1>11. PeopleAgree'
  BY <1>0, <1>1, <1>2, <1>4 DEF PeopleAgree, Accepted, Under
<1> QED
  BY <1>5, <1>6, <1>7, <1>8, <1>9, <1>10, <1>11 DEF ListsWillAgree

\* A removed member is filtered out.
LEMMA StepRemoveDone ==
    ASSUME ListsWillAgree, NEW s \in Slots, RemoveDone(s)
    PROVE  ListsWillAgree'
<1>0. /\ TypeOK /\ Fresh /\ Generating /\ Revoking /\ Removing /\ Loading
      /\ LinksAgree /\ PeopleAgree
  BY DEF ListsWillAgree
<1> DEFINE c == calls[s]
<1>1. /\ s \in Busy /\ c.op = "remove" /\ Accepted(s)
      /\ UNCHANGED <<invites, members, expired, deleted, tab>>
      /\ calls' = [calls EXCEPT ![s] = None]
      /\ loading' = FALSE /\ error' \in BOOLEAN
      /\ people' = people \ {c.item}
      /\ UNCHANGED <<links, raced>>
  BY <1>0, ConstantsAssumption DEF RemoveDone, Ends, serverVars, Under, Loads, Accepted, WithoutLink, WithoutPerson, TypeOK
<1>2. /\ calls' \in [Slots -> Call \cup {None}]
      /\ Busy' = Busy \ {s}
      /\ \A r \in Busy' : calls'[r] = calls[r]
  BY <1>0, <1>1, Emptied
<1>3. c \in Call
  BY <1>0, <1>1, Slot
<1>4. c.item \in People /\ (c.item \notin raced => c.item \notin members)
  BY <1>0, <1>1 DEF Removing, Under, TypeOK
<1>5. TypeOK'
  <2>1. links' \in [Invites -> 0 .. 2]
    BY <1>0, <1>1, <1>4 DEF TypeOK, Listed
  <2>2. people' \subseteq People /\ raced' \subseteq Invites \cup People
    BY <1>0, <1>1, <1>4 DEF TypeOK
  <2> QED
    BY <1>0, <1>1, <1>2, <2>1, <2>2 DEF TypeOK
<1>6. Fresh'
  BY <1>0, <1>1, <1>2 DEF Fresh, Accepted, Listed
<1>7. Generating'
  BY <1>0, <1>1, <1>2, <1>4 DEF Generating, Under, Accepted, Active, Listed
<1>8. Revoking' /\ Removing'
  BY <1>0, <1>1, <1>2, <1>4 DEF Revoking, Removing, Under, Accepted
<1>9. Loading'
  BY <1>0, <1>1, <1>2 DEF Loading, Loads, Under, Accepted, Active, Kind, Now, Changing
<1>10. LinksAgree'
  BY <1>0, <1>1, <1>2, <1>4 DEF LinksAgree, Listed, Active, Accepted, Under, TypeOK
<1>11. PeopleAgree'
  BY <1>0, <1>1, <1>2, <1>4 DEF PeopleAgree, Accepted, Under
<1> QED
  BY <1>5, <1>6, <1>7, <1>8, <1>9, <1>10, <1>11 DEF ListsWillAgree

\* A failure changes neither list.
LEMMA StepFails ==
    ASSUME ListsWillAgree, NEW s \in Slots, Fails(s)
    PROVE  ListsWillAgree'
<1>0. /\ TypeOK /\ Fresh /\ Generating /\ Revoking /\ Removing /\ Loading
      /\ LinksAgree /\ PeopleAgree
  BY DEF ListsWillAgree
<1> DEFINE c == calls[s]
<1>1. /\ s \in Busy /\ c.answer = Failed
      /\ UNCHANGED <<invites, members, expired, deleted, tab>>
      /\ calls' = [calls EXCEPT ![s] = None]
      /\ loading' = FALSE /\ error' \in BOOLEAN
      /\ UNCHANGED <<links, people, raced>>
  BY <1>0, ConstantsAssumption DEF Fails, Ends, serverVars, Under, Loads, Accepted, WithoutLink, WithoutPerson, TypeOK
<1>2. /\ calls' \in [Slots -> Call \cup {None}]
      /\ Busy' = Busy \ {s}
      /\ \A r \in Busy' : calls'[r] = calls[r]
  BY <1>0, <1>1, Emptied
<1>3. c \in Call
  BY <1>0, <1>1, Slot
<1>4. ~Accepted(s)
  BY <1>1 DEF Accepted
<1>5. TypeOK'
  <2>1. links' \in [Invites -> 0 .. 2]
    BY <1>0, <1>1, <1>4 DEF TypeOK, Listed
  <2>2. people' \subseteq People /\ raced' \subseteq Invites \cup People
    BY <1>0, <1>1, <1>4 DEF TypeOK
  <2> QED
    BY <1>0, <1>1, <1>2, <2>1, <2>2 DEF TypeOK
<1>6. Fresh'
  BY <1>0, <1>1, <1>2 DEF Fresh, Accepted, Listed
<1>7. Generating'
  BY <1>0, <1>1, <1>2, <1>4 DEF Generating, Under, Accepted, Active, Listed
<1>8. Revoking' /\ Removing'
  BY <1>0, <1>1, <1>2, <1>4 DEF Revoking, Removing, Under, Accepted
<1>9. Loading'
  BY <1>0, <1>1, <1>2 DEF Loading, Loads, Under, Accepted, Active, Kind, Now, Changing
<1>10. LinksAgree'
  BY <1>0, <1>1, <1>2, <1>4 DEF LinksAgree, Listed, Active, Accepted, Under, TypeOK
<1>11. PeopleAgree'
  BY <1>0, <1>1, <1>2, <1>4 DEF PeopleAgree, Accepted, Under
<1> QED
  BY <1>5, <1>6, <1>7, <1>8, <1>9, <1>10, <1>11 DEF ListsWillAgree

\* The invariant holds at first,
LEMMA ListsWillAgreeInit == Init => ListsWillAgree
<1> SUFFICES ASSUME Init PROVE ListsWillAgree
  OBVIOUS
<1> DEFINE c == [op |-> "share", item |-> None, answer |-> None, dirty |-> {}]
<1>1. PICK s \in Slots : calls = [r \in Slots |-> IF r = s THEN c ELSE None]
  BY DEF Init
<1>2. c \in Call /\ c # None
  BY AnswersAssumption DEF Call
<1>3. Busy = {s} /\ calls[s] = c
  BY <1>1, <1>2 DEF Busy
<1>4. calls \in [Slots -> Call \cup {None}]
  BY <1>1, <1>2
<1>5. Loads = {s} /\ Changing = {} /\ ~Accepted(s)
  BY <1>3 DEF Loads, Under, Changing, Accepted
<1>6. TypeOK
  <2>1. links \in [Invites -> 0 .. 2]
    BY DEF Init, Listed
  <2> QED
    BY <1>4, <2>1, ConstantsAssumption DEF Init, TypeOK
<1>7. Fresh /\ Generating /\ Revoking /\ Removing
  BY <1>3, <1>5, ConstantsAssumption DEF Init, Fresh, Generating, Revoking, Removing, Under, Listed
<1>8. Loading
  BY <1>3, <1>5 DEF Loading, Kind
<1>9. LinksAgree /\ PeopleAgree
  BY DEF Init, LinksAgree, PeopleAgree
<1> QED
  BY <1>6, <1>7, <1>8, <1>9 DEF ListsWillAgree

\* is kept by every step,
LEMMA ListsWillAgreeStep ==
    ASSUME ListsWillAgree, [Next]_vars PROVE ListsWillAgree'
<1>1. CASE UNCHANGED vars
  <2> USE <1>1 DEF vars, serverVars, panelVars
  <2>1. /\ Busy' = Busy /\ Loads' = Loads /\ Changing' = Changing /\ Active' = Active
        /\ \A s \in Slots : Accepted(s)' = Accepted(s)
        /\ \A op \in {"generate", "revoke", "remove"} : Under(op)' = Under(op)
        /\ \A t \in {"share", "members"} : Now(t)' = Now(t)
    BY DEF Busy, Loads, Changing, Under, Accepted, Active, Now
  <2>2. TypeOK'
    BY DEF ListsWillAgree, TypeOK
  <2>3. Fresh' /\ Generating' /\ Revoking' /\ Removing'
    BY <2>1 DEF ListsWillAgree, Fresh, Generating, Revoking, Removing, Busy, Under
  <2>4. Loading'
    BY <2>1 DEF ListsWillAgree, Loading, Loads, Under, Busy
  <2>5. LinksAgree' /\ PeopleAgree'
    BY <2>1 DEF ListsWillAgree, LinksAgree, PeopleAgree, Busy, Under, Listed
  <2> QED
    BY <2>2, <2>3, <2>4, <2>5 DEF ListsWillAgree
<1>2. ASSUME NEW s \in Slots, Serve(s) PROVE ListsWillAgree'
  <2>1. calls[s].op \in {"share", "members", "generate", "revoke", "remove"}
    BY <1>2, Slot DEF Serve, ListsWillAgree, Call
  <2> QED
    BY <1>2, <2>1, StepServeLoad, StepServeGenerate, StepServeRevoke, StepServeRemove
<1>3. ASSUME NEW s \in Slots,
             \/ \E t \in {"share", "members"} : ShowTab(t, s)
             \/ \E i \in Invites : GenerateLink(i, s) \/ RevokeLink(i, s)
             \/ \E p \in People : RemoveCollaborator(p, s)
             \/ Refuse(s) \/ LoseAnswer(s)
      PROVE  ListsWillAgree'
  BY <1>3, StepGenerateLink, StepRevokeLink, StepRemoveCollaborator, StepShowTab, StepNotAccepted
<1>4. ASSUME NEW s \in Slots,
             \/ LoadDone(s) \/ GenerateDone(s) \/ RevokeDone(s) \/ RemoveDone(s)
             \/ Fails(s)
      PROVE  ListsWillAgree'
  BY <1>4, StepLoadDone, StepGenerateDone, StepRevokeDone, StepRemoveDone, StepFails
<1>5. ASSUME NEW i \in Invites \cup People,
             (i \in People /\ Join(i)) \/ (i \in Invites /\ Expire(i))
      PROVE  ListsWillAgree'
  BY <1>5, StepElsewhere
<1>6. ASSUME NEW p \in People, Join(p) PROVE ListsWillAgree'
  BY <1>5, <1>6
<1>7. ASSUME NEW i \in Invites, Expire(i) PROVE ListsWillAgree'
  BY <1>5, <1>7
<1> QED
  BY <1>1, <1>2, <1>3, <1>4, <1>6, <1>7 DEF Next

\* and so holds of every behaviour.
LEMMA ListsWillAgreeAlways == Spec => []ListsWillAgree
<1>1. ListsWillAgree /\ [Next]_vars => ListsWillAgree'
  BY ListsWillAgreeStep
<1> QED
  BY <1>1, ListsWillAgreeInit, PTL DEF Spec

\* The types; in particular, however the GETs and the POST are answered, no
\* link is listed more than twice.
THEOREM TypeCorrect == Spec => []TypeOK
<1>1. ListsWillAgree => TypeOK
  BY DEF ListsWillAgree
<1> QED
  BY <1>1, ListsWillAgreeAlways, PTL

\* Updating the lists in place is enough for any number of links, members and
\* requests under way: an item no change is under way for is listed as
\* projects-service has it, unless it is one the panel cannot know of.
THEOREM ListsCorrect == Spec => []ListsAgree
BY ListsWillAgreeAlways, ListsWillAgreeSuffices, PTL

=============================================================================

------------------------- MODULE AuthSession_proofs -------------------------
(***************************************************************************)
(* Proofs about AuthSession: who is shown as logged in is who sends the    *)
(* requests, and an invite is used once.                                   *)
(***************************************************************************)
EXTENDS AuthSession, FiniteSetTheorems, TLAPS

-----------------------------------------------------------------------------
(***************************************************************************)
(* The inductive invariants.                                               *)
(***************************************************************************)

Request == [kind : {"check", "callback", "login", "logout"}, token : Tokens,
            old : BOOLEAN, n : Nat]

Requests(cs) == cs \subseteq Request

\* TypeOK; finitely many requests are under way, and the callback page has
\* been given a token.
Types ==
    /\ TypeOK
    /\ IsFiniteSet(calls) /\ Requests(calls)
    /\ page = "callback" => param # None

\* The user shown is the one whose token is stored, or a check is under way
\* whose answer will make it so; a late answer breaks this.
Checked ==
    page # "public" /\ ~disturbed =>
        \/ user = token
        \/ \E c \in calls : c.kind \in {"check", "callback"} /\ ~c.old

\* Only /join counts accepts. After the first one the effect has run with a
\* user who is known, and nothing but a new mount sets loading again.
Joined ==
    /\ page # "join" => accepts = 0
    /\ accepts # 0 => accepts = 1 /\ ~loading /\ joinSeen = <<FALSE, TRUE>>

-----------------------------------------------------------------------------
(***************************************************************************)
(* Types.                                                                  *)
(***************************************************************************)

\* A new request.
LEMMA CallTypes ==
    ASSUME IsFiniteSet(calls), NEW t \in Tokens,
           NEW kind \in {"check", "callback", "login", "logout"}
    PROVE  /\ Call(kind, t) \in Request /\ [Call(kind, t) EXCEPT !.n = 1] \in Request
           /\ Call(kind, t).kind = kind /\ ~Call(kind, t).old
           /\ [Call(kind, t) EXCEPT !.n = 1].kind = kind
           /\ ~[Call(kind, t) EXCEPT !.n = 1].old
<1> DEFINE same == {c \in calls : c.kind = kind /\ c.token = t /\ ~c.old}
<1>1. IsFiniteSet(same)
  BY FS_Subset
<1>2. Cardinality(same) \in Nat
  BY <1>1, FS_CardinalityType
<1> HIDE DEF same
<1>3. Call(kind, t) = [kind |-> kind, token |-> t, old |-> FALSE, n |-> 1 + Cardinality(same)]
  BY DEF Call, same
<1>4. [Call(kind, t) EXCEPT !.n = 1] = [kind |-> kind, token |-> t, old |-> FALSE, n |-> 1]
  <2>1. ASSUME NEW b, NEW m
        PROVE  [[kind |-> kind, token |-> t, old |-> b, n |-> m] EXCEPT !.n = 1]
                    = [kind |-> kind, token |-> t, old |-> b, n |-> 1]
    OBVIOUS
  <2> QED
    BY <1>3, <2>1, Zenon
<1>5. ASSUME NEW m \in Nat
      PROVE  LET c == [kind |-> kind, token |-> t, old |-> FALSE, n |-> m]
             IN  c \in Request /\ c.kind = kind /\ ~c.old
  BY DEF Request
<1>6. 1 + Cardinality(same) \in Nat /\ 1 \in Nat
  BY <1>2
<1> QED
  BY <1>3, <1>4, <1>5, <1>6

\* A provider that mounts knows nobody, and asks if there is somebody to know.
LEMMA MountFacts ==
    ASSUME IsFiniteSet(calls), NEW t \in Tokens \cup {None}, NEW others,
           IsFiniteSet(others), Requests(others), Mount(t, others)
    PROVE  /\ user' = None /\ loading' \in BOOLEAN
           /\ IsFiniteSet(calls') /\ Requests(calls') /\ others \subseteq calls'
           /\ t # None => \E c \in calls' : c.kind = "check" /\ ~c.old
<1>1. CASE t = None
  BY <1>1 DEF Mount, MustCheck
<1>2. CASE t # None
  <2> DEFINE c == [Call("check", t) EXCEPT !.n = 1]
  <2>1. c \in Request /\ c.kind = "check" /\ ~c.old
    BY <1>2, CallTypes
  <2>2. user' = None /\ loading' = TRUE /\ calls' = others \cup {c}
    BY <1>2 DEF Mount, MustCheck
  <2> HIDE DEF c
  <2>3. IsFiniteSet(calls')
    BY <2>2, FS_AddElement
  <2>4. Requests(calls')
    BY <2>1, <2>2 DEF Requests, Request
  <2> QED
    BY <2>1, <2>2, <2>3, <2>4
<1> QED
  BY <1>1, <1>2

\* A route is shown, by the provider that is there or by a new one.
LEMMA RouteFacts ==
    ASSUME IsFiniteSet(calls), NEW p, NEW t \in Tokens \cup {None}, NEW u, NEW l \in BOOLEAN,
           NEW others, IsFiniteSet(others), Requests(others), Route(p, t, u, l, others)
    PROVE  /\ page' = p /\ loading' \in BOOLEAN
           /\ IsFiniteSet(calls') /\ Requests(calls')
           /\ \/ page # "public" /\ user' = u /\ loading' = l /\ calls' = others
              \/ /\ page = "public" /\ user' = None
                 /\ t # None => \E c \in calls' : c.kind = "check" /\ ~c.old
           /\ joinSeen' = IF p = page THEN joinSeen ELSE None
           /\ accepts' = IF p = page THEN accepts ELSE 0
<1>1. CASE page # "public"
  BY <1>1 DEF Route
<1>2. CASE page = "public"
  BY <1>2, MountFacts DEF Route
<1> QED
  BY <1>1, <1>2

\* What the effect of JoinView has run with.
Seen == {None} \cup (BOOLEAN \X BOOLEAN)

\* What the types say of each variable, and of a step that counts as a move.
LEMMA Variables ==
    ASSUME Types
    PROVE  /\ page \in Pages /\ redirect \in {None, "join"}
           /\ param \in Tokens \cup {None} /\ token \in Tokens \cup {None}
           /\ user \in Tokens \cup {None} /\ saved \in {None, "dashboard", "join"}
           /\ loading \in BOOLEAN /\ accepting \in BOOLEAN /\ disturbed \in BOOLEAN
           /\ joinSeen \in Seen /\ None \in Seen /\ accepts \in Nat
           /\ IsFiniteSet(calls) /\ Requests(calls)
           /\ expired \subseteq Tokens /\ moves \in 0 .. MaxMoves
           /\ Moves => moves' \in 0 .. MaxMoves
           /\ page = "callback" => param # None
           /\ \A c \in calls : c.token \in Tokens /\ c.old \in BOOLEAN
<1>1. moves \in 0 .. MaxMoves /\ (Moves => moves' \in 0 .. MaxMoves)
  BY ConstantsAssumption DEF Types, TypeOK, Moves
<1>2. joinSeen \in Seen /\ None \in Seen
  BY Zenon DEF Seen, Types, TypeOK
<1>3. \A c \in calls : c.token \in Tokens /\ c.old \in BOOLEAN
  BY DEF Types, Requests, Request
<1> QED
  BY <1>1, <1>2, <1>3 DEF Types, TypeOK

\* The parts the types of the next state are put together from.
LEMMA TypesNext ==
    ASSUME page' \in Pages, redirect' \in {None, "join"},
           param' \in Tokens \cup {None}, token' \in Tokens \cup {None},
           user' \in Tokens \cup {None}, saved' \in {None, "dashboard", "join"},
           loading' \in BOOLEAN, accepting' \in BOOLEAN, disturbed' \in BOOLEAN,
           joinSeen' \in Seen, accepts' \in Nat,
           IsFiniteSet(calls'), Requests(calls'),
           expired' \subseteq Tokens, moves' \in 0 .. MaxMoves,
           page' = "callback" => param' # None
    PROVE  Types'
<1>1. \A c \in calls' : /\ c.kind \in {"check", "callback", "login", "logout"}
                        /\ c.token \in Tokens /\ c.old \in BOOLEAN /\ c.n \in Nat
  BY DEF Requests, Request
<1> QED
  BY <1>1, Zenon DEF Types, TypeOK, Seen

\* A change of route keeps the types, whichever view mounts or unmounts.
LEMMA RouteTypes ==
    ASSUME Types, NEW p \in Pages \ {"callback"}, NEW t \in Tokens \cup {None},
           NEW u \in Tokens \cup {None}, NEW l \in BOOLEAN,
           NEW others, IsFiniteSet(others), Requests(others), Route(p, t, u, l, others)
    PROVE  /\ page' \in Pages /\ page' # "callback"
           /\ user' \in Tokens \cup {None} /\ loading' \in BOOLEAN
           /\ IsFiniteSet(calls') /\ Requests(calls')
           /\ joinSeen' \in Seen /\ accepts' \in Nat
<1>1. IsFiniteSet(calls)
  BY DEF Types
<1>2. joinSeen' \in Seen
  <2>1. joinSeen' \in {joinSeen, None}
    BY <1>1, RouteFacts
  <2> QED
    BY <2>1, Variables
<1>3. accepts' \in Nat
  BY <1>1, RouteFacts DEF Types, TypeOK
<1>4. user' \in Tokens \cup {None}
  <2>1. user' = u \/ user' = None
    BY <1>1, RouteFacts
  <2> QED
    BY <2>1
<1> QED
  BY <1>1, <1>2, <1>3, <1>4, RouteFacts

\* What an answer to a check leaves: a token or none, a user, and requests; if
\* the effect of OAuthCallback runs again, one of them is the one it sends.
LEMMA AnswerFacts ==
    ASSUME Types, NEW c \in calls, NEW ok \in BOOLEAN, TokenChecked(c, ok)
    PROVE  /\ IsFiniteSet(CallsAfter(c, ok)) /\ Requests(CallsAfter(c, ok))
           /\ token' \in Tokens \cup {None} /\ UserAfter(c, ok) \in Tokens \cup {None}
           /\ LoadingNow(c, ok) \in BOOLEAN /\ (LoadingNow(c, ok) => loading)
           /\ IF RunsAgain(c, ok)
              THEN \E d \in CallsAfter(c, ok) : d.kind = "callback" /\ ~d.old
              ELSE token' = IF ok THEN token ELSE None
<1>1. /\ token \in Tokens \cup {None} /\ param \in Tokens \cup {None}
      /\ user \in Tokens \cup {None} /\ loading \in BOOLEAN
      /\ IsFiniteSet(calls) /\ Requests(calls)
      /\ page = "callback" => param # None
      /\ c.token \in Tokens
  BY Variables
<1>2. IsFiniteSet(calls \ {c}) /\ Requests(calls \ {c})
  BY <1>1, FS_RemoveElement DEF Requests
<1>3. UserAfter(c, ok) \in Tokens \cup {None}
  BY <1>1 DEF UserAfter
<1>4. LoadingNow(c, ok) \in BOOLEAN /\ (LoadingNow(c, ok) => loading)
  BY <1>1 DEF LoadingNow, LoadingAfter
<1>5. CASE RunsAgain(c, ok)
  <2>1. param \in Tokens
    BY <1>1, <1>5 DEF RunsAgain
  <2>2. CallsAfter(c, ok) = (calls \ {c}) \cup {Call("callback", param)}
    BY <1>5 DEF CallsAfter
  <2>3. /\ Call("callback", param) \in Request
        /\ Call("callback", param).kind = "callback" /\ ~Call("callback", param).old
    BY <1>1, <2>1, CallTypes
  <2>4. IsFiniteSet(CallsAfter(c, ok)) /\ Requests(CallsAfter(c, ok))
    BY <1>2, <2>2, <2>3, FS_AddElement DEF Requests
  <2>5. token' = param
    BY <1>5 DEF TokenChecked
  <2> QED
    BY <1>3, <1>4, <1>5, <2>1, <2>2, <2>3, <2>4, <2>5
<1>6. CASE ~RunsAgain(c, ok)
  BY <1>1, <1>2, <1>3, <1>4, <1>6 DEF CallsAfter, TokenChecked, Removed
<1> QED
  BY <1>5, <1>6

\* Every step keeps the types.
LEMMA TypesStep == Types /\ [Next]_vars => Types'
<1> SUFFICES ASSUME Types, [Next]_vars PROVE Types'
  OBVIOUS
<1>1. /\ page \in Pages /\ redirect \in {None, "join"}
      /\ param \in Tokens \cup {None} /\ token \in Tokens \cup {None}
      /\ user \in Tokens \cup {None} /\ saved \in {None, "dashboard", "join"}
      /\ loading \in BOOLEAN /\ accepting \in BOOLEAN /\ disturbed \in BOOLEAN
      /\ joinSeen \in Seen /\ None \in Seen /\ accepts \in Nat
      /\ IsFiniteSet(calls) /\ Requests(calls)
      /\ expired \subseteq Tokens /\ moves \in 0 .. MaxMoves
      /\ Moves => moves' \in 0 .. MaxMoves
      /\ page = "callback" => param # None
      /\ \A c \in calls : c.token \in Tokens /\ c.old \in BOOLEAN
  BY Variables
<1>2. ASSUME NEW c \in calls
      PROVE  IsFiniteSet(calls \ {c}) /\ Requests(calls \ {c})
  BY <1>1, FS_RemoveElement DEF Requests
<1>3. ASSUME NEW cs, IsFiniteSet(cs), Requests(cs), NEW t \in Tokens,
             NEW kind \in {"check", "callback", "login", "logout"}
      PROVE  /\ IsFiniteSet(cs \cup {Call(kind, t)}) /\ Requests(cs \cup {Call(kind, t)})
  <2>1. Call(kind, t) \in Request
    BY <1>1, CallTypes
  <2> QED
    BY <1>3, <2>1, FS_AddElement DEF Requests, Request
<1>4. ASSUME NEW p \in Pages \ {"public", "callback"}, Visit(p) PROVE Types'
  <2>1. IsFiniteSet({}) /\ Requests({})
    BY FS_EmptySet DEF Requests
  <2>2. /\ user' = None /\ loading' \in BOOLEAN /\ IsFiniteSet(calls') /\ Requests(calls')
    BY <1>1, <1>4, <2>1, MountFacts DEF Visit
  <2> QED
    BY <1>1, <1>4, <2>2, TypesNext DEF Visit
<1>5. ASSUME NEW p \in {"login"} \cup Protected, FollowLink(p) PROVE Types'
  <2>1. p \in Pages \ {"callback"}
    BY DEF Pages, Protected
  <2>2. Route(p, token, user, loading, calls)
    BY <1>5 DEF FollowLink
  <2>3. /\ page' \in Pages /\ page' # "callback"
        /\ user' \in Tokens \cup {None} /\ loading' \in BOOLEAN
        /\ IsFiniteSet(calls') /\ Requests(calls')
        /\ joinSeen' \in Seen /\ accepts' \in Nat
    BY <1>1, <2>1, <2>2, RouteTypes
  <2> QED
    BY <1>1, <1>5, <2>3, TypesNext DEF FollowLink
<1>6. CASE Leave
  <2> DEFINE aged == [c \in calls |-> [c EXCEPT !.old = TRUE]]
  <2>1. calls' = {[c EXCEPT !.old = TRUE] : c \in calls}
    BY <1>6 DEF Leave
  <2>2. aged \in Surjection(calls, calls')
    BY <2>1 DEF Surjection
  <2>3. IsFiniteSet(calls')
    BY <1>1, <2>2, FS_Surjection
  <2>4. Requests(calls')
    <3>1. ASSUME NEW c \in Request PROVE [c EXCEPT !.old = TRUE] \in Request
      BY DEF Request
    <3> QED
      BY <1>1, <2>1, <3>1 DEF Requests
  <2> QED
    BY <1>1, <1>6, <2>3, <2>4, TypesNext
    DEF Leave, Pages
<1>7. ASSUME NEW c \in calls, NEW ok \in BOOLEAN, CheckEnds(c, ok) PROVE Types'
  <2>1. /\ TokenChecked(c, ok) /\ calls' = CallsAfter(c, ok)
        /\ user' = UserAfter(c, ok) /\ loading' = LoadingNow(c, ok)
    BY <1>7 DEF CheckEnds
  <2>2. /\ IsFiniteSet(calls') /\ Requests(calls') /\ token' \in Tokens \cup {None}
        /\ user' \in Tokens \cup {None} /\ loading' \in BOOLEAN
    BY <2>1, AnswerFacts
  <2> QED
    BY <1>1, <1>7, <2>2, TypesNext DEF CheckEnds
<1>8. ASSUME NEW c \in calls, NEW ok \in BOOLEAN, CallbackEnds(c, ok) PROVE Types'
  <2> DEFINE p == IF saved = None THEN "dashboard" ELSE saved
             u == UserAfter(c, ok)
             l == LoadingNow(c, ok)
             cs == CallsAfter(c, ok)
  <2>1. p \in Pages \ {"callback"}
    BY DEF Types, TypeOK, Pages, Protected
  <2>2. TokenChecked(c, ok) /\ Route(p, token', u, l, cs)
    BY <1>8 DEF CallbackEnds
  <2>3. /\ u \in Tokens \cup {None} /\ l \in BOOLEAN /\ token' \in Tokens \cup {None}
        /\ IsFiniteSet(cs) /\ Requests(cs)
    BY <2>2, AnswerFacts
  <2> HIDE DEF p, u, l, cs
  <2>4. /\ page' \in Pages /\ page' # "callback"
        /\ user' \in Tokens \cup {None} /\ loading' \in BOOLEAN
        /\ IsFiniteSet(calls') /\ Requests(calls')
        /\ joinSeen' \in Seen /\ accepts' \in Nat
    BY <2>1, <2>2, <2>3, RouteTypes
  <2> QED
    BY <1>1, <1>8, <2>3, <2>4, TypesNext DEF CallbackEnds
<1>9. CASE OAuthStart
  <2>1. IsFiniteSet({}) /\ Requests({})
    BY FS_EmptySet DEF Requests
  <2> QED
    BY <1>1, <1>9, <2>1, TypesNext DEF OAuthStart, Pages
<1>10. ASSUME NEW t \in Tokens, OAuthReturn(t) PROVE Types'
  <2> DEFINE first(k) == [Call(k, t) EXCEPT !.n = 1]
  <2>1. first("check") \in Request /\ first("callback") \in Request
    BY <1>1, CallTypes
  <2> HIDE DEF first
  <2>2. calls' = {first("check"), first("callback")}
    BY <1>10 DEF OAuthReturn, first
  <2>3. IsFiniteSet(calls') /\ Requests(calls')
    <3>1. IsFiniteSet({first("check")})
      BY FS_Singleton
    <3>2. calls' = {first("check")} \cup {first("callback")}
      BY <2>2
    <3> QED
      BY <2>1, <3>1, <3>2, FS_AddElement DEF Requests, Request
  <2> QED
    BY <1>1, <1>10, <2>3, ConstantsAssumption, TypesNext DEF OAuthReturn, Pages
<1>11. CASE OAuthRefused
  <2>1. Visit("login") /\ "login" \in Pages \ {"public", "callback"}
    BY <1>11 DEF OAuthRefused, Pages
  <2> QED
    BY <1>4, <2>1
<1>12. ASSUME NEW t \in Tokens, Submit(t) PROVE Types'
  <2>1. IsFiniteSet(calls') /\ Requests(calls')
    BY <1>1, <1>3, <1>12 DEF Submit
  <2> QED
    BY <1>1, <1>12, <2>1, TypesNext DEF Submit
<1>13. ASSUME NEW c \in calls, NEW ok \in BOOLEAN, LoginEnds(c, ok) PROVE Types'
  <2>1. c.token \in Tokens /\ calls' = calls \ {c}
    BY <1>1, <1>13 DEF LoginEnds
  <2>2. IsFiniteSet(calls') /\ Requests(calls')
    BY <1>2, <2>1
  <2> QED
    BY <1>1, <1>13, <2>1, <2>2, TypesNext DEF LoginEnds
<1>14. CASE Logout
  <2>1. IsFiniteSet(calls') /\ Requests(calls')
    BY <1>1, <1>3, <1>14 DEF Logout
  <2> QED
    BY <1>1, <1>14, <2>1, TypesNext DEF Logout
\* What the remaining actions do with Route.
<1>15. ASSUME NEW p \in Pages \ {"callback"}, NEW t \in Tokens \cup {None},
              NEW u \in Tokens \cup {None}, NEW others, Route(p, t, u, loading, others),
              IsFiniteSet(others), Requests(others),
              token' \in Tokens \cup {None}, redirect' \in {None, "join"},
              accepting' \in BOOLEAN, disturbed' \in BOOLEAN,
              UNCHANGED <<param, saved, expired, moves>>
       PROVE  Types'
  <2>1. /\ page' \in Pages /\ page' # "callback"
        /\ user' \in Tokens \cup {None} /\ loading' \in BOOLEAN
        /\ IsFiniteSet(calls') /\ Requests(calls')
        /\ joinSeen' \in Seen /\ accepts' \in Nat
    BY <1>1, <1>15, RouteTypes
  <2> QED
    BY <1>1, <1>15, <2>1, TypesNext
<1>16. ASSUME NEW c \in calls, LogoutEnds(c) PROVE Types'
  <2>1. "login" \in Pages \ {"callback"} /\ Removed \in Tokens \cup {None}
        /\ (IF c.old THEN user ELSE None) \in Tokens \cup {None}
    BY <1>1 DEF Pages, Removed
  <2>2. Route("login", Removed, IF c.old THEN user ELSE None, loading, calls \ {c})
    BY <1>16 DEF LogoutEnds
  <2>3. (disturbed \/ c.old) \in BOOLEAN
    OBVIOUS
  <2>4. /\ token' = Removed /\ redirect' = None /\ accepting' \in BOOLEAN
        /\ disturbed' \in BOOLEAN /\ UNCHANGED <<param, saved, expired, moves>>
    BY <1>1, <1>16, <2>3 DEF LogoutEnds
  <2> QED
    BY <1>2, <1>15, <2>1, <2>2, <2>4
<1>17. CASE LoginRedirects
  <2>1. (IF redirect = None THEN "dashboard" ELSE redirect) \in Pages \ {"callback"}
    BY DEF Types, TypeOK, Pages, Protected
  <2> QED
    BY <1>1, <1>15, <1>17, <2>1 DEF LoginRedirects
<1>18. CASE GuardRedirects
  <2>1. "login" \in Pages \ {"callback"}
    BY DEF Pages
  <2> QED
    BY <1>1, <1>15, <1>18, <2>1 DEF GuardRedirects
<1>19. CASE JoinEffect
  <2>1. CASE ~loading /\ user = None
    <3>1. /\ Route("login", token, user, loading, calls)
          /\ redirect' = "join" /\ UNCHANGED <<accepting, param, token, saved, expired, moves, disturbed>>
      BY <1>19, <2>1 DEF JoinEffect
    <3>2. "login" \in Pages \ {"callback"}
      BY DEF Pages
    <3> QED
      BY <1>1, <1>15, <3>1, <3>2 DEF Types, TypeOK
  <2>2. CASE loading \/ user # None
    <3>1. joinSeen' = JoinDeps /\ accepts' \in {accepts, accepts + 1}
          /\ accepting' \in BOOLEAN
          /\ UNCHANGED <<page, redirect, user, loading, calls, param, token, saved,
                         expired, moves, disturbed>>
      BY <1>1, <1>19, <2>2 DEF JoinEffect
    <3>2. JoinDeps \in BOOLEAN \X BOOLEAN
      BY <1>1 DEF JoinDeps
    <3> QED
      BY <3>1, <3>2 DEF Types, TypeOK
  <2> QED
    BY <1>1, <2>1, <2>2
<1>20. ASSUME NEW p \in Protected, AcceptEnds(p) PROVE Types'
  <2>1. p \in Pages \ {"callback"}
    BY DEF Pages, Protected
  <2> QED
    BY <1>1, <1>15, <1>20, <2>1 DEF AcceptEnds
<1>21. ASSUME NEW t \in Tokens, Expire(t) PROVE Types'
  BY <1>1, <1>21, TypesNext DEF Expire
<1>22. CASE UNCHANGED vars
  BY <1>1, <1>22, TypesNext DEF vars
<1> QED
  BY <1>4, <1>5, <1>6, <1>7, <1>8, <1>9, <1>10, <1>11, <1>12, <1>13, <1>14, <1>16,
     <1>17, <1>18, <1>19, <1>20, <1>21, <1>22 DEF Next, Effects, Answers

\* The types hold of every behaviour.
LEMMA TypesAlways == Spec => []Types
<1>1. Init => Types
  <2> SUFFICES ASSUME Init PROVE Types
    OBVIOUS
  <2>1. IsFiniteSet(calls) /\ Requests(calls)
    BY FS_EmptySet DEF Init, Requests
  <2>2. joinSeen \in {None} \cup (BOOLEAN \X BOOLEAN)
    BY Zenon DEF Init
  <2>3. /\ page \in Pages /\ page # "callback" /\ moves \in 0 .. MaxMoves /\ accepts \in Nat
        /\ redirect \in {None, "join"} /\ saved \in {None, "dashboard", "join"}
        /\ \A c \in calls : FALSE
    BY ConstantsAssumption DEF Init, Pages
  <2> QED
    BY <2>1, <2>2, <2>3 DEF Init, Types, TypeOK
<1> QED
  BY <1>1, TypesStep, PTL DEF Spec

\* The types are right for any number of tokens and moves.
THEOREM TypeCorrect == Spec => []TypeOK
<1>1. Types => TypeOK
  BY DEF Types
<1> QED
  BY <1>1, TypesAlways, PTL

-----------------------------------------------------------------------------
(***************************************************************************)
(* The user shown.                                                         *)
(***************************************************************************)

\* Every step keeps the user that of the stored token, or under check.
LEMMA CheckedStep ==
    ASSUME Types, Checked, [Next]_vars
    PROVE  Checked'
<1> SUFFICES ASSUME page' # "public", ~disturbed'
             PROVE  \/ user' = token'
                    \/ \E c \in calls' : c.kind \in {"check", "callback"} /\ ~c.old
  BY DEF Checked
<1>1. /\ token \in Tokens \cup {None} /\ param \in Tokens \cup {None}
      /\ user \in Tokens \cup {None} /\ loading \in BOOLEAN
      /\ IsFiniteSet(calls) /\ Requests(calls)
      /\ saved \in {None, "dashboard", "join"}
      /\ page = "callback" => param # None
      /\ \A c \in calls : c.token \in Tokens
  BY Variables
<1>2. ASSUME NEW c \in calls
      PROVE  IsFiniteSet(calls \ {c}) /\ Requests(calls \ {c})
  BY <1>1, FS_RemoveElement DEF Requests
\* Another route is shown, and who is logged in does not change.
<1>3. ASSUME NEW p, Route(p, token, user, loading, calls), UNCHANGED <<token, disturbed>>
      PROVE  \/ user' = token'
             \/ \E c \in calls' : c.kind \in {"check", "callback"} /\ ~c.old
  <2>1. CASE page # "public" /\ user' = user /\ calls' = calls
    BY <1>3, <2>1 DEF Checked
  <2>2. CASE page = "public" /\ user' = None
             /\ (token # None => \E c \in calls' : c.kind = "check" /\ ~c.old)
    BY <1>3, <2>2
  <2> QED
    BY <1>1, <1>3, <2>1, <2>2, RouteFacts
<1>4. ASSUME NEW p, Visit(p)
      PROVE  \/ user' = token'
             \/ \E c \in calls' : c.kind \in {"check", "callback"} /\ ~c.old
  <2>1. IsFiniteSet({}) /\ Requests({})
    BY FS_EmptySet DEF Requests
  <2>2. user' = None /\ (token # None => \E c \in calls' : c.kind = "check" /\ ~c.old)
    BY <1>1, <1>4, <2>1, MountFacts DEF Visit
  <2> QED
    BY <1>4, <2>2 DEF Visit
<1>5. ASSUME NEW c \in calls, NEW ok \in BOOLEAN, CheckEnds(c, ok)
      PROVE  \/ user' = token'
             \/ \E d \in calls' : d.kind \in {"check", "callback"} /\ ~d.old
  <2>1. c.token = token /\ ~c.old
    BY <1>5 DEF CheckEnds
  <2>2. /\ TokenChecked(c, ok) /\ calls' = CallsAfter(c, ok)
        /\ user' = IF ok THEN c.token ELSE None
    BY <1>5, <2>1 DEF CheckEnds, UserAfter
  <2> QED
    BY <2>1, <2>2, AnswerFacts
<1>6. ASSUME NEW c \in calls, NEW ok \in BOOLEAN, CallbackEnds(c, ok)
      PROVE  \/ user' = token'
             \/ \E d \in calls' : d.kind \in {"check", "callback"} /\ ~d.old
  <2> DEFINE p == IF saved = None THEN "dashboard" ELSE saved
             u == UserAfter(c, ok)
             l == LoadingNow(c, ok)
             cs == CallsAfter(c, ok)
  <2>1. c.token = token /\ ~c.old
    BY <1>6 DEF CallbackEnds
  <2>2. TokenChecked(c, ok) /\ Route(p, token', u, l, cs)
    BY <1>6 DEF CallbackEnds
  <2>3. /\ u \in Tokens \cup {None} /\ l \in BOOLEAN /\ token' \in Tokens \cup {None}
        /\ IsFiniteSet(cs) /\ Requests(cs)
        /\ \/ \E d \in cs : d.kind = "callback" /\ ~d.old
           \/ token' = IF ok THEN token ELSE None
    BY <2>2, AnswerFacts
  <2>4. u = IF ok THEN token ELSE None
    BY <2>1 DEF UserAfter
  <2> HIDE DEF p, u, l, cs
  <2>5. CASE page # "public"
    <3>1. user' = u /\ calls' = cs
      BY <2>2, <2>5 DEF Route
    <3> QED
      BY <2>3, <2>4, <3>1
  <2>6. CASE page = "public"
    <3>1. user' = None /\ (token' # None => \E d \in calls' : d.kind = "check" /\ ~d.old)
      BY <1>1, <2>2, <2>3, <2>6, RouteFacts
    <3> QED
      BY <3>1
  <2> QED
    BY <2>5, <2>6
<1>7. ASSUME NEW c \in calls, NEW ok \in BOOLEAN, LoginEnds(c, ok)
      PROVE  \/ user' = token'
             \/ \E d \in calls' : d.kind \in {"check", "callback"} /\ ~d.old
  <2>1. ~c.old /\ c.kind = "login" /\ calls' = calls \ {c} /\ page # "public" /\ ~disturbed
    BY <1>7 DEF LoginEnds
  <2>2. CASE ok
    BY <1>7, <2>1, <2>2 DEF LoginEnds
  <2>3. CASE ~ok
    BY <1>7, <2>1, <2>3 DEF LoginEnds, Checked
  <2> QED
    BY <2>2, <2>3
<1>8. ASSUME NEW c \in calls, LogoutEnds(c)
      PROVE  user' = token'
  <2>1. ~c.old /\ token' = None /\ Route("login", None, None, loading, calls \ {c})
    BY <1>8 DEF LogoutEnds, Removed
  <2> QED
    BY <1>1, <1>2, <2>1, RouteFacts
<1>9. ASSUME NEW t \in Tokens, OAuthReturn(t)
      PROVE  \E c \in calls' : c.kind \in {"check", "callback"} /\ ~c.old
  <2>1. [Call("check", t) EXCEPT !.n = 1] \in calls'
    BY <1>9 DEF OAuthReturn
  <2> QED
    BY <1>1, <2>1, CallTypes
\* Nothing of this changes, but requests may be added.
<1>10. ASSUME UNCHANGED <<page, disturbed, user, token>>, calls \subseteq calls'
       PROVE  \/ user' = token'
              \/ \E c \in calls' : c.kind \in {"check", "callback"} /\ ~c.old
  BY <1>10 DEF Checked
<1>11. CASE Effects
  <2>1. CASE LoginRedirects
    BY <1>3, <2>1 DEF LoginRedirects
  <2>2. CASE GuardRedirects
    BY <1>3, <2>2 DEF GuardRedirects
  <2>3. CASE JoinEffect
    BY <1>3, <1>10, <2>3 DEF JoinEffect
  <2> QED
    BY <1>11, <2>1, <2>2, <2>3 DEF Effects
<1>12. CASE Answers
  <2>1. ASSUME NEW p \in Protected, AcceptEnds(p)
        PROVE  \/ user' = token'
               \/ \E c \in calls' : c.kind \in {"check", "callback"} /\ ~c.old
    BY <1>3, <2>1 DEF AcceptEnds
  <2> QED
    BY <1>5, <1>6, <1>7, <1>8, <1>12, <2>1 DEF Answers
<1>13. ASSUME NEW p, FollowLink(p)
       PROVE  \/ user' = token'
              \/ \E c \in calls' : c.kind \in {"check", "callback"} /\ ~c.old
  BY <1>3, <1>13 DEF FollowLink
<1>14. CASE Leave \/ OAuthStart
  BY <1>14 DEF Leave, OAuthStart
<1>15. CASE OAuthRefused
  BY <1>4, <1>15 DEF OAuthRefused
<1>16. ASSUME NEW t \in Tokens, Submit(t) \/ Expire(t)
       PROVE  \/ user' = token'
              \/ \E c \in calls' : c.kind \in {"check", "callback"} /\ ~c.old
  BY <1>10, <1>16 DEF Submit, Expire
<1>17. CASE Logout
  BY <1>10, <1>17 DEF Logout
<1>18. CASE UNCHANGED vars
  BY <1>10, <1>18 DEF vars
<1> QED
  BY <1>4, <1>9, <1>11, <1>12, <1>13, <1>14, <1>15, <1>16, <1>17, <1>18 DEF Next

\* The user shown is the one whose token is stored and sent, for any number of
\* users, logins, logouts and checks in any order, unless an answer was for a
\* token or a provider that was gone (AuthProvider).
THEOREM UserCorrect == Spec => []UserHasToken
<1>1. Init => Checked
  BY DEF Init, Checked
<1>2. Types /\ Checked /\ [Next]_vars => Checked'
  BY CheckedStep
<1>3. Checked => UserHasToken
  BY DEF Checked, UserHasToken
<1> QED
  BY <1>1, <1>2, <1>3, TypesAlways, PTL DEF Spec

-----------------------------------------------------------------------------
(***************************************************************************)
(* The invite.                                                             *)
(***************************************************************************)

\* Every step keeps what stops the join effect from accepting twice.
LEMMA JoinedStep ==
    ASSUME Types, Joined, [Next]_vars
    PROVE  Joined'
<1>1. /\ accepts \in Nat /\ loading \in BOOLEAN
      /\ IsFiniteSet(calls) /\ Requests(calls)
      /\ token \in Tokens \cup {None} /\ user \in Tokens \cup {None}
      /\ \A c \in calls : c.token \in Tokens
  BY Variables
<1>2. ASSUME NEW c \in calls
      PROVE  IsFiniteSet(calls \ {c}) /\ Requests(calls \ {c})
  BY <1>1, FS_RemoveElement DEF Requests
\* A visit goes on, or ends.
<1>3. ASSUME \/ accepts' = 0
             \/ UNCHANGED <<page, accepts, joinSeen>> /\ (loading' => loading)
      PROVE  Joined'
  BY <1>1, <1>3 DEF Joined
<1>4. ASSUME NEW p, NEW t \in Tokens \cup {None}, NEW u, NEW l \in BOOLEAN, NEW cs,
             IsFiniteSet(cs), Requests(cs), Route(p, t, u, l, cs), l => loading
      PROVE  Joined'
  <2>1. CASE page = "public"
    <3>1. accepts = 0 /\ accepts' \in {accepts, 0}
      BY <1>1, <1>4, <2>1, RouteFacts DEF Joined
    <3> QED
      BY <1>3, <3>1
  <2>2. CASE page # "public" /\ p = page
    <3>1. UNCHANGED <<page, accepts, joinSeen>> /\ (loading' => loading)
      BY <1>1, <1>4, <2>2, RouteFacts
    <3> QED
      BY <1>3, <3>1
  <2>3. CASE page # "public" /\ p # page
    BY <1>1, <1>3, <1>4, <2>3, RouteFacts
  <2> QED
    BY <2>1, <2>2, <2>3
<1>5. CASE JoinEffect
  <2>1. CASE loading
    <3>1. accepts = 0 /\ accepts' = accepts
      BY <1>1, <1>5, <2>1 DEF JoinEffect, Joined
    <3> QED
      BY <1>3, <3>1
  <2>2. CASE ~loading /\ user = None
    BY <1>1, <1>4, <1>5, <2>2 DEF JoinEffect
  <2>3. CASE ~loading /\ user # None
    <3>1. JoinDeps = <<FALSE, TRUE>>
      BY <1>1, <2>3 DEF JoinDeps
    <3>2. /\ joinSeen # <<FALSE, TRUE>> /\ joinSeen' = <<FALSE, TRUE>>
          /\ accepts' = accepts + 1 /\ loading' = loading /\ page' = "join"
      BY <1>5, <2>3, <3>1 DEF JoinEffect, DepsChanged
    <3>3. accepts = 0
      BY <3>2 DEF Joined
    <3> QED
      BY <2>3, <3>2, <3>3 DEF Joined
  <2> QED
    BY <1>1, <2>1, <2>2, <2>3
<1>6. CASE LoginRedirects \/ GuardRedirects
  BY <1>1, <1>4, <1>6 DEF LoginRedirects, GuardRedirects
<1>7. ASSUME NEW c \in calls, NEW ok \in BOOLEAN, CheckEnds(c, ok) PROVE Joined'
  <2>1. TokenChecked(c, ok) /\ loading' = LoadingNow(c, ok)
        /\ UNCHANGED <<page, accepts, joinSeen>>
    BY <1>7 DEF CheckEnds
  <2>2. loading' => loading
    BY <2>1, AnswerFacts
  <2> QED
    BY <1>3, <2>1, <2>2
<1>8. ASSUME NEW c \in calls, NEW ok \in BOOLEAN, CallbackEnds(c, ok) PROVE Joined'
  <2> DEFINE l == LoadingNow(c, ok)
             u == UserAfter(c, ok)
             cs == CallsAfter(c, ok)
             p == IF saved = None THEN "dashboard" ELSE saved
  <2>1. TokenChecked(c, ok) /\ Route(p, token', u, l, cs)
    BY <1>8 DEF CallbackEnds
  <2>2. /\ l \in BOOLEAN /\ (l => loading) /\ token' \in Tokens \cup {None}
        /\ IsFiniteSet(cs) /\ Requests(cs)
    BY <2>1, AnswerFacts
  <2> HIDE DEF l, u, cs, p
  <2> QED
    BY <1>4, <2>1, <2>2
<1>9. ASSUME NEW c \in calls, NEW ok \in BOOLEAN, LoginEnds(c, ok) PROVE Joined'
  BY <1>3, <1>9 DEF LoginEnds
<1>10. ASSUME NEW c \in calls, LogoutEnds(c) PROVE Joined'
  <2>1. Route("login", None, IF c.old THEN user ELSE None, loading, calls \ {c})
    BY <1>10 DEF LogoutEnds, Removed
  <2> QED
    BY <1>1, <1>2, <1>4, <2>1
<1>11. ASSUME NEW p, AcceptEnds(p) \/ FollowLink(p) PROVE Joined'
  BY <1>1, <1>4, <1>11 DEF AcceptEnds, FollowLink
<1>12. ASSUME NEW p, Visit(p) PROVE Joined'
  BY <1>3, <1>12 DEF Visit
<1>13. CASE OAuthRefused
  BY <1>12, <1>13 DEF OAuthRefused
<1>14. ASSUME NEW t \in Tokens, OAuthReturn(t) PROVE Joined'
  BY <1>3, <1>14 DEF OAuthReturn
<1>15. ASSUME NEW t \in Tokens, Submit(t) \/ Expire(t) PROVE Joined'
  BY <1>3, <1>15 DEF Submit, Expire
<1>16. CASE Leave \/ OAuthStart
  BY <1>3, <1>16 DEF Leave, OAuthStart
<1>17. CASE Logout \/ UNCHANGED vars
  BY <1>3, <1>17 DEF Logout, vars
<1> QED
  BY <1>5, <1>6, <1>7, <1>8, <1>9, <1>10, <1>11, <1>12, <1>13, <1>14, <1>15, <1>16,
     <1>17 DEF Next, Effects, Answers

\* A visit to an invite link uses it at most once, whatever the answers to the
\* checks and forms do to the state its effect depends on (JoinView).
THEOREM JoinsOnceCorrect == Spec => []JoinsOnce
<1>1. Init => Joined
  BY DEF Init, Joined
<1>2. Types /\ Joined /\ [Next]_vars => Joined'
  BY JoinedStep
<1>3. Joined => JoinsOnce
  <2>1. Joined => accepts \in {0, 1}
    BY Zenon DEF Joined
  <2> QED
    BY <2>1 DEF JoinsOnce
<1> QED
  BY <1>1, <1>2, <1>3, TypesAlways, PTL DEF Spec
=============================================================================

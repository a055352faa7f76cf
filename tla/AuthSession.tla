---------------------------- MODULE AuthSession ----------------------------
(***************************************************************************)
(* Who is logged in, in one browser tab: AuthProvider with its token in    *)
(* localStorage, and the views that move the user around by what it says:  *)
(* LoginView, ProtectedRoute, OAuthCallback and JoinView.                  *)
(*                                                                         *)
(* All routes but the public ones are wrapped in an AuthRoute at the same  *)
(* place of the tree, so one AuthProvider lives on while the user moves    *)
(* between them, and goes when a public page is shown. Requests are not    *)
(* cancelled by that; only a page load drops them. Effects run some time   *)
(* after the render that is their cause. A user is named by the token.     *)
(***************************************************************************)
EXTENDS Naturals, FiniteSets

CONSTANTS
    Tokens,
    None,       \* no token, no user, no redirect
    MaxMoves    \* bound: what the user does

ASSUME ConstantsAssumption ==
    /\ None \notin Tokens
    /\ MaxMoves \in Nat

Protected == {"dashboard", "project"}
\* "public" is the landing page, a legal page, or another site.
Pages == {"public", "login", "callback", "join"} \cup Protected

VARIABLES
    page,       \* the route shown
    redirect,   \* ?redirect= of the login page
    param,      \* ?token= of the callback page
    token,      \* localStorage: auth_token
    saved,      \* localStorage: oauth_redirect
    user,       \* AuthProvider
    loading,
    joinSeen,   \* the dependencies JoinView's effect last ran with
    accepts,    \* acceptCollaboratorLink calls of this visit to /join
    accepting,  \* and whether one is under way
    calls,      \* requests of AuthProvider under way
    expired,    \* users-service: the tokens it does not accept any more
    moves,      \* what the user has done so far, up to MaxMoves
    disturbed   \* history: did an answer come too late

vars == <<page, redirect, param, token, saved, user, loading, joinSeen, accepts,
          accepting, calls, expired, moves, disturbed>>

Call(kind, t) ==
    [kind |-> kind, token |-> t, old |-> FALSE,
     n |-> 1 + Cardinality({c \in calls : c.kind = kind /\ c.token = t /\ ~c.old})]

Init ==
    /\ page = "public" /\ redirect = None /\ param = None
    /\ token \in Tokens \cup {None} /\ saved = None
    /\ user = None /\ loading = FALSE
    /\ joinSeen = None /\ accepts = 0 /\ accepting = FALSE
    /\ calls = {} /\ expired \in SUBSET Tokens
    /\ moves = 0 /\ disturbed = FALSE

Moves == moves < MaxMoves /\ moves' = moves + 1

-----------------------------------------------------------------------------
(***************************************************************************)
(* Moving between routes.                                                  *)
(***************************************************************************)

\* The early return of checkAuth.
AlwaysChecks(t) == TRUE
MustCheck(t) == t # None

\* AuthProvider mounts with the token t stored, and calls checkAuth, which
\* ends at once without a token; "others" are the requests under way.
Mount(t, others) ==
    /\ user' = None
    /\ loading' = MustCheck(t)
    /\ calls' = IF MustCheck(t)
                THEN others \cup {[Call("check", t) EXCEPT !.n = 1]} ELSE others

\* The route p is shown: with the AuthProvider that is there, whose state is
\* now u and l, or with a new one.
Route(p, t, u, l, others) ==
    /\ page' = p
    /\ IF page # "public" THEN user' = u /\ loading' = l /\ calls' = others
       ELSE Mount(t, others)
    /\ joinSeen' = IF p = page THEN joinSeen ELSE None
    /\ accepts' = IF p = page THEN accepts ELSE 0

\* A page is loaded, which ends whatever was under way.
Visit(p) ==
    /\ Moves
    /\ page' = p /\ redirect' = None
    /\ joinSeen' = None /\ accepts' = 0 /\ accepting' = FALSE
    /\ Mount(token, {})
    /\ UNCHANGED <<param, token, saved, expired, disturbed>>

\* A link to a protected or the login page, from wherever the user is.
FollowLink(p) ==
    /\ Moves
    /\ page \in {"public"} \cup Protected /\ p # page
    /\ Route(p, token, user, loading, calls)
    /\ redirect' = None
    /\ UNCHANGED <<param, token, saved, accepting, expired, disturbed>>

\* A link to a public page: AuthProvider goes, its requests stay.
Leave ==
    /\ Moves
    /\ page \in {"login"} \cup Protected
    /\ page' = "public" /\ redirect' = None
    /\ user' = None /\ loading' = FALSE
    /\ calls' = {[c EXCEPT !.old = TRUE] : c \in calls}
    /\ joinSeen' = None /\ accepts' = 0
    /\ UNCHANGED <<param, token, saved, accepting, expired, disturbed>>

-----------------------------------------------------------------------------
(***************************************************************************)
(* checkAuth and OAuthCallback.                                            *)
(***************************************************************************)

\* What a rejected token leaves in localStorage, and a failed request too.
StillStored == token
Removed == None

\* What "finally" leaves in loading.
LoadingUnless(ok) == ~ok
LoadingAfter(ok) == FALSE

\* What the answer to request c makes of the provider's state. One that came for
\* a provider that is gone changes nothing.
UserAfter(c, ok) == IF c.old THEN user ELSE IF ok THEN c.token ELSE None
LoadingNow(c, ok) == IF c.old THEN loading ELSE LoadingAfter(ok)

\* The effect of OAuthCallback depends on checkAuth, which is a new function
\* whenever the provider renders a change; a user fetched again is one. So it
\* runs again, stores the token again and asks again.
RunsAgain(c, ok) ==
    /\ page = "callback" /\ ~c.old
    /\ ok \/ <<user, loading>> # <<UserAfter(c, ok), LoadingNow(c, ok)>>

\* The stored token and the requests, after checkAuth has its answer.
TokenChecked(c, ok) ==
    token' = IF RunsAgain(c, ok) THEN param ELSE IF ok THEN token ELSE Removed
CallsAfter(c, ok) ==
    (calls \ {c}) \cup (IF RunsAgain(c, ok) THEN {Call("callback", param)} ELSE {})

\* checkAuth of AuthProvider's mount is answered.
CheckEnds(c, ok) ==
    /\ c \in calls /\ c.kind = "check"
    /\ ok => c.token \notin expired
    /\ disturbed' = (disturbed \/ c.token # token \/ c.old)
    /\ TokenChecked(c, ok)
    /\ calls' = CallsAfter(c, ok)
    /\ user' = UserAfter(c, ok) /\ loading' = LoadingNow(c, ok)
    /\ UNCHANGED <<page, redirect, param, saved, joinSeen, accepts, accepting,
                   expired, moves>>

\* checkAuth of OAuthCallback is answered: whatever it said, and wherever the
\* user is by now, the stored location or the dashboard is shown. The router
\* renders that in a transition, after the new state: on the callback page the
\* effect has run again by then.
CallbackEnds(c, ok) ==
    /\ c \in calls /\ c.kind = "callback"
    /\ ok => c.token \notin expired
    /\ disturbed' = (disturbed \/ c.token # token \/ c.old)
    /\ TokenChecked(c, ok)
    /\ Route(IF saved = None THEN "dashboard" ELSE saved, token',
             UserAfter(c, ok), LoadingNow(c, ok), CallsAfter(c, ok))
    /\ saved' = None
    /\ redirect' = None
    /\ UNCHANGED <<param, accepting, expired, moves>>

\* loginWithOAuth stores where to go and leaves the page.
OAuthStart ==
    /\ page = "login" /\ Moves
    /\ saved' = IF redirect = None THEN "dashboard" ELSE redirect
    /\ page' = "public" /\ redirect' = None
    /\ user' = None /\ loading' = FALSE /\ calls' = {}
    /\ joinSeen' = None /\ accepts' = 0 /\ accepting' = FALSE
    /\ UNCHANGED <<param, token, expired, disturbed>>

\* The provider sends the user back with a token. The effect of OAuthCallback
\* runs before that of the AuthProvider around it.
OAuthReturn(t) ==
    /\ page = "public" /\ saved # None /\ t \notin expired
    /\ page' = "callback" /\ param' = t /\ token' = t
    /\ user' = None /\ loading' = TRUE
    /\ calls' = {[Call(k, t) EXCEPT !.n = 1] : k \in {"check", "callback"}}
    /\ joinSeen' = None /\ accepts' = 0 /\ accepting' = FALSE
    /\ UNCHANGED <<redirect, saved, expired, moves, disturbed>>

\* Or with an error: the login page shows it.
OAuthRefused ==
    /\ page = "public" /\ saved # None
    /\ Visit("login")

-----------------------------------------------------------------------------
(***************************************************************************)
(* Logging in and out.                                                     *)
(***************************************************************************)

\* handleSubmit of LoginView: login or signup.
Submit(t) ==
    /\ page = "login" /\ Moves
    /\ t \notin expired \cup {token}
    /\ \A c \in calls : c.kind # "login" \/ c.old
    /\ calls' = calls \cup {Call("login", t)}
    /\ UNCHANGED <<page, redirect, param, token, saved, user, loading, joinSeen,
                   accepts, accepting, expired, disturbed>>

LoginEnds(c, ok) ==
    /\ c \in calls /\ c.kind = "login"
    /\ calls' = calls \ {c}
    /\ token' = IF ok THEN c.token ELSE token
    /\ user' = IF ok /\ ~c.old THEN c.token ELSE user
    /\ disturbed' = (disturbed \/ c.old)
    /\ UNCHANGED <<page, redirect, param, saved, loading, joinSeen, accepts,
                   accepting, expired, moves>>

\* handleLogout of the dashboard's header.
Logout ==
    /\ page = "dashboard" /\ user # None /\ Moves
    /\ calls' = calls \cup {Call("logout", user)}
    /\ UNCHANGED <<page, redirect, param, token, saved, user, loading, joinSeen,
                   accepts, accepting, expired, disturbed>>

\* The token is removed however the request ended.
LogoutEnds(c) ==
    /\ c \in calls /\ c.kind = "logout"
    /\ token' = Removed
    /\ Route("login", Removed, IF c.old THEN user ELSE None, loading, calls \ {c})
    /\ redirect' = None
    /\ disturbed' = (disturbed \/ c.old)
    /\ UNCHANGED <<param, saved, accepting, expired, moves>>

\* LoginView's effect: a user who is logged in goes where she wanted to go.
LoginRedirects ==
    /\ page = "login" /\ user # None
    /\ Route(IF redirect = None THEN "dashboard" ELSE redirect, token, user,
             loading, calls)
    /\ redirect' = None
    /\ UNCHANGED <<param, token, saved, accepting, expired, moves, disturbed>>

\* ProtectedRoute.
GuardRedirects ==
    /\ page \in Protected /\ ~loading /\ user = None
    /\ Route("login", token, user, loading, calls)
    /\ redirect' = None
    /\ UNCHANGED <<param, token, saved, accepting, expired, moves, disturbed>>

-----------------------------------------------------------------------------
(***************************************************************************)
(* JoinView: an invite link.                                               *)
(***************************************************************************)

JoinDeps == <<loading, user # None>>

EveryRender == TRUE
\* The effect runs when its dependencies have changed.
DepsChanged == joinSeen # JoinDeps

JoinEffect ==
    /\ page = "join" /\ DepsChanged
    /\ \/ /\ loading
          /\ joinSeen' = JoinDeps
          /\ UNCHANGED <<page, redirect, user, loading, calls, accepts, accepting>>
       \/ /\ ~loading /\ user = None
          /\ Route("login", token, user, loading, calls)
          /\ redirect' = "join"
          /\ UNCHANGED accepting
       \/ /\ ~loading /\ user # None
          /\ joinSeen' = JoinDeps
          /\ accepts' = accepts + 1 /\ accepting' = TRUE
          /\ UNCHANGED <<page, redirect, user, loading, calls>>
    /\ UNCHANGED <<param, token, saved, expired, moves, disturbed>>

\* acceptCollaboratorLink is answered, well or not.
AcceptEnds(p) ==
    /\ accepting
    /\ accepting' = FALSE
    /\ Route(p, token, user, loading, calls)
    /\ redirect' = None
    /\ UNCHANGED <<param, token, saved, expired, moves, disturbed>>

\* The lifetime of a token ends.
Expire(t) ==
    /\ t \notin expired
    /\ expired' = expired \cup {t}
    /\ UNCHANGED <<page, redirect, param, token, saved, user, loading, joinSeen,
                   accepts, accepting, calls, moves, disturbed>>

-----------------------------------------------------------------------------
Effects == LoginRedirects \/ GuardRedirects \/ JoinEffect

Answers ==
    \/ \E c \in calls, ok \in BOOLEAN :
        CheckEnds(c, ok) \/ CallbackEnds(c, ok) \/ LoginEnds(c, ok)
    \/ \E c \in calls : LogoutEnds(c)
    \/ \E p \in Protected : AcceptEnds(p)

Next ==
    \/ Effects \/ Answers
    \/ \E p \in Pages \ {"public", "callback"} : Visit(p)
    \/ \E p \in {"login"} \cup Protected : FollowLink(p)
    \/ Leave \/ Logout \/ OAuthStart \/ OAuthRefused
    \/ \E t \in Tokens : Submit(t) \/ OAuthReturn(t) \/ Expire(t)

Spec == Init /\ [][Next]_vars

\* Effects run, and requests are answered.
FairSpec == Spec /\ WF_vars(Effects) /\ WF_vars(Answers)

-----------------------------------------------------------------------------
(***************************************************************************)
(* Properties.                                                             *)
(***************************************************************************)

\* The types of the variables.
TypeOK ==
    /\ page \in Pages
    /\ redirect \in {None, "join"}
    /\ param \in Tokens \cup {None} /\ token \in Tokens \cup {None}
    /\ user \in Tokens \cup {None}
    /\ saved \in {None, "dashboard", "join"}
    /\ loading \in BOOLEAN /\ accepting \in BOOLEAN /\ disturbed \in BOOLEAN
    /\ joinSeen \in {None} \cup (BOOLEAN \X BOOLEAN)
    /\ accepts \in Nat
    /\ \A c \in calls : /\ c.kind \in {"check", "callback", "login", "logout"}
                        /\ c.token \in Tokens /\ c.old \in BOOLEAN /\ c.n \in Nat
    /\ expired \subseteq Tokens
    /\ moves \in 0 .. MaxMoves

\* The user shown is the one whose token is stored and sent with every request,
\* and nobody is shown as logged in without one, through any order of logins,
\* logouts and checks, unless the answer to a check or to a form came for a
\* token that was replaced, or for a provider that was gone.
UserHasToken ==
    /\ page # "public" /\ ~disturbed
    /\ \A c \in calls : c.kind \notin {"check", "callback"}
    => user = token

\* A visit to an invite link uses the invite at most once, although the effect
\* depends on state that several answers change (JoinView).
JoinsOnce == accepts <= 1

\* "Loading..." and "Joining project..." do not stay.
WaitingEnds ==
    /\ loading ~> ~loading
    /\ page = "join" ~> page # "join"

=============================================================================

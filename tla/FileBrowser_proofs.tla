------------------------- MODULE FileBrowser_proofs -------------------------
(***************************************************************************)
(* Proofs about FileBrowser: what is selected is shown, nothing waits in   *)
(* vain, every tree is one, and a new tree leaves the panel on its path.   *)
(***************************************************************************)
EXTENDS FileBrowser, FiniteSetTheorems, FunctionTheorems, TLAPS

-----------------------------------------------------------------------------
(***************************************************************************)
(* The inductive invariants.                                               *)
(***************************************************************************)

\* A tree, as TreeAssumption says it of the first one: every node but the root
\* is in a directory of the tree, and none is above itself.
Rooted(t) ==
    /\ DOMAIN t \subseteq Nodes
    /\ Root \in DOMAIN t /\ t[Root] = None
    /\ \A n \in DOMAIN t \ {Root} : t[n] \in Folders \cap DOMAIN t
    /\ \A s \in SUBSET DOMAIN t : s # {} => \E n \in s : t[n] \notin s

Kinds == {"create", "rename", "delete", "upload"}

\* A request is a record.
Made(kind, type, n, d, here, got, id) ==
    [kind |-> kind, type |-> type, node |-> n, dir |-> d, here |-> here,
     got |-> got, id |-> id]

IsRequest(c) ==
    \E ty, n, d, g, i : \E kind \in Kinds, here \in BOOLEAN :
        /\ c = Made(kind, ty, n, d, here, g, i)
        /\ g # None => DOMAIN g \subseteq Nodes

\* What is needed of the types: not that a tree has no cycles.
Shape ==
    /\ DOMAIN disk \subseteq Nodes /\ DOMAIN tree \subseteq Nodes
    /\ fresh \subseteq Nodes
    /\ \A c \in calls : IsRequest(c)
    /\ edit \in Edits \cup {None}

\* What TypeOK says of a request, that the root is not deleted, and that an
\* upload is into a directory.
TypedRequest(c) ==
    /\ c.node \in Nodes \cup {None} /\ c.type \in {"file", "folder"}
    /\ c.dir \in Folders \cup {None} /\ c.id \in 1 .. MaxCalls
    /\ c.got = None \/ Rooted(c.got)
    /\ c.kind = "delete" => c.node # Root
    /\ c.kind = "upload" => c.dir \in Folders

\* TypeOK, with what makes a tree one in place of the paths.
Typed ==
    /\ Rooted(disk) /\ Rooted(tree) /\ asked \in 0 .. MaxRequests
    /\ IsFiniteSet(calls) /\ \A c \in calls : TypedRequest(c)
    /\ readOnly \in BOOLEAN /\ panel \in BOOLEAN /\ deleting \in BOOLEAN
    /\ strayed \in BOOLEAN
    /\ IF ~panel THEN dir = None
       ELSE dir \in Folders \cap DOMAIN tree /\ previous = tree
    /\ {sel, foc, target} \subseteq Nodes \cup {None} /\ target # Root
    /\ operation \in {NoOperation} \cup [dir : Folders, status : {"pending", "error"}]

\* A node is where it was made: the service's tree, the view's and those on
\* their way agree about the parents of the nodes they have in common, and have
\* none that is yet to be made.
Trees == {disk, tree} \cup {c.got : c \in {e \in calls : e.got # None}}
Agreement ==
    /\ \A t \in Trees : fresh \cap DOMAIN t = {}
    /\ \A t, u \in Trees : \A n \in DOMAIN t \cap DOMAIN u : t[n] = u[n]

\* SelectionShown, and that a panel comes back with nothing selected.
Selection ==
    /\ SelectionShown
    /\ ~panel => sel = None

\* The requests of this panel of some kinds.
Under(kinds) == {c \in calls : c.here /\ c.kind \in kinds}

\* NothingWaitsInVain, and that one deletion is under way at a time.
Awaited ==
    /\ Pending => \E c \in calls : c.here /\ c.kind \in {"create", "rename"}
    /\ deleting <=> \E c \in calls : c.here /\ c.kind = "delete"
    /\ \A c, e \in Under({"delete"}) : c = e
    /\ Uploading <=> \E c \in calls : c.here /\ c.kind = "upload"
    /\ \A c, e \in Under({"upload"}) : c = e /\ operation.dir = c.dir

-----------------------------------------------------------------------------
(***************************************************************************)
(* Trees. The prover takes no induction on trust: what holds of the parent *)
(* of a node and then of the node is gathered in a set, of which the tree  *)
(* has nothing left outside.                                               *)
(***************************************************************************)

\* The recursion of Path, for every node: the least set that has n and with a
\* node its parent solves it.
LEMMA PathEquation ==
    ASSUME NEW t, Rooted(t), NEW n \in Nodes \cup {None}
    PROVE  Path(t, n) = IF n \notin DOMAIN t THEN {} ELSE {n} \cup Path(t, t[n])
<1> DEFINE S == Nodes \cup {None}
           Step(g) == [x \in S |-> IF x \notin DOMAIN t THEN {} ELSE {x} \cup g[t[x]]]
           Closed(s) == \A y \in s : t[y] \in DOMAIN t => t[y] \in s
           Above(x) == {y \in DOMAIN t : \A s \in SUBSET DOMAIN t :
                                            x \in s /\ Closed(s) => y \in s}
           h == [x \in S |-> IF x \notin DOMAIN t THEN {} ELSE Above(x)]
           up == CHOOSE g : g = Step(g)
<1>1. \A x \in DOMAIN t : t[x] \in S /\ x \in S
  BY TreeAssumption DEF Rooted
<1>2. ASSUME NEW x \in DOMAIN t, t[x] \in DOMAIN t PROVE Above(x) = {x} \cup Above(t[x])
  <2>1. Above(t[x]) \subseteq Above(x) /\ x \in Above(x)
    BY <1>2
  <2>2. ASSUME NEW y \in Above(x), y # x PROVE y \in Above(t[x])
    <3> SUFFICES ASSUME NEW s \in SUBSET DOMAIN t, t[x] \in s, Closed(s) PROVE y \in s
      OBVIOUS
    <3>1. s \cup {x} \in SUBSET DOMAIN t /\ Closed(s \cup {x})
      OBVIOUS
    <3> QED
      BY <2>2, <3>1
  <2> QED
    BY <2>1, <2>2
<1>3. ASSUME NEW x \in DOMAIN t, t[x] \notin DOMAIN t PROVE Above(x) = {x}
  <2>1. {x} \in SUBSET DOMAIN t /\ Closed({x})
    BY <1>3
  <2> QED
    BY <2>1
<1>4. h = Step(h)
  <2> HIDE DEF Above, S
  <2> QED
    BY <1>1, <1>2, <1>3
<1>5. up = Step(up)
  <2> HIDE DEF h, Step
  <2> QED
    BY <1>4
<1>6. \A m : Path(t, m) = up[m]
  BY DEF Path
<1> HIDE DEF up, S
<1>7. n \in S
  BY DEF S
<1> QED
  BY <1>1, <1>5, <1>6, <1>7

\* A set that has whatever its members' parents being in it implies has them
\* all: the form of induction the lemmas below use.
LEMMA TreeInduction ==
    ASSUME NEW t, Rooted(t), NEW s,
           \A n \in DOMAIN t : (t[n] \in DOMAIN t => t[n] \in s) => n \in s
    PROVE  DOMAIN t \subseteq s
<1>1. DOMAIN t \ s \in SUBSET DOMAIN t
  OBVIOUS
<1> QED
  BY <1>1 DEF Rooted

\* The path of a node of the tree: the node, the path of its parent, nothing
\* that is not in the tree, and the root. A directory's are directories.
LEMMA PathFacts ==
    ASSUME NEW t, Rooted(t), NEW n \in DOMAIN t
    PROVE  /\ n \in Path(t, n) /\ Root \in Path(t, n)
           /\ n # Root => t[n] \in DOMAIN t /\ Path(t, n) = {n} \cup Path(t, t[n])
           /\ Path(t, n) \subseteq DOMAIN t
           /\ Path(t, n) \subseteq Folders \cup {n}
           /\ Path(t, Root) = {Root} /\ Path(t, None) = {}
<1>1. None \notin DOMAIN t /\ Path(t, None) = {}
  BY PathEquation, TreeAssumption DEF Rooted
<1>2. Path(t, Root) = {Root}
  BY <1>1, PathEquation DEF Rooted
<1>3. \A m \in DOMAIN t : /\ m # Root => t[m] \in Folders \cap DOMAIN t
                          /\ m # Root => Path(t, m) = {m} \cup Path(t, t[m])
  BY PathEquation DEF Rooted
<1> DEFINE s == {m \in DOMAIN t : /\ Root \in Path(t, m) /\ Path(t, m) \subseteq DOMAIN t
                                  /\ Path(t, m) \subseteq Folders \cup {m}}
<1>4. ASSUME NEW m \in DOMAIN t, t[m] \in DOMAIN t => t[m] \in s
      PROVE  m \in s
  BY <1>2, <1>3, <1>4 DEF Rooted
<1>5. n \in s
  <2> HIDE DEF s
  <2> QED
    BY <1>4, TreeInduction
<1> QED
  BY <1>1, <1>2, <1>3, <1>5

\* A tree in the sense of TypeOK.
LEMMA RootedIsTree ==
    ASSUME NEW t, Rooted(t) PROVE IsTree(t)
BY PathFacts DEF IsTree, Rooted

\* What is above a node above n is above n.
LEMMA PathTransitive ==
    ASSUME NEW t, Rooted(t), NEW n \in DOMAIN t, NEW m \in Path(t, n)
    PROVE  Path(t, m) \subseteq Path(t, n)
<1> DEFINE s == {x \in DOMAIN t : m \in Path(t, x) => Path(t, m) \subseteq Path(t, x)}
<1>1. ASSUME NEW x \in DOMAIN t, t[x] \in DOMAIN t => t[x] \in s
      PROVE  x \in s
  BY <1>1, PathFacts DEF Rooted
<1>2. n \in s
  <2> HIDE DEF s
  <2> QED
    BY <1>1, TreeInduction
<1> QED
  BY <1>2

\* No node is above its own parent.
LEMMA PathIrreflexive ==
    ASSUME NEW t, Rooted(t), NEW n \in DOMAIN t
    PROVE  n \notin Path(t, t[n])
<1>1. CASE n = Root
  BY <1>1, PathFacts DEF Rooted
<1>2. CASE n # Root
  <2> SUFFICES ASSUME n \in Path(t, t[n]) PROVE FALSE
    OBVIOUS
  <2> DEFINE s == {x \in DOMAIN t : n \in Path(t, x)}
  <2>1. s \in SUBSET DOMAIN t /\ n \in s
    BY PathFacts
  <2>2. PICK x \in s : t[x] \notin s
    BY <2>1 DEF Rooted
  <2>3. x # Root
    BY <1>2, <2>2, PathFacts
  <2>4. t[x] \in DOMAIN t /\ (n = x \/ n \in Path(t, t[x]))
    BY <2>2, <2>3, PathFacts
  <2>5. t[n] \in DOMAIN t
    BY <1>2, PathFacts
  <2> QED
    BY <2>2, <2>4, <2>5
<1> QED
  BY <1>1, <1>2

\* Two nodes are not above each other.
LEMMA PathAntisymmetric ==
    ASSUME NEW t, Rooted(t), NEW n \in DOMAIN t, NEW m \in Path(t, n), n \in Path(t, m)
    PROVE  m = n
<1> SUFFICES ASSUME m # n PROVE FALSE
  OBVIOUS
<1>1. n # Root
  BY PathFacts
<1>2. t[n] \in DOMAIN t /\ m \in Path(t, t[n])
  BY <1>1, PathFacts
<1>3. n \in Path(t, t[n])
  BY <1>2, PathTransitive
<1> QED
  BY <1>3, PathIrreflexive

\* A new node in a directory of a tree gives a tree, and so does the removal of
\* a directory with all it contains.
LEMMA AddedRooted ==
    ASSUME NEW t, Rooted(t), NEW n \in Nodes \ DOMAIN t, NEW d \in Folders \cap DOMAIN t
    PROVE  Rooted(Added(t, n, d))
<1> DEFINE u == Added(t, n, d)
<1>1. /\ DOMAIN u = DOMAIN t \cup {n} /\ u[n] = d
      /\ \A x \in DOMAIN t : u[x] = t[x]
  BY DEF Added
<1>2. ASSUME NEW s \in SUBSET DOMAIN u, s # {} PROVE \E x \in s : u[x] \notin s
  <2>1. CASE s = {n}
    BY <1>1, <2>1
  <2>2. CASE s # {n}
    <3>1. s \ {n} \in SUBSET DOMAIN t /\ s \ {n} # {}
      BY <1>1, <1>2, <2>2
    <3>2. PICK x \in s \ {n} : t[x] \notin s \ {n}
      BY <3>1 DEF Rooted
    <3>3. t[x] # n
      BY <3>1, <3>2, TreeAssumption DEF Rooted
    <3> QED
      BY <1>1, <3>1, <3>2, <3>3
  <2> QED
    BY <2>1, <2>2
<1> HIDE DEF u
<1>3. Rooted(u)
  BY <1>1, <1>2 DEF Rooted
<1> QED
  BY <1>3 DEF u

\* Taking a node out, with all that is below it, leaves a tree.
LEMMA RemovedRooted ==
    ASSUME NEW t, Rooted(t), NEW n, n # Root
    PROVE  /\ Rooted(Removed(t, n)) /\ DOMAIN Removed(t, n) \subseteq DOMAIN t
           /\ \A x \in DOMAIN Removed(t, n) : Removed(t, n)[x] = t[x]
<1> DEFINE u == Removed(t, n)
<1>1. /\ DOMAIN u = {x \in DOMAIN t : n \notin Path(t, x)}
      /\ \A x \in DOMAIN u : u[x] = t[x]
  BY DEF Removed
<1> HIDE DEF u
<1>2. Root \in DOMAIN u
  BY <1>1, PathFacts DEF Rooted
<1>3. \A x \in DOMAIN u \ {Root} : u[x] \in Folders \cap DOMAIN u
  BY <1>1, PathFacts DEF Rooted
<1>4. \A s \in SUBSET DOMAIN u : s # {} => \E x \in s : u[x] \notin s
  <2>1. DOMAIN u \subseteq DOMAIN t
    BY <1>1
  <2> QED
    BY <1>1, <2>1 DEF Rooted
<1>5. Rooted(u)
  BY <1>1, <1>2, <1>3, <1>4 DEF Rooted
<1> QED
  BY <1>1, <1>5 DEF u

\* Where two trees have a node in common and agree about parents, they agree
\* about its path.
LEMMA PathsAgree ==
    ASSUME NEW t, Rooted(t), NEW u, Rooted(u),
           \A x \in DOMAIN t \cap DOMAIN u : t[x] = u[x],
           NEW n \in DOMAIN t \cap DOMAIN u
    PROVE  Path(t, n) = Path(u, n)
<1> DEFINE s == {x \in DOMAIN t : x \in DOMAIN u => Path(t, x) = Path(u, x)}
<1>1. ASSUME NEW x \in DOMAIN t, t[x] \in DOMAIN t => t[x] \in s
      PROVE  x \in s
  <2> SUFFICES ASSUME x \in DOMAIN u PROVE Path(t, x) = Path(u, x)
    OBVIOUS
  <2>1. CASE x = Root
    BY <2>1, PathFacts
  <2>2. CASE x # Root
    <3>1. t[x] \in DOMAIN t /\ Path(t, x) = {x} \cup Path(t, t[x])
      BY <2>2, PathFacts
    <3>2. u[x] \in DOMAIN u /\ Path(u, x) = {x} \cup Path(u, u[x])
      BY <2>2, PathFacts
    <3>3. t[x] = u[x]
      OBVIOUS
    <3> QED
      BY <1>1, <3>1, <3>2, <3>3
  <2> QED
    BY <2>1, <2>2
<1>2. n \in s
  <2> HIDE DEF s
  <2> QED
    BY <1>1, TreeInduction
<1> QED
  BY <1>2

\* The loop of the effect that follows a refresh shows a directory of the new
\* tree: d itself if that is there; the lowest of those above d in the index it
\* reads; or the root, if d is not in that index either.
LEMMA SurvivingFacts ==
    ASSUME NEW t, Rooted(t), NEW index, Rooted(index), NEW d \in Folders
    PROVE  /\ Surviving(t, d, index) \in Folders \cap DOMAIN t
           /\ d \in DOMAIN t => Surviving(t, d, index) = d
           /\ d \notin DOMAIN t \cup DOMAIN index => Surviving(t, d, index) = Root
           /\ d \in DOMAIN index =>
                /\ Surviving(t, d, index) \in Path(index, d)
                /\ Path(index, d) \cap DOMAIN t \subseteq Path(index, Surviving(t, d, index))
<1> DEFINE S == Nodes \cup {None}
           kept == DOMAIN t \cap Folders
           Up(x) == IF x \in DOMAIN index THEN index[x] ELSE None
           Step(g) == [x \in S |-> IF x = None THEN Root
                                   ELSE IF x \in kept THEN x ELSE g[Up(x)]]
           climb == CHOOSE g : g = Step(g)
           Lowest(x, y) == /\ y \in Path(index, x) \cap kept
                           /\ Path(index, x) \cap kept \subseteq Path(index, y)
           h == [x \in S |-> IF x \in DOMAIN index THEN CHOOSE y : Lowest(x, y)
                             ELSE IF x \in kept THEN x ELSE Root]
<1>1. Root \in kept /\ None \notin kept /\ kept \subseteq S /\ None \in S
      /\ None \notin DOMAIN index /\ DOMAIN index \subseteq S
  BY TreeAssumption DEF Rooted
<1>2. ASSUME NEW x \in DOMAIN index \cap kept PROVE (CHOOSE y : Lowest(x, y)) = x
  <2>1. Lowest(x, x)
    BY PathFacts
  <2>2. ASSUME NEW y, Lowest(x, y) PROVE y = x
    BY <2>2, PathFacts, PathAntisymmetric
  <2> HIDE DEF Lowest
  <2> QED
    BY <2>1, <2>2
<1>3. ASSUME NEW x \in DOMAIN index \ kept
      PROVE  /\ index[x] \in DOMAIN index
             /\ \A y : Lowest(x, y) <=> Lowest(index[x], y)
  BY <1>1, PathFacts
<1>4. ASSUME NEW x \in DOMAIN index \ kept
      PROVE  (CHOOSE y : Lowest(x, y)) = (CHOOSE y : Lowest(index[x], y))
  <2> HIDE DEF Lowest
  <2> QED
    BY <1>3
<1> HIDE DEF S, kept, Lowest
<1>5. h = Step(h)
  <2>1. ASSUME NEW x \in S
        PROVE  h[x] = IF x = None THEN Root ELSE IF x \in kept THEN x ELSE h[Up(x)]
    <3>1. CASE x = None
      BY <1>1, <3>1
    <3>2. CASE x \in kept
      BY <1>1, <1>2, <3>2
    <3>3. CASE x \in DOMAIN index \ kept
      BY <1>1, <1>3, <1>4, <3>3
    <3>4. CASE x \notin DOMAIN index \cup kept
      BY <1>1, <3>4
    <3> QED
      BY <3>1, <3>2, <3>3, <3>4
  <2> HIDE DEF Up
  <2>2. h = [x \in S |-> h[x]]
    OBVIOUS
  <2> HIDE DEF h
  <2> QED
    BY <2>1, <2>2
<1>6. climb = Step(climb)
  <2> HIDE DEF h, Step
  <2> QED
    BY <1>5
<1>7. Surviving(t, d, index) = climb[d]
  BY DEF Surviving, S, kept
<1> HIDE DEF climb
<1>8. \A x \in S : climb[x] = IF x = None THEN Root
                              ELSE IF x \in kept THEN x ELSE climb[Up(x)]
  BY <1>6
<1> DEFINE s == {x \in DOMAIN index : Lowest(x, climb[x])}
<1>9. ASSUME NEW x \in DOMAIN index, index[x] \in DOMAIN index => index[x] \in s
      PROVE  x \in s
  <2>1. CASE x \in kept
    <3>1. climb[x] = x
      BY <1>1, <1>8, <2>1
    <3>2. Lowest(x, x)
      BY <2>1, PathFacts DEF Lowest
    <3> QED
      BY <3>1, <3>2
  <2>2. CASE x \notin kept
    <3>1. climb[x] = climb[index[x]]
      BY <1>1, <1>8, <2>2
    <3> QED
      BY <1>3, <1>9, <2>2, <3>1
  <2> QED
    BY <2>1, <2>2
<1>10. d \in DOMAIN index => d \in s
  <2> HIDE DEF s
  <2> QED
    BY <1>9, TreeInduction
<1>11. Path(index, d) \cap DOMAIN t = Path(index, d) \cap kept
  <2>1. d \in DOMAIN index => Path(index, d) \subseteq Folders \cup {d}
    BY PathFacts
  <2>2. d \notin DOMAIN index => Path(index, d) = {}
    BY PathEquation, TreeAssumption DEF Nodes
  <2> QED
    BY <2>1, <2>2 DEF kept
<1>12. d \in S /\ d # None
  BY TreeAssumption DEF S, Nodes
<1>13. d \in kept => climb[d] = d
  BY <1>8, <1>12
<1>14. d \notin DOMAIN index /\ d \notin kept => climb[d] = Root
  BY <1>1, <1>8, <1>12
<1> QED
  BY <1>1, <1>7, <1>10, <1>11, <1>13, <1>14 DEF Lowest, kept

-----------------------------------------------------------------------------
(***************************************************************************)
(* Requests.                                                               *)
(***************************************************************************)

\* The fields of a request are what it was made with.
LEMMA MadeFields ==
    ASSUME NEW k, NEW ty, NEW n, NEW d, NEW h, NEW g, NEW i
    PROVE  /\ Made(k, ty, n, d, h, g, i).kind = k /\ Made(k, ty, n, d, h, g, i).dir = d
           /\ Made(k, ty, n, d, h, g, i).here = h /\ Made(k, ty, n, d, h, g, i).got = g
           /\ Made(k, ty, n, d, h, g, i).type = ty /\ Made(k, ty, n, d, h, g, i).node = n
           /\ Made(k, ty, n, d, h, g, i).id = i
BY DEF Made

\* What every request has.
LEMMA RequestFacts ==
    ASSUME NEW c, IsRequest(c)
    PROVE  /\ c.kind \in Kinds /\ c.here \in BOOLEAN
           /\ c.got # None => DOMAIN c.got \subseteq Nodes
BY MadeFields DEF IsRequest

\* A request is sent.
LEMMA CallFacts ==
    ASSUME Shape, NEW kind \in Kinds, NEW type, NEW n, NEW d, Call(kind, type, n, d)
    PROVE  /\ \A c \in calls' : IsRequest(c)
           /\ \E new : /\ calls' = calls \cup {new} /\ new.here
                       /\ new.kind = kind /\ new.dir = d
                       /\ new.type = type /\ new.node = n /\ new.got = None
                       /\ IsFiniteSet(calls) => new.id \in 1 .. MaxCalls
<1> DEFINE i == CHOOSE i \in 1 .. MaxCalls :
                     \A c \in calls : <<c.kind, c.id>> # <<kind, i>>
<1>1. PICK new : /\ calls' = calls \cup {new}
                 /\ new = Made(kind, type, n, d, TRUE, None, i)
  BY Zenon DEF Call, Made
\* One of the numbers is not in use, because there are fewer requests.
<1>2. ASSUME IsFiniteSet(calls) PROVE i \in 1 .. MaxCalls
  <2> DEFINE used == {c.id : c \in calls}
  <2>1. IsFiniteSet(used) /\ Cardinality(used) <= Cardinality(calls)
    <3>1. [c \in calls |-> c.id] \in Surjection(calls, used)
      BY Fun_IsSurj, Zenon
    <3> QED
      BY <1>2, <3>1, FS_Surjection
  <2>2. IsFiniteSet(1 .. MaxCalls) /\ Cardinality(1 .. MaxCalls) = MaxCalls
    BY FS_Interval, BoundsAssumption
  <2>3. Cardinality(calls) \in Nat /\ Cardinality(used) \in Nat
        /\ Cardinality(calls) < MaxCalls
    BY <1>2, <2>1, FS_CardinalityType DEF Call
  <2>4. ~((1 .. MaxCalls) \subseteq used)
    <3> HIDE DEF used
    <3> QED
      BY <2>1, <2>2, <2>3, FS_Subset, BoundsAssumption
  <2>5. PICK j \in 1 .. MaxCalls : j \notin used
    BY <2>4
  <2>6. \A c \in calls : <<c.kind, c.id>> # <<kind, j>>
    BY <2>5
  <2> QED
    BY <2>6
<1> HIDE DEF i
<1>3. /\ new.kind = kind /\ new.dir = d /\ new.here = TRUE
      /\ new.type = type /\ new.node = n /\ new.got = None /\ new.id = i
  BY <1>1 DEF Made
<1>4. IsRequest(new)
  BY <1>1 DEF IsRequest
<1> QED
  BY <1>1, <1>2, <1>3, <1>4 DEF Shape

\* The service answers one.
LEMMA ServeFacts ==
    ASSUME Shape, NEW c, NEW n \in Nodes, NEW gone, Serve(c, n, gone)
    PROVE  /\ DOMAIN disk' \subseteq Nodes /\ fresh' \subseteq Nodes
           /\ \A e \in calls' : IsRequest(e)
           /\ c \in calls
           /\ \E new : /\ calls' = (calls \ {c}) \cup {new}
                       /\ new.kind = c.kind /\ new.here = c.here /\ new.dir = c.dir
                       /\ new.type = c.type /\ new.id = c.id
                       /\ new.node = n /\ new.got = disk'
<1>1. c \in calls /\ IsRequest(c)
  BY DEF Serve, Accepts, Shape
<1>2. DOMAIN After(c, n) \subseteq Nodes
  <2>1. c.kind \in Kinds
    BY <1>1, RequestFacts
  <2> QED
    BY <2>1 DEF After, Makes, Added, Removed, Shape, Kinds
<1>3. DOMAIN disk' \subseteq Nodes /\ fresh' \subseteq Nodes
  BY <1>2 DEF Serve, Accepts, Removed, Shape
<1>4. PICK ty, m, d, g, i : \E kind \in Kinds, here \in BOOLEAN :
            c = Made(kind, ty, m, d, here, g, i)
  BY <1>1 DEF IsRequest
<1>5. PICK kind \in Kinds, here \in BOOLEAN : c = Made(kind, ty, m, d, here, g, i)
  BY <1>4
<1> DEFINE new == Made(kind, ty, n, d, here, disk', i)
<1>6. calls' = (calls \ {c}) \cup {new}
  <2>1. [Made(kind, ty, m, d, here, g, i) EXCEPT !.node = n, !.got = disk'] = new
    <3>1. [Made(kind, ty, m, d, here, g, i) EXCEPT !.node = n] = Made(kind, ty, n, d, here, g, i)
      BY DEF Made
    <3>2. [Made(kind, ty, n, d, here, g, i) EXCEPT !.got = disk'] = new
      BY DEF Made
    <3>3. [Made(kind, ty, m, d, here, g, i) EXCEPT !.node = n, !.got = disk']
            = [[Made(kind, ty, m, d, here, g, i) EXCEPT !.node = n] EXCEPT !.got = disk']
      OBVIOUS
    <3> QED
      BY <3>1, <3>2, <3>3
  <2>2. calls' = (calls \ {c}) \cup {[c EXCEPT !.node = n, !.got = disk']}
    BY DEF Serve
  <2> HIDE DEF new
  <2> QED
    BY <1>5, <2>1, <2>2, Zenon
<1>7. /\ new.kind = kind /\ new.dir = d /\ new.here = here
      /\ new.type = ty /\ new.id = i /\ new.node = n /\ new.got = disk'
      /\ c.kind = kind /\ c.dir = d /\ c.here = here /\ c.type = ty /\ c.id = i
  BY <1>5, MadeFields
<1>8. IsRequest(new)
  BY <1>3 DEF IsRequest
<1> HIDE DEF new
<1> QED
  BY <1>1, <1>3, <1>6, <1>7, <1>8 DEF Shape

\* The panel goes: its requests are nobody's.
LEMMA CloseFacts ==
    ASSUME Shape, ClosePanel
    PROVE  \A e \in calls' :
             /\ IsRequest(e) /\ ~e.here
             /\ \E c \in calls : /\ e.kind = c.kind /\ e.dir = c.dir /\ e.type = c.type
                                 /\ e.node = c.node /\ e.got = c.got /\ e.id = c.id
<1> SUFFICES ASSUME NEW e \in calls'
             PROVE  /\ IsRequest(e) /\ ~e.here
                    /\ \E c \in calls :
                         /\ e.kind = c.kind /\ e.dir = c.dir /\ e.type = c.type
                         /\ e.node = c.node /\ e.got = c.got /\ e.id = c.id
  OBVIOUS
<1>1. PICK c \in calls, off \in BOOLEAN : e = [c EXCEPT !.here = off] /\ off = FALSE
  <2>1. FALSE \in BOOLEAN
    OBVIOUS
  <2> QED
    BY <2>1, Zenon DEF ClosePanel
<1>2. PICK ty, n, d, g, i : \E kind \in Kinds, here \in BOOLEAN :
            /\ c = Made(kind, ty, n, d, here, g, i)
            /\ g # None => DOMAIN g \subseteq Nodes
  BY DEF Shape, IsRequest
<1>3. PICK kind \in Kinds, here \in BOOLEAN :
            /\ c = Made(kind, ty, n, d, here, g, i)
            /\ g # None => DOMAIN g \subseteq Nodes
  BY <1>2
<1>4. e = Made(kind, ty, n, d, off, g, i)
  BY <1>1, <1>3 DEF Made
<1>5. IsRequest(e)
  BY <1>3, <1>4 DEF IsRequest
<1>6. /\ e.here = off /\ e.kind = c.kind /\ e.dir = c.dir /\ e.type = c.type
      /\ e.node = c.node /\ e.got = c.got /\ e.id = c.id
  BY <1>3, <1>4, MadeFields
<1> QED
  BY <1>1, <1>5, <1>6

-----------------------------------------------------------------------------
(***************************************************************************)
(* What holds of the types.                                                *)
(***************************************************************************)

\* What the operators on an edit make of it.
LEMMA EditFacts ==
    ASSUME Shape
    PROVE  /\ Blurred \in Edits \cup {None} /\ NotPending \in Edits \cup {None}
           /\ Blurred # edit => Blurred = None /\ ~Pending
           /\ edit # None => edit \in Edits /\ edit.pending \in BOOLEAN
                             /\ [edit EXCEPT !.pending = TRUE] \in Edits
                             /\ [edit EXCEPT !.pending = TRUE].pending = TRUE
                             /\ [edit EXCEPT !.pending = TRUE].kind = edit.kind
           /\ NotPending # None => NotPending.pending = FALSE
<1>1. ASSUME edit # None, NEW h \in BOOLEAN
      PROVE  /\ [edit EXCEPT !.pending = h] \in Edits
             /\ [edit EXCEPT !.pending = h].pending = h
             /\ [edit EXCEPT !.pending = h].kind = edit.kind
  BY <1>1 DEF Shape, Edits
<1>2. TRUE \in BOOLEAN /\ FALSE \in BOOLEAN
  OBVIOUS
<1>3. edit # None => edit \in Edits /\ edit.pending \in BOOLEAN
  BY DEF Shape, Edits
<1>4. Blurred \in Edits \cup {None} /\ (Blurred # edit => Blurred = None /\ ~Pending)
  BY <1>3 DEF Shape, Blurred, InputShown, Pending
<1>5. edit # None => /\ [edit EXCEPT !.pending = TRUE] \in Edits
                     /\ [edit EXCEPT !.pending = TRUE].pending = TRUE
                     /\ [edit EXCEPT !.pending = TRUE].kind = edit.kind
  BY <1>1, <1>2, Zenon
<1>6. edit # None => /\ [edit EXCEPT !.pending = FALSE] \in Edits
                     /\ [edit EXCEPT !.pending = FALSE].pending = FALSE
  BY <1>1, <1>2, Zenon
<1>7. NotPending \in Edits \cup {None} /\ (NotPending # None => NotPending.pending = FALSE)
  BY <1>6, Zenon DEF NotPending
<1> QED
  BY <1>3, <1>4, <1>5, <1>7

\* Every step keeps the shape.
LEMMA ShapeStep == Shape /\ [Next]_vars => Shape'
<1> SUFFICES ASSUME Shape, [Next]_vars PROVE Shape'
  OBVIOUS
<1> USE DEF requestVars, viewVars, taskVars
<1>1. ASSUME UNCHANGED <<disk, fresh, tree, calls>>, edit' \in Edits \cup {None}
      PROVE  Shape'
  BY <1>1 DEF Shape
<1>2. ASSUME NEW kind \in Kinds, NEW type, NEW n, NEW d, Call(kind, type, n, d),
             UNCHANGED <<disk, fresh, tree>>, edit' \in Edits \cup {None}
      PROVE  Shape'
  BY <1>2, CallFacts DEF Shape
<1>3. ASSUME NEW n \in Nodes,
             Select(n) \/ OpenDirectory(n) \/ BeginRename(n) \/ AskDelete(n)
      PROVE  Shape'
  <2>1. UNCHANGED <<disk, fresh, tree, calls>>
    BY <1>3 DEF Select, OpenDirectory, BeginRename, AskDelete, Settle
  <2>2. edit' \in {None, Blurred, NewEdit("rename", TypeOf(n), n)}
    BY <1>3 DEF Select, OpenDirectory, BeginRename, AskDelete
  <2>3. NewEdit("rename", TypeOf(n), n) \in Edits
    BY DEF NewEdit, TypeOf, Edits
  <2> QED
    BY <1>1, <2>1, <2>2, <2>3, EditFacts
<1>4. ASSUME NEW type \in Types, BeginCreate(type) PROVE Shape'
  <2>1. NewEdit("create", type, None) \in Edits
    BY BoundsAssumption DEF NewEdit, Edits
  <2> QED
    BY <1>1, <1>4, <2>1 DEF BeginCreate
<1>5. CASE CancelEdit
  BY <1>1, <1>5 DEF CancelEdit
<1>6. CASE CommitEdit
  <2>1. edit # None /\ edit.kind \in Kinds /\ edit' \in Edits
    BY <1>6, EditFacts DEF CommitEdit, InputShown, Edits, Kinds
  <2> QED
    BY <1>2, <1>6, <2>1 DEF CommitEdit
<1>7. CASE CancelDelete
  BY <1>1, <1>7 DEF CancelDelete, Shape
<1>8. CASE ConfirmDelete
  <2>1. "delete" \in Kinds /\ edit \in Edits \cup {None}
    BY DEF Kinds, Shape
  <2> QED
    BY <1>2, <1>8, <2>1 DEF ConfirmDelete
<1>9. CASE ChooseImage \/ RetryUpload
  <2>1. PICK d : Upload(d)
    BY <1>9 DEF ChooseImage, RetryUpload
  <2>2. "upload" \in Kinds
    BY DEF Kinds
  <2> QED
    BY <1>2, <2>1, <2>2, EditFacts DEF Upload
<1>10. CASE ClosePanel
  BY <1>10, CloseFacts DEF ClosePanel, Shape
<1>11. CASE OpenPanel
  BY <1>1, <1>11 DEF OpenPanel, Shape
<1>12. ASSUME NEW c \in calls, Succeeds(c) PROVE Shape'
  <2>1. c.got # None /\ tree' = c.got /\ UNCHANGED <<disk, fresh>> /\ calls' = calls \ {c}
    BY <1>12 DEF Succeeds, Settle
  <2>2. edit' \in Edits \cup {None}
    BY <1>12 DEF Succeeds, Shape
  <2> QED
    BY <2>1, <2>2, RequestFacts DEF Shape
<1>13. ASSUME NEW c \in calls, Fails(c) PROVE Shape'
  <2>1. UNCHANGED tree /\ calls' = calls \ {c}
    BY <1>13 DEF Fails
  <2>2. edit' \in Edits \cup {None}
    BY <1>13, EditFacts DEF Fails, Shape
  <2>3. DOMAIN disk' \subseteq Nodes /\ fresh' \subseteq Nodes
    <3>1. ASSUME NEW n \in Nodes, Accepts(c, n), disk' = After(c, n)
          PROVE  DOMAIN disk' \subseteq Nodes /\ fresh' \subseteq Nodes
      <4>1. c.kind \in Kinds
        BY RequestFacts DEF Shape
      <4> QED
        BY <3>1, <4>1 DEF Accepts, After, Makes, Added, Removed, Shape, Kinds
    <3> QED
      BY <1>13, <3>1 DEF Fails, Shape
  <2> QED
    BY <2>1, <2>2, <2>3 DEF Shape
<1>14. ASSUME NEW c \in calls, NEW n \in Nodes, NEW gone, Serve(c, n, gone) PROVE Shape'
  <2>1. UNCHANGED <<tree, edit>>
    BY <1>14 DEF Serve
  <2> QED
    BY <1>14, <2>1, ServeFacts DEF Shape
<1>15. CASE UNCHANGED vars
  BY <1>1, <1>15 DEF vars, Shape
<1> QED
  BY <1>3, <1>4, <1>5, <1>6, <1>7, <1>8, <1>9, <1>10, <1>11, <1>12, <1>13, <1>14, <1>15
  DEF Next, Answers

\* So every behaviour has it.
LEMMA ShapeAlways == Spec => []Shape
<1>1. Init => Shape
  BY TreeAssumption DEF Init, Shape
<1> QED
  BY <1>1, ShapeStep, PTL DEF Spec

-----------------------------------------------------------------------------
(***************************************************************************)
(* What is selected is shown.                                              *)
(***************************************************************************)

\* The first row of a directory is one of its rows, if it has any.
LEMMA FirstFacts ==
    ASSUME NEW t, DOMAIN t \subseteq Nodes, NEW d
    PROVE  /\ None \notin Children(t, d)
           /\ IF Children(t, d) = {} THEN First(t, d) = None
              ELSE First(t, d) \in Children(t, d)
BY TreeAssumption DEF Children, First

\* The effects of a change leave a row in the focus, and one or none selected,
\* if those were rows of the directory the change is about, or the effects
\* notice that they were not.
LEMMA SettleFacts ==
    ASSUME NEW t, DOMAIN t \subseteq Nodes, NEW d, NEW s, NEW f, NEW index,
           Settle(t, d, s, f, index),
           dir' = d /\ d = dir /\ Children(t, d) = Children(tree, dir) =>
                /\ s \in Children(t, d) \cup {None}
                /\ IF Children(t, d) = {} THEN f = None ELSE f \in Children(t, d)
    PROVE  /\ sel' \in Children(tree', dir') \cup {None}
           /\ IF Children(tree', dir') = {} THEN foc' = None
              ELSE foc' \in Children(tree', dir')
BY FirstFacts DEF Settle, Kept

\* Every step leaves what is selected shown.
LEMMA SelectionStep ==
    ASSUME Shape, Shape', Selection, [Next]_vars
    PROVE  Selection'
<1> USE DEF requestVars, viewVars, taskVars
<1>0. DOMAIN tree \subseteq Nodes /\ DOMAIN tree' \subseteq Nodes
  BY DEF Shape
<1>1. ASSUME UNCHANGED <<tree, panel, dir, sel, foc, strayed>> PROVE Selection'
  BY <1>1 DEF Selection, SelectionShown
<1>2. ASSUME panel', ~strayed' =>
                /\ sel' \in Children(tree', dir') \cup {None}
                /\ IF Children(tree', dir') = {} THEN foc' = None
                   ELSE foc' \in Children(tree', dir')
      PROVE  Selection'
  BY <1>2 DEF Selection, SelectionShown
<1>3. ASSUME NEW n, SelectNode(n), UNCHANGED <<tree, panel, dir>>, panel PROVE Selection'
  <2>1. n \in Children(tree', dir') /\ sel' = n /\ foc' = n
    BY <1>3 DEF SelectNode
  <2> QED
    BY <1>2, <1>3, <2>1
<1>4. ASSUME NEW n \in Nodes, Select(n) \/ BeginRename(n) \/ AskDelete(n) PROVE Selection'
  BY <1>3, <1>4 DEF Select, BeginRename, AskDelete, OpenRowMenu, UserActs
<1>5. ASSUME NEW d, OpenDirectory(d) PROVE Selection'
  <2>1. /\ Settle(tree, d, First(tree, d), First(tree, d), previous) /\ panel' = panel /\ panel
    BY <1>5 DEF OpenDirectory, UserActs
  <2>2. /\ sel' \in Children(tree', dir') \cup {None}
        /\ IF Children(tree', dir') = {} THEN foc' = None
           ELSE foc' \in Children(tree', dir')
    BY <1>0, <2>1, FirstFacts, SettleFacts
  <2> QED
    BY <1>2, <2>1, <2>2
<1>6. CASE OpenPanel
  <2>1. /\ panel' /\ tree' = tree /\ dir' = Root /\ foc' = First(tree, Root)
        /\ sel' = None
    BY <1>6 DEF OpenPanel, Selection
  <2> QED
    BY <1>0, <1>2, <2>1, FirstFacts
<1>7. CASE ClosePanel
  BY <1>7 DEF ClosePanel, Selection, SelectionShown
<1>8. ASSUME NEW c \in calls, Succeeds(c) PROVE Selection'
  <2> DEFINE mine == c.here /\ c.kind # "delete"
  <2>1. tree' = c.got /\ panel' = panel
    BY <1>8 DEF Succeeds, Settle
  <2>2. CASE ~panel
    BY <1>8, <2>1, <2>2 DEF Succeeds, Selection, SelectionShown
  <2>3. CASE panel /\ mine
    <3>1. PICK index : Settle(c.got, dir, c.node, c.node, index)
          /\ strayed' = (c.node \notin Children(c.got, dir'))
      BY <1>8, <2>3 DEF Succeeds
    <3>2. ~strayed' => c.node \in Children(c.got, dir')
      BY <3>1
    <3>3. ~strayed' =>
            /\ sel' \in Children(tree', dir') \cup {None}
            /\ IF Children(tree', dir') = {} THEN foc' = None
               ELSE foc' \in Children(tree', dir')
      BY <1>0, <2>1, <3>1, <3>2, SettleFacts
    <3> QED
      BY <1>2, <2>1, <2>3, <3>3
  <2>4. CASE panel /\ ~mine
    <3>1. PICK index : Settle(c.got, dir, sel, foc, index) /\ strayed' = strayed
      BY <1>8, <2>4 DEF Succeeds
    <3>2. ~strayed' =>
            /\ sel \in Children(tree, dir) \cup {None}
            /\ IF Children(tree, dir) = {} THEN foc = None ELSE foc \in Children(tree, dir)
      BY <2>4, <3>1 DEF Selection, SelectionShown
    <3>3. ~strayed' =>
            /\ sel' \in Children(tree', dir') \cup {None}
            /\ IF Children(tree', dir') = {} THEN foc' = None
               ELSE foc' \in Children(tree', dir')
      BY <1>0, <2>1, <3>1, <3>2, SettleFacts
    <3> QED
      BY <1>2, <2>1, <2>4, <3>3
  <2> QED
    BY <2>2, <2>3, <2>4
<1>9. ASSUME NEW c, Fails(c) PROVE Selection'
  BY <1>1, <1>9 DEF Fails
<1>10. ASSUME NEW c, NEW n, NEW gone, Serve(c, n, gone) PROVE Selection'
  BY <1>1, <1>10 DEF Serve
<1>11. ASSUME NEW type, BeginCreate(type) PROVE Selection'
  BY <1>1, <1>11 DEF BeginCreate
<1>12. CASE CancelEdit \/ CommitEdit \/ CancelDelete \/ ConfirmDelete
  BY <1>1, <1>12 DEF CancelEdit, CommitEdit, CancelDelete, ConfirmDelete
<1>13. CASE ChooseImage \/ RetryUpload
  BY <1>1, <1>13 DEF ChooseImage, RetryUpload, Upload
<1>14. CASE UNCHANGED vars
  BY <1>1, <1>14 DEF vars
<1> QED
  BY <1>4, <1>5, <1>6, <1>7, <1>8, <1>9, <1>10, <1>11, <1>12, <1>13, <1>14
  DEF Next, Answers

\* The selected and the focused row are rows that are shown, for any tree and
\* any number of refreshes, unless the end of a request selected a node of
\* another directory; a list that is not empty has the focus somewhere.
THEOREM SelectionCorrect == Spec => []SelectionShown
<1>1. Init => Selection
  <2> SUFFICES ASSUME Init PROVE Selection
    OBVIOUS
  <2>1. DOMAIN tree \subseteq Nodes
    BY TreeAssumption DEF Init
  <2> QED
    BY <2>1, FirstFacts DEF Init, Selection, SelectionShown
<1>2. Shape /\ Shape' /\ Selection /\ [Next]_vars => Selection'
  BY SelectionStep
<1>3. Selection => SelectionShown
  BY DEF Selection
<1> QED
  BY <1>1, <1>2, <1>3, ShapeAlways, PTL DEF Spec

-----------------------------------------------------------------------------
(***************************************************************************)
(* Nothing waits in vain.                                                  *)
(***************************************************************************)

\* The four kinds do not mix: what is said of a commit, of a deletion and of
\* an upload can be shown one by one.
Committing == Pending => \E c \in calls : c.here /\ c.kind \in {"create", "rename"}
Deleting ==
    /\ deleting <=> \E c \in calls : c.here /\ c.kind = "delete"
    /\ \A c, e \in Under({"delete"}) : c = e
UploadShown ==
    /\ Uploading <=> \E c \in calls : c.here /\ c.kind = "upload"
    /\ \A c, e \in Under({"upload"}) : c = e /\ operation.dir = c.dir

\* What is awaited has three parts, which do not depend on each other.
LEMMA AwaitedParts == Awaited <=> Committing /\ Deleting /\ UploadShown
BY DEF Awaited, Committing, Deleting, UploadShown

\* Every step keeps each of them.
LEMMA AwaitedStep ==
    ASSUME Shape, Shape', Awaited, [Next]_vars
    PROVE  Awaited'
<1> USE DEF requestVars, viewVars, taskVars
<1>0. Committing /\ Deleting /\ UploadShown
  BY AwaitedParts
<1>1. SUFFICES Committing' /\ Deleting' /\ UploadShown'
  BY DEF Awaited, Committing, Deleting, UploadShown
\* Requests stay, and at most an edit is dropped.
<1>2. ASSUME UNCHANGED <<calls, deleting, operation>>, Pending' => Pending
      PROVE  Committing' /\ Deleting' /\ UploadShown'
  BY <1>0, <1>2 DEF Committing, Deleting, UploadShown, Under, Uploading
<1>3. Blurred = edit \/ (Blurred = None /\ ~Pending)
  BY EditFacts
<1>4. ASSUME NEW n \in Nodes,
             Select(n) \/ OpenDirectory(n) \/ BeginRename(n) \/ AskDelete(n)
      PROVE  Committing' /\ Deleting' /\ UploadShown'
  <2>1. UNCHANGED <<calls, deleting, operation>>
    BY <1>4 DEF Select, OpenDirectory, BeginRename, AskDelete, Settle
  <2>2. edit' = edit \/ edit' = None \/ edit' = NewEdit("rename", TypeOf(n), n)
    BY <1>3, <1>4 DEF Select, OpenDirectory, BeginRename, AskDelete
  <2>3. Pending' => Pending
    BY <2>2 DEF Pending, NewEdit
  <2> QED
    BY <1>2, <2>1, <2>3
<1>5. ASSUME NEW type, BeginCreate(type)
      PROVE  Committing' /\ Deleting' /\ UploadShown'
  BY <1>2, <1>5 DEF BeginCreate, Pending, NewEdit
<1>6. CASE CommitEdit
  <2>1. /\ edit # None
        /\ Call(edit.kind, edit.type, edit.node, IF edit.kind = "create" THEN dir ELSE None)
        /\ UNCHANGED <<deleting, operation>>
    BY <1>6 DEF CommitEdit, InputShown
  <2>2. edit.kind \in Kinds /\ edit.kind \in {"create", "rename"}
    BY <2>1, EditFacts DEF Edits, Kinds
  <2>3. PICK new : calls' = calls \cup {new} /\ new.here /\ new.kind = edit.kind
    BY <2>1, <2>2, CallFacts
  <2>4. Committing'
    BY <2>2, <2>3 DEF Committing
  <2>5. Deleting' /\ UploadShown'
    BY <1>0, <2>1, <2>2, <2>3 DEF Deleting, UploadShown, Under, Uploading
  <2> QED
    BY <2>4, <2>5
<1>7. CASE CancelEdit
  BY <1>2, <1>7 DEF CancelEdit, Pending
<1>8. CASE CancelDelete
  BY <1>2, <1>8 DEF CancelDelete, Pending
<1>9. CASE ConfirmDelete
  <2>1. ~deleting /\ deleting' = TRUE /\ UNCHANGED <<edit, operation>>
        /\ Call("delete", TypeOf(target), target, None)
    BY <1>9 DEF ConfirmDelete
  <2>2. PICK new : calls' = calls \cup {new} /\ new.here /\ new.kind = "delete"
    <3>1. "delete" \in Kinds
      BY DEF Kinds
    <3> QED
      BY <2>1, <3>1, CallFacts
  <2>3. Committing' /\ UploadShown'
    BY <1>0, <2>1, <2>2 DEF Committing, Pending, UploadShown, Under, Uploading
  <2>4. Under({"delete"})' = {new}
    BY <1>0, <2>1, <2>2 DEF Deleting, Under
  <2>5. Deleting'
    BY <2>1, <2>2, <2>4 DEF Deleting
  <2> QED
    BY <2>3, <2>5
<1>10. CASE ChooseImage \/ RetryUpload
  <2>1. PICK d : Upload(d)
    BY <1>10 DEF ChooseImage, RetryUpload
  <2>2. ~Uploading
    BY <1>10 DEF ChooseImage, MayUpload, RetryUpload, Uploading
  <2>3. /\ Call("upload", "file", None, d) /\ deleting' = deleting
        /\ operation'.dir = d /\ operation'.status = "pending"
        /\ edit' = Blurred
    BY <2>1 DEF Upload
  <2>4. PICK new : calls' = calls \cup {new} /\ new.here /\ new.kind = "upload" /\ new.dir = d
    <3>1. "upload" \in Kinds
      BY DEF Kinds
    <3> QED
      BY <2>3, <3>1, CallFacts
  <2>5. Committing' /\ Deleting'
    BY <1>0, <1>3, <2>3, <2>4 DEF Committing, Pending, Deleting, Under
  <2>6. Under({"upload"})' = {new}
    BY <1>0, <2>2, <2>4 DEF UploadShown, Under
  <2>7. UploadShown'
    BY <2>3, <2>4, <2>6 DEF UploadShown, Uploading
  <2> QED
    BY <2>5, <2>7
<1>11. CASE ClosePanel
  <2>1. /\ edit' = None /\ deleting' = FALSE /\ operation'.status # "pending"
        /\ \A e \in calls' : ~e.here
    BY <1>11, CloseFacts DEF ClosePanel, NoOperation
  <2> QED
    BY <2>1 DEF Committing, Pending, Deleting, UploadShown, Uploading, Under
<1>12. CASE OpenPanel
  BY <1>2, <1>12 DEF OpenPanel, Pending
<1>13. ASSUME NEW c \in calls, Succeeds(c) \/ Fails(c)
       PROVE  Committing' /\ Deleting' /\ UploadShown'
  <2>1. /\ calls' = calls \ {c}
        /\ edit' \in {None, NotPending, edit}
        /\ c.here /\ c.kind \in {"create", "rename"} => edit' \in {None, NotPending}
        /\ deleting' = (deleting /\ ~(c.here /\ c.kind = "delete"))
        /\ ~(c.here /\ c.kind = "upload") => operation' = operation
        /\ c.here /\ c.kind = "upload" => operation'.status # "pending"
    BY <1>13 DEF Succeeds, Fails, NoOperation
  <2>2. Committing'
    <3>1. Pending' => Pending /\ ~(c.here /\ c.kind \in {"create", "rename"})
      BY <2>1, EditFacts DEF Pending
    <3> QED
      BY <1>0, <2>1, <3>1 DEF Committing
  <2>3. Deleting'
    <3>1. CASE c.here /\ c.kind = "delete"
      <4>1. Under({"delete"})' = {}
        BY <1>0, <2>1, <3>1 DEF Deleting, Under
      <4> QED
        BY <2>1, <3>1, <4>1 DEF Deleting, Under
    <3>2. CASE ~(c.here /\ c.kind = "delete")
      BY <1>0, <2>1, <3>2 DEF Deleting, Under
    <3> QED
      BY <3>1, <3>2
  <2>4. UploadShown'
    <3>1. CASE c.here /\ c.kind = "upload"
      <4>1. Under({"upload"})' = {}
        BY <1>0, <2>1, <3>1 DEF UploadShown, Under
      <4> QED
        BY <2>1, <3>1, <4>1 DEF UploadShown, Under, Uploading
    <3>2. CASE ~(c.here /\ c.kind = "upload")
      BY <1>0, <2>1, <3>2 DEF UploadShown, Under, Uploading
    <3> QED
      BY <3>1, <3>2
  <2> QED
    BY <2>2, <2>3, <2>4
<1>14. ASSUME NEW c \in calls, NEW n \in Nodes, NEW gone, Serve(c, n, gone)
       PROVE  Committing' /\ Deleting' /\ UploadShown'
  <2>1. PICK new : /\ calls' = (calls \ {c}) \cup {new}
                   /\ new.kind = c.kind /\ new.here = c.here /\ new.dir = c.dir
    BY <1>14, ServeFacts
  <2>2. UNCHANGED <<edit, deleting, operation>>
    BY <1>14 DEF Serve
  <2>3. Committing'
    BY <1>0, <2>1, <2>2 DEF Committing, Pending
  <2>4. Deleting'
    BY <1>0, <2>1, <2>2 DEF Deleting, Under
  <2>5. UploadShown'
    BY <1>0, <2>1, <2>2 DEF UploadShown, Under, Uploading
  <2> QED
    BY <2>3, <2>4, <2>5
<1>15. CASE UNCHANGED vars
  BY <1>2, <1>15 DEF vars, Pending
<1> QED
  BY <1>4, <1>5, <1>6, <1>7, <1>8, <1>9, <1>10, <1>11, <1>12, <1>13, <1>14, <1>15
  DEF Next, Answers

\* What is shown as under way is under way, and one upload at a time, the one
\* shown: for any number of requests, failures, retries and new mounts of the
\* panel (commitEdit, confirmDelete, uploadImage).
THEOREM NothingWaits == Spec => []NothingWaitsInVain
<1>1. Init => Awaited
  BY DEF Init, Awaited, Under, Pending, Uploading, NoOperation
<1>2. Shape /\ Shape' /\ Awaited /\ [Next]_vars => Awaited'
  BY AwaitedStep
<1>3. Awaited => NothingWaitsInVain
  BY DEF Awaited, NothingWaitsInVain, Under
<1> QED
  BY <1>1, <1>2, <1>3, ShapeAlways, PTL DEF Spec

-----------------------------------------------------------------------------
(***************************************************************************)
(* The trees stay trees, and agree; the directory shown is one of the tree.*)
(***************************************************************************)

\* A tree t that the service may come to have, with what is then fresh: nodes
\* it had, where they were, and new ones.
Follows(t, left_over) ==
    /\ Rooted(t) /\ left_over \subseteq fresh
    /\ \A n \in DOMAIN t : /\ n \notin left_over
                           /\ n \in DOMAIN disk => t[n] = disk[n]
                           /\ n \notin DOMAIN disk => n \in fresh

\* What the service does with a request gives such a tree.
LEMMA AfterFollows ==
    ASSUME Shape, Typed, Agreement, NEW c \in calls, NEW n \in Nodes, Accepts(c, n)
    PROVE  Follows(After(c, n), fresh')
<1>1. c.kind \in Kinds /\ TypedRequest(c)
  BY RequestFacts DEF Shape, Typed
<1>2. /\ Rooted(disk) /\ fresh' = fresh \ {n} /\ fresh \cap DOMAIN disk = {}
      /\ None \notin DOMAIN disk
  BY TreeAssumption DEF Accepts, Typed, Agreement, Trees, Rooted
<1>3. CASE Makes(c)
  <2>1. n \in fresh /\ n \in Nodes \ DOMAIN disk /\ c.dir \in Folders \cap DOMAIN disk
    BY <1>1, <1>2, <1>3 DEF Accepts, TypedRequest
  <2>2. After(c, n) = Added(disk, n, c.dir)
    BY <1>3 DEF After, Makes
  <2>3. Rooted(Added(disk, n, c.dir))
    BY <1>2, <2>1, AddedRooted
  <2> QED
    BY <1>2, <2>1, <2>2, <2>3 DEF Follows, Added
<1>4. CASE c.kind = "delete"
  <2>1. n # Root
    BY <1>1, <1>4 DEF Accepts, Makes, TypedRequest
  <2>2. After(c, n) = Removed(disk, n)
    BY <1>4 DEF After, Makes
  <2> QED
    BY <1>2, <2>1, <2>2, RemovedRooted DEF Follows
<1>5. CASE c.kind = "rename"
  <2>1. After(c, n) = disk
    BY <1>5 DEF After, Makes
  <2> QED
    BY <1>2, <2>1 DEF Follows
<1> QED
  BY <1>1, <1>3, <1>4, <1>5 DEF Kinds, Makes

\* And so does the deletion of one more directory by somebody else.
LEMMA ServeFollows ==
    ASSUME Shape, Typed, Agreement, NEW c \in calls, NEW n \in Nodes, NEW gone, gone # Root,
           Serve(c, n, gone)
    PROVE  Follows(disk', fresh')
<1>1. Follows(After(c, n), fresh') /\ disk' = Removed(After(c, n), gone)
  BY AfterFollows DEF Serve
<1> QED
  BY <1>1, RemovedRooted DEF Follows

\* Every step leaves the trees in agreement: what is new follows the service.
LEMMA AgreementStep ==
    ASSUME Shape, Typed, Agreement, [Next]_vars
    PROVE  Agreement'
<1> USE DEF requestVars, viewVars, taskVars
\* Every step leaves the trees there are, or adds one that follows the service's.
<1>1. ASSUME Follows(disk', fresh'), Trees' \subseteq Trees \cup {disk'}
      PROVE  Agreement'
  <2>1. \A t \in Trees' : fresh' \cap DOMAIN t = {}
    BY <1>1 DEF Agreement, Follows
  <2>2. \A t \in Trees : \A n \in DOMAIN t \cap DOMAIN disk' : t[n] = disk'[n]
    <3>1. disk \in Trees
      BY DEF Trees
    <3> QED
      BY <1>1, <3>1 DEF Agreement, Follows
  <2>3. \A t, u \in Trees' : \A n \in DOMAIN t \cap DOMAIN u : t[n] = u[n]
    BY <1>1, <2>2 DEF Agreement
  <2> QED
    BY <2>1, <2>3 DEF Agreement
<1>2. ASSUME fresh' \subseteq fresh, Trees' \subseteq Trees PROVE Agreement'
  BY <1>2 DEF Agreement
<1>3. ASSUME UNCHANGED <<disk, fresh, tree>>,
             \A c \in calls' : c.got # None => \E e \in calls : e.got = c.got
      PROVE  Agreement'
  <2>1. Trees' \subseteq Trees
    BY <1>3 DEF Trees
  <2> QED
    BY <1>2, <1>3, <2>1
<1>4. ASSUME NEW kind \in Kinds, NEW type, NEW n, NEW d, Call(kind, type, n, d),
             UNCHANGED <<disk, fresh, tree>>
      PROVE  Agreement'
  BY <1>3, <1>4, CallFacts
<1>5. ASSUME NEW n, Select(n) \/ OpenDirectory(n) \/ BeginRename(n) \/ AskDelete(n)
      PROVE  Agreement'
  BY <1>3, <1>5 DEF Select, OpenDirectory, BeginRename, AskDelete, Settle
<1>6. ASSUME NEW type, BeginCreate(type) PROVE Agreement'
  BY <1>3, <1>6 DEF BeginCreate
<1>7. CASE CancelEdit \/ CancelDelete \/ OpenPanel
  BY <1>3, <1>7 DEF CancelEdit, CancelDelete, OpenPanel
<1>8. CASE CommitEdit
  <2>1. edit.kind \in Kinds
    BY <1>8, EditFacts DEF CommitEdit, InputShown, Edits, Kinds
  <2> QED
    BY <1>4, <1>8, <2>1 DEF CommitEdit
<1>9. CASE ConfirmDelete
  <2>1. "delete" \in Kinds
    BY DEF Kinds
  <2> QED
    BY <1>4, <1>9, <2>1 DEF ConfirmDelete
<1>10. CASE ChooseImage \/ RetryUpload
  <2>1. PICK d : Upload(d)
    BY <1>10 DEF ChooseImage, RetryUpload
  <2>2. "upload" \in Kinds
    BY DEF Kinds
  <2> QED
    BY <1>4, <2>1, <2>2 DEF Upload
<1>11. CASE ClosePanel
  <2>1. UNCHANGED <<disk, fresh, tree>>
    BY <1>11 DEF ClosePanel
  <2> QED
    BY <1>3, <1>11, <2>1, CloseFacts
<1>12. ASSUME NEW c \in calls, Succeeds(c) PROVE Agreement'
  <2>1. /\ c.got # None /\ tree' = c.got /\ calls' = calls \ {c}
        /\ UNCHANGED <<disk, fresh>>
    BY <1>12 DEF Succeeds, Settle
  <2>2. Trees' \subseteq Trees
    BY <2>1 DEF Trees
  <2> QED
    BY <1>2, <2>1, <2>2
<1>13. ASSUME NEW c \in calls, Fails(c) PROVE Agreement'
  <2>1. calls' = calls \ {c} /\ tree' = tree
    BY <1>13 DEF Fails
  <2>2. Trees' \subseteq Trees \cup {disk'}
    BY <2>1 DEF Trees
  <2>3. CASE UNCHANGED <<disk, fresh>>
    BY <1>3, <2>1, <2>3
  <2>4. ASSUME NEW n \in Nodes, Accepts(c, n), disk' = After(c, n) PROVE Agreement'
    BY <1>1, <2>2, <2>4, AfterFollows
  <2> QED
    BY <1>13, <2>3, <2>4 DEF Fails
<1>14. ASSUME NEW c \in calls, NEW n \in Nodes, NEW gone, gone # Root, Serve(c, n, gone)
       PROVE  Agreement'
  <2>1. PICK new : calls' = (calls \ {c}) \cup {new} /\ new.got = disk'
    <3>1. Serve(c, n, gone)
      BY <1>14
    <3> QED
      BY <3>1, ServeFacts
  <2>2. tree' = tree
    BY <1>14 DEF Serve
  <2>3. Trees' \subseteq Trees \cup {disk'}
    BY <2>1, <2>2 DEF Trees
  <2> QED
    BY <1>1, <1>14, <2>3, ServeFollows
<1>15. CASE UNCHANGED vars
  BY <1>3, <1>15 DEF vars
<1> QED
  BY <1>5, <1>6, <1>7, <1>8, <1>9, <1>10, <1>11, <1>12, <1>13, <1>14, <1>15
  DEF Next, Answers

\* The effects show a directory that the new tree has, and select and focus
\* nodes or none.
LEMMA SettleTyped ==
    ASSUME Typed, panel, NEW t, Rooted(t), NEW d \in Folders \cap DOMAIN tree,
           NEW s \in Nodes \cup {None}, NEW f \in Nodes \cup {None},
           NEW index, Rooted(index), Settle(t, d, s, f, index)
    PROVE  /\ tree' = t /\ previous' = t /\ dir' \in Folders \cap DOMAIN t
           /\ sel' \in Nodes \cup {None} /\ foc' \in Nodes \cup {None}
<1>1. tree' = t /\ previous' = t /\ dir' = Surviving(t, d, index)
  BY DEF Settle
<1>3. dir' \in Folders \cap DOMAIN t
  BY <1>1, SurvivingFacts
<1>4. \A e : First(t, e) \in Nodes \cup {None}
  BY FirstFacts DEF Rooted, Children
<1>5. sel' \in Nodes \cup {None} /\ foc' \in Nodes \cup {None}
  BY <1>4 DEF Settle, Kept
<1> QED
  BY <1>1, <1>3, <1>5

\* Every step keeps the types, trees included.
LEMMA TypedStep ==
    ASSUME Shape, Shape', Typed, Agreement, [Next]_vars
    PROVE  Typed'
<1> USE DEF requestVars, viewVars, taskVars
<1>0. None \notin Nodes /\ Root \in Nodes /\ Root # None
      /\ \A d : Children(tree, d) \subseteq Nodes \ {Root}
  BY TreeAssumption DEF Nodes, Children, Typed, Rooted
\* The groups of conjuncts that change together.
<1> DEFINE Disk == Rooted(disk)
           Calls == /\ asked \in 0 .. MaxRequests
                    /\ IsFiniteSet(calls) /\ \A c \in calls : TypedRequest(c)
           Flags == /\ readOnly \in BOOLEAN /\ panel \in BOOLEAN
                    /\ strayed \in BOOLEAN
           View == /\ Rooted(tree)
                   /\ IF ~panel THEN dir = None
                      ELSE dir \in Folders \cap DOMAIN tree /\ previous = tree
                   /\ {sel, foc} \subseteq Nodes \cup {None}
           Dialog == /\ deleting \in BOOLEAN
                     /\ target \in Nodes \cup {None} /\ target # Root
           Transfer == operation \in {NoOperation} \cup
                                     [dir : Folders, status : {"pending", "error"}]
<1>1. Disk /\ Calls /\ Flags /\ View /\ Dialog /\ Transfer
  BY DEF Typed
<1>2. SUFFICES Disk' /\ Calls' /\ Flags' /\ View' /\ Dialog' /\ Transfer'
  BY DEF Typed
<1>3. ASSUME UNCHANGED disk PROVE Disk'
  BY <1>1, <1>3
<1>4. ASSUME UNCHANGED requestVars PROVE Calls'
  BY <1>1, <1>4 DEF TypedRequest
<1>5. ASSUME UNCHANGED <<readOnly, panel, strayed>> PROVE Flags'
  BY <1>1, <1>5
<1>6. ASSUME UNCHANGED <<tree, panel, viewVars>> PROVE View'
  BY <1>1, <1>6
<1>7. ASSUME UNCHANGED <<target, deleting>> PROVE Dialog'
  BY <1>1, <1>7
<1>8. ASSUME UNCHANGED operation PROVE Transfer'
  BY <1>1, <1>8
<1>9. ASSUME NEW kind \in Kinds, NEW type \in {"file", "folder"},
             NEW n \in Nodes \cup {None}, NEW d \in Folders \cup {None},
             kind = "delete" => n # Root, kind = "upload" => d \in Folders,
             Call(kind, type, n, d)
      PROVE  Calls'
  <2>1. asked' \in 0 .. MaxRequests
    BY <1>1, <1>9, BoundsAssumption DEF Call
  <2>2. PICK new : /\ calls' = calls \cup {new}
                   /\ new.kind = kind /\ new.dir = d /\ new.type = type /\ new.node = n
                   /\ new.got = None /\ new.id \in 1 .. MaxCalls
    BY <1>1, <1>9, CallFacts
  <2>3. IsFiniteSet(calls')
    BY <1>1, <2>2, FS_AddElement
  <2> HIDE DEF TypedRequest
  <2>4. TypedRequest(new)
    BY <1>9, <2>2 DEF TypedRequest
  <2> QED
    BY <1>1, <2>1, <2>2, <2>3, <2>4
<1> HIDE DEF Disk, Calls, Flags, View, Dialog, Transfer
<1>10. ASSUME NEW n \in Nodes, Select(n) \/ BeginRename(n) \/ AskDelete(n)
       PROVE  Disk' /\ Calls' /\ Flags' /\ View' /\ Dialog' /\ Transfer'
  <2>1. /\ SelectNode(n) /\ n \in Nodes \ {Root}
        /\ UNCHANGED <<disk, requestVars, readOnly, panel, tree, previous, dir,
                       deleting, operation>>
        /\ target' = target \/ target' = n
    BY <1>0, <1>10 DEF Select, BeginRename, AskDelete, OpenRowMenu, SelectNode
  <2>2. Flags' /\ View' /\ Dialog'
    BY <1>1, <2>1 DEF Flags, View, Dialog, SelectNode
  <2> QED
    BY <1>3, <1>4, <1>8, <2>1, <2>2
<1>11. ASSUME NEW d \in Nodes, OpenDirectory(d)
       PROVE  Disk' /\ Calls' /\ Flags' /\ View' /\ Dialog' /\ Transfer'
  <2>1. /\ Settle(tree, d, First(tree, d), First(tree, d), previous) /\ panel
        /\ UNCHANGED <<disk, requestVars, readOnly, panel, target, deleting, operation>>
        /\ strayed' = FALSE
        /\ d \in Folders \cap (Children(tree, dir) \cup Path(tree, dir))
    BY <1>11 DEF OpenDirectory, UserActs
  <2>2. Rooted(tree) /\ Rooted(previous) /\ dir \in DOMAIN tree
    BY <1>1, <2>1 DEF View
  <2>3. d \in Folders \cap DOMAIN tree
    BY <2>1, <2>2, PathFacts DEF Children
  <2>4. First(tree, d) \in Nodes \cup {None}
    BY <2>2, FirstFacts DEF Rooted, Children
  <2>5. View'
    BY <2>1, <2>2, <2>3, <2>4, SettleTyped DEF View
  <2>6. Flags'
    BY <1>1, <2>1 DEF Flags
  <2> QED
    BY <1>3, <1>4, <1>7, <1>8, <2>1, <2>5, <2>6
<1>12. ASSUME NEW type, BeginCreate(type)
       PROVE  Disk' /\ Calls' /\ Flags' /\ View' /\ Dialog' /\ Transfer'
  BY <1>3, <1>4, <1>5, <1>6, <1>7, <1>8, <1>12 DEF BeginCreate
<1>13. CASE CancelEdit
  BY <1>3, <1>4, <1>5, <1>6, <1>7, <1>8, <1>13 DEF CancelEdit
<1>14. CASE CommitEdit
  <2>1. /\ edit # None /\ panel
        /\ Call(edit.kind, edit.type, edit.node, IF edit.kind = "create" THEN dir ELSE None)
        /\ UNCHANGED <<disk, tree, readOnly, panel, viewVars, target, deleting,
                       operation, strayed>>
    BY <1>14 DEF CommitEdit, InputShown, UserActs
  <2>2. /\ edit.kind \in Kinds \ {"delete", "upload"} /\ edit.type \in {"file", "folder"}
        /\ edit.node \in Nodes \cup {None}
    BY <2>1, EditFacts DEF Edits, Kinds
  <2>3. (IF edit.kind = "create" THEN dir ELSE None) \in Folders \cup {None}
    BY <1>1, <2>1 DEF View
  <2>4. Calls'
    <3> HIDE DEF requestVars, viewVars, taskVars
    <3> QED
      BY <1>9, <2>1, <2>2, <2>3
  <2> QED
    BY <1>3, <1>5, <1>6, <1>7, <1>8, <2>1, <2>4
<1>15. CASE CancelDelete
  <2>1. Dialog'
    BY <1>0, <1>1, <1>15 DEF CancelDelete, Dialog
  <2> QED
    BY <1>3, <1>4, <1>5, <1>6, <1>8, <1>15, <2>1 DEF CancelDelete
<1>16. CASE ConfirmDelete
  <2>1. /\ target # None /\ Call("delete", TypeOf(target), target, None) /\ deleting' = TRUE
        /\ UNCHANGED <<disk, tree, readOnly, panel, viewVars, target, operation, strayed>>
    BY <1>16 DEF ConfirmDelete
  <2>2. TypeOf(target) \in {"file", "folder"} /\ target \in Nodes /\ target # Root
        /\ "delete" \in Kinds /\ "delete" # "upload" /\ None \in Folders \cup {None}
    BY <1>1, <2>1 DEF TypeOf, Dialog, Kinds
  <2>3. Calls'
    BY <1>9, <2>1, <2>2
  <2>4. Dialog'
    BY <1>1, <2>1 DEF Dialog
  <2> QED
    BY <1>3, <1>5, <1>6, <1>8, <2>1, <2>3, <2>4
<1>17. CASE ChooseImage \/ RetryUpload
  <2>1. PICK d \in Folders : Upload(d)
    BY <1>1, <1>17 DEF ChooseImage, RetryUpload, UserActs, View, Transfer, NoOperation
  <2>2. /\ Call("upload", "file", None, d) /\ operation' = [dir |-> d, status |-> "pending"]
        /\ UNCHANGED <<disk, tree, readOnly, panel, viewVars, target, deleting, strayed>>
    BY <2>1 DEF Upload
  <2>3. Calls'
    <3>1. /\ "upload" \in Kinds /\ "upload" # "delete" /\ "file" \in {"file", "folder"}
          /\ None \in Nodes \cup {None} /\ d \in Folders \cup {None}
      BY DEF Kinds
    <3> QED
      BY <1>9, <2>2, <3>1
  <2>4. Transfer'
    BY <2>2 DEF Transfer
  <2> QED
    BY <1>3, <1>5, <1>6, <1>7, <2>2, <2>3, <2>4
<1>18. CASE ClosePanel
  <2>1. /\ panel' = FALSE /\ dir' = None /\ sel' = None /\ foc' = None /\ target' = None
        /\ deleting' = FALSE /\ operation' = NoOperation /\ strayed' = FALSE
        /\ UNCHANGED <<disk, fresh, tree, asked, readOnly>>
        /\ calls' = {[c EXCEPT !.here = FALSE] : c \in calls}
    BY <1>18 DEF ClosePanel
  <2>2. IsFiniteSet(calls')
    <3>1. [c \in calls |-> [c EXCEPT !.here = FALSE]] \in Surjection(calls, calls')
      BY <2>1, Fun_IsSurj, Zenon
    <3> QED
      BY <1>1, <3>1, FS_Surjection DEF Calls
  <2>3. \A e \in calls' : TypedRequest(e)
    BY <1>1, <1>18, CloseFacts DEF Calls, TypedRequest
  <2>4. Calls'
    BY <1>1, <2>1, <2>2, <2>3 DEF Calls
  <2>5. Disk' /\ Flags' /\ View' /\ Dialog' /\ Transfer'
    BY <1>0, <1>1, <2>1 DEF Disk, Flags, View, Dialog, Transfer
  <2> QED
    BY <2>4, <2>5
<1>19. CASE OpenPanel
  <2>1. /\ panel' /\ panel' = TRUE /\ previous' = tree /\ dir' = Root
        /\ foc' = First(tree, Root)
        /\ UNCHANGED <<disk, tree, requestVars, readOnly, sel, target, deleting, operation, strayed>>
    BY <1>19 DEF OpenPanel
  <2>2. Rooted(tree) /\ Root \in Folders /\ First(tree, Root) \in Nodes \cup {None}
    BY <1>1, FirstFacts, TreeAssumption DEF View, Rooted, Children
  <2>3. View' /\ Flags'
    BY <1>1, <2>1, <2>2 DEF View, Flags, Rooted
  <2> QED
    BY <1>3, <1>4, <1>7, <1>8, <2>1, <2>3
<1>20. ASSUME NEW c \in calls, Succeeds(c)
       PROVE  Disk' /\ Calls' /\ Flags' /\ View' /\ Dialog' /\ Transfer'
  <2>1. /\ c.got # None /\ calls' = calls \ {c} /\ tree' = c.got
        /\ UNCHANGED <<disk, fresh, asked, readOnly, panel>>
        /\ target' \in {None, target} /\ operation' \in {NoOperation, operation}
        /\ deleting' = (deleting /\ ~(c.here /\ c.kind = "delete"))
    BY <1>20 DEF Succeeds, Settle
  <2>2. TypedRequest(c) /\ Rooted(c.got)
    BY <1>1, <2>1 DEF Calls, TypedRequest
  <2>3. Disk' /\ Dialog' /\ Transfer'
    BY <1>0, <1>1, <2>1 DEF Disk, Dialog, Transfer
  <2>4. Calls'
    BY <1>1, <2>1, FS_RemoveElement DEF Calls
  <2>5. Flags'
    <3>1. strayed' = strayed \/ strayed' = (c.node \notin Children(c.got, dir'))
      BY <1>20 DEF Succeeds
    <3> QED
      BY <1>1, <2>1, <3>1 DEF Flags
  <2>6. View'
    <3>1. CASE ~panel
      BY <1>1, <1>20, <2>1, <2>2, <3>1 DEF Succeeds, View
    <3>2. CASE panel
      <4>1. PICK s \in Nodes \cup {None}, f \in Nodes \cup {None},
                 index \in {c.got, previous} : Settle(c.got, dir, s, f, index)
        BY <1>1, <1>20, <2>2, <3>2 DEF Succeeds, View, TypedRequest, IndexesRead
      <4>3. Rooted(index)
        BY <1>1, <2>2, <3>2 DEF View
      <4>2. dir \in Folders \cap DOMAIN tree
        BY <1>1, <3>2 DEF View
      <4> QED
        BY <2>1, <2>2, <3>2, <4>1, <4>2, <4>3, SettleTyped DEF View
    <3> QED
      BY <3>1, <3>2
  <2> QED
    BY <2>3, <2>4, <2>5, <2>6
<1>21. ASSUME NEW c \in calls, Fails(c)
       PROVE  Disk' /\ Calls' /\ Flags' /\ View' /\ Dialog' /\ Transfer'
  <2>1. /\ calls' = calls \ {c}
        /\ UNCHANGED <<tree, asked, readOnly, panel, viewVars, target, strayed>>
        /\ deleting' = (deleting /\ ~(c.here /\ c.kind = "delete"))
        /\ operation' = IF c.here /\ c.kind = "upload"
                        THEN [dir |-> c.dir, status |-> "error"] ELSE operation
    BY <1>21 DEF Fails
  <2>2. Calls'
    BY <1>1, <2>1, FS_RemoveElement DEF Calls
  <2>3. Disk'
    <3>1. ASSUME NEW n \in Nodes, Accepts(c, n), disk' = After(c, n) PROVE Rooted(disk')
      BY <3>1, AfterFollows DEF Follows
    <3> QED
      BY <1>1, <1>21, <3>1 DEF Fails, Disk
  <2>4. Flags' /\ Dialog'
    BY <1>1, <2>1 DEF Flags, Dialog
  <2>5. Transfer'
    <3>1. c.kind = "upload" => c.dir \in Folders
      BY <1>1 DEF Calls, TypedRequest
    <3> QED
      BY <1>1, <2>1, <3>1 DEF Transfer
  <2> QED
    BY <1>6, <2>1, <2>2, <2>3, <2>4, <2>5
<1>22. ASSUME NEW c \in calls, NEW n \in Nodes, NEW gone, gone # Root, Serve(c, n, gone)
       PROVE  Disk' /\ Calls' /\ Flags' /\ View' /\ Dialog' /\ Transfer'
  <2>1. Serve(c, n, gone)
    BY <1>22
  <2>2. /\ UNCHANGED <<tree, asked, readOnly, panel, viewVars, taskVars, strayed>>
        /\ c.kind = "delete" => n = c.node
    BY <2>1 DEF Serve, Accepts, Makes
  <2>3. Rooted(disk')
    BY <1>22, ServeFollows DEF Follows
  <2>4. PICK new : /\ calls' = (calls \ {c}) \cup {new}
                   /\ new.kind = c.kind /\ new.dir = c.dir /\ new.type = c.type
                   /\ new.id = c.id /\ new.node = n /\ new.got = disk'
    BY <2>1, ServeFacts
  <2>5. TypedRequest(new)
    BY <1>1, <2>2, <2>3, <2>4 DEF Calls, TypedRequest
  <2>6. IsFiniteSet(calls')
    BY <1>1, <2>4, FS_RemoveElement, FS_AddElement DEF Calls
  <2>7. Calls'
    BY <1>1, <2>2, <2>4, <2>5, <2>6 DEF Calls
  <2>8. Disk'
    BY <2>3 DEF Disk
  <2> QED
    BY <1>5, <1>6, <1>7, <1>8, <2>2, <2>7, <2>8
<1>23. CASE UNCHANGED vars
  BY <1>3, <1>4, <1>5, <1>6, <1>7, <1>8, <1>23 DEF vars
<1> QED
  BY <1>10, <1>11, <1>12, <1>13, <1>14, <1>15, <1>16, <1>17, <1>18, <1>19, <1>20, <1>21,
     <1>22, <1>23
  DEF Next, Answers

\* So they hold, and the trees agree, in every behaviour.
LEMMA TreesAlways == Spec => [](Shape /\ Typed /\ Agreement)
<1>1. Init => Shape /\ Typed /\ Agreement
  <2> SUFFICES ASSUME Init PROVE Shape /\ Typed /\ Agreement
    OBVIOUS
  <2>1. Rooted(Initial)
    BY TreeAssumption DEF Rooted
  <2>2. Shape
    BY TreeAssumption DEF Init, Shape
  <2>3. First(Initial, Root) \in Nodes \cup {None}
    BY <2>1, FirstFacts DEF Rooted, Children
  <2>4. 0 \in 0 .. MaxRequests /\ IsFiniteSet({})
    BY BoundsAssumption, FS_EmptySet
  <2>5. Typed
    BY <2>1, <2>3, <2>4, TreeAssumption DEF Init, Typed
  <2>6. Agreement
    BY DEF Init, Agreement, Trees
  <2> QED
    BY <2>2, <2>5, <2>6
<1>2. Shape /\ Typed /\ Agreement /\ [Next]_vars => (Shape /\ Typed /\ Agreement)'
  BY ShapeStep, TypedStep, AgreementStep
<1> QED
  BY <1>1, <1>2, PTL DEF Spec

\* The trees of the service, of the view and of the answers under way are
\* trees: for any number of directories, requests and deletions by others, no
\* node is left without its directory (DeleteDirectory cascades). The directory
\* shown is one of the tree shown, after any refresh (the effect of FileTree).
THEOREM TypeCorrect == Spec => []TypeOK
<1>1. Shape /\ Typed => TypeOK
  <2> SUFFICES ASSUME Shape, Typed PROVE TypeOK
    OBVIOUS
  <2>1. IsTree(disk) /\ IsTree(tree)
    BY RootedIsTree DEF Typed
  <2>2. \A c \in calls : /\ c.kind \in Kinds /\ c.here \in BOOLEAN /\ TypedRequest(c)
                         /\ c.got = None \/ IsTree(c.got)
    BY RequestFacts, RootedIsTree DEF Shape, Typed, TypedRequest
  <2> QED
    BY <2>1, <2>2 DEF TypeOK, Typed, TypedRequest, Shape, Kinds
<1> QED
  BY <1>1, TreesAlways, PTL

\* Every tree the panel is shown, waits for or has drawn agrees with the files
\* of the project on where a node is (as long as both have it): a view may be
\* late, never wrong. It is what FileTree's refresh rests on.
THEOREM TreesAgree == Spec => []Agreement
BY TreesAlways, PTL

\* A new tree leaves the panel in its directory, at the place that had; if that
\* is gone, at its nearest ancestor that survives or at the first root: for trees
\* of any depth, any number of refreshes between, and whichever index the
\* updater of FileTree's effect reads.
THEOREM PathCorrect == Spec => StaysOnItsPath
<1>1. ASSUME Shape, Typed, Agreement, Typed', Agreement', [Next]_vars,
             panel, panel' = panel, tree' # tree
      PROVE  \/ Path(tree', dir') = Path(tree, dir) \cap DOMAIN tree'
             \/ dir \notin DOMAIN tree' /\ dir' = Root
  <2>1. PICK c \in calls : Succeeds(c)
    <3> USE DEF viewVars, taskVars, requestVars
    <3>1. ASSUME NEW n, Select(n) \/ OpenDirectory(n) \/ BeginRename(n) \/ AskDelete(n)
          PROVE  FALSE
      BY <1>1, <3>1 DEF Select, OpenDirectory, BeginRename, AskDelete, Settle
    <3>2. ASSUME NEW type, BeginCreate(type) PROVE FALSE
      BY <1>1, <3>2 DEF BeginCreate
    <3>3. ~(CancelEdit \/ CommitEdit \/ CancelDelete \/ ConfirmDelete)
      BY <1>1 DEF CancelEdit, CommitEdit, CancelDelete, ConfirmDelete
    <3>4. ~(ChooseImage \/ RetryUpload \/ ClosePanel \/ OpenPanel \/ UNCHANGED vars)
      BY <1>1 DEF ChooseImage, RetryUpload, Upload, ClosePanel, OpenPanel, vars
    <3>5. ASSUME NEW c, Fails(c) PROVE FALSE
      BY <1>1, <3>5 DEF Fails
    <3>6. ASSUME NEW c, NEW n, NEW gone, Serve(c, n, gone) PROVE FALSE
      BY <1>1, <3>6 DEF Serve
    <3> QED
      BY <1>1, <3>1, <3>2, <3>3, <3>4, <3>5, <3>6 DEF Next, Answers
  <2>2. Rooted(tree) /\ Rooted(tree') /\ previous = tree /\ dir \in Folders \cap DOMAIN tree
    BY <1>1 DEF Typed
  <2>3. PICK index \in {tree, tree'} : dir' = Surviving(tree', dir, index)
    BY <1>1, <2>1, <2>2 DEF Succeeds, Settle, IndexesRead
  <2>4. /\ dir' \in Folders \cap DOMAIN tree'
        /\ dir \in DOMAIN tree' => dir' = dir
    BY <2>2, <2>3, SurvivingFacts
  <2>5. \A n \in DOMAIN tree \cap DOMAIN tree' : tree[n] = tree'[n]
    <3>1. c.got # None /\ tree' = c.got
      BY <1>1, <2>1 DEF Succeeds, Settle
    <3> QED
      BY <1>1, <3>1 DEF Agreement, Trees
  <2>6. CASE dir \in DOMAIN tree'
    <3>1. Path(tree, dir) = Path(tree', dir)
      BY <2>2, <2>5, <2>6, PathsAgree
    <3>2. Path(tree', dir) \subseteq DOMAIN tree'
      BY <2>2, <2>6, PathFacts
    <3> QED
      BY <2>4, <2>6, <3>1, <3>2
  <2>7. CASE dir \notin DOMAIN tree' /\ index = tree'
    BY <2>2, <2>3, <2>7, SurvivingFacts
  <2>8. CASE index = tree
    <3>1. /\ dir' \in Path(tree, dir)
          /\ Path(tree, dir) \cap DOMAIN tree' \subseteq Path(tree, dir')
      BY <2>2, <2>3, <2>8, SurvivingFacts
    <3>2. dir' \in DOMAIN tree /\ Path(tree, dir') \subseteq Path(tree, dir)
      BY <2>2, <3>1, PathFacts, PathTransitive
    <3>3. Path(tree, dir') = Path(tree', dir')
      BY <2>2, <2>4, <2>5, <3>2, PathsAgree
    <3>4. Path(tree', dir') \subseteq DOMAIN tree'
      BY <2>2, <2>4, PathFacts
    <3> QED
      BY <3>1, <3>2, <3>3, <3>4
  <2> QED
    BY <2>3, <2>6, <2>7, <2>8
<1>2. (Shape /\ Typed /\ Agreement) /\ (Shape /\ Typed /\ Agreement)' /\ [Next]_vars =>
        [panel /\ panel' = panel /\ tree' # tree =>
            \/ Path(tree', dir') = Path(tree, dir) \cap DOMAIN tree'
            \/ dir \notin DOMAIN tree' /\ dir' = Root]_vars
  BY <1>1
<1> QED
  BY <1>2, TreesAlways, PTL DEF Spec, StaysOnItsPath
=============================================================================

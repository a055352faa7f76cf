------------------------- MODULE EditorFiles_proofs -------------------------
(***************************************************************************)
(* Theorems about EditorFiles for any number of files and texts, and any   *)
(* number of downloads and tree mutations that overlap.                    *)
(***************************************************************************)
EXTENDS EditorFiles, SequenceTheorems, TLAPS

-----------------------------------------------------------------------------
(***************************************************************************)
(* What opening and closing a tab does to the tabs.                        *)
(***************************************************************************)

\* Removing the k-th tab keeps the order of the others.
LEMMA WithoutIs ==
    ASSUME TypeTabs, NEW k \in DOMAIN tabs
    PROVE  /\ Without(k) \in Seq(Files)
           /\ Len(Without(k)) = Len(tabs) - 1
           /\ \A i \in 1 .. Len(tabs) - 1 :
                Without(k)[i] = IF i < k THEN tabs[i] ELSE tabs[i + 1]
<1>1. Len(tabs) \in Nat /\ Len(tabs) - 1 \in Nat /\ k \in 1 .. Len(tabs)
  BY DEF TypeTabs
<1>2. \A i \in 1 .. Len(tabs) - 1 :
        (IF i < k THEN tabs[i] ELSE tabs[i + 1]) \in Files
  BY <1>1 DEF TypeTabs
<1>3. Without(k) \in [1 .. Len(tabs) - 1 -> Files]
  BY <1>2 DEF Without
<1>4. Without(k) \in Seq(Files)
  BY <1>1, <1>3, IsASeq
<1>5. Len(Without(k)) = Len(tabs) - 1
  BY <1>1, <1>3, <1>4
<1> QED
  BY <1>4, <1>5 DEF Without

\* A list without repetitions loses exactly the tab that is removed.
LEMMA WithoutOpen ==
    ASSUME TypeTabs, OneActiveTab, NEW k \in DOMAIN tabs
    PROVE  /\ {Without(k)[i] : i \in DOMAIN Without(k)} = Open \ {tabs[k]}
           /\ \A i, j \in DOMAIN Without(k) :
                Without(k)[i] = Without(k)[j] => i = j
<1> DEFINE w == Without(k)
<1>1. w \in Seq(Files) /\ DOMAIN w = 1 .. Len(tabs) - 1
  BY WithoutIs
<1>2. \A i \in DOMAIN w : w[i] = IF i < k THEN tabs[i] ELSE tabs[i + 1]
  BY <1>1, WithoutIs
<1>3. Len(tabs) \in Nat /\ DOMAIN tabs = 1 .. Len(tabs) /\ k \in 1 .. Len(tabs)
  BY DEF TypeTabs
<1>4. \A i, j \in DOMAIN tabs : tabs[i] = tabs[j] => i = j
  BY DEF OneActiveTab
<1> HIDE DEF w
<1>5. ASSUME NEW i \in DOMAIN w PROVE w[i] \in Open \ {tabs[k]}
  <2>1. CASE i < k
    BY <1>1, <1>2, <1>3, <1>4, <2>1 DEF Open
  <2>2. CASE ~(i < k)
    <3>1. i + 1 \in DOMAIN tabs /\ i + 1 # k /\ w[i] = tabs[i + 1]
      BY <1>1, <1>2, <1>3, <2>2
    <3> QED
      BY <1>3, <1>4, <3>1 DEF Open
  <2> QED
    BY <2>1, <2>2
<1>6. ASSUME NEW g \in Open, g # tabs[k] PROVE \E i \in DOMAIN w : w[i] = g
  <2>1. PICK j \in DOMAIN tabs : tabs[j] = g
    BY DEF Open
  <2>2. CASE j < k
    <3>1. j \in DOMAIN w /\ w[j] = g
      BY <1>1, <1>2, <1>3, <2>1, <2>2
    <3> QED
      BY <3>1
  <2>3. CASE j > k
    <3>1. j - 1 \in DOMAIN w /\ ~(j - 1 < k) /\ (j - 1) + 1 = j
      BY <1>1, <1>3, <2>3
    <3>2. w[j - 1] = g
      BY <1>2, <2>1, <3>1
    <3> QED
      BY <3>1, <3>2
  <2> QED
    BY <1>3, <1>6, <2>1, <2>2, <2>3
<1>7. ASSUME NEW i \in DOMAIN w, NEW j \in DOMAIN w, w[i] = w[j] PROVE i = j
  <2> DEFINE at(n) == IF n < k THEN n ELSE n + 1
  <2>1. at(i) \in DOMAIN tabs /\ at(j) \in DOMAIN tabs
    BY <1>1, <1>3
  <2>2. w[i] = tabs[at(i)] /\ w[j] = tabs[at(j)]
    BY <1>2
  <2>3. at(i) = at(j)
    BY <1>4, <1>7, <2>1, <2>2
  <2> QED
    BY <1>1, <1>3, <2>3
<1> QED
  BY <1>5, <1>6, <1>7 DEF w

\* addTab opens the file once and shows it.
LEMMA AddTabOpens ==
    ASSUME TypeTabs, OneActiveTab, NEW f \in Files, AddTab(f)
    PROVE  TypeTabs' /\ OneActiveTab' /\ Open' = Open \cup {f}
<1>1. CASE f \in Open
  <2>1. tabs' = tabs /\ active' = f
    BY <1>1 DEF AddTab
  <2>2. tabs # <<>>
    BY <1>1 DEF Open
  <2>3. Open' = Open
    BY <2>1 DEF Open
  <2>4. TypeTabs' /\ OneActiveTab'
    BY <1>1, <2>1, <2>2, <2>3 DEF TypeTabs, OneActiveTab
  <2> QED
    BY <1>1, <2>3, <2>4
<1>2. CASE f \notin Open
  <2>1. tabs' = Append(tabs, f) /\ active' = f
    BY <1>2 DEF AddTab
  <2>2. /\ tabs' \in Seq(Files) /\ tabs' # <<>>
        /\ DOMAIN tabs = 1 .. Len(tabs) /\ Len(tabs) \in Nat
        /\ DOMAIN tabs' = 1 .. Len(tabs) + 1
        /\ tabs'[Len(tabs) + 1] = f
        /\ \A i \in DOMAIN tabs : tabs'[i] = tabs[i]
    BY <2>1 DEF TypeTabs
  <2>3. Open' = Open \cup {f}
    BY <2>2 DEF Open
  <2>4. \A i, j \in DOMAIN tabs' : tabs'[i] = tabs'[j] => i = j
    <3>1. \A i \in DOMAIN tabs : tabs[i] # f
      BY <1>2 DEF Open
    <3>2. \A i \in DOMAIN tabs' : i \in DOMAIN tabs \/ i = Len(tabs) + 1
      BY <2>2
    <3> QED
      BY <2>2, <3>1, <3>2 DEF OneActiveTab
  <2> QED
    BY <2>1, <2>2, <2>3, <2>4 DEF TypeTabs, OneActiveTab
<1> QED
  BY <1>1, <1>2

\* handleTabClose removes the tab of the file, if any, and shows another.
LEMMA CloseTabsCloses ==
    ASSUME TypeTabs, OneActiveTab, NEW f \in Files, CloseTabs(f)
    PROVE  TypeTabs' /\ OneActiveTab' /\ Open' = Open \ {f}
<1>1. CASE f \notin Open /\ UNCHANGED tabVars
  BY <1>1 DEF tabVars, TypeTabs, OneActiveTab, Open
<1>2. ASSUME NEW k \in DOMAIN tabs, tabs[k] = f, tabs' = Without(k),
             active' = IF active = f THEN Rightmost(Without(k)) ELSE active
      PROVE  TypeTabs' /\ OneActiveTab' /\ Open' = Open \ {f}
  <2>1. /\ tabs' \in Seq(Files)
        /\ Open' = Open \ {f}
        /\ \A i, j \in DOMAIN tabs' : tabs'[i] = tabs'[j] => i = j
    <3>1. Open' = {Without(k)[i] : i \in DOMAIN Without(k)}
      BY <1>2 DEF Open
    <3>2. Open' = Open \ {f}
      BY <1>2, <3>1, WithoutOpen
    <3>3. \A i, j \in DOMAIN tabs' : tabs'[i] = tabs'[j] => i = j
      BY <1>2, WithoutOpen
    <3>4. tabs' \in Seq(Files)
      BY <1>2, WithoutIs
    <3> QED
      BY <3>2, <3>3, <3>4
  <2>2. IF tabs' = <<>> THEN Open' = {} ELSE tabs'[Len(tabs')] \in Open'
    <3>1. CASE tabs' = <<>>
      BY <3>1 DEF Open
    <3>2. CASE tabs' # <<>>
      <4>1. Len(tabs') \in DOMAIN tabs'
        BY <2>1, <3>2
      <4> QED
        BY <3>2, <4>1 DEF Open
    <3> QED
      BY <3>1, <3>2
  <2>3. active \in Open
    <3>1. tabs # <<>>
      BY <1>2
    <3> QED
      BY <3>1 DEF OneActiveTab
  <2>4. IF tabs' = <<>> THEN active' = Missing ELSE active' \in Open'
    <3>1. CASE active = f
      BY <1>2, <2>2, <3>1 DEF Rightmost
    <3>2. CASE active # f
      BY <1>2, <2>1, <2>2, <2>3, <3>2
    <3> QED
      BY <3>1, <3>2
  <2>5. Open' \subseteq Files
    BY <2>1 DEF Open, TypeTabs
  <2> QED
    BY <2>1, <2>4, <2>5 DEF TypeTabs, OneActiveTab
<1> QED
  BY <1>1, <1>2 DEF CloseTabs

-----------------------------------------------------------------------------
(***************************************************************************)
(* The tabs.                                                               *)
(***************************************************************************)

\* An operation that goes on at its end is one of these.
LEMMA OpFiles ==
    ASSUME TypeRequests, NEW o \in ops, o.kind # "refresh" PROVE o.file \in Files
BY DEF TypeRequests, Mutation

\* A step opens or closes the tab of one file, selects an open tab, or leaves
\* the tabs alone.
LEMMA TabsStep ==
    ASSUME TypeOK, OneActiveTab, [Next]_vars
    PROVE  TypeTabs' /\ OneActiveTab'
<1>1. TypeTabs /\ TypeRequests
  BY DEF TypeOK
<1>2. ASSUME UNCHANGED tabVars PROVE TypeTabs' /\ OneActiveTab'
  BY <1>1, <1>2 DEF tabVars, TypeTabs, OneActiveTab, Open
<1>3. ASSUME NEW f \in Files, AddTab(f) PROVE TypeTabs' /\ OneActiveTab'
  BY <1>1, <1>3, AddTabOpens
<1>4. ASSUME NEW f \in Files, CloseTabs(f) PROVE TypeTabs' /\ OneActiveTab'
  BY <1>1, <1>4, CloseTabsCloses
<1>5. ASSUME NEW f \in Files, SelectTab(f) PROVE TypeTabs' /\ OneActiveTab'
  <2>1. tabs' = tabs /\ active' = f /\ f \in Open
    BY <1>5 DEF SelectTab
  <2>2. Open' = Open /\ tabs # <<>>
    BY <2>1 DEF Open
  <2> QED
    BY <1>1, <2>1, <2>2 DEF TypeTabs, OneActiveTab
<1>6. ASSUME NEW f \in Files, SelectNewFile(f) \/ CloseTab(f)
      PROVE  AddTab(f) \/ CloseTabs(f)
  BY <1>6 DEF SelectNewFile, CloseTab
<1>7. ASSUME NEW o \in ops, OpDone(o)
      PROVE  UNCHANGED tabVars \/ \E f \in Files : AddTab(f) \/ CloseTabs(f)
  BY <1>1, <1>7, OpFiles DEF OpDone, CreateDone, UploadDone, DeleteDone
<1>8. ASSUME NEW f \in Files,
             \/ Save(f)
             \/ \E t \in Text : Edit(f, t)
             \/ \E kind \in Kinds : BeginOp(kind, f)
      PROVE  UNCHANGED tabVars
  BY <1>8 DEF Save, Edit, BeginOp
<1>9. ASSUME \/ Load \/ LoadFails
             \/ \E s \in saves : SaveDone(s) \/ SaveFails(s)
             \/ \E l \in loads : LoadRejected(l)
             \/ \E l \in loads : \E content \in Text : LoadArrives(l, content)
             \/ \E o \in ops : TreeRead(o) \/ OpFails(o)
             \/ UNCHANGED vars
      PROVE  UNCHANGED tabVars
  BY <1>9 DEF Load, LoadFails, SaveDone, SaveFails, LoadRejected, LoadArrives,
              TreeRead, OpFails, vars
<1> QED
  BY <1>2, <1>3, <1>4, <1>5, <1>6, <1>7, <1>8, <1>9 DEF Next

-----------------------------------------------------------------------------
(***************************************************************************)
(* Types.                                                                  *)
(***************************************************************************)

\* The types hold at first.
LEMMA TypeInit == Init => TypeOK
<1> SUFFICES ASSUME Init PROVE TypeOK
  OBVIOUS
<1>1. TypeView
  <2>1. 0 \in 0 .. MaxOps
    BY ConstantsAssumption
  <2> QED
    BY <2>1, ConstantsAssumption DEF Init, TypeView
<1>2. TypeTabs
  BY DEF Init, TypeTabs
<1>3. TypeTexts
  BY DEF Init, TypeTexts, NoText, Content
<1>4. TypeRequests
  BY DEF Init, TypeRequests
<1> QED
  BY <1>1, <1>2, <1>3, <1>4 DEF TypeOK

\* The project, the tree and the flags of the view.
LEMMA TypeViewStep == ASSUME TypeOK, [Next]_vars PROVE TypeView'
<1>1. TypeView /\ TypeRequests
  BY DEF TypeOK
<1>2. ASSUME NEW f \in Files, NEW kind \in Kinds, BeginOp(kind, f) PROVE TypeView'
  <2>1. begun' \in 0 .. MaxOps
    BY <1>1, <1>2, ConstantsAssumption DEF BeginOp, TypeView
  <2> QED
    BY <1>1, <1>2, <2>1 DEF BeginOp, viewVars, TypeView
<1>3. ASSUME NEW o \in ops, OpDone(o) PROVE TypeView'
  <2>1. o.got \subseteq Files
    BY <1>1 DEF TypeRequests, Mutation
  <2> QED
    BY <1>1, <1>3, <2>1 DEF OpDone, serverVars, viewVars, historyVars, TypeView
<1>4. CASE Load
  BY <1>1, <1>4 DEF Load, serverVars, historyVars, TypeView
<1>5. ASSUME \/ LoadFails
             \/ \E s \in saves : SaveFails(s)
             \/ \E l \in loads : LoadRejected(l)
      PROVE  TypeView'
  BY <1>1, <1>5
  DEF LoadFails, SaveFails, LoadRejected, serverVars, historyVars, TypeView
<1>6. ASSUME NEW f \in Files,
             \/ SelectNewFile(f) \/ SelectTab(f) \/ CloseTab(f) \/ Save(f)
             \/ \E t \in Text : Edit(f, t)
      PROVE  UNCHANGED <<serverVars, viewVars, tree, historyVars>>
  BY <1>6 DEF SelectNewFile, SelectTab, CloseTab, Save, Edit
<1>7. ASSUME \/ \E s \in saves : SaveDone(s)
             \/ \E l \in loads : \E content \in Text : LoadArrives(l, content)
             \/ \E o \in ops : TreeRead(o) \/ OpFails(o)
             \/ UNCHANGED vars
      PROVE  UNCHANGED <<serverVars, viewVars, tree, historyVars>>
  BY <1>7 DEF SaveDone, LoadArrives, TreeRead, OpFails, vars
<1>8. ASSUME UNCHANGED <<serverVars, viewVars, tree, historyVars>> PROVE TypeView'
  BY <1>1, <1>8 DEF serverVars, viewVars, historyVars, TypeView
<1> QED
  BY <1>2, <1>3, <1>4, <1>5, <1>6, <1>7, <1>8 DEF Next

\* Contents, originals, dirty flags and sessions.
LEMMA TypeTextsStep == ASSUME TypeOK, [Next]_vars PROVE TypeTexts'
<1>1. TypeTexts /\ TypeRequests
  BY DEF TypeOK
<1>2. /\ Missing \in Content /\ Url \in Content /\ Text \subseteq Content
      /\ 0 \in Text
  BY ConstantsAssumption DEF Content, Text
<1>3. ASSUME NEW f \in Files, SelectNewFile(f) PROVE TypeTexts'
  BY <1>1, <1>2, <1>3 DEF SelectNewFile, OpenSession, TypeTexts
<1>4. ASSUME NEW f \in Files, CloseTab(f) PROVE TypeTexts'
  BY <1>1, <1>2, <1>4 DEF CloseTab, ClearContent, TypeTexts
<1>5. ASSUME NEW f \in Files, NEW t \in Text, Edit(f, t) PROVE TypeTexts'
  BY <1>1, <1>2, <1>5 DEF Edit, TypeTexts
<1>6. ASSUME NEW s \in saves, SaveDone(s) PROVE TypeTexts'
  <2>1. s.data \in Content
    BY <1>1 DEF TypeRequests, SaveRequest
  <2> QED
    BY <1>1, <1>6, <2>1 DEF SaveDone, MarkSaved, TypeTexts
<1>7. ASSUME NEW l \in loads, NEW content \in Text, LoadArrives(l, content)
      PROVE  TypeTexts'
  BY <1>1, <1>2, <1>7 DEF LoadArrives, TypeTexts
<1>8. ASSUME NEW o \in ops, OpDone(o) PROVE TypeTexts'
  <2>1. CASE o.kind = "create" /\ CreateDone(o)
    <3>1. o.file \in Files
      BY <1>1, <2>1, OpFiles
    <3> QED
      BY <1>1, <1>2, <2>1, <3>1 DEF CreateDone, OpenSession, TypeTexts
  <2>2. CASE o.kind = "upload" /\ UploadDone(o)
    BY <1>1, <1>2, <2>2 DEF UploadDone, TypeTexts
  <2>3. CASE o.kind = "delete" /\ DeleteDone(o)
    BY <1>1, <1>2, <2>3 DEF DeleteDone, ClearContent, TypeTexts
  <2>4. CASE UNCHANGED <<tabVars, textVars, sessions>>
    BY <1>1, <2>4 DEF textVars, TypeTexts
  <2> QED
    BY <1>8, <2>1, <2>2, <2>3, <2>4 DEF OpDone
<1>9. ASSUME NEW f \in Files,
             \/ SelectTab(f) \/ Save(f) \/ \E kind \in Kinds : BeginOp(kind, f)
      PROVE  UNCHANGED <<textVars, sessions>>
  BY <1>9 DEF SelectTab, Save, BeginOp
<1>10. ASSUME \/ Load \/ LoadFails
              \/ \E s \in saves : SaveFails(s)
              \/ \E l \in loads : LoadRejected(l)
              \/ \E o \in ops : TreeRead(o) \/ OpFails(o)
              \/ UNCHANGED vars
       PROVE  UNCHANGED <<textVars, sessions>>
  BY <1>10 DEF Load, LoadFails, SaveFails, LoadRejected, TreeRead, OpFails, vars
<1>11. ASSUME UNCHANGED <<textVars, sessions>> PROVE TypeTexts'
  BY <1>1, <1>11 DEF textVars, TypeTexts
<1> QED
  BY <1>3, <1>4, <1>5, <1>6, <1>7, <1>8, <1>9, <1>10, <1>11 DEF Next

\* The requests under way.
LEMMA TypeRequestsStep == ASSUME TypeOK, [Next]_vars PROVE TypeRequests'
<1>1. TypeView /\ TypeTexts /\ TypeRequests
  BY DEF TypeOK
<1>2. ASSUME NEW f \in Files, Save(f) PROVE TypeRequests'
  <2>1. Saved(f) \in Content
    BY <1>1 DEF Saved, TypeTexts, Content
  <2>2. [file |-> f, data |-> Saved(f), collab |-> f \in sessions] \in SaveRequest
    BY <2>1 DEF SaveRequest
  <2> QED
    BY <1>1, <1>2, <2>2 DEF Save, TypeRequests
<1>3. ASSUME NEW s \in saves, SaveDone(s) \/ SaveFails(s) PROVE TypeRequests'
  BY <1>1, <1>3 DEF SaveDone, SaveFails, TypeRequests
<1>4. ASSUME NEW f \in Files, SelectNewFile(f) PROVE TypeRequests'
  <2>1. loads' \subseteq Download
    <3>1. CASE UNCHANGED loads
      BY <1>1, <3>1 DEF TypeRequests
    <3>2. CASE StartLoad(f)
      <4>1. \A n \in 1 .. MaxLoads : [id |-> n, file |-> f] \in Download
        BY DEF Download
      <4> QED
        BY <1>1, <3>1, <3>2, <4>1 DEF StartLoad, TypeRequests
    <3> QED
      BY <1>4, <3>1, <3>2 DEF SelectNewFile
  <2> QED
    BY <1>1, <1>4, <2>1 DEF SelectNewFile, saveVars, TypeRequests
<1>5. ASSUME NEW l \in loads,
             LoadRejected(l) \/ \E content \in Text : LoadArrives(l, content)
      PROVE  TypeRequests'
  BY <1>1, <1>5 DEF LoadArrives, LoadRejected, saveVars, TypeRequests
<1>6. ASSUME NEW f \in Files, NEW kind \in Kinds, BeginOp(kind, f)
      PROVE  TypeRequests'
  <2>1. Pending(kind, f) \in Mutation
    BY DEF Pending, Mutation, Kinds
  <2> QED
    BY <1>1, <1>6, <2>1 DEF BeginOp, saveVars, TypeRequests
<1>7. ASSUME NEW o \in ops, TreeRead(o) PROVE TypeRequests'
  <2>1. [o EXCEPT !.step = "listed", !.got = rows] \in Mutation
    BY <1>1 DEF TypeView, TypeRequests, Mutation
  <2> QED
    BY <1>1, <1>7, <2>1 DEF TreeRead, saveVars, TypeRequests
<1>8. ASSUME NEW o \in ops, OpDone(o) \/ OpFails(o) PROVE TypeRequests'
  BY <1>1, <1>8 DEF OpDone, OpFails, saveVars, TypeRequests
<1>9. ASSUME NEW f \in Files,
             SelectTab(f) \/ CloseTab(f) \/ \E t \in Text : Edit(f, t)
      PROVE  UNCHANGED <<saveVars, loads, ops>>
  BY <1>9 DEF SelectTab, CloseTab, Edit
<1>10. ASSUME Load \/ LoadFails \/ UNCHANGED vars
       PROVE  UNCHANGED <<saveVars, loads, ops>>
  BY <1>10 DEF Load, LoadFails, vars
<1>11. ASSUME UNCHANGED <<saveVars, loads, ops>> PROVE TypeRequests'
  BY <1>1, <1>11 DEF saveVars, TypeRequests
<1> QED
  BY <1>2, <1>3, <1>4, <1>5, <1>6, <1>7, <1>8, <1>9, <1>10, <1>11 DEF Next

-----------------------------------------------------------------------------
(***************************************************************************)
(* The theorems.                                                           *)
(***************************************************************************)

\* The types of the variables, and with them, for any number of files and of
\* overlapping mutations: a file has at most one tab, and the editor shows an
\* open tab whenever there is one (useTabManager).
THEOREM TabsCorrect == Spec => [](TypeOK /\ OneActiveTab)
<1>1. Init => TypeOK /\ OneActiveTab
  <2>1. Init => OneActiveTab
    BY DEF Init, OneActiveTab
  <2> QED
    BY <2>1, TypeInit
<1>2. TypeOK /\ OneActiveTab /\ [Next]_vars => (TypeOK /\ OneActiveTab)'
  BY TabsStep, TypeViewStep, TypeTextsStep, TypeRequestsStep DEF TypeOK
<1> QED
  BY <1>1, <1>2, PTL DEF Spec

\* The types alone: among them, that what is saved is never a session.
THEOREM TypeCorrect == Spec => []TypeOK
<1>1. TypeOK /\ OneActiveTab => TypeOK
  OBVIOUS
<1> QED
  BY <1>1, TabsCorrect, PTL

\* Closing a tab or deleting its file cleans up after it, and whatever adds a
\* session or a dirty flag does so for an open tab.
LEMMA CleanupStep ==
    ASSUME TypeOK, OneActiveTab, NothingOutlivesItsTab, [Next]_vars
    PROVE  NothingOutlivesItsTab'
<1>1. TypeTabs /\ TypeTexts /\ TypeRequests
  BY DEF TypeOK
<1>2. ASSUME NEW f \in Files, AddTab(f),
             sessions' \subseteq sessions \cup {f}, unsaved' \subseteq unsaved \cup {f}
      PROVE  NothingOutlivesItsTab'
  BY <1>1, <1>2, AddTabOpens DEF NothingOutlivesItsTab
<1>3. ASSUME NEW f \in Files, CloseTabs(f),
             sessions' = sessions \ {f}, unsaved' = unsaved \ {f}
      PROVE  NothingOutlivesItsTab'
  BY <1>1, <1>3, CloseTabsCloses DEF NothingOutlivesItsTab
<1>4. ASSUME tabs' = tabs, sessions' = sessions,
             unsaved' \subseteq unsaved \cup Open
      PROVE  NothingOutlivesItsTab'
  BY <1>4 DEF NothingOutlivesItsTab, Open
<1>5. ASSUME NEW f \in Files, SelectNewFile(f) PROVE NothingOutlivesItsTab'
  BY <1>2, <1>5 DEF SelectNewFile, OpenSession
<1>6. ASSUME NEW f \in Files, CloseTab(f) PROVE NothingOutlivesItsTab'
  BY <1>3, <1>6 DEF CloseTab, ClearContent
<1>7. ASSUME NEW f \in Files, NEW t \in Text, Edit(f, t)
      PROVE  NothingOutlivesItsTab'
  \* The file edited is the active one, and the active one is open.
  <2>1. f \in Open
    BY <1>7, ConstantsAssumption DEF Edit, OneActiveTab
  <2> QED
    BY <1>4, <1>7, <2>1 DEF Edit, tabVars
<1>8. ASSUME NEW s \in saves, SaveDone(s) PROVE NothingOutlivesItsTab'
  BY <1>4, <1>8 DEF SaveDone, MarkSaved, tabVars
<1>9. ASSUME NEW o \in ops, OpDone(o) PROVE NothingOutlivesItsTab'
  <2>1. CASE o.kind = "create" /\ CreateDone(o)
    BY <1>1, <1>2, <2>1, OpFiles DEF CreateDone, OpenSession
  <2>2. CASE o.kind = "upload" /\ UploadDone(o)
    BY <1>1, <1>2, <2>2, OpFiles DEF UploadDone
  <2>3. CASE o.kind = "delete" /\ DeleteDone(o)
    BY <1>1, <1>3, <2>3, OpFiles DEF DeleteDone, ClearContent
  <2>4. CASE UNCHANGED <<tabVars, textVars, sessions>>
    BY <1>4, <2>4 DEF tabVars, textVars
  <2> QED
    BY <1>9, <2>1, <2>2, <2>3, <2>4 DEF OpDone
<1>10. ASSUME NEW f \in Files,
              \/ SelectTab(f) \/ Save(f) \/ \E kind \in Kinds : BeginOp(kind, f)
       PROVE  UNCHANGED <<tabs, unsaved, sessions>>
  BY <1>10 DEF SelectTab, Save, BeginOp, tabVars, textVars
<1>11. ASSUME \/ Load \/ LoadFails
              \/ \E s \in saves : SaveFails(s)
              \/ \E l \in loads : LoadRejected(l)
              \/ \E l \in loads : \E content \in Text : LoadArrives(l, content)
              \/ \E o \in ops : TreeRead(o) \/ OpFails(o)
              \/ UNCHANGED vars
       PROVE  UNCHANGED <<tabs, unsaved, sessions>>
  BY <1>11 DEF Load, LoadFails, SaveFails, LoadRejected, LoadArrives, TreeRead,
               OpFails, vars, tabVars, textVars
<1> QED
  BY <1>4, <1>5, <1>6, <1>7, <1>8, <1>9, <1>10, <1>11 DEF Next

\* No session stays connected and no file counts as unsaved without a tab,
\* however many creations, deletions and uploads overlap the closing of tabs
\* (handleTabCloseWithCleanup, handleDeleteItemAndClose).
THEOREM CleanupCorrect == Spec => []NothingOutlivesItsTab
<1>1. Init => NothingOutlivesItsTab
  BY DEF Init, NothingOutlivesItsTab
<1>2. TypeOK /\ OneActiveTab /\ NothingOutlivesItsTab /\ [Next]_vars
        => NothingOutlivesItsTab'
  BY CleanupStep
<1> QED
  BY <1>1, <1>2, TabsCorrect, PTL DEF Spec

\* isSaving is up exactly while one PUT of handleSaveFile is under way: two of
\* them never race, and no path leaves the guard up.
THEOREM SavesCorrect == Spec => []SavesDoNotOverlap
<1>1. Init => SavesDoNotOverlap
  BY DEF Init, SavesDoNotOverlap
<1>2. ASSUME SavesDoNotOverlap, [Next]_vars PROVE SavesDoNotOverlap'
  <2>1. ASSUME NEW f \in Files, Save(f) PROVE SavesDoNotOverlap'
    BY <1>2, <2>1 DEF Save, MaySave, SavesDoNotOverlap
  <2>2. ASSUME NEW s \in saves, SaveDone(s) \/ SaveFails(s)
        PROVE  SavesDoNotOverlap'
    BY <1>2, <2>2 DEF SaveDone, SaveFails, SavesDoNotOverlap
  <2>3. ASSUME NEW f \in Files,
               \/ SelectNewFile(f) \/ SelectTab(f) \/ CloseTab(f)
               \/ \E t \in Text : Edit(f, t)
               \/ \E kind \in Kinds : BeginOp(kind, f)
        PROVE  UNCHANGED saveVars
    BY <2>3 DEF SelectNewFile, SelectTab, CloseTab, Edit, BeginOp
  <2>4. ASSUME \/ Load \/ LoadFails
               \/ \E l \in loads : LoadRejected(l)
               \/ \E l \in loads : \E content \in Text : LoadArrives(l, content)
               \/ \E o \in ops : TreeRead(o) \/ OpDone(o) \/ OpFails(o)
               \/ UNCHANGED vars
        PROVE  UNCHANGED saveVars
    BY <2>4 DEF Load, LoadFails, LoadRejected, LoadArrives, TreeRead, OpDone,
                OpFails, vars
  <2>5. ASSUME UNCHANGED saveVars PROVE SavesDoNotOverlap'
    BY <1>2, <2>5 DEF saveVars, SavesDoNotOverlap
  <2> QED
    BY <1>2, <2>1, <2>2, <2>3, <2>4, <2>5 DEF Next
<1> QED
  BY <1>1, <1>2, PTL DEF Spec

=============================================================================

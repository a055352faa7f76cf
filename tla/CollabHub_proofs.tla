-------------------------- MODULE CollabHub_proofs --------------------------
(***************************************************************************)
(* Theorems about CollabHub for any number of connections, instances,      *)
(* updates and faults, and any channel capacity; and about CollabSerial,   *)
(* its behaviours without overtaking, which implement CollabDocument.      *)
(***************************************************************************)
EXTENDS CollabSerial, TLAPS

-----------------------------------------------------------------------------
(***************************************************************************)
(* Facts about the operators the actions are built from.                   *)
(***************************************************************************)

\* The elements of a log belong to the set its entries are drawn from.
LEMMA ElemsType ==
    ASSUME NEW S, NEW s \in Seq(S) PROVE Elems(s) \subseteq S
BY DEF Elems

\* Appending adds one element, concatenation those of the second log.
LEMMA ElemsAppend ==
    ASSUME NEW S, NEW s \in Seq(S), NEW x \in S
    PROVE  Elems(Append(s, x)) = Elems(s) \cup {x}
BY DEF Elems

\* A concatenation has the elements of both.
LEMMA ElemsConcat ==
    ASSUME NEW S, NEW s \in Seq(S), NEW t \in Seq(S)
    PROVE  Elems(s \o t) = Elems(s) \cup Elems(t)
<1>1. \A i \in 1 .. Len(s) : (s \o t)[i] = s[i]
  OBVIOUS
<1>2. \A i \in 1 .. Len(t) : (s \o t)[Len(s) + i] = t[i] /\ Len(s) + i \in 1 .. Len(s \o t)
  OBVIOUS
<1>3. \A i \in 1 .. Len(s \o t) :
        i \in 1 .. Len(s) \/ (i - Len(s) \in 1 .. Len(t) /\ (s \o t)[i] = t[i - Len(s)])
  OBVIOUS
<1> QED
  BY <1>1, <1>2, <1>3 DEF Elems

\* A seed is a sequence of messages.
LEMMA SeedMessagesType ==
    ASSUME TypeOK, NEW d \in Docs
    PROVE  SeedMessages(d) \in Seq(Message)
<1> DEFINE ups == [i \in 1 .. Len(seedUps[d]) |-> SyncMsg({seedUps[d][i]})]
           ins == [i \in 1 .. Len(updateLog[d]) |-> SyncMsg({updateLog[d][i]})]
           snap == IF seedSnap[d] = {} THEN <<>> ELSE <<SyncMsg(seedSnap[d])>>
<1>1. seedUps[d] \in Seq(Updates) /\ updateLog[d] \in Seq(Updates)
      /\ seedSnap[d] \in SUBSET Updates
  BY DEF TypeOK, TypeDocs, TypeSeeds
<1>2. \A S \in SUBSET Updates : SyncMsg(S) \in Message
  BY DEF SyncMsg, Message
<1>3. \A i \in 1 .. Len(seedUps[d]) : SyncMsg({seedUps[d][i]}) \in Message
  BY <1>1, <1>2
<1>3a. \A i \in 1 .. Len(updateLog[d]) : SyncMsg({updateLog[d][i]}) \in Message
  BY <1>1, <1>2
<1> HIDE DEF ups, ins
<1>4. ups \in Seq(Message)
  BY <1>1, <1>3 DEF ups
<1>4a. ins \in Seq(Message)
  BY <1>1, <1>3a DEF ins
<1>5. snap \in Seq(Message)
  BY <1>1, <1>2
<1> QED
  BY <1>4, <1>4a, <1>5 DEF SeedMessages, ups, ins

\* Stopping a timer leaves the goroutines well-formed.
LEMMA StoppedType ==
    ASSUME TypeOK, NEW d \in Docs
    PROVE  /\ Stopped(d) \in [Jobs -> JobPcs]
           /\ \A j \in Jobs : Stopped(d)[j] = "idle" <=> jpc[j] = "idle"
BY DEF TypeOK, TypeDocs, TypeJobs, Stopped, Jobs, JobPcs, None

\* GetOrCreate keeps the registry well-formed.
LEMMA GetOrCreateType ==
    ASSUME TypeHub, NEW d \in Docs, GetOrCreate(d) PROVE TypeHub'
BY ConstantsAssumption DEF TypeHub, GetOrCreate, hubVars, Docs, None

\* Each part of the type invariant depends on one group of variables.
LEMMA TypeFrame ==
    /\ TypeHub /\ UNCHANGED hubVars => TypeHub'
    /\ TypeDocs /\ UNCHANGED docVars => TypeDocs'
    /\ TypeSeeds /\ UNCHANGED seedVars => TypeSeeds'
    /\ TypeConns /\ UNCHANGED connVars => TypeConns'
    /\ TypeChans /\ UNCHANGED chanVars => TypeChans'
    /\ TypeNet /\ UNCHANGED netVars => TypeNet'
    /\ TypeJobs /\ UNCHANGED jobVars => TypeJobs'
    /\ TypeStore /\ UNCHANGED storeVars => TypeStore'
    /\ TypeEnv /\ UNCHANGED envVars => TypeEnv'
BY DEF TypeHub, hubVars, TypeDocs, docVars, TypeSeeds, seedVars, TypeConns, connVars, TypeChans, chanVars, TypeNet, netVars, TypeJobs, jobVars, TypeStore, storeVars, TypeEnv, envVars

\* Every step preserves the type invariant.
LEMMA TypeStep == TypeOK /\ [Next]_vars => TypeOK'
<1> SUFFICES ASSUME TypeOK, [Next]_vars PROVE TypeOK'
  OBVIOUS
<1> USE ConstantsAssumption DEF Jobs
<1>0. /\ TypeHub /\ TypeDocs /\ TypeSeeds /\ TypeConns /\ TypeChans
      /\ TypeNet /\ TypeJobs /\ TypeStore /\ TypeEnv
  BY DEF TypeOK
<1>1. ASSUME NEW c \in Conns, Connect(c) PROVE TypeOK'
  <2>1. TypeHub'
    BY <1>0, <1>1, GetOrCreateType DEF Connect, TypeHub, hubVars
  <2>2. TypeConns'
    BY <1>0, <1>1 DEF Connect, TypeConns, ConnPcs, connVars
  <2>3. TypeNet'
    BY <1>0, <1>1 DEF Connect, TypeNet, netVars
  <2> QED
    BY <1>0, <1>1, <2>1, <2>2, <2>3, TypeFrame DEF TypeOK, Connect, hubVars, docVars, seedVars, connVars, chanVars, netVars, jobVars, storeVars, envVars
<1>2. ASSUME NEW c \in Conns, SeedClient(c) PROVE TypeOK'
  <2>1. TypeConns'
    BY <1>0, <1>2 DEF SeedClient, TypeConns, ConnPcs, connVars
  <2>2. TypeChans'
    <3> DEFINE ms == SeedMessages(at[c])
    <3>1. at[c] \in Docs
      BY <1>0, <1>2 DEF SeedClient, TypeConns
    <3>2. ms \in Seq(Message) /\ Len(ms) \in Nat
      BY <3>1, SeedMessagesType
    <3>3. SendCap < Len(ms) =>
            SubSeq(ms, 1, SendCap) \in Seq(Message) /\ Len(SubSeq(ms, 1, SendCap)) = SendCap
      BY <3>2
    <3>4. \/ Len(ms) <= SendCap /\ send' = [send EXCEPT ![c] = ms]
          \/ ~(Len(ms) <= SendCap) /\ send' = [send EXCEPT ![c] = SubSeq(ms, 1, SendCap)]
      BY <1>2 DEF SeedClient
    <3> HIDE DEF ms
    <3>5. PICK s \in Seq(Message) : Len(s) <= SendCap /\ send' = [send EXCEPT ![c] = s]
      <4>1. CASE Len(ms) <= SendCap
        BY <3>2, <3>4, <4>1
      <4>2. CASE ~(Len(ms) <= SendCap)
        <5>1. SendCap < Len(ms) /\ SendCap <= SendCap
          BY <3>2, <4>2
        <5> QED
          BY <3>3, <3>4, <4>2, <5>1
      <4> QED
        BY <4>1, <4>2
    <3> QED
      BY <1>0, <1>2, <3>5 DEF SeedClient, TypeChans
  <2> QED
    BY <1>0, <1>2, <2>1, <2>2, TypeFrame DEF TypeOK, SeedClient, hubVars, docVars, seedVars, connVars, chanVars, netVars, jobVars, storeVars, envVars
<1>3. ASSUME NEW c \in Conns, Join(c) PROVE TypeOK'
  <2>1. TypeDocs'
    BY <1>0, <1>3 DEF Join, TypeDocs, docVars
  <2>2. TypeConns'
    BY <1>0, <1>3 DEF Join, TypeConns, TypeDocs, ConnPcs, connVars
  <2> QED
    BY <1>0, <1>3, <2>1, <2>2, TypeFrame DEF TypeOK, Join, hubVars, docVars, seedVars, connVars, chanVars, netVars, jobVars, storeVars, envVars
<1>4. ASSUME NEW c \in Conns, Announce(c) PROVE TypeOK'
  <2>1. TypeConns'
    BY <1>0, <1>4 DEF Announce, TypeConns, ConnPcs, connVars
  <2>2. TypeChans'
    <3>1. Chatter("awareness") \in Message
      BY DEF Chatter, Message
    <3>2. send[c] \in Seq(Message) /\ Len(send[c]) < SendCap
      BY <1>0, <1>4 DEF Announce, TypeChans
    <3>3. /\ Append(send[c], Chatter("awareness")) \in Seq(Message)
          /\ Len(Append(send[c], Chatter("awareness"))) <= SendCap
      BY <3>1, <3>2
    <3> QED
      BY <1>0, <1>4, <3>3 DEF Announce, TypeChans
  <2> QED
    BY <1>0, <1>4, <2>1, <2>2, TypeFrame DEF TypeOK, Announce, hubVars, docVars, seedVars, connVars, chanVars, netVars, jobVars, storeVars, envVars
<1>5. ASSUME NEW c \in Conns, StartPumps(c) PROVE TypeOK'
  <2>1. TypeConns'
    BY <1>0, <1>5 DEF StartPumps, TypeConns, ConnPcs, connVars
  <2>2. TypeNet'
    BY <1>0, <1>5 DEF StartPumps, TypeNet, netVars
  <2> QED
    BY <1>0, <1>5, <2>1, <2>2, TypeFrame DEF TypeOK, StartPumps, hubVars, docVars, seedVars, connVars, chanVars, netVars, jobVars, storeVars, envVars
<1>6. ASSUME NEW c \in Conns, ReceiveUpdate(c) PROVE TypeOK'
  <2>1. TypeHub'
    BY <1>0, <1>6, GetOrCreateType DEF ReceiveUpdate, TypeHub, hubVars
  <2>2. TypeConns'
    BY <1>0, <1>6 DEF ReceiveUpdate, TypeConns, ConnPcs, connVars, SyncMsg, Message
  <2>3. TypeNet'
    BY <1>0, <1>6 DEF ReceiveUpdate, TypeNet, netVars
  <2>4. TypeEnv'
    BY <1>0, <1>6 DEF ReceiveUpdate, TypeEnv, envVars, Updates
  <2> QED
    BY <1>0, <1>6, <2>1, <2>2, <2>3, <2>4, TypeFrame DEF TypeOK, ReceiveUpdate, hubVars, docVars, seedVars, connVars, chanVars, netVars, jobVars, storeVars, envVars
<1>7. ASSUME NEW c \in Conns, NEW k \in {"awareness", "step1"}, ReceiveChatter(c, k) PROVE TypeOK'
  <2>1. TypeHub'
    BY <1>0, <1>7, GetOrCreateType DEF ReceiveChatter, TypeHub, hubVars
  <2>2. TypeConns'
    BY <1>0, <1>7 DEF ReceiveChatter, TypeConns, ConnPcs, connVars, Chatter, Message
  <2>3. TypeEnv'
    BY <1>0, <1>7 DEF ReceiveChatter, TypeEnv, envVars
  <2> QED
    BY <1>0, <1>7, <2>1, <2>2, <2>3, TypeFrame DEF TypeOK, ReceiveChatter, hubVars, docVars, seedVars, connVars, chanVars, netVars, jobVars, storeVars, envVars
<1>8. ASSUME NEW c \in Conns, CacheAwareness(c) PROVE TypeOK'
  <2>1. TypeDocs'
    BY <1>0, <1>8 DEF CacheAwareness, TypeDocs, docVars
  <2>2. TypeConns'
    BY <1>0, <1>8 DEF CacheAwareness, TypeConns, ConnPcs, connVars
  <2> QED
    BY <1>0, <1>8, <2>1, <2>2, TypeFrame DEF TypeOK, CacheAwareness, hubVars, docVars, seedVars, connVars, chanVars, netVars, jobVars, storeVars, envVars
<1>9. ASSUME NEW c \in Conns, AppendUpdate(c) PROVE TypeOK'
  <2>1. TypeDocs'
    BY <1>0, <1>9 DEF AppendUpdate, TypeDocs, TypeConns, docVars, Message
  <2>2. TypeConns'
    BY <1>0, <1>9 DEF AppendUpdate, TypeConns, ConnPcs, connVars
  <2> QED
    BY <1>0, <1>9, <2>1, <2>2, TypeFrame DEF TypeOK, AppendUpdate, hubVars, docVars, seedVars, connVars, chanVars, netVars, jobVars, storeVars, envVars
<1>10. ASSUME NEW c \in Conns, Broadcast(c) PROVE TypeOK'
  <2>1. TypeConns'
    BY <1>0, <1>10 DEF Broadcast, TypeConns, ConnPcs, connVars
  <2>2. TypeChans'
    BY <1>0, <1>10 DEF Broadcast, TypeChans, TypeConns, chanVars, Receivers
  <2> QED
    BY <1>0, <1>10, <2>1, <2>2, TypeFrame DEF TypeOK, Broadcast, hubVars, docVars, seedVars, connVars, chanVars, netVars, jobVars, storeVars, envVars
<1>11. ASSUME NEW c \in Conns, ScheduleUpload(c) PROVE TypeOK'
  <2>1. TypeDocs'
    BY <1>0, <1>11 DEF ScheduleUpload, TypeDocs, TypeConns, docVars, Message
  <2>2. TypeConns'
    BY <1>0, <1>11 DEF ScheduleUpload, TypeConns, ConnPcs, connVars
  <2>3. TypeJobs'
    <3>1. at[c] \in Docs
      BY <1>0, <1>11 DEF ScheduleUpload, TypeConns
    <3>2. PICK u \in Updates : /\ jpc' = [Stopped(at[c]) EXCEPT ![u] = "armed"]
                              /\ jdoc' = [jdoc EXCEPT ![u] = at[c]]
      BY <1>0, <1>11 DEF ScheduleUpload, TypeConns, Message
    <3>3. /\ Stopped(at[c]) \in [Jobs -> JobPcs]
          /\ \A j \in Jobs : Stopped(at[c])[j] = "idle" <=> jpc[j] = "idle"
      BY <3>1, StoppedType
    <3> QED
      BY <1>0, <1>11, <3>1, <3>2, <3>3 DEF ScheduleUpload, TypeJobs, JobPcs
  <2> QED
    BY <1>0, <1>11, <2>1, <2>2, <2>3, TypeFrame DEF TypeOK, ScheduleUpload, hubVars, docVars, seedVars, connVars, chanVars, netVars, jobVars, storeVars, envVars
<1>12. ASSUME NEW c \in Conns, LeaveLookup(c) PROVE TypeOK'
  <2>1. TypeHub'
    BY <1>0, <1>12, GetOrCreateType DEF LeaveLookup, TypeHub, hubVars
  <2>2. TypeConns'
    BY <1>0, <1>12 DEF LeaveLookup, TypeConns, ConnPcs, connVars
  <2> QED
    BY <1>0, <1>12, <2>1, <2>2, TypeFrame DEF TypeOK, LeaveLookup, hubVars, docVars, seedVars, connVars, chanVars, netVars, jobVars, storeVars, envVars
<1>13. ASSUME NEW c \in Conns, Unregister(c) PROVE TypeOK'
  <2>1. TypeDocs'
    <3>1. CASE c \in clients[at[c]]
      <4>1. at[c] \in Docs
        BY <1>0, <1>13 DEF Unregister, TypeConns
      <4>2. /\ clients' = [clients EXCEPT ![at[c]] = Remaining(at[c], c)]
            /\ awareness' = [awareness EXCEPT ![at[c]] = @ \ {c}]
            /\ timer' = [timer EXCEPT ![at[c]] = None]
            /\ UNCHANGED updateLog
        BY <1>13, <3>1 DEF Unregister
      <4>3. Remaining(at[c], c) \subseteq Conns
        BY <1>0, <4>1 DEF TypeDocs, Remaining
      <4> QED
        BY <1>0, <4>1, <4>2, <4>3 DEF TypeDocs
    <3>2. CASE c \notin clients[at[c]]
      BY <1>0, <1>13, <3>2 DEF Unregister, TypeDocs
    <3> QED
      BY <3>1, <3>2
  <2>2. TypeConns'
    BY <1>0, <1>13 DEF Unregister, TypeConns, ConnPcs, connVars
  <2>3. TypeChans'
    BY <1>0, <1>13 DEF Unregister, TypeChans, chanVars
  <2>4. TypeJobs'
    <3>1. at[c] \in Docs
      BY <1>0, <1>13 DEF Unregister, TypeConns
    <3>2. /\ Stopped(at[c]) \in [Jobs -> JobPcs]
          /\ \A j \in Jobs : Stopped(at[c])[j] = "idle" <=> jpc[j] = "idle"
      BY <3>1, StoppedType
    <3>3. \/ UNCHANGED <<jpc, jdoc>>
          \/ jpc' = Stopped(at[c]) /\ UNCHANGED jdoc
          \/ /\ jpc' = [Stopped(at[c]) EXCEPT ![c] = "upload"]
             /\ jdoc' = [jdoc EXCEPT ![c] = at[c]]
      BY <1>13 DEF Unregister
    <3> QED
      BY <1>0, <1>13, <3>1, <3>2, <3>3 DEF Unregister, TypeJobs, JobPcs
  <2> QED
    BY <1>0, <1>13, <2>1, <2>2, <2>3, <2>4, TypeFrame DEF TypeOK, Unregister, hubVars, docVars, seedVars, connVars, chanVars, netVars, jobVars, storeVars, envVars
<1>14. ASSUME NEW c \in Conns, PumpWrite(c) PROVE TypeOK'
  <2>1. TypeChans'
    BY <1>0, <1>14 DEF PumpWrite, TypeChans, chanVars
  <2>2. TypeNet'
    <3>1. send[c] \in Seq(Message) /\ send[c] # <<>>
      BY <1>0, <1>14 DEF PumpWrite, TypeChans
    <3>2. Head(send[c]) \in Message
      BY <3>1
    <3>3. Head(send[c]).ups \subseteq Updates
      BY <3>2 DEF Message
    <3>4. \/ recv' = [recv EXCEPT ![c] = @ \cup Head(send[c]).ups] /\ UNCHANGED pump
          \/ pump' = [pump EXCEPT ![c] = FALSE] /\ UNCHANGED recv
      BY <1>14 DEF PumpWrite
    <3>5. UNCHANGED sock
      BY <1>14 DEF PumpWrite
    <3>6. recv' \in [Conns -> SUBSET Updates]
      BY <1>0, <3>3, <3>4 DEF TypeNet
    <3>7. pump' \in [Conns -> BOOLEAN]
      BY <1>0, <3>4 DEF TypeNet
    <3> QED
      BY <1>0, <3>5, <3>6, <3>7 DEF TypeNet
  <2> QED
    BY <1>0, <1>14, <2>1, <2>2, TypeFrame DEF TypeOK, PumpWrite, hubVars, docVars, seedVars, connVars, chanVars, netVars, jobVars, storeVars, envVars
<1>15. ASSUME NEW c \in Conns, PumpExit(c) PROVE TypeOK'
  <2>1. TypeNet'
    BY <1>0, <1>15 DEF PumpExit, TypeNet, netVars
  <2> QED
    BY <1>0, <1>15, <2>1, TypeFrame DEF TypeOK, PumpExit, hubVars, docVars, seedVars, connVars, chanVars, netVars, jobVars, storeVars, envVars
<1>16. ASSUME NEW c \in Conns, Drop(c) PROVE TypeOK'
  <2>1. TypeNet'
    BY <1>0, <1>16 DEF Drop, TypeNet, netVars
  <2> QED
    BY <1>0, <1>16, <2>1, TypeFrame DEF TypeOK, Drop, hubVars, docVars, seedVars, connVars, chanVars, netVars, jobVars, storeVars, envVars
<1>17. ASSUME NEW d \in Docs, LoadSnapshot(d) PROVE TypeOK'
  <2>1. TypeSeeds'
    BY <1>0, <1>17 DEF LoadSnapshot, TypeSeeds, TypeStore, seedVars
  <2> QED
    BY <1>0, <1>17, <2>1, TypeFrame DEF TypeOK, LoadSnapshot, hubVars, docVars, seedVars, connVars, chanVars, netVars, jobVars, storeVars, envVars
<1>18. ASSUME NEW d \in Docs, LoadUploads(d) PROVE TypeOK'
  <2>1. TypeSeeds'
    BY <1>0, <1>18 DEF LoadUploads, TypeSeeds, TypeStore, seedVars
  <2> QED
    BY <1>0, <1>18, <2>1, TypeFrame DEF TypeOK, LoadUploads, hubVars, docVars, seedVars, connVars, chanVars, netVars, jobVars, storeVars, envVars
<1>19. ASSUME NEW u \in Updates, TimerFires(u) PROVE TypeOK'
  <2>1. TypeJobs'
    BY <1>0, <1>19 DEF TimerFires, TypeJobs, JobPcs, jobVars
  <2> QED
    BY <1>0, <1>19, <2>1, TypeFrame DEF TypeOK, TimerFires, hubVars, docVars, seedVars, connVars, chanVars, netVars, jobVars, storeVars, envVars
<1>20. ASSUME NEW j \in Jobs, BuildBlob(j) PROVE TypeOK'
  <2>1. TypeJobs'
    BY <1>0, <1>20 DEF BuildBlob, TypeJobs, TypeDocs, TypeSeeds, JobPcs, jobVars, Blob, AfterUpload
  <2> QED
    BY <1>0, <1>20, <2>1, TypeFrame DEF TypeOK, BuildBlob, hubVars, docVars, seedVars, connVars, chanVars, netVars, jobVars, storeVars, envVars
<1>21. ASSUME NEW j \in Jobs, Put(j) PROVE TypeOK'
  <2>1. TypeJobs'
    BY <1>0, <1>21 DEF Put, TypeJobs, JobPcs, jobVars, AfterUpload
  <2>2. TypeStore'
    BY <1>0, <1>21 DEF Put, TypeStore, TypeJobs, storeVars
  <2> QED
    BY <1>0, <1>21, <2>1, <2>2, TypeFrame DEF TypeOK, Put, hubVars, docVars, seedVars, connVars, chanVars, netVars, jobVars, storeVars, envVars
<1>22. ASSUME NEW j \in Jobs, ReadBase(j) PROVE TypeOK'
  <2>1. TypeJobs'
    BY <1>0, <1>22 DEF ReadBase, TypeJobs, TypeStore, JobPcs, jobVars
  <2> QED
    BY <1>0, <1>22, <2>1, TypeFrame DEF TypeOK, ReadBase, hubVars, docVars, seedVars, connVars, chanVars, netVars, jobVars, storeVars, envVars
<1>23. ASSUME NEW j \in Jobs, ReadRaw(j) PROVE TypeOK'
  <2>1. TypeJobs'
    BY <1>0, <1>23, ElemsType DEF ReadRaw, TypeJobs, TypeStore, JobPcs, jobVars, Merged
  <2> QED
    BY <1>0, <1>23, <2>1, TypeFrame DEF TypeOK, ReadRaw, hubVars, docVars, seedVars, connVars, chanVars, netVars, jobVars, storeVars, envVars
<1>24. ASSUME NEW j \in Jobs, WriteSnapshot(j) PROVE TypeOK'
  <2>1. TypeJobs'
    BY <1>0, <1>24 DEF WriteSnapshot, TypeJobs, JobPcs, jobVars
  <2>2. TypeStore'
    BY <1>0, <1>24 DEF WriteSnapshot, TypeStore, TypeJobs, storeVars
  <2> QED
    BY <1>0, <1>24, <2>1, <2>2, TypeFrame DEF TypeOK, WriteSnapshot, hubVars, docVars, seedVars, connVars, chanVars, netVars, jobVars, storeVars, envVars
<1>25. ASSUME NEW j \in Jobs, DeleteUploads(j) PROVE TypeOK'
  <2>1. TypeJobs'
    BY <1>0, <1>25 DEF DeleteUploads, TypeJobs, JobPcs, jobVars
  <2>2. TypeStore'
    BY <1>0, <1>25 DEF DeleteUploads, TypeStore, storeVars
  <2> QED
    BY <1>0, <1>25, <2>1, <2>2, TypeFrame DEF TypeOK, DeleteUploads, hubVars, docVars, seedVars, connVars, chanVars, netVars, jobVars, storeVars, envVars
<1>26. ASSUME NEW j \in Jobs, RemoveIfEmpty(j) PROVE TypeOK'
  <2>1. TypeHub'
    BY <1>0, <1>26 DEF RemoveIfEmpty, TypeHub, hubVars, None
  <2>2. TypeJobs'
    BY <1>0, <1>26 DEF RemoveIfEmpty, TypeJobs, JobPcs, jobVars
  <2> QED
    BY <1>0, <1>26, <2>1, <2>2, TypeFrame DEF TypeOK, RemoveIfEmpty, hubVars, docVars, seedVars, connVars, chanVars, netVars, jobVars, storeVars, envVars
<1>27. ASSUME NEW d \in Docs, LoadFails(d) PROVE TypeOK'
  <2>1. TypeSeeds'
    BY <1>0, <1>27 DEF LoadFails, TypeSeeds, seedVars
  <2>2. TypeEnv'
    BY <1>0, <1>27 DEF LoadFails, TypeEnv, envVars, Fault
  <2> QED
    BY <1>0, <1>27, <2>1, <2>2, TypeFrame DEF TypeOK, LoadFails, hubVars, docVars, seedVars, connVars, chanVars, netVars, jobVars, storeVars, envVars
<1>28. ASSUME NEW j \in Jobs, PutFails(j) PROVE TypeOK'
  <2>1. TypeJobs'
    BY <1>0, <1>28 DEF PutFails, TypeJobs, JobPcs, jobVars, AfterUpload
  <2>2. TypeEnv'
    BY <1>0, <1>28 DEF PutFails, TypeEnv, envVars, Fault
  <2> QED
    BY <1>0, <1>28, <2>1, <2>2, TypeFrame DEF TypeOK, PutFails, hubVars, docVars, seedVars, connVars, chanVars, netVars, jobVars, storeVars, envVars
<1>29. ASSUME NEW j \in Jobs, ReadBaseFails(j) PROVE TypeOK'
  <2>1. TypeJobs'
    BY <1>0, <1>29 DEF ReadBaseFails, TypeJobs, JobPcs, jobVars
  <2>2. TypeEnv'
    BY <1>0, <1>29 DEF ReadBaseFails, TypeEnv, envVars, Fault
  <2> QED
    BY <1>0, <1>29, <2>1, <2>2, TypeFrame DEF TypeOK, ReadBaseFails, hubVars, docVars, seedVars, connVars, chanVars, netVars, jobVars, storeVars, envVars
<1>30. ASSUME NEW j \in Jobs, CompactionFails(j) PROVE TypeOK'
  <2>1. TypeJobs'
    BY <1>0, <1>30 DEF CompactionFails, TypeJobs, JobPcs, jobVars
  <2>2. TypeEnv'
    BY <1>0, <1>30 DEF CompactionFails, TypeEnv, envVars, Fault
  <2> QED
    BY <1>0, <1>30, <2>1, <2>2, TypeFrame DEF TypeOK, CompactionFails, hubVars, docVars, seedVars, connVars, chanVars, netVars, jobVars, storeVars, envVars
<1>31. CASE Crash
  <2>1. TypeHub'
    BY <1>0, <1>31 DEF Crash, TypeHub, hubVars, None
  <2>2. TypeDocs'
    BY <1>0, <1>31 DEF Crash, TypeDocs, docVars, None
  <2>3. TypeConns'
    BY <1>0, <1>31 DEF Crash, TypeConns, ConnPcs, connVars
  <2>4. TypeChans'
    BY <1>0, <1>31 DEF Crash, TypeChans, chanVars
  <2>5. TypeNet'
    BY <1>0, <1>31 DEF Crash, TypeNet, netVars
  <2>6. TypeJobs'
    BY <1>0, <1>31 DEF Crash, TypeJobs, JobPcs, jobVars
  <2>7. TypeEnv'
    BY <1>0, <1>31 DEF Crash, TypeEnv, envVars, Fault
  <2> QED
    BY <1>0, <1>31, <2>1, <2>2, <2>3, <2>4, <2>5, <2>6, <2>7, TypeFrame DEF TypeOK, Crash, hubVars, docVars, seedVars, connVars, chanVars, netVars, jobVars, storeVars, envVars
<1>32. CASE UNCHANGED vars
  BY <1>0, <1>32, TypeFrame DEF TypeOK, vars
<1> QED
  BY <1>1, <1>2, <1>3, <1>4, <1>5, <1>6, <1>7, <1>8, <1>9, <1>10, <1>11, <1>12, <1>13, <1>14, <1>15, <1>16, <1>17, <1>18, <1>19, <1>20, <1>21, <1>22, <1>23, <1>24, <1>25, <1>26, <1>27, <1>28, <1>29, <1>30, <1>31, <1>32
  DEF Next, Register, HandleMessage, Leave, WritePump, Load, Upload, Compact, Faults

\* The initial state is well-typed.
LEMMA TypeInit == Init => TypeOK
<1> SUFFICES ASSUME Init PROVE TypeOK
  OBVIOUS
<1> USE ConstantsAssumption DEF Init
<1>1. TypeHub
  BY DEF TypeHub, None
<1>2. TypeDocs /\ TypeSeeds
  BY DEF TypeDocs, TypeSeeds
<1>3. TypeConns
  BY DEF TypeConns, ConnPcs, SyncMsg, Message
<1>4. TypeChans /\ TypeNet
  BY DEF TypeChans, TypeNet
<1>5. TypeJobs
  BY DEF TypeJobs, JobPcs
<1>6. TypeStore /\ TypeEnv
  BY DEF TypeStore, TypeEnv
<1> QED
  BY <1>1, <1>2, <1>3, <1>4, <1>5, <1>6 DEF TypeOK

\* The state of hub, connections, upload goroutines and store is always
\* well-formed: every goroutine past its lookup holds an instance, and no Send
\* channel holds more than its capacity, in hub.go and broadcast.go.
THEOREM TypeCorrect == Spec => []TypeOK
<1>1. Init => TypeOK
  BY TypeInit
<1>2. TypeOK /\ [Next]_vars => TypeOK'
  BY TypeStep
<1> QED
  BY <1>1, <1>2, PTL DEF Spec

-----------------------------------------------------------------------------
(***************************************************************************)
(* Closed channels. Membership is inductive: a connection joins an         *)
(* instance once, before it can close its channel; Unregister takes it out *)
(* of the only instance it is in when it closes the channel.               *)
(***************************************************************************)

\* A client is a member of one instance at most, from Join until
\* Unregister, and its channel is closed when it has left that instance.
Membership ==
    /\ \A d, e \in Docs : \A c \in clients[d] : c \in clients[e] => d = e
    /\ \A d \in Docs : \A c \in clients[d] :
        pc[c] \notin {"new", "load", "stuck", "join"} /\ ~closed[c]
    /\ \A c \in Conns : closed[c] => pc[c] = "gone"

\* Steps that leave members and closed channels alone and move a connection,
\* if any, past Join without ending it.
LEMMA MembershipFrame ==
    ASSUME TypeOK, Membership, UNCHANGED <<clients, closed>>,
           \A c \in Conns : pc'[c] = pc[c]
                \/ /\ pc[c] # "gone"
                   /\ pc'[c] \in {"new", "load", "stuck", "join"}
                        => pc[c] \in {"new", "load", "stuck", "join"}
    PROVE  Membership'
BY DEF TypeOK, TypeDocs, Membership

\* Every step preserves Membership.
LEMMA MembershipStep ==
    ASSUME TypeOK, Membership, [Next]_vars PROVE Membership'
<1> USE ConstantsAssumption
<1>0. pc \in [Conns -> ConnPcs] /\ clients \in [Docs -> SUBSET Conns]
      /\ closed \in [Conns -> BOOLEAN]
  BY DEF TypeOK, TypeConns, TypeDocs, TypeChans
<1>1. ASSUME NEW c \in Conns, Join(c) PROVE Membership'
  <2>1. at[c] \in Docs
    BY <1>1 DEF Join, TypeOK, TypeConns
  <2>2. /\ clients' = [clients EXCEPT ![at[c]] = @ \cup {c}]
        /\ pc' = [pc EXCEPT ![c] = "announce"]
        /\ pc[c] = "join"
        /\ closed' = closed
    BY <1>1 DEF Join, chanVars
  <2>3. \A d \in Docs : c \notin clients[d]
    BY <2>2 DEF Membership
  <2>4. ~closed[c]
    BY <2>2 DEF Membership
  <2> QED
    BY <1>0, <2>1, <2>2, <2>3, <2>4 DEF Membership
<1>2. ASSUME NEW c \in Conns, Unregister(c) PROVE Membership'
  <2>1. at[c] \in Docs
    BY <1>2 DEF Unregister, TypeOK, TypeConns
  <2>2. pc' = [pc EXCEPT ![c] = "gone"]
    BY <1>2 DEF Unregister
  <2>3. CASE c \in clients[at[c]]
    <3>1. /\ clients' = [clients EXCEPT ![at[c]] = clients[at[c]] \ {c}]
          /\ closed' = [closed EXCEPT ![c] = TRUE]
      BY <1>2, <2>3 DEF Unregister, Remaining
    <3>2. \A d \in Docs : c \notin clients'[d]
      BY <1>0, <2>1, <2>3, <3>1 DEF Membership
    <3> QED
      BY <1>0, <2>1, <2>2, <3>1, <3>2 DEF Membership
  <2>4. CASE c \notin clients[at[c]]
    <3>1. UNCHANGED <<clients, closed>>
      BY <1>2, <2>4 DEF Unregister
    <3> QED
      BY <1>0, <2>2, <3>1 DEF Membership
  <2> QED
    BY <2>3, <2>4
<1>3. CASE Crash
  BY <1>0, <1>3 DEF Crash, Membership
<1>4. ASSUME NEW c \in Conns,
             \/ Connect(c) \/ SeedClient(c) \/ Announce(c) \/ StartPumps(c)
             \/ HandleMessage(c) \/ LeaveLookup(c)
      PROVE  Membership'
  <2>1. UNCHANGED <<clients, closed>>
    BY <1>4 DEF Connect, SeedClient, Announce, StartPumps, HandleMessage, ReceiveUpdate, ReceiveChatter, CacheAwareness, AppendUpdate, Broadcast, ScheduleUpload, LeaveLookup, docVars, chanVars
  <2>2. pc[c] # "gone"
    BY <1>4 DEF Connect, SeedClient, Announce, StartPumps, HandleMessage, ReceiveUpdate, ReceiveChatter, CacheAwareness, AppendUpdate, Broadcast, ScheduleUpload, LeaveLookup
  <2>3. \A d \in Conns \ {c} : pc'[d] = pc[d]
    BY <1>0, <1>4 DEF Connect, SeedClient, Announce, StartPumps, HandleMessage, ReceiveUpdate, ReceiveChatter, CacheAwareness, AppendUpdate, Broadcast, ScheduleUpload, LeaveLookup
  <2>4. pc'[c] \in {"new", "load", "stuck", "join"}
          => pc[c] \in {"new", "load", "stuck", "join"}
    BY <1>0, <1>4 DEF Connect, SeedClient, Announce, StartPumps, HandleMessage, ReceiveUpdate, ReceiveChatter, CacheAwareness, AppendUpdate, Broadcast, ScheduleUpload, LeaveLookup
  <2> QED
    BY <2>1, <2>2, <2>3, <2>4, MembershipFrame
<1>5. CASE UNCHANGED <<clients, closed, pc>>
  BY <1>5, MembershipFrame
<1>6. ASSUME NEW c \in Conns, WritePump(c) \/ Drop(c)
      PROVE  UNCHANGED <<clients, closed, pc>>
  BY <1>6 DEF WritePump, PumpWrite, PumpExit, Drop, docVars, connVars, chanVars
<1>7. ASSUME NEW d \in Docs, Load(d) \/ LoadFails(d)
      PROVE  UNCHANGED <<clients, closed, pc>>
  BY <1>7 DEF Load, LoadSnapshot, LoadUploads, LoadFails, docVars, connVars, chanVars
<1>8. ASSUME NEW u \in Updates, TimerFires(u)
      PROVE  UNCHANGED <<clients, closed, pc>>
  BY <1>8 DEF TimerFires, docVars, connVars, chanVars
<1>9. ASSUME NEW j \in Jobs,
             \/ Upload(j) \/ Compact(j) \/ RemoveIfEmpty(j)
             \/ PutFails(j) \/ ReadBaseFails(j) \/ CompactionFails(j)
      PROVE  UNCHANGED <<clients, closed, pc>>
  BY <1>9 DEF Upload, BuildBlob, Put, Compact, ReadBase, ReadRaw, WriteSnapshot, DeleteUploads, RemoveIfEmpty, PutFails, ReadBaseFails, CompactionFails, docVars, connVars, chanVars
<1>10. CASE UNCHANGED vars
  BY <1>5, <1>10 DEF vars, docVars, connVars, chanVars
<1> QED
  BY <1>1, <1>2, <1>3, <1>4, <1>5, <1>6, <1>7, <1>8, <1>9, <1>10
  DEF Next, Register, Leave, Faults

\* A client is a member of one instance at most, never after its channel was
\* closed: what Register and Unregister of hub.go keep, although the instance
\* either finds may differ from the registered one.
THEOREM MembershipCorrect == Spec => []Membership
<1>1. Init => Membership
  BY DEF Init, Membership
<1>2. TypeOK /\ Membership /\ [Next]_vars => Membership'
  BY MembershipStep
<1> QED
  BY <1>1, <1>2, TypeCorrect, PTL DEF Spec

\* No goroutine ever sends on a closed Send channel, which would panic: not a
\* broadcast to the members of whatever instance it found, and not Register,
\* before or after it made its client a member.
THEOREM ChannelSafety == Spec => []NoSendOnClosedChannel
<1>1. Membership => NoSendOnClosedChannel
  BY DEF Membership, NoSendOnClosedChannel
<1> QED
  BY <1>1, MembershipCorrect, PTL

-----------------------------------------------------------------------------
(***************************************************************************)
(* Timers. A timer is armed together with the write of debounceTimer, and  *)
(* whoever overwrites debounceTimer has stopped the timer it referred to.  *)
(***************************************************************************)

\* After Stop, no timer of the instance is armed.
LEMMA StoppedTimers ==
    ASSUME TypeOK, ArmedTimerIsKnown, NEW d \in Docs, NEW u \in Updates,
           Stopped(d)[u] = "armed"
    PROVE  jpc[u] = "armed" /\ jdoc[u] # d
<1>1. jpc \in [Jobs -> JobPcs] /\ u \in Jobs /\ timer[d] \in Updates \cup {None}
  BY DEF TypeOK, TypeJobs, TypeDocs, Jobs
<1>2. jpc[u] = "armed"
  BY <1>1 DEF Stopped, Jobs, JobPcs, None
<1>3. ASSUME jdoc[u] = d PROVE FALSE
  <2>1. timer[d] = u
    BY <1>2, <1>3 DEF ArmedTimerIsKnown
  <2>2. u # None
    BY DEF Updates, None
  <2>3. Stopped(d) = [jpc EXCEPT ![u] = "stopped"]
    BY <1>2, <2>1, <2>2 DEF Stopped
  <2> QED
    BY <1>1, <2>3
<1> QED
  BY <1>2, <1>3

\* Steps that arm no timer and leave timers and their instances alone.
LEMMA TimerFrame ==
    ASSUME ArmedTimerIsKnown, UNCHANGED <<timer, jdoc>>,
           \A u \in Updates : jpc'[u] = "armed" => jpc[u] = "armed"
    PROVE  ArmedTimerIsKnown'
BY DEF ArmedTimerIsKnown

\* Every step preserves ArmedTimerIsKnown.
LEMMA TimerStep ==
    ASSUME TypeOK, ArmedTimerIsKnown, [Next]_vars PROVE ArmedTimerIsKnown'
<1>0. /\ jpc \in [Jobs -> JobPcs]
      /\ jdoc \in [Jobs -> Docs \cup {None}]
      /\ timer \in [Docs -> Updates \cup {None}]
  BY DEF TypeOK, TypeJobs, TypeDocs
<1>1. ASSUME NEW c \in Conns, ScheduleUpload(c) PROVE ArmedTimerIsKnown'
  <2>1. at[c] \in Docs
    BY <1>1 DEF ScheduleUpload, TypeOK, TypeConns
  <2>2. PICK u \in Updates : /\ timer' = [timer EXCEPT ![at[c]] = u]
                            /\ jpc' = [Stopped(at[c]) EXCEPT ![u] = "armed"]
                            /\ jdoc' = [jdoc EXCEPT ![u] = at[c]]
    BY <1>1 DEF ScheduleUpload, TypeOK, TypeConns, Message
  <2>3. Stopped(at[c]) \in [Jobs -> JobPcs]
    BY <2>1, StoppedType
  <2>4. ASSUME NEW v \in Updates, jpc'[v] = "armed", v # u
        PROVE  timer'[jdoc'[v]] = v
    <3>1. Stopped(at[c])[v] = "armed"
      BY <2>2, <2>3, <2>4 DEF Jobs
    <3>2. jpc[v] = "armed" /\ jdoc[v] # at[c]
      BY <2>1, <3>1, StoppedTimers
    <3>3. timer[jdoc[v]] = v /\ jdoc[v] \in Docs
      BY <3>2 DEF ArmedTimerIsKnown, TypeOK, TypeJobs, Jobs
    <3> QED
      BY <1>0, <2>2, <2>4, <3>2, <3>3 DEF Jobs
  <2>5. timer'[jdoc'[u]] = u
    BY <1>0, <2>1, <2>2 DEF Jobs
  <2> QED
    BY <2>4, <2>5 DEF ArmedTimerIsKnown
<1>2. ASSUME NEW c \in Conns, Unregister(c) PROVE ArmedTimerIsKnown'
  <2>1. at[c] \in Docs
    BY <1>2 DEF Unregister, TypeOK, TypeConns
  <2>2. CASE c \in clients[at[c]]
    <3>1. timer' = [timer EXCEPT ![at[c]] = None]
      BY <1>2, <2>2 DEF Unregister
    <3>2. \/ jpc' = Stopped(at[c]) /\ UNCHANGED jdoc
          \/ /\ jpc' = [Stopped(at[c]) EXCEPT ![c] = "upload"]
             /\ jdoc' = [jdoc EXCEPT ![c] = at[c]]
      BY <1>2, <2>2 DEF Unregister
    <3>3. Stopped(at[c]) \in [Jobs -> JobPcs]
      BY <2>1, StoppedType
    <3>4. ASSUME NEW v \in Updates, jpc'[v] = "armed"
          PROVE  timer'[jdoc'[v]] = v
      <4>1. v # c
        BY ConstantsAssumption DEF Updates
      <4>2. Stopped(at[c])[v] = "armed" /\ jdoc'[v] = jdoc[v]
        BY <1>0, <3>2, <3>3, <3>4, <4>1 DEF Jobs
      <4>3. jpc[v] = "armed" /\ jdoc[v] # at[c]
        BY <2>1, <4>2, StoppedTimers
      <4>4. timer[jdoc[v]] = v /\ jdoc[v] \in Docs
        BY <4>3 DEF ArmedTimerIsKnown, TypeOK, TypeJobs, Jobs
      <4> QED
        BY <1>0, <3>1, <4>2, <4>3, <4>4
    <3> QED
      BY <3>4 DEF ArmedTimerIsKnown
  <2>3. CASE c \notin clients[at[c]]
    <3>1. UNCHANGED <<timer, jdoc, jpc>>
      BY <1>2, <2>3 DEF Unregister
    <3> QED
      BY <3>1, TimerFrame
  <2> QED
    BY <2>2, <2>3
<1>3. CASE Crash
  <2>1. \A u \in Updates : jpc'[u] # "armed"
    BY <1>3 DEF Crash, Jobs
  <2> QED
    BY <2>1 DEF ArmedTimerIsKnown
<1>4. ASSUME NEW j \in Jobs,
             \/ Upload(j) \/ Compact(j) \/ RemoveIfEmpty(j)
             \/ PutFails(j) \/ ReadBaseFails(j) \/ CompactionFails(j)
             \/ j \in Updates /\ TimerFires(j)
      PROVE  ArmedTimerIsKnown'
  <2>1. UNCHANGED <<timer, jdoc>>
    BY <1>4 DEF Upload, BuildBlob, Put, Compact, ReadBase, ReadRaw, WriteSnapshot, DeleteUploads, RemoveIfEmpty, PutFails, ReadBaseFails, CompactionFails, TimerFires, docVars
  <2>2. PICK x \in JobPcs \ {"armed"} : jpc' = [jpc EXCEPT ![j] = x]
    BY <1>4 DEF Upload, BuildBlob, Put, Compact, ReadBase, ReadRaw, WriteSnapshot, DeleteUploads, RemoveIfEmpty, PutFails, ReadBaseFails, CompactionFails, TimerFires, AfterUpload, JobPcs
  <2>3. \A u \in Updates : jpc'[u] = "armed" => jpc[u] = "armed"
    BY <1>0, <2>2 DEF Jobs
  <2> QED
    BY <2>1, <2>3, TimerFrame
<1>5. CASE UNCHANGED <<timer, jdoc, jpc>>
  BY <1>5, TimerFrame
<1>6. ASSUME NEW c \in Conns,
             \/ Register(c) \/ ReceiveUpdate(c)
             \/ \E k \in {"awareness", "step1"} : ReceiveChatter(c, k)
             \/ CacheAwareness(c) \/ AppendUpdate(c) \/ Broadcast(c)
             \/ LeaveLookup(c) \/ WritePump(c) \/ Drop(c)
      PROVE  UNCHANGED <<timer, jdoc, jpc>>
  BY <1>6 DEF Register, Connect, SeedClient, Join, Announce, StartPumps, ReceiveUpdate, ReceiveChatter, CacheAwareness, AppendUpdate, Broadcast, LeaveLookup, WritePump, PumpWrite, PumpExit, Drop, docVars, jobVars
<1>7. ASSUME NEW d \in Docs, Load(d) \/ LoadFails(d)
      PROVE  UNCHANGED <<timer, jdoc, jpc>>
  BY <1>7 DEF Load, LoadSnapshot, LoadUploads, LoadFails, docVars, jobVars
<1>8. CASE UNCHANGED vars
  BY <1>5, <1>8 DEF vars, docVars, jobVars
<1> QED
  BY <1>1, <1>2, <1>3, <1>4, <1>5, <1>6, <1>7, <1>8
  DEF Next, HandleMessage, Leave, Faults, Jobs

\* Every armed debounce timer is the one its document's debounceTimer refers
\* to, so scheduleUpload and Unregister can stop it: no older timer is left
\* behind to upload out of turn.
THEOREM TimersKnown == Spec => []ArmedTimerIsKnown
<1>1. Init => ArmedTimerIsKnown
  BY DEF Init, ArmedTimerIsKnown, Jobs
<1>2. TypeOK /\ ArmedTimerIsKnown /\ [Next]_vars => ArmedTimerIsKnown'
  BY TimerStep
<1> QED
  BY <1>1, <1>2, TypeCorrect, PTL DEF Spec

-----------------------------------------------------------------------------
(***************************************************************************)
(* Viewers. ViewersCannotWrite speaks of the buckets and of what clients   *)
(* received; it is not inductive. It holds because HandleMessage lets only *)
(* a writer's update into a message, and everything an update passes       *)
(* through on its way - messages, channels, logs, seeds, upload buffers -  *)
(* holds updates of writers only.                                          *)
(***************************************************************************)

\* The messages that carry nothing but updates of writers.
WritersMessage == [kind : {"sync", "step1", "awareness"}, ups : SUBSET FromWriters]

CleanDocs == updateLog \in [Docs -> Seq(FromWriters)]
CleanSeeds ==
    /\ seedSnap \in [Docs -> SUBSET FromWriters]
    /\ seedUps \in [Docs -> Seq(FromWriters)]
CleanConns == msg \in [Conns -> WritersMessage]
CleanChans == send \in [Conns -> Seq(WritersMessage)]
CleanJobs ==
    /\ jbuf \in [Jobs -> Seq(FromWriters)]
    /\ jbase \in [Jobs -> SUBSET FromWriters]
CleanStore == snapshot \subseteq FromWriters /\ uploads \in Seq(FromWriters)

\* Besides what the hub sends it, a client has what it typed itself.
Own(c) == {u \in Updates : u <= Len(author) /\ author[u] = c}
CleanNet == \A c \in Conns : recv[c] \subseteq FromWriters \cup Own(c)

\* The inductive invariant.
OnlyFromWriters ==
    /\ CleanDocs /\ CleanSeeds /\ CleanConns /\ CleanChans /\ CleanJobs
    /\ CleanStore /\ CleanNet

\* A sequence over a set is one over any larger set.
LEMMA SeqMonotone ==
    ASSUME NEW S, NEW T, S \subseteq T PROVE Seq(S) \subseteq Seq(T)
<1> SUFFICES ASSUME NEW s \in Seq(S) PROVE s \in Seq(T)
  OBVIOUS
<1> QED
  OBVIOUS

\* The invariant is stronger than what it is for.
LEMMA OnlyFromWritersSuffices == OnlyFromWriters => ViewersCannotWrite
<1> SUFFICES ASSUME OnlyFromWriters PROVE ViewersCannotWrite
  OBVIOUS
<1>1. snapshot \cup Elems(uploads) \subseteq FromWriters
  BY ElemsType DEF OnlyFromWriters, CleanStore
<1>2. \A c \in Conns : \A u \in recv[c] :
        u \in FromWriters \/ (u <= Len(author) /\ author[u] = c)
  BY DEF OnlyFromWriters, CleanNet, Own
<1> QED
  BY <1>1, <1>2 DEF ViewersCannotWrite

\* Each part depends on one group of variables and on author.
LEMMA CleanFrame ==
    ASSUME UNCHANGED author
    PROVE  /\ FromWriters' = FromWriters /\ WritersMessage' = WritersMessage
           /\ \A c \in Conns : Own(c)' = Own(c)
           /\ CleanDocs /\ UNCHANGED updateLog => CleanDocs'
           /\ CleanSeeds /\ UNCHANGED seedVars => CleanSeeds'
           /\ CleanConns /\ UNCHANGED msg => CleanConns'
           /\ CleanChans /\ UNCHANGED send => CleanChans'
           /\ CleanJobs /\ UNCHANGED <<jbuf, jbase>> => CleanJobs'
           /\ CleanStore /\ UNCHANGED storeVars => CleanStore'
           /\ CleanNet /\ UNCHANGED recv => CleanNet'
<1>1. FromWriters' = FromWriters
  BY DEF FromWriters
<1>2. WritersMessage' = WritersMessage
  BY <1>1 DEF WritersMessage
<1>3. \A c \in Conns : Own(c)' = Own(c)
  BY DEF Own
<1> QED
  BY <1>1, <1>2, <1>3
  DEF CleanDocs, CleanSeeds, seedVars, CleanConns, CleanChans, CleanJobs,
      CleanStore, storeVars, CleanNet

\* A seed is a sequence of such messages.
LEMMA SeedMessagesClean ==
    ASSUME CleanDocs, CleanSeeds, NEW d \in Docs
    PROVE  SeedMessages(d) \in Seq(WritersMessage)
<1> DEFINE ups == [i \in 1 .. Len(seedUps[d]) |-> SyncMsg({seedUps[d][i]})]
           ins == [i \in 1 .. Len(updateLog[d]) |-> SyncMsg({updateLog[d][i]})]
           snap == IF seedSnap[d] = {} THEN <<>> ELSE <<SyncMsg(seedSnap[d])>>
<1>1. seedUps[d] \in Seq(FromWriters) /\ updateLog[d] \in Seq(FromWriters)
      /\ seedSnap[d] \in SUBSET FromWriters
  BY DEF CleanDocs, CleanSeeds
<1>2. \A S \in SUBSET FromWriters : SyncMsg(S) \in WritersMessage
  BY DEF SyncMsg, WritersMessage
<1>3. \A i \in 1 .. Len(seedUps[d]) : SyncMsg({seedUps[d][i]}) \in WritersMessage
  BY <1>1, <1>2
<1>4. \A i \in 1 .. Len(updateLog[d]) : SyncMsg({updateLog[d][i]}) \in WritersMessage
  BY <1>1, <1>2
<1> HIDE DEF ups, ins
<1>5. ups \in Seq(WritersMessage)
  BY <1>1, <1>3 DEF ups
<1>6. ins \in Seq(WritersMessage)
  BY <1>1, <1>4 DEF ins
<1>7. snap \in Seq(WritersMessage)
  BY <1>1, <1>2
<1> QED
  BY <1>5, <1>6, <1>7 DEF SeedMessages, ups, ins

\* A writer's new update is one of the updates of writers; a viewer's is not,
\* and goes into no message.
LEMMA CleanReceive ==
    ASSUME TypeOK, OnlyFromWriters, NEW c \in Conns, ReceiveUpdate(c)
    PROVE  OnlyFromWriters'
<1> DEFINE u == Len(author) + 1
<1>0. /\ author \in Seq(Conns) /\ u \in Updates
      /\ author' = Append(author, c)
  BY DEF TypeOK, TypeEnv, ReceiveUpdate
<1>1. /\ \A n \in Updates : n <= Len(author) => n <= Len(author') /\ author'[n] = author[n]
      /\ u <= Len(author') /\ author'[u] = c
  BY <1>0 DEF Updates
<1>2. FromWriters \subseteq FromWriters'
  BY <1>1 DEF FromWriters
<1>3. \A d \in Conns : Own(d) \subseteq Own(d)'
  BY <1>1 DEF Own
<1>4. u \in Own(c)'
  BY <1>0, <1>1 DEF Own
<1>5. WritersMessage \subseteq WritersMessage'
  BY <1>2 DEF WritersMessage
<1> HIDE DEF u
<1>6. Seq(FromWriters) \subseteq Seq(FromWriters')
  BY <1>2, SeqMonotone
<1>7. Seq(WritersMessage) \subseteq Seq(WritersMessage')
  BY <1>5, SeqMonotone
<1>8. CleanDocs' /\ CleanSeeds' /\ CleanJobs' /\ CleanStore'
  <2>1. UNCHANGED <<updateLog, seedSnap, seedUps, jbuf, jbase, snapshot, uploads>>
    BY DEF ReceiveUpdate, docVars, seedVars, jobVars, storeVars
  <2>2. CleanDocs'
    BY <1>6, <2>1 DEF OnlyFromWriters, CleanDocs
  <2>3. CleanSeeds'
    BY <1>2, <1>6, <2>1 DEF OnlyFromWriters, CleanSeeds
  <2>4. CleanJobs'
    BY <1>2, <1>6, <2>1 DEF OnlyFromWriters, CleanJobs
  <2>5. CleanStore'
    BY <1>2, <1>6, <2>1 DEF OnlyFromWriters, CleanStore
  <2> QED
    BY <2>2, <2>3, <2>4, <2>5
<1>9. CleanChans'
  BY <1>7 DEF OnlyFromWriters, CleanChans, ReceiveUpdate, chanVars
<1>10. CleanNet'
  <2>1. recv' = [recv EXCEPT ![c] = @ \cup {u}] /\ recv \in [Conns -> SUBSET Updates]
    BY DEF ReceiveUpdate, TypeOK, TypeNet, u
  <2>2. \A d \in Conns : recv[d] \subseteq FromWriters \cup Own(d)
    BY DEF OnlyFromWriters, CleanNet
  <2>3. ASSUME NEW d \in Conns PROVE recv'[d] \subseteq FromWriters' \cup Own(d)'
    <3>1. CASE d = c
      BY <1>2, <1>3, <1>4, <2>1, <2>2, <3>1
    <3>2. CASE d # c
      BY <1>2, <1>3, <2>1, <2>2, <3>2
    <3> QED
      BY <3>1, <3>2
  <2> QED
    BY <2>3 DEF CleanNet
<1>11. CleanConns'
  <2>1. msg \in [Conns -> WritersMessage']
    BY <1>5 DEF OnlyFromWriters, CleanConns
  <2>2. CASE c \in Writers
    <3>1. u \in FromWriters'
      BY <1>0, <1>1, <2>2 DEF FromWriters
    <3>2. SyncMsg({u}) \in WritersMessage'
      BY <3>1 DEF SyncMsg, WritersMessage
    <3>3. msg' = [msg EXCEPT ![c] = SyncMsg({u})]
      BY <2>2 DEF ReceiveUpdate, CanWrite, u
    <3> QED
      BY <2>1, <3>2, <3>3 DEF CleanConns
  <2>3. CASE c \notin Writers
    <3>1. msg' = msg
      BY <2>3 DEF ReceiveUpdate, CanWrite
    <3> QED
      BY <2>1, <3>1 DEF CleanConns
  <2> QED
    BY <2>2, <2>3
<1> QED
  BY <1>8, <1>9, <1>10, <1>11 DEF OnlyFromWriters

\* Every other step only moves updates about.
LEMMA CleanStep ==
    ASSUME TypeOK, OnlyFromWriters, [Next]_vars PROVE OnlyFromWriters'
<1> USE DEF Jobs
<1>0. /\ CleanDocs /\ CleanSeeds /\ CleanConns /\ CleanChans /\ CleanJobs
      /\ CleanStore /\ CleanNet
  BY DEF OnlyFromWriters
<1>1. ASSUME NEW c \in Conns, SeedClient(c) PROVE OnlyFromWriters'
  <2>1. UNCHANGED <<author, updateLog, seedVars, msg, jbuf, jbase, storeVars, recv>>
    BY <1>1 DEF SeedClient, docVars, netVars, jobVars, envVars
  <2>2. CleanChans'
    <3> DEFINE ms == SeedMessages(at[c])
    <3>1. at[c] \in Docs
      BY <1>1 DEF SeedClient, TypeOK, TypeConns
    <3>2. ms \in Seq(WritersMessage) /\ Len(ms) \in Nat /\ SendCap \in Nat
      BY <1>0, <3>1, SeedMessagesClean, ConstantsAssumption
    <3>3. SendCap < Len(ms) => SubSeq(ms, 1, SendCap) \in Seq(WritersMessage)
      BY <3>2
    <3>4. \/ Len(ms) <= SendCap /\ send' = [send EXCEPT ![c] = ms]
          \/ ~(Len(ms) <= SendCap) /\ send' = [send EXCEPT ![c] = SubSeq(ms, 1, SendCap)]
      BY <1>1 DEF SeedClient
    <3> HIDE DEF ms
    <3>5. PICK s \in Seq(WritersMessage) : send' = [send EXCEPT ![c] = s]
      <4>1. ~(Len(ms) <= SendCap) => SendCap < Len(ms)
        BY <3>2
      <4> QED
        BY <3>2, <3>3, <3>4, <4>1
    <3> QED
      BY <1>0, <2>1, <3>5, CleanFrame DEF CleanChans
  <2> QED
    BY <1>0, <2>1, <2>2, CleanFrame DEF OnlyFromWriters
<1>2. ASSUME NEW c \in Conns, Announce(c) PROVE OnlyFromWriters'
  <2>1. UNCHANGED <<author, updateLog, seedVars, msg, jbuf, jbase, storeVars, recv>>
    BY <1>2 DEF Announce, docVars, netVars, jobVars, envVars
  <2>2. Chatter("awareness") \in WritersMessage
    BY DEF Chatter, WritersMessage
  <2>3. CleanChans'
    <3>1. send[c] \in Seq(WritersMessage)
      BY <1>0 DEF CleanChans
    <3>2. Append(send[c], Chatter("awareness")) \in Seq(WritersMessage)
      BY <2>2, <3>1
    <3> QED
      BY <1>0, <1>2, <2>1, <3>2, CleanFrame DEF Announce, CleanChans
  <2> QED
    BY <1>0, <2>1, <2>3, CleanFrame DEF OnlyFromWriters
<1>3. ASSUME NEW c \in Conns, NEW k \in {"awareness", "step1"}, ReceiveChatter(c, k)
      PROVE  OnlyFromWriters'
  <2>1. UNCHANGED <<author, updateLog, seedVars, send, jbuf, jbase, storeVars, recv>>
    BY <1>3 DEF ReceiveChatter, docVars, chanVars, netVars, jobVars, envVars
  <2>2. Chatter(k) \in WritersMessage
    BY DEF Chatter, WritersMessage
  <2>3. CleanConns'
    BY <1>0, <1>3, <2>1, <2>2, CleanFrame DEF ReceiveChatter, CleanConns
  <2> QED
    BY <1>0, <2>1, <2>3, CleanFrame DEF OnlyFromWriters
<1>4. ASSUME NEW c \in Conns, AppendUpdate(c) PROVE OnlyFromWriters'
  <2>1. UNCHANGED <<author, seedVars, msg, send, jbuf, jbase, storeVars, recv>>
    BY <1>4 DEF AppendUpdate, chanVars, netVars, jobVars, envVars
  <2>2. PICK u \in msg[c].ups : updateLog' = [updateLog EXCEPT ![at[c]] = Append(@, u)]
    BY <1>4 DEF AppendUpdate
  <2>3. at[c] \in Docs /\ u \in FromWriters
    <3>1. msg[c] \in WritersMessage
      BY <1>0 DEF CleanConns
    <3> QED
      BY <1>4, <2>2, <3>1 DEF AppendUpdate, TypeOK, TypeConns, WritersMessage
  <2>4. Append(updateLog[at[c]], u) \in Seq(FromWriters)
    BY <1>0, <2>3 DEF CleanDocs
  <2>5. CleanDocs'
    BY <1>0, <2>1, <2>2, <2>4, CleanFrame DEF CleanDocs
  <2> QED
    BY <1>0, <2>1, <2>5, CleanFrame DEF OnlyFromWriters
<1>5. ASSUME NEW c \in Conns, Broadcast(c) PROVE OnlyFromWriters'
  <2>1. UNCHANGED <<author, updateLog, seedVars, msg, jbuf, jbase, storeVars, recv>>
    BY <1>5 DEF Broadcast, docVars, netVars, jobVars, envVars
  <2>2. msg[c] \in WritersMessage
    BY <1>0 DEF CleanConns
  <2>3. \A p \in Conns : send[p] \in Seq(WritersMessage)
                      /\ Append(send[p], msg[c]) \in Seq(WritersMessage)
    BY <1>0, <2>2 DEF CleanChans
  <2>4. CleanChans'
    BY <1>5, <2>1, <2>3, CleanFrame DEF Broadcast, CleanChans
  <2> QED
    BY <1>0, <2>1, <2>4, CleanFrame DEF OnlyFromWriters
<1>6. ASSUME NEW c \in Conns, PumpWrite(c) PROVE OnlyFromWriters'
  <2>1. UNCHANGED <<author, updateLog, seedVars, msg, jbuf, jbase, storeVars>>
    BY <1>6 DEF PumpWrite, docVars, connVars, jobVars, envVars
  <2>2. send[c] \in Seq(WritersMessage) /\ send[c] # <<>>
    BY <1>0, <1>6 DEF CleanChans, PumpWrite
  <2>3. Tail(send[c]) \in Seq(WritersMessage) /\ Head(send[c]) \in WritersMessage
    BY <2>2
  <2>4. CleanChans'
    BY <1>0, <1>6, <2>1, <2>3, CleanFrame DEF PumpWrite, CleanChans
  <2>5. CleanNet'
    <3>1. CASE sock[c]
      <4>1. Head(send[c]).ups \subseteq FromWriters
        BY <2>3 DEF WritersMessage
      <4>2. recv' = [recv EXCEPT ![c] = @ \cup Head(send[c]).ups]
        BY <1>6, <3>1 DEF PumpWrite
      <4>3. ASSUME NEW d \in Conns PROVE recv'[d] \subseteq FromWriters \cup Own(d)
        BY <1>0, <4>1, <4>2 DEF CleanNet, TypeOK, TypeNet
      <4> QED
        BY <2>1, <4>3, CleanFrame DEF CleanNet
    <3>2. CASE ~sock[c]
      BY <1>0, <1>6, <2>1, <3>2, CleanFrame DEF PumpWrite
    <3> QED
      BY <3>1, <3>2
  <2> QED
    BY <1>0, <2>1, <2>4, <2>5, CleanFrame DEF OnlyFromWriters
<1>7. ASSUME NEW d \in Docs, LoadSnapshot(d) PROVE OnlyFromWriters'
  <2>1. UNCHANGED <<author, updateLog, seedUps, msg, send, jbuf, jbase, storeVars, recv>>
    BY <1>7 DEF LoadSnapshot, docVars, connVars, chanVars, netVars, jobVars, envVars
  <2>2. CleanSeeds'
    BY <1>0, <1>7, <2>1, CleanFrame DEF LoadSnapshot, CleanSeeds, CleanStore
  <2> QED
    BY <1>0, <2>1, <2>2, CleanFrame DEF OnlyFromWriters
<1>8. ASSUME NEW d \in Docs, LoadUploads(d) PROVE OnlyFromWriters'
  <2>1. UNCHANGED <<author, updateLog, seedSnap, msg, send, jbuf, jbase, storeVars, recv>>
    BY <1>8 DEF LoadUploads, docVars, connVars, chanVars, netVars, jobVars, envVars
  <2>2. CleanSeeds'
    BY <1>0, <1>8, <2>1, CleanFrame DEF LoadUploads, CleanSeeds, CleanStore
  <2> QED
    BY <1>0, <2>1, <2>2, CleanFrame DEF OnlyFromWriters
<1>9. ASSUME NEW j \in Jobs, BuildBlob(j) PROVE OnlyFromWriters'
  <2>1. UNCHANGED <<author, updateLog, seedVars, msg, send, jbase, storeVars, recv>>
    BY <1>9 DEF BuildBlob, docVars, connVars, chanVars, netVars, envVars
  <2>2. jdoc[j] \in Docs
    BY <1>9 DEF BuildBlob, TypeOK, TypeJobs
  <2>3. Blob(jdoc[j]) \in Seq(FromWriters)
    <3>1. seedUps[jdoc[j]] \in Seq(FromWriters) /\ updateLog[jdoc[j]] \in Seq(FromWriters)
      BY <1>0, <2>2 DEF CleanSeeds, CleanDocs
    <3> QED
      BY <3>1 DEF Blob
  <2>4. CleanJobs'
    BY <1>0, <1>9, <2>1, <2>3, CleanFrame DEF BuildBlob, CleanJobs
  <2> QED
    BY <1>0, <2>1, <2>4, CleanFrame DEF OnlyFromWriters
<1>10. ASSUME NEW j \in Jobs, Put(j) \/ WriteSnapshot(j) \/ DeleteUploads(j)
       PROVE  OnlyFromWriters'
  <2>1. UNCHANGED <<author, updateLog, seedVars, msg, send, jbuf, jbase, recv>>
    BY <1>10 DEF Put, WriteSnapshot, DeleteUploads, docVars, connVars, chanVars, netVars, envVars
  <2>2. <<>> \in Seq(FromWriters)
    OBVIOUS
  <2>3. CleanStore'
    BY <1>0, <1>10, <2>1, <2>2, CleanFrame DEF Put, WriteSnapshot, DeleteUploads, CleanStore, CleanJobs
  <2> QED
    BY <1>0, <2>1, <2>3, CleanFrame DEF OnlyFromWriters
<1>11. ASSUME NEW j \in Jobs, ReadBase(j) \/ ReadRaw(j) \/ ReadBaseFails(j)
       PROVE  OnlyFromWriters'
  <2>1. UNCHANGED <<author, updateLog, seedVars, msg, send, jbuf, storeVars, recv>>
    BY <1>11 DEF ReadBase, ReadRaw, ReadBaseFails, docVars, connVars, chanVars, netVars, envVars
  <2>2. PICK S \in SUBSET FromWriters : jbase' = [jbase EXCEPT ![j] = S]
    <3>1. Merged(j) \subseteq FromWriters /\ snapshot \subseteq FromWriters
      BY <1>0, ElemsType DEF Merged, CleanJobs, CleanStore
    <3> QED
      BY <1>11, <3>1 DEF ReadBase, ReadRaw, ReadBaseFails
  <2>3. CleanJobs'
    BY <1>0, <2>1, <2>2, CleanFrame DEF CleanJobs
  <2> QED
    BY <1>0, <2>1, <2>3, CleanFrame DEF OnlyFromWriters
<1>12. CASE Crash
  <2>1. /\ UNCHANGED <<author, updateLog, seedVars, msg, jbuf, jbase, storeVars, recv>>
        /\ send' = [c \in Conns |-> <<>>]
    BY <1>12 DEF Crash
  <2>2. CleanChans'
    BY <2>1 DEF CleanChans
  <2> QED
    BY <1>0, <2>1, <2>2, CleanFrame DEF OnlyFromWriters
<1>13. CASE UNCHANGED <<author, updateLog, seedVars, msg, send, jbuf, jbase, storeVars, recv>>
  BY <1>0, <1>13, CleanFrame DEF OnlyFromWriters
<1>14. ASSUME NEW c \in Conns,
              \/ Connect(c) \/ Join(c) \/ StartPumps(c) \/ CacheAwareness(c)
              \/ ScheduleUpload(c) \/ Leave(c) \/ PumpExit(c) \/ Drop(c)
       PROVE  UNCHANGED <<author, updateLog, seedVars, msg, send, jbuf, jbase, storeVars, recv>>
  BY <1>14 DEF Connect, Join, StartPumps, CacheAwareness, ScheduleUpload, Leave, LeaveLookup, Unregister, PumpExit, Drop, docVars, seedVars, connVars, chanVars, netVars, jobVars, storeVars, envVars
<1>15. ASSUME NEW j \in Jobs,
              \/ j \in Updates /\ TimerFires(j)
              \/ RemoveIfEmpty(j)
              \/ PutFails(j) \/ CompactionFails(j)
       PROVE  UNCHANGED <<author, updateLog, seedVars, msg, send, jbuf, jbase, storeVars, recv>>
  BY <1>15 DEF TimerFires, RemoveIfEmpty, PutFails, CompactionFails, docVars, seedVars, connVars, chanVars, netVars, jobVars, storeVars, envVars
<1>16. ASSUME NEW d \in Docs, LoadFails(d)
       PROVE  UNCHANGED <<author, updateLog, msg, send, jbuf, jbase, storeVars, recv, seedSnap, seedUps>>
  BY <1>16 DEF LoadFails, docVars, connVars, chanVars, netVars, jobVars, storeVars, envVars
<1>17. ASSUME NEW d \in Docs, LoadFails(d) PROVE OnlyFromWriters'
  <2>1. CleanSeeds'
    BY <1>0, <1>16, <1>17, CleanFrame DEF CleanSeeds
  <2> QED
    BY <1>0, <1>16, <1>17, <2>1, CleanFrame DEF OnlyFromWriters
<1>18. ASSUME UNCHANGED vars
       PROVE  UNCHANGED <<author, updateLog, seedVars, msg, send, jbuf, jbase, storeVars, recv>>
  BY <1>18 DEF vars, docVars, seedVars, connVars, chanVars, netVars, jobVars, storeVars, envVars
<1>19. ASSUME NEW c \in Conns, ReceiveUpdate(c) PROVE OnlyFromWriters'
  BY <1>19, CleanReceive
<1> QED
  BY <1>1, <1>2, <1>3, <1>4, <1>5, <1>6, <1>7, <1>8, <1>9, <1>10, <1>11, <1>12, <1>13, <1>14, <1>15, <1>17, <1>18, <1>19
  DEF Next, Register, HandleMessage, WritePump, Load, Upload, Compact, Faults, Jobs

\* At first there is no update anywhere.
LEMMA CleanInit == Init => OnlyFromWriters
<1> SUFFICES ASSUME Init PROVE OnlyFromWriters
  OBVIOUS
<1>1. SyncMsg({}) \in WritersMessage
  BY DEF SyncMsg, WritersMessage
<1>2. CleanDocs /\ CleanSeeds /\ CleanJobs /\ CleanStore
  BY DEF Init, CleanDocs, CleanSeeds, CleanJobs, CleanStore
<1>3. CleanConns /\ CleanChans /\ CleanNet
  BY <1>1 DEF Init, CleanConns, CleanChans, CleanNet
<1> QED
  BY <1>2, <1>3 DEF OnlyFromWriters

\* Whatever instances the hub creates and forgets, however relays, uploads
\* and compactions interleave and fail, an update a viewer sends reaches
\* neither bucket and no other client: HandleMessage's role check is enough.
THEOREM ViewersCorrect == Spec => []ViewersCannotWrite
<1>1. TypeOK /\ OnlyFromWriters /\ [Next]_vars => OnlyFromWriters'
  BY CleanStep
<1> QED
  BY <1>1, CleanInit, OnlyFromWritersSuffices, TypeCorrect, PTL DEF Spec

-----------------------------------------------------------------------------
(***************************************************************************)
(* The stored log. Instances overtake each other, so one reads the bucket  *)
(* while another writes it; what keeps the log readable is that an update  *)
(* enters one in-memory log once, and that every copy of a log (in the     *)
(* bucket, in a goroutine about to put it there, in a seed) was read off   *)
(* an instance whose seed was loaded, and so can only grow at its end.     *)
(***************************************************************************)

Distinct(s) == \A i, k \in 1 .. Len(s) : s[i] = s[k] => i = k

\* A log that can be read from the bucket: empty, or the beginning of what some
\* loaded instance has.
Readable(s) == s = <<>> \/ \E d \in Docs : seedPc[d] = "done" /\ IsBeginning(s, Blob(d))

\* In-memory logs and seeds name no update twice. Two in-memory logs share
\* nothing; neither do a log and its own seed, nor a log whose instance is not
\* loaded yet and any seed (that instance has uploaded nothing).
LogsApart ==
    /\ \A d \in Docs : Distinct(updateLog[d]) /\ Distinct(seedUps[d])
    /\ \A d \in Docs : Elems(seedUps[d]) \subseteq Accepted
    /\ \A d \in Docs : seedPc[d] # "done" => seedUps[d] = <<>>
    /\ \A d, e \in Docs : d # e => Elems(updateLog[d]) \cap Elems(updateLog[e]) = {}
    /\ \A d, e \in Docs : d = e \/ seedPc[d] # "done" =>
        Elems(updateLog[d]) \cap Elems(seedUps[e]) = {}

\* An update is logged after it was received, by the goroutine that received it.
LoggedOnce ==
    /\ Accepted \subseteq 1 .. Len(author)
    /\ \A c \in Conns : pc[c] = "append" =>
        \A u \in msg[c].ups : u \in 1 .. Len(author) /\ author[u] = c /\ u \notin Accepted

CopiesReadable == Readable(uploads) /\ \A j \in Jobs : Readable(jbuf[j])

MergesAccepted == snapshot \subseteq Accepted /\ \A j \in Jobs : jbase[j] \subseteq Accepted

LogInv == LogsApart /\ LoggedOnce /\ CopiesReadable /\ MergesAccepted

\* An update is added to what was accepted when a log grows by it.
LEMMA AcceptedAppend ==
    ASSUME TypeOK, NEW d \in Docs, NEW u \in Updates,
           updateLog' = [updateLog EXCEPT ![d] = Append(@, u)]
    PROVE  /\ \A e \in Docs : Elems(updateLog'[e]) =
                Elems(updateLog[e]) \cup (IF e = d THEN {u} ELSE {})
           /\ Accepted' = Accepted \cup {u}
<1>1. updateLog \in [Docs -> Seq(Updates)]
  BY DEF TypeOK, TypeDocs
<1>2. Elems(Append(updateLog[d], u)) = Elems(updateLog[d]) \cup {u}
  BY <1>1, ElemsAppend
<1>3. \A e \in Docs : updateLog'[e] = IF e = d THEN Append(updateLog[d], u) ELSE updateLog[e]
  BY <1>1
<1>4. \A x : (\E e \in Docs : x \in Elems(updateLog'[e]))
               <=> x = u \/ \E e \in Docs : x \in Elems(updateLog[e])
  BY <1>2, <1>3
<1>5. \A x : x \in Accepted' <=> \E e \in Docs : x \in Elems(updateLog'[e])
  BY DEF Accepted
<1>6. \A x : x \in Accepted <=> \E e \in Docs : x \in Elems(updateLog[e])
  BY DEF Accepted
<1>7. Accepted' = Accepted \cup {u}
  BY <1>4, <1>5, <1>6
<1> QED
  BY <1>2, <1>3, <1>7

\* A log stays without repetitions when something new is appended,
LEMMA DistinctAppend ==
    ASSUME NEW S, NEW s \in Seq(S), NEW x \in S, Distinct(s), x \notin Elems(s)
    PROVE  Distinct(Append(s, x))
<1>1. /\ Len(Append(s, x)) = Len(s) + 1 /\ Len(s) \in Nat
      /\ Append(s, x)[Len(s) + 1] = x
      /\ \A i \in 1 .. Len(s) : Append(s, x)[i] = s[i]
  OBVIOUS
<1>2. \A i \in 1 .. Len(s) : s[i] # x
  BY DEF Elems
<1>3. \A i \in 1 .. Len(s) + 1 : i \in 1 .. Len(s) \/ i = Len(s) + 1
  BY <1>1
<1> QED
  BY <1>1, <1>2, <1>3 DEF Distinct

\* and two that share nothing when they are put together.
LEMMA DistinctConcat ==
    ASSUME NEW S, NEW s \in Seq(S), NEW t \in Seq(S), Distinct(s), Distinct(t),
           Elems(s) \cap Elems(t) = {}
    PROVE  Distinct(s \o t)
<1>1. /\ Len(s \o t) = Len(s) + Len(t) /\ Len(s) \in Nat /\ Len(t) \in Nat
      /\ \A i \in 1 .. Len(s) : (s \o t)[i] = s[i]
  OBVIOUS
<1>2. \A i \in 1 .. Len(s) + Len(t) :
        i \in 1 .. Len(s) \/ (i - Len(s) \in 1 .. Len(t) /\ (s \o t)[i] = t[i - Len(s)])
  OBVIOUS
<1>3. \A i \in 1 .. Len(s), k \in 1 .. Len(t) : s[i] # t[k]
  BY DEF Elems
<1>4. ASSUME NEW i \in 1 .. Len(s \o t), NEW k \in 1 .. Len(s \o t),
             (s \o t)[i] = (s \o t)[k]
      PROVE  i = k
  <2>1. CASE i \in 1 .. Len(s) /\ k \in 1 .. Len(s)
    BY <1>1, <1>4, <2>1 DEF Distinct
  <2>2. CASE i \in 1 .. Len(s) /\ k \notin 1 .. Len(s)
    BY <1>1, <1>2, <1>3, <1>4, <2>2
  <2>3. CASE i \notin 1 .. Len(s) /\ k \in 1 .. Len(s)
    BY <1>1, <1>2, <1>3, <1>4, <2>3
  <2>4. CASE i \notin 1 .. Len(s) /\ k \notin 1 .. Len(s)
    <3>1. i - Len(s) = k - Len(s)
      BY <1>1, <1>2, <1>4, <2>4 DEF Distinct
    <3> QED
      BY <1>1, <3>1
  <2> QED
    BY <2>1, <2>2, <2>3, <2>4
<1> QED
  BY <1>4 DEF Distinct

\* The beginning of a log has some of its elements, and none twice.
LEMMA BeginningFacts ==
    ASSUME NEW S, NEW s \in Seq(S), NEW t \in Seq(S), IsBeginning(s, t)
    PROVE  Elems(s) \subseteq Elems(t) /\ (Distinct(t) => Distinct(s))
<1>1. /\ Len(s) \in Nat /\ Len(t) \in Nat /\ Len(s) <= Len(t)
      /\ \A i \in 1 .. Len(s) : s[i] = t[i]
  BY DEF IsBeginning
<1>2. \A i \in 1 .. Len(s) : i \in 1 .. Len(t)
  BY <1>1
<1> QED
  BY <1>1, <1>2 DEF Elems, Distinct

\* What can be read names no update twice and nothing that was not accepted, and
\* shares nothing with the log of an instance that is not loaded yet.
LEMMA ReadableFacts ==
    ASSUME TypeOK, LogsApart, NEW s \in Seq(Updates), Readable(s)
    PROVE  /\ Distinct(s)
           /\ Elems(s) \subseteq Accepted
           /\ \A d \in Docs : seedPc[d] # "done" => Elems(updateLog[d]) \cap Elems(s) = {}
<1>1. CASE s = <<>>
  BY <1>1 DEF Distinct, Elems
<1>2. CASE s # <<>>
  <2>1. PICK e \in Docs : seedPc[e] = "done" /\ IsBeginning(s, Blob(e))
    BY <1>2 DEF Readable
  <2>2. updateLog[e] \in Seq(Updates) /\ seedUps[e] \in Seq(Updates)
    BY DEF TypeOK, TypeDocs, TypeSeeds
  <2>3. /\ Blob(e) \in Seq(Updates)
        /\ Elems(Blob(e)) = Elems(seedUps[e]) \cup Elems(updateLog[e])
    BY <2>2, ElemsConcat DEF Blob
  <2>4. Distinct(Blob(e))
    BY <2>2, DistinctConcat DEF Blob, LogsApart
  <2>5. Elems(s) \subseteq Elems(seedUps[e]) \cup Elems(updateLog[e]) /\ Distinct(s)
    BY <2>1, <2>3, <2>4, BeginningFacts
  <2>6. Elems(updateLog[e]) \subseteq Accepted
    BY DEF Accepted
  <2> QED
    BY <2>1, <2>5, <2>6 DEF LogsApart
<1> QED
  BY <1>1, <1>2

\* What can be read stays so: instances stay loaded and logs grow at their end.
LEMMA ReadableStep ==
    ASSUME TypeOK, NEW s \in Seq(Updates), Readable(s),
           \A d \in Docs : seedPc[d] = "done" =>
             /\ seedPc'[d] = "done" /\ seedUps'[d] = seedUps[d]
             /\ \/ updateLog'[d] = updateLog[d]
                \/ \E u \in Updates : updateLog'[d] = Append(updateLog[d], u)
    PROVE  Readable(s)'
<1>1. SUFFICES ASSUME NEW d \in Docs, seedPc[d] = "done", IsBeginning(s, Blob(d))
               PROVE  IsBeginning(s, Blob(d)')
  BY DEF Readable, IsBeginning
<1>2. updateLog[d] \in Seq(Updates) /\ seedUps[d] \in Seq(Updates)
  BY DEF TypeOK, TypeDocs, TypeSeeds
<1>3. CASE updateLog'[d] = updateLog[d]
  BY <1>1, <1>3 DEF Blob
<1>4. ASSUME NEW u \in Updates, updateLog'[d] = Append(updateLog[d], u)
      PROVE  IsBeginning(s, Blob(d)')
  <2> DEFINE a == seedUps[d]
             b == updateLog[d]
  <2>1. a \in Seq(Updates) /\ b \in Seq(Updates) /\ Append(b, u) \in Seq(Updates)
    BY <1>2
  <2>2. Blob(d) = a \o b /\ Blob(d)' = a \o Append(b, u)
    BY <1>1, <1>4 DEF Blob
  <2> HIDE DEF a, b
  <2>3. /\ Len(Append(b, u)) = Len(b) + 1 /\ Len(a) \in Nat /\ Len(b) \in Nat
        /\ \A i \in 1 .. Len(b) : Append(b, u)[i] = b[i]
    BY <2>1
  <2>4. /\ Len(a \o b) = Len(a) + Len(b)
        /\ Len(a \o Append(b, u)) = Len(a) + Len(b) + 1
    BY <2>1, <2>3
  <2>5. ASSUME NEW i \in 1 .. Len(a) + Len(b)
        PROVE  (a \o Append(b, u))[i] = (a \o b)[i]
    <3>1. CASE i <= Len(a)
      BY <2>1, <2>3, <3>1
    <3>2. CASE ~(i <= Len(a))
      <4>1. i - Len(a) \in 1 .. Len(b) /\ i - Len(a) \in 1 .. Len(Append(b, u))
        BY <2>3, <3>2
      <4>2. (a \o b)[i] = b[i - Len(a)] /\ (a \o Append(b, u))[i] = Append(b, u)[i - Len(a)]
        BY <2>1, <2>3, <3>2, <4>1
      <4> QED
        BY <2>3, <4>1, <4>2
    <3> QED
      BY <3>1, <3>2
  <2> QED
    BY <1>1, <2>2, <2>3, <2>4, <2>5 DEF IsBeginning
<1> QED
  BY <1>1, <1>3, <1>4

\* Steps that log nothing and load nothing: what they write to the buckets, a
\* goroutine's buffer or its merge was there already.
LEMMA LogFrame ==
    ASSUME TypeOK, LogInv,
           UNCHANGED <<updateLog, seedUps, author>>,
           \A d \in Docs : seedPc[d] = "done" => seedPc'[d] = "done",
           \A c \in Conns : pc'[c] = "append" => pc[c] = "append" /\ msg'[c] = msg[c],
           uploads' \in Seq(Updates), Readable(uploads'),
           \A j \in Jobs : jbuf'[j] \in Seq(Updates) /\ Readable(jbuf'[j]),
           snapshot' \subseteq Accepted,
           \A j \in Jobs : jbase'[j] \subseteq Accepted
    PROVE  LogInv'
<1>1. Accepted' = Accepted
  BY DEF Accepted
<1>2. LogsApart'
  BY <1>1 DEF LogInv, LogsApart
<1>3. LoggedOnce'
  BY <1>1 DEF LogInv, LoggedOnce
<1>4. MergesAccepted'
  BY <1>1 DEF LogInv, MergesAccepted
<1>5. \A s : Readable(s) => Readable(s)'
  BY DEF Readable, Blob
<1>6. CopiesReadable'
  BY <1>5 DEF CopiesReadable, Readable, Blob
<1> QED
  BY <1>2, <1>3, <1>4, <1>6 DEF LogInv

\* An update is received: it is in no log yet, and nobody else holds it.
LEMMA LogReceive ==
    ASSUME TypeOK, LogInv, NEW c \in Conns, ReceiveUpdate(c) PROVE LogInv'
<1>1. UNCHANGED <<updateLog, seedPc, seedUps, uploads, snapshot, jbuf, jbase>>
  BY DEF ReceiveUpdate, docVars, seedVars, jobVars, storeVars
<1>2. Accepted' = Accepted
  BY <1>1 DEF Accepted
<1>3. author \in Seq(Conns) /\ pc \in [Conns -> ConnPcs] /\ msg \in [Conns -> Message]
  BY DEF TypeOK, TypeEnv, TypeConns
<1>4. author' = Append(author, c) /\ pc[c] = "read"
  BY DEF ReceiveUpdate
<1>5. /\ Len(author) \in Nat /\ Len(author') = Len(author) + 1
      /\ author'[Len(author) + 1] = c
      /\ \A u \in 1 .. Len(author) : u \in 1 .. Len(author') /\ author'[u] = author[u]
  BY <1>3, <1>4
<1>6. LoggedOnce'
  <2>1. Accepted \subseteq 1 .. Len(author)
    BY DEF LogInv, LoggedOnce
  <2>2. Accepted' \subseteq 1 .. Len(author')
    BY <1>2, <1>5, <2>1
  <2>3. \/ pc' = [pc EXCEPT ![c] = "append"]
           /\ msg' = [msg EXCEPT ![c] = SyncMsg({Len(author) + 1})]
        \/ UNCHANGED <<pc, msg>>
    BY DEF ReceiveUpdate
  <2>4. ASSUME NEW b \in Conns, pc'[b] = "append", NEW u \in msg'[b].ups
        PROVE  u \in 1 .. Len(author') /\ author'[u] = b /\ u \notin Accepted'
    <3>1. CASE b # c \/ UNCHANGED <<pc, msg>>
      <4>1. pc[b] = "append" /\ msg'[b] = msg[b]
        BY <1>3, <2>3, <2>4, <3>1
      <4>2. u \in 1 .. Len(author) /\ author[u] = b /\ u \notin Accepted
        BY <2>4, <4>1 DEF LogInv, LoggedOnce
      <4> QED
        BY <1>2, <1>5, <4>2
    <3>2. CASE b = c /\ ~UNCHANGED <<pc, msg>>
      <4>1. u = Len(author) + 1
        BY <1>3, <2>3, <2>4, <3>2 DEF SyncMsg
      <4> QED
        BY <1>2, <1>5, <2>1, <3>2, <4>1
    <3> QED
      BY <3>1, <3>2
  <2> QED
    BY <2>2, <2>4 DEF LoggedOnce
<1>7. LogsApart' /\ MergesAccepted'
  BY <1>1, <1>2 DEF LogInv, LogsApart, MergesAccepted
<1>8. CopiesReadable'
  BY <1>1 DEF LogInv, CopiesReadable, Readable, Blob
<1> QED
  BY <1>6, <1>7, <1>8 DEF LogInv

\* It is logged: no log and no seed has it, so logs and seeds stay apart, and
\* what was read off a log is still its beginning.
LEMMA LogAppend ==
    ASSUME TypeOK, LogInv, NEW c \in Conns, AppendUpdate(c) PROVE LogInv'
<1>1. UNCHANGED <<seedPc, seedUps, uploads, snapshot, jbuf, jbase, author, msg>>
  BY DEF AppendUpdate, seedVars, jobVars, storeVars, envVars
<1>2. PICK u \in msg[c].ups : updateLog' = [updateLog EXCEPT ![at[c]] = Append(@, u)]
  BY DEF AppendUpdate
<1> DEFINE d == at[c]
<1>3. pc[c] = "append" /\ pc' = [pc EXCEPT ![c] = "broadcast"] /\ pc \in [Conns -> ConnPcs]
  BY DEF AppendUpdate, TypeOK, TypeConns
<1>4. d \in Docs /\ u \in Updates
  BY <1>3 DEF TypeOK, TypeConns, Message
<1>5. u \in 1 .. Len(author) /\ author[u] = c /\ u \notin Accepted
  BY <1>2, <1>3 DEF LogInv, LoggedOnce
<1>6. /\ \A e \in Docs : updateLog[e] \in Seq(Updates) /\ seedUps[e] \in Seq(Updates)
      /\ \A e \in Docs : updateLog'[e] = IF e = d THEN Append(updateLog[d], u)
                                                  ELSE updateLog[e]
  BY <1>2, <1>4 DEF TypeOK, TypeDocs, TypeSeeds
<1> HIDE DEF d
<1>7. /\ \A e \in Docs : Elems(updateLog'[e]) =
                Elems(updateLog[e]) \cup (IF e = d THEN {u} ELSE {})
      /\ Accepted' = Accepted \cup {u}
  BY <1>2, <1>4, AcceptedAppend DEF d
<1>8. \A e \in Docs : u \notin Elems(updateLog[e]) /\ u \notin Elems(seedUps[e])
  BY <1>5 DEF LogInv, LogsApart, Accepted
<1>9. LogsApart'
  <2>1. Distinct(Append(updateLog[d], u))
    BY <1>4, <1>6, <1>8, DistinctAppend DEF LogInv, LogsApart
  <2>2. \A e \in Docs : Distinct(updateLog'[e]) /\ Distinct(seedUps[e])
    BY <1>6, <2>1 DEF LogInv, LogsApart
  <2>3. \A e, f \in Docs : e # f => Elems(updateLog'[e]) \cap Elems(updateLog'[f]) = {}
    BY <1>7, <1>8 DEF LogInv, LogsApart
  <2>4. \A e, f \in Docs : e = f \/ seedPc[e] # "done" =>
          Elems(updateLog'[e]) \cap Elems(seedUps[f]) = {}
    BY <1>7, <1>8 DEF LogInv, LogsApart
  <2> QED
    BY <1>1, <1>7, <2>2, <2>3, <2>4 DEF LogInv, LogsApart
<1>10. LoggedOnce'
  <2>1. ASSUME NEW b \in Conns, pc'[b] = "append", NEW v \in msg'[b].ups
        PROVE  v \in 1 .. Len(author) /\ author[v] = b /\ v \notin Accepted'
    <3>1. b # c /\ pc[b] = "append" /\ v \in msg[b].ups
      BY <1>1, <1>3, <2>1
    <3> QED
      BY <1>5, <1>7, <3>1 DEF LogInv, LoggedOnce
  <2> QED
    BY <1>1, <1>5, <1>7, <2>1 DEF LogInv, LoggedOnce
<1>11. CopiesReadable'
  <2>1. uploads \in Seq(Updates) /\ \A j \in Jobs : jbuf[j] \in Seq(Updates)
    BY DEF TypeOK, TypeStore, TypeJobs
  <2>2. \A e \in Docs : seedPc[e] = "done" =>
          /\ seedPc'[e] = "done" /\ seedUps'[e] = seedUps[e]
          /\ \/ updateLog'[e] = updateLog[e]
             \/ \E v \in Updates : updateLog'[e] = Append(updateLog[e], v)
    BY <1>1, <1>4, <1>6
  <2>3. \A s \in Seq(Updates) : Readable(s) => Readable(s)'
    BY <2>2, ReadableStep
  <2> QED
    BY <1>1, <2>1, <2>3 DEF LogInv, CopiesReadable, Readable
<1>12. MergesAccepted'
  BY <1>1, <1>7 DEF LogInv, MergesAccepted
<1> QED
  BY <1>9, <1>10, <1>11, <1>12 DEF LogInv

\* A seed is loaded: the log in the bucket was read off loaded instances, which
\* share nothing with the log this instance may have begun meanwhile.
LEMMA LogLoad ==
    ASSUME TypeOK, LogInv, NEW d \in Docs, LoadUploads(d) PROVE LogInv'
<1>1. UNCHANGED <<updateLog, uploads, snapshot, jbuf, jbase, author, pc, msg>>
  BY DEF LoadUploads, docVars, connVars, jobVars, storeVars, envVars
<1>2. /\ seedPc[d] = "log"
      /\ seedUps' = [seedUps EXCEPT ![d] = uploads]
      /\ seedPc' = [seedPc EXCEPT ![d] = "done"]
  BY DEF LoadUploads
<1>3. /\ seedUps \in [Docs -> Seq(Updates)] /\ seedPc \in [Docs -> {"no", "log", "done"}]
      /\ uploads \in Seq(Updates)
  BY DEF TypeOK, TypeSeeds, TypeStore
<1>4. Accepted' = Accepted
  BY <1>1 DEF Accepted
<1>5. /\ Distinct(uploads) /\ Elems(uploads) \subseteq Accepted
      /\ \A e \in Docs : seedPc[e] # "done" => Elems(updateLog[e]) \cap Elems(uploads) = {}
  BY <1>3, ReadableFacts DEF LogInv, CopiesReadable
<1>6. LogsApart'
  <2>1. \A e \in Docs : /\ seedUps'[e] = IF e = d THEN uploads ELSE seedUps[e]
                        /\ seedPc'[e] = IF e = d THEN "done" ELSE seedPc[e]
    BY <1>2, <1>3
  <2>2. \A e \in Docs : /\ Distinct(updateLog[e]) /\ Distinct(seedUps'[e])
                        /\ Elems(seedUps'[e]) \subseteq Accepted
                        /\ seedPc'[e] # "done" => seedUps'[e] = <<>>
    BY <1>5, <2>1 DEF LogInv, LogsApart
  <2>3. \A e, f \in Docs : e = f \/ seedPc'[e] # "done" =>
          Elems(updateLog[e]) \cap Elems(seedUps'[f]) = {}
    BY <1>2, <1>5, <2>1 DEF LogInv, LogsApart
  <2> QED
    BY <1>1, <1>4, <2>2, <2>3 DEF LogInv, LogsApart
<1>7. LoggedOnce' /\ MergesAccepted'
  BY <1>1, <1>4 DEF LogInv, LoggedOnce, MergesAccepted
<1>8. CopiesReadable'
  <2>1. \A e \in Docs : seedPc[e] = "done" =>
          seedPc'[e] = "done" /\ seedUps'[e] = seedUps[e] /\ updateLog'[e] = updateLog[e]
    BY <1>1, <1>2, <1>3
  <2>2. \A j \in Jobs : jbuf[j] \in Seq(Updates)
    BY DEF TypeOK, TypeJobs
  <2>3. \A s \in Seq(Updates) : Readable(s) => Readable(s)'
    BY <2>1, ReadableStep
  <2> QED
    BY <1>1, <1>3, <2>2, <2>3 DEF LogInv, CopiesReadable, Readable
<1> QED
  BY <1>6, <1>7, <1>8 DEF LogInv

\* Every step preserves it.
LEMMA LogStep ==
    ASSUME TypeOK, LogInv, [Next]_vars PROVE LogInv'
<1>1. /\ uploads \in Seq(Updates) /\ Readable(uploads) /\ snapshot \subseteq Accepted
      /\ jbuf \in [Jobs -> Seq(Updates)] /\ \A j \in Jobs : Readable(jbuf[j])
      /\ jbase \in [Jobs -> SUBSET Updates] /\ \A j \in Jobs : jbase[j] \subseteq Accepted
      /\ pc \in [Conns -> ConnPcs]
  BY DEF TypeOK, TypeStore, TypeJobs, TypeConns, LogInv, CopiesReadable, MergesAccepted
<1>2. Elems(uploads) \subseteq Accepted
  BY <1>1, ReadableFacts DEF LogInv
<1> DEFINE Rest == /\ UNCHANGED <<updateLog, seedUps, author>>
                   /\ \A c \in Conns : pc'[c] = "append" => pc[c] = "append" /\ msg'[c] = msg[c]
                   /\ \A d \in Docs : seedPc[d] = "done" => seedPc'[d] = "done"
           Copies == UNCHANGED <<uploads, jbuf, snapshot, jbase>>
<1>3. ASSUME NEW c \in Conns,
             \/ Register(c) \/ Leave(c) \/ WritePump(c) \/ Drop(c) \/ CacheAwareness(c)
             \/ Broadcast(c) \/ ScheduleUpload(c)
             \/ \E k \in {"awareness", "step1"} : ReceiveChatter(c, k)
      PROVE  LogInv'
  <2>1. UNCHANGED <<updateLog, seedPc, seedUps, author, uploads, jbuf, snapshot, jbase>>
    BY <1>3 DEF Register, Connect, SeedClient, Join, Announce, StartPumps, Leave, LeaveLookup, Unregister, WritePump, PumpWrite, PumpExit, Drop, CacheAwareness, Broadcast, ScheduleUpload, ReceiveChatter, docVars, seedVars, jobVars, storeVars, envVars
  <2>2. \A b \in Conns : pc'[b] = "append" => pc[b] = "append" /\ msg'[b] = msg[b]
    <3>1. CASE Register(c) \/ Leave(c) \/ WritePump(c) \/ Drop(c)
      BY <1>1, <3>1 DEF Register, Connect, SeedClient, Join, Announce, StartPumps, Leave, LeaveLookup, Unregister, WritePump, PumpWrite, PumpExit, Drop, connVars
    <3>2. CASE CacheAwareness(c) \/ Broadcast(c) \/ ScheduleUpload(c)
      BY <1>1, <3>2 DEF CacheAwareness, Broadcast, ScheduleUpload
    <3>3. ASSUME NEW k \in {"awareness", "step1"}, ReceiveChatter(c, k),
                 NEW b \in Conns, pc'[b] = "append"
          PROVE  pc[b] = "append" /\ msg'[b] = msg[b]
      <4>1. pc' = [pc EXCEPT ![c] = IF k = "awareness" THEN "awareness" ELSE "broadcast"]
            /\ msg' = [msg EXCEPT ![c] = Chatter(k)]
        BY <3>3 DEF ReceiveChatter
      <4>2. b # c
        BY <1>1, <3>3, <4>1
      <4> QED
        BY <1>1, <3>3, <4>1, <4>2 DEF TypeOK, TypeConns
    <3> QED
      BY <1>3, <3>1, <3>2, <3>3
  <2> QED
    BY <1>1, <2>1, <2>2, LogFrame
<1>4. ASSUME NEW c \in Conns, ReceiveUpdate(c) \/ AppendUpdate(c) PROVE LogInv'
  BY <1>4, LogReceive, LogAppend
<1>5. ASSUME NEW d \in Docs, Load(d) PROVE LogInv'
  <2>1. CASE LoadUploads(d)
    BY <2>1, LogLoad
  <2>2. CASE LoadSnapshot(d)
    <3>1. Rest /\ Copies
      BY <2>2 DEF LoadSnapshot, TypeOK, TypeSeeds, docVars, connVars, jobVars, storeVars, envVars
    <3> QED
      BY <1>1, <3>1, LogFrame
  <2> QED
    BY <1>5, <2>1, <2>2 DEF Load
<1>6. ASSUME NEW d \in Docs, LoadFails(d) PROVE LogInv'
  <2>1. Rest /\ Copies
    BY <1>6 DEF LoadFails, TypeOK, TypeSeeds, docVars, connVars, jobVars, storeVars
  <2> QED
    BY <1>1, <2>1, LogFrame
<1>7. ASSUME NEW j \in Jobs,
             \/ j \in Updates /\ TimerFires(j)
             \/ Upload(j) \/ Compact(j) \/ RemoveIfEmpty(j)
             \/ PutFails(j) \/ ReadBaseFails(j) \/ CompactionFails(j)
      PROVE  LogInv'
  <2>1. Rest
    BY <1>7 DEF TimerFires, Upload, BuildBlob, Put, Compact, ReadBase, ReadRaw, WriteSnapshot, DeleteUploads, RemoveIfEmpty, PutFails, ReadBaseFails, CompactionFails, docVars, seedVars, connVars, envVars
  <2>2. CASE BuildBlob(j)
    <3>1. jdoc[j] \in Docs /\ seedPc[jdoc[j]] = "done"
          /\ jbuf' = [jbuf EXCEPT ![j] = Blob(jdoc[j])] /\ UNCHANGED <<uploads, snapshot, jbase>>
      BY <2>2 DEF BuildBlob, TypeOK, TypeJobs, storeVars
    <3>2. Blob(jdoc[j]) \in Seq(Updates)
      BY <3>1 DEF Blob, TypeOK, TypeDocs, TypeSeeds
    <3>3. Readable(Blob(jdoc[j]))
      BY <3>1, <3>2 DEF Readable, IsBeginning
    <3>4. \A i \in Jobs : jbuf'[i] \in Seq(Updates) /\ Readable(jbuf'[i])
      BY <1>1, <3>1, <3>2, <3>3
    <3> QED
      BY <1>1, <2>1, <3>1, <3>4, LogFrame
  <2>3. CASE Put(j) \/ WriteSnapshot(j) \/ DeleteUploads(j)
    <3>1. UNCHANGED <<jbuf, jbase>>
      BY <2>3 DEF Put, WriteSnapshot, DeleteUploads
    <3>2. uploads' \in {uploads, jbuf[j], <<>>} /\ snapshot' \in {snapshot, jbase[j]}
      BY <2>3 DEF Put, WriteSnapshot, DeleteUploads
    <3>3. <<>> \in Seq(Updates) /\ Readable(<<>>)
      BY DEF Readable
    <3> QED
      BY <1>1, <2>1, <3>1, <3>2, <3>3, LogFrame
  <2>4. CASE ReadBase(j) \/ ReadRaw(j) \/ ReadBaseFails(j)
    <3>1. UNCHANGED <<uploads, jbuf, snapshot>>
      BY <2>4 DEF ReadBase, ReadRaw, ReadBaseFails, storeVars
    <3>2. Merged(j) \subseteq Accepted
      BY <1>1, <1>2 DEF Merged
    <3>3. \A i \in Jobs : jbase'[i] \subseteq Accepted
      BY <1>1, <2>4, <3>2 DEF ReadBase, ReadRaw, ReadBaseFails
    <3> QED
      BY <1>1, <2>1, <3>1, <3>3, LogFrame
  <2>5. CASE \/ j \in Updates /\ TimerFires(j)
             \/ RemoveIfEmpty(j) \/ PutFails(j) \/ CompactionFails(j)
    <3>1. Copies
      BY <2>5 DEF TimerFires, RemoveIfEmpty, PutFails, CompactionFails, storeVars
    <3> QED
      BY <1>1, <2>1, <3>1, LogFrame
  <2> QED
    BY <1>7, <2>2, <2>3, <2>4, <2>5 DEF Upload, Compact
<1>8. CASE Crash
  <2>1. Rest /\ Copies
    BY <1>1, <1>8 DEF Crash, seedVars, storeVars
  <2> QED
    BY <1>1, <2>1, LogFrame
<1>9. CASE UNCHANGED vars
  <2>1. Rest /\ Copies
    BY <1>9 DEF vars, docVars, seedVars, connVars, jobVars, storeVars, envVars
  <2> QED
    BY <1>1, <2>1, LogFrame
<1> QED
  BY <1>3, <1>4, <1>5, <1>6, <1>7, <1>8, <1>9 DEF Next, HandleMessage, Faults, Jobs

\* The log in the object store can always be read as one: no update twice, the
\* beginning of what one loaded instance has seen, and nothing that was not
\* accepted, whatever overtakes, fails or crashes. Seeder's sync.Once and the
\* copy of the log upload takes under the lock are what it rests on.
THEOREM StoredLogCorrect == Spec => []StoredLogIsALog
<1>1. Init => LogInv
  <2>1. ASSUME Init PROVE LogInv
    <3>1. Accepted = {}
      BY <2>1 DEF Init, Accepted, Elems
    <3>2. /\ \A d \in Docs : /\ updateLog[d] = <<>> /\ seedUps[d] = <<>>
          /\ \A j \in Jobs : jbuf[j] = <<>> /\ jbase[j] = {}
          /\ \A c \in Conns : pc[c] # "append"
          /\ uploads = <<>> /\ snapshot = {}
      BY <2>1 DEF Init
    <3>3. Distinct(<<>>) /\ Elems(<<>>) = {} /\ Readable(<<>>)
      BY DEF Distinct, Elems, Readable
    <3> QED
      BY <3>1, <3>2, <3>3 DEF LogInv, LogsApart, LoggedOnce, CopiesReadable, MergesAccepted
  <2> QED
    BY <2>1
<1>2. TypeOK /\ LogInv /\ [Next]_vars => LogInv'
  BY LogStep
<1>3. TypeOK /\ LogInv => StoredLogIsALog
  <2>1. ASSUME TypeOK, LogInv PROVE StoredLogIsALog
    <3>1. uploads \in Seq(Updates) /\ Readable(uploads)
      BY <2>1 DEF TypeOK, TypeStore, LogInv, CopiesReadable
    <3>2. Distinct(uploads) /\ Elems(uploads) \subseteq Accepted
      BY <2>1, <3>1, ReadableFacts DEF LogInv
    <3> QED
      BY <2>1, <3>1, <3>2 DEF StoredLogIsALog, Distinct, Readable, Durable, LogInv, MergesAccepted
  <2> QED
    BY <2>1
<1> QED
  BY <1>1, <1>2, <1>3, TypeCorrect, PTL DEF Spec

-----------------------------------------------------------------------------
(***************************************************************************)
(* The hub without overtaking (CollabSerial). While background work is     *)
(* serial, every connection and every goroutine is at the registered       *)
(* instance, and what the store holds follows from how far that instance   *)
(* and its one upload have come.                                           *)
(***************************************************************************)

\* The steps of a final upload after its PUT.
Late == {"base", "raw", "store", "delete", "evict"}
Compacting == \E j \in Conns : jpc[j] \in Late

\* Connections and members are at the registered instance, which is the newest;
\* past SeedClient its seed is loaded.
ConnsAttached ==
    /\ registry \in {None, created}
    /\ \A c \in Conns : Attached(c) =>
        registry # None /\ at[c] = registry
    /\ \A d \in Docs : \A c \in clients[d] : Attached(c) /\ at[c] = d
    /\ \A c \in Conns : pc[c] \notin {"new", "load", "gone"} => seedPc[registry] = "done"

\* So are goroutines and armed timers; a final upload has stopped the timer.
JobsAttached ==
    /\ \A j \in Jobs : Active(j) \/ jpc[j] = "armed" =>
        registry # None /\ jdoc[j] = registry /\ seedPc[registry] = "done"
    /\ \A i \in Conns, u \in Updates : Active(i) => jpc[u] # "armed"
    /\ \A u \in Updates : jpc[u] \notin Late
    /\ \A i \in Conns : jpc[i] # "armed"

\* Older instances are loaded, later ones are not, and nothing is logged before.
SeedsInOrder ==
    /\ \A d \in Docs : d <= created /\ d # registry => seedPc[d] = "done"
    /\ \A d \in Docs : d > created => seedPc[d] = "no"
    /\ \A d \in Docs : seedPc[d] # "done" => updateLog[d] = <<>>

Attachment == ConnsAttached /\ JobsAttached /\ SeedsInOrder

\* A serial step is a step of the hub.
LEMMA SerialIsHub == SerialNext => Next
BY DEF SerialNext, Next, Faults

\* What GetOrCreate finds.
LEMMA GotRegistered ==
    ASSUME TypeOK, ConnsAttached, NEW d \in Docs, GetOrCreate(d)
    PROVE  /\ registry' = d /\ created' = d
           /\ registry # None => d = registry /\ created = d
           /\ registry = None => created = d - 1
BY ConstantsAssumption DEF TypeOK, TypeHub, ConnsAttached, GetOrCreate, hubVars, Docs, None

\* What Timer.Stop changes.
LEMMA StoppedFacts ==
    ASSUME TypeOK, NEW d \in Docs
    PROVE  /\ Stopped(d) \in [Jobs -> JobPcs]
           /\ \A j \in Jobs : \/ Stopped(d)[j] = jpc[j]
                              \/ jpc[j] = "armed" /\ Stopped(d)[j] = "stopped"
BY StoppedType DEF TypeOK, TypeJobs, TypeDocs, Stopped, Jobs, None

\* Steps in which connections only go on past SeedClient, and goroutines only
\* go on or end.
LEMMA AttachmentFrame ==
    ASSUME TypeOK, Attachment, UNCHANGED <<hubVars, at, jdoc, updateLog>>,
           UNCHANGED <<clients, seedPc>>,
           \A c \in Conns :
             \/ pc'[c] = pc[c]
             \/ pc[c] \notin {"new", "load", "gone"} /\ pc'[c] \notin {"new", "load", "gone"},
           \A j \in Jobs :
             \/ jpc'[j] = jpc[j]
             \/ jpc'[j] \in {"done", "stopped"}
             \/ Active(j) /\ jpc'[j] \notin {"armed"} /\ (j \in Updates => jpc'[j] \notin Late)
    PROVE  Attachment'
<1> USE DEF hubVars, Attached, Active
<1>1. ConnsAttached'
  BY DEF Attachment, ConnsAttached, TypeOK, TypeDocs
<1>2. JobsAttached'
  BY DEF Attachment, JobsAttached, Jobs, Late
<1>3. SeedsInOrder'
  BY DEF Attachment, SeedsInOrder
<1> QED
  BY <1>1, <1>2, <1>3 DEF Attachment

\* Every serial step keeps everybody at the registered instance.
LEMMA AttachmentStep ==
    ASSUME TypeOK, ArmedTimerIsKnown, Serial, Attachment, SerialNext
    PROVE  Attachment'
<1> USE ConstantsAssumption
<1>0. ConnsAttached /\ JobsAttached /\ SeedsInOrder /\ Serial'
  BY DEF Attachment, SerialNext
<1>t. /\ created \in 0 .. MaxDocs /\ registry \in 0 .. created
      /\ clients \in [Docs -> SUBSET Conns] /\ updateLog \in [Docs -> Seq(Updates)]
      /\ seedPc \in [Docs -> {"no", "log", "done"}]
      /\ pc \in [Conns -> ConnPcs] /\ at \in [Conns -> Docs \cup {None}]
      /\ jpc \in [Jobs -> JobPcs] /\ jdoc \in [Jobs -> Docs \cup {None}]
      /\ msg \in [Conns -> Message]
  BY DEF TypeOK, TypeHub, TypeDocs, TypeSeeds, TypeConns, TypeJobs
<1>n. registry # None => registry \in Docs /\ created = registry
  BY <1>0, <1>t DEF ConnsAttached, Docs, None
<1>1. ASSUME NEW c \in Conns, Connect(c) PROVE Attachment'
  <2>1. PICK d \in Docs : GetOrCreate(d) /\ at' = [at EXCEPT ![c] = d]
    BY <1>1 DEF Connect
  <2>2. /\ registry' = d /\ created' = d
        /\ registry # None => d = registry /\ created = d
        /\ registry = None => created = d - 1
    BY <2>1, <1>0, GotRegistered
  <2>3. /\ pc[c] = "new" /\ pc' = [pc EXCEPT ![c] = "load"]
        /\ UNCHANGED <<clients, updateLog, seedPc, jpc, jdoc>>
    BY <1>1 DEF Connect, docVars, seedVars, jobVars
  <2>4. d # None /\ d \in Nat
    BY DEF Docs, None
  <2>5. ConnsAttached'
    BY <1>0, <1>t, <2>1, <2>2, <2>3, <2>4 DEF ConnsAttached, Attached
  <2>6. JobsAttached'
    BY <1>0, <1>t, <2>2, <2>3, <2>4 DEF JobsAttached, Active
  <2>7. SeedsInOrder'
    BY <1>0, <1>t, <2>2, <2>3, <2>4 DEF SeedsInOrder, Docs, None
  <2> QED
    BY <2>5, <2>6, <2>7 DEF Attachment
<1>2. ASSUME NEW c \in Conns, SeedClient(c) PROVE Attachment'
  <2>1. /\ pc[c] = "load" /\ seedPc[at[c]] = "done"
        /\ \E p \in {"join", "stuck"} : pc' = [pc EXCEPT ![c] = p]
        /\ UNCHANGED <<registry, created, clients, updateLog, seedPc, jpc, jdoc, at>>
    BY <1>2 DEF SeedClient, hubVars, docVars, seedVars, jobVars
  <2>2. ConnsAttached'
    BY <1>0, <1>t, <2>1 DEF ConnsAttached, Attached
  <2>3. JobsAttached' /\ SeedsInOrder'
    BY <1>0, <2>1 DEF JobsAttached, SeedsInOrder, Active
  <2> QED
    BY <2>2, <2>3 DEF Attachment
<1>3. ASSUME NEW c \in Conns, Join(c) PROVE Attachment'
  <2>1. /\ pc[c] = "join" /\ pc' = [pc EXCEPT ![c] = "announce"]
        /\ clients' = [clients EXCEPT ![at[c]] = @ \cup {c}]
        /\ UNCHANGED <<registry, created, updateLog, seedPc, jpc, jdoc, at>>
    BY <1>3 DEF Join, hubVars, seedVars, jobVars
  <2>2. ConnsAttached'
    BY <1>0, <1>t, <1>n, <2>1 DEF ConnsAttached, Attached
  <2>3. JobsAttached' /\ SeedsInOrder'
    BY <1>0, <2>1 DEF JobsAttached, SeedsInOrder, Active
  <2> QED
    BY <2>2, <2>3 DEF Attachment
\* The hub is looked up again, by a connection that is at the registered instance.
<1>4. ASSUME NEW c \in Conns, ReceiveUpdate(c) \/ (\E k \in {"awareness", "step1"} : ReceiveChatter(c, k))
             \/ LeaveLookup(c)
      PROVE  Attachment'
  <2>a. pc[c] = "read"
    BY <1>4 DEF ReceiveUpdate, ReceiveChatter, LeaveLookup
  <2>b. \E d \in Docs : GetOrCreate(d) /\ at' = [at EXCEPT ![c] = d]
    BY <1>4 DEF ReceiveUpdate, ReceiveChatter, LeaveLookup
  <2>c. UNCHANGED <<clients, updateLog, seedPc, jpc, jdoc>>
    BY <1>4 DEF ReceiveUpdate, ReceiveChatter, LeaveLookup, docVars, seedVars, jobVars
  <2>d. pc' = pc \/ \E p \in {"append", "awareness", "broadcast", "leave"} : pc' = [pc EXCEPT ![c] = p]
    BY <1>4 DEF ReceiveUpdate, ReceiveChatter, LeaveLookup
  <2>2. registry # None /\ at[c] = registry
    BY <1>0, <2>a DEF ConnsAttached, Attached
  <2>3. at' = at /\ UNCHANGED hubVars
    BY <1>0, <1>t, <2>b, <2>2, GotRegistered DEF hubVars
  <2>4. \A e \in Conns :
         \/ pc'[e] = pc[e]
         \/ pc[e] \notin {"new", "load", "gone"} /\ pc'[e] \notin {"new", "load", "gone"}
    BY <1>t, <2>a, <2>d
  <2> QED
    BY <2>c, <2>3, <2>4, AttachmentFrame
<1>5. ASSUME NEW c \in Conns, AppendUpdate(c) PROVE Attachment'
  <2>1. /\ pc[c] = "append" /\ pc' = [pc EXCEPT ![c] = "broadcast"]
        /\ \E u \in msg[c].ups : updateLog' = [updateLog EXCEPT ![at[c]] = Append(@, u)]
        /\ UNCHANGED <<registry, created, clients, seedPc, jpc, jdoc, at>>
    BY <1>5 DEF AppendUpdate, hubVars, seedVars, jobVars
  <2>2. at[c] = registry /\ registry # None /\ seedPc[at[c]] = "done"
    BY <1>0, <2>1 DEF ConnsAttached, Attached
  <2>3. ConnsAttached' /\ JobsAttached'
    BY <1>0, <1>t, <2>1 DEF ConnsAttached, Attached, JobsAttached, Active
  <2>4. SeedsInOrder'
    BY <1>0, <1>t, <1>n, <2>1, <2>2 DEF SeedsInOrder
  <2> QED
    BY <2>3, <2>4 DEF Attachment
\* The timer of the update is armed, or armed again.
<1>6. ASSUME NEW c \in Conns, ScheduleUpload(c) PROVE Attachment'
  <2>1. /\ pc[c] = "schedule" /\ pc' = [pc EXCEPT ![c] = "read"]
        /\ UNCHANGED <<registry, created, clients, updateLog, seedPc, at>>
    BY <1>6 DEF ScheduleUpload, hubVars, seedVars
  <2>2. at[c] = registry /\ registry # None /\ seedPc[registry] = "done" /\ Attached(c)
    BY <1>0, <2>1 DEF ConnsAttached, Attached
  <2>3. PICK u \in msg[c].ups : /\ jpc' = [Stopped(at[c]) EXCEPT ![u] = "armed"]
                                /\ jdoc' = [jdoc EXCEPT ![u] = at[c]]
    BY <1>6 DEF ScheduleUpload
  <2>4. u \in Updates /\ u \in Jobs
    BY <1>t DEF Message, Jobs
  <2>5. /\ Stopped(registry) \in [Jobs -> JobPcs]
        /\ \A j \in Jobs : \/ Stopped(registry)[j] = jpc[j]
                           \/ jpc[j] = "armed" /\ Stopped(registry)[j] = "stopped"
    BY <1>n, <2>2, StoppedFacts
  <2>6. ConnsAttached'
    BY <1>0, <1>t, <2>1 DEF ConnsAttached, Attached
  <2>7. \A i \in Conns : ~Active(i)
    BY <2>2 DEF Serial
  <2>8. /\ \A j \in Jobs \ {u} : \/ jpc'[j] = jpc[j]
                                 \/ jpc[j] = "armed" /\ jpc'[j] = "stopped"
        /\ jpc'[u] = "armed" /\ jdoc'[u] = registry
        /\ \A j \in Jobs \ {u} : jdoc'[j] = jdoc[j]
    BY <1>t, <2>2, <2>3, <2>4, <2>5
  <2>9. \A i \in Conns : i \in Jobs /\ i # u
    BY <2>4 DEF Jobs, Updates
  <2>10. JobsAttached'
    <3>1. \A j \in Jobs : Active(j)' \/ jpc'[j] = "armed" => registry # None /\ jdoc'[j] = registry /\ seedPc[registry] = "done"
      BY <1>0, <2>2, <2>8 DEF JobsAttached, Active
    <3>2. \A i \in Conns : ~Active(i)'
      BY <2>7, <2>8, <2>9 DEF Active
    <3>3. \A v \in Updates : jpc'[v] \notin Late
      BY <1>0, <2>8 DEF JobsAttached, Late, Jobs
    <3>4. \A i \in Conns : jpc'[i] # "armed"
      BY <1>0, <2>8, <2>9 DEF JobsAttached
    <3> QED
      BY <2>1, <3>1, <3>2, <3>3, <3>4 DEF JobsAttached
  <2>11. SeedsInOrder'
    BY <1>0, <2>1 DEF SeedsInOrder
  <2> QED
    BY <2>6, <2>10, <2>11 DEF Attachment
\* The last member leaves no timer armed.
<1>7. ASSUME NEW c \in Conns, Unregister(c) PROVE Attachment'
  <2>1. /\ pc[c] = "leave" /\ pc' = [pc EXCEPT ![c] = "gone"]
        /\ UNCHANGED <<registry, created, updateLog, seedPc, at>>
    BY <1>7 DEF Unregister, hubVars, seedVars
  <2>2. at[c] = registry /\ registry # None /\ seedPc[registry] = "done" /\ Attached(c) /\ registry \in Docs
    BY <1>0, <1>n, <2>1 DEF ConnsAttached, Attached
  <2>3. \/ /\ c \in clients[registry]
           /\ clients' = [clients EXCEPT ![registry] = @ \ {c}]
           /\ \/ /\ jpc' = [Stopped(registry) EXCEPT ![c] = "upload"]
                 /\ jdoc' = [jdoc EXCEPT ![c] = registry]
              \/ jpc' = Stopped(registry) /\ jdoc' = jdoc
        \/ c \notin clients[registry] /\ UNCHANGED <<clients, jpc, jdoc>>
    BY <1>7, <2>2 DEF Unregister, Remaining
  <2>4. /\ Stopped(registry) \in [Jobs -> JobPcs]
        /\ \A j \in Jobs : \/ Stopped(registry)[j] = jpc[j]
                           \/ jpc[j] = "armed" /\ Stopped(registry)[j] = "stopped"
    BY <2>2, StoppedFacts
  <2>5. \A u \in Updates : Stopped(registry)[u] # "armed"
    <3> SUFFICES ASSUME NEW u \in Updates, Stopped(registry)[u] = "armed" PROVE FALSE
      OBVIOUS
    <3>1. jpc[u] = "armed" /\ jdoc[u] # registry
      BY <2>2, StoppedTimers
    <3> QED
      BY <1>0, <3>1 DEF JobsAttached, Jobs
  <2>6. \A i \in Conns : ~Active(i)
    BY <2>2 DEF Serial
  <2>7. \A i \in Conns : i \in Jobs /\ i \notin Updates
    BY DEF Jobs, Updates
  <2>8. ConnsAttached'
    BY <1>0, <1>t, <2>1, <2>2, <2>3 DEF ConnsAttached, Attached
  <2>9. JobsAttached'
    <3>1. CASE c \notin clients[registry] /\ UNCHANGED <<clients, jpc, jdoc>>
      BY <1>0, <2>1, <3>1 DEF JobsAttached, Active
    <3>2. CASE jpc' = Stopped(registry) /\ jdoc' = jdoc
      <4>1. \A j \in Jobs : jpc'[j] = jpc[j] \/ (jpc[j] = "armed" /\ jpc'[j] = "stopped")
        BY <2>4, <3>2
      <4>2. \A i \in Conns : ~Active(i)'
        BY <2>6, <2>7, <4>1 DEF Active
      <4>3. \A u \in Updates : jpc'[u] \notin Late
        BY <1>0, <4>1 DEF JobsAttached, Late, Jobs
      <4>4. \A i \in Conns : jpc'[i] # "armed"
        BY <1>0, <2>7, <4>1 DEF JobsAttached
      <4> QED
        BY <1>0, <2>1, <3>2, <4>1, <4>2, <4>3, <4>4 DEF JobsAttached, Active
    <3>3. CASE /\ jpc' = [Stopped(registry) EXCEPT ![c] = "upload"]
               /\ jdoc' = [jdoc EXCEPT ![c] = registry]
      <4>1. /\ \A j \in Jobs \ {c} : jpc'[j] = jpc[j] \/ (jpc[j] = "armed" /\ jpc'[j] = "stopped")
            /\ \A j \in Jobs \ {c} : jdoc'[j] = jdoc[j]
            /\ jdoc'[c] = registry
        BY <1>t, <2>4, <2>7, <3>3
      <4>2. \A u \in Updates : jpc'[u] # "armed" /\ jpc'[u] \notin Late
        <5>1. \A u \in Updates : u # c /\ u \in Jobs
          BY <2>7 DEF Jobs
        <5>2. \A u \in Updates : jpc'[u] = Stopped(registry)[u]
          BY <2>4, <3>3, <5>1
        <5>3. \A u \in Updates : jpc'[u] \notin Late
          BY <1>0, <4>1, <5>1 DEF JobsAttached, Late
        <5> QED
          BY <2>5, <5>2, <5>3
      <4>3. \A j \in Jobs : Active(j)' \/ jpc'[j] = "armed" => jdoc'[j] = registry
        BY <1>0, <2>2, <4>1 DEF JobsAttached, Active
      <4>4. \A i \in Conns : jpc'[i] # "armed"
        BY <1>0, <1>t, <2>4, <2>7, <3>3, <4>1 DEF JobsAttached
      <4> QED
        BY <2>1, <2>2, <4>2, <4>3, <4>4 DEF JobsAttached
    <3> QED
      BY <2>3, <3>1, <3>2, <3>3
  <2>10. SeedsInOrder'
    BY <1>0, <2>1 DEF SeedsInOrder
  <2> QED
    BY <2>8, <2>9, <2>10 DEF Attachment
\* Whoever asks for the seed of an instance is at it.
<1>8. ASSUME NEW d \in Docs, Load(d) PROVE Attachment'
  <2>1. \/ seedPc[d] = "no" /\ LoadWanted(d) /\ seedPc' = [seedPc EXCEPT ![d] = "log"]
        \/ seedPc[d] = "log" /\ seedPc' = [seedPc EXCEPT ![d] = "done"]
    BY <1>8 DEF Load, LoadSnapshot, LoadUploads
  <2>2. UNCHANGED <<registry, created, clients, updateLog, pc, at, jpc, jdoc>>
    BY <1>8 DEF Load, LoadSnapshot, LoadUploads, hubVars, docVars, connVars, jobVars
  <2>3. LoadWanted(d) => registry = d
    BY <1>0 DEF LoadWanted, ConnsAttached, JobsAttached, Attached, Active, Jobs
  <2>4. d <= created
    BY <1>0, <1>t, <2>1, <2>3 DEF SeedsInOrder, Docs
  <2>5. seedPc[d] # "done"
    BY <2>1
  <2>6. ConnsAttached' /\ JobsAttached'
    BY <1>0, <1>t, <2>1, <2>2 DEF ConnsAttached, JobsAttached, Attached, Active
  <2>7. SeedsInOrder'
    BY <1>0, <1>t, <2>1, <2>2, <2>4 DEF SeedsInOrder
  <2> QED
    BY <2>6, <2>7 DEF Attachment
\* The final upload ends: nobody else is there.
<1>9. ASSUME NEW j \in Jobs, RemoveIfEmpty(j) PROVE Attachment'
  <2>1. /\ jpc[j] = "evict" /\ jpc' = [jpc EXCEPT ![j] = "done"]
        /\ registry' = IF clients[jdoc[j]] = {} THEN None ELSE registry
        /\ UNCHANGED <<created, clients, updateLog, seedPc, pc, at, jdoc>>
    BY <1>9 DEF RemoveIfEmpty, docVars, seedVars, connVars
  <2>2. j \in Conns /\ Active(j)
    BY <1>0, <2>1 DEF JobsAttached, Late, Jobs, Active
  <2>3. /\ \A c \in Conns : ~Attached(c)
        /\ \A i \in Jobs : Active(i) => i = j
        /\ \A u \in Updates : jpc[u] # "armed"
    BY <1>0, <2>2 DEF Serial, JobsAttached
  <2>4. registry # None /\ jdoc[j] = registry /\ seedPc[registry] = "done"
    BY <1>0, <2>2 DEF JobsAttached
  <2>5. registry' = None /\ created = registry
    BY <1>0, <1>t, <1>n, <2>1, <2>3, <2>4 DEF ConnsAttached
  <2>6. ConnsAttached'
    BY <1>0, <2>1, <2>3, <2>5 DEF ConnsAttached, Attached
  <2>7. JobsAttached'
    <3>1. \A i \in Jobs : ~Active(i)'
      BY <1>t, <2>1, <2>3 DEF Active
    <3>2. \A u \in Updates : jpc'[u] # "armed" /\ jpc'[u] \notin Late
      BY <1>0, <1>t, <2>1, <2>3 DEF JobsAttached, Late, Jobs
    <3>3. \A i \in Jobs : jpc'[i] # "armed"
      BY <1>0, <1>t, <2>1, <2>3 DEF JobsAttached, Jobs
    <3> QED
      BY <3>1, <3>2, <3>3 DEF JobsAttached, Jobs
  <2>8. SeedsInOrder'
    BY <1>0, <1>t, <2>1, <2>4, <2>5 DEF SeedsInOrder
  <2> QED
    BY <2>6, <2>7, <2>8 DEF Attachment
<1>10. ASSUME NEW c \in Conns,
              \/ Announce(c) \/ StartPumps(c) \/ CacheAwareness(c) \/ Broadcast(c)
              \/ WritePump(c) \/ Drop(c)
       PROVE  Attachment'
  <2>1. UNCHANGED <<hubVars, at, jdoc, updateLog, clients, seedPc, jpc>>
    BY <1>10 DEF Announce, StartPumps, CacheAwareness, Broadcast, WritePump, PumpWrite, PumpExit, Drop, hubVars, docVars, seedVars, connVars, jobVars
  <2>2. \/ pc' = pc
        \/ /\ pc[c] \in {"announce", "awareness", "broadcast"}
           /\ \E p \in {"read", "broadcast", "schedule"} : pc' = [pc EXCEPT ![c] = p]
    BY <1>10 DEF Announce, StartPumps, CacheAwareness, Broadcast, WritePump, PumpWrite, PumpExit, Drop, connVars
  <2>3. \A e \in Conns :
         \/ pc'[e] = pc[e]
         \/ pc[e] \notin {"new", "load", "gone"} /\ pc'[e] \notin {"new", "load", "gone"}
    BY <1>t, <2>2
  <2> QED
    BY <2>1, <2>3, AttachmentFrame
<1>11. ASSUME NEW u \in Updates, TimerFires(u) PROVE Attachment'
  <2>1. /\ jpc[u] = "armed" /\ jpc' = [jpc EXCEPT ![u] = "upload"] /\ u \in Jobs
        /\ UNCHANGED <<registry, created, at, pc, jdoc, updateLog, clients, seedPc>>
    BY <1>11 DEF TimerFires, hubVars, docVars, seedVars, connVars, Jobs
  <2>2. ConnsAttached' /\ SeedsInOrder'
    BY <1>0, <2>1 DEF ConnsAttached, SeedsInOrder, Attached
  <2>3. \A i \in Conns : i \in Jobs /\ i # u
    BY DEF Jobs, Updates
  <2>4. JobsAttached'
    BY <1>0, <1>t, <2>1, <2>3 DEF JobsAttached, Active, Late, Jobs
  <2> QED
    BY <2>2, <2>4 DEF Attachment
<1>12. ASSUME NEW j \in Jobs, Upload(j) \/ Compact(j) \/ CompactionFails(j) PROVE Attachment'
  <2>1. UNCHANGED <<hubVars, at, jdoc, updateLog, clients, seedPc, pc>>
    BY <1>12 DEF Upload, BuildBlob, Put, Compact, ReadBase, ReadRaw, WriteSnapshot, DeleteUploads, CompactionFails, hubVars, docVars, seedVars, connVars, jobVars
  <2>2. /\ Active(j)
        /\ \E p \in {"put", "done", "base", "raw", "store", "delete", "evict"} :
              jpc' = [jpc EXCEPT ![j] = p] /\ (p \in Late => j \in Conns)
    <3>1. CASE Upload(j)
      BY <3>1 DEF Upload, BuildBlob, Put, AfterUpload, Late, Active
    <3>2. CASE Compact(j) \/ CompactionFails(j)
      <4>1. jpc[j] \in Late
        BY <3>2 DEF Compact, ReadBase, ReadRaw, WriteSnapshot, DeleteUploads, CompactionFails, Late
      <4>2. j \in Conns
        BY <1>0, <4>1 DEF JobsAttached, Jobs
      <4>3. \E p \in {"raw", "store", "delete", "evict"} : jpc' = [jpc EXCEPT ![j] = p]
        BY <3>2 DEF Compact, ReadBase, ReadRaw, WriteSnapshot, DeleteUploads, CompactionFails
      <4> QED
        BY <4>1, <4>2, <4>3 DEF Active, Late
    <3> QED
      BY <1>12, <3>1, <3>2
  <2>3. j \in Conns => j \notin Updates
    BY DEF Updates
  <2>4. \A i \in Jobs :
             \/ jpc'[i] = jpc[i]
             \/ Active(i) /\ jpc'[i] \notin {"armed"} /\ (i \in Updates => jpc'[i] \notin Late)
    BY <1>t, <2>2, <2>3
  <2> QED
    BY <2>1, <2>4, AttachmentFrame
<1> QED
  BY <1>1, <1>2, <1>3, <1>4, <1>5, <1>6, <1>7, <1>8, <1>9, <1>10, <1>11, <1>12
  DEF SerialNext, Register, HandleMessage, Leave

-----------------------------------------------------------------------------
(***************************************************************************)
(* The store without overtaking. What the two buckets hold follows from    *)
(* how far the registered instance has come: not loaded, loaded, or in its *)
(* final upload.                                                           *)
(***************************************************************************)

\* What an instance has of the document besides the snapshot it was seeded with.
Logged(d) == Elems(seedUps[d]) \cup Elems(updateLog[d])

\* Everything accepted is saved while no instance is registered, while the
\* registered one is not loaded, and from the PUT of the final upload on.
SavedAll ==
    registry = None \/ Compacting \/ seedPc[registry] # "done" => Durable = Accepted

\* Else the stored log is between the one the instance was seeded with and
\* the one it has now, and the snapshot is that of its seed.
SeedFollows ==
    registry # None /\ ~Compacting =>
        /\ seedPc[registry] # "no" => seedSnap[registry] = snapshot
        /\ seedPc[registry] = "done" =>
            /\ Accepted = snapshot \cup Logged(registry)
            /\ Elems(seedUps[registry]) \subseteq Elems(uploads)
            /\ Elems(uploads) \subseteq Logged(registry)

\* A blob is newer than what it replaces, the final one has everything; and a
\* compaction works on what is stored.
UploadsFollow ==
    /\ \A j \in Jobs : jpc[j] = "put" =>
        /\ Elems(uploads) \subseteq Elems(jbuf[j])
        /\ Elems(jbuf[j]) \subseteq Logged(registry)
        /\ j \in Conns => Elems(jbuf[j]) = Logged(registry)
    /\ \A j \in Conns :
        /\ jpc[j] = "raw" => jbase[j] = snapshot
        /\ jpc[j] = "store" => jbase[j] = Durable
        /\ jpc[j] = "delete" => snapshot = Accepted

Stored == SavedAll /\ SeedFollows /\ UploadsFollow

\* Steps that leave the logs and the store alone, and with them the goroutines
\* that have got as far as the PUT.
LEMMA StoredFrame ==
    ASSUME Stored, UNCHANGED <<registry, seedVars, updateLog, storeVars, jbuf, jbase>>,
           \A j \in Jobs : \/ jpc'[j] = jpc[j]
                           \/ jpc[j] \notin Late /\ jpc'[j] \notin Late \cup {"put"}
    PROVE  Stored'
<1> USE DEF seedVars, storeVars
<1>1. Accepted' = Accepted /\ Durable' = Durable /\ \A d : Logged(d)' = Logged(d)
  BY DEF Accepted, Durable, Logged
<1>2. Compacting' <=> Compacting
  BY DEF Compacting, Jobs
<1>3. SavedAll' /\ SeedFollows'
  BY <1>1, <1>2 DEF Stored, SavedAll, SeedFollows
<1>4. UploadsFollow'
  BY <1>1 DEF Stored, UploadsFollow, Late, Jobs
<1> QED
  BY <1>3, <1>4 DEF Stored

\* One more update in the log of an instance.
LEMMA LoggedAppend ==
    ASSUME TypeOK, NEW d \in Docs, NEW u \in Updates,
           updateLog' = [updateLog EXCEPT ![d] = Append(@, u)], UNCHANGED seedUps
    PROVE  Accepted' = Accepted \cup {u} /\ Logged(d)' = Logged(d) \cup {u}
<1>1. /\ \A e \in Docs : Elems(updateLog'[e]) =
                Elems(updateLog[e]) \cup (IF e = d THEN {u} ELSE {})
      /\ Accepted' = Accepted \cup {u}
  BY AcceptedAppend
<1>2. Elems(updateLog'[d]) = Elems(updateLog[d]) \cup {u}
  BY <1>1
<1> QED
  BY <1>1, <1>2 DEF Logged

\* Every serial step keeps what the store holds in line with the instance.
LEMMA StoredStep ==
    ASSUME TypeOK, Serial, Attachment, Stored, SerialNext
    PROVE  Stored'
<1> USE ConstantsAssumption
<1>0. /\ ConnsAttached /\ JobsAttached /\ SeedsInOrder /\ Serial'
      /\ SavedAll /\ SeedFollows /\ UploadsFollow
  BY DEF Attachment, SerialNext, Stored
<1>t. /\ created \in 0 .. MaxDocs /\ registry \in 0 .. created
      /\ updateLog \in [Docs -> Seq(Updates)]
      /\ seedPc \in [Docs -> {"no", "log", "done"}]
      /\ seedSnap \in [Docs -> SUBSET Updates]
      /\ seedUps \in [Docs -> Seq(Updates)]
      /\ jpc \in [Jobs -> JobPcs] /\ jdoc \in [Jobs -> Docs \cup {None}]
      /\ jbuf \in [Jobs -> Seq(Updates)] /\ jbase \in [Jobs -> SUBSET Updates]
      /\ msg \in [Conns -> Message] /\ uploads \in Seq(Updates)
  BY DEF TypeOK, TypeHub, TypeDocs, TypeSeeds, TypeConns, TypeJobs, TypeStore
<1>n. registry # None => registry \in Docs /\ created = registry
  BY <1>0, <1>t DEF ConnsAttached, Docs, None
<1>c. clients \in [Docs -> SUBSET Conns]
  BY DEF TypeOK, TypeDocs
<1>j. \A i \in Conns : i \in Jobs /\ i \notin Updates
  BY DEF Jobs, Updates
\* A goroutine past its PUT is a final one, alone, and its instance registered.
<1>l. ASSUME NEW j \in Jobs, jpc[j] \in Late \cup {"upload", "put"}
      PROVE  /\ Active(j) /\ registry # None /\ jdoc[j] = registry
             /\ seedPc[registry] = "done" /\ registry \in Docs
             /\ \A i \in Jobs : Active(i) => i = j
             /\ jpc[j] \in Late => j \in Conns
             /\ j \in Conns => \A c \in Conns : ~Attached(c)
  <2>1. Active(j)
    BY <1>l DEF Active, Late
  <2>2. jpc[j] \in Late => j \in Conns
    BY <1>0 DEF JobsAttached, Jobs
  <2> QED
    BY <1>0, <1>n, <2>1, <2>2 DEF JobsAttached, Serial
<1>1. ASSUME NEW c \in Conns, Connect(c) \/ ReceiveUpdate(c) \/ LeaveLookup(c)
                              \/ \E k \in {"awareness", "step1"} : ReceiveChatter(c, k)
      PROVE  Stored'
  <2>1. UNCHANGED <<updateLog, seedVars, storeVars, jobVars>>
    BY <1>1 DEF Connect, ReceiveUpdate, LeaveLookup, ReceiveChatter, docVars
  <2>2. PICK d \in Docs : GetOrCreate(d)
    BY <1>1 DEF Connect, ReceiveUpdate, LeaveLookup, ReceiveChatter
  <2>3. CASE registry # None
    <3>1. registry' = registry
      BY <1>0, <2>2, <2>3, GotRegistered
    <3> QED
      BY <2>1, <3>1, StoredFrame DEF jobVars
  <2>4. CASE registry = None
    <3>1. registry' = d /\ d > created /\ d # None
      BY <1>0, <1>t, <2>2, <2>4, GotRegistered DEF Docs, None
    <3>2. seedPc'[d] = "no"
      BY <1>0, <2>1, <3>1 DEF SeedsInOrder, seedVars
    <3>3. \A j \in Jobs : ~Active(j)
      BY <1>0, <2>4 DEF JobsAttached
    <3>4. Durable' = Accepted'
      BY <1>0, <2>1, <2>4 DEF SavedAll, Durable, Accepted, storeVars
    <3>5. UploadsFollow'
      BY <1>j, <2>1, <3>3 DEF UploadsFollow, Active, jobVars
    <3> QED
      BY <3>1, <3>2, <3>4, <3>5 DEF Stored, SavedAll, SeedFollows
  <2> QED
    BY <2>3, <2>4
<1>2. ASSUME NEW c \in Conns,
              \/ SeedClient(c) \/ Join(c) \/ Announce(c) \/ StartPumps(c)
              \/ CacheAwareness(c) \/ Broadcast(c) \/ WritePump(c) \/ Drop(c)
      PROVE  Stored'
  <2>1. UNCHANGED <<registry, seedVars, updateLog, storeVars, jbuf, jbase, jpc>>
    BY <1>2 DEF SeedClient, Join, Announce, StartPumps, CacheAwareness, Broadcast, WritePump, PumpWrite, PumpExit, Drop, hubVars, docVars, jobVars
  <2> QED
    BY <2>1, StoredFrame
<1>3. ASSUME NEW c \in Conns, AppendUpdate(c) PROVE Stored'
  <2>1. /\ pc[c] = "append" /\ Attached(c)
        /\ UNCHANGED <<registry, seedVars, storeVars, jobVars>>
    BY <1>3 DEF AppendUpdate, hubVars, Attached
  <2>2. PICK u \in Updates : updateLog' = [updateLog EXCEPT ![at[c]] = Append(@, u)]
    BY <1>3, <1>t DEF AppendUpdate, Message
  <2>3. at[c] = registry /\ registry # None /\ registry \in Docs /\ seedPc[registry] = "done"
    BY <1>0, <1>n, <2>1 DEF ConnsAttached
  <2>4. Accepted' = Accepted \cup {u} /\ Logged(registry)' = Logged(registry) \cup {u}
    BY <2>1, <2>2, <2>3, LoggedAppend DEF seedVars
  <2>5. \A j \in Conns : jpc[j] \notin Late \cup {"put"} /\ jpc' = jpc
    BY <2>1, <1>j, <1>l DEF jobVars
  <2>6. ~Compacting'
    BY <2>5 DEF Compacting
  <2>7. ~Compacting
    BY <2>5 DEF Compacting
  <2>8. /\ seedSnap[registry] = snapshot
        /\ Accepted = snapshot \cup Logged(registry)
        /\ Elems(seedUps[registry]) \subseteq Elems(uploads)
        /\ Elems(uploads) \subseteq Logged(registry)
    BY <1>0, <2>3, <2>7 DEF SeedFollows
  <2>9. SavedAll'
    BY <2>1, <2>3, <2>6 DEF SavedAll, seedVars
  <2>10. SeedFollows'
    <3>1. Accepted' = snapshot' \cup Logged(registry)'
      BY <2>1, <2>4, <2>8 DEF storeVars
    <3>2. Elems(uploads') \subseteq Logged(registry)'
      BY <2>1, <2>4, <2>8 DEF storeVars
    <3> QED
      BY <2>1, <2>8, <3>1, <3>2 DEF SeedFollows, seedVars, storeVars
  <2>11. UploadsFollow'
    <3>1. ASSUME NEW j \in Jobs, jpc[j] = "put"
          PROVE  /\ Elems(uploads) \subseteq Elems(jbuf[j])
                 /\ Elems(jbuf[j]) \subseteq Logged(registry)'
                 /\ j \notin Conns
      BY <1>0, <2>4, <2>5, <3>1 DEF UploadsFollow
    <3> QED
      BY <2>1, <2>5, <3>1 DEF UploadsFollow, jobVars, storeVars, Late
  <2> QED
    BY <2>9, <2>10, <2>11 DEF Stored
<1>4. ASSUME NEW c \in Conns, ScheduleUpload(c) \/ Unregister(c) PROVE Stored'
  <2>1. UNCHANGED <<registry, seedVars, updateLog, storeVars, jbuf, jbase>>
    BY <1>4 DEF ScheduleUpload, Unregister, hubVars
  <2>2. pc[c] \in {"schedule", "leave"}
    BY <1>4 DEF ScheduleUpload, Unregister
  <2>3. Attached(c) /\ at[c] \in Docs
    BY <1>0, <1>n, <2>2 DEF ConnsAttached, Attached
  <2>4. /\ Stopped(at[c]) \in [Jobs -> JobPcs]
        /\ \A j \in Jobs : \/ Stopped(at[c])[j] = jpc[j]
                           \/ jpc[j] = "armed" /\ Stopped(at[c])[j] = "stopped"
    BY <2>3, StoppedFacts
  <2>5. \/ jpc' = jpc
        \/ jpc' = Stopped(at[c])
        \/ jpc' = [Stopped(at[c]) EXCEPT ![c] = "upload"]
        \/ \E u \in Updates : jpc' = [Stopped(at[c]) EXCEPT ![u] = "armed"]
    BY <1>4, <1>t DEF ScheduleUpload, Unregister, Message
  <2>6. \A j \in Jobs : jpc[j] \notin Late
    BY <1>j, <1>l, <2>3
  <2>7. \A j \in Jobs : jpc'[j] = jpc[j] \/ jpc'[j] \in {"stopped", "upload", "armed"}
    BY <1>j, <2>4, <2>5
  <2> QED
    BY <2>1, <2>6, <2>7, StoredFrame DEF Late
<1>5. ASSUME NEW d \in Docs, LoadSnapshot(d) PROVE Stored'
  <2>1. /\ seedPc[d] = "no" /\ seedPc' = [seedPc EXCEPT ![d] = "log"]
        /\ seedSnap' = [seedSnap EXCEPT ![d] = snapshot]
        /\ UNCHANGED <<registry, seedUps, updateLog, storeVars, jobVars>>
    BY <1>5 DEF LoadSnapshot, hubVars, docVars
  <2>2. registry = d
    BY <1>0, <1>5, <2>1 DEF LoadSnapshot, LoadWanted, ConnsAttached, JobsAttached, Attached, Active, Jobs
  <2>3. \A j \in Jobs : jpc[j] \notin Late \cup {"put"}
    BY <1>l, <2>1, <2>2
  <2>4. Durable = Accepted /\ Durable' = Durable /\ Accepted' = Accepted
    BY <1>0, <2>1, <2>2 DEF SavedAll, Durable, Accepted, storeVars
  <2>5. SavedAll'
    BY <2>4 DEF SavedAll
  <2>6. SeedFollows'
    BY <1>t, <2>1, <2>2 DEF SeedFollows, storeVars
  <2>7. UploadsFollow'
    BY <1>j, <2>1, <2>3 DEF UploadsFollow, jobVars, Late
  <2> QED
    BY <2>5, <2>6, <2>7 DEF Stored
<1>6. ASSUME NEW d \in Docs, LoadUploads(d) PROVE Stored'
  <2>1. /\ seedPc[d] = "log" /\ seedPc' = [seedPc EXCEPT ![d] = "done"]
        /\ seedUps' = [seedUps EXCEPT ![d] = uploads]
        /\ UNCHANGED <<registry, seedSnap, updateLog, storeVars, jobVars>>
    BY <1>6 DEF LoadUploads, hubVars, docVars
  <2>2. registry = d /\ d # None
    BY <1>0, <1>t, <2>1 DEF SeedsInOrder, Docs, None
  <2>3. \A j \in Jobs : jpc[j] \notin Late \cup {"put"}
    BY <1>l, <2>1, <2>2
  <2>4. Durable = Accepted /\ Durable' = Durable /\ Accepted' = Accepted
    BY <1>0, <2>1, <2>2 DEF SavedAll, Durable, Accepted, storeVars
  <2>5. seedSnap[d] = snapshot
    BY <1>0, <1>j, <2>1, <2>2, <2>3 DEF SeedFollows, Compacting
  <2>6. updateLog[d] = <<>> /\ Elems(<<>>) = {}
    BY <1>0, <2>1 DEF SeedsInOrder, Elems
  <2>7. seedUps'[d] = uploads
    BY <1>t, <2>1
  <2>8. SavedAll'
    BY <2>4 DEF SavedAll
  <2>9. SeedFollows'
    <3>1. Logged(registry)' = Elems(uploads)
      BY <2>1, <2>6, <2>7, <2>2 DEF Logged
    <3> QED
      BY <2>1, <2>2, <2>4, <2>5, <2>7, <3>1 DEF SeedFollows, Durable, storeVars
  <2>10. UploadsFollow'
    BY <1>j, <2>1, <2>3 DEF UploadsFollow, jobVars, Late
  <2> QED
    BY <2>8, <2>9, <2>10 DEF Stored
<1>7. ASSUME NEW u \in Updates, TimerFires(u) PROVE Stored'
  <2>1. /\ jpc[u] = "armed" /\ jpc' = [jpc EXCEPT ![u] = "upload"]
        /\ UNCHANGED <<registry, seedVars, updateLog, storeVars, jbuf, jbase>>
    BY <1>7 DEF TimerFires, hubVars, docVars
  <2>2. \A j \in Jobs : \/ jpc'[j] = jpc[j]
                        \/ jpc[j] \notin Late /\ jpc'[j] \notin Late \cup {"put"}
    BY <1>t, <2>1 DEF Late
  <2> QED
    BY <2>1, <2>2, StoredFrame
<1>8. ASSUME NEW j \in Jobs, BuildBlob(j) PROVE Stored'
  <2>1. /\ jpc[j] = "upload"
        /\ jbuf' = [jbuf EXCEPT ![j] = Blob(jdoc[j])]
        /\ jpc' = [jpc EXCEPT ![j] = IF Blob(jdoc[j]) = <<>> THEN AfterUpload(j) ELSE "put"]
        /\ UNCHANGED <<registry, seedVars, updateLog, storeVars, jbase>>
    BY <1>8 DEF BuildBlob, hubVars, docVars
  <2>2. /\ registry # None /\ jdoc[j] = registry /\ seedPc[registry] = "done"
        /\ registry \in Docs
        /\ \A i \in Jobs : i # j => jpc[i] \notin Late \cup {"put"}
    BY <1>l, <2>1
  <2>3. Elems(Blob(registry)) = Logged(registry)
    <3>1. seedUps[registry] \in Seq(Updates) /\ updateLog[registry] \in Seq(Updates)
      BY <1>t, <2>2
    <3> QED
      BY <3>1, ElemsConcat DEF Blob, Logged
  <2>4. ~Compacting
    BY <1>j, <2>1, <2>2 DEF Compacting, Late
  <2>5. /\ seedSnap[registry] = snapshot
        /\ Accepted = snapshot \cup Logged(registry)
        /\ Elems(seedUps[registry]) \subseteq Elems(uploads)
        /\ Elems(uploads) \subseteq Logged(registry)
    BY <1>0, <2>2, <2>4 DEF SeedFollows
  <2>6. Durable' = Durable /\ Accepted' = Accepted /\ Logged(registry)' = Logged(registry)
    BY <2>1 DEF Durable, Accepted, Logged, storeVars, seedVars
  <2>7. \A i \in Jobs \ {j} : jpc'[i] = jpc[i] /\ jpc'[i] \notin Late \cup {"put"}
    BY <1>t, <2>1, <2>2
  <2>8. SeedFollows'
    BY <2>1, <2>5, <2>6 DEF SeedFollows, seedVars, storeVars
  <2>9. CASE Blob(registry) = <<>>
    <3>1. jpc'[j] \in {"base", "done"}
      BY <1>t, <2>1, <2>2, <2>9 DEF AfterUpload
    <3>2. Durable = Accepted
      <4>1. Elems(<<>>) = {}
        BY DEF Elems
      <4> QED
        BY <2>3, <2>5, <2>9, <4>1 DEF Durable
    <3>3. SavedAll'
      BY <2>6, <3>2 DEF SavedAll
    <3>4. UploadsFollow'
      BY <1>j, <2>7, <3>1 DEF UploadsFollow, Late
    <3> QED
      BY <2>8, <3>3, <3>4 DEF Stored
  <2>10. CASE Blob(registry) # <<>>
    <3>1. jpc'[j] = "put" /\ jbuf'[j] = Blob(registry)
      BY <1>t, <2>1, <2>2, <2>10
    <3>2. ~Compacting'
      BY <1>j, <2>7, <3>1 DEF Compacting, Late
    <3>3. SavedAll'
      BY <2>1, <2>2, <3>2 DEF SavedAll, seedVars
    <3>4. UploadsFollow'
      <4>1. /\ Elems(uploads') \subseteq Elems(jbuf'[j])
            /\ Elems(jbuf'[j]) = Logged(registry)'
        BY <2>1, <2>3, <2>5, <2>6, <3>1 DEF storeVars
      <4>2. \A i \in Jobs : jpc'[i] = "put" => i = j
        BY <2>7
      <4>3. \A i \in Conns : jpc'[i] \notin {"raw", "store", "delete"}
        BY <1>j, <2>7, <3>1 DEF Late
      <4> QED
        BY <2>1, <4>1, <4>2, <4>3 DEF UploadsFollow
    <3> QED
      BY <2>8, <3>3, <3>4 DEF Stored
  <2> QED
    BY <2>9, <2>10
<1>9. ASSUME NEW j \in Jobs, Put(j) PROVE Stored'
  <2>1. /\ jpc[j] = "put" /\ uploads' = jbuf[j]
        /\ jpc' = [jpc EXCEPT ![j] = AfterUpload(j)]
        /\ UNCHANGED <<registry, seedVars, updateLog, snapshot, jbase>>
    BY <1>9 DEF Put, hubVars, docVars
  <2>2. /\ registry # None /\ seedPc[registry] = "done"
        /\ \A i \in Jobs : i # j => jpc[i] \notin Late \cup {"put"}
    BY <1>l, <2>1
  <2>3. ~Compacting
    BY <1>j, <2>1, <2>2 DEF Compacting, Late
  <2>4. /\ seedSnap[registry] = snapshot
        /\ Accepted = snapshot \cup Logged(registry)
        /\ Elems(seedUps[registry]) \subseteq Elems(uploads)
        /\ Elems(uploads) \subseteq Elems(jbuf[j])
        /\ Elems(jbuf[j]) \subseteq Logged(registry)
        /\ j \in Conns => Elems(jbuf[j]) = Logged(registry)
    BY <1>0, <2>1, <2>2, <2>3 DEF SeedFollows, UploadsFollow
  <2>5. Accepted' = Accepted /\ Logged(registry)' = Logged(registry)
    BY <2>1 DEF Accepted, Logged, seedVars
  <2>6. \A i \in Jobs \ {j} : jpc'[i] = jpc[i] /\ jpc'[i] \notin Late \cup {"put"}
    BY <1>t, <2>1, <2>2
  <2>7. jpc'[j] = IF j \in Conns THEN "base" ELSE "done"
    BY <1>t, <2>1 DEF AfterUpload
  <2>8. SavedAll'
    <3>1. Compacting' => j \in Conns
      BY <1>j, <2>6 DEF Compacting
    <3>2. j \in Conns => Durable' = Accepted
      BY <2>1, <2>4 DEF Durable
    <3> QED
      BY <2>1, <2>2, <2>5, <3>1, <3>2 DEF SavedAll, seedVars
  <2>9. SeedFollows'
    BY <2>1, <2>4, <2>5 DEF SeedFollows, seedVars
  <2>10. UploadsFollow'
    BY <1>j, <2>6, <2>7 DEF UploadsFollow, Late
  <2> QED
    BY <2>8, <2>9, <2>10 DEF Stored
\* A compaction finds everything saved, and leaves it so wherever it stops.
<1>10. ASSUME NEW j \in Jobs, Compact(j) \/ CompactionFails(j) PROVE Stored'
  <2>1. UNCHANGED <<registry, seedVars, updateLog, jbuf>>
    BY <1>10 DEF Compact, ReadBase, ReadRaw, WriteSnapshot, DeleteUploads, CompactionFails, hubVars, docVars
  <2>2. jpc[j] \in Late
    BY <1>10 DEF Compact, ReadBase, ReadRaw, WriteSnapshot, DeleteUploads, CompactionFails, Late
  <2>3. /\ j \in Conns
        /\ \A i \in Jobs : i # j => jpc[i] \notin Late \cup {"put"}
    BY <1>l, <2>2
  <2>4. Durable = Accepted /\ Accepted' = Accepted
    BY <1>0, <2>1, <2>2, <2>3 DEF SavedAll, Compacting, Accepted
  <2>5. \E p \in {"raw", "store", "delete", "evict"} : jpc' = [jpc EXCEPT ![j] = p]
    BY <1>10 DEF Compact, ReadBase, ReadRaw, WriteSnapshot, DeleteUploads, CompactionFails
  <2>6. \A i \in Jobs \ {j} : jpc'[i] = jpc[i] /\ jpc'[i] \notin Late \cup {"put"}
    BY <1>t, <2>3, <2>5
  <2>7. jpc'[j] \in {"raw", "store", "delete", "evict"}
    BY <1>t, <2>5
  <2>8. Compacting'
    BY <2>3, <2>7 DEF Compacting, Late
  <2>9. SeedFollows'
    BY <2>8 DEF SeedFollows
  <2>10. /\ Durable' = Accepted'
         /\ jpc'[j] = "raw" => jbase'[j] = snapshot'
         /\ jpc'[j] = "store" => jbase'[j] = Durable'
         /\ jpc'[j] = "delete" => snapshot' = Accepted'
    <3>1. CASE ReadBase(j)
      BY <1>t, <2>4, <3>1 DEF ReadBase, storeVars, Durable
    <3>2. CASE ReadRaw(j)
      <4>1. jbase[j] = snapshot
        BY <1>0, <2>3, <3>2 DEF ReadRaw, UploadsFollow
      <4>2. jbase'[j] = Durable /\ jpc'[j] \in {"evict", "store"} /\ UNCHANGED storeVars
        BY <1>t, <3>2, <4>1 DEF ReadRaw, Merged, Durable
      <4> QED
        BY <2>4, <4>2 DEF storeVars, Durable
    <3>3. CASE WriteSnapshot(j)
      <4>1. jbase[j] = Durable
        BY <1>0, <2>3, <3>3 DEF WriteSnapshot, UploadsFollow
      <4>2. snapshot' = Durable /\ uploads' = uploads /\ jpc'[j] = "delete"
        BY <1>t, <3>3, <4>1 DEF WriteSnapshot
      <4> QED
        BY <2>4, <4>2 DEF Durable
    <3>4. CASE DeleteUploads(j)
      <4>1. snapshot = Accepted
        BY <1>0, <2>3, <3>4 DEF DeleteUploads, UploadsFollow
      <4>2. uploads' = <<>> /\ snapshot' = snapshot /\ jpc'[j] = "evict"
        BY <1>t, <3>4 DEF DeleteUploads
      <4>3. Elems(<<>>) = {}
        BY DEF Elems
      <4> QED
        BY <2>4, <4>1, <4>2, <4>3 DEF Durable
    <3>5. CASE CompactionFails(j)
      <4>1. jpc'[j] = "evict" /\ UNCHANGED storeVars
        BY <1>t, <3>5 DEF CompactionFails
      <4> QED
        BY <2>4, <4>1 DEF Durable, storeVars
    <3> QED
      BY <1>10, <3>1, <3>2, <3>3, <3>4, <3>5 DEF Compact
  <2>11. SavedAll'
    BY <2>10 DEF SavedAll
  <2>12. UploadsFollow'
    BY <1>j, <2>6, <2>7, <2>10 DEF UploadsFollow, Late
  <2> QED
    BY <2>9, <2>11, <2>12 DEF Stored
<1>11. ASSUME NEW j \in Jobs, RemoveIfEmpty(j) PROVE Stored'
  <2>1. /\ jpc[j] = "evict" /\ jpc' = [jpc EXCEPT ![j] = "done"]
        /\ registry' = IF clients[jdoc[j]] = {} THEN None ELSE registry
        /\ UNCHANGED <<seedVars, updateLog, storeVars, jbuf, jbase>>
    BY <1>11 DEF RemoveIfEmpty, docVars
  <2>2. /\ j \in Conns /\ jdoc[j] = registry /\ registry \in Docs
        /\ \A i \in Jobs : i # j => jpc[i] \notin Late \cup {"put"}
        /\ \A c \in Conns : ~Attached(c)
    BY <1>l, <2>1 DEF Late
  <2>3. registry' = None
    BY <1>0, <2>1, <2>2, <1>c DEF ConnsAttached
  <2>4. Durable' = Accepted'
    BY <1>0, <2>1, <2>2 DEF SavedAll, Compacting, Late, Durable, Accepted, storeVars
  <2>5. \A i \in Jobs : jpc'[i] \notin Late \cup {"put"}
    BY <1>t, <2>1, <2>2 DEF Late
  <2>6. UploadsFollow'
    BY <1>j, <2>5 DEF UploadsFollow, Late
  <2> QED
    BY <2>3, <2>4, <2>6 DEF Stored, SavedAll, SeedFollows
<1> QED
  BY <1>1, <1>2, <1>3, <1>4, <1>5, <1>6, <1>7, <1>8, <1>9, <1>10, <1>11
  DEF SerialNext, Register, HandleMessage, Leave, Load, Upload

-----------------------------------------------------------------------------
(***************************************************************************)
(* What serial background work is enough for: the inductive invariant of   *)
(* SerialSpec, and what follows from it, up to the refinement.             *)
(***************************************************************************)

\* The inductive invariant.
SerialInv == TypeOK /\ ArmedTimerIsKnown /\ Serial /\ Attachment /\ Stored

\* The invariant of the serial hub holds at first,
LEMMA SerialInit == Init => SerialInv
<1> SUFFICES ASSUME Init PROVE SerialInv
  OBVIOUS
<1>1. \A j \in Jobs : jpc[j] = "idle"
  BY DEF Init
<1>2. TypeOK /\ ArmedTimerIsKnown
  BY <1>1, TypeInit DEF ArmedTimerIsKnown, Jobs
<1>3. Serial
  BY <1>1 DEF Serial, Active, Jobs
<1>4. Attachment
  BY <1>1 DEF Init, Attachment, ConnsAttached, JobsAttached, SeedsInOrder, Attached, Active, Late, Jobs, Docs, None
<1>5. Accepted = {} /\ Durable = {}
  <2>1. \A d \in Docs : Elems(updateLog[d]) = {}
    BY DEF Init, Elems
  <2>2. snapshot = {} /\ Elems(uploads) = {}
    BY DEF Init, Elems
  <2> QED
    BY <2>1, <2>2 DEF Accepted, Durable
<1>6. Stored
  BY <1>1, <1>5 DEF Init, Stored, SavedAll, SeedFollows, UploadsFollow, Late, Jobs
<1> QED
  BY <1>2, <1>3, <1>4, <1>6 DEF SerialInv

\* is kept by every serial step,
LEMMA SerialStep == SerialInv /\ [SerialNext]_vars => SerialInv'
<1> SUFFICES ASSUME SerialInv, [SerialNext]_vars PROVE SerialInv'
  OBVIOUS
<1>1. TypeOK' /\ ArmedTimerIsKnown'
  BY TypeStep, TimerStep, SerialIsHub DEF SerialInv
<1>2. CASE SerialNext
  <2>1. Serial'
    BY <1>2 DEF SerialNext
  <2> QED
    BY <1>1, <1>2, <2>1, AttachmentStep, StoredStep DEF SerialInv
<1>3. CASE UNCHANGED vars
  <2>1. UNCHANGED <<hubVars, at, jdoc, updateLog, clients, seedPc, seedVars, pc, jpc, storeVars, jbuf, jbase>>
    BY <1>3 DEF vars, hubVars, docVars, seedVars, connVars, jobVars, storeVars
  <2>2. Serial'
    BY <2>1 DEF SerialInv, Serial, Active, Attached
  <2>3. Attachment'
    BY <2>1, AttachmentFrame DEF SerialInv
  <2>4. Stored'
    BY <2>1, StoredFrame DEF SerialInv, hubVars
  <2> QED
    BY <1>1, <2>2, <2>3, <2>4 DEF SerialInv
<1> QED
  BY <1>2, <1>3

\* and so holds of every serial behaviour.
LEMMA SerialAlways == SerialSpec => []SerialInv
BY SerialInit, SerialStep, PTL DEF SerialSpec

\* The steps that change a seed or a log.
LEMMA LogSteps ==
    ASSUME [SerialNext]_vars
    PROVE  \/ UNCHANGED <<seedVars, updateLog>>
           \/ \E d \in Docs : LoadSnapshot(d) \/ LoadUploads(d)
           \/ \E c \in Conns : AppendUpdate(c)
<1>1. ASSUME NEW c \in Conns, Register(c) \/ Leave(c) \/ WritePump(c) \/ Drop(c)
      PROVE  UNCHANGED <<seedVars, updateLog>>
  BY <1>1 DEF Register, Connect, SeedClient, Join, Announce, StartPumps, Leave, LeaveLookup, Unregister, WritePump, PumpWrite, PumpExit, Drop, docVars
<1>2. ASSUME NEW c \in Conns, HandleMessage(c)
      PROVE  AppendUpdate(c) \/ UNCHANGED <<seedVars, updateLog>>
  BY <1>2 DEF HandleMessage, ReceiveUpdate, ReceiveChatter, CacheAwareness, Broadcast, ScheduleUpload, docVars
<1>3. ASSUME NEW u \in Updates, TimerFires(u) PROVE UNCHANGED <<seedVars, updateLog>>
  BY <1>3 DEF TimerFires, docVars
<1>4. ASSUME NEW j \in Jobs, Upload(j) \/ Compact(j) \/ RemoveIfEmpty(j) \/ CompactionFails(j)
      PROVE  UNCHANGED <<seedVars, updateLog>>
  BY <1>4 DEF Upload, BuildBlob, Put, Compact, ReadBase, ReadRaw, WriteSnapshot, DeleteUploads, RemoveIfEmpty, CompactionFails, docVars
<1>5. CASE UNCHANGED vars
  BY <1>5 DEF vars, docVars
<1> QED
  BY <1>1, <1>2, <1>3, <1>4, <1>5 DEF SerialNext, Load

\* A document opened again starts from everything accepted before, for any
\* number of instances: what earlier instances logged is in the seed, also
\* when the compaction in between stopped half-way (Seeder.Load).
THEOREM SeedComplete == SerialSpec => []SeedIsComplete
<1>1. Init => SeedIsComplete
  BY DEF Init, SeedIsComplete
<1>2. ASSUME SerialInv, SeedIsComplete, [SerialNext]_vars PROVE SeedIsComplete'
  <2>0. /\ updateLog \in [Docs -> Seq(Updates)] /\ seedPc \in [Docs -> {"no", "log", "done"}]
        /\ seedUps \in [Docs -> Seq(Updates)]
        /\ registry \in 0 .. created /\ created \in 0 .. MaxDocs
        /\ ConnsAttached /\ SeedsInOrder /\ JobsAttached /\ Stored
    BY <1>2 DEF SerialInv, Attachment, TypeOK, TypeDocs, TypeSeeds, TypeHub
  <2>1. ASSUME NEW d \in Docs, LoadUploads(d) PROVE SeedIsComplete'
    <3>1. /\ seedPc[d] = "log" /\ seedPc' = [seedPc EXCEPT ![d] = "done"]
          /\ seedUps' = [seedUps EXCEPT ![d] = uploads]
          /\ seedSnap' = seedSnap /\ updateLog' = updateLog
      BY <2>1 DEF LoadUploads, docVars
    <3>2. registry = d /\ d # None
      BY <2>0, <3>1, ConstantsAssumption DEF SeedsInOrder, Docs, None
    <3>3. ~Compacting
      BY <2>0, <3>1, <3>2 DEF Compacting, Late, JobsAttached, Active, Jobs
    <3>4. seedSnap[d] \cup Elems(uploads) = Accepted
      BY <2>0, <3>1, <3>2, <3>3 DEF Stored, SavedAll, SeedFollows, Durable
    <3>5. \A e \in Docs : Elems(updateLog[e]) \subseteq Accepted
      BY DEF Accepted
    <3>6. \A e \in 1 .. (d - 1) : e \in Docs
      BY ConstantsAssumption DEF Docs
    <3>7. seedUps'[d] = uploads /\ \A e \in Docs \ {d} : seedUps'[e] = seedUps[e] /\ seedPc'[e] = seedPc[e]
      BY <2>0, <3>1
    <3>8. ASSUME NEW f \in Docs, seedPc'[f] = "done", NEW e \in 1 .. (f - 1)
          PROVE  Elems(updateLog'[e]) \subseteq seedSnap'[f] \cup Elems(seedUps'[f])
      BY <1>2, <3>1, <3>4, <3>5, <3>6, <3>7, <3>8 DEF SeedIsComplete
    <3> QED
      BY <3>8 DEF SeedIsComplete
  <2>2. ASSUME NEW d \in Docs, LoadSnapshot(d) PROVE SeedIsComplete'
    BY <1>2, <2>0, <2>2 DEF LoadSnapshot, SeedIsComplete, docVars
  \* Only the newest instance logs, and nothing later is loaded.
  <2>3. ASSUME NEW c \in Conns, AppendUpdate(c) PROVE SeedIsComplete'
    <3>1. /\ pc[c] = "append" /\ UNCHANGED seedVars
          /\ \E u \in msg[c].ups : updateLog' = [updateLog EXCEPT ![at[c]] = Append(@, u)]
      BY <2>3 DEF AppendUpdate
    <3>2. at[c] = created
      BY <2>0, <3>1 DEF ConnsAttached, Attached
    <3>3. \A e \in Docs : e # created => updateLog'[e] = updateLog[e]
      BY <2>0, <3>1, <3>2
    <3>4. \A d \in Docs : seedPc[d] = "done" => d <= created
      BY <2>0 DEF SeedsInOrder, Docs
    <3>5. \A d \in Docs : \A e \in 1 .. (d - 1) : e \in Docs /\ (d <= created => e # created)
      BY <2>0, ConstantsAssumption DEF Docs
    <3> QED
      BY <1>2, <3>1, <3>3, <3>4, <3>5 DEF SeedIsComplete, seedVars
  <2>4. CASE UNCHANGED <<seedVars, updateLog>>
    BY <1>2, <2>4 DEF SeedIsComplete, seedVars
  <2>5. \/ UNCHANGED <<seedVars, updateLog>>
        \/ \E d \in Docs : LoadSnapshot(d) \/ LoadUploads(d)
        \/ \E c \in Conns : AppendUpdate(c)
    BY <1>2, LogSteps
  <2> QED
    BY <2>1, <2>2, <2>3, <2>4, <2>5
<1> QED
  BY <1>1, <1>2, SerialAlways, PTL DEF SerialSpec

\* hub.go's "no edits are lost" is kept while background work is serial, for
\* any number of clients, instances and updates: at rest, everything accepted
\* is in a bucket. (HubLosesEdits shows that overtaking breaks it.)
THEOREM NothingLostSerially == SerialSpec => []NoEditsLost
<1>1. SerialInv => NoEditsLost
  BY DEF SerialInv, Stored, SavedAll, NoEditsLost, Quiet
<1> QED
  BY <1>1, SerialAlways, PTL

\* What the abstract document promises of every closed one.
THEOREM ClosedDocuments == SerialSpec => []Doc!ClosedIsSaved
<1>1. ASSUME SerialInv PROVE Doc!ClosedIsSaved
  <2>1. SavedAll /\ SeedFollows
    BY <1>1 DEF SerialInv, Stored
  <2>2. CASE registry = None \/ Compacting \/ seedPc[registry] # "done"
    BY <2>1, <2>2 DEF SavedAll, Doc!ClosedIsSaved
  <2>3. CASE ~(registry = None \/ Compacting \/ seedPc[registry] # "done")
    BY <2>1, <2>3 DEF SeedFollows, Durable, Doc!ClosedIsSaved
  <2> QED
    BY <2>2, <2>3
<1> QED
  BY <1>1, SerialAlways, PTL

\* Every step of the hub is a step of the promised document, or changes
\* nothing it promises.
LEMMA DocumentStep ==
    ASSUME SerialInv, SerialNext, SerialInv'
    PROVE  Doc!Next \/ UNCHANGED Doc!vars
<1> USE ConstantsAssumption
<1>0. /\ ConnsAttached /\ JobsAttached /\ TypeOK /\ Serial /\ Stored /\ Stored'
      /\ jpc \in [Jobs -> JobPcs] /\ msg \in [Conns -> Message]
  BY DEF SerialInv, Attachment, TypeOK, TypeJobs, TypeConns
<1>1. Durable' \subseteq Accepted'
  <2>1. CASE (registry = None \/ Compacting \/ seedPc[registry] # "done")'
    BY <1>0, <2>1 DEF Stored, SavedAll
  <2>2. CASE ~(registry = None \/ Compacting \/ seedPc[registry] # "done")'
    BY <1>0, <2>2 DEF Stored, SeedFollows, Durable
  <2> QED
    BY <2>1, <2>2
\* The store only grows, by updates that were accepted.
<1>2. ASSUME UNCHANGED <<registry, updateLog>>, registry # None, Durable \subseteq Durable'
      PROVE  Doc!Next
  <2>1. Accepted' = Accepted
    BY <1>2 DEF Accepted
  <2>2. Doc!Save(Durable')
    BY <1>2, <2>1 DEF Doc!Save
  <2>3. Durable' \in SUBSET Accepted
    BY <1>1, <2>1
  <2> QED
    BY <2>2, <2>3 DEF Doc!Next
<1>3. ASSUME NEW c \in Conns, Connect(c) \/ ReceiveUpdate(c) \/ LeaveLookup(c)
                              \/ \E k \in {"awareness", "step1"} : ReceiveChatter(c, k)
      PROVE  Doc!Next \/ UNCHANGED Doc!vars
  <2>1. UNCHANGED <<updateLog, storeVars>>
    BY <1>3 DEF Connect, ReceiveUpdate, LeaveLookup, ReceiveChatter, docVars
  <2>2. PICK d \in Docs : GetOrCreate(d)
    BY <1>3 DEF Connect, ReceiveUpdate, LeaveLookup, ReceiveChatter
  <2>3. registry' = d /\ d # None
    BY <1>0, <2>2, GotRegistered DEF Docs, None
  <2>4. Accepted' = Accepted /\ Durable' = Durable
    BY <2>1 DEF Accepted, Durable, storeVars
  <2>5. CASE registry = None
    <3>1. Doc!Open
      BY <2>3, <2>4, <2>5 DEF Doc!Open
    <3> QED
      BY <3>1 DEF Doc!Next
  <2>6. CASE registry # None
    BY <2>3, <2>4, <2>6 DEF Doc!vars
  <2> QED
    BY <2>5, <2>6
<1>4. ASSUME NEW c \in Conns, AppendUpdate(c) PROVE Doc!Next
  <2>1. pc[c] = "append" /\ UNCHANGED <<registry, seedVars, storeVars>>
    BY <1>4 DEF AppendUpdate, hubVars
  <2>2. PICK u \in Updates : updateLog' = [updateLog EXCEPT ![at[c]] = Append(@, u)]
    BY <1>0, <1>4 DEF AppendUpdate, Message
  <2>3. registry # None /\ at[c] \in Docs
    BY <1>0, <2>1 DEF ConnsAttached, Attached, TypeOK, TypeConns
  <2>4. Accepted' = Accepted \cup {u}
    BY <1>0, <2>1, <2>2, <2>3, LoggedAppend DEF seedVars
  <2>5. Durable' = Durable
    BY <2>1 DEF Durable, storeVars
  <2>6. Doc!Accept(u)
    BY <2>1, <2>3, <2>4, <2>5 DEF Doc!Accept
  <2> QED
    BY <2>6 DEF Doc!Next
<1>5. ASSUME NEW j \in Jobs, Put(j) PROVE Doc!Next
  <2>1. jpc[j] = "put" /\ uploads' = jbuf[j] /\ UNCHANGED <<registry, updateLog, snapshot>>
    BY <1>5 DEF Put, hubVars, docVars
  <2>2. registry # None
    BY <1>0, <2>1 DEF JobsAttached, Active
  <2>3. Elems(uploads) \subseteq Elems(jbuf[j])
    BY <1>0, <2>1 DEF Stored, UploadsFollow
  <2> QED
    BY <1>2, <2>1, <2>2, <2>3 DEF Durable
<1>6. ASSUME NEW j \in Jobs, Compact(j) \/ CompactionFails(j) PROVE Doc!Next
  <2>1. UNCHANGED <<registry, updateLog>>
    BY <1>6 DEF Compact, ReadBase, ReadRaw, WriteSnapshot, DeleteUploads, CompactionFails, hubVars, docVars
  <2>2. jpc[j] \in Late
    BY <1>6 DEF Compact, ReadBase, ReadRaw, WriteSnapshot, DeleteUploads, CompactionFails, Late
  <2>3. j \in Conns /\ registry # None
    BY <1>0, <2>2 DEF JobsAttached, Active, Late, Jobs
  <2>4. Compacting /\ Compacting'
    <3>1. \E p \in {"raw", "store", "delete", "evict"} : jpc' = [jpc EXCEPT ![j] = p]
      BY <1>6 DEF Compact, ReadBase, ReadRaw, WriteSnapshot, DeleteUploads, CompactionFails
    <3> QED
      BY <1>0, <2>2, <2>3, <3>1 DEF Compacting, Late
  <2>5. Durable = Accepted /\ Durable' = Accepted'
    BY <1>0, <2>4 DEF Stored, SavedAll
  <2>6. Durable \subseteq Durable'
    BY <2>1, <2>5 DEF Accepted
  <2> QED
    BY <1>2, <2>1, <2>3, <2>6
\* Eviction: only of a document all of which is saved.
<1>7. ASSUME NEW j \in Jobs, RemoveIfEmpty(j) PROVE Doc!Next \/ UNCHANGED Doc!vars
  <2>1. /\ jpc[j] = "evict" /\ (registry' = None \/ registry' = registry)
        /\ UNCHANGED <<updateLog, storeVars>>
    BY <1>7 DEF RemoveIfEmpty, docVars
  <2>2. registry # None /\ Compacting
    BY <1>0, <2>1 DEF JobsAttached, Active, Late, Jobs, Compacting
  <2>3. Durable = Accepted /\ Accepted' = Accepted /\ Durable' = Durable
    BY <1>0, <2>1, <2>2 DEF Stored, SavedAll, Accepted, Durable, storeVars
  <2>4. CASE registry' = None
    <3>1. Doc!Close
      BY <2>2, <2>3, <2>4 DEF Doc!Close
    <3> QED
      BY <3>1 DEF Doc!Next
  <2>5. CASE registry' = registry
    BY <2>3, <2>5 DEF Doc!vars
  <2> QED
    BY <2>1, <2>4, <2>5
<1>8. CASE UNCHANGED <<registry, updateLog, storeVars>>
  BY <1>8 DEF Doc!vars, Accepted, Durable, storeVars
<1>9. ASSUME NEW c \in Conns,
             \/ SeedClient(c) \/ Join(c) \/ Announce(c) \/ StartPumps(c) \/ CacheAwareness(c)
             \/ Broadcast(c) \/ ScheduleUpload(c) \/ Unregister(c) \/ WritePump(c) \/ Drop(c)
      PROVE  UNCHANGED <<registry, updateLog, storeVars>>
  BY <1>9 DEF SeedClient, Join, Announce, StartPumps, CacheAwareness, Broadcast, ScheduleUpload, Unregister, WritePump, PumpWrite, PumpExit, Drop, hubVars, docVars
<1>10. ASSUME NEW d \in Docs, Load(d) PROVE UNCHANGED <<registry, updateLog, storeVars>>
  BY <1>10 DEF Load, LoadSnapshot, LoadUploads, hubVars, docVars
<1>11. ASSUME NEW u \in Updates, TimerFires(u) PROVE UNCHANGED <<registry, updateLog, storeVars>>
  BY <1>11 DEF TimerFires, hubVars, docVars
<1>12. ASSUME NEW j \in Jobs, BuildBlob(j) PROVE UNCHANGED <<registry, updateLog, storeVars>>
  BY <1>12 DEF BuildBlob, hubVars, docVars
<1> QED
  BY <1>3, <1>4, <1>5, <1>6, <1>7, <1>8, <1>9, <1>10, <1>11, <1>12
  DEF SerialNext, Register, HandleMessage, Leave, Upload

\* While background work is serial the hub, with its clients, channels, timers,
\* uploads and compactions, implements the document it promises, for any
\* number of clients, instances and updates: nothing saved is lost, and a
\* document is evicted only when everything accepted is saved.
THEOREM HubImplementsDocument == SerialSpec => ImplementsDocument
<1>1. Init => Doc!Init
  <2> SUFFICES ASSUME Init PROVE Doc!Init
    OBVIOUS
  <2>1. \A d \in Docs : Elems(updateLog[d]) = {}
    BY DEF Init, Elems
  <2>2. snapshot = {} /\ Elems(uploads) = {}
    BY DEF Init, Elems
  <2>3. (registry # None) = FALSE
    BY DEF Init
  <2> QED
    BY <2>1, <2>2, <2>3 DEF Doc!Init, Accepted, Durable
<1>2. SerialInv /\ SerialInv' /\ [SerialNext]_vars => [Doc!Next]_(Doc!vars)
  <2> SUFFICES ASSUME SerialInv, SerialInv', [SerialNext]_vars PROVE [Doc!Next]_(Doc!vars)
    OBVIOUS
  <2>1. CASE SerialNext
    BY <2>1, DocumentStep
  <2>2. CASE UNCHANGED vars
    BY <2>2 DEF vars, hubVars, docVars, storeVars, Doc!vars, Accepted, Durable
  <2> QED
    BY <2>1, <2>2
<1> QED
  BY <1>1, <1>2, SerialAlways, PTL DEF SerialSpec, ImplementsDocument, Doc!Spec

=============================================================================

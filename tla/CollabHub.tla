----------------------------- MODULE CollabHub -----------------------------
(***************************************************************************)
(* The collaboration hub of collab-service for one document id: the        *)
(* registry of open Document instances, the websocket connections that     *)
(* register with them, the relay of Yjs messages, the debounced and final  *)
(* uploads of the update log, and the compaction request a final upload    *)
(* ends with.                                                              *)
(*                                                                         *)
(* Yjs updates are opaque to the hub, commutative and idempotent, so an    *)
(* update is a number, given out in the order the updates are sent; a      *)
(* stored snapshot is the set of updates merged into it and a stored log   *)
(* is the sequence of its length-prefixed entries.                         *)
(*                                                                         *)
(* Every lock-protected region, channel operation and HTTP request of the  *)
(* Go code is one step; everything between two of them may be interleaved. *)
(***************************************************************************)
EXTENDS Naturals, Sequences, FiniteSets

CONSTANTS
    Conns,       \* websocket connections (*client.Client); each is used once
    Writers,     \* those whose role is owner or editor
    MaxDocs,     \* bound: Document instances created for the document id
    SendCap,     \* capacity of a client's Send channel (512 in the code)
    MaxUpdates,  \* bound: document updates clients send
    MaxMessages, \* bound: these, awareness and sync-step-1 messages together
    MaxFaults    \* bound: failed requests and crashes

ASSUME ConstantsAssumption ==
    /\ Writers \subseteq Conns
    /\ Conns \cap Nat = {}
    /\ MaxDocs \in Nat
    /\ SendCap \in Nat \ {0}
    /\ MaxUpdates \in Nat
    /\ MaxMessages \in Nat
    /\ MaxFaults \in Nat

Docs == 1 .. MaxDocs
Updates == 1 .. MaxUpdates
None == 0

\* An upload goroutine is named for what started it: the timer armed for an
\* update, or the Unregister of a connection.
Jobs == Updates \cup Conns

Message == [kind : {"sync", "step1", "awareness"}, ups : SUBSET Updates]
SyncMsg(S) == [kind |-> "sync", ups |-> S]
Chatter(k) == [kind |-> k, ups |-> {}]

Elems(s) == {s[i] : i \in 1 .. Len(s)}

\* CanWrite without the role check.
CanWriteAlways(c) == c \in Conns
CanWrite(c) == c \in Writers

-----------------------------------------------------------------------------

VARIABLES
    \* The Hub.
    registry,    \* instance registered for the id, or None
    created,     \* how many instances GetOrCreate has made
    \* The fields of each Document instance.
    clients, awareness, updateLog,
    seedPc,      \* progress of the instance's Seeder.Load
    seedSnap, seedUps,
    timer,       \* the armed or expired timer debounceTimer refers to, or None
    \* Each connection: its goroutine, the *Document it holds, its channel.
    pc, at, msg,
    pending,     \* peers whose cached awareness Register has yet to send
    send, closed, sock, pump,
    recv,        \* updates the client behind the connection has
    \* Upload goroutines.
    jpc, jdoc, jbuf, jbase,
    \* The buckets "snapshot" and "uploads" of the object store.
    snapshot, uploads,
    \* Histories and bounds.
    author,      \* author[u] is the connection that sent update u
    chatter, faults

hubVars   == <<registry, created>>
docVars   == <<clients, awareness, updateLog, timer>>
seedVars  == <<seedPc, seedSnap, seedUps>>
connVars  == <<pc, at, msg, pending>>
chanVars  == <<send, closed>>
netVars   == <<sock, pump, recv>>
jobVars   == <<jpc, jdoc, jbuf, jbase>>
storeVars == <<snapshot, uploads>>
envVars   == <<author, chatter, faults>>
vars == <<hubVars, docVars, seedVars, connVars, chanVars, netVars, jobVars,
          storeVars, envVars>>

Init ==
    /\ registry = None
    /\ created = 0
    /\ clients = [d \in Docs |-> {}]
    /\ awareness = [d \in Docs |-> {}]
    /\ updateLog = [d \in Docs |-> <<>>]
    /\ timer = [d \in Docs |-> None]
    /\ seedPc = [d \in Docs |-> "no"]
    /\ seedSnap = [d \in Docs |-> {}]
    /\ seedUps = [d \in Docs |-> <<>>]
    /\ pc = [c \in Conns |-> "new"]
    /\ at = [c \in Conns |-> None]
    /\ msg = [c \in Conns |-> SyncMsg({})]
    /\ pending = [c \in Conns |-> {}]
    /\ send = [c \in Conns |-> <<>>]
    /\ closed = [c \in Conns |-> FALSE]
    /\ sock = [c \in Conns |-> FALSE]
    /\ pump = [c \in Conns |-> FALSE]
    /\ recv = [c \in Conns |-> {}]
    /\ jpc = [j \in Jobs |-> "idle"]
    /\ jdoc = [j \in Jobs |-> None]
    /\ jbuf = [j \in Jobs |-> <<>>]
    /\ jbase = [j \in Jobs |-> {}]
    /\ snapshot = {}
    /\ uploads = <<>>
    /\ author = <<>>
    /\ chatter = 0
    /\ faults = 0

-----------------------------------------------------------------------------
(***************************************************************************)
(* Steps of a connection's goroutine: ServeHTTP and Register, then the     *)
(* read pump.                                                              *)
(***************************************************************************)

\* The hub's mutex is held for the whole lookup; a missing entry is created.
GetOrCreate(d) ==
    \/ /\ registry # None
       /\ d = registry
       /\ UNCHANGED hubVars
    \/ /\ registry = None
       /\ created < MaxDocs
       /\ d = created + 1
       /\ registry' = d
       /\ created' = d

\* ServeHTTP after the access check: upgrade, then Register looks up the
\* document.
Connect(c) ==
    /\ pc[c] = "new"
    /\ \E d \in Docs :
        /\ GetOrCreate(d)
        /\ at' = [at EXCEPT ![c] = d]
    /\ pc' = [pc EXCEPT ![c] = "load"]
    /\ sock' = [sock EXCEPT ![c] = TRUE]
    /\ UNCHANGED <<docVars, seedVars, msg, pending, chanVars, pump, recv,
                   jobVars, storeVars, envVars>>

\* What seedClient sends: the snapshot, the entries of the stored log, then
\* the in-memory log.
SeedMessages(d) ==
    (IF seedSnap[d] = {} THEN <<>> ELSE <<SyncMsg(seedSnap[d])>>)
        \o [i \in 1 .. Len(seedUps[d]) |-> SyncMsg({seedUps[d][i]})]
        \o [i \in 1 .. Len(updateLog[d]) |-> SyncMsg({updateLog[d][i]})]

\* seedClient once Load has returned: copy the log under the read lock and
\* send. Nobody receives from the channel before Register returns, so a seed
\* longer than the channel blocks Register for good ("stuck").
SeedClient(c) ==
    LET ms == SeedMessages(at[c]) IN
    /\ pc[c] = "load"
    /\ seedPc[at[c]] = "done"
    /\ IF Len(ms) <= SendCap
       THEN /\ pc' = [pc EXCEPT ![c] = "join"]
            /\ send' = [send EXCEPT ![c] = ms]
       ELSE /\ pc' = [pc EXCEPT ![c] = "stuck"]
            /\ send' = [send EXCEPT ![c] = SubSeq(ms, 1, SendCap)]
    /\ UNCHANGED <<hubVars, docVars, seedVars, at, msg, pending, closed,
                   netVars, jobVars, storeVars, envVars>>

\* The critical section of Register.
Join(c) ==
    /\ pc[c] = "join"
    /\ clients' = [clients EXCEPT ![at[c]] = @ \cup {c}]
    /\ pending' = [pending EXCEPT ![c] = awareness[at[c]] \ {c}]
    /\ pc' = [pc EXCEPT ![c] = "announce"]
    /\ UNCHANGED <<hubVars, awareness, updateLog, timer, seedVars, at, msg,
                   chanVars, netVars, jobVars, storeVars, envVars>>

\* One blocking send of a cached awareness state.
Announce(c) ==
    /\ pc[c] = "announce"
    /\ Len(send[c]) < SendCap
    /\ \E p \in pending[c] : pending' = [pending EXCEPT ![c] = @ \ {p}]
    /\ send' = [send EXCEPT ![c] = Append(@, Chatter("awareness"))]
    /\ UNCHANGED <<hubVars, docVars, seedVars, pc, at, msg, closed, netVars,
                   jobVars, storeVars, envVars>>

\* Register returns and ServeHTTP starts both pumps.
StartPumps(c) ==
    /\ pc[c] = "announce"
    /\ pending[c] = {}
    /\ pc' = [pc EXCEPT ![c] = "read"]
    /\ pump' = [pump EXCEPT ![c] = TRUE]
    /\ UNCHANGED <<hubVars, docVars, seedVars, at, msg, pending, chanVars,
                   sock, recv, jobVars, storeVars, envVars>>

\* ReadPump hands a document update to HandleMessage, which looks up the
\* document again and drops what a viewer sends.
ReceiveUpdate(c) ==
    LET u == Len(author) + 1 IN
    /\ pc[c] = "read"
    /\ sock[c]
    /\ u \in Updates /\ Len(author) + chatter < MaxMessages
    /\ \E d \in Docs :
        /\ GetOrCreate(d)
        /\ at' = [at EXCEPT ![c] = d]
    /\ author' = Append(author, c)
    /\ recv' = [recv EXCEPT ![c] = @ \cup {u}]
    /\ IF CanWrite(c)
       THEN /\ pc' = [pc EXCEPT ![c] = "append"]
            /\ msg' = [msg EXCEPT ![c] = SyncMsg({u})]
       ELSE UNCHANGED <<pc, msg>>
    /\ UNCHANGED <<docVars, seedVars, pending, chanVars, sock, pump, jobVars,
                   storeVars, chatter, faults>>

\* The same for an awareness message, kept for later joiners, and for a
\* sync-step-1 request, only relayed.
ReceiveChatter(c, k) ==
    /\ pc[c] = "read"
    /\ sock[c]
    /\ Len(author) + chatter < MaxMessages
    /\ chatter' = chatter + 1
    /\ \E d \in Docs :
        /\ GetOrCreate(d)
        /\ at' = [at EXCEPT ![c] = d]
    /\ msg' = [msg EXCEPT ![c] = Chatter(k)]
    /\ pc' = [pc EXCEPT ![c] = IF k = "awareness" THEN "awareness"
                                                  ELSE "broadcast"]
    /\ UNCHANGED <<docVars, seedVars, pending, chanVars, netVars, jobVars,
                   storeVars, author, faults>>

CacheAwareness(c) ==
    /\ pc[c] = "awareness"
    /\ awareness' = [awareness EXCEPT ![at[c]] = @ \cup {c}]
    /\ pc' = [pc EXCEPT ![c] = "broadcast"]
    /\ UNCHANGED <<hubVars, clients, updateLog, timer, seedVars, at, msg,
                   pending, chanVars, netVars, jobVars, storeVars, envVars>>

\* The update is logged, under the lock.
AppendUpdate(c) ==
    /\ pc[c] = "append"
    /\ \E u \in msg[c].ups :
        updateLog' = [updateLog EXCEPT ![at[c]] = Append(@, u)]
    /\ pc' = [pc EXCEPT ![c] = "broadcast"]
    /\ UNCHANGED <<hubVars, clients, awareness, timer, seedVars, at, msg,
                   pending, chanVars, netVars, jobVars, storeVars, envVars>>

\* Broadcast and BroadcastPayload: every member but the sender, and a member
\* whose channel is full misses the message.
ReceiversIgnoringCap(c) == clients[at[c]] \ {c}
Receivers(c) == {p \in clients[at[c]] \ {c} : Len(send[p]) < SendCap}

Broadcast(c) ==
    /\ pc[c] = "broadcast"
    /\ send' = [p \in Conns |-> IF p \in Receivers(c)
                                THEN Append(send[p], msg[c])
                                ELSE send[p]]
    /\ pc' = [pc EXCEPT ![c] = IF msg[c].kind = "sync" THEN "schedule"
                                                       ELSE "read"]
    /\ UNCHANGED <<hubVars, docVars, seedVars, at, msg, pending, closed,
                   netVars, jobVars, storeVars, envVars>>

\* Timer.Stop: it prevents a timer from firing and has no effect on one that
\* has fired.
NothingStopped(d) == jpc
Stopped(d) ==
    IF timer[d] # None /\ jpc[timer[d]] = "armed"
    THEN [jpc EXCEPT ![timer[d]] = "stopped"]
    ELSE jpc

ScheduleUpload(c) ==
    LET d == at[c] IN
    /\ pc[c] = "schedule"
    /\ \E u \in msg[c].ups :
        /\ timer' = [timer EXCEPT ![d] = u]
        /\ jpc' = [Stopped(d) EXCEPT ![u] = "armed"]
        /\ jdoc' = [jdoc EXCEPT ![u] = d]
    /\ pc' = [pc EXCEPT ![c] = "read"]
    /\ UNCHANGED <<hubVars, clients, awareness, updateLog, seedVars, at, msg,
                   pending, chanVars, netVars, jbuf, jbase, storeVars, envVars>>

\* ReadMessage fails and the deferred Unregister looks up the document.
LeaveLookup(c) ==
    /\ pc[c] = "read"
    /\ ~sock[c]
    /\ \E d \in Docs :
        /\ GetOrCreate(d)
        /\ at' = [at EXCEPT ![c] = d]
    /\ pc' = [pc EXCEPT ![c] = "leave"]
    /\ UNCHANGED <<docVars, seedVars, msg, pending, chanVars, netVars,
                   jobVars, storeVars, envVars>>

\* The members after the deletion, and a deletion that was forgotten.
StillThere(d, c) == clients[d]
Remaining(d, c) == clients[d] \ {c}

\* The critical section of Unregister. The document found may not be the one
\* the client joined; then nothing is done and the channel stays open.
Unregister(c) ==
    LET d == at[c] IN
    /\ pc[c] = "leave"
    /\ pc' = [pc EXCEPT ![c] = "gone"]
    /\ IF c \in clients[d]
       THEN /\ clients' = [clients EXCEPT ![d] = Remaining(d, c)]
            /\ awareness' = [awareness EXCEPT ![d] = @ \ {c}]
            /\ timer' = [timer EXCEPT ![d] = None]
            /\ closed' = [closed EXCEPT ![c] = TRUE]
            /\ IF Remaining(d, c) = {}
               THEN /\ jpc' = [Stopped(d) EXCEPT ![c] = "upload"]
                    /\ jdoc' = [jdoc EXCEPT ![c] = d]
               ELSE /\ jpc' = Stopped(d)
                    /\ UNCHANGED jdoc
       ELSE UNCHANGED <<clients, awareness, timer, closed, jpc, jdoc>>
    /\ UNCHANGED <<hubVars, updateLog, seedVars, at, msg, pending, send,
                   netVars, jbuf, jbase, storeVars, envVars>>

-----------------------------------------------------------------------------
(***************************************************************************)
(* The write pump and the network.                                         *)
(***************************************************************************)

\* A message is written to the socket, or the write fails and the pump ends.
PumpWrite(c) ==
    /\ pump[c]
    /\ send[c] # <<>>
    /\ send' = [send EXCEPT ![c] = Tail(@)]
    /\ IF sock[c]
       THEN /\ recv' = [recv EXCEPT ![c] = @ \cup Head(send[c]).ups]
            /\ UNCHANGED pump
       ELSE /\ pump' = [pump EXCEPT ![c] = FALSE]
            /\ UNCHANGED recv
    /\ UNCHANGED <<hubVars, docVars, seedVars, connVars, closed, sock, jobVars,
                   storeVars, envVars>>

\* The channel is closed and drained, or a ping fails: the pump closes the
\* connection and ends.
PumpExitWithoutPing(c) ==
    /\ pump[c]
    /\ closed[c] /\ send[c] = <<>>
    /\ pump' = [pump EXCEPT ![c] = FALSE]
    /\ sock' = [sock EXCEPT ![c] = FALSE]
    /\ UNCHANGED <<hubVars, docVars, seedVars, connVars, chanVars, recv,
                   jobVars, storeVars, envVars>>
PumpExit(c) ==
    /\ pump[c]
    /\ \/ closed[c] /\ send[c] = <<>>
       \/ ~sock[c]
    /\ pump' = [pump EXCEPT ![c] = FALSE]
    /\ sock' = [sock EXCEPT ![c] = FALSE]
    /\ UNCHANGED <<hubVars, docVars, seedVars, connVars, chanVars, recv,
                   jobVars, storeVars, envVars>>

\* The peer leaves, or a read or write deadline passes. Before the pumps start
\* nobody looks at the socket, so an earlier loss shows only then.
Drop(c) ==
    /\ sock[c]
    /\ pump[c]
    /\ sock' = [sock EXCEPT ![c] = FALSE]
    /\ UNCHANGED <<hubVars, docVars, seedVars, connVars, chanVars, pump, recv,
                   jobVars, storeVars, envVars>>

-----------------------------------------------------------------------------
(***************************************************************************)
(* Seeder.Load, run once per Document instance by whichever goroutine      *)
(* calls it first while the others wait.                                   *)
(***************************************************************************)

LoadWanted(d) ==
    \/ \E c \in Conns : pc[c] = "load" /\ at[c] = d
    \/ \E j \in Jobs : jpc[j] = "upload" /\ jdoc[j] = d

LoadSnapshot(d) ==
    /\ seedPc[d] = "no"
    /\ LoadWanted(d)
    /\ seedSnap' = [seedSnap EXCEPT ![d] = snapshot]
    /\ seedPc' = [seedPc EXCEPT ![d] = "log"]
    /\ UNCHANGED <<hubVars, docVars, seedUps, connVars, chanVars, netVars,
                   jobVars, storeVars, envVars>>

\* A download that is not kept by the sync.Once, and the one that is.
LoadUploadsAgain(d) ==
    /\ seedPc[d] \in {"log", "done"}
    /\ seedUps' = [seedUps EXCEPT ![d] = uploads]
    /\ seedPc' = [seedPc EXCEPT ![d] = "done"]
    /\ UNCHANGED <<hubVars, docVars, seedSnap, connVars, chanVars, netVars,
                   jobVars, storeVars, envVars>>
LoadUploads(d) ==
    /\ seedPc[d] = "log"
    /\ seedUps' = [seedUps EXCEPT ![d] = uploads]
    /\ seedPc' = [seedPc EXCEPT ![d] = "done"]
    /\ UNCHANGED <<hubVars, docVars, seedSnap, connVars, chanVars, netVars,
                   jobVars, storeVars, envVars>>

-----------------------------------------------------------------------------
(***************************************************************************)
(* Upload goroutines: the debounce timer's, which ends after the PUT, and  *)
(* the last client's, which goes on to ask for compaction and to evict.    *)
(***************************************************************************)

TimerFires(u) ==
    /\ jpc[u] = "armed"
    /\ jpc' = [jpc EXCEPT ![u] = "upload"]
    /\ UNCHANGED <<hubVars, docVars, seedVars, connVars, chanVars, netVars,
                   jdoc, jbuf, jbase, storeVars, envVars>>

\* Where a goroutine goes when its upload() returns, whatever the outcome.
AfterUpload(j) == IF j \in Conns THEN "base" ELSE "done"

BlobWithoutSeed(d) == updateLog[d]
Blob(d) == seedUps[d] \o updateLog[d]

\* upload: copy the log under the read lock and build the blob.
BuildBlob(j) ==
    LET blob == Blob(jdoc[j]) IN
    /\ jpc[j] = "upload"
    /\ seedPc[jdoc[j]] = "done"
    /\ jbuf' = [jbuf EXCEPT ![j] = blob]
    /\ jpc' = [jpc EXCEPT ![j] = IF blob = <<>> THEN AfterUpload(j) ELSE "put"]
    /\ UNCHANGED <<hubVars, docVars, seedVars, connVars, chanVars, netVars,
                   jdoc, jbase, storeVars, envVars>>

Put(j) ==
    /\ jpc[j] = "put"
    /\ uploads' = jbuf[j]
    /\ jpc' = [jpc EXCEPT ![j] = AfterUpload(j)]
    /\ UNCHANGED <<hubVars, docVars, seedVars, connVars, chanVars, netVars,
                   jdoc, jbuf, jbase, snapshot, envVars>>

\* Compaction, requested by FileRoomEmpty: projects-service asks
\* file-data-service to read both objects and write the merged snapshot, and
\* then deletes the log.
ReadBase(j) ==
    /\ jpc[j] = "base"
    /\ jbase' = [jbase EXCEPT ![j] = snapshot]
    /\ jpc' = [jpc EXCEPT ![j] = "raw"]
    /\ UNCHANGED <<hubVars, docVars, seedVars, connVars, chanVars, netVars,
                   jdoc, jbuf, storeVars, envVars>>

MergedWithoutLog(j) == jbase[j]
Merged(j) == jbase[j] \cup Elems(uploads)

\* An absent log is a download error and ends the compaction.
ReadRaw(j) ==
    /\ jpc[j] = "raw"
    /\ jbase' = [jbase EXCEPT ![j] = Merged(j)]
    /\ jpc' = [jpc EXCEPT ![j] = IF uploads = <<>> THEN "evict" ELSE "store"]
    /\ UNCHANGED <<hubVars, docVars, seedVars, connVars, chanVars, netVars,
                   jdoc, jbuf, storeVars, envVars>>

WriteSnapshot(j) ==
    /\ jpc[j] = "store"
    /\ snapshot' = jbase[j]
    /\ jpc' = [jpc EXCEPT ![j] = "delete"]
    /\ UNCHANGED <<hubVars, docVars, seedVars, connVars, chanVars, netVars,
                   jdoc, jbuf, jbase, uploads, envVars>>

DeleteUploads(j) ==
    /\ jpc[j] = "delete"
    /\ uploads' = <<>>
    /\ jpc' = [jpc EXCEPT ![j] = "evict"]
    /\ UNCHANGED <<hubVars, docVars, seedVars, connVars, chanVars, netVars,
                   jdoc, jbuf, jbase, snapshot, envVars>>

\* removeIfEmpty: the members of the goroutine's own instance are counted, the
\* entry is deleted by document id.
RemoveIfEmpty(j) ==
    /\ jpc[j] = "evict"
    /\ registry' = IF clients[jdoc[j]] = {} THEN None ELSE registry
    /\ jpc' = [jpc EXCEPT ![j] = "done"]
    /\ UNCHANGED <<created, docVars, seedVars, connVars, chanVars, netVars,
                   jdoc, jbuf, jbase, storeVars, envVars>>

-----------------------------------------------------------------------------
(***************************************************************************)
(* Failed requests and process crashes, at most MaxFaults of them.         *)
(***************************************************************************)

Fault ==
    /\ faults < MaxFaults
    /\ faults' = faults + 1

\* Load returns early, or one of its two downloads fails: the error is logged
\* and what is missing stays empty for the life of the instance.
LoadFails(d) ==
    /\ Fault
    /\ \/ /\ seedPc[d] = "no"
          /\ LoadWanted(d)
          /\ \E next \in {"log", "done"} : seedPc' = [seedPc EXCEPT ![d] = next]
       \/ /\ seedPc[d] = "log"
          /\ seedPc' = [seedPc EXCEPT ![d] = "done"]
    /\ UNCHANGED <<hubVars, docVars, seedSnap, seedUps, connVars, chanVars,
                   netVars, jobVars, storeVars, author, chatter>>

\* The presigned URL or the PUT itself fails; the error is only logged.
PutFails(j) ==
    /\ Fault
    /\ jpc[j] = "put"
    /\ jpc' = [jpc EXCEPT ![j] = AfterUpload(j)]
    /\ UNCHANGED <<hubVars, docVars, seedVars, connVars, chanVars, netVars,
                   jdoc, jbuf, jbase, storeVars, author, chatter>>

\* Any failed download of the base snapshot is taken for an absent snapshot.
ReadBaseFails(j) ==
    /\ Fault
    /\ jpc[j] = "base"
    /\ jbase' = [jbase EXCEPT ![j] = {}]
    /\ jpc' = [jpc EXCEPT ![j] = "raw"]
    /\ UNCHANGED <<hubVars, docVars, seedVars, connVars, chanVars, netVars,
                   jdoc, jbuf, storeVars, author, chatter>>

\* The compaction request, a later download or upload of it, or the deletion
\* fails: FileRoomEmpty's error is ignored and the goroutine goes on to evict.
\* A reply can be lost after the snapshot has been written.
CompactionFails(j) ==
    /\ Fault
    /\ jpc[j] \in {"base", "raw", "store", "delete"}
    /\ jpc' = [jpc EXCEPT ![j] = "evict"]
    /\ UNCHANGED <<hubVars, docVars, seedVars, connVars, chanVars, netVars,
                   jdoc, jbuf, jbase, storeVars, author, chatter>>

\* The process stops: connections, channels, timers and goroutines are gone.
Crash ==
    /\ Fault
    /\ registry' = None
    /\ clients' = [d \in Docs |-> {}]
    /\ pc' = [c \in Conns |-> IF pc[c] = "new" THEN "new" ELSE "gone"]
    /\ sock' = [c \in Conns |-> FALSE]
    /\ pump' = [c \in Conns |-> FALSE]
    /\ pending' = [c \in Conns |-> {}]
    /\ send' = [c \in Conns |-> <<>>]
    /\ timer' = [d \in Docs |-> None]
    /\ jpc' = [j \in Jobs |-> IF jpc[j] = "idle" THEN "idle" ELSE "done"]
    /\ UNCHANGED <<created, awareness, updateLog, seedVars, at, msg, closed,
                   recv, jdoc, jbuf, jbase, storeVars, author, chatter>>

-----------------------------------------------------------------------------

Register(c) ==
    \/ Connect(c) \/ SeedClient(c) \/ Join(c) \/ Announce(c) \/ StartPumps(c)

HandleMessage(c) ==
    \/ ReceiveUpdate(c)
    \/ \E k \in {"awareness", "step1"} : ReceiveChatter(c, k)
    \/ CacheAwareness(c) \/ AppendUpdate(c) \/ Broadcast(c) \/ ScheduleUpload(c)

Leave(c) == LeaveLookup(c) \/ Unregister(c)

WritePump(c) == PumpWrite(c) \/ PumpExit(c)

Load(d) == LoadSnapshot(d) \/ LoadUploads(d)

Upload(j) == BuildBlob(j) \/ Put(j)

Compact(j) == ReadBase(j) \/ ReadRaw(j) \/ WriteSnapshot(j) \/ DeleteUploads(j)

Faults ==
    \/ \E d \in Docs : LoadFails(d)
    \/ \E j \in Jobs : PutFails(j) \/ ReadBaseFails(j) \/ CompactionFails(j)
    \/ Crash

Next ==
    \/ \E c \in Conns : \/ Register(c) \/ HandleMessage(c) \/ Leave(c)
                        \/ WritePump(c) \/ Drop(c)
    \/ \E d \in Docs : Load(d)
    \/ \E u \in Updates : TimerFires(u)
    \/ \E j \in Jobs : Upload(j) \/ Compact(j) \/ RemoveIfEmpty(j)
    \/ Faults

Spec == Init /\ [][Next]_vars

\* Goroutines that can run do run: the Go scheduler is fair to them, and timers
\* expire. No fairness of Load, Put and Compact: their HTTP clients have no
\* timeout, so that a request may never return. What clients send, when they
\* connect or leave, and faults are up to the environment.
Fairness ==
    /\ \A c \in Conns :
        /\ WF_vars(SeedClient(c) \/ Join(c) \/ Announce(c) \/ StartPumps(c))
        /\ WF_vars(CacheAwareness(c) \/ AppendUpdate(c) \/ Broadcast(c)
                    \/ ScheduleUpload(c))
        /\ WF_vars(Leave(c))
        /\ WF_vars(WritePump(c))
    /\ \A u \in Updates : WF_vars(TimerFires(u))
    /\ \A j \in Jobs : WF_vars(BuildBlob(j) \/ RemoveIfEmpty(j))

FairSpec == Spec /\ Fairness

-----------------------------------------------------------------------------
(***************************************************************************)
(* Properties that hold of every behaviour, faults and crashes included.   *)
(***************************************************************************)

ConnPcs == {"new", "load", "stuck", "join", "announce", "read", "awareness",
            "append", "broadcast", "schedule", "leave", "gone"}
JobPcs == {"idle", "armed", "stopped", "upload", "put", "base", "raw",
           "store", "delete", "evict", "done"}

TypeHub ==
    /\ created \in 0 .. MaxDocs
    /\ registry \in 0 .. created

TypeDocs ==
    /\ clients \in [Docs -> SUBSET Conns]
    /\ awareness \in [Docs -> SUBSET Conns]
    /\ updateLog \in [Docs -> Seq(Updates)]
    /\ timer \in [Docs -> Updates \cup {None}]

TypeSeeds ==
    /\ seedPc \in [Docs -> {"no", "log", "done"}]
    /\ seedSnap \in [Docs -> SUBSET Updates]
    /\ seedUps \in [Docs -> Seq(Updates)]

TypeConns ==
    /\ pc \in [Conns -> ConnPcs]
    /\ at \in [Conns -> Docs \cup {None}]
    /\ \A c \in Conns : pc[c] \notin {"new", "gone"} => at[c] \in Docs
    /\ msg \in [Conns -> Message]
    /\ pending \in [Conns -> SUBSET Conns]

\* No Send channel ever holds more than its capacity: Broadcast drops instead,
\* Register blocks instead.
TypeChans ==
    /\ send \in [Conns -> Seq(Message)]
    /\ \A c \in Conns : Len(send[c]) <= SendCap
    /\ closed \in [Conns -> BOOLEAN]

TypeNet ==
    /\ sock \in [Conns -> BOOLEAN]
    /\ pump \in [Conns -> BOOLEAN]
    /\ recv \in [Conns -> SUBSET Updates]

TypeJobs ==
    /\ jpc \in [Jobs -> JobPcs]
    /\ jdoc \in [Jobs -> Docs \cup {None}]
    /\ \A j \in Jobs : jpc[j] # "idle" => jdoc[j] \in Docs
    /\ jbuf \in [Jobs -> Seq(Updates)]
    /\ jbase \in [Jobs -> SUBSET Updates]

TypeStore ==
    /\ snapshot \in SUBSET Updates
    /\ uploads \in Seq(Updates)

TypeEnv ==
    /\ author \in Seq(Conns)
    /\ Len(author) <= MaxUpdates
    /\ chatter \in 0 .. MaxMessages
    /\ faults \in 0 .. MaxFaults

\* Types; among them, that no Send channel ever exceeds its capacity.
TypeOK ==
    /\ TypeHub /\ TypeDocs /\ TypeSeeds /\ TypeConns /\ TypeChans
    /\ TypeNet /\ TypeJobs /\ TypeStore /\ TypeEnv

\* Nothing sends on a closed channel, which would panic the whole service: a
\* broadcast reaches the members of some instance, which need not be the
\* registered one, and Register sends before and after it makes its client a
\* member; Unregister closes the channel of another client meanwhile.
NoSendOnClosedChannel ==
    /\ \A d \in Docs : \A c \in clients[d] : ~closed[c]
    /\ \A c \in Conns : pc[c] \in {"load", "join", "announce"} => ~closed[c]

\* What a viewer sends goes nowhere: every update in either bucket, and every
\* update a client got from the hub, was sent by an owner or editor.
FromWriters == {u \in Updates : u <= Len(author) /\ author[u] \in Writers}
ViewersCannotWrite ==
    /\ snapshot \cup Elems(uploads) \subseteq FromWriters
    /\ \A c \in Conns : \A u \in recv[c] :
        u \in FromWriters \/ (u <= Len(author) /\ author[u] = c)

\* A timer that can still fire is the one its document knows of, so the next
\* update or the next departure can stop it: no forgotten timer uploads
\* behind the back of a newer one.
ArmedTimerIsKnown ==
    \A u \in Updates : jpc[u] = "armed" => timer[jdoc[u]] = u

\* The log in the object store is one a seed can be read from, even while
\* instances overtake each other, requests fail and the process crashes: it
\* names no update twice, it is a beginning of what one loaded instance has
\* seen, and nothing is stored that no instance accepted. (What can be lost is
\* the rest: see NoEditsLost.)
Accepted == UNION {Elems(updateLog[d]) : d \in Docs}
Durable == snapshot \cup Elems(uploads)
IsBeginning(s, t) == Len(s) <= Len(t) /\ \A i \in 1 .. Len(s) : s[i] = t[i]
StoredLogIsALog ==
    /\ \A i, k \in 1 .. Len(uploads) : uploads[i] = uploads[k] => i = k
    /\ uploads # <<>> =>
        \E d \in Docs : seedPc[d] = "done" /\ IsBeginning(uploads, Blob(d))
    /\ Durable \subseteq Accepted

\* A dead connection is noticed whatever the hub is doing, also while the
\* requests of its goroutines hang: the read pump unregisters its client and
\* the write pump ends, even when Unregister finds another document and leaves
\* the channel open.
DeadConnectionsEnd ==
    \A c \in Conns :
        (pc[c] = "read" /\ ~sock[c]) ~> (pc[c] = "gone" /\ ~pump[c])

-----------------------------------------------------------------------------
(***************************************************************************)
(* What the comments of the code say and the code does not keep.           *)
(***************************************************************************)

Quiet == /\ registry = None
         /\ \A j \in Jobs : jpc[j] \in {"idle", "stopped", "done"}
         /\ \A c \in Conns : pc[c] \in {"new", "gone"}

\* hub.go: the last client uploads "before evicting so no edits are lost".
NoEditsLost == Quiet => Accepted \subseteq Durable

\* hub.go: "Hub is the global registry of open documents."
OpenDocumentsAreRegistered ==
    \A d \in Docs : clients[d] # {} => registry = d

\* hub.go: seedClient brings "a new client to the current document state": a
\* client with nothing in its channel, while nobody is between appending and
\* relaying, has all of its document's log. (For a SendCap nothing exceeds.)
NewClientIsCurrent ==
    (\A c \in Conns : pc[c] # "broadcast") =>
        \A d \in Docs : \A c \in clients[d] :
            pc[c] = "read" /\ send[c] = <<>> => Elems(updateLog[d]) \subseteq recv[c]

\* ws.go: "Register adds the client to the doc and sends it the seed state."
RegisterReturns ==
    \A c \in Conns : (pc[c] = "load") ~> (pc[c] \notin {"load", "stuck", "join", "announce"})

\* hub.go: "The upload fires after a quiet period with no new updates": an
\* armed timer fires, unless a newer update re-arms it or its room empties
\* and is saved by the final upload.
DebouncedUploadFires ==
    \A u \in Updates, d \in Docs :
        (jpc[u] = "armed" /\ jdoc[u] = d) ~>
            \/ jpc[u] \in {"upload", "put", "done"}
            \/ \E v \in Updates : v > u /\ jpc[v] # "idle"
            \/ clients[d] = {}

=============================================================================

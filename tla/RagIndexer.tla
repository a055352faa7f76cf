----------------------------- MODULE RagIndexer -----------------------------
(***************************************************************************)
(* The retrieval index of assistant-service for one project: the toggle    *)
(* that starts a background run, the run over the project's files, the     *)
(* tracked indexing of one file, and the tables it writes.                 *)
(*                                                                         *)
(* A run is a coroutine and so is each of its files; a database            *)
(* transaction, a statement before another await, or a request is one      *)
(* step. Postgres reads committed data, and SQLAlchemy writes back only    *)
(* the columns whose value differs from the one it read.                   *)
(***************************************************************************)
EXTENDS Naturals, FiniteSets

CONSTANTS
    Files,          \* files of the project
    Runs,           \* background runs, each for one enabling request
    MaxConcurrent,  \* MAX_CONCURRENT_FILES: 5 in the code
    MaxChunks,      \* bound: chunks found in a file
    MaxFaults       \* bound: failed requests, failed transactions, crashes

ASSUME ConstantsAssumption ==
    /\ MaxConcurrent \in Nat \ {0}
    /\ MaxChunks \in Nat
    /\ MaxFaults \in Nat

\* A row of rag_chunks for a file: the run that inserted it, its chunk_index.
Row == Runs \X (1 .. MaxChunks)
RowsOf(r, n) == {r} \X (1 .. n)

VARIABLES
    \* Table rag_index_state: the status in the project's row. (Its enabled flag
    \* is read elsewhere only.)
    status,
    \* Table rag_file_index: a row per file, status "none" without one.
    fileStatus, fileCount,
    chunks,   \* table rag_chunks: committed rows of each file
    \* Each run, and the status set_index_status has read for it.
    rpc, seen,
    \* The task of each file in each run: its step, the number of chunks it
    \* found, the rows its DELETE saw, the row set_file_index_status read.
    task, found, gone, read,
    \* History: did a run end without its last status; were two runs ever at work
    \* at once; the faults so far.
    lost, overlapped, faults

fileVars  == <<fileStatus, fileCount>>
runVars   == <<rpc, seen>>
taskVars  == <<task, found, gone, read>>
envVars   == <<lost, overlapped, faults>>
vars == <<status, fileVars, chunks, runVars, taskVars, envVars>>

NoRow == [status |-> "none", count |-> 0]

Init ==
    /\ status = "idle"
    /\ fileStatus = [f \in Files |-> "none"]
    /\ fileCount = [f \in Files |-> 0]
    /\ chunks = [f \in Files |-> {}]
    /\ rpc = [r \in Runs |-> "new"]
    /\ seen = [r \in Runs |-> "idle"]
    /\ task = [r \in Runs |-> [f \in Files |-> "none"]]
    /\ found = [r \in Runs |-> [f \in Files |-> 0]]
    /\ gone = [r \in Runs |-> [f \in Files |-> {}]]
    /\ read = [r \in Runs |-> [f \in Files |-> NoRow]]
    /\ lost = FALSE /\ overlapped = FALSE
    /\ faults = 0

-----------------------------------------------------------------------------
(***************************************************************************)
(* toggle_auto_context. The upsert resets the status, so the test for      *)
(* "idle" after it always succeeds: enabling starts a run although another *)
(* one may be working.                                                     *)
(***************************************************************************)

\* Has the run begun and not ended.
Working(r) == rpc[r] \notin {"new", "ended"}

Enable(r) ==
    /\ rpc[r] = "new"
    /\ status' = "idle"
    /\ rpc' = [rpc EXCEPT ![r] = "start"]
    /\ overlapped' = (overlapped \/ \E s \in Runs : Working(s))
    /\ UNCHANGED <<fileVars, chunks, seen, taskVars, lost, faults>>

Disable ==
    /\ status' = "idle"
    /\ UNCHANGED <<fileVars, chunks, runVars, taskVars, envVars>>

-----------------------------------------------------------------------------
(***************************************************************************)
(* index_project. Each status change reads the row and then writes it.     *)
(***************************************************************************)

\* Where a run reads the row, where it then writes it, what, and what next.
Stage == [start |-> [then |-> "begin", value |-> "indexing", next |-> "list"],
          gathered |-> [then |-> "finish", value |-> "idle", next |-> "ended"],
          failed |-> [then |-> "fail", value |-> "error", next |-> "ended"]]

ReadStatus(r) ==
    /\ rpc[r] \in DOMAIN Stage
    /\ seen' = [seen EXCEPT ![r] = status]
    /\ rpc' = [rpc EXCEPT ![r] = Stage[rpc[r]].then]
    /\ UNCHANGED <<status, fileVars, chunks, taskVars, envVars>>

\* The flush writes the status only if it differs from the one read.
Flushed(old, value, current) == IF old = value THEN current ELSE value

WriteStatus(r) ==
    /\ \E s \in DOMAIN Stage :
        /\ rpc[r] = Stage[s].then
        /\ status' = Flushed(seen[r], Stage[s].value, status)
        /\ rpc' = [rpc EXCEPT ![r] = Stage[s].next]
    /\ seen' = [seen EXCEPT ![r] = "idle"]
    /\ UNCHANGED <<fileVars, chunks, taskVars, envVars>>

\* get_project_files: the files that have a text become tasks.
ListFiles(r) ==
    /\ rpc[r] = "list"
    /\ \E indexable \in SUBSET Files :
        task' = [task EXCEPT ![r] =
                    [f \in Files |-> IF f \in indexable THEN "queued" ELSE "none"]]
    /\ rpc' = [rpc EXCEPT ![r] = "gather"]
    /\ UNCHANGED <<status, fileVars, chunks, seen, found, gone, read, envVars>>

\* gather returns when every task has, whatever it returned or raised.
Gather(r) ==
    /\ rpc[r] = "gather"
    /\ \A f \in Files : task[r][f] \in {"none", "done", "raised"}
    /\ rpc' = [rpc EXCEPT ![r] = "gathered"]
    /\ UNCHANGED <<status, fileVars, chunks, seen, taskVars, envVars>>

-----------------------------------------------------------------------------
(***************************************************************************)
(* _index_file_tracked and index_file.                                     *)
(***************************************************************************)

\* The locals of a task end with it and with the session they came from.
Forget(r, f) ==
    /\ found' = [found EXCEPT ![r][f] = 0]
    /\ gone' = [gone EXCEPT ![r][f] = {}]
    /\ read' = [read EXCEPT ![r][f] = NoRow]

\* The semaphore's holders; a version that a raised exception never releases.
HoldersForever(r) == {f \in Files : task[r][f] \notin {"none", "queued", "done"}}
Holders(r) == {f \in Files : task[r][f] \notin {"none", "queued", "done", "raised"}}

\* Whether it admits one more file; a version that admits one too many.
AdmitsTooMany(r) == Cardinality(Holders(r)) <= MaxConcurrent
Admits(r) == Cardinality(Holders(r)) < MaxConcurrent

\* Acquire the semaphore; upsert_file_index, and one that keeps the old row.
KeepRow(f) == UNCHANGED fileVars
ResetRow(f) ==
    /\ fileStatus' = [fileStatus EXCEPT ![f] = "pending"]
    /\ fileCount' = [fileCount EXCEPT ![f] = 0]

StartFile(r, f) ==
    /\ task[r][f] = "queued"
    /\ Admits(r)
    /\ ResetRow(f)
    /\ task' = [task EXCEPT ![r][f] = "index"]
    /\ UNCHANGED <<status, chunks, runVars, found, gone, read, envVars>>

\* Download, split and embed; then the DELETE of replace_file_chunks, which
\* sees the rows committed when it starts. (A second DELETE of the same rows
\* waits for the first transaction, which only decides who commits first.)
\* A version in which the DELETE is committed on its own.
NothingYet(f) == [chunks EXCEPT ![f] = {}]
StillCommitted(f) == chunks

DeleteChunks(r, f) ==
    /\ task[r][f] = "index"
    /\ \E n \in 0 .. MaxChunks : found' = [found EXCEPT ![r][f] = n]
    /\ gone' = [gone EXCEPT ![r][f] = chunks[f]]
    /\ chunks' = StillCommitted(f)
    /\ task' = [task EXCEPT ![r][f] = "replace"]
    /\ UNCHANGED <<status, fileVars, runVars, read, envVars>>

CommitChunks(r, f) ==
    /\ task[r][f] = "replace"
    /\ chunks' = [chunks EXCEPT ![f] = (@ \ gone[r][f]) \cup RowsOf(r, found[r][f])]
    /\ gone' = [gone EXCEPT ![r][f] = {}]
    /\ task' = [task EXCEPT ![r][f] = "mark"]
    /\ UNCHANGED <<status, fileVars, runVars, found, read, envVars>>

\* set_file_index_status reads the row: with the result, after an exception,
\* or again in a fresh session.
Mark == [mark |-> "marking", failed |-> "failing", retry |-> "retrying"]

ReadFile(r, f) ==
    /\ task[r][f] \in DOMAIN Mark
    /\ read' = [read EXCEPT ![r][f] =
                    [status |-> fileStatus[f], count |-> fileCount[f]]]
    /\ task' = [task EXCEPT ![r][f] = Mark[task[r][f]]]
    /\ UNCHANGED <<status, fileVars, chunks, runVars, found, gone, envVars>>

\* It writes status and chunk count, or after an exception the status only.
MarkIndexed(r, f) ==
    /\ task[r][f] = "marking"
    /\ fileStatus' = [fileStatus EXCEPT ![f] = Flushed(read[r][f].status, "indexed", @)]
    /\ fileCount' = [fileCount EXCEPT ![f] = Flushed(read[r][f].count, found[r][f], @)]
    /\ task' = [task EXCEPT ![r][f] = "done"]
    /\ Forget(r, f)
    /\ UNCHANGED <<status, chunks, runVars, envVars>>

MarkError(r, f) ==
    /\ task[r][f] \in {"failing", "retrying"}
    /\ fileStatus' = [fileStatus EXCEPT ![f] = Flushed(read[r][f].status, "error", @)]
    /\ task' = [task EXCEPT ![r][f] = "done"]
    /\ Forget(r, f)
    /\ UNCHANGED <<status, fileCount, chunks, runVars, envVars>>

-----------------------------------------------------------------------------
(***************************************************************************)
(* Failed requests and transactions, and crashes of the service.           *)
(***************************************************************************)

Fault ==
    /\ faults < MaxFaults
    /\ faults' = faults + 1

\* An exception in index_project: before the try block it ends the run, inside
\* it leads to the error status, in the handler it ends the run again. A
\* version in which an exception always ends the run.
Unhandled(pc) == "ended"
AfterRunException(pc) ==
    IF pc \in {"list", "gathered", "finish"} THEN "failed" ELSE "ended"

RunFails(r) ==
    /\ Fault
    /\ rpc[r] \in {"start", "begin", "list", "gathered", "finish", "failed", "fail"}
    /\ rpc' = [rpc EXCEPT ![r] = AfterRunException(@)]
    /\ lost' = (lost \/ rpc[r] \in {"failed", "fail"})
    /\ seen' = [seen EXCEPT ![r] = "idle"]
    /\ UNCHANGED <<status, fileVars, chunks, taskVars, overlapped>>

\* An exception in _index_file_tracked: while indexing it leads to the error
\* status, which is tried twice; otherwise the task raises. The transaction is
\* rolled back.
AfterException(t) ==
    CASE t \in {"index", "replace", "mark", "marking"} -> "failed"
      [] t \in {"failed", "failing"} -> "retry"
      [] OTHER -> "raised"

FileFails(r, f) ==
    /\ Fault
    /\ \/ f \in Holders(r)
       \/ task[r][f] = "queued" /\ Admits(r)
    /\ task' = [task EXCEPT ![r][f] = AfterException(@)]
    /\ Forget(r, f)
    /\ UNCHANGED <<status, fileVars, chunks, runVars, lost, overlapped>>

Crash ==
    /\ Fault
    /\ rpc' = [r \in Runs |-> IF rpc[r] = "new" THEN "new" ELSE "ended"]
    /\ task' = [r \in Runs |-> [f \in Files |-> "none"]]
    /\ found' = [r \in Runs |-> [f \in Files |-> 0]]
    /\ gone' = [r \in Runs |-> [f \in Files |-> {}]]
    /\ read' = [r \in Runs |-> [f \in Files |-> NoRow]]
    /\ seen' = [r \in Runs |-> "idle"]
    /\ lost' = TRUE
    /\ UNCHANGED <<status, fileVars, chunks, overlapped>>

-----------------------------------------------------------------------------

RunStep(r) == ReadStatus(r) \/ WriteStatus(r) \/ ListFiles(r) \/ Gather(r)

FileStep(r, f) ==
    \/ StartFile(r, f) \/ DeleteChunks(r, f) \/ CommitChunks(r, f)
    \/ ReadFile(r, f) \/ MarkIndexed(r, f) \/ MarkError(r, f)

Next ==
    \/ \E r \in Runs :
        \/ Enable(r) \/ RunStep(r) \/ RunFails(r)
        \/ \E f \in Files : FileStep(r, f) \/ FileFails(r, f)
    \/ Disable
    \/ Crash

Spec == Init /\ [][Next]_vars

\* The event loop runs every ready coroutine, and requests and transactions
\* return; toggles and faults are up to the environment.
Fairness ==
    \A r \in Runs : /\ WF_vars(RunStep(r))
                    /\ \A f \in Files : WF_vars(FileStep(r, f))

FairSpec == Spec /\ Fairness

-----------------------------------------------------------------------------

Status == {"idle", "indexing", "error"}
FileStatus == {"none", "pending", "indexed", "error"}
RunPcs == {"new", "start", "begin", "list", "gather", "gathered", "finish",
           "failed", "fail", "ended"}
TaskPcs == {"none", "queued", "index", "replace", "mark", "marking", "failed",
            "failing", "retry", "retrying", "done", "raised"}

Types ==
    /\ status \in Status
    /\ fileStatus \in [Files -> FileStatus]
    /\ fileCount \in [Files -> 0 .. MaxChunks]
    /\ chunks \in [Files -> SUBSET Row]
    /\ rpc \in [Runs -> RunPcs]
    /\ seen \in [Runs -> Status]
    /\ task \in [Runs -> [Files -> TaskPcs]]
    /\ found \in [Runs -> [Files -> 0 .. MaxChunks]]
    /\ gone \in [Runs -> [Files -> SUBSET Row]]
    /\ read \in [Runs -> [Files -> [status : FileStatus, count : 0 .. MaxChunks]]]
    /\ lost \in BOOLEAN /\ overlapped \in BOOLEAN
    /\ faults \in 0 .. MaxFaults

\* Types; among them, that a run never works on more files at a time than its
\* semaphore admits.
TypeOK == Types /\ \A r \in Runs : Cardinality(Holders(r)) <= MaxConcurrent

\* A file that has chunks never loses them all, whichever runs overlap, fail
\* or crash half-way, unless a run found the file to have none: a search
\* during a reindexing still finds the old ones.
NeverEmptied ==
    [][\A f \in Files :
        chunks[f] # {} /\ chunks'[f] = {} =>
            \E r \in Runs : /\ task[r][f] = "replace" /\ found[r][f] = 0
                            /\ task'[r][f] = "mark"]_vars

\* The project does not stay "indexing" when nothing is at work, however runs
\* overlapped and the toggle reset the status meanwhile, unless a run ended
\* without its last write.
IndexingMeansWorking ==
    status = "indexing" => lost \/ \E r \in Runs : Working(r)

\* A run ends, also when it works on few files at a time and some of them
\* raise: a failed file does not keep the others waiting.
RunsEnd == \A r \in Runs : (rpc[r] = "start") ~> (rpc[r] = "ended")

\* A file marked "indexed" has exactly the counted chunks of one run.
IndexedIsCurrent ==
    \A f \in Files :
        fileStatus[f] = "indexed" =>
            /\ Cardinality(chunks[f]) = fileCount[f]
            /\ \A x, y \in chunks[f] : x[1] = y[1]

\* As long as no two runs of the project have overlapped, a file marked "indexed" has
\* exactly the counted chunks of one run, also after a run that failed or
\* crashed half-way (index_file, _index_file_tracked).
SerialIsCurrent == overlapped \/ IndexedIsCurrent

=============================================================================

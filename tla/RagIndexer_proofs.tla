-------------------------- MODULE RagIndexer_proofs --------------------------
(***************************************************************************)
(* Proofs about RagIndexer: types and the semaphore, what a committed      *)
(* replacement may do, what "indexing" and "indexed" mean.                 *)
(***************************************************************************)
EXTENDS RagIndexer, FiniteSetTheorems, TLAPS

-----------------------------------------------------------------------------
(***************************************************************************)
(* The inductive invariants.                                               *)
(***************************************************************************)

\* The semaphore: a finite set of files holds it (Files may be infinite).
Semaphore ==
    \A r \in Runs : IsFiniteSet(Holders(r)) /\ Cardinality(Holders(r)) <= MaxConcurrent

\* A run that is sure to overwrite the status "indexing", or to be noted as
\* lost: its last write will differ from the status it has read.
WillOverwrite(r) ==
    \/ rpc[r] \in {"list", "gather", "gathered", "failed"}
    \/ rpc[r] = "finish" /\ seen[r] # "idle"
    \/ rpc[r] = "fail" /\ seen[r] # "error"
IndexingIsOverwritten ==
    status = "indexing" => lost \/ \E r \in Runs : WillOverwrite(r)

\* As long as no runs overlapped: one run is at work, and files only while it
\* gathers.
OneAtWork ==
    /\ \A r, s \in Runs : Working(r) /\ Working(s) => r = s
    /\ \A r \in Runs, f \in Files :
        task[r][f] \notin {"none", "done", "raised"} => rpc[r] = "gather"
\* Nobody else writes the rows of a file a task works on: its DELETE saw them
\* all, it finds its own afterwards, and the row it read is the row there is.
TasksAreAlone ==
    \A r \in Runs, f \in Files :
        /\ f \in Holders(r) => fileStatus[f] # "indexed"
        /\ task[r][f] = "replace" => gone[r][f] = chunks[f]
        /\ task[r][f] \in {"mark", "marking"} => chunks[f] = RowsOf(r, found[r][f])
        /\ task[r][f] \in {"marking", "failing", "retrying"} =>
            read[r][f] = [status |-> fileStatus[f], count |-> fileCount[f]]
SerialInv == overlapped \/ (OneAtWork /\ TasksAreAlone /\ IndexedIsCurrent)

-----------------------------------------------------------------------------
(***************************************************************************)
(* Types and the semaphore.                                                *)
(***************************************************************************)

\* Every step keeps the types.
LEMMA TypesStep == Types /\ [Next]_vars => Types'
<1> SUFFICES ASSUME Types, [Next]_vars PROVE Types'
  OBVIOUS
<1> USE ConstantsAssumption DEF Types, Status, FileStatus, RunPcs, TaskPcs, fileVars, runVars, taskVars, envVars
<1>1. ASSUME NEW r \in Runs, Enable(r) PROVE Types'
  BY <1>1 DEF Enable
<1>2. ASSUME NEW r \in Runs, ReadStatus(r) PROVE Types'
  BY <1>2 DEF Stage, ReadStatus
<1>3. ASSUME NEW r \in Runs, WriteStatus(r) PROVE Types'
  BY <1>3 DEF Stage, Flushed, WriteStatus
<1>4. ASSUME NEW r \in Runs, ListFiles(r) PROVE Types'
  BY <1>4 DEF ListFiles
<1>5. ASSUME NEW r \in Runs, Gather(r) PROVE Types'
  BY <1>5 DEF Gather
<1>6. ASSUME NEW r \in Runs, RunFails(r) PROVE Types'
  BY <1>6 DEF Fault, AfterRunException, RunFails
<1>7. ASSUME NEW r \in Runs, NEW f \in Files, StartFile(r, f) PROVE Types'
  BY <1>7 DEF ResetRow, StartFile
<1>8. ASSUME NEW r \in Runs, NEW f \in Files, DeleteChunks(r, f) PROVE Types'
  BY <1>8 DEF StillCommitted, DeleteChunks
<1>9. ASSUME NEW r \in Runs, NEW f \in Files, CommitChunks(r, f) PROVE Types'
  BY <1>9 DEF RowsOf, Row, CommitChunks
<1>10. ASSUME NEW r \in Runs, NEW f \in Files, ReadFile(r, f) PROVE Types'
  BY <1>10 DEF Mark, ReadFile
<1>11. ASSUME NEW r \in Runs, NEW f \in Files, MarkIndexed(r, f) PROVE Types'
  BY <1>11 DEF Flushed, Forget, NoRow, MarkIndexed
<1>12. ASSUME NEW r \in Runs, NEW f \in Files, MarkError(r, f) PROVE Types'
  BY <1>12 DEF Flushed, Forget, NoRow, MarkError
<1>13. ASSUME NEW r \in Runs, NEW f \in Files, FileFails(r, f) PROVE Types'
  BY <1>13 DEF Fault, AfterException, Forget, NoRow, FileFails
<1>14. CASE Disable
  BY <1>14 DEF Disable
<1>15. CASE Crash
  BY <1>15 DEF Crash, Fault, NoRow
<1>16. CASE UNCHANGED vars
  BY <1>16 DEF vars
<1> QED
  BY <1>1, <1>2, <1>3, <1>4, <1>5, <1>6, <1>7, <1>8, <1>9, <1>10, <1>11, <1>12, <1>13, <1>14, <1>15, <1>16 DEF Next, RunStep, FileStep

\* They hold at first.
LEMMA TypesInit == Init => Types
<1> SUFFICES ASSUME Init PROVE Types
  OBVIOUS
<1>1. /\ status \in Status
      /\ fileStatus \in [Files -> FileStatus]
      /\ fileCount \in [Files -> 0 .. MaxChunks]
      /\ chunks \in [Files -> SUBSET Row]
      /\ rpc \in [Runs -> RunPcs]
      /\ seen \in [Runs -> Status]
      /\ faults \in 0 .. MaxFaults
  BY ConstantsAssumption DEF Init, Status, FileStatus, RunPcs
<1>2. lost \in BOOLEAN /\ overlapped \in BOOLEAN
  BY DEF Init
<1>3. /\ task \in [Runs -> [Files -> TaskPcs]]
      /\ found \in [Runs -> [Files -> 0 .. MaxChunks]]
      /\ gone \in [Runs -> [Files -> SUBSET Row]]
  BY ConstantsAssumption DEF Init, TaskPcs
<1>4. read \in [Runs -> [Files -> [status : FileStatus, count : 0 .. MaxChunks]]]
  BY ConstantsAssumption DEF Init, NoRow, FileStatus
<1> QED
  BY <1>1, <1>2, <1>3, <1>4 DEF Types

\* The holders after a step of one task: nobody new but a file that was admitted.
LEMMA HoldersStep ==
    ASSUME Types, Semaphore, [Next]_vars, NEW r \in Runs
    PROVE  \/ Holders(r)' \subseteq Holders(r)
           \/ \E f \in Files : Admits(r) /\ Holders(r)' = Holders(r) \cup {f}
<1> USE DEF Holders
<1>1. ASSUME NEW f \in Files, StartFile(r, f)
      PROVE  Admits(r) /\ Holders(r)' = Holders(r) \cup {f}
  BY <1>1 DEF StartFile, Types
<1>2. ASSUME NEW q \in Runs, NEW f \in Files,
             \/ StartFile(q, f) /\ q # r
             \/ DeleteChunks(q, f) \/ CommitChunks(q, f) \/ ReadFile(q, f)
             \/ MarkIndexed(q, f) \/ MarkError(q, f) \/ FileFails(q, f)
      PROVE  Holders(r)' \subseteq Holders(r)
  <2>1. /\ q # r \/ f \in Holders(r) \/ task'[r][f] = "raised"
        /\ \A g \in Files : q # r \/ g # f => task'[r][g] = task[r][g]
    BY <1>2 DEF StartFile, DeleteChunks, CommitChunks, ReadFile, MarkIndexed, MarkError, FileFails, AfterException, Mark, Types
  <2> QED
    BY <2>1
<1>3. ASSUME NEW q \in Runs, ListFiles(q) PROVE Holders(r)' \subseteq Holders(r)
  BY <1>3 DEF ListFiles, Types
<1>4. CASE Crash
  BY <1>4 DEF Crash
<1>5. CASE UNCHANGED taskVars
  BY <1>5 DEF taskVars
<1>6. ASSUME NEW q \in Runs,
             \/ Enable(q) \/ ReadStatus(q) \/ WriteStatus(q) \/ Gather(q) \/ RunFails(q)
      PROVE  UNCHANGED taskVars
  BY <1>6 DEF Enable, ReadStatus, WriteStatus, Gather, RunFails
<1>7. Disable \/ UNCHANGED vars => UNCHANGED taskVars
  BY DEF Disable, vars
<1> QED
  BY <1>1, <1>2, <1>3, <1>4, <1>5, <1>6, <1>7 DEF Next, RunStep, FileStep

\* Every step keeps the holders of the semaphore as few as it admits.
LEMMA SemaphoreStep ==
    ASSUME Types, Semaphore, [Next]_vars PROVE Semaphore'
<1> SUFFICES ASSUME NEW r \in Runs
             PROVE  IsFiniteSet(Holders(r)') /\ Cardinality(Holders(r)') <= MaxConcurrent
  BY DEF Semaphore
<1> DEFINE H == Holders(r)
           I == Holders(r)'
<1>1. IsFiniteSet(H) /\ Cardinality(H) \in Nat /\ Cardinality(H) <= MaxConcurrent
  BY FS_CardinalityType DEF Semaphore
<1>2. I \subseteq H \/ \E f \in Files : Cardinality(H) < MaxConcurrent /\ I = H \cup {f}
  BY HoldersStep DEF Admits
<1> HIDE DEF H, I
<1>3. CASE I \subseteq H
  <2>1. IsFiniteSet(I) /\ Cardinality(I) <= Cardinality(H)
    BY <1>1, <1>3, FS_Subset
  <2>2. Cardinality(I) \in Nat
    BY <2>1, FS_CardinalityType
  <2> QED
    BY <1>1, <2>1, <2>2, ConstantsAssumption DEF I
<1>4. ASSUME NEW f \in Files, Cardinality(H) < MaxConcurrent, I = H \cup {f}
      PROVE  IsFiniteSet(I) /\ Cardinality(I) <= MaxConcurrent
  <2>1. /\ IsFiniteSet(I)
        /\ Cardinality(I) = IF f \in H THEN Cardinality(H) ELSE Cardinality(H) + 1
    BY <1>1, <1>4, FS_AddElement
  <2> QED
    BY <1>1, <1>4, <2>1, ConstantsAssumption
<1> QED
  BY <1>2, <1>3, <1>4 DEF I

\* At first nobody holds it,
LEMMA SemaphoreInit == Init => Semaphore
<1> SUFFICES ASSUME Init, NEW r \in Runs
             PROVE  IsFiniteSet(Holders(r)) /\ Cardinality(Holders(r)) <= MaxConcurrent
  BY DEF Semaphore
<1>1. Holders(r) = {}
  BY DEF Init, Holders
<1> QED
  BY <1>1, FS_EmptySet, ConstantsAssumption

\* and so both hold of every behaviour.
LEMMA TypesAlways == Spec => [](Types /\ Semaphore)
<1>1. Types /\ Semaphore /\ [Next]_vars => (Types /\ Semaphore)'
  BY TypesStep, SemaphoreStep
<1> QED
  BY <1>1, TypesInit, SemaphoreInit, PTL DEF Spec

\* The types, and the promise of asyncio's semaphore around
\* _index_file_tracked: at most MAX_CONCURRENT_FILES files of a run at once,
\* whichever of its tasks fail.
THEOREM TypeCorrect == Spec => []TypeOK
<1>1. Types /\ Semaphore => TypeOK
  BY DEF TypeOK, Semaphore
<1> QED
  BY <1>1, TypesAlways, PTL

-----------------------------------------------------------------------------
(***************************************************************************)
(* Replacing the chunks of a file.                                         *)
(***************************************************************************)

\* Only the commit of a replacement changes a file's chunks, and a
\* replacement that found a chunk inserts it with the deletion.
LEMMA OnlyEmptyFilesEmptied ==
    ASSUME Types, [Next]_vars, NEW f \in Files, chunks[f] # {}, chunks'[f] = {}
    PROVE  \E r \in Runs : /\ task[r][f] = "replace" /\ found[r][f] = 0
                           /\ task'[r][f] = "mark"
<1>1. ASSUME NEW r \in Runs, NEW g \in Files, CommitChunks(r, g)
      PROVE  /\ task[r][f] = "replace" /\ found[r][f] = 0
             /\ task'[r][f] = "mark"
  <2>1. g = f
    BY <1>1 DEF CommitChunks, Types
  <2>2. RowsOf(r, found[r][f]) = {}
    BY <1>1, <2>1 DEF CommitChunks, Types
  <2>3. found[r][f] \in Nat
    BY ConstantsAssumption DEF Types
  <2>4. found[r][f] = 0
    <3>1. found[r][f] >= 1 => <<r, 1>> \in RowsOf(r, found[r][f])
      BY <2>3 DEF RowsOf
    <3> QED
      BY <2>2, <2>3, <3>1
  <2> QED
    BY <1>1, <2>1, <2>4 DEF CommitChunks, Types
<1>2. ASSUME NEW r \in Runs,
             \/ Enable(r) \/ RunStep(r) \/ RunFails(r)
             \/ \E g \in Files :
                    \/ StartFile(r, g) \/ DeleteChunks(r, g) \/ ReadFile(r, g)
                    \/ MarkIndexed(r, g) \/ MarkError(r, g) \/ FileFails(r, g)
      PROVE  UNCHANGED chunks
  BY <1>2 DEF Enable, RunStep, ReadStatus, WriteStatus, ListFiles, Gather, RunFails, StartFile, DeleteChunks, StillCommitted, ReadFile, MarkIndexed, MarkError, FileFails
<1>3. Disable \/ Crash \/ UNCHANGED vars => UNCHANGED chunks
  BY DEF Disable, Crash, vars
<1>4. ~UNCHANGED chunks
  OBVIOUS
<1> QED
  BY <1>1, <1>2, <1>3, <1>4 DEF Next, FileStep

\* The search index of a file is never emptied by a reindexing of a file that
\* has text, whatever overlaps, fails or crashes: replace_file_chunks deletes
\* and inserts in one transaction.
THEOREM NeverEmptiedCorrect == Spec => NeverEmptied
<1>1. Types /\ [Next]_vars =>
        [\A f \in Files :
            chunks[f] # {} /\ chunks'[f] = {} =>
                \E r \in Runs : /\ task[r][f] = "replace" /\ found[r][f] = 0
                                /\ task'[r][f] = "mark"]_vars
  BY OnlyEmptyFilesEmptied
<1> QED
  BY <1>1, TypesAlways, PTL DEF Spec, NeverEmptied

-----------------------------------------------------------------------------
(***************************************************************************)
(* The status of the project.                                              *)
(***************************************************************************)

\* Every step leaves a run that will write over the status "indexing".
LEMMA IndexingStep ==
    ASSUME Types, IndexingIsOverwritten, [Next]_vars PROVE IndexingIsOverwritten'
<1> USE DEF IndexingIsOverwritten, WillOverwrite
<1>1. ASSUME NEW r \in Runs, ReadStatus(r) PROVE IndexingIsOverwritten'
  BY <1>1 DEF ReadStatus, Stage, Types, envVars
<1>2. ASSUME NEW r \in Runs, WriteStatus(r) PROVE IndexingIsOverwritten'
  BY <1>2 DEF WriteStatus, Stage, Flushed, Types, envVars
<1>3. ASSUME NEW r \in Runs, ListFiles(r) \/ Gather(r) PROVE IndexingIsOverwritten'
  BY <1>3 DEF ListFiles, Gather, Types, envVars
<1>4. ASSUME NEW r \in Runs, RunFails(r) PROVE IndexingIsOverwritten'
  BY <1>4 DEF RunFails, AfterRunException, Types
<1>5. ASSUME NEW r \in Runs, Enable(r) PROVE IndexingIsOverwritten'
  BY <1>5 DEF Enable
<1>6. CASE Disable \/ Crash
  BY <1>6 DEF Disable, Crash
<1>7. CASE UNCHANGED <<status, runVars, lost>>
  BY <1>7 DEF runVars
<1>8. ASSUME NEW r \in Runs, NEW f \in Files, FileStep(r, f) \/ FileFails(r, f)
      PROVE  UNCHANGED <<status, runVars, lost>>
  BY <1>8 DEF FileStep, StartFile, DeleteChunks, CommitChunks, ReadFile, MarkIndexed, MarkError, FileFails, envVars
<1>9. UNCHANGED vars => UNCHANGED <<status, runVars, lost>>
  BY DEF vars, envVars
<1> QED
  BY <1>1, <1>2, <1>3, <1>4, <1>5, <1>6, <1>7, <1>8, <1>9 DEF Next, RunStep

\* The status does not stay "indexing" without a run at work, although
\* set_index_status skips a write of the value it has read and other runs and
\* the toggle write in between: the run that wrote it last will see it.
THEOREM IndexingCorrect == Spec => []IndexingMeansWorking
<1>1. Init => IndexingIsOverwritten
  BY DEF Init, IndexingIsOverwritten
<1>2. IndexingIsOverwritten => IndexingMeansWorking
  BY DEF IndexingIsOverwritten, WillOverwrite, IndexingMeansWorking, Working
<1>3. Types /\ IndexingIsOverwritten /\ [Next]_vars => IndexingIsOverwritten'
  BY IndexingStep
<1> QED
  BY <1>1, <1>2, <1>3, TypesAlways, PTL DEF Spec

-----------------------------------------------------------------------------
(***************************************************************************)
(* The status of a file.                                                   *)
(***************************************************************************)

\* The rows a replacement inserts are as many as it found, and one run's.
LEMMA RowsCounted ==
    ASSUME NEW r, NEW n \in Nat
    PROVE  /\ Cardinality(RowsOf(r, n)) = n
           /\ \A x \in RowsOf(r, n) : x[1] = r
<1>1. IsFiniteSet({r}) /\ Cardinality({r}) = 1
  BY FS_Singleton
<1>2. IsFiniteSet(1 .. n) /\ Cardinality(1 .. n) = n
  BY FS_Interval
<1>3. Cardinality({r} \X (1 .. n)) = 1 * n
  BY <1>1, <1>2, FS_Product
<1> QED
  BY <1>3 DEF RowsOf

\* Every step of runs that have not overlapped keeps their rows their own.
LEMMA SerialStep ==
    ASSUME Types, SerialInv, [Next]_vars PROVE SerialInv'
<1> SUFFICES ASSUME ~overlapped'
             PROVE  OneAtWork' /\ TasksAreAlone' /\ IndexedIsCurrent'
  BY DEF SerialInv
<1>1. ~overlapped
  <2>1. ASSUME NEW r \in Runs, Enable(r) PROVE overlapped => overlapped'
    BY <2>1 DEF Enable
  <2>2. ASSUME NEW r \in Runs,
               \/ RunStep(r) \/ RunFails(r)
               \/ \E f \in Files : FileStep(r, f) \/ FileFails(r, f)
        PROVE  UNCHANGED overlapped
    BY <2>2 DEF RunStep, ReadStatus, WriteStatus, ListFiles, Gather, RunFails, FileStep, StartFile, DeleteChunks, CommitChunks, ReadFile, MarkIndexed, MarkError, FileFails, envVars
  <2>3. Disable \/ Crash \/ UNCHANGED vars => UNCHANGED overlapped
    BY DEF Disable, Crash, vars, envVars
  <2> QED
    BY <2>1, <2>2, <2>3 DEF Next
<1>2. OneAtWork /\ TasksAreAlone /\ IndexedIsCurrent
  BY <1>1 DEF SerialInv
<1>3. \A r, s \in Runs, f \in Files :
        task[r][f] \notin {"none", "done", "raised"} /\ s # r => task[s][f] \in {"none", "done", "raised"}
  BY <1>2 DEF OneAtWork, Working
<1>4. ASSUME NEW r \in Runs, Enable(r) \/ ReadStatus(r) \/ WriteStatus(r) \/ Gather(r) \/ RunFails(r)
      PROVE  OneAtWork' /\ TasksAreAlone' /\ IndexedIsCurrent'
  <2>1. UNCHANGED <<fileVars, chunks, taskVars>>
    BY <1>4 DEF Enable, ReadStatus, WriteStatus, Gather, RunFails
  <2>2. OneAtWork'
    <3>1. /\ \A s \in Runs : s # r => rpc'[s] = rpc[s]
          /\ Working(r)' => Working(r) \/ \A s \in Runs : ~Working(s)
      <4>1. CASE Enable(r)
        BY <4>1 DEF Enable, Working, Types
      <4>2. CASE ReadStatus(r) \/ Gather(r) \/ RunFails(r)
        BY <4>2 DEF ReadStatus, Gather, RunFails, Stage, Working, Types
      <4>3. CASE WriteStatus(r)
        BY <4>3 DEF WriteStatus, Stage, Working, Types
      <4> QED
        BY <1>4, <4>1, <4>2, <4>3
    <3>2. \A s, q \in Runs : Working(s)' /\ Working(q)' => s = q
      BY <1>2, <3>1 DEF OneAtWork, Working
    <3>3. ASSUME NEW f \in Files, task[r][f] \notin {"none", "done", "raised"}
          PROVE  rpc'[r] = "gather"
      BY <1>2, <1>4, <3>3 DEF OneAtWork, Enable, ReadStatus, WriteStatus, Gather, RunFails, Stage
    <3> QED
      BY <1>2, <2>1, <3>1, <3>2, <3>3 DEF OneAtWork, taskVars
  <2>3. TasksAreAlone' /\ IndexedIsCurrent'
    BY <1>2, <2>1 DEF TasksAreAlone, IndexedIsCurrent, Holders, fileVars, taskVars
  <2> QED
    BY <2>2, <2>3
<1>5. ASSUME NEW r \in Runs, ListFiles(r)
      PROVE  OneAtWork' /\ TasksAreAlone' /\ IndexedIsCurrent'
  <2>1. /\ UNCHANGED <<fileVars, chunks>>
        /\ \A s \in Runs : s # r => task'[s] = task[s] /\ rpc'[s] = rpc[s]
        /\ \A f \in Files : task'[r][f] \in {"none", "queued"}
        /\ rpc[r] = "list" /\ rpc'[r] = "gather"
        /\ UNCHANGED <<gone, found, read>>
    BY <1>5 DEF ListFiles, Types
  <2>2. OneAtWork'
    BY <1>2, <2>1 DEF OneAtWork, Working
  <2>3. TasksAreAlone' /\ IndexedIsCurrent'
    BY <1>2, <2>1 DEF TasksAreAlone, IndexedIsCurrent, Holders, fileVars
  <2> QED
    BY <2>2, <2>3
<1>6. ASSUME NEW r \in Runs, NEW f \in Files, FileStep(r, f) \/ FileFails(r, f)
      PROVE  OneAtWork' /\ TasksAreAlone' /\ IndexedIsCurrent'
  <2>1. /\ task[r][f] \notin {"none", "done", "raised"}
        /\ \A s \in Runs, g \in Files : s # r \/ g # f => task'[s][g] = task[s][g]
        /\ UNCHANGED runVars
    BY <1>6 DEF FileStep, StartFile, DeleteChunks, CommitChunks, ReadFile, MarkIndexed, MarkError, FileFails, Holders, Mark, Types
  <2>2. OneAtWork'
    BY <1>2, <2>1 DEF OneAtWork, Working, runVars
  <2>3. \A s \in Runs : s # r => task[s][f] \in {"none", "done", "raised"}
    BY <1>3, <2>1
  <2>4. /\ \A g \in Files : g # f => /\ fileStatus'[g] = fileStatus[g]
                                     /\ fileCount'[g] = fileCount[g]
                                     /\ chunks'[g] = chunks[g]
        /\ \A s \in Runs, g \in Files : s # r \/ g # f => /\ gone'[s][g] = gone[s][g]
                                                          /\ found'[s][g] = found[s][g]
                                                          /\ read'[s][g] = read[s][g]
    BY <1>6 DEF FileStep, StartFile, ResetRow, DeleteChunks, StillCommitted, CommitChunks, ReadFile, MarkIndexed, MarkError, FileFails, Forget, fileVars, Types
  <2> DEFINE Alone(s, g) ==
               /\ g \in Holders(s) => fileStatus[g] # "indexed"
               /\ task[s][g] = "replace" => gone[s][g] = chunks[g]
               /\ task[s][g] \in {"mark", "marking"} => chunks[g] = RowsOf(s, found[s][g])
               /\ task[s][g] \in {"marking", "failing", "retrying"} =>
                   read[s][g] = [status |-> fileStatus[g], count |-> fileCount[g]]
             Current(g) ==
               fileStatus[g] = "indexed" =>
                  /\ Cardinality(chunks[g]) = fileCount[g]
                  /\ \A x, y \in chunks[g] : x[1] = y[1]
  <2>5. \A s \in Runs, g \in Files : s # r \/ g # f => Alone(s, g)'
    <3> SUFFICES ASSUME NEW s \in Runs, NEW g \in Files, s # r \/ g # f PROVE Alone(s, g)'
      OBVIOUS
    <3>1. CASE g # f
      <4>1. Alone(s, g)
        BY <1>2 DEF TasksAreAlone
      <4>2. UNCHANGED <<task[s][g], fileStatus[g], fileCount[g], chunks[g], gone[s][g],
                        found[s][g], read[s][g]>>
        BY <2>1, <2>4, <3>1
      <4> QED
        BY <4>1, <4>2 DEF Holders
    <3>2. CASE g = f
      BY <2>1, <2>3, <3>2 DEF Holders
    <3> QED
      BY <3>1, <3>2
  <2>6. \A g \in Files : g # f => Current(g)'
    BY <1>2, <2>4 DEF IndexedIsCurrent
  <2>7. Alone(r, f)' /\ Current(f)'
    <3>0. Alone(r, f) /\ Current(f)
      BY <1>2 DEF TasksAreAlone, IndexedIsCurrent
    <3>1. CASE StartFile(r, f)
      BY <3>1 DEF StartFile, ResetRow, Types
    <3>2. CASE DeleteChunks(r, f)
      BY <3>0, <3>2 DEF DeleteChunks, StillCommitted, Holders, fileVars, Types
    <3>3. CASE CommitChunks(r, f)
      BY <3>0, <3>3 DEF CommitChunks, Holders, fileVars, Types
    <3>4. CASE ReadFile(r, f)
      BY <3>0, <3>4 DEF ReadFile, Mark, Holders, fileVars, Types
    <3>5. CASE MarkIndexed(r, f)
      <4>1. /\ task'[r][f] = "done" /\ chunks' = chunks
            /\ fileStatus'[f] = "indexed" /\ fileCount'[f] = found[r][f]
            /\ chunks[f] = RowsOf(r, found[r][f]) /\ found[r][f] \in Nat
        BY <3>0, <3>5, ConstantsAssumption DEF MarkIndexed, Flushed, Holders, Types
      <4> QED
        BY <4>1, RowsCounted DEF Holders
    <3>6. CASE MarkError(r, f)
      <4>1. /\ task'[r][f] = "done" /\ fileStatus'[f] # "indexed"
        BY <3>0, <3>6 DEF MarkError, Flushed, Holders, Types
      <4> QED
        BY <4>1 DEF Holders
    <3>7. CASE FileFails(r, f)
      <4>1. /\ task'[r][f] \in {"failed", "retry", "raised"}
            /\ f \in Holders(r) \/ task'[r][f] = "raised"
            /\ UNCHANGED <<fileVars, chunks>>
        BY <3>7 DEF FileFails, AfterException, Holders, Types
      <4> QED
        BY <3>0, <4>1 DEF Holders, fileVars
    <3> QED
      BY <1>6, <3>1, <3>2, <3>3, <3>4, <3>5, <3>6, <3>7 DEF FileStep
  <2>8. TasksAreAlone' /\ IndexedIsCurrent'
    BY <2>5, <2>6, <2>7 DEF TasksAreAlone, IndexedIsCurrent
  <2> QED
    BY <2>2, <2>8
<1>7. CASE Crash
  BY <1>2, <1>7 DEF Crash, OneAtWork, Working, TasksAreAlone, IndexedIsCurrent, Holders, fileVars
<1>8. CASE Disable
  BY <1>2, <1>8 DEF Disable, OneAtWork, Working, TasksAreAlone, IndexedIsCurrent, Holders, fileVars, runVars, taskVars
<1>9. CASE UNCHANGED vars
  BY <1>2, <1>9 DEF vars, OneAtWork, Working, TasksAreAlone, IndexedIsCurrent, Holders, fileVars, runVars, taskVars
<1> QED
  BY <1>4, <1>5, <1>6, <1>7, <1>8, <1>9 DEF Next, RunStep

\* While the runs of a project do not overlap, a file marked "indexed" has the
\* counted chunks of one run, whatever failed or crashed before: the row is
\* reset first, and marked last.
THEOREM SerialCorrect == Spec => []SerialIsCurrent
<1>1. Init => SerialInv
  BY DEF Init, SerialInv, OneAtWork, Working, TasksAreAlone, IndexedIsCurrent, Holders
<1>2. SerialInv => SerialIsCurrent
  BY DEF SerialInv, SerialIsCurrent
<1>3. Types /\ SerialInv /\ [Next]_vars => SerialInv'
  BY SerialStep
<1> QED
  BY <1>1, <1>2, <1>3, TypesAlways, PTL DEF Spec

=============================================================================

---------------------------- MODULE CollabSerial ----------------------------
(***************************************************************************)
(* CollabHub when its background work is never overtaken: an upload takes  *)
(* less time than the debounce delay before the next one, and nobody is    *)
(* connected during a final save. The code relies on this and does nothing *)
(* to enforce it (CollabHub has the behaviours without it). Under this     *)
(* assumption, and when no request fails but those of a compaction, the    *)
(* hub keeps the promise of CollabDocument.                                *)
(***************************************************************************)
EXTENDS CollabHub

Active(j) == jpc[j] \notin {"idle", "armed", "stopped", "done"}
Attached(c) == pc[c] \notin {"new", "gone"}

\* One upload goroutine at a time, and the final one has the document to
\* itself.
Serial ==
    /\ \A i, j \in Jobs : Active(i) /\ Active(j) => i = j
    /\ \A i, c \in Conns : Active(i) => ~Attached(c)

SerialNext ==
    /\ \/ \E c \in Conns : \/ Register(c) \/ HandleMessage(c) \/ Leave(c)
                           \/ WritePump(c) \/ Drop(c)
       \/ \E d \in Docs : Load(d)
       \/ \E u \in Updates : TimerFires(u)
       \/ \E j \in Jobs : Upload(j) \/ Compact(j) \/ RemoveIfEmpty(j)
       \/ \E j \in Jobs : CompactionFails(j)
    /\ Serial'

SerialSpec == Init /\ [][SerialNext]_vars

-----------------------------------------------------------------------------

\* The document is open while it is registered, has accepted what is in the
\* log of some instance, and has saved what is in either bucket.
Doc == INSTANCE CollabDocument WITH
    open <- registry # None, accepted <- Accepted, saved <- Durable

\* Every step of the hub is a step of the promised document or changes nothing
\* it promises: a PUT, a compaction or a deletion never loses what was saved,
\* and eviction happens only when the whole log is in the store.
ImplementsDocument == Doc!Spec

\* A document opened again starts from everything accepted before: what
\* earlier instances logged is in the seed, split between snapshot and log,
\* also when the compaction in between stopped half-way.
SeedIsComplete ==
    \A d \in Docs :
        seedPc[d] = "done" =>
            \A e \in 1 .. (d - 1) :
                Elems(updateLog[e]) \subseteq seedSnap[d] \cup Elems(seedUps[d])

=============================================================================

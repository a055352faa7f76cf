---------------------------- MODULE MCRagIndexer ----------------------------
(***************************************************************************)
(* Instances of RagIndexer for TLC: two runs, two files.                   *)
(***************************************************************************)
EXTENDS RagIndexer

CONSTANTS r1, r2, f1, f2

=============================================================================

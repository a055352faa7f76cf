-------------------------- MODULE MCCollabSession --------------------------
(***************************************************************************)
(* Instances of CollabSession for TLC: up to two files, two other users.   *)
(***************************************************************************)
EXTENDS CollabSession

CONSTANTS file1, file2, peer1, peer2

=============================================================================

--------------------------- MODULE MCCollabSerial ---------------------------
(***************************************************************************)
(* Instances of CollabSerial for TLC: two writers and a viewer.            *)
(***************************************************************************)
EXTENDS CollabSerial

CONSTANTS w1, w2, v1

=============================================================================

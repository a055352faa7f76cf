---------------------------- MODULE MCCollabHub ----------------------------
(***************************************************************************)
(* Instances of CollabHub for TLC: two writers and a viewer.               *)
(***************************************************************************)
EXTENDS CollabHub

CONSTANTS w1, w2, v1

=============================================================================

------------------------ MODULE MCCollaboratorsPanel ------------------------
(***************************************************************************)
(* Instances of CollaboratorsPanel for TLC: one invite and one member.     *)
(***************************************************************************)
EXTENDS CollaboratorsPanel, TLC

CONSTANTS i, p, s1, s2, s3

SlotSymmetry == Permutations(Slots)

=============================================================================

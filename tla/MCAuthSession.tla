--------------------------- MODULE MCAuthSession ---------------------------
(***************************************************************************)
(* Instances of AuthSession for TLC: two tokens, of one user or of two.     *)
(***************************************************************************)
EXTENDS AuthSession

CONSTANTS t1, t2

=============================================================================

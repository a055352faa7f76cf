---------------------------- MODULE MCFileBrowser ----------------------------
(***************************************************************************)
(* Instances of FileBrowser for TLC: a directory in the root, one that may *)
(* be made, and a file that may be uploaded.                               *)
(***************************************************************************)
EXTENDS FileBrowser, TLC

CONSTANTS root, a, n, x

InitialTree == (root :> None) @@ (a :> root)

=============================================================================

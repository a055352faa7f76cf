--------------------------- MODULE MCEditorFiles ---------------------------
(***************************************************************************)
(* Instances of EditorFiles for TLC: a file that exists and one that is made. *)
(***************************************************************************)
EXTENDS EditorFiles

CONSTANTS a, n

=============================================================================

---------------------------- MODULE MCWorkspace ----------------------------
(* Workspace on a small instance for TLC. *)
EXTENDS Workspace, TLC

(* Session ids are uuids: nothing tells one from another but its tab.      *)
Symmetry == Permutations(Session)
=============================================================================

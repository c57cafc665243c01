-------------------------- MODULE MCAssemblyLinks --------------------------
(* Open assemblies on small instances for TLC. *)
EXTENDS AssemblyLinks, TLC

(* Session ids are uuids; paths, names and versions are only compared.      *)
Symmetry ==
  Permutations(Session) \cup Permutations(Path) \cup Permutations(Name)
    \cup Permutations(Version)
=============================================================================

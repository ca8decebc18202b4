---------------------------- MODULE MCOasVersions ----------------------------
(* Instances of OasVersions for TLC. *)
EXTENDS OasVersions, TLC

Symmetry == Permutations(Api)
=============================================================================

------------------------------ MODULE MCRestore ------------------------------
(* Model values of module Restore for TLC. *)
EXTENDS Restore, TLC

Symmetry == Permutations(Session) \cup Permutations(VersionId)
=============================================================================

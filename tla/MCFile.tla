------------------------------- MODULE MCFile -------------------------------
(* Small instances of File for TLC. *)
EXTENDS FileProperties, TLC

Symmetry == Permutations(Clients)
=============================================================================

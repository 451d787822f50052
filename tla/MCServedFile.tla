---------------------------- MODULE MCServedFile ----------------------------
(* Small instances of ServedFile for TLC. *)
EXTENDS ServedFile, TLC

Symmetry == Permutations(Clients)
=============================================================================

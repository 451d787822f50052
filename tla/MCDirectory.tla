----------------------------- MODULE MCDirectory -----------------------------
(* Small instances of Directory for TLC: two levels, two names. *)
EXTENDS DirectoryProperties

CONSTANTS a, b
TwoLevels == {<<a>>, <<b>>, <<a, a>>}
Symmetry == Permutations(Clients)
=============================================================================

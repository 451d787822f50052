------------------------------ MODULE MCContent ------------------------------
(* Small instances of Content for TLC. *)
EXTENDS ContentProperties
=============================================================================

----------------------------- MODULE MCMetadata -----------------------------
(* Small instances of Metadata for TLC. *)
EXTENDS Metadata, TLC

Symmetry == Permutations(Threads)
=============================================================================

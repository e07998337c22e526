----------------------------- MODULE MCFileStore -----------------------------
(* Instances of the file storage for TLC. *)
EXTENDS FileStore, TLC

CONSTANTS c1, c2, k1, k2, short, long

Symmetric == Permutations({c1, c2}) \cup Permutations({k1, k2})

=============================================================================

--------------------------- MODULE MCSecretStores ---------------------------
(* Small instances of SecretStores for TLC. *)
EXTENDS SecretStores, TLC

\* Entries of one store are interchangeable.
Interchangeable == Permutations(Rows) \cup Permutations(Owners)
=============================================================================

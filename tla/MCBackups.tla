------------------------------ MODULE MCBackups ------------------------------
(* Small instances of Backups for TLC. *)
EXTENDS Backups

CONSTANTS c1, h1, h2
=============================================================================

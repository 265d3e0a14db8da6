-------------------------- MODULE MCOperatorAccess --------------------------
(* Small instances of OperatorAccess for TLC. *)
EXTENDS OperatorAccess, TLC

\* Workers, host processes and operators are interchangeable.
Interchangeable ==
    Permutations(Hosts) \cup Permutations(Workers) \cup Permutations(Operators)
=============================================================================

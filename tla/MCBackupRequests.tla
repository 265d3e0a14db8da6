-------------------------- MODULE MCBackupRequests --------------------------
(* Small instances of BackupRequests for TLC. *)
EXTENDS BackupRequests

CONSTANT h1

Form(host, enc, pasted, port) == [host |-> host, enc |-> enc, pasted |-> pasted, port |-> port]

\* A key that is pasted and told; a key without a destination; a port that is no
\* number, and a key that was promised but left out.
MCForms ==
    {Form(h1, "own", "good", "ok"), Form(NoHost, "generate", "none", "ok"),
     Form(h1, "own", "none", "bad")}

\* A setting that works, and a pasted key that does not.
TwoForms == {Form(h1, "none", "none", "ok"), Form(h1, "own", "bad", "ok")}
=============================================================================

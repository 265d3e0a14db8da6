--------------------------- MODULE OperatorAccess ---------------------------
(***************************************************************************)
(* The break-glass grant: a file in the tenant's configuration directory   *)
(* (.vhsp-operator-access.json) that host processes write when an operator *)
(* is let into a tenant's panel or put out again, and that the panel's     *)
(* gunicorn workers read on every request of an operator session and       *)
(* rewrite once, when the single-use token is spent.                       *)
(*                                                                         *)
(* Both sides read, change and write the whole file without a lock, and    *)
(* Path.write_text truncates before it writes: each read, truncation and   *)
(* write is an action of its own here.                                     *)
(***************************************************************************)
EXTENDS Naturals, FiniteSets

CONSTANTS
    Hosts,       \* host processes: the vhsp CLI and the admin API's workers
    Workers,     \* gunicorn workers of the tenant's panel
    Operators,   \* names an operator session may carry
    MaxGrants,   \* bound on the grants issued in a behaviour
    NoFile,      \* no grant was ever issued
    Empty,       \* the file between a truncation and the write after it
    Garbled      \* two writers' bytes on top of each other: not JSON

ASSUME BoundAssumption == MaxGrants \in Nat \ {0}
ASSUME ProcessAssumption == Hosts \cap Workers = {}
ASSUME OperatorAssumption == 0 \notin Operators

Grants == 1..MaxGrants
Processes == Hosts \cup Workers

\* What the file says, the token's hash and the operator's name standing in
\* the grant's number (issuedTo has the name).
Contents == [grant : Grants, used : BOOLEAN, revoked : BOOLEAN]
Unreadable == {NoFile, Empty, Garbled}

ASSUME ContentsAssumption == Unreadable \cap Contents = {}
ASSUME FileAssumption == NoFile # Empty /\ NoFile # Garbled /\ Empty # Garbled

NoGrant == 0

VARIABLES
    file,       \* the grant file
    issuedTo,   \* [Grants -> Operators \cup {NoGrant}]: whom a grant names
    over,       \* grants whose window has run out
    pc,         \* where each process is in its handler
    task,       \* [Processes -> Grants \cup {NoGrant}]: the grant it works on
    copy,       \* what each process is about to write
    sessions,   \* grants whose token opened a session not yet ended
    opened,     \* history: grants whose token ever opened a session
    reused,     \* history: grants whose token opened a second one
    latest,     \* history: the grant written last by a grant command
    revoked,    \* history: grants a revocation was completed for
    ended,      \* history: the same, no other process then holding a copy
    clashed     \* history: grants some handler worked on while another handler ran

access == <<sessions, opened, reused>>
writes == <<latest, revoked, ended>>
history == <<writes, clashed>>
vars == <<file, issuedTo, over, pc, task, copy, access, history>>

Stages == {"idle", "checked", "marking", "granting", "revoking",
           "truncated_grant", "truncated_mark", "truncated_revoke", "spent"}
Truncated == {"truncated_grant", "truncated_mark", "truncated_revoke"}
Holding == {"marking", "granting", "revoking"} \cup Truncated

Readable == file \notin Unreadable

\* Mutant: forgets the clock.
Active_IgnoresClock == Readable /\ ~file.revoked

(***************************************************************************)
(* operator_access_state and operator_access_status: active is computed at *)
(* every read, from the revocation mark and the clock.                     *)
(***************************************************************************)
Active == Readable /\ ~file.revoked /\ file.grant \notin over

\* operator_session_is_valid: an active grant that names the session's operator.
SessionValid(g) == Active /\ issuedTo[file.grant] = issuedTo[g]

MayAct(g) == g \in sessions /\ SessionValid(g)

\* Mutant: updates the grant that is there instead of replacing it.
NewGrant_KeepsOld(g) ==
    [grant |-> IF Readable THEN file.grant ELSE g, used |-> FALSE, revoked |-> FALSE]

NewGrant(g) == [grant |-> g, used |-> FALSE, revoked |-> FALSE]
\* Mutant: does not burn the token.
Spent_Nothing(data) == data

\* Mutant: rebuilds the file from the fields it knows instead of marking what it read.
Spent_Rebuilt(data) == [grant |-> data.grant, used |-> TRUE, revoked |-> FALSE]

Spent(data) == [data EXCEPT !.used = TRUE]
Revoked(data) == [data EXCEPT !.revoked = TRUE]

Init ==
    /\ file = NoFile
    /\ issuedTo = [g \in Grants |-> NoGrant]
    /\ over = {}
    /\ pc = [p \in Processes |-> "idle"]
    /\ task = [p \in Processes |-> NoGrant]
    /\ copy = [p \in Processes |-> NoFile]
    /\ sessions = {} /\ opened = {} /\ reused = {}
    /\ latest = NoGrant /\ revoked = {} /\ ended = {} /\ clashed = {}

Goto(p, stage) == pc' = [pc EXCEPT ![p] = stage]
Hold(p, g, data) == task' = [task EXCEPT ![p] = g] /\ copy' = [copy EXCEPT ![p] = data]
Release(p) == Goto(p, "idle") /\ Hold(p, NoGrant, NoFile)

Busy == {p \in Processes : pc[p] # "idle"}

\* A handler for g starts whatever the others are doing: no lock keeps it out.
Begins(p, g) ==
    /\ p \notin Busy
    /\ clashed' = IF Busy = {} THEN clashed ELSE clashed \cup {g} \cup {task[q] : q \in Busy}

(***************************************************************************)
(* Host: grant_operator_access draws a token and an expiry and overwrites  *)
(* whatever grant is there.                                                *)
(***************************************************************************)
Grant(h) ==
    /\ \E g \in Grants, o \in Operators :
           /\ Begins(h, g)
           /\ issuedTo[g] = NoGrant
           /\ \A f \in Grants : f < g => issuedTo[f] # NoGrant
           /\ issuedTo' = [issuedTo EXCEPT ![g] = o]
           /\ Goto(h, "granting")
           /\ Hold(h, g, NewGrant(g))
    /\ UNCHANGED <<file, over, access, writes>>

(***************************************************************************)
(* Host: revoke_operator_access reads the file (giving up when it cannot   *)
(* be read) and sets revoked_at in what it read.                           *)
(***************************************************************************)
Revoke(h) ==
    /\ Readable
    /\ Begins(h, file.grant)
    /\ Goto(h, "revoking")
    /\ Hold(h, file.grant, Revoked(file))
    /\ UNCHANGED <<file, issuedTo, over, access, writes>>

(***************************************************************************)
(* Panel: operator_access_consume, the token of g in hand.  The first read *)
(* decides; every other outcome denies and changes nothing.                *)
(***************************************************************************)
Consume(w, g) ==
    /\ Begins(w, g)
    /\ Active /\ file.grant = g /\ ~file.used
    /\ Goto(w, "checked")
    /\ Hold(w, g, NoFile)
    /\ UNCHANGED <<file, issuedTo, over, access, writes>>

\* The second read takes whatever grant the file holds by now and marks it.
ReadAgain(w) ==
    /\ pc[w] = "checked"
    /\ Readable
    /\ Goto(w, "marking")
    /\ copy' = [copy EXCEPT ![w] = Spent(file)]
    /\ UNCHANGED <<file, issuedTo, over, task, access, history>>

\* When it cannot be read, a warning is printed and the session starts anyway.
CannotMark(w) ==
    /\ pc[w] = "checked"
    /\ ~Readable
    /\ Goto(w, "spent")
    /\ UNCHANGED <<file, issuedTo, over, task, copy, access, history>>

StartSession(w) ==
    /\ pc[w] = "spent"
    /\ LET g == task[w] IN
           /\ sessions' = sessions \cup {g}
           /\ opened' = opened \cup {g}
           /\ reused' = reused \cup (opened \cap {g})
    /\ Release(w)
    /\ UNCHANGED <<file, issuedTo, over, history>>

(***************************************************************************)
(* Path.write_text, on both sides.  A writer that truncated the file finds *)
(* it empty, or holding what another writer put there since: its own bytes *)
(* then replace the other's when they are as long, and leave a tail of     *)
(* them behind when they are shorter.                                      *)
(***************************************************************************)
TruncatedFrom == [granting |-> "truncated_grant", marking |-> "truncated_mark",
                  revoking |-> "truncated_revoke"]

Truncate(p) ==
    /\ pc[p] \in {"granting", "marking", "revoking"}
    /\ file' = Empty
    /\ Goto(p, TruncatedFrom[pc[p]])
    /\ UNCHANGED <<issuedTo, over, task, copy, access, history>>

Written(p) == IF file = Empty THEN {copy[p]} ELSE {copy[p], Garbled}

\* A process other than p is about to write g without a revocation mark.
StaleCopy(p, g) ==
    \E q \in Processes \ {p} : pc[q] \in Holding /\ copy[q].grant = g /\ ~copy[q].revoked

WriteGrant(h) ==
    /\ pc[h] = "truncated_grant"
    /\ file' \in Written(h)
    /\ latest' = task[h]
    /\ Release(h)
    /\ UNCHANGED <<issuedTo, over, access, revoked, ended, clashed>>

WriteRevocation(h) ==
    /\ pc[h] = "truncated_revoke"
    /\ file' \in Written(h)
    /\ revoked' = revoked \cup {task[h]}
    /\ ended' = IF StaleCopy(h, task[h]) THEN ended ELSE ended \cup {task[h]}
    /\ Release(h)
    /\ UNCHANGED <<issuedTo, over, access, latest, clashed>>

WriteMark(w) ==
    /\ pc[w] = "truncated_mark"
    /\ file' \in Written(w)
    /\ Goto(w, "spent")
    /\ copy' = [copy EXCEPT ![w] = NoFile]
    /\ UNCHANGED <<issuedTo, over, task, access, history>>

\* _expire_operator_session: the next request of a session that is no longer
\* valid clears its cookie.  A read of a half-written file counts as that.
EndSession(g) ==
    /\ g \in sessions
    /\ ~SessionValid(g)
    /\ sessions' = sessions \ {g}
    /\ UNCHANGED <<file, issuedTo, over, pc, task, copy, opened, reused, history>>

\* The clock passes a grant's expires_at.
WindowEnds(g) ==
    /\ issuedTo[g] # NoGrant
    /\ g \notin over
    /\ over' = over \cup {g}
    /\ UNCHANGED <<file, issuedTo, pc, task, copy, access, history>>

\* A process killed in its handler leaves the file as it is.
Dies(p) ==
    /\ pc[p] # "idle"
    /\ Release(p)
    /\ UNCHANGED <<file, issuedTo, over, access, history>>

HostStep(h) == Grant(h) \/ Revoke(h) \/ WriteGrant(h) \/ WriteRevocation(h)
PanelStep(w) ==
    \/ \E g \in Grants : Consume(w, g)
    \/ ReadAgain(w) \/ CannotMark(w) \/ WriteMark(w) \/ StartSession(w)

Next ==
    \/ \E h \in Hosts : HostStep(h)
    \/ \E w \in Workers : PanelStep(w)
    \/ \E p \in Processes : Truncate(p) \/ Dies(p)
    \/ \E g \in Grants : EndSession(g) \/ WindowEnds(g)

Spec == Init /\ [][Next]_vars

-----------------------------------------------------------------------------
\* The types of the grant file, the handlers' local state and the histories
\* (provisioner.py:1716-1723, app.py:1950-1956).
TypeOK ==
    /\ file \in Contents \cup Unreadable
    /\ issuedTo \in [Grants -> Operators \cup {NoGrant}]
    /\ over \subseteq Grants
    /\ pc \in [Processes -> Stages]
    /\ task \in [Processes -> Grants \cup {NoGrant}]
    /\ copy \in [Processes -> Contents \cup {NoFile}]
    /\ sessions \subseteq opened /\ reused \subseteq opened /\ opened \subseteq Grants
    /\ latest \in Grants \cup {NoGrant}
    /\ ended \subseteq revoked /\ revoked \subseteq Grants
    /\ clashed \subseteq Grants

(***************************************************************************)
(* A session holds the owner's rights only while some grant naming its     *)
(* operator is inside its window and was not revoked for good, however the *)
(* panel's and the host's rewrites of the file interleave                  *)
(* (app.py:991-1010, provisioner.py:1735-1756).                            *)
(***************************************************************************)
AuthorityIsGranted ==
    \A g \in sessions : MayAct(g) =>
        \E f \in Grants : issuedTo[f] = issuedTo[g] /\ f \notin over /\ f \notin ended

(***************************************************************************)
(* A revocation completed while nobody else was about to rewrite the same  *)
(* grant is never undone: neither a token being spent nor a second revoke  *)
(* brings the grant back (provisioner.py:1747-1750, app.py:1951-1953).     *)
(***************************************************************************)
CleanRevokeIsFinal == \A g \in ended : ~(Active /\ file.grant = g)

(***************************************************************************)
(* A token opens at most one session, unless a handler working on its      *)
(* grant ran while another handler did: reading, truncating and writing    *)
(* the file loses nothing by itself, neither does dying half way through,  *)
(* and what became of other grants does not matter (app.py:1910,           *)
(* app.py:1946-1949).                                                      *)
(***************************************************************************)
TokenOpensOneSession == reused \subseteq clashed

(***************************************************************************)
(* A grant that was replaced stays replaced: only a grant whose handlers   *)
(* clashed with another's can be in the file when a later one was written  *)
(* (app.py:999-1001).                                                      *)
(***************************************************************************)
NewestGrantRules == Readable /\ file.grant \notin clashed => file.grant = latest

=============================================================================

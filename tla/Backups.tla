------------------------------- MODULE Backups -------------------------------
(***************************************************************************)
(* Taking tenant backups: create_backup with the pruning it ends in, and   *)
(* run_all_due_backups, the sweep a systemd timer starts at midnight.      *)
(*                                                                         *)
(* create_backup is a program of external calls: build a snapshot in a     *)
(* work directory, then, for the operator's destination and after it for   *)
(* the tenant's own, push the copy, insert its row, delete the rows beyond *)
(* the retention, remove the files of those.  The sweep, the admin's       *)
(* gunicorn workers, the CLI and the reconciler run it with nothing held,  *)
(* and any call may fail or be the last one of its process.                *)
(*                                                                         *)
(* Day ticks of the clock are a day.  A copy holds the number of the       *)
(* snapshot it was made from, which also stands for its name: the name is  *)
(* the second in which the snapshot was ready, and no two of one tenant    *)
(* are ready, or their work directories made, in the same second.          *)
(***************************************************************************)
EXTENDS Naturals, Sequences, FiniteSets, SequencesExt

CONSTANTS
    NumTenants,    \* the tenants are 1..NumTenants, in list_tenants' order
    Broken,        \* tenants whose snapshot cannot be built (no database)
    Clerks,        \* processes that back a tenant up when asked to
    Timer,         \* the process of the sweep
    Hosts,         \* destinations tenants may set up
    Operator,      \* the operator's destination
    NoHost,        \* the tenant has no destination of its own
    Retention,     \* copies kept per destination
    Interval,      \* days between backups of a tenant
    Day,           \* ticks of a day
    MaxTime,       \* bound: ticks
    MaxSnapshots,  \* bound: snapshots built
    MaxFailures,   \* bound: calls that fail, processes killed
    MaxMoves       \* bound: changes of a tenant's destination

ASSUME CountAssumption ==
    /\ NumTenants \in Nat \ {0} /\ Broken \subseteq 1..NumTenants
    /\ {Retention, Interval, Day} \subseteq Nat \ {0}
    /\ {MaxTime, MaxSnapshots, MaxFailures, MaxMoves} \subseteq Nat

ASSUME NameAssumption ==
    Timer \notin Clerks /\ Operator \notin Hosts \cup {NoHost} /\ NoHost \notin Hosts

VARIABLES
    now,        \* the clock
    own,        \* tenant -> its own destination, backup_dest_host
    rows,       \* tenant -> destination -> the registry's rows, oldest first
    remote,     \* tenant -> place -> the files there
    job,        \* process -> its run of create_backup
    sweep,      \* the sweep's own variables
    built,      \* snapshots built so far
    failures,   \* calls failed and processes killed so far
    moves,      \* changes of a destination so far
    overlapped, \* history: tenants of which two backups ever ran at once
    strays      \* history: the files, as <<place, id>>, that a call which failed, a
                \* process that died or a removal at another place gave up

vars == <<now, own, rows, remote, job, sweep, built, failures, moves,
          overlapped, strays>>
store == <<rows, remote>>

Tenants == 1..NumTenants
Processes == Clerks \cup {Timer}
Places == Hosts \cup {Operator}
Destinations == {"operator", "tenant"}

Idle == [at |-> "idle"]
Working(p) == job[p] # Idle
Asleep == [on |-> FALSE, t |-> 0, began |-> 0, due |-> {}, failed |-> {}, last |-> 0]

\* A file as the snapshot with its number, or as a push left it unfinished.
Copy(id, whole) == [id |-> id, whole |-> whole]

Init ==
    /\ now = 0
    /\ own \in [Tenants -> Hosts \cup {NoHost}]
    /\ rows = [t \in Tenants |-> [d \in Destinations |-> <<>>]]
    /\ remote = [t \in Tenants |-> [h \in Places |-> {}]]
    /\ job = [p \in Processes |-> Idle]
    /\ sweep = Asleep
    /\ built = 0 /\ failures = 0 /\ moves = 0
    /\ overlapped = {} /\ strays = {}

-----------------------------------------------------------------------------
(* create_backup.                                                          *)

Goto(p, at) == job' = [job EXCEPT ![p].at = at]

\* The tenant's row is read once, here: the destination is the one it had.
Begin(p, t) ==
    /\ job' = [job EXCEPT ![p] =
          [at |-> "build", t |-> t, own |-> own[t], dest |-> "operator", id |-> 0,
           stale |-> <<>>]]
    /\ overlapped' = IF \E q \in Processes \ {p} : Working(q) /\ job[q].t = t
                     THEN overlapped \cup {t} ELSE overlapped

Ask(c, t) ==
    /\ ~Working(c)
    /\ Begin(c, t)
    /\ UNCHANGED <<now, own, store, sweep, built, failures, moves, strays>>

Build(p) ==
    /\ Working(p) /\ job[p].at = "build"
    /\ job[p].t \notin Broken
    /\ built < MaxSnapshots
    /\ built' = built + 1
    /\ job' = [job EXCEPT ![p].at = "push", ![p].id = built + 1]
    /\ UNCHANGED <<now, own, store, sweep, failures, moves, overlapped, strays>>

Place(j) == IF j.dest = "operator" THEN Operator ELSE j.own

Upload(files, j, whole) == {f \in files : f.id # j.id} \cup {Copy(j.id, whole)}

Push(p) ==
    /\ Working(p) /\ job[p].at = "push"
    /\ remote' = [remote EXCEPT ![job[p].t][Place(job[p])] = Upload(@, job[p], TRUE)]
    /\ Goto(p, "record")
    /\ UNCHANGED <<now, own, rows, sweep, built, failures, moves, overlapped, strays>>

Record(p) ==
    /\ Working(p) /\ job[p].at = "record"
    /\ rows' = [rows EXCEPT ![job[p].t][job[p].dest] =
          Append(@, [id |-> job[p].id, at |-> now, place |-> Place(job[p])])]
    /\ Goto(p, "prune")
    /\ UNCHANGED <<now, own, remote, sweep, built, failures, moves, overlapped, strays>>

\* Mutant: one too many is taken for stale.
Stale_OneMore(list) ==
    SubSeq(list, 1, IF Len(list) >= Retention THEN Len(list) - Retention + 1 ELSE 0)

\* The rows beyond the newest ones.
Stale(list) ==
    SubSeq(list, 1, IF Len(list) > Retention THEN Len(list) - Retention ELSE 0)

\* Mutant: the oldest of the stale rows stays.
Kept_OneMore(list) ==
    SubSeq(list, IF Stale(list) = <<>> THEN 1 ELSE Len(Stale(list)), Len(list))

Kept(list) == SubSeq(list, Len(Stale(list)) + 1, Len(list))

\* prune_old_backups, in one step.  The rows are read before the transaction
\* that deletes them, so two prunes may return the same ones; that only makes
\* the second delete and the second rm -f of those files do nothing.
PruneRows(p) ==
    /\ Working(p) /\ job[p].at = "prune"
    /\ LET list == rows[job[p].t][job[p].dest]
       IN /\ rows' = [rows EXCEPT ![job[p].t][job[p].dest] = Kept(list)]
          /\ job' = [job EXCEPT ![p].at = "remove", ![p].stale = Stale(list)]
    /\ UNCHANGED <<now, own, remote, sweep, built, failures, moves, overlapped, strays>>

\* Mutant: only one file is removed.
NextStale_Last(stale) == <<>>

NextStale(stale) == Tail(stale)

\* Where a row says its file is.
FileOf(row) == <<row.place, row.id>>

\* rm -f at the destination this backup went to, which need not be where the
\* file is; that it failed is not noticed.
RemoveStale(p) ==
    /\ Working(p) /\ job[p].at = "remove" /\ job[p].stale # <<>>
    /\ LET row == Head(job[p].stale)
       IN \/ /\ remote' = [remote EXCEPT ![job[p].t][Place(job[p])] =
                   {f \in @ : f.id # row.id}]
             /\ strays' = IF row.place = Place(job[p]) THEN strays
                          ELSE strays \cup {FileOf(row)}
             /\ UNCHANGED failures
          \/ /\ failures < MaxFailures /\ failures' = failures + 1
             /\ strays' = strays \cup {FileOf(row)}
             /\ UNCHANGED remote
    /\ job' = [job EXCEPT ![p].stale = NextStale(@)]
    /\ UNCHANGED <<now, own, rows, sweep, built, moves, overlapped>>

\* On to the tenant's own destination, if it had one.
NextDestination(p) ==
    /\ Working(p) /\ job[p].at = "remove" /\ job[p].stale = <<>>
    /\ job[p].dest = "operator" /\ job[p].own # NoHost
    /\ job' = [job EXCEPT ![p].at = "push", ![p].dest = "tenant"]
    /\ UNCHANGED <<now, own, store, sweep, built, failures, moves, overlapped, strays>>

\* Mutant: an exception ends the sweep.
AfterTurn_Abort(s, raised) ==
    IF raised THEN [s EXCEPT !.on = FALSE, !.failed = @ \cup {s.t}]
    ELSE [s EXCEPT !.t = @ + 1]

\* run_all_due_backups notes the exception and goes on.
AfterTurn(s, raised) ==
    [s EXCEPT !.t = @ + 1, !.failed = IF raised THEN @ \cup {s.t} ELSE @]

SweepGoesOn(p, raised) ==
    sweep' = IF p = Timer THEN AfterTurn(sweep, raised) ELSE sweep

Return(p) ==
    /\ Working(p) /\ job[p].at = "remove" /\ job[p].stale = <<>>
    /\ job[p].dest = "tenant" \/ job[p].own = NoHost
    /\ job' = [job EXCEPT ![p] = Idle]
    /\ SweepGoesOn(p, FALSE)
    /\ UNCHANGED <<now, own, store, built, failures, moves, overlapped, strays>>

\* A run that ends early gives up the copy it was placing and those it had still
\* to remove; from a push it may leave an unfinished file.
GivesUp(p) ==
    /\ job' = [job EXCEPT ![p] = Idle]
    /\ strays' = strays \cup {FileOf(row) : row \in ToSet(job[p].stale)}
          \cup (IF job[p].at \in {"push", "record"} THEN {<<Place(job[p]), job[p].id>>}
                ELSE {})
    /\ \/ UNCHANGED remote
       \/ /\ job[p].at = "push"
          /\ remote' = [remote EXCEPT ![job[p].t][Place(job[p])] = Upload(@, job[p], FALSE)]

\* Something raises: building, always for a tenant whose database is stopped,
\* a push, the registry, or decrypting a key for a push or a removal.
Fail(p) ==
    /\ Working(p)
    /\ IF job[p].t \in Broken THEN UNCHANGED failures
       ELSE failures < MaxFailures /\ failures' = failures + 1
    /\ GivesUp(p)
    /\ SweepGoesOn(p, TRUE)
    /\ UNCHANGED <<now, own, rows, built, moves, overlapped>>

\* Killed: gunicorn's --timeout 180, a restart of the service.
Die(p) ==
    /\ Working(p)
    /\ failures < MaxFailures
    /\ failures' = failures + 1
    /\ GivesUp(p)
    /\ sweep' = IF p = Timer THEN [Asleep EXCEPT !.last = sweep.last] ELSE sweep
    /\ UNCHANGED <<now, own, rows, built, moves, overlapped>>

-----------------------------------------------------------------------------
(* The sweep.                                                              *)

\* is_backup_due: by the operator's copies alone.
Due(t) ==
    rows[t]["operator"] = <<>> \/ now >= Last(rows[t]["operator"]).at + Interval * Day

\* A sweep that is still on at midnight keeps the next one from starting.
MustStart == (now % Day) = 0 /\ now >= sweep.last /\ ~sweep.on

StartSweep ==
    /\ MustStart
    /\ sweep' = [on |-> TRUE, t |-> 1, began |-> now, due |-> {t \in Tenants : Due(t)},
                 failed |-> {}, last |-> now + 1]
    /\ UNCHANGED <<now, own, store, job, built, failures, moves, overlapped, strays>>

Turn ==
    /\ sweep.on /\ ~Working(Timer) /\ sweep.t \in Tenants
    /\ IF Due(sweep.t) THEN Begin(Timer, sweep.t) /\ UNCHANGED sweep
       ELSE sweep' = [sweep EXCEPT !.t = @ + 1] /\ UNCHANGED <<job, overlapped>>
    /\ UNCHANGED <<now, own, store, built, failures, moves, strays>>

EndSweep ==
    /\ sweep.on /\ sweep.t > NumTenants
    /\ sweep' = [sweep EXCEPT !.on = FALSE]
    /\ UNCHANGED <<now, own, store, job, built, failures, moves, overlapped, strays>>

-----------------------------------------------------------------------------
(* The clock, and tenants changing their destination.                      *)

Tick ==
    /\ now < MaxTime
    /\ ~MustStart
    /\ now' = now + 1
    /\ UNCHANGED <<own, store, job, sweep, built, failures, moves, overlapped, strays>>

SetDestination(t, h) ==
    /\ moves < MaxMoves
    /\ own[t] # h
    /\ own' = [own EXCEPT ![t] = h]
    /\ moves' = moves + 1
    /\ UNCHANGED <<now, store, job, sweep, built, failures, overlapped, strays>>

-----------------------------------------------------------------------------
CreateStep(p) ==
    \/ Build(p) \/ Push(p) \/ Record(p) \/ PruneRows(p) \/ RemoveStale(p)
    \/ NextDestination(p) \/ Return(p) \/ Fail(p) \/ Die(p)

Next ==
    \/ \E p \in Processes : CreateStep(p)
    \/ \E c \in Clerks, t \in Tenants : Ask(c, t)
    \/ StartSweep \/ Turn \/ EndSweep \/ Tick
    \/ \E t \in Tenants, h \in Hosts \cup {NoHost} : SetDestination(t, h)

Spec == Init /\ [][Next]_vars

-----------------------------------------------------------------------------
(* Properties.                                                             *)

\* What the panels offer for download and restore is there: each row's file is
\* at the destination it was pushed to and holds the whole snapshot, whatever
\* failed or died, since a row comes after its file and goes before it.
ListedIsThere ==
    \A t \in Tenants, d \in Destinations :
        \A i \in DOMAIN rows[t][d] :
            Copy(rows[t][d][i].id, TRUE) \in remote[t][rows[t][d][i].place]

KindOf(h) == IF h = Operator THEN "operator" ELSE "tenant"
Newer(list, f) == {i \in DOMAIN list : list[i].id > f.id}

\* A whole copy goes only when as many newer ones as are to be kept are listed
\* for that destination; of a tenant whose backups overlapped, what is listed
\* last need not be what was read last.
PruneKeepsNewest ==
    [][\A t \in Tenants \ overlapped', h \in Places :
           \A f \in remote[t][h] \ remote'[t][h] :
               f.whole =>
                   Cardinality(Newer(rows'[t][KindOf(h)], f)) >= Retention]_vars

\* Pruning leaves behind nothing it should remove: of a tenant nobody backs up,
\* every file is listed but those a failed, killed or misdirected call gave up,
\* however its backups overlapped and whatever became of other files.
NothingLeaks ==
    \A t \in Tenants : (\A p \in Processes : Working(p) => job[p].t # t) =>
        \A h \in Places : \A f \in remote[t][h] :
            \/ <<h, f.id>> \in strays
            \/ \E row \in ToSet(rows[t][KindOf(h)]) : FileOf(row) = <<h, f.id>>

\* What run_all_due_backups exists for: when it ends, every tenant that was due
\* when it began and whose own backup did not raise has a backup since.
SweepServesAll ==
    [][(sweep.on /\ ~sweep'.on /\ failures' = failures) =>
           \A t \in sweep.due \ sweep'.failed :
               rows[t]["operator"] # <<>> /\ Last(rows[t]["operator"]).at >= sweep.began]_vars

\* README and vhsp-backup.timer: the sweep is daily so that a tenant is backed
\* up when its interval says so, by default each day.
DailyMeansDaily ==
    [][(sweep.on /\ ~sweep'.on) =>
           \A t \in Tenants \ sweep'.failed :
               rows[t]["operator"] # <<>> /\ Last(rows[t]["operator"]).at >= sweep.began]_vars
=============================================================================

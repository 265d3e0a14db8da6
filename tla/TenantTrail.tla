----------------------------- MODULE TenantTrail -----------------------------
(***************************************************************************)
(* A tenant's own audit log and its copy in the operator's.                *)
(*                                                                         *)
(* The file on the tenant's phpconf volume has writers on both sides of    *)
(* the container boundary: provisioner.append_tenant_audit on the host,    *)
(* and audit_log in the panel, which gunicorn runs with two workers.  Both *)
(* hold an flock over read, hash and write; but the write goes to Python's *)
(* buffer, and the buffer reaches the file when the `with` block closes it,*)
(* after the lock was released.  The panel also trims the file.            *)
(* mirror_tenant_operator_actions reads it with no lock, copies what an    *)
(* operator did into the operator's log, and then saves how far it got.    *)
(*                                                                         *)
(* An entry is [id, op, prev]: ids are given in the order entries are      *)
(* composed, op says its actor is "operator:...", prev is the id of the    *)
(* line it hashed, 0 for none.                                             *)
(***************************************************************************)
EXTENDS Naturals, Sequences, FiniteSets

CONSTANTS
    Hosts,             \* host processes that call append_tenant_audit
    Panels,            \* panel workers that call audit_log
    AuditMaxEntries,   \* AUDIT_MAX_ENTRIES
    MaxWrites,         \* bound: entries composed
    MaxCrashes,        \* bound: processes killed in the middle of a call
    Nobody             \* the lock is free

Writers == Hosts \cup Panels

ASSUME ConstantsAssumption ==
    /\ Hosts \cap Panels = {}
    /\ AuditMaxEntries \in Nat \ {0}
    /\ MaxWrites \in Nat /\ MaxCrashes \in Nat
    /\ Nobody \notin Hosts \cup Panels

VARIABLES
    file,        \* the lines of the tenant's audit.log
    lock,        \* holder of the flock
    phase,       \* writer -> where it is in its call
    lines,       \* writer -> lines it read under the lock
    entry,       \* writer -> <<the entry it composed>>, <<>> before
    written,     \* history: entries composed so far
    watermark,   \* lines the mirror has considered
    mirror,      \* the mirror's local variables
    operatorLog, \* ids copied into the operator's log, in order
    crashes,     \* history: processes killed so far
    crossed,     \* history: writers whose call ran beside another's
    doubtful     \* history: entries whose call crossed another's or was killed

calls == <<crossed, doubtful>>
tenant == <<file, lock, phase, lines, entry, written, calls>>
copying == <<watermark, mirror, operatorLog>>
vars == <<file, lock, phase, lines, entry, written,
          watermark, mirror, operatorLog, crashes, calls>>

Resting == [busy |-> FALSE, lines |-> <<>>, pos |-> 0]

Init ==
    /\ file = <<>>
    /\ lock = Nobody
    /\ phase = [w \in Writers |-> "idle"]
    /\ lines = [w \in Writers |-> <<>>]
    /\ entry = [w \in Writers |-> <<>>]
    /\ written = 0
    /\ watermark = 0
    /\ mirror = Resting
    /\ operatorLog = <<>>
    /\ crashes = 0
    /\ crossed = {} /\ doubtful = {}

LastId(seq) == IF seq = <<>> THEN 0 ELSE seq[Len(seq)].id

-----------------------------------------------------------------------------
(* Writing one entry.                                                       *)

Busy == {w \in Writers : phase[w] # "idle"}

TakeLock(w) ==
    /\ phase[w] = "idle"
    /\ lock = Nobody
    /\ written < MaxWrites
    /\ lock' = w
    /\ lines' = [lines EXCEPT ![w] = file]
    /\ phase' = [phase EXCEPT ![w] = "locked"]
    /\ crossed' = IF Busy = {} THEN crossed ELSE crossed \cup Busy \cup {w}
    /\ UNCHANGED <<file, entry, written, doubtful, copying, crashes>>

MustTrim(w) == w \in Panels /\ Len(lines[w]) + 1 > AuditMaxEntries

(* Mutant: the oldest lines are kept.                                       *)
Kept_Oldest(w) == SubSeq(lines[w], 1, AuditMaxEntries - 1)

(* The newest lines, leaving room for one more.                             *)
Kept(w) ==
    SubSeq(lines[w], Len(lines[w]) - AuditMaxEntries + 2, Len(lines[w]))

Truncate(w) ==
    /\ phase[w] = "locked"
    /\ MustTrim(w)
    /\ file' = <<>>
    /\ phase' = [phase EXCEPT ![w] = "truncated"]
    /\ UNCHANGED <<lock, lines, entry, written, copying, crashes, calls>>

(* The seek to the end of the file flushes what was kept.                   *)
RewriteKept(w) ==
    /\ phase[w] = "truncated"
    /\ file' = file \o Kept(w)
    /\ lines' = [lines EXCEPT ![w] = Kept(w)]
    /\ phase' = [phase EXCEPT ![w] = "locked"]
    /\ UNCHANGED <<lock, entry, written, copying, crashes, calls>>

(* Mutant: chained to the first line read instead of the last.              *)
NewEntry_ChainedToFirst(w, op) ==
    [id |-> written + 1, op |-> op,
     prev |-> IF lines[w] = <<>> THEN 0 ELSE lines[w][1].id]

NewEntry(w, op) == [id |-> written + 1, op |-> op, prev |-> LastId(lines[w])]

(* The entry is in the buffer when the lock is released.  The panel's         *)
(* entries are the tenant's or those of an operator session; the host's are  *)
(* always attributed to an operator.                                         *)
ComposeAndUnlock(w) ==
    /\ phase[w] = "locked"
    /\ ~MustTrim(w)
    /\ \E op \in BOOLEAN :
          /\ w \in Hosts => op
          /\ entry' = [entry EXCEPT ![w] = <<NewEntry(w, op)>>]
    /\ written' = written + 1
    /\ lock' = Nobody
    /\ phase' = [phase EXCEPT ![w] = "buffered"]
    /\ UNCHANGED <<file, lines, copying, crashes, calls>>

(* Mutant: the file is written back as it was read.                         *)
Flushed_WholeFile(w) == lines[w] \o entry[w]
(* Opened in mode "a": whatever is flushed goes to the end.                 *)
Flushed(w) == file \o entry[w]

Return(w) ==
    /\ phase' = [phase EXCEPT ![w] = "idle"]
    /\ lines' = [lines EXCEPT ![w] = <<>>]
    /\ entry' = [entry EXCEPT ![w] = <<>>]
    /\ crossed' = crossed \ {w}

(* The id of the entry a writer holds in its buffer.                         *)
Held(w) == {entry[w][k].id : k \in 1..Len(entry[w])}

FlushAndClose(w) ==
    /\ phase[w] = "buffered"
    /\ file' = Flushed(w)
    /\ Return(w)
    /\ doubtful' = IF w \in crossed THEN doubtful \cup Held(w) ELSE doubtful
    /\ UNCHANGED <<lock, written, copying, crashes>>

(* Killed: the kernel drops the lock, the buffer is lost.                    *)
WriterDies(w) ==
    /\ phase[w] # "idle"
    /\ crashes < MaxCrashes
    /\ crashes' = crashes + 1
    /\ lock' = IF lock = w THEN Nobody ELSE lock
    /\ Return(w)
    /\ doubtful' = doubtful \cup Held(w)
    /\ UNCHANGED <<file, written, copying>>

-----------------------------------------------------------------------------
(* mirror_tenant_operator_actions                                           *)

(* Mutant: the line at the watermark is taken as seen.                      *)
SeenLines_OffByOne == IF Len(file) < watermark THEN 0 ELSE watermark + 1

(* Mutant: every pass starts over.                                          *)
SeenLines_FromStart == 0

(* A shorter file than last time: start over.                               *)
SeenLines == IF Len(file) < watermark THEN 0 ELSE watermark

ReadTrail ==
    /\ ~mirror.busy
    /\ Len(file) # watermark
    /\ mirror' = [busy |-> TRUE, lines |-> file, pos |-> SeenLines]
    /\ UNCHANGED <<tenant, watermark, operatorLog, crashes>>

(* Mutant: the copy names the line before it.                                *)
CopyOf_Previous(e) == e.prev
CopyOf(e) == e.id

MirrorLine ==
    /\ mirror.busy
    /\ mirror.pos < Len(mirror.lines)
    /\ LET e == mirror.lines[mirror.pos + 1]
       IN operatorLog' = IF e.op THEN Append(operatorLog, CopyOf(e)) ELSE operatorLog
    /\ mirror' = [mirror EXCEPT !.pos = @ + 1]
    /\ UNCHANGED <<tenant, watermark, crashes>>

(* Mutant: the watermark is the length of the file by now.                   *)
NewWatermark_FileNow == Len(file)
NewWatermark == Len(mirror.lines)

SaveWatermark ==
    /\ mirror.busy
    /\ mirror.pos >= Len(mirror.lines)
    /\ watermark' = NewWatermark
    /\ mirror' = Resting
    /\ UNCHANGED <<tenant, operatorLog, crashes>>

MirrorDies ==
    /\ mirror.busy
    /\ crashes < MaxCrashes
    /\ crashes' = crashes + 1
    /\ mirror' = Resting
    /\ UNCHANGED <<tenant, watermark, operatorLog>>

-----------------------------------------------------------------------------
Write(w) ==
    \/ TakeLock(w) \/ Truncate(w) \/ RewriteKept(w)
    \/ ComposeAndUnlock(w) \/ FlushAndClose(w)

Mirror == ReadTrail \/ MirrorLine \/ SaveWatermark

Next ==
    \/ \E w \in Writers : Write(w) \/ WriterDies(w)
    \/ Mirror
    \/ MirrorDies

Spec == Init /\ [][Next]_vars

(* The mirror runs every minute from the audit-ship timer.                   *)
FairSpec == Spec /\ WF_vars(Mirror)

-----------------------------------------------------------------------------
(* The entries a trail may hold in a bounded behaviour.                     *)
Entries == [id : 1..MaxWrites, op : BOOLEAN, prev : 0..MaxWrites]

(* The types of the tenant's log, the writers' local state and the mirror's   *)
(* watermark (provisioner.py:1808-1911, app.py:1198-1246).                    *)
TypeOK ==
    /\ file \in Seq(Entries)
    /\ lock \in Writers \cup {Nobody}
    /\ phase \in [Writers -> {"idle", "locked", "truncated", "buffered"}]
    /\ lines \in [Writers -> Seq(Entries)]
    /\ entry \in [Writers -> Seq(Entries)]
    /\ written \in 0..MaxWrites
    /\ watermark \in Nat
    /\ mirror \in [busy : BOOLEAN, lines : Seq(Entries), pos : Nat]
    /\ operatorLog \in Seq(1..MaxWrites)
    /\ crashes \in 0..MaxCrashes
    /\ crossed \subseteq Writers /\ doubtful \subseteq 1..MaxWrites

BelowLimit == written < AuditMaxEntries

(* An entry is in the file at most once; below the limit every entry is there  *)
(* when nobody is writing, but for at most one for each process killed.       *)
EntriesRecorded ==
    /\ \A i, j \in 1..Len(file) : file[i].id = file[j].id => i = j
    /\ BelowLimit /\ (\A w \in Writers : phase[w] = "idle") =>
          Len(file) <= written /\ written <= Len(file) + crashes

Copied(id) == \E k \in 1..Len(operatorLog) : operatorLog[k] = id

(* What the watermark says was considered was copied, as long as the file was  *)
(* not trimmed: no operator action is missing from the operator's own log      *)
(* (provisioner.py:1872, "operator actions appear in both logs").             *)
NoneSkipped ==
    \A i \in 1..Len(file) :
        BelowLimit /\ i <= watermark /\ file[i].op => Copied(file[i].id)

TimesCopied(id) == Cardinality({k \in 1..Len(operatorLog) : operatorLog[k] = id})

(* The mirror marks what it copied only after it copied it, so a kill makes it *)
(* copy again (provisioner.py:1905-1911); but below the limit an action gets    *)
(* into the operator's log at most once more for each kill, however the file   *)
(* grows while it is read.                                                    *)
CopiedOncePerKill ==
    BelowLimit => \A n \in 1..MaxWrites : TimesCopied(n) <= 1 + crashes

(* NoneSkipped, seen from a mirror that has nothing to do: nobody is writing   *)
(* and the file is as long as it was on the last pass.                        *)
IdleMirrorIsDone ==
    /\ ~mirror.busy /\ Len(file) = watermark
    /\ \A w \in Writers : phase[w] = "idle"
    => \A i \in 1..Len(file) : file[i].op => Copied(file[i].id)

(* Every operator action in a tenant's trail that is not trimmed gets into the  *)
(* operator's log, also when the mirror is killed on the way.                 *)
OperatorSeesAll ==
    \A n \in 1..MaxWrites :
        (\E i \in 1..Len(file) : file[i].id = n /\ file[i].op) ~> Copied(n) \/ ~BelowLimit

(* The chain verifies: "reading as tampering when it was only a race" is what  *)
(* the lock is there to prevent (provisioner.py:1817).  It breaks only at a    *)
(* line whose call crossed another's, whoever was killed and however often     *)
(* the file was trimmed.                                                      *)
TrailChainIntact ==
    \A i \in 2..Len(file) :
        file[i].prev = file[i - 1].id \/ {file[i].id, file[i - 1].id} \cap doubtful # {}

(* Written by a call that nobody crossed and that returned.                   *)
Settled == (1..written) \ (doubtful \cup UNION {Held(w) : w \in Writers})

(* A trim keeps the newest lines: with a settled entry every later one is in   *)
(* the file, below it (app.py:1231-1235).                                     *)
TrimKeepsNewest ==
    \A i \in 1..Len(file) : file[i].id \in Settled =>
        \A n \in Settled : n > file[i].id =>
            \E j \in i + 1 .. Len(file) : file[j].id = n
=============================================================================

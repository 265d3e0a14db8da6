------------------------------ MODULE AuditLog ------------------------------
(***************************************************************************)
(* The operator's audit log: audit.py, and backup.ship_audit_log, which    *)
(* copies it off the host.                                                 *)
(*                                                                         *)
(* Every process of the control plane appends to one file: the gunicorn    *)
(* workers, the CLI, the timers.  log_action first reads the last line to  *)
(* hash it, then opens the file and appends, with no lock over the two.    *)
(* Shipping runs once a minute from a timer and whenever someone types     *)
(* `vhsp backup ship-audit-log`; it too is a sequence of unlocked steps.   *)
(*                                                                         *)
(* A line is represented by what its prev_hash names: the number of the    *)
(* line that was last when it was hashed, 0 for the empty log, NoPrev for  *)
(* a line written before the field existed.  Offsets count lines.          *)
(***************************************************************************)
EXTENDS Naturals, Sequences, FiniteSets

CONSTANTS
    Writers,      \* processes that call log_action
    Shippers,     \* processes that run ship_audit_log
    OldLines,     \* lines older than the prev_hash field
    MaxLines,     \* bound: length of the log
    MaxSeconds,   \* bound: seconds that go by
    MaxUpsets,    \* bound: ships that fail, log_action calls begun during another
    NoPrev, NotHashed, NoFile,
    Empty, Garbled     \* a state file that does not parse

ASSUME ConstantsAssumption ==
    /\ OldLines \in Nat /\ MaxLines \in Nat /\ MaxUpsets \in Nat
    /\ MaxSeconds \in Nat \ {0}
    /\ NoPrev \notin Nat /\ NotHashed \notin Nat
    /\ Empty \notin Nat /\ Garbled \notin Nat
    /\ NoFile \notin [first : Nat, last : Nat]

VARIABLES
    log,       \* line -> the line its prev_hash names
    hashed,    \* writer -> last line it hashed, NotHashed outside log_action
    crossed,   \* history: writers whose call overlaps another one
    doubtful,  \* history: lines such calls appended
    clock,     \* the second that work directories and chunks are named after
    phase,     \* shipper -> the step of ship_audit_log it is at
    from,      \* shipper -> shipped_bytes it read from the state file
    size,      \* shipper -> current_size
    upto,      \* shipper -> end of new_bytes
    workdir,   \* shipper -> the second of its work directory, 0 for none
    timestamp, \* shipper -> the second that names its chunk, 0 for none
    dirs,      \* work directories that exist
    local,     \* work directory -> file name -> the chunk written there
    offset,    \* shipped_bytes in AUDIT_SHIP_STATE_PATH
    remote,    \* file name -> the chunk on the backup host
    replaced,  \* history: lines of remote chunks that were overwritten
    spoiled,   \* history: lines of ships that shared a work directory
    upsets     \* history: what MaxUpsets counts

logging == <<log, hashed, crossed, doubtful>>
inMemory == <<from, size, upto, workdir, timestamp>>
onDisk == <<dirs, local>>
sent == <<remote, replaced>>
shipState == <<clock, phase, inMemory, onDisk, offset, sent, spoiled>>
shipping == <<shipState, upsets>>
vars == <<log, hashed, crossed, doubtful, clock, phase, from, size, upto, workdir,
          timestamp, dirs, local, offset, remote, replaced, spoiled, upsets>>

Seconds == 1..MaxSeconds
Nothing == [t \in Seconds |-> NoFile]

Init ==
    /\ log = [i \in 1..OldLines |-> NoPrev]
    /\ hashed = [w \in Writers |-> NotHashed]
    /\ crossed = {} /\ doubtful = {}
    /\ clock = 1
    /\ phase = [s \in Shippers |-> "idle"]
    /\ from = [s \in Shippers |-> 0]
    /\ size = [s \in Shippers |-> 0]
    /\ upto = [s \in Shippers |-> 0]
    /\ workdir = [s \in Shippers |-> 0]
    /\ timestamp = [s \in Shippers |-> 0]
    /\ dirs = {} /\ local = [d \in Seconds |-> Nothing]
    /\ offset = 0
    /\ remote = Nothing
    /\ replaced = {} /\ spoiled = {}
    /\ upsets = 0

Tick ==
    /\ clock < MaxSeconds
    /\ clock' = clock + 1
    /\ UNCHANGED <<logging, phase, inMemory, onDisk, offset, sent, spoiled, upsets>>

-----------------------------------------------------------------------------
(* log_action: hash the last line, then append.                             *)

(* Mutant: the line before the last one is hashed.                          *)
LastLine_Previous == IF Len(log) = 0 THEN 0 ELSE Len(log) - 1
LastLine == Len(log)

Logging == {v \in Writers : hashed[v] # NotHashed}

HashLast(w) ==
    /\ hashed[w] = NotHashed
    /\ Len(log) < MaxLines
    /\ hashed' = [hashed EXCEPT ![w] = LastLine]
    /\ UNCHANGED <<log, doubtful, shipState>>
    /\ \/ /\ Logging = {}
          /\ UNCHANGED <<crossed, upsets>>
       \/ /\ Logging # {} /\ upsets < MaxUpsets
          /\ crossed' = crossed \cup Logging \cup {w}
          /\ upsets' = upsets + 1

AppendLine(w) ==
    /\ hashed[w] # NotHashed
    /\ Len(log) < MaxLines
    /\ log' = Append(log, hashed[w])
    /\ hashed' = [hashed EXCEPT ![w] = NotHashed]
    /\ crossed' = crossed \ {w}
    /\ doubtful' = doubtful \cup {i \in {Len(log) + 1} : w \in crossed}
    /\ UNCHANGED shipping

(* _verify_lines: a line is checked against its predecessor unless one of    *)
(* the two has no prev_hash.                                                *)
BreaksChain(i) ==
    i > 1 /\ log[i] # NoPrev /\ log[i - 1] # NoPrev /\ log[i] # i - 1

-----------------------------------------------------------------------------
(* ship_audit_log                                                           *)

Readable == offset \in Nat

(* An unreadable state file makes json.loads raise: nothing begins.         *)
ReadOffset(s) ==
    /\ phase[s] = "idle"
    /\ Readable /\ offset < Len(log)
    /\ from' = [from EXCEPT ![s] = offset]
    /\ phase' = [phase EXCEPT ![s] = "stat"]
    /\ UNCHANGED <<logging, clock, size, upto, workdir, timestamp, onDisk,
                   offset, sent, spoiled, upsets>>

(* The call returns or raises: its local variables are gone.                *)
Return(s) ==
    /\ phase' = [phase EXCEPT ![s] = "idle"]
    /\ from' = [from EXCEPT ![s] = 0]
    /\ size' = [size EXCEPT ![s] = 0]
    /\ upto' = [upto EXCEPT ![s] = 0]
    /\ workdir' = [workdir EXCEPT ![s] = 0]
    /\ timestamp' = [timestamp EXCEPT ![s] = 0]

(* The log never shrinks here, so the branch for a truncated log is not.     *)
StatLog(s) ==
    /\ phase[s] = "stat"
    /\ size' = [size EXCEPT ![s] = Len(log)]
    /\ phase' = [phase EXCEPT ![s] = "read"]
    /\ UNCHANGED <<logging, clock, from, upto, workdir, timestamp, onDisk,
                   offset, sent, spoiled, upsets>>

(* To the end of the file, which may have grown since it was measured.      *)
ReadNewLines(s) ==
    /\ phase[s] = "read"
    /\ upto' = [upto EXCEPT ![s] = Len(log)]
    /\ phase' = [phase EXCEPT ![s] = "mkdir"]
    /\ UNCHANGED <<logging, clock, from, size, workdir, timestamp, onDisk,
                   offset, sent, spoiled, upsets>>

(* Mutant: the chunk leaves out the first new line.                         *)
Chunk_OffByOne(s) == [first |-> from[s] + 2, last |-> upto[s]]

Lines(chunk) == IF chunk = NoFile THEN {} ELSE chunk.first..chunk.last

Chunk(s) == [first |-> from[s] + 1, last |-> upto[s]]

NewLines(s) == (from[s] + 1)..upto[s]

Housed(s) == phase[s] \in {"write", "push", "clean"}

(* Those at work in the directory this second names: mkdir is exist_ok.      *)
Housemates(s) == {t \in Shippers \ {s} : Housed(t) /\ workdir[t] = clock}

MakeDir(s) ==
    /\ phase[s] = "mkdir"
    /\ workdir' = [workdir EXCEPT ![s] = clock]
    /\ dirs' = dirs \cup {clock}
    /\ phase' = [phase EXCEPT ![s] = "write"]
    /\ spoiled' = spoiled \cup
           UNION {NewLines(t) : t \in {u \in Housemates(s) \cup {s} : Housemates(s) # {}}}
    /\ UNCHANGED <<logging, clock, from, size, upto, timestamp, local,
                   offset, sent, upsets>>

(* A file of that name is replaced, whoever wrote it.                       *)
WriteChunk(s) ==
    /\ phase[s] = "write"
    /\ workdir[s] \in dirs
    /\ timestamp' = [timestamp EXCEPT ![s] = clock]
    /\ local' = [local EXCEPT ![workdir[s]] = [@ EXCEPT ![clock] = Chunk(s)]]
    /\ phase' = [phase EXCEPT ![s] = "push"]
    /\ UNCHANGED <<logging, clock, from, size, upto, workdir, dirs,
                   offset, sent, spoiled, upsets>>

Written(s) == local[workdir[s]][timestamp[s]]

(* scp sends what lies under the name now and replaces a remote file of it.  *)
(* new_bytes and shipped_bytes are not used again.                          *)
PushChunk(s) ==
    /\ phase[s] = "push"
    /\ Written(s) # NoFile
    /\ remote' = [remote EXCEPT ![timestamp[s]] = Written(s)]
    /\ replaced' = replaced \cup Lines(remote[timestamp[s]])
    /\ phase' = [phase EXCEPT ![s] = "clean"]
    /\ from' = [from EXCEPT ![s] = 0]
    /\ upto' = [upto EXCEPT ![s] = 0]
    /\ UNCHANGED <<logging, clock, size, workdir, timestamp, onDisk,
                   offset, spoiled, upsets>>

RemoveTree(d) ==
    /\ dirs' = dirs \ {d}
    /\ local' = [local EXCEPT ![d] = Nothing]

RemoveDir(s) ==
    /\ phase[s] = "clean"
    /\ RemoveTree(workdir[s])
    /\ workdir' = [workdir EXCEPT ![s] = 0]
    /\ timestamp' = [timestamp EXCEPT ![s] = 0]
    /\ phase' = [phase EXCEPT ![s] = "open"]
    /\ UNCHANGED <<logging, clock, from, size, upto, offset, sent, spoiled, upsets>>

(* Another ship removed the directory, or the chunk in it: the finally block *)
(* removes what is there by now, and the exception goes on.                 *)
FindsNothing(s) ==
    /\ \/ phase[s] = "write" /\ workdir[s] \notin dirs
       \/ phase[s] = "push" /\ Written(s) = NoFile
    /\ RemoveTree(workdir[s])
    /\ Return(s)
    /\ UNCHANGED <<logging, clock, offset, sent, spoiled, upsets>>

(* write_text opens the state file for writing, which empties it.           *)
OpenState(s) ==
    /\ phase[s] = "open"
    /\ offset' = Empty
    /\ phase' = [phase EXCEPT ![s] = "save"]
    /\ UNCHANGED <<logging, clock, inMemory, onDisk, sent, spoiled, upsets>>

(* Mutant: the file is measured once more.                                  *)
SavedOffset_Latest(s) == Len(log)
SavedOffset(s) == size[s]

(* Over what another ship wrote meanwhile, a smaller number may leave the    *)
(* end of the longer text behind it.                                        *)
SaveOffset(s) ==
    /\ phase[s] = "save"
    /\ \/ offset' = SavedOffset(s)
       \/ /\ offset = Garbled \/ (Readable /\ SavedOffset(s) < offset)
          /\ offset' = Garbled
    /\ Return(s)
    /\ UNCHANGED <<logging, clock, onDisk, sent, spoiled, upsets>>

(* The destination refuses or the disk is full, and the finally block still  *)
(* removes the directory; or the process dies, and it does not.              *)
ShipFails(s) ==
    /\ phase[s] # "idle"
    /\ upsets < MaxUpsets
    /\ upsets' = upsets + 1
    /\ \/ UNCHANGED onDisk
       \/ Housed(s) /\ RemoveTree(workdir[s])
    /\ Return(s)
    /\ UNCHANGED <<logging, clock, offset, sent, spoiled>>

Ship(s) ==
    \/ ReadOffset(s) \/ StatLog(s) \/ ReadNewLines(s)
    \/ MakeDir(s) \/ WriteChunk(s) \/ PushChunk(s) \/ RemoveDir(s)
    \/ FindsNothing(s) \/ OpenState(s) \/ SaveOffset(s)

Next ==
    \/ \E w \in Writers : HashLast(w) \/ AppendLine(w)
    \/ \E s \in Shippers : Ship(s) \/ ShipFails(s)
    \/ Tick

Spec == Init /\ [][Next]_vars

(* The timer runs every minute and systemd starts it again after a failure.  *)
FairSpec == Spec /\ \A s \in Shippers : WF_vars(Ship(s))

-----------------------------------------------------------------------------
(* The types of the log, the state file and the local variables of           *)
(* log_action and ship_audit_log (audit.py:36-74, backup.py:763-847).         *)
TypeOK ==
    /\ log \in Seq(Nat \cup {NoPrev})
    /\ hashed \in [Writers -> Nat \cup {NotHashed}]
    /\ crossed \subseteq Writers /\ doubtful \subseteq Nat
    /\ clock \in Seconds
    /\ phase \in [Shippers -> {"idle", "stat", "read", "mkdir", "write", "push",
                               "clean", "open", "save"}]
    /\ from \in [Shippers -> Nat] /\ size \in [Shippers -> Nat]
    /\ upto \in [Shippers -> Nat]
    /\ workdir \in [Shippers -> 0..MaxSeconds]
    /\ timestamp \in [Shippers -> 0..MaxSeconds]
    /\ dirs \subseteq Seconds
    /\ local \in [Seconds -> [Seconds -> [first : Nat, last : Nat] \cup {NoFile}]]
    /\ offset \in Nat \cup {Empty, Garbled}
    /\ remote \in [Seconds -> [first : Nat, last : Nat] \cup {NoFile}]
    /\ replaced \subseteq Nat /\ spoiled \subseteq Nat
    /\ upsets \in 0..MaxUpsets

(* `vhsp audit verify` reports a break only where "some past entry was edited *)
(* or deleted" (cli.py:475): in a log that only log_action wrote, old lines   *)
(* in front or not, a line breaks the chain only if its call overlapped       *)
(* another one, so the lines written alone verify however many raced before.  *)
ChainIntact == \A i \in 1..Len(log) : BreaksChain(i) => i \in doubtful

(* What is on the backup host, or was until a push of the same second.       *)
Sent == replaced \cup UNION {Lines(remote[t]) : t \in Seconds}

(* "Not data loss" (backup.py:788): every line the state file counts as      *)
(* shipped has been on the backup host, wherever ships fail, die or overlap  *)
(* and however the log grows meanwhile.  Excepted are the lines of ships     *)
(* that shared a work directory, one of which may have sent the other's      *)
(* chunk and counted its own.                                               *)
NothingSkipped == Readable => 1..offset \subseteq Sent \cup spoiled

(* "Many small files replay in filename order" (backup.py:780): every line   *)
(* before the first one of a chunk is in a file of a smaller name, was in a  *)
(* file that another ship of its second replaced, or is one of the excepted  *)
(* above, although a slow ship may push after one that was named later.      *)
ReplaysInOrder ==
    \A t \in Seconds : remote[t] # NoFile =>
        1..(remote[t].first - 1) \subseteq
            replaced \cup spoiled \cup UNION {Lines(remote[u]) : u \in 1..(t - 1)}

Unsent == (1..Len(log)) \ Sent

(* A state file that cannot be read and that no ship is about to write.      *)
Stuck == ~Readable /\ \A s \in Shippers : phase[s] # "save"

(* "A failed run retries the same range" (backup.py:785): whenever lines      *)
(* wait, a time comes when none does but those excepted above, however many  *)
(* ships fail, the log growing no further than its bound; unless a ship died  *)
(* while it saved the offset, or two saved theirs at once, and left a state   *)
(* file on which every later run raises.                                     *)
EventuallyShipped == Unsent # {} ~> (Unsent \subseteq spoiled \/ Stuck)
=============================================================================

--------------------------- MODULE BackupRequests ---------------------------
(***************************************************************************)
(* Tenant self-service backups: the Backups page of a tenant's panel       *)
(* (backups in app.py) leaves files in the phpconf volume, and a timer on   *)
(* the host (process_requests in backup.py) acts on them and answers with   *)
(* a status file.  Neither side locks; a file that is being written is      *)
(* empty for a moment; and the volume that carries the files is itself      *)
(* backed up and rolled back by restores.                                  *)
(*                                                                         *)
(* A click is one submission of the page.  A destination's host, path and   *)
(* user are one value.  Taking a snapshot, with the pruning of older ones,  *)
(* and bringing one back are each one step: a second copy or a removal that *)
(* fails on its own is not modelled.  Nor are the operator's columns of the *)
(* row: how many copies to keep, one number here, and how often to make one.*)
(***************************************************************************)
EXTENDS Integers, Sequences, FiniteSets

CONSTANTS
    NumTenants,  \* the tenants are 1..NumTenants, in list_tenants' order
    Clicks,      \* submissions of the Backups pages; bounds them
    Forms,       \* what owners submit as settings
    NoHost,      \* a blank destination
    NoClick,     \* no restore is asked for
    Absent,      \* no such file
    Unreadable,  \* a file that is empty or garbled: no JSON
    Retention,   \* the copies a store keeps of a tenant
    MaxBackups,  \* bound: snapshots of a tenant
    MaxUpsets    \* bound: passes killed and restores by the operator

ASSUME CountAssumption ==
    /\ {NumTenants, Retention} \subseteq Nat \ {0} /\ {MaxBackups, MaxUpsets} \subseteq Nat

\* pasted: the own private key in the form; port: what int() makes of it.
ASSUME FormAssumption ==
    \A f \in Forms :
        /\ DOMAIN f = {"host", "enc", "pasted", "port"}
        /\ f.enc \in {"none", "generate", "own"}
        /\ f.pasted \in {"none", "good", "bad"}
        /\ f.port \in {"ok", "bad"}

\* No request is mistaken for another kind of file, nor no click for one.
ASSUME AbsenceAssumption == Absent # Unreadable /\ NoClick \notin Clicks

VARIABLES
    click,    \* click -> its handler's progress
    conf,     \* tenant -> the three files in its phpconf volume
    row,      \* tenant -> the backup columns of its registry row
    keyFile,  \* tenant -> its age.key on the host
    taken,    \* tenant -> snapshots, oldest first: the volume's files, whether a
              \* copy went to the tenant's own destination, where copies still lie
    pass,     \* the reconciler
    served,   \* history: click -> how often its restore was carried out
    revived,  \* history: click -> how often its request came back
    shown,    \* history: tenant -> how often the private key came onto the page
    restores, \* history: tenant -> restores in place
    lost,     \* history: the clicks whose text is no longer in the file because of
              \* another click, a restore or what a pass wrote back
    upsets,   \* passes killed and restores by the operator so far
    halfway,  \* history: the tenants a pass died at between its two updates of
              \* the row, until a pass makes the second one
    untold    \* history: the tenants whose key died with the pass that was to tell it

vars == <<click, conf, row, keyFile, taken, pass, served, revived, shown, restores,
          lost, upsets, halfway, untold>>

Tenants == 1..NumTenants
Stores == {"operator", "tenant"}

NoStatus == [host |-> NoHost, enc |-> FALSE, reveal |-> FALSE]
Fresh == [request |-> Absent, status |-> Absent, marker |-> FALSE]
Unused == [at |-> "unused"]
Resting == [at |-> "resting"]

Init ==
    /\ click = [c \in Clicks |-> Unused]
    /\ conf = [t \in Tenants |-> Fresh]
    /\ row = [t \in Tenants |-> [host |-> NoHost, enc |-> FALSE, key |-> FALSE]]
    /\ keyFile = [t \in Tenants |-> "none"]
    /\ taken = [t \in Tenants |-> <<>>]
    /\ pass = Resting
    /\ served = [c \in Clicks |-> 0] /\ revived = [c \in Clicks |-> 0]
    /\ shown = [t \in Tenants |-> 0] /\ restores = [t \in Tenants |-> 0]
    /\ lost = {} /\ upsets = 0 /\ halfway = {} /\ untold = {}

-----------------------------------------------------------------------------
(* The page.                                                               *)

IsRecord(file) == file \notin {Absent, Unreadable}

\* c left a request in t's file, or found the file replaced by a restore.
SentTo(c, t) ==
    click[c].at = "done" /\ "req" \in DOMAIN click[c] /\ click[c].tenant = t

\* c's request comes into the file in place of what other clicks left there.
Replaces(c) == lost' = lost \cup {d \in Clicks \ {c} : SentTo(d, click[c].tenant)}

\* _read_backup_status: no status to speak of while the file is unreadable.
Status(t) == IF IsRecord(conf[t].status) THEN conf[t].status ELSE NoStatus

SaveSettings(c, t) ==
    /\ click[c] = Unused
    /\ \E f \in Forms :
          click' = [click EXCEPT ![c] =
              [at |-> "writing", tenant |-> t,
               req |-> [host |-> f.host, enc |-> f.enc, pasted |-> f.pasted,
                        port |-> f.port, restore |-> NoClick, snap |-> 0]]]
    /\ UNCHANGED <<conf, row, keyFile, taken, pass, served, revived, shown, restores,
                   lost, upsets, halfway, untold>>

\* A restore request carries the settings along that the page shows.  The page
\* lists the copies that were at the tenant's own destination when the status
\* file was written: they may be pruned by now.
AskRestore(c, t) ==
    /\ click[c] = Unused
    /\ \E s \in DOMAIN taken[t] :
          /\ taken[t][s].own
          /\ click' = [click EXCEPT ![c] =
                [at |-> "writing", tenant |-> t,
                 req |-> [host |-> Status(t).host,
                          enc |-> IF Status(t).enc THEN "generate" ELSE "none",
                          pasted |-> "none", port |-> "ok",
                          restore |-> c, snap |-> s]]]
    /\ UNCHANGED <<conf, row, keyFile, taken, pass, served, revived, shown, restores,
                   lost, upsets, halfway, untold>>

BackupNow(c, t) ==
    /\ click[c] = Unused
    /\ click' = [click EXCEPT ![c] = [at |-> "done", tenant |-> t]]
    /\ conf' = [conf EXCEPT ![t].marker = TRUE]
    /\ UNCHANGED <<row, keyFile, taken, pass, served, revived, shown, restores,
                   lost, upsets, halfway, untold>>

OpenRequest(c) ==
    /\ click[c].at = "writing"
    /\ click' = [click EXCEPT ![c].at = "open"]
    /\ conf' = [conf EXCEPT ![click[c].tenant].request = Unreadable]
    /\ Replaces(c)
    /\ UNCHANGED <<row, keyFile, taken, pass, served, revived, shown, restores,
                   upsets, halfway, untold>>

\* A text that another writer put there since the file was emptied may stick
\* out behind this one: then it is no JSON.
WriteRequest(c) ==
    /\ click[c].at = "open"
    /\ LET t == click[c].tenant
       IN \E text \in {click[c].req} \cup
                     (IF IsRecord(conf[t].request) THEN {Unreadable} ELSE {}) :
             conf' = [conf EXCEPT ![t].request = text]
    /\ click' = [click EXCEPT ![c].at = "done"]
    /\ Replaces(c)
    /\ UNCHANGED <<row, keyFile, taken, pass, served, revived, shown, restores,
                   upsets, halfway, untold>>

-----------------------------------------------------------------------------
(* The pass over the tenants.  One that raises ends there: the timer starts *)
(* the next one at the first tenant again.                                 *)

Goto(at) == pass' = [pass EXCEPT !.at = at]
Raise == pass' = Resting
In(at) == pass.at = at

\* A tenant's turn, up to its marker: what came before is not used after it.
Turn(t) ==
    [at |-> "read", t |-> t, req |-> Absent, hadKey |-> FALSE, made |-> FALSE,
     reveal |-> FALSE]
ToMarker == pass' = [Turn(pass.t) EXCEPT !.at = "marker", !.reveal = pass.reveal]

StartPass ==
    /\ pass = Resting
    /\ pass' = Turn(1)
    /\ UNCHANGED <<click, conf, row, keyFile, taken, served, revived, shown, restores,
                   lost, upsets, halfway, untold>>

ReadRequest ==
    /\ In("read")
    /\ LET file == conf[pass.t].request
       IN CASE file = Absent -> ToMarker
            [] file = Unreadable -> Raise
            [] OTHER -> pass' = [pass EXCEPT !.at = "keys", !.req = file,
                                             !.hadKey = row[pass.t].key]
    /\ UNCHANGED <<click, conf, row, keyFile, taken, served, revived, shown, restores,
                   lost, upsets, halfway, untold>>

NeedsKey(t, r) ==
    \/ r.enc = "generate" /\ ~row[t].key
    \/ r.enc = "own" /\ r.pasted # "none"

\* ensure_tenant_age_key: a key on the host is kept, whatever was pasted, and
\* a pasted one is stored before age-keygen has looked at it.
KeyAfter(t, r) ==
    IF keyFile[t] # "none" THEN keyFile[t]
    ELSE IF r.enc = "own" THEN r.pasted ELSE "good"

MakeKeys ==
    /\ In("keys")
    /\ LET t == pass.t
       IN IF NeedsKey(t, pass.req)
          THEN /\ keyFile' = [keyFile EXCEPT ![t] = KeyAfter(t, pass.req)]
               /\ IF keyFile'[t] = "bad" THEN Raise
                  ELSE pass' = [pass EXCEPT !.at = "settings", !.made = TRUE]
          ELSE Goto("settings") /\ UNCHANGED keyFile
    /\ UNCHANGED <<click, conf, row, taken, served, revived, shown, restores,
                   lost, upsets, halfway, untold>>

\* set_backup_settings.  It writes the retention and the interval of the row
\* read before as well, and so undoes what the operator changed since.
\* Mutant: a destination once set stays.
NewHost_Kept(t, r) == IF row[t].host = NoHost THEN r.host ELSE row[t].host

NewHost(t, r) == r.host

SetSettings ==
    /\ In("settings")
    /\ IF pass.req.port = "bad" THEN Raise /\ UNCHANGED row
       ELSE /\ Goto("setkeys")
            /\ row' = [row EXCEPT ![pass.t].host = NewHost(pass.t, pass.req),
                                  ![pass.t].enc = pass.req.enc # "none"]
    /\ UNCHANGED <<click, conf, keyFile, taken, served, revived, shown, restores,
                   lost, upsets, halfway, untold>>

\* Mutant: whenever a key came with the request.
Reveals_Made(t) == pass.made

\* Only the pass that makes the key tells it.
Reveals(t) == pass.made /\ ~pass.hadKey

\* Mutant: what the row had is not kept.
KeyKnown_New(t) == pass.made

KeyKnown(t) == row[t].key \/ pass.made

SetKeys ==
    /\ In("setkeys")
    /\ LET t == pass.t
       IN /\ row' = [row EXCEPT ![t].key = KeyKnown(t)]
          /\ pass' = [pass EXCEPT !.reveal = Reveals(t),
                !.at = IF pass.req.pasted # "none" THEN "openscrub" ELSE "restore"]
    /\ halfway' = halfway \ {pass.t}
    /\ UNCHANGED <<click, conf, keyFile, taken, served, revived, shown, restores,
                   lost, upsets, untold>>

\* The request file is written again, without the pasted key (scrub) or
\* without the restore that was carried out (answer): over whatever an owner
\* has saved since the pass read it.
Overwrites ==
    lost' = lost \cup {c \in Clicks : SentTo(c, pass.t) /\ click[c].req # pass.req}

Reopen(from, to) ==
    /\ In(from) /\ Goto(to)
    /\ conf' = [conf EXCEPT ![pass.t].request = Unreadable]
    /\ Overwrites
    /\ UNCHANGED <<click, row, keyFile, taken, served, revived, shown, restores,
                   upsets, halfway, untold>>

Rewrite(text) ==
    /\ \E left \in {text} \cup
                   (IF IsRecord(conf[pass.t].request) THEN {Unreadable} ELSE {}) :
          conf' = [conf EXCEPT ![pass.t].request = left]
    /\ Overwrites
    /\ UNCHANGED <<click, row, keyFile, taken, served, revived, shown, restores,
                   upsets, halfway, untold>>

OpenScrub == Reopen("openscrub", "scrub")
WriteScrub ==
    In("scrub") /\ Goto("restore") /\ Rewrite([pass.req EXCEPT !.pasted = "none"])

OpenAnswer == Reopen("openanswer", "answer")

\* Mutant: the restore stays in the file.
Remaining_Whole(r) == r

\* Mutant: the snapshot's name stays.
Remaining_KeepsSnapshot(r) == [r EXCEPT !.restore = NoClick]

Remaining(r) == [r EXCEPT !.restore = NoClick, !.snap = 0]

WriteAnswer == In("answer") /\ ToMarker /\ Rewrite(Remaining(pass.req))

\* The page shows the private key while the status file holds it.
TellsKey(status) == IsRecord(status) /\ status.reveal

\* What a restore in place does to the volume: its files are those of the
\* snapshot, and a text still to be written goes to a file that is gone.
BringBack(t, s) ==
    /\ conf' = [conf EXCEPT ![t] = taken[t][s].conf]
    /\ click' = [c \in Clicks |->
          IF click[c].at = "open" /\ click[c].tenant = t
          THEN [click[c] EXCEPT !.at = "done"] ELSE click[c]]
    /\ lost' = lost \cup {c \in Clicks :
                            SentTo(c, t) \/ (click[c].at = "open" /\ click[c].tenant = t)}
    /\ restores' = [restores EXCEPT ![t] = @ + 1]
    /\ shown' = [shown EXCEPT ![t] = IF TellsKey(taken[t][s].conf.status) THEN @ + 1 ELSE @]

\* restore_backup fails when there is no destination or the copy is pruned, and
\* may fail anyway; the pass goes on either way.
Restore ==
    /\ In("restore")
    /\ LET t == pass.t
       IN IF pass.req.restore = NoClick
          THEN ToMarker /\ UNCHANGED <<click, conf, served, shown, restores, lost>>
          ELSE /\ Goto("openanswer")
               /\ \/ UNCHANGED <<click, conf, served, shown, restores, lost>>
                  \/ /\ row[t].host # NoHost
                     /\ "tenant" \in taken[t][pass.req.snap].kept
                     /\ BringBack(t, pass.req.snap)
                     /\ served' = [served EXCEPT ![pass.req.restore] = @ + 1]
    /\ UNCHANGED <<row, keyFile, taken, revived, upsets, halfway, untold>>

TakeMarker ==
    /\ In("marker")
    /\ conf' = [conf EXCEPT ![pass.t].marker = FALSE]
    /\ Goto(IF conf[pass.t].marker THEN "backup" ELSE "status")
    /\ UNCHANGED <<click, row, keyFile, taken, served, revived, shown, restores,
                   lost, upsets, halfway, untold>>

\* prune_old_backups and _remote_rm: a snapshot has its copy in a store while
\* fewer than Retention later ones do.
Pruned(list) ==
    [s \in DOMAIN list |->
        [list[s] EXCEPT !.kept = {d \in @ :
            Cardinality({u \in DOMAIN list : u > s /\ d \in list[u].kept}) < Retention}]]

\* create_backup: a snapshot of the volume's files goes to the operator's store
\* and to the tenant's own, if there is one.
Snapshot(t) ==
    LET own == row[t].host # NoHost
        new == [conf |-> conf[t], own |-> own, kept |-> IF own THEN Stores ELSE {"operator"}]
    IN /\ Len(taken[t]) < MaxBackups
       /\ taken' = [taken EXCEPT ![t] = Pruned(Append(@, new))]

MakeBackup ==
    /\ In("backup") /\ Goto("status")
    /\ Snapshot(pass.t) \/ UNCHANGED taken
    /\ UNCHANGED <<click, conf, row, keyFile, served, revived, shown, restores,
                   lost, upsets, halfway, untold>>

\* The next tenant, after this one.
NextTenant ==
    IF pass.t < NumTenants THEN Turn(pass.t + 1) ELSE Resting

OpenStatus ==
    /\ In("status")
    /\ IF row[pass.t].host = NoHost THEN pass' = NextTenant /\ UNCHANGED conf
       ELSE /\ Goto("writestatus")
            /\ conf' = [conf EXCEPT ![pass.t].status = Unreadable]
    /\ UNCHANGED <<click, row, keyFile, taken, served, revived, shown, restores,
                   lost, upsets, halfway, untold>>

WriteStatus ==
    /\ In("writestatus")
    /\ LET t == pass.t
       IN /\ conf' = [conf EXCEPT ![t].status =
                [host |-> row[t].host, enc |-> row[t].enc, reveal |-> pass.reveal]]
          /\ shown' = [shown EXCEPT ![t] = IF pass.reveal THEN @ + 1 ELSE @]
    /\ pass' = NextTenant
    /\ UNCHANGED <<click, row, keyFile, taken, served, revived, restores, lost, upsets,
                   halfway, untold>>

PassStep ==
    \/ ReadRequest \/ MakeKeys \/ SetSettings \/ SetKeys \/ OpenScrub \/ WriteScrub
    \/ Restore \/ OpenAnswer \/ WriteAnswer \/ TakeMarker \/ MakeBackup
    \/ OpenStatus \/ WriteStatus

\* The clicks whose restore a request file asks for.
AsksFor(file) == IF IsRecord(file) THEN {file.restore} \ {NoClick} ELSE {}

\* The host goes down in the middle of a pass.
Crash ==
    /\ pass # Resting
    /\ upsets < MaxUpsets /\ upsets' = upsets + 1
    /\ pass' = Resting
    /\ halfway' = IF In("setkeys") THEN halfway \cup {pass.t} ELSE halfway
    /\ untold' = IF pass.reveal THEN untold \cup {pass.t} ELSE untold
    /\ revived' = [c \in Clicks |-> revived[c] +
          IF c \in AsksFor(conf[pass.t].request) /\ In("openanswer") THEN 1 ELSE 0]
    /\ UNCHANGED <<click, conf, row, keyFile, taken, served, shown, restores, lost>>

-----------------------------------------------------------------------------
(* The operator: the nightly backup and a restore of one of its snapshots.  *)

NightlyBackup(t) ==
    /\ Snapshot(t)
    /\ UNCHANGED <<click, conf, row, keyFile, pass, served, revived, shown, restores,
                   lost, upsets, halfway, untold>>

OperatorRestore(t, s) ==
    /\ upsets < MaxUpsets /\ upsets' = upsets + 1
    /\ "operator" \in taken[t][s].kept
    /\ BringBack(t, s)
    /\ revived' = [c \in Clicks |-> revived[c] +
          IF c \in AsksFor(taken[t][s].conf.request) THEN 1 ELSE 0]
    /\ UNCHANGED <<row, keyFile, taken, pass, served, halfway, untold>>

-----------------------------------------------------------------------------
Click(c) ==
    \/ OpenRequest(c) \/ WriteRequest(c)
    \/ \E t \in Tenants : SaveSettings(c, t) \/ AskRestore(c, t) \/ BackupNow(c, t)

Next ==
    \/ \E c \in Clicks : Click(c)
    \/ StartPass \/ PassStep \/ Crash
    \/ \E t \in Tenants : NightlyBackup(t) \/ \E s \in DOMAIN taken[t] : OperatorRestore(t, s)

\* The timer starts passes and a process that runs goes on running; nobody has
\* to click, and no backup has to be made.
Fairness ==
    /\ WF_vars(StartPass \/ PassStep)
    /\ \A c \in Clicks : WF_vars(OpenRequest(c) \/ WriteRequest(c))

Spec == Init /\ [][Next]_vars /\ Fairness

-----------------------------------------------------------------------------
Requests ==
    {r \in [host : {f.host : f \in Forms} \cup {NoHost}, enc : {"none", "generate", "own"},
            pasted : {"none", "good", "bad"}, port : {"ok", "bad"},
            restore : Clicks \cup {NoClick}, snap : 0..MaxBackups] :
        (r.restore = NoClick) = (r.snap = 0)}

IsConf(f) ==
    /\ IsRecord(f.request) => f.request \in Requests
    /\ IsRecord(f.status) =>
         /\ f.status.host \in {g.host : g \in Forms} \ {NoHost}
         /\ {f.status.enc, f.status.reveal} \subseteq BOOLEAN
    /\ f.marker \in BOOLEAN

(* The types of the files, the rows, the snapshots and the pass, and that a     *)
(* request names a snapshot just when it asks for a restore                   *)
(* (backup.py:1185-1367).                                                   *)
TypeOK ==
    /\ \A c \in Clicks : click[c].at \in {"unused", "writing", "open", "done"}
    /\ \A t \in Tenants :
          /\ IsConf(conf[t])
          /\ row[t] \in [host : {f.host : f \in Forms} \cup {NoHost}, enc : BOOLEAN, key : BOOLEAN]
          /\ Len(taken[t]) <= MaxBackups
          /\ \A s \in DOMAIN taken[t] :
                IsConf(taken[t][s].conf) /\ taken[t][s].kept \subseteq Stores
    /\ keyFile \in [Tenants -> {"none", "good", "bad"}]
    /\ pass # Resting =>
          /\ pass.t \in Tenants
          /\ pass.at \notin {"read", "marker", "backup", "status", "writestatus"} =>
                pass.req \in Requests

\* What was asked for on t's page so far.
AskedOf(t) ==
    {click[c].req : c \in {d \in Clicks : "req" \in DOMAIN click[d] /\ click[d].tenant = t}}

(* A restore is carried out once for each time it was asked for.  Only two     *)
(* things ask again: an operator's restore of a snapshot taken while the      *)
(* request lay in the volume, and such a self-service restore whose pass was  *)
(* killed before the request file was written back (backup.py:1354-1357).    *)
RestoredAsAsked == \A c \in Clicks : served[c] <= 1 + revived[c]

(* The private key comes onto the page once, and again only with a restore of   *)
(* a snapshot taken while it was there (every restore of one counts); and it  *)
(* does come there, unless the pass that made it was killed first or no       *)
(* destination came with the request for it (backup.py:1313-1334, 1366).     *)
KeyShownOnce ==
    \A t \in Tenants :
        /\ shown[t] <= 1 + restores[t]
        /\ row[t].key /\ shown[t] = 0 /\ t \notin untold /\ (pass # Resting => pass.t # t) =>
              \E r \in AskedOf(t) : r.host = NoHost /\ r.enc # "none"

(* A tenant whose copies are to be encrypted has a key to encrypt them with,   *)
(* or create_backup sends them in the clear: except while the pass is between *)
(* its two updates of the row or was killed there, until the next one has     *)
(* made the second, and when the owner asked for a key of their own and gave  *)
(* none (backup.py:1244-1254, 692).                                          *)
EncryptionHasKey ==
    \A t \in Tenants : row[t].enc /\ ~row[t].key =>
        \/ In("setkeys") /\ pass.t = t
        \/ t \in halfway
        \/ \E r \in AskedOf(t) : r.enc = "own" /\ r.pasted = "none"

\* A request the pass cannot get past.
Raises(t) ==
    \/ conf[t].request = Unreadable
    \/ /\ IsRecord(conf[t].request)
       /\ \/ conf[t].request.port = "bad"
          \/ NeedsKey(t, conf[t].request) /\ KeyAfter(t, conf[t].request) = "bad"

InEffect(t, r) ==
    /\ row[t].host = r.host /\ row[t].enc = (r.enc # "none")
    /\ r.host # NoHost => Status(t).host = r.host

Pending(t) == IsRecord(conf[t].request) /\ ~InEffect(t, conf[t].request)

\* c saved settings.
Saved(c, t) == SentTo(c, t) /\ click[c].req.restore = NoClick

(* The settings of every save reach the registry and the status file, unless    *)
(* another request or a restore takes their place in the file, a pass writes  *)
(* back over them the text it had read before, or a pass cannot get past this *)
(* tenant's or an earlier tenant's request (backup.py:1261-1263, 1302-1367). *)
TakesEffect ==
    \A c \in Clicks, t \in Tenants :
        Saved(c, t) ~>
            \/ c \in lost
            \/ Saved(c, t) /\ InEffect(t, click[c].req)
            \/ \E u \in 1..t : Raises(u)

(* "One tenant's failure can't take the whole pass down" (backup.py:1344-1347): *)
(* what an owner saved takes effect whatever other tenants asked for.         *)
OneFailureStaysThere ==
    \A t \in Tenants : Pending(t) ~> ~Pending(t) \/ Raises(t)
=============================================================================

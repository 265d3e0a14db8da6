---------------------------- MODULE SecretStores ----------------------------
(***************************************************************************)
(* Secrets at rest: one master key file and three stores whose entries are *)
(* sealed under it -- the credential columns of the registry's rows, the   *)
(* operators' TOTP file, and the private key files backups use.  The       *)
(* command line initialises the key, migrates plaintext and rotates the    *)
(* key; services write entries under whatever key is on disk.              *)
(*                                                                         *)
(* A command is a sequence of steps over stores that do not share a        *)
(* transaction, and it may fail or die between any two of them.  Services  *)
(* go on meanwhile: nothing stops them but the operator, whom rotate asks  *)
(* to.  A service reads the key, or the TOTP file, before it writes, so a  *)
(* call that overlaps a command may write what the command has passed.     *)
(***************************************************************************)
EXTENDS Naturals, FiniteSets

CONSTANTS
    Rows,             \* tenant rows of the registry
    Owners,           \* operators who may have a TOTP secret
    KeyFiles,         \* backup private keys, the operator's and the tenants'
    MaxKeys,          \* bound on the master keys generated
    MaxSets,          \* bound on the values one row's credentials take
    MaxCalls,         \* bound on the service calls in progress at once
    Absent,           \* no such entry
    Plain,            \* an entry stored unsealed
    Doubled           \* a key file sealed twice: opening it gives ciphertext

Keys == 1..MaxKeys
NoKey == 0
Items == Rows \cup Owners \cup KeyFiles

ASSUME BoundAssumption == MaxKeys \in Nat /\ MaxSets \in Nat /\ MaxCalls \in Nat
ASSUME ItemAssumption ==
    Rows \cap Owners = {} /\ Rows \cap KeyFiles = {} /\ Owners \cap KeyFiles = {}
ASSUME SealAssumption ==
    /\ {Absent, Plain, Doubled} \cap Keys = {}
    /\ Absent # Plain /\ Absent # Doubled /\ Plain # Doubled

VARIABLES
    master,       \* the key in MASTER_KEY_PATH
    nextFile,     \* the key in MASTER_KEY_PATH.new
    generated,    \* how many master keys were ever generated
    seal,         \* [Items -> what the entry is sealed under]
    value,        \* [Rows -> the credential the row holds, as a version]
    latest,       \* history: [Rows -> the version set last]
    torn,         \* what became of the TOTP file's text: "no" harm, "empty"
                  \* between truncation and write, "mixed" from two writers
    making,       \* key files ssh-keygen has written and nobody sealed yet
    updates,      \* service calls that have sealed a row's new credential
    saves,        \* service calls that have loaded and changed the TOTP entries
    pc,           \* the command line's command, by its step
    fresh,        \* the key a running rotation rewrites the stores under
    seen,         \* the rows a running command has read
    entries,      \* the owners in the TOTP file a running command has loaded
    disturbed,    \* history: what a call that overlapped a command wrote last
    forced,       \* history: a key was thrown away by init --force
    interrupted   \* history: a command stopped with a store half changed

content == <<seal, value, latest, torn>>
calls == <<making, updates, saves, disturbed>>
stores == <<content, calls>>
command == <<pc, fresh, seen, entries>>
lapses == <<forced, interrupted>>
vars == <<master, nextFile, generated, stores, command, lapses>>

Seals == Keys \cup {Absent, Plain, Doubled}
Steps == {"idle", "rotate_rows", "rotate_totp", "rotate_totp_write", "rotate_key",
          "rotate_rename", "migrate_rows", "migrate_totp", "migrate_totp_write",
          "migrate_keys"}

NothingSeen == [r \in Rows |-> [seal |-> Absent, value |-> 0]]
Snapshot == [r \in Rows |-> [seal |-> seal[r], value |-> value[r]]]

\* secretbox.encrypt needs the key file; so does decrypt, even for plaintext.
CanEncrypt == master # NoKey

\* secretbox.decrypt_with: plaintext passes, the right key opens, all else raises.
OpensWith(key, s) == s \in {Plain, key}
CanOpen(i) == CanEncrypt /\ OpensWith(master, seal[i])

\* A deployment from before the feature: entries in plaintext, no key.
Init ==
    /\ master = NoKey /\ nextFile = NoKey /\ generated = 0
    /\ seal \in [Items -> {Absent, Plain}]
    /\ value = [r \in Rows |-> 0] /\ latest = value
    /\ torn = "no" /\ making = {}
    /\ updates = {} /\ saves = {} /\ disturbed = {}
    /\ pc = "idle" /\ fresh = NoKey /\ seen = NothingSeen /\ entries = {}
    /\ forced = FALSE /\ interrupted = FALSE

MayCommand == pc = "idle"

\* A command returns, fails or is killed: its local state is gone.
CommandEnds ==
    /\ pc' = "idle" /\ fresh' = NoKey /\ seen' = NothingSeen /\ entries' = {}

\* The calls in progress when a command starts overlap it.
Crossed(call) == [call EXCEPT !.crossed = TRUE]
CrossCalls ==
    /\ updates' = {Crossed(u) : u \in updates}
    /\ saves' = {Crossed(v) : v \in saves}
    /\ disturbed' = disturbed \cup making
    /\ UNCHANGED making

(***************************************************************************)
(* vhsp secrets init [--force].                                            *)
(***************************************************************************)
InitKey ==
    /\ MayCommand
    /\ generated < MaxKeys
    /\ generated' = generated + 1
    /\ master' = generated'
    /\ forced' = (forced \/ master # NoKey)
    /\ UNCHANGED <<nextFile, stores, command, interrupted>>

(***************************************************************************)
(* The TOTP file is loaded and saved whole.  Loading opens every entry     *)
(* with the key on disk, and one that does not open fails the load.        *)
(***************************************************************************)
Enrolled == {o \in Owners : seal[o] # Absent}
TotpLoads == torn = "no" /\ \A o \in Enrolled : CanOpen(o)

SealAll(items, key) == [i \in Items |-> IF i \in items THEN key ELSE seal[i]]

(***************************************************************************)
(* vhsp secrets rotate: both stores under the fresh key, then the file.    *)
(***************************************************************************)
StartRotate ==
    /\ MayCommand
    /\ CanEncrypt
    /\ generated < MaxKeys
    /\ generated' = generated + 1
    /\ fresh' = generated'
    /\ seen' = Snapshot
    /\ pc' = "rotate_rows"
    /\ CrossCalls
    /\ UNCHANGED <<master, nextFile, content, entries, lapses>>

Known == {r \in Rows : seen[r].seal # Absent}
\* Mutant: an UPDATE without its WHERE: every row gets one row's values.
Rewritten_SameForAll(r) == seen[CHOOSE q \in Known : TRUE].value

Rewritten(r) == seen[r].value

\* Mutant: leaves what is already sealed alone, as a migration does.
Resealed_OnlyPlain == {r \in Known : seen[r].seal = Plain}

\* What rotate_credentials rewrites: every row, whatever it was sealed under.
Resealed == Known

\* One transaction: all the rows it read, or none when one does not open.
RotateRows ==
    /\ pc = "rotate_rows"
    /\ \A r \in Known : OpensWith(master, seen[r].seal)
    /\ seal' = SealAll(Resealed, fresh)
    /\ value' = [r \in Rows |-> IF r \in Resealed THEN Rewritten(r) ELSE value[r]]
    /\ seen' = NothingSeen
    /\ pc' = "rotate_totp"
    /\ UNCHANGED <<master, nextFile, generated, latest, torn, calls, fresh, entries,
                   lapses>>

RowsRollBack ==
    /\ pc = "rotate_rows"
    /\ ~\A r \in Known : OpensWith(master, seen[r].seal)
    /\ CommandEnds
    /\ UNCHANGED <<master, nextFile, generated, stores, lapses>>

\* rotate_secrets and reencrypt_all: load, then truncate; nothing to do when empty.
LoadTotp(from, write, next) ==
    /\ pc = from
    /\ TotpLoads
    /\ entries' = Enrolled
    /\ torn' = IF Enrolled = {} THEN torn ELSE "empty"
    /\ pc' = IF Enrolled = {} THEN next ELSE write
    /\ UNCHANGED <<master, nextFile, generated, seal, value, latest, calls, fresh,
                   seen, lapses>>

SealTotp(kept, key) ==
    [i \in Items |-> IF i \in kept THEN key ELSE IF i \in Owners THEN Absent ELSE seal[i]]

\* The text of a service that wrote in between may stand out behind this one.
WriteTotp(write, key, next) ==
    /\ pc = write
    /\ seal' = SealTotp(entries, key)
    /\ torn' \in {"no", torn} \ {"empty"}
    /\ entries' = {}
    /\ pc' = next
    /\ UNCHANGED <<master, nextFile, generated, value, latest, calls, fresh, seen, lapses>>

RotateTotp == LoadTotp("rotate_totp", "rotate_totp_write", "rotate_key")
\* Mutant: goes through the ordinary save, which seals under the key on disk.
RotateTotpWrite_OrdinarySave == WriteTotp("rotate_totp_write", master, "rotate_key")

RotateTotpWrite == WriteTotp("rotate_totp_write", fresh, "rotate_key")

\* An entry does not open, or a service has just truncated the file.  In a
\* rotation the rows are already under the fresh key, which is nowhere on disk.
TotpFails ==
    /\ pc \in {"rotate_totp", "migrate_totp"}
    /\ ~TotpLoads \/ saves # {}
    /\ CommandEnds
    /\ interrupted' = (interrupted \/ pc = "rotate_totp")
    /\ UNCHANGED <<master, nextFile, generated, stores, forced>>

WriteNewKey ==
    /\ pc = "rotate_key"
    /\ nextFile' = fresh
    /\ pc' = "rotate_rename"
    /\ UNCHANGED <<master, generated, stores, fresh, seen, entries, lapses>>

SwapKey ==
    /\ pc = "rotate_rename"
    /\ master' = nextFile
    /\ nextFile' = NoKey
    /\ CommandEnds
    /\ UNCHANGED <<generated, stores, lapses>>

(***************************************************************************)
(* vhsp secrets migrate: the rows that were plaintext when read, the TOTP  *)
(* file, then every key file still in plaintext.                           *)
(***************************************************************************)
StartMigrate ==
    /\ MayCommand
    /\ CanEncrypt
    /\ seen' = Snapshot
    /\ pc' = "migrate_rows"
    /\ CrossCalls
    /\ UNCHANGED <<master, nextFile, generated, content, fresh, entries, lapses>>

MigrateRows ==
    /\ pc = "migrate_rows"
    /\ LET plain == {r \in Rows : seen[r].seal = Plain} IN
           /\ seal' = SealAll(plain, master)
           /\ value' = [r \in Rows |-> IF r \in plain THEN Rewritten(r) ELSE value[r]]
    /\ seen' = NothingSeen
    /\ pc' = "migrate_totp"
    /\ UNCHANGED <<master, nextFile, generated, latest, torn, calls, fresh, entries,
                   lapses>>

MigrateTotp == LoadTotp("migrate_totp", "migrate_totp_write", "migrate_keys")
\* Mutant: saves the entries as they were loaded.
MigrateTotpWrite_AsLoaded == WriteTotp("migrate_totp_write", Plain, "migrate_keys")

MigrateTotpWrite == WriteTotp("migrate_totp_write", master, "migrate_keys")

MigrateKey(k) ==
    /\ pc = "migrate_keys"
    /\ seal[k] = Plain
    /\ seal' = [seal EXCEPT ![k] = master]
    /\ UNCHANGED <<master, nextFile, generated, value, latest, torn, calls, command,
                   lapses>>

MigrateDone ==
    /\ pc = "migrate_keys"
    /\ \A k \in KeyFiles : seal[k] # Plain
    /\ CommandEnds
    /\ UNCHANGED <<master, nextFile, generated, stores, lapses>>

\* The command is killed.  Only a change that needed a later step is a loss.
CommandDies ==
    /\ pc # "idle"
    /\ CommandEnds
    /\ interrupted' = (interrupted \/ pc \notin {"rotate_rows", "migrate_rows",
                                                  "migrate_totp", "migrate_keys"})
    /\ UNCHANGED <<master, nextFile, generated, stores, forced>>

(***************************************************************************)
(* Services, under whatever key is on disk.                                *)
(***************************************************************************)
MayCall == Cardinality(updates) + Cardinality(saves) + Cardinality(making) < MaxCalls

\* What a service writes is disturbed if its call overlapped a command, and no
\* longer so if it did not.
Note(items, crossed) ==
    disturbed' = IF crossed THEN disturbed \cup items ELSE disturbed \ items

\* add_tenant, set_tenant_db_password, set_tenant_admin_password: seal the
\* value under the key on disk, ...
SealCredential(r) ==
    /\ MayCall
    /\ CanEncrypt
    /\ updates' = updates \cup {[row |-> r, under |-> master, crossed |-> pc # "idle"]}
    /\ UNCHANGED <<master, nextFile, generated, content, making, saves, disturbed,
                   command, lapses>>

\* ... and write it, once the database is not locked.
WriteCredential(u) ==
    /\ latest[u.row] < MaxSets
    /\ updates' = updates \ {u}
    /\ latest' = [latest EXCEPT ![u.row] = @ + 1]
    /\ value' = [value EXCEPT ![u.row] = latest'[u.row]]
    /\ seal' = [seal EXCEPT ![u.row] = u.under]
    /\ Note({u.row}, u.crossed)
    /\ UNCHANGED <<master, nextFile, generated, torn, making, saves, command, lapses>>

\* confirm_and_enable (on TRUE) and remove: load and change one entry, ...
LoadForSave(o, on) ==
    /\ MayCall
    /\ TotpLoads
    /\ LET kept == IF on THEN Enrolled \cup {o} ELSE Enrolled \ {o} IN
           saves' = saves \cup {[kept |-> kept, crossed |-> pc # "idle"]}
    /\ UNCHANGED <<master, nextFile, generated, content, making, updates, disturbed,
                   command, lapses>>

\* ... and save all.  A command that has the file open writes after this.
SaveTotp(v) ==
    /\ CanEncrypt
    /\ saves' = saves \ {v}
    /\ seal' = SealTotp(v.kept, master)
    /\ torn' = IF pc \in {"rotate_totp_write", "migrate_totp_write"} THEN "mixed" ELSE "no"
    /\ Note(Owners, v.crossed)
    /\ UNCHANGED <<master, nextFile, generated, value, latest, making, updates, command,
                   lapses>>

\* _generate_ssh_keypair: ssh-keygen leaves a plaintext file, ...
GenerateKey(k) ==
    /\ MayCall
    /\ k \notin making
    /\ making' = making \cup {k}
    /\ seal' = [seal EXCEPT ![k] = Plain]
    /\ Note({k}, pc # "idle")
    /\ UNCHANGED <<master, nextFile, generated, value, latest, torn, updates, saves,
                   command, lapses>>

\* ... which is read back, sealed and written, unless there is no key.
SealKey(k) ==
    /\ k \in making
    /\ making' = making \ {k}
    /\ seal' = [seal EXCEPT ![k] = IF ~CanEncrypt THEN @
                                   ELSE IF @ = Plain THEN master ELSE Doubled]
    /\ UNCHANGED <<master, nextFile, generated, value, latest, torn, updates, saves,
                   disturbed, command, lapses>>

Rotation == StartRotate \/ RotateRows \/ RowsRollBack \/ RotateTotp \/ RotateTotpWrite
            \/ WriteNewKey \/ SwapKey
Migration == StartMigrate \/ MigrateRows \/ MigrateTotp \/ MigrateTotpWrite
             \/ (\E k \in KeyFiles : MigrateKey(k)) \/ MigrateDone
Service ==
    \/ \E r \in Rows : SealCredential(r)
    \/ \E u \in updates : WriteCredential(u)
    \/ \E o \in Owners, on \in BOOLEAN : LoadForSave(o, on)
    \/ \E v \in saves : SaveTotp(v)
    \/ \E k \in KeyFiles : GenerateKey(k) \/ SealKey(k)

Next == InitKey \/ Rotation \/ Migration \/ TotpFails \/ CommandDies \/ Service

Spec == Init /\ [][Next]_vars

-----------------------------------------------------------------------------
\* The types of the key files, the stores and the command's local state
\* (secretbox.py:55-75, cli.py:443-458).
TypeOK ==
    /\ master \in Keys \cup {NoKey} /\ nextFile \in Keys \cup {NoKey}
    /\ generated \in 0..MaxKeys /\ fresh \in Keys \cup {NoKey}
    /\ seal \in [Items -> Seals]
    /\ value \in [Rows -> 0..MaxSets] /\ latest \in [Rows -> 0..MaxSets]
    /\ torn \in {"no", "empty", "mixed"} /\ making \subseteq KeyFiles
    /\ updates \subseteq [row : Rows, under : Keys, crossed : BOOLEAN]
    /\ saves \subseteq [kept : SUBSET Owners, crossed : BOOLEAN]
    /\ disturbed \subseteq Items /\ entries \subseteq Owners
    /\ pc \in Steps
    /\ seen \in [Rows -> [seal : Seals, value : 0..MaxSets]]
    /\ forced \in BOOLEAN /\ interrupted \in BOOLEAN

Credentials == {i \in Rows \cup Owners : seal[i] # Absent}

\* The TOTP file is written whole, so all its entries are disturbed or none.
TotpUndisturbed == Owners \cap disturbed = {}
Undisturbed(i) == IF i \in Owners THEN TotpUndisturbed ELSE i \notin disturbed

(***************************************************************************)
(* When the key is about to be swapped, the key in the new file opens      *)
(* every row and every TOTP secret, so that a crash on either side of the  *)
(* rename loses nothing that file does not recover (cli.py:452-458,        *)
(* README.md:1530-1535); but for what a service wrote in a call that       *)
(* overlapped a command, which is why rotate asks to stop them.            *)
(***************************************************************************)
NewKeyOpensBothStores ==
    pc = "rotate_rename" =>
        /\ TotpUndisturbed => torn = "no"
        /\ \A i \in Credentials : Undisturbed(i) => OpensWith(nextFile, seal[i])

(***************************************************************************)
(* Between commands, while no key was thrown away and no command was       *)
(* stopped half way, every credential and every TOTP secret that no call   *)
(* across a command wrote opens with the key on disk, through any sequence *)
(* of rotations, migrations and writes (cli.py:430-434).                   *)
(***************************************************************************)
ReadableUnlessInterrupted ==
    pc = "idle" /\ ~forced /\ ~interrupted /\ CanEncrypt =>
        /\ TotpUndisturbed => torn = "no"
        /\ \A i \in Credentials : Undisturbed(i) => CanOpen(i)

(***************************************************************************)
(* Neither a migration nor a rotation changes what a credential is: a row  *)
(* shows what was set last, unless it was set in a call that overlapped a  *)
(* command, which may write back what it read before (registry.py:570-652).*)
(***************************************************************************)
ShowsWhatWasSet ==
    \A r \in Rows : seal[r] # Absent /\ Undisturbed(r) => value[r] = latest[r]

(***************************************************************************)
(* A credential or a TOTP secret once sealed is never written back in      *)
(* plaintext, whatever services do while a command runs and wherever it    *)
(* stops (totp.py:58-66, registry.py:594-606).                             *)
(***************************************************************************)
NeverBackToPlaintext ==
    [][\A i \in Rows \cup Owners : seal[i] \in Keys => seal'[i] # Plain]_vars

(***************************************************************************)
(* The backup private keys are sealed under the same master key and are    *)
(* covered like the other secrets (README.md:1468-1469).                   *)
(***************************************************************************)
KeyFilesStayReadable ==
    pc = "idle" /\ ~forced /\ ~interrupted /\ CanEncrypt =>
        \A k \in KeyFiles : seal[k] # Absent /\ Undisturbed(k) => CanOpen(k)

=============================================================================

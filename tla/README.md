# A formal model of vhsp

`vhsp` hosts web tenants on one Linux machine. A Python control plane
(`control-plane/vhsp_ctl`) creates, maintains, backs up and destroys them by
driving Docker, a SQLite registry, a few root helpers and files on the tenants'
volumes; each tenant also gets a panel of its own
(`control-plane/images/tenant-admin/app.py`) that talks to the control plane
only through files on a shared volume.

Almost nothing in this code locks. Two gunicorn workers of the admin UI, the MCP
server, the `vhsp` command and five systemd timers run the same functions, and
each panel has two workers more; they meet in SQLite, in Docker's name and port
tables and in files they read and rewrite whole. Operations are long programs of
external calls with no rollback. That is what these modules are about: what
still holds when such programs interleave and when one stops in the middle.

Paths below are relative to `src/control-plane/`.

## 1. The system

| component | state | operations | hard part |
|---|---|---|---|
| Tenant lifecycle (`provisioner.py`, `registry.py`) | tenant rows; containers, volumes, network and directories; SFTP port and jail; routing table, mail maps, Roundcube container | `create_tenant`, `_restore_as_new_tenant`, `destroy_tenant` | 26 external calls in a row by several processes, gunicorn's 180 s timeout, derived tables rebuilt from a list read earlier |
| Operator audit log (`audit.py`, `backup.ship_audit_log`) | hash-chained log, shipped offset, chunks on the backup host | `log_action`, `verify_chain`, `ship_audit_log` | unlocked read-hash-append; shipping a growing file; failed and overlapping ships |
| Tenant audit trail (`provisioner.append_tenant_audit`, `app.audit_log`, the mirror) | bounded hash-chained log on the tenant's volume, the mirror's watermark | append, trim, mirror | writers on both sides of a container boundary, buffered writes against an flock, trim against a watermark |
| Operator access (`provisioner.grant_/revoke_operator_access`, `app.operator_access_*`) | the grant file, panel sessions | grant, revoke, consume, expiry, session check | two sides rewrite one file; single-use token; no sweeper |
| Secrets at rest (`secretbox.py`, `registry.py`, `totp.py`, key files in `backup.py`) | master key; sealed rows, TOTP file, key files | `secrets init`, `migrate`, `rotate`, service writes | three stores, no common transaction, key swapped last |
| Backups (`backup.py`, `registry.py`) | snapshots on two destinations, the rows that record them | create, prune, run-all | pushes, rows and retention of two destinations in sequence |
| Restore (`backup.py`) | the tenant restored into | restore in place, restore as new | another way to create a tenant, written out a second time; content replaced volume by volume |
| Backup requests (`backup.py`, `app.backups`) | request, status and marker files | save settings, request restore, `process_requests` | both sides write the request; a one-time key reveal |
| Certificate reconciler (`provisioner.py`) | certificate labels on containers | reissue, reconcile | recreates containers beside the lifecycle |
| Login throttle (`login_throttle.py`, `app.py`) | failure counts and lockouts | failure, success, check | unlocked counters, windows |
| API and MCP permissions (`provisioner.py`, `app.py`, `tenant_api_auth.py`) | four flags in one file | set allowed, set enabled | both sides rewrite the whole file |
| Operator and panel accounts (`auth.py`, `api_auth.py`, `webauthn.py`, `app.py`) | accounts, tokens, security keys as JSON files | create, change, remove | rules about the last owner checked on a copy |
| Credential resets, toggles, mailboxes, quotas | service settings and passwords | set, reset | the live service and the registry change one after the other |
| File manager and editor (`app.py`, `static/src/vhsp-editor.entry.js`) | the webroot; what each browser tab shows and has typed | upload, delete, move, open, save; type, autosave form | a page opened before someone else's write; a move into a folder that was checked earlier; two listeners on one form |
| UI, API, MCP, CLI, images, units, scripts | none of their own | call the above | they are the processes of the models |

`PROJECT.json` lists every component with what is modelled of it, and under
`hazards` the places where this code is hard to test.

**What makes each part correct.** A tenant is live only when all of it exists,
and whatever is not live any more is gone; live tenants never share a slug or a
port; the derived tables name the live tenants. The operator's log reaches the
backup host whole and in order, and a log nobody touched verifies. A tenant's
trail keeps every entry, and what an operator did in a panel is in the
operator's own log. Authority in a panel never outlives the grant. Every secret
can be opened with the key on disk, is what was set last, and never becomes
plaintext again. A listed snapshot exists and retention never takes the newest
copy; a restore is the one that was asked for, a key comes onto the page once,
and what an owner saves takes effect. Saving a page nobody changed does no harm,
and a move keeps a file's content. A restored tenant is what a created one is. For the parts not modelled yet: a lockout happens at the fifth failure; a
permission taken away stays away; a panel keeps an owner.

## 2. Modules

| module | what it is |
|---|---|
| `TenantDirectory` | the abstract promise about tenants: parts are built only while a tenant is not live, it becomes live when all but the `Optional` ones exist, parts go only while it is live (but for the `Remade` ones, which may be made twice), it retires when none is left; a tenant may be disowned, after which anything may become of it and of it only |
| `TenantLifecycle` | `create_tenant`, `_restore_as_new_tenant` and `destroy_tenant` as programs (sequences of named steps) run by any number of workers; implements `TenantDirectory` |
| `TenantLifecycleProofs` | eight theorems about it |
| `AuditLog`, `AuditLogProofs` | `log_action`, `verify_chain`, `ship_audit_log`; four theorems |
| `TenantTrail`, `TenantTrailProofs` | the tenant's trail, its trim and its mirror; six theorems |
| `OperatorAccess`, `OperatorAccessProofs` | the grant file and the sessions it allows; five theorems |
| `SecretStores`, `SecretStoresProofs` | the master key and what is sealed under it; five theorems |
| `Backups`, `BackupsProofs` | `create_backup` with its retention, `run_all_due_backups`; four theorems |
| `BackupRequests`, `BackupRequestsProofs` | the Backups page of the panel and `process_requests`; four theorems |
| `EditorPage` | the editor in the browser, `vhspMountEditor` |
| `FileManager`, `FileManagerProofs` | the Files page over the webroot, with any number of `EditorPage` tabs on top of it; three theorems |
| `MCTenantLifecycle`, `MCOperatorAccess`, `MCSecretStores`, `MCBackups`, `MCBackupRequests`, `MCFileManager` | values of constants and symmetry sets for TLC |

**TenantLifecycle.** `Program` holds creating and destroying as data: the order of the
steps is the order of the calls, `Mounts` and `Requires` are what the
`containers.run` calls name. An action executes one kind of step
(`EnsureVolume`, `RunContainer`, `Register`, `WriteMailMaps`, ...); `port` and
`seen` are the local variables that go stale. Docker is modelled by how the code
uses it: a name or port taken makes a run fail (`RunRaises`), a volume in use or
a network with members cannot be removed (`InUse`), and running a container
creates the named volumes it mounts. `Abort` stops a worker for good at any
step. `relayed` is what Postfix has loaded: `postmap` runs at the very end, after
Roundcube was recreated. Nothing in the code keeps two operations off one
tenant; the history `clashed` holds the slugs on which two ever overlapped, and
what is promised about a tenant is promised until its own slug is among them,
whatever happens on others. The history `alone` marks an operation that no other
one overlapped.
A restore as a new tenant (`BeginRestore`, of a domain in `Backed`) makes the
same calls in the same order as a create, with three differences: it takes the
port of the manifest if that is free (a port of `SSH_PORT_RANGE`, we assume), it
makes no WAF container and no jail (`PassOver`, `InstallJail`), and it may run
the SFTP container twice (`RemakeSftp` goes back one step). `about` is what the
worker was given or has read; `walled` holds the live domains whose row names a
WAF container, and a destroy that reads a row without one ends at the blank name
(`NamesNothing`: docker-py raises, and not `NotFound`).
Not in `res`: images, the shared gateway network, the contents of volumes.

**AuditLog.** A line is the number of the line its `prev_hash` names; offsets
count lines instead of bytes. Each unlocked step is an action: hash the last
line, append; read the offset, stat, read; make the work directory, write the
chunk there, push it, remove the directory; open the state file, save the offset.
Work directories and chunks are named after the second, so ships of one second
share the directory, write and push one local file, and remove it under each
other; a push over a remote file of the same name replaces it. `replaced` holds
the lines of remote chunks lost that way and `spoiled` the lines of ships that
shared a work directory, any of which may have counted what it never sent. The
state file is emptied before it is written: a death between leaves it `Empty`,
two saves at once may leave it `Garbled`, and every later ship raises on either.
`crossed` and `doubtful` remember which `log_action` calls overlapped another one
and the lines they appended. Writing the chunk is one step, and a push is all or
nothing; a partial remote file would be overwritten or followed by the next push.

**TenantTrail.** Both writers hold the flock over read and write, but the write
goes to a buffer that is flushed when the file is closed, after the unlock:
`ComposeAndUnlock`, then `FlushAndClose`. The panel's trim is two steps. The
mirror reads without a lock, copies line by line, then saves the watermark.
`crossed` are the writers whose call runs beside another's, `doubtful` the entries
of such calls and those lost with a killed writer; every other entry that left its
buffer is `Settled`. A trim may drop only what is not settled, and the chain may
break only at a doubtful line.

**OperatorAccess.** `Path.write_text` truncates and then writes, so every
rewrite is read, truncation, write. A second writer's bytes over another's may
leave a file that does not parse (`Garbled`). The token's hash and the operator's
name stand in the number of the grant. `ended` collects revocations that were
written while nobody else held an unrevoked copy. The history `clashed` has the
grants some handler worked on while another handler ran; what needs the handlers
of a grant one at a time is claimed of all other grants.

**SecretStores.** `seal` says what each entry is sealed under: a key, nothing, or
twice. A command is a step counter (`pc`), the rows it read (`seen`) and the key
it generated (`fresh`), and may die between any two steps; the TOTP file is
loaded, truncated and written. Services are not stopped. A service seals a value
under the key on disk and writes it later (`updates`), or loads the TOTP file and
saves it whole later (`saves`), so either may straddle any step of a command. The
history `disturbed` holds what was last written in a call that overlapped a
command; a call that overlapped none takes it out again. A service's save is one
step: a command that loads in the middle of it fails (`TotpFails`), and one that
has the file open itself may leave both texts in it (`torn` is "mixed").

**Backups.** `create_backup` is a program of external calls: `Build`, then for
the operator's destination and the tenant's own `Push`, `Record`, `PruneRows`,
`RemoveStale`. `Clerks` are whoever else runs it (a click, the command, the
reconciler) beside the timer's sweep. `Fail` makes a call raise, `Die` ends the
process; either gives up the copy it was placing and those it had still to
remove (`GivesUp`), and an unfinished push may leave a part of a file. The history
`strays` holds the files given up, and those a backup removed at a destination
where they were not, the tenant having changed it. A copy is the
number of its snapshot, which is also its name, since no two backups of a tenant
fall into one second here. `Day` ticks are a day, so that with `Day` above 1 a
backup takes time. Archives, encryption and transport are external.

**BackupRequests.** The three files of the phpconf volume (request, status,
marker), the backup columns of the row and the tenant's key are separate state
that panel, pass and restores change. Every file is emptied before it is
written. The branches of a pass that raise end it (`Raise`). A snapshot holds the
volume's files and the stores it still lies in: each backup prunes both, the
operator's and the tenant's own, to the newest `Retention` copies, so a request
may name a copy that is gone (the restore then fails with an answer). A restore
in place brings back the files as they were in the snapshot, request and status
included, and is one step. `served`, `revived`, `restores` and `lost` (clicks whose
text another click, a restore or what a pass wrote back took out of the file) are
histories; `shown` counts each time the private key comes onto the page, by a
status written or by one that came back. A pass may be killed anywhere; only two
places matter afterwards, and are remembered for that tenant: between the two
updates of its row (`halfway`, until a later pass makes the second one), and with
its new key in hand but not yet told (`untold`). Left out: the second copy or the
removal failing on its own, and the operator's columns of the row. A pass also
writes back the retention and interval it read when its turn began, which undoes
what an operator set meanwhile; that is a hazard without a property. In TLC's
instance the owner who promises a key and leaves it out also gives a bad port, so
that the row set to encrypt without a key is covered by the proofs alone.

**EditorPage, FileManager.** A tab has the textarea the form submits (`area`) and
the document on the screen (`doc`); a "stuck" page, whose editor threw after the
textarea was hidden, shows neither. The text starts right behind the
`<textarea>` tag, where a browser drops a newline: `Dropped` is a text without
the one it may begin with. The update listener and the submit listener are
separate. `FileManager` gives every
request one action per file system call: check, open (which empties the file),
write, answer. An open file is followed when it is renamed or deleted. Content is
a text, its line ends and what became of its bytes, for the round trip through
the form changes all three. Files in `TooLarge` are refused, on opening, on saving
and, as the line ends of a form make a file grow, perhaps only when a save answers
with the page; in TLC's instance no save that is accepted grows past the limit, so
that last refusal is covered by the proofs alone. Left out: the 404-fallback toggle, whose marker file
appears only as the path the page refuses; uploads are one file at a time, and
`rmtree` is one step.

## 3. Runs

Bounds: two actors of each kind are enough for every race named here, since each
is a pair of steps of one process around a step of another; a third adds
symmetric copies. Bounds on histories (`MaxFailures`, `MaxCrashes`,
`MaxLines`, `MaxWrites`, `MaxGrants`, `MaxKeys`, `MaxSets`, `MaxSnapshots`,
`MaxUpsets`, `MaxSeconds`, `MaxMoves`, `MaxTexts`, `Backed`) leave room for the case each
property is about: two lines and two ships in one second or in two, a trim after
the limit and one after it, a rotation after a rotation, a third snapshot when one
is kept, a request that a restore brings back when its snapshot was pruned. Where a run is small, the theorem of section 4 states the
property for every value.

| run | instance | shows |
|---|---|---|
| `TenantLifecycle_overlapping` | 2 workers, 2 tenants (one of which can be restored), 2 ports; once, an operation dies anywhere or is started beside another on its tenant | but for a tenant that operations clashed on, live tenants are whole, rows outlive resources, Docker never refuses a destroy, ports agree, no jail is left on a port its tenant does not hold, an operation nobody overlapped leaves the derived tables right; the programs implement `TenantDirectory` |
| `AuditLog_shipping` | 2 writers, 2 lines, the timer and a manual ship, 2 seconds; twice, a ship fails or dies anywhere or two calls overlap | but for the lines of ships that shared a work directory, nothing counted as shipped was never sent and chunks replay; every line arrives unless the state file is left unreadable; the chain breaks only at lines whose calls overlapped |
| `TenantTrail_writers` | 1 host process, 2 panel workers, limit 3, 4 entries, 1 kill | entries are recorded once; a trim keeps the newest settled entries in order, and the chain breaks only at a line whose call crossed another's; below the limit the mirror misses nothing, eventually copies every operator action, and copies one again at most once for each kill |
| `TenantTrail_wedged` | 1 panel worker at the limit | *violated*: the file keeps its length, the mirror takes that for nothing new, and operator actions are never copied |
| `OperatorAccess_overlapping` | 1 host process, 2 panel workers, 2 operators, 2 grants, every interleaving | authority never outlives the grants; a revocation written cleanly lasts; only a grant whose handlers clashed with others opens two sessions or comes back after it was replaced |
| `SecretStores_serving` | 2 rows, 2 TOTP owners, 1 key file, 3 keys, 1 service call at a time beside the command | but for what a call across a command wrote, the key swapped in opens both stores and uninterrupted commands leave every secret readable and current; nothing returns to plaintext |
| `SecretStores_backup_keys` | 2 keys | *violated*: a rotation that completes leaves the backup keys under the key it replaced |
| `Backups_overlapping` | 2 tenants, one of which cannot be dumped, the sweep and a clerk, 3 snapshots, retention 1, 1 failure, 1 change of destination | what is listed is there and whole; pruning takes only what newer copies replace, and everything it should; the sweep serves every due tenant though another one fails |
| `Backups_daily` | 2 tenants, a day of 2 ticks, nothing fails | *violated*: on the default interval a tenant is backed up every second day |
| `BackupRequests_passes` | 1 tenant, 2 clicks, 3 forms, 2 snapshots, 1 copy kept in each store, 1 kill or operator's restore | restores happen as often as they were asked for; a key comes onto the page once, and again only with a restore; encryption has its key; each save takes effect unless it was replaced or written over in the file or a pass cannot get past a request |
| `BackupRequests_blocked` | 2 tenants, 2 clicks | *violated*: a request that cannot be read or applied keeps the tenants after it from being served |
| `FileManager_two_tabs` | 2 tabs, 5 paths with directories, 2 texts, one of which begins with a newline | saving untouched loses at most the newline a file begins with; a move loses no text but that of a file put at its very destination after the check |

The four violated runs state what a comment or the README of the code says;
`findings` in `PROJECT.json` quotes it.

Where the code falls short of what its texts say and no run of its own shows it,
the property excepts the case by name, the model reaches it, and it is listed
under `hazards`:

- A tenant restored as new has neither a WAF container nor a jail, though
  `architecture.md:118,120` (of the repository) gives every tenant both, and it
  cannot be destroyed until `recreate_waf.py` was run. `LiveIsWhole` and
  `DestroyNeverRefused` except the container and the destroy by name.
- Two creates that overlap may leave both tenants live and mail relayed for one
  of them, which `TablesFollowRegistry` excludes by its condition.
- A `secrets rotate` that stops after the rows leaves them under a key that was
  never written, which `ReadableUnlessInterrupted` excludes by name.
- Two ships of one second share a work directory, so that one may send the
  other's shorter chunk and count its own, and a ship that dies while it saves the
  offset leaves a state file on which every later one raises, against the
  promise of no loss and of a retry (`backup.py:782-790`). `NothingSkipped` and
  `ReplaysInOrder` except `spoiled`, `EventuallyShipped` also `Stuck`.
- A private key that died with its pass, or was made without a destination, is
  never shown, and a restore of a volume whose status tells the key shows it
  again; the README of the repository (2286-2291) says exactly once.
  `KeyShownOnce` counts the restores and excepts `untold` and `KeyNowhere`.
- What an owner saves while a pass has the request in hand is overwritten when
  the pass writes the request back (`backup.py:1261-1263,1356`), and never takes
  effect (that README, 2359-2361). `TakesEffect` excepts the clicks in `lost`.
- Entries are flushed after the unlock, so calls that cross break the trail's
  chain, which `provisioner.py:1814-1820` and
  `images/tenant-admin/app.py:1208-1213` say the lock prevents; `TrailChainIntact`
  and `TrimKeepsNewest` except `doubtful`. A worker killed in the middle of a trim
  leaves an empty log, of which `TrimKeepsNewest` then says nothing.
- A save of a file that begins with a newline loses it, and each further save
  another one (`images/tenant-admin/app.py:2867`).
  `UntouchedSaveIsHarmless` allows that newline and nothing else.

Every property of a passing run has a mutant in `PROJECT.json`: a changed
definition (a wrong order, a forgotten volume, an offset measured too late)
under which TLC finds the property violated.

**Deadlock** is checked in the runs of `TenantLifecycle` and `BackupRequests`,
where an operation or a pass can always start or go on. The other models end where their
bounds do (the log is full, all grants have run out), and their configurations
say `CHECK_DEADLOCK FALSE`.

**Fairness.** `AuditLog!FairSpec`: each shipper keeps taking its steps, for the
timer starts it every minute and again after a failure
(`deploy/vhsp-audit-ship.timer`). `TenantTrail!FairSpec`: the mirror, which the
same timer runs. `BackupRequests!Spec`: the timer starts passes
(`deploy/vhsp-backup-reconcile.timer`), a pass that runs goes on, and a panel
handler that opened the request file writes it. Writers, operators, owners and
tenants are never assumed to act.

## 4. Proofs

TLAPS checks these for every number of processes, tenants, lines, grants, keys
and failures. The only assumptions are the `ASSUME`s of the modules (sets of
numbers, absent values that are not members). No theorem assumes that processes
keep apart: where overlapping calls can do harm, a history variable remembers
what they touched, and the property claims everything else.

*TenantLifecycleProofs.* All eight theorems are about `Spec` as it is: any number
of workers, operations overlapping and dying anywhere. `TypeCorrect` holds
for every tenant, and so does the lemma that live rows share neither port nor
slug, which the indexes of the registry alone see to. The others are about the
tenants on whose slug no two operations ever overlapped. The inductive
invariant `IInv` says, for every worker in the middle of a program on such a slug,
which resources its position guarantees (`BuildsUp`) or excludes (`TearsDown`),
that jails belong to rows, and that it is there alone. `LiveIsWhole` alone is not
inductive: that a tenant is whole when it is registered follows only from where
its creator is, and that a restore which removes its SFTP container takes it from
no live tenant of the same slug, only from the network it made itself. From `IInv`
follow `JailsStayLive`, `LiveStaysWhole`, `RowOutlives` and
`DestroyIsNeverRefused`; with the port a worker and its container hold
(`PortInv`), `PortsStayInAgreement`.
`LifecycleImplementsDirectory` is the step by step refinement. The directory may
disown a tenant, which the code does when operations clash on its slug or two
domains share it; what becomes of it afterwards is left open, but
(`StepsAreConfined`) no step on it changes a part or the standing of another
tenant. TLC's instance has no two domains with one slug; for those there is only
the proof. `TablesFollowAloneOperations`: `AloneInv` says of an operation nobody
overlapped that it is the only one, and which of the tables the steps behind it
have already made equal to the live tenants (`TablesSoFar`).

*AuditLogProofs.* `ChainStaysIntact` holds for every interleaving of writers:
`AloneHashedLast` says of a call that overlapped no other that what it hashed is
still the last line and that nobody else is inside. `NothingIsSkipped`: `Cover(t)` are the lines
sent under a name up to `t`, replaced or spoiled, and no step takes one away.
`ShipInv` says that what a readable state file counts is covered (`OffsetInv`), so
is what lies before a chunk in a work directory, under the chunk's own name
(`FilesInv`), and what a ship has read, or will save after its push (`Counts`);
and that the local file a ship is about to push is its own, unless its lines are
already spoiled, for else it is alone in its directory (`Owns`). Without `Owns`
nothing ties what is counted to what is sent. `ChunksReplayInOrder` follows from
`FilesInv` when a chunk is pushed.

*TenantTrailProofs.* The flock is part of the type invariant (`Locking`: one
writer is between lock and unlock). `IdsInv` keeps the numbers in the file, in a
panel's buffer and in a trim's kept lines apart; `CountInv` says that below the
limit the file and the buffers together hold all that was written, so that no
trim starts there. From these, `EveryEntryOnce`. `MirrorInv`
(what the mirror read is a beginning of the file) gives `MirrorSkipsNone`, and
`CopyInv` (an entry the mirror has not come to was copied no oftener than there
were kills) `CopiesArePerKill`.
`CallsInv` says that calls in progress together are known to cross, that a call
nobody crosses still sees the file as it read it, and that a trim somebody crossed
has only doubtful lines in front of what it keeps. With it `OrderInv` is inductive:
in the file, and in the lines a writer holds under the lock, links break only at
doubtful lines, and a settled entry has every later one below it.
`TrailStaysChained` and `TrimKeepsTheNewest` follow, with any number of writers
crossing and dying. No property of the module except its liveness is left to TLC
alone.

*OperatorAccessProofs.* `EndedInv`: once a revocation was written cleanly, neither
the file nor any copy a process holds carries that grant unrevoked, which
survives every interleaving; `CleanRevokeLasts` and `AuthorityStaysGranted`
follow. `HandlersInv` follows a handler whose grant clashed with nobody through its steps:
it is the only one running, and what it holds is what the file says. A clashing
handler can have another's grant in hand, but `ApartInv` says that this one
clashed too. They give `TokenIsSingleUse` and `NewestGrantStays`.

*SecretStoresProofs.* All theorems are about services and commands in every
interleaving, any number of calls at once. `StaysSealed` is an action property
proved from the type invariant. `CallsInv` says that a call in progress beside a
command is known to overlap it, and that any other carries the key on disk.
`RotationInv` follows a command through its steps, for what is not disturbed:
which store is already under the fresh key, and that what the command read is
what is there. They give `NewKeyIsReady`, `StaysReadable` and, by the same
reading of the rows, `RowsShowWhatWasSet`. Neither is inductive without the
other: a value sealed before a rotation and written after it would be taken for
undisturbed.

*BackupsProofs.* `ListedStaysThere`. That a row's file exists is not inductive:
two processes prune one list, and a file removed by name might be one that was
pushed again. `ListInv` adds that a snapshot's number is used by one process and
listed once (`IdsAreDistinct`), that what a process is about to remove is listed
no more (`StaleIsUnlisted`), that what is still to be recorded is neither listed
nor stale (`PendingIsNew`), and that what is about to be recorded was pushed
(`PushedIsThere`). `PruningLeaksNothing`: `LeakInv` accounts for each file; it is
listed, a job is about to list it, a job has it in hand to remove it, or a call
that failed, died or removed it at another place gave it up (`strays`). `PruningKeepsNewest`: for a tenant whose backups did not overlap,
`KeepInv` keeps the rows in the order of their numbers, the copy still to be
recorded above all of them and the copies to be removed below them, with as many
rows left as are retained. `DueTenantsAreServed`: `SweepInv` says that the due
tenants before the sweep's place are served or noted and those after it are due
still, or were served by somebody else.

*BackupRequestsProofs.* All four theorems rest on `Known`: the types, `KeyInv`
(what the pass knows of the tenant's key at each of its stages, and that a turn
begins knowing nothing) and `SourceInv`. The last says that a request, wherever
it lies, in the file, in a snapshot or in the pass's hands, is `Fine`: some click
of that tenant's owner carries its destination and its encryption, the snapshot
it names was taken once (it may be pruned by now), and the click whose restore it asks for is done and is that
tenant's. None of the invariants is inductive without it, since any old request
may come back with a restored volume. `TypesAreKept` adds the bounds.
`KeyIsShownOnce`: `Seen` says that a status which tells the key, in the file or in a
snapshot, is of a tenant whose key was on the page; `ShownInv` that a key in the
row was shown, and no oftener than once and once more for each restore, or is
the pass's to tell and not shown yet, or died with the pass that was to tell it, or
was asked for without a destination. `EncryptedHasKey`: the pass leaves
its second update of the row without a key only where an owner promised one, so
that a pass mends what a killed one left halfway.
`RestoresAsAsked`: `ServeInv` says that a restore that may still be carried out
(`Live`: its click is on the way to the file, the file asks for it, or the pass
is about to do it) has come back as often as it was carried out; the file the
pass is about to rewrite after a restore is the one place that does not count.

*FileManagerProofs.* `SaveInv` ties a page to the file it was made from (`PageOK`)
and, while its save is on the way, the request to the page (`SaveOK`): the page
waits, so no edit comes in between. What is posted is then what was read, without
the newline it began with (`Read`, `Posted`), whatever other tabs do to the file:
`UntouchedStaysHarmless`. `TreeInv`: what
exists lies in a directory (`Tree`); a request that holds a file open knows where
that file went, or that it is gone (`Fits`); a request that no other
ran beside is the only one in progress, a move with its destination free
(`MoveAlone`); and no move has lost a text, which is `MovesLoseNothing`: a rename
takes out of the tree only what lies at its destination, and that is a file put
there since the check (`Overwritten`), for a directory is never replaced. The first two give
`TypesStay`: a move that led out of the paths would leave a file in no directory.
Neither is inductive alone: a move carries the open files of all other tabs with
it, and a file whose name were taken by another would lose its text unseen.

Every safety property of every passing run has its theorem. Only model-checked:
liveness (`EventuallyShipped`, `OperatorSeesAll`, `TakesEffect`),
which TLAPS cannot do under fairness. No module uses recursion.
The type invariants of `TenantLifecycle`, `AuditLog`, `OperatorAccess` and
`SecretStores` are proved and not run; those of the other modules are run.

## 5. Plan

In this order; each step adds a module, its run and its theorems.

1. In `TenantLifecycle`: restore in place as a program on a live tenant, the
   certificate reconciler and the `recreate_*.py` scripts as further programs.
2. `SharedFlags`: an abstract account of JSON files rewritten whole, with
   `LoginThrottle`, `PlatformAccess`, `PanelUsers` and `OperatorAccounts` as its
   users.
3. `CredentialResets`: the live service first, the registry second.
4. A second mirror process in `TenantTrail`.

Not modelled: the web pages and APIs (they call what is modelled), rendering of
configurations, DNS queries, the update check, archive, encryption and transport
programs, the images' shell. They keep no shared state, or are external.

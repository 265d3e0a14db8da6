--------------------------- MODULE TenantLifecycle ---------------------------
(***************************************************************************)
(* Creating and destroying tenants: provisioner.create_tenant,             *)
(* backup._restore_as_new_tenant and provisioner.destroy_tenant, with the  *)
(* part of registry.py they use.                                           *)
(*                                                                         *)
(* A worker is any process that runs the provisioner: one of the two       *)
(* gunicorn workers of vhsp-admin.service, the MCP server, the `vhsp` CLI. *)
(* Nothing locks: the processes meet only in the SQLite registry, in       *)
(* Docker's own name and port tables and in the files they rewrite.  The   *)
(* operations are straight-line programs of external calls, so each one is *)
(* a sequence of named steps (Program) and each kind of step is one action. *)
(* A restore as a new tenant is the program of a create in which the WAF   *)
(* container and the jail are passed over and the SFTP container may be    *)
(* made twice; what it fills volumes and database with is left out.        *)
(* Between any two steps another worker may run, and a worker may stop for  *)
(* good: an exception out of docker-py or a sudo helper, or gunicorn       *)
(* killing it after --timeout 180.  Nothing rolls back what it had done.   *)
(***************************************************************************)
EXTENDS Naturals, Sequences, FiniteSets

CONSTANTS
    Domains,     \* domains an operator may host here
    SlugOf,      \* slugify(): domain -> slug; different domains may collide
    Backed,      \* domains that a snapshot may be restored as
    SshPorts,    \* SSH_PORT_RANGE
    Workers,     \* processes running the provisioner
    MaxUpsets,   \* bound: operations cut short or begun beside another on their slug
    NoDomain, NoPort

ASSUME ConstantsAssumption ==
    /\ SlugOf \in [Domains -> {SlugOf[d] : d \in Domains}]
    /\ SshPorts \subseteq Nat
    /\ Backed \subseteq Domains
    /\ MaxUpsets \in Nat
    /\ NoDomain \notin Domains
    /\ NoPort \notin SshPorts

VARIABLES
    rows,        \* active rows of the registry's tenants table
    walled,      \* live domains whose row names a WAF container
    res,         \* slug -> the tenant resources that exist on the host
    bound,       \* slug -> host port its SFTP container publishes
    jail,        \* slug -> port its fail2ban jail watches
    routing,     \* domains in routing_table.json
    mailmaps,    \* domains in the mail gateway's relay/transport map files
    relayed,     \* domains in the maps its Postfix has loaded
    webmail,     \* the shared Roundcube container: {} or {its routed domains}
    job,         \* worker -> what it is running
    target,      \* worker -> the domain it runs it for
    about,       \* worker -> what it was given or has read (Tale)
    at,          \* worker -> index of its next step in Program[job[w]]
    port,        \* worker -> local variable ssh_port
    seen,        \* worker -> domains in its last registry.list_tenants()
    dismantling, \* history: live domains on which a destroy was started
    clashed,     \* history: slugs two operations were ever at work on at once
    alone,       \* history: the worker that was the only one since it began
    upsets       \* history: operations cut short or begun beside another so far

Slugs == {SlugOf[d] : d \in Domains}

registry == <<rows, walled, dismantling>>
host == <<res, bound, jail>>
shared == <<routing, mailmaps, relayed, webmail>>
control == <<job, target, about, at, alone, clashed>>
vars == <<rows, walled, res, bound, jail, routing, mailmaps, relayed, webmail,
          job, target, about, at, port, seen, dismantling, clashed, alone, upsets>>

(* A tenant is made from scratch, or from a snapshot, whose SFTP container  *)
(* has been made once more or not; a destroy has read a row that names a    *)
(* WAF container (walled) or none (bare).                                   *)
Tale == {"none", "scratch", "snapshot", "remade", "walled", "bare"}

-----------------------------------------------------------------------------
(* What a tenant is made of.  "host_dirs" is TENANTS_DIR/<slug>: the        *)
(* directories behind the volumes.                                          *)

Volumes == {"webroot", "db_volume", "phpconf", "logs", "ssh_keys",
            "mail_volume", "dkim"}
Containers == {"db", "web", "waf", "sftp", "mail", "tenant_admin"}
Resources == Volumes \cup Containers \cup {"network", "host_dirs"}

DbMounts == {"db_volume"}
WebMounts == {"webroot", "phpconf", "logs"}
SftpMounts == {"webroot", "ssh_keys", "logs"}
MailMounts == {"mail_volume", "logs", "phpconf", "dkim"}
TenantAdminMounts == {"phpconf", "logs", "webroot", "mail_volume"}

(* The WAF sidecar mounts one file of the phpconf directory, not a volume.  *)
WafMounts == {}

Mounts == [db |-> DbMounts, web |-> WebMounts, waf |-> WafMounts,
           sftp |-> SftpMounts, mail |-> MailMounts,
           tenant_admin |-> TenantAdminMounts]

(* What must exist before a container is run: the network db is started on  *)
(* (provisioner.py:283), the directory that the WAF (488-492), mail (795-799) *)
(* and panel (977-990) code first writes a file into.                       *)
Requires == [db |-> {"network"}, web |-> {}, waf |-> {"host_dirs"}, sftp |-> {},
             mail |-> {"host_dirs"}, tenant_admin |-> {"host_dirs"}]

(* Containers connected to the tenant's network once they are running.     *)
JoinedLater == {"web", "tenant_admin"}

-----------------------------------------------------------------------------
(* The two programs.                                                        *)

BuildPlan ==
    <<"webroot", "network", "db_volume", "db", "phpconf", "logs", "web", "waf",
      "ssh_keys", "sftp", "mail_volume", "dkim", "mail", "tenant_admin">>

(* Mutant: volumes go before the panel container that mounts them.          *)
TearDownPlan_VolumesFirst ==
    <<"waf", "web", "sftp", "db", "mail", "webroot", "db_volume", "ssh_keys",
      "mail_volume", "phpconf", "logs", "dkim", "tenant_admin", "host_dirs",
      "network">>

(* Mutant: the DKIM volume is forgotten, as it was before 2026-07-24.       *)
TearDownPlan_ForgetsDkim ==
    <<"waf", "web", "sftp", "db", "mail", "tenant_admin", "webroot",
      "db_volume", "ssh_keys", "mail_volume", "phpconf", "logs",
      "host_dirs", "network">>

TearDownPlan ==
    <<"waf", "web", "sftp", "db", "mail", "tenant_admin", "webroot",
      "db_volume", "ssh_keys", "mail_volume", "phpconf", "logs", "dkim",
      "host_dirs", "network">>

(* What they all do once the registry has changed: rewrite everything that is   *)
(* derived from the list of active tenants.                                 *)
RefreshPlan ==
    <<"list_routing", "write_routing", "list_maps", "write_maps",
      "drop_webmail", "list_webmail", "run_webmail", "load_maps">>

(* Mutant: the row is inserted before the tenant's panel exists.            *)
CreateProgram_RegistersEarly ==
    <<"allocate">> \o SubSeq(BuildPlan, 1, Len(BuildPlan) - 1)
        \o <<"register", "tenant_admin">> \o RefreshPlan \o <<"jail_on">>

CreateProgram ==
    <<"allocate">> \o BuildPlan \o <<"register">> \o RefreshPlan \o <<"jail_on">>

(* Mutant: the jail is taken away once the row is gone.                      *)
DestroyProgram_JailLast == TearDownPlan \o <<"unregister", "jail_off">> \o RefreshPlan

DestroyProgram ==
    <<"jail_off">> \o TearDownPlan \o <<"unregister">> \o RefreshPlan

Program == [create |-> CreateProgram, destroy |-> DestroyProgram]

Busy(w) == job[w] # "idle"
Step(w) == Program[job[w]][at[w]]
Creating(w, s) == job[w] = "create" /\ Step(w) = s
Destroying(w, s) == job[w] = "destroy" /\ Step(w) = s
Slug(w) == SlugOf[target[w]]
Restoring(w) == about[w] \in {"snapshot", "remade"}

Live == {r.domain : r \in rows}

Init ==
    /\ rows = {} /\ walled = {}
    /\ res = [s \in Slugs |-> {}]
    /\ bound = [s \in Slugs |-> NoPort]
    /\ jail = [s \in Slugs |-> NoPort]
    /\ routing = {} /\ mailmaps = {} /\ relayed = {}
    /\ webmail = {}
    /\ job = [w \in Workers |-> "idle"]
    /\ target = [w \in Workers |-> NoDomain]
    /\ about = [w \in Workers |-> "none"]
    /\ at = [w \in Workers |-> 0]
    /\ port = [w \in Workers |-> NoPort]
    /\ seen = [w \in Workers |-> {}]
    /\ dismantling = {}
    /\ clashed = {} /\ alone = {}
    /\ upsets = 0

-----------------------------------------------------------------------------
(* Control: start, go on to the next step, stop.                            *)

(* Somebody is at work on the slug of d.                                    *)
Contended(d) == \E v \in Workers : Busy(v) /\ Slug(v) = SlugOf[d]

(* Nothing keeps a second operation on a tenant from starting.              *)
Start(w, kind, d, tale) ==
    /\ ~Busy(w)
    /\ job' = [job EXCEPT ![w] = kind]
    /\ target' = [target EXCEPT ![w] = d]
    /\ about' = [about EXCEPT ![w] = tale]
    /\ at' = [at EXCEPT ![w] = 1]
    /\ alone' = IF \E v \in Workers : Busy(v) THEN {} ELSE {w}
    /\ IF Contended(d)
       THEN /\ clashed' = clashed \cup {SlugOf[d]}
            /\ upsets < MaxUpsets /\ upsets' = upsets + 1
       ELSE UNCHANGED <<clashed, upsets>>

Stop(w) ==
    /\ job' = [job EXCEPT ![w] = "idle"]
    /\ target' = [target EXCEPT ![w] = NoDomain]
    /\ about' = [about EXCEPT ![w] = "none"]
    /\ at' = [at EXCEPT ![w] = 0]
    /\ alone' = {}
    /\ UNCHANGED clashed

Advance(w) ==
    IF at[w] = Len(Program[job[w]])
    THEN Stop(w)
    ELSE at' = [at EXCEPT ![w] = @ + 1] /\ UNCHANGED <<job, target, about, alone, clashed>>

(* An exception leaves the operation: its local variables are gone.        *)
Raise(w) ==
    /\ Stop(w)
    /\ port' = [port EXCEPT ![w] = NoPort]
    /\ seen' = [seen EXCEPT ![w] = {}]

BeginCreate(w, d) ==
    /\ d \notin Live
    /\ Start(w, "create", d, "scratch")
    /\ UNCHANGED <<registry, host, shared, port, seen>>

(* restore_backup, once the snapshot is fetched and verified.               *)
BeginRestore(w, d) ==
    /\ d \in Backed \ Live
    /\ Start(w, "create", d, "snapshot")
    /\ UNCHANGED <<registry, host, shared, port, seen>>

BeginDestroy(w, d) ==
    /\ d \in Live
    /\ Start(w, "destroy", d, IF d \in walled THEN "walled" ELSE "bare")
    /\ dismantling' = dismantling \cup {d}
    /\ UNCHANGED <<rows, walled, host, shared, port, seen>>

Begin(w, d) == BeginCreate(w, d) \/ BeginRestore(w, d) \/ BeginDestroy(w, d)

(* The operation is cut short before its next step takes effect.            *)
Abort(w) ==
    /\ Busy(w)
    /\ upsets < MaxUpsets
    /\ upsets' = upsets + 1
    /\ Raise(w)
    /\ UNCHANGED <<registry, host, shared>>

-----------------------------------------------------------------------------
(* create_tenant                                                            *)

UsedPorts == {r.port : r \in rows}
FreePorts == SshPorts \ UsedPorts
LowestFree(p) == p \in FreePorts /\ \A q \in FreePorts : p <= q

(* A restore takes the port its manifest names, one of SSH_PORT_RANGE, if    *)
(* no row has it, and the lowest free one otherwise.                        *)
AllocatePort(w) ==
    /\ Creating(w, "allocate")
    /\ \E p \in FreePorts :
          /\ LowestFree(p) \/ Restoring(w)
          /\ port' = [port EXCEPT ![w] = p]
    /\ Advance(w)
    /\ UNCHANGED <<registry, host, shared, seen, upsets>>

(* An existing volume of that name is taken over as it is.                  *)
EnsureVolume(w) ==
    /\ job[w] = "create" /\ Step(w) \in Volumes
    /\ res' = [res EXCEPT ![Slug(w)] = @ \cup {Step(w), "host_dirs"}]
    /\ Advance(w)
    /\ UNCHANGED <<registry, bound, jail, shared, port, seen, upsets>>

CreateNetwork(w) ==
    /\ Creating(w, "network")
    /\ "network" \notin res[Slug(w)]
    /\ res' = [res EXCEPT ![Slug(w)] = @ \cup {"network"}]
    /\ Advance(w)
    /\ UNCHANGED <<registry, bound, jail, shared, port, seen, upsets>>

PassesOver(w) == job[w] = "create" /\ Step(w) = "waf" /\ Restoring(w)

MayRun(w) ==
    /\ job[w] = "create" /\ Step(w) \in Containers /\ ~PassesOver(w)
    /\ Step(w) \notin res[Slug(w)]
    /\ Requires[Step(w)] \subseteq res[Slug(w)]

PortTaken(w) == Step(w) = "sftp" /\ \E s \in Slugs : bound[s] = port[w]
CannotJoin(w) == Step(w) \in JoinedLater /\ "network" \notin res[Slug(w)]

(* Docker creates a named volume that a container mounts and nobody made.   *)
AddContainer(w) ==
    res' = [res EXCEPT ![Slug(w)] = @ \cup {Step(w)} \cup Mounts[Step(w)]]

RunContainer(w) ==
    /\ MayRun(w)
    /\ ~PortTaken(w)
    /\ ~CannotJoin(w)
    /\ AddContainer(w)
    /\ bound' = IF Step(w) = "sftp" THEN [bound EXCEPT ![Slug(w)] = port[w]] ELSE bound
    /\ Advance(w)
    /\ UNCHANGED <<registry, jail, shared, port, seen, upsets>>

(* The container is created, then publishing its port or connecting it to   *)
(* the tenant's network fails: the call raises and the container stays.     *)
RunRaises(w) ==
    /\ MayRun(w)
    /\ PortTaken(w) \/ CannotJoin(w)
    /\ AddContainer(w)
    /\ Raise(w)
    /\ UNCHANGED <<registry, bound, jail, shared, upsets>>

(* _restore_as_new_tenant makes no WAF container.                            *)
PassOver(w) ==
    /\ PassesOver(w)
    /\ Advance(w)
    /\ UNCHANGED <<registry, host, shared, port, seen, upsets>>

(* If the manifest holds a public key, it is written into the keys volume    *)
(* and the SFTP container is removed and run again.                         *)
RemakeSftp(w) ==
    /\ Creating(w, "mail_volume") /\ about[w] = "snapshot"
    /\ "sftp" \in res[Slug(w)]
    /\ res' = [res EXCEPT ![Slug(w)] = @ \ {"sftp"}]
    /\ bound' = [bound EXCEPT ![Slug(w)] = NoPort]
    /\ at' = [at EXCEPT ![w] = @ - 1]
    /\ about' = [about EXCEPT ![w] = "remade"]
    /\ UNCHANGED <<registry, jail, shared, job, target, alone, clashed, port, seen, upsets>>

(* The three unique indexes over the active rows.                           *)
IndexesAllow(d, p) ==
    \A r \in rows : r.domain # d /\ SlugOf[r.domain] # SlugOf[d] /\ r.port # p

(* The restored tenant's row leaves waf_container blank.                     *)
WalledAfter(w) == walled \cup (IF Restoring(w) THEN {} ELSE {target[w]})

(* Mutant: the row takes a port allocated afresh at the time of the insert. *)
Register_AllocatesAgain(w) ==
    /\ Creating(w, "register")
    /\ \E p \in SshPorts :
          /\ LowestFree(p)
          /\ IndexesAllow(target[w], p)
          /\ rows' = rows \cup {[domain |-> target[w], port |-> p]}
    /\ walled' = WalledAfter(w)
    /\ Advance(w)
    /\ UNCHANGED <<dismantling, host, shared, port, seen, upsets>>

Register(w) ==
    /\ Creating(w, "register")
    /\ IndexesAllow(target[w], port[w])
    /\ rows' = rows \cup {[domain |-> target[w], port |-> port[w]]}
    /\ walled' = WalledAfter(w)
    /\ Advance(w)
    /\ UNCHANGED <<dismantling, host, shared, port, seen, upsets>>

(* A restore returns here without a jail.                                    *)
InstallJail(w) ==
    /\ Creating(w, "jail_on")
    /\ jail' = [jail EXCEPT ![Slug(w)] = IF Restoring(w) THEN @ ELSE port[w]]
    /\ port' = [port EXCEPT ![w] = NoPort]
    /\ Advance(w)
    /\ UNCHANGED <<registry, res, bound, shared, seen, upsets>>

-----------------------------------------------------------------------------
(* destroy_tenant                                                           *)

RemoveJail(w) ==
    /\ Destroying(w, "jail_off")
    /\ jail' = [jail EXCEPT ![Slug(w)] = NoPort]
    /\ Advance(w)
    /\ UNCHANGED <<registry, res, bound, shared, port, seen, upsets>>

(* Docker refuses to remove a volume a container mounts and a network a     *)
(* container is connected to.                                               *)
InUse(s, r) ==
    \/ r \in Volumes /\ \E c \in Containers \cap res[s] : r \in Mounts[c]
    \/ r = "network" /\ {"db", "web", "tenant_admin"} \cap res[s] # {}

(* docker-py refuses to look up a container without a name: no NotFound, so  *)
(* destroy_tenant does not catch it.                                        *)
NamesNothing(w) == Destroying(w, "waf") /\ about[w] = "bare"

RemoveResource(w) ==
    /\ job[w] = "destroy" /\ Step(w) \in Resources
    /\ ~NamesNothing(w)
    /\ Step(w) \in res[Slug(w)] => ~InUse(Slug(w), Step(w))
    /\ res' = [res EXCEPT ![Slug(w)] = @ \ {Step(w)}]
    /\ bound' = IF Step(w) = "sftp" THEN [bound EXCEPT ![Slug(w)] = NoPort] ELSE bound
    /\ Advance(w)
    /\ UNCHANGED <<registry, jail, shared, port, seen, upsets>>

(* UPDATE ... WHERE domain = ?: whatever row is active now.                 *)
MarkDestroyed(w) ==
    /\ Destroying(w, "unregister")
    /\ rows' = {r \in rows : r.domain # target[w]}
    /\ walled' = walled \ {target[w]}
    /\ dismantling' = dismantling \ {target[w]}
    /\ Advance(w)
    /\ UNCHANGED <<host, shared, port, seen, upsets>>

-----------------------------------------------------------------------------
(* The derived tables: read the list of tenants, later write what was read. *)

ListTenants(w) ==
    /\ Busy(w) /\ Step(w) \in {"list_routing", "list_maps", "list_webmail"}
    /\ seen' = [seen EXCEPT ![w] = Live]
    /\ Advance(w)
    /\ UNCHANGED <<registry, host, shared, port, upsets>>

WriteRoutingTable(w) ==
    /\ Busy(w) /\ Step(w) = "write_routing"
    /\ routing' = seen[w]
    /\ seen' = [seen EXCEPT ![w] = {}]
    /\ Advance(w)
    /\ UNCHANGED <<registry, host, mailmaps, relayed, webmail, port, upsets>>

(* Mutant: the maps are appended to instead of rebuilt.                      *)
WriteMailMaps_Appends(w) ==
    /\ Busy(w) /\ Step(w) = "write_maps"
    /\ mailmaps' = mailmaps \cup seen[w]
    /\ seen' = [seen EXCEPT ![w] = {}]
    /\ Advance(w)
    /\ UNCHANGED <<registry, host, routing, relayed, webmail, port, upsets>>

WriteMailMaps(w) ==
    /\ Busy(w) /\ Step(w) = "write_maps"
    /\ mailmaps' = seen[w]
    /\ seen' = [seen EXCEPT ![w] = {}]
    /\ Advance(w)
    /\ UNCHANGED <<registry, host, routing, relayed, webmail, port, upsets>>

DropWebmail(w) ==
    /\ Busy(w) /\ Step(w) = "drop_webmail"
    /\ webmail' = {}
    /\ Advance(w)
    /\ UNCHANGED <<registry, host, routing, mailmaps, relayed, port, seen, upsets>>

RunWebmail(w) ==
    /\ Busy(w) /\ Step(w) = "run_webmail"
    /\ webmail = {}
    /\ webmail' = {seen[w]}
    /\ seen' = [seen EXCEPT ![w] = {}]
    /\ Advance(w)
    /\ UNCHANGED <<registry, host, routing, mailmaps, relayed, port, upsets>>

(* postmap and `postfix reload` come last, after the Roundcube container.     *)
LoadMailMaps(w) ==
    /\ Busy(w) /\ Step(w) = "load_maps"
    /\ relayed' = mailmaps
    /\ Advance(w)
    /\ UNCHANGED <<registry, host, routing, mailmaps, webmail, port, seen, upsets>>

-----------------------------------------------------------------------------
(* A step the registry or Docker refuses.  No handler: the exception leaves *)
(* create_tenant or destroy_tenant and everything done so far stays done.   *)
IsRefused(w) ==
    LET s == Step(w)
        have == res[Slug(w)]
    IN \/ s = "allocate" /\ FreePorts = {}
       \/ /\ job[w] = "create" /\ ~PassesOver(w)
          /\ s \in Containers \cup {"network"} /\ s \in have
       \/ /\ job[w] = "create" /\ ~PassesOver(w)
          /\ s \in Containers /\ ~(Requires[s] \subseteq have)
       \/ s = "register" /\ ~IndexesAllow(target[w], port[w])
       \/ job[w] = "destroy" /\ s \in have /\ InUse(Slug(w), s)
       \/ NamesNothing(w)
       \/ s = "run_webmail" /\ webmail # {}

Refused(w) ==
    /\ Busy(w)
    /\ IsRefused(w)
    /\ Raise(w)
    /\ UNCHANGED <<registry, host, shared, upsets>>

-----------------------------------------------------------------------------
CreateStep(w) ==
    \/ AllocatePort(w) \/ EnsureVolume(w) \/ CreateNetwork(w)
    \/ RunContainer(w) \/ RunRaises(w) \/ PassOver(w) \/ RemakeSftp(w)
    \/ Register(w) \/ InstallJail(w)

DestroyStep(w) == RemoveJail(w) \/ RemoveResource(w) \/ MarkDestroyed(w)

RefreshStep(w) ==
    \/ ListTenants(w) \/ WriteRoutingTable(w) \/ WriteMailMaps(w)
    \/ DropWebmail(w) \/ RunWebmail(w) \/ LoadMailMaps(w)

Progress(w) == CreateStep(w) \/ DestroyStep(w) \/ RefreshStep(w) \/ Refused(w)

Next ==
    \E w \in Workers :
        \/ \E d \in Domains : Begin(w, d)
        \/ Progress(w)
        \/ Abort(w)

Spec == Init /\ [][Next]_vars

(* A worker that was not killed goes on with its straight-line program.     *)
FairSpec == Spec /\ \A w \in Workers : WF_vars(Progress(w))

-----------------------------------------------------------------------------
(* The types of the registry, the host tables and the workers' local state  *)
(* (registry.py:20-91, provisioner.py:1275-1502).                            *)
TypeOK ==
    /\ rows \in SUBSET [domain : Domains, port : SshPorts]
    /\ walled \in SUBSET Domains
    /\ res \in [Slugs -> SUBSET Resources]
    /\ bound \in [Slugs -> SshPorts \cup {NoPort}]
    /\ jail \in [Slugs -> SshPorts \cup {NoPort}]
    /\ routing \in SUBSET Domains /\ mailmaps \in SUBSET Domains
    /\ relayed \in SUBSET Domains
    /\ webmail \in SUBSET SUBSET Domains
    /\ job \in [Workers -> {"idle", "create", "destroy"}]
    /\ target \in [Workers -> Domains \cup {NoDomain}]
    /\ about \in [Workers -> Tale]
    /\ at \in [Workers -> Nat]
    /\ \A w \in Workers : /\ Busy(w) => target[w] \in Domains
                          /\ Busy(w) => at[w] \in 1..Len(Program[job[w]])
    /\ port \in [Workers -> SshPorts \cup {NoPort}]
    /\ seen \in [Workers -> SUBSET Domains]
    /\ dismantling \in SUBSET Domains
    /\ clashed \in SUBSET Slugs
    /\ alone \in SUBSET Workers
    /\ upsets \in 0..MaxUpsets

(* A live tenant is whole: every container, volume, directory and network    *)
(* of it exists unless a destroy of it has begun; only a restored one has no *)
(* WAF container, and its row names none (backup.py:1118-1133).  That is so  *)
(* until two operations on its own slug overlap, whatever overlaps or dies   *)
(* on others.                                                               *)
LiveIsWhole ==
    \A d \in Live \ dismantling : SlugOf[d] \notin clashed =>
        Resources \ (IF d \in walled THEN {} ELSE {"waf"}) \subseteq res[SlugOf[d]]

(* Slugs that two domains here share, and those that operations clashed on. *)
Shared == {s \in Slugs : \E d, e \in Domains : d # e /\ SlugOf[d] = s /\ SlugOf[e] = s}
Disowned == clashed \cup Shared

(* The port a live tenant's row promises is the one its SFTP container       *)
(* publishes and the only one its fail2ban jail can be watching, while it is *)
(* alone on its slug and no two operations on it ever overlapped.            *)
PortsAgree ==
    \A r \in rows : SlugOf[r.domain] \notin Disowned =>
        /\ "sftp" \in res[SlugOf[r.domain]] => bound[SlugOf[r.domain]] = r.port
        /\ jail[SlugOf[r.domain]] \in {r.port, NoPort}

(* A jail never watches a port that its tenant does not hold: the port that a *)
(* destroyed tenant sets free may go to the next one, so no operation that    *)
(* died, failed at the index or was repeated leaves a jail behind on it       *)
(* (provisioner.py:1377-1399).  It is installed long after the row and taken  *)
(* away first of all; two operations that overlap on the slug may undo that.  *)
JailsAreLive ==
    \A s \in Slugs \ clashed : jail[s] # NoPort =>
        \E r \in rows : SlugOf[r.domain] = s /\ jail[s] = r.port

(* The row outlives the resources: destroy_tenant never marks a tenant       *)
(* destroyed while anything of it is left, so a destroy that was cut short    *)
(* can always be repeated and create_tenant never builds on leftovers of a    *)
(* destroyed tenant; two overlapping operations on that slug may spoil this.  *)
RowOutlivesResources ==
    [][\A d \in Domains :
          d \in Live /\ d \notin Live' /\ SlugOf[d] \notin clashed =>
              res[SlugOf[d]] = {} /\ jail[SlugOf[d]] = NoPort]_vars

Directory == INSTANCE TenantDirectory WITH
    Names <- Slugs,
    Parts <- Resources,
    Optional <- {"waf"},
    Remade <- {"sftp"},
    live <- {SlugOf[d] : d \in Live},
    parts <- res,
    disowned <- Disowned

(* The same promise from outside: seen through the rows and the resources,   *)
(* create_tenant, _restore_as_new_tenant and destroy_tenant are the abstract  *)
(* directory of tenants, whatever overlaps and dies: what two operations do   *)
(* to one tenant touches no other (provisioner.py:1275-1502,                  *)
(* backup.py:1027-1138).                                                     *)
ImplementsDirectory == Directory!Spec

(* Docker never refuses a step of a destroy, first try or repeat: whatever    *)
(* mounts a volume or sits on the network is gone before it is removed.  A   *)
(* restored tenant's destroy ends at the WAF container its row does not name *)
(* (provisioner.py:1401-1404), and a second operation on the slug may put     *)
(* back what this one removed.                                               *)
DestroyNeverRefused ==
    \A w \in Workers :
        job[w] = "destroy" /\ Step(w) \in Resources /\ Slug(w) \notin clashed =>
            ~IsRefused(w) \/ NamesNothing(w)

Completes(w) ==
    /\ Busy(w) /\ at[w] = Len(Program[job[w]]) /\ ~IsRefused(w)
    /\ at'[w] = 0 /\ upsets' = upsets

(* An operation that runs to its end and that no other overlapped leaves every *)
(* derived table naming exactly the live tenants, whatever state operations   *)
(* that overlapped or died before it left the tables in                       *)
(* (provisioner.py:1117-1273).                                               *)
TablesFollowRegistry ==
    [][\A w \in alone : Completes(w) =>
          /\ routing' = Live' /\ mailmaps' = Live' /\ relayed' = Live'
          /\ webmail' = {Live'}]_vars
=============================================================================

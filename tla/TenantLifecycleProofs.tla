----------------------- MODULE TenantLifecycleProofs -----------------------
(***************************************************************************)
(* What TLAPS proves about TenantLifecycle for every set of domains, every *)
(* slug function, every port range and any number of workers.              *)
(***************************************************************************)
EXTENDS TenantLifecycle, Integers, TLAPS

-----------------------------------------------------------------------------
(* The two programs, step by step.                                          *)

(* create_tenant has 25 steps; the row is inserted by the 16th.             *)
LEMMA CreateTable ==
    /\ Len(CreateProgram) = 25
    /\ CreateProgram[1] = "allocate"
    /\ CreateProgram[2] = "webroot"
    /\ CreateProgram[3] = "network"
    /\ CreateProgram[4] = "db_volume"
    /\ CreateProgram[5] = "db"
    /\ CreateProgram[6] = "phpconf"
    /\ CreateProgram[7] = "logs"
    /\ CreateProgram[8] = "web"
    /\ CreateProgram[9] = "waf"
    /\ CreateProgram[10] = "ssh_keys"
    /\ CreateProgram[11] = "sftp"
    /\ CreateProgram[12] = "mail_volume"
    /\ CreateProgram[13] = "dkim"
    /\ CreateProgram[14] = "mail"
    /\ CreateProgram[15] = "tenant_admin"
    /\ CreateProgram[16] = "register"
    /\ CreateProgram[17] = "list_routing"
    /\ CreateProgram[18] = "write_routing"
    /\ CreateProgram[19] = "list_maps"
    /\ CreateProgram[20] = "write_maps"
    /\ CreateProgram[21] = "drop_webmail"
    /\ CreateProgram[22] = "list_webmail"
    /\ CreateProgram[23] = "run_webmail"
    /\ CreateProgram[24] = "load_maps"
    /\ CreateProgram[25] = "jail_on"
  BY DEF CreateProgram, BuildPlan, RefreshPlan

(* destroy_tenant has 25 steps; the row is marked destroyed by the 17th.    *)
LEMMA DestroyTable ==
    /\ Len(DestroyProgram) = 25
    /\ DestroyProgram[1] = "jail_off"
    /\ DestroyProgram[2] = "waf"
    /\ DestroyProgram[3] = "web"
    /\ DestroyProgram[4] = "sftp"
    /\ DestroyProgram[5] = "db"
    /\ DestroyProgram[6] = "mail"
    /\ DestroyProgram[7] = "tenant_admin"
    /\ DestroyProgram[8] = "webroot"
    /\ DestroyProgram[9] = "db_volume"
    /\ DestroyProgram[10] = "ssh_keys"
    /\ DestroyProgram[11] = "mail_volume"
    /\ DestroyProgram[12] = "phpconf"
    /\ DestroyProgram[13] = "logs"
    /\ DestroyProgram[14] = "dkim"
    /\ DestroyProgram[15] = "host_dirs"
    /\ DestroyProgram[16] = "network"
    /\ DestroyProgram[17] = "unregister"
    /\ DestroyProgram[18] = "list_routing"
    /\ DestroyProgram[19] = "write_routing"
    /\ DestroyProgram[20] = "list_maps"
    /\ DestroyProgram[21] = "write_maps"
    /\ DestroyProgram[22] = "drop_webmail"
    /\ DestroyProgram[23] = "list_webmail"
    /\ DestroyProgram[24] = "run_webmail"
    /\ DestroyProgram[25] = "load_maps"
  BY DEF DestroyProgram, TearDownPlan, RefreshPlan

-----------------------------------------------------------------------------
(* Type correctness.                                                        *)

(* Both programs are 25 steps long.                                          *)
LEMMA ProgramTable ==
    /\ Program["create"] = CreateProgram
    /\ Program["destroy"] = DestroyProgram
    /\ Len(Program["create"]) = 25
    /\ Len(Program["destroy"]) = 25
  BY CreateTable, DestroyTable DEF Program

(* The part of TypeOK that only says where each worker is.                  *)
ControlOK ==
    /\ job \in [Workers -> {"idle", "create", "destroy"}]
    /\ target \in [Workers -> Domains \cup {NoDomain}]
    /\ about \in [Workers -> Tale]
    /\ at \in [Workers -> Nat]
    /\ alone \in SUBSET Workers
    /\ clashed \in SUBSET Slugs
    /\ \A w \in Workers : Busy(w) => target[w] \in Domains /\ at[w] \in 1..25

(* A busy worker's next step, read off the program it runs.                  *)
LEMMA StepTable ==
    ASSUME ControlOK, NEW w \in Workers, Busy(w)
    PROVE  /\ Len(Program[job[w]]) = 25
           /\ at[w] \in 1..25
           /\ job[w] = "create" => Step(w) = CreateProgram[at[w]]
           /\ job[w] = "destroy" => Step(w) = DestroyProgram[at[w]]
  <1>1. job[w] = "create" \/ job[w] = "destroy"
    BY DEF ControlOK, Busy
  <1>2. Len(Program[job[w]]) = 25
    BY <1>1, ProgramTable
  <1> QED
    BY <1>1, <1>2, ProgramTable DEF ControlOK, Step

(* Starting an operation puts a worker at step 1 of it.                      *)
LEMMA StartControl ==
    ASSUME ControlOK, NEW w \in Workers, NEW kind \in {"create", "destroy"},
           NEW d \in Domains, NEW tale \in Tale, Start(w, kind, d, tale)
    PROVE  ControlOK'
  BY DEF ControlOK, Start, Busy, Slugs

(* Stopping, by finishing or by an exception, makes a worker idle.           *)
LEMMA StopControl ==
    ASSUME ControlOK, NEW w \in Workers, Stop(w)
    PROVE  ControlOK'
  BY DEF ControlOK, Stop, Busy, Tale

(* Going on never runs past the end of a program.                            *)
LEMMA AdvanceControl ==
    ASSUME ControlOK, NEW w \in Workers, Busy(w), Advance(w)
    PROVE  ControlOK'
  <1>1. Len(Program[job[w]]) = 25 /\ at[w] \in 1..25
    BY StepTable
  <1>2. CASE at[w] = 25
    BY <1>1, <1>2, StopControl DEF Advance
  <1>3. CASE at[w] # 25
    BY <1>1, <1>3 DEF ControlOK, Advance, Busy
  <1> QED
    BY <1>2, <1>3

(* Volumes and containers are resources, and containers mount only volumes.  *)
LEMMA ResourceKinds ==
    /\ Volumes \subseteq Resources
    /\ Containers \subseteq Resources
    /\ \A c \in Containers : Mounts[c] \subseteq Volumes
  BY DEF Resources, Volumes, Containers, Mounts, DbMounts, WebMounts,
         SftpMounts, MailMounts, TenantAdminMounts, WafMounts

(* The rest of TypeOK.                                                       *)
DataOK ==
    /\ rows \in SUBSET [domain : Domains, port : SshPorts]
    /\ walled \in SUBSET Domains
    /\ res \in [Slugs -> SUBSET Resources]
    /\ bound \in [Slugs -> SshPorts \cup {NoPort}]
    /\ jail \in [Slugs -> SshPorts \cup {NoPort}]
    /\ routing \in SUBSET Domains /\ mailmaps \in SUBSET Domains
    /\ relayed \in SUBSET Domains
    /\ webmail \in SUBSET SUBSET Domains
    /\ port \in [Workers -> SshPorts \cup {NoPort}]
    /\ seen \in [Workers -> SUBSET Domains]
    /\ dismantling \in SUBSET Domains
    /\ upsets \in 0..MaxUpsets

(* A worker creating a tenant holds a port from the second step on: the row  *)
(* it inserts is well-typed.                                                 *)
HoldsPort ==
    \A w \in Workers : job[w] = "create" /\ at[w] > 1 => port[w] \in SshPorts

TypeInv == ControlOK /\ DataOK /\ HoldsPort

(* The parts together say what TypeOK says.                                  *)
LEMMA TypeInvImpliesTypeOK == TypeInv => TypeOK
  <1> SUFFICES ASSUME TypeInv PROVE TypeOK
    OBVIOUS
  <1>1. ASSUME NEW w \in Workers, Busy(w)
        PROVE  at[w] \in 1..Len(Program[job[w]])
    BY <1>1, StepTable DEF TypeInv
  <1> QED
    BY <1>1 DEF TypeInv, ControlOK, DataOK, TypeOK

(* The empty host is well-typed.                                             *)
LEMMA InitTypes == Init => TypeInv
  BY ConstantsAssumption
     DEF Init, TypeInv, ControlOK, DataOK, HoldsPort, Busy, Slugs, Tale

(* Making the SFTP container again goes back one step, from 12 to 11.        *)
LEMMA RemakeControl ==
    ASSUME ControlOK, NEW w \in Workers, RemakeSftp(w)
    PROVE  ControlOK' /\ job[w] = "create" /\ at[w] = 12
  <1>1. Busy(w) /\ job[w] = "create" /\ Step(w) = "mail_volume"
    BY DEF RemakeSftp, Creating, Busy
  <1>2. at[w] = 12
    BY <1>1, StepTable, CreateTable
  <1> QED
    BY <1>1, <1>2 DEF RemakeSftp, ControlOK, Busy, Tale

(* Every action moves one worker, by Start, Advance, Stop or back, or none.  *)
LEMMA NextControl == ControlOK /\ [Next]_vars => ControlOK'
  <1> SUFFICES ASSUME ControlOK, [Next]_vars PROVE ControlOK'
    OBVIOUS
  <1>1. CASE UNCHANGED vars
    BY <1>1 DEF ControlOK, vars, Busy
  <1>2. ASSUME NEW w \in Workers, NEW d \in Domains,
               Begin(w, d)
        PROVE  ControlOK'
    BY <1>2, StartControl
       DEF Begin, BeginCreate, BeginRestore, BeginDestroy, Tale
  <1>3. ASSUME NEW w \in Workers, CreateStep(w)
        PROVE  ControlOK'
    <2>1. Busy(w) /\ (Advance(w) \/ Stop(w) \/ RemakeSftp(w))
      BY <1>3 DEF CreateStep, AllocatePort, EnsureVolume, CreateNetwork,
                  RunContainer, RunRaises, MayRun, PassOver, PassesOver,
                  RemakeSftp, Register, InstallJail, Creating, Busy, Raise
    <2> QED
      BY <2>1, AdvanceControl, StopControl, RemakeControl
  <1>4. ASSUME NEW w \in Workers, DestroyStep(w)
        PROVE  ControlOK'
    <2>1. Busy(w) /\ Advance(w)
      BY <1>4 DEF DestroyStep, RemoveJail, RemoveResource, MarkDestroyed,
                  Destroying, Busy
    <2> QED
      BY <2>1, AdvanceControl
  <1>5. ASSUME NEW w \in Workers, RefreshStep(w)
        PROVE  ControlOK'
    <2>1. Busy(w) /\ Advance(w)
      BY <1>5 DEF RefreshStep, ListTenants, WriteRoutingTable, WriteMailMaps,
                  DropWebmail, RunWebmail, LoadMailMaps
    <2> QED
      BY <2>1, AdvanceControl
  <1>6. ASSUME NEW w \in Workers, Refused(w) \/ Abort(w)
        PROVE  ControlOK'
    BY <1>6, StopControl DEF Refused, Abort, Raise
  <1> QED
    BY <1>1, <1>2, <1>3, <1>4, <1>5, <1>6 DEF Next, Progress

(* Slug(w) is the slug of a domain whenever the worker is at work.           *)
LEMMA SlugType ==
    ASSUME ControlOK, NEW w \in Workers, Busy(w)
    PROVE  Slug(w) \in Slugs
  BY DEF ControlOK, Slug, Slugs

(* No step of create_tenant breaks the types.                                *)
LEMMA CreateTypes ==
    ASSUME TypeInv, NEW w \in Workers, CreateStep(w)
    PROVE  DataOK'
  <1> USE DEF TypeInv, DataOK, registry, host, shared
  <1>0. Busy(w) /\ job[w] = "create"
    BY DEF CreateStep, AllocatePort, EnsureVolume, CreateNetwork, RunContainer,
           RunRaises, MayRun, PassOver, PassesOver, RemakeSftp, Register,
           InstallJail, Creating, Busy
  <1>s. Slug(w) \in Slugs /\ target[w] \in Domains
    BY <1>0, SlugType DEF ControlOK
  <1>p. at[w] > 1 => port[w] \in SshPorts
    BY <1>0 DEF HoldsPort
  <1>t. Step(w) = CreateProgram[at[w]] /\ at[w] \in 1..25
    BY <1>0, StepTable
  <1>1. CASE AllocatePort(w)
    BY <1>1 DEF AllocatePort, FreePorts
  <1>2. CASE EnsureVolume(w)
    BY <1>2, <1>s DEF EnsureVolume, Resources
  <1>3. CASE CreateNetwork(w)
    BY <1>3, <1>s DEF CreateNetwork, Resources
  <1>4. CASE RunContainer(w)
    <2>1. Step(w) \in Containers
      BY <1>4 DEF RunContainer, MayRun
    <2>2. {Step(w)} \cup Mounts[Step(w)] \subseteq Resources
      BY <2>1, ResourceKinds
    <2>3. res' \in [Slugs -> SUBSET Resources]
      BY <1>4, <1>s, <2>2 DEF RunContainer, AddContainer
    <2> QED
      BY <1>4, <1>s, <2>3 DEF RunContainer
  <1>5. CASE RunRaises(w)
    <2>1. Step(w) \in Containers
      BY <1>5 DEF RunRaises, MayRun
    <2>2. {Step(w)} \cup Mounts[Step(w)] \subseteq Resources
      BY <2>1, ResourceKinds
    <2>3. res' \in [Slugs -> SUBSET Resources]
      BY <1>5, <1>s, <2>2 DEF RunRaises, AddContainer
    <2> QED
      BY <1>5, <2>3 DEF RunRaises, Raise
  <1>6. CASE Register(w)
    <2>1. at[w] > 1
      BY <1>6, <1>t, CreateTable DEF Register, Creating
    <2> QED
      BY <1>6, <1>s, <1>p, <2>1 DEF Register, WalledAfter
  <1>7. CASE InstallJail(w)
    BY <1>7, <1>s, <1>t, <1>p, CreateTable DEF InstallJail, Creating
  <1>8. CASE PassOver(w)
    BY <1>8 DEF PassOver
  <1>9. CASE RemakeSftp(w)
    BY <1>9, <1>s DEF RemakeSftp
  <1> QED
    BY <1>1, <1>2, <1>3, <1>4, <1>5, <1>6, <1>7, <1>8, <1>9 DEF CreateStep

(* No step of destroy_tenant, no refresh and no failure breaks the types.    *)
LEMMA OtherTypes ==
    ASSUME TypeInv, NEW w \in Workers,
           DestroyStep(w) \/ RefreshStep(w) \/ Refused(w) \/ Abort(w)
    PROVE  DataOK'
  <1> USE DEF TypeInv, DataOK, registry, host, shared
  <1>0. Busy(w)
    BY DEF DestroyStep, RemoveJail, RemoveResource, MarkDestroyed, Destroying,
           RefreshStep, ListTenants, WriteRoutingTable, WriteMailMaps,
           DropWebmail, RunWebmail, LoadMailMaps, Refused, Abort, Busy
  <1>s. Slug(w) \in Slugs
    BY <1>0, SlugType
  <1>1. CASE RemoveJail(w)
    BY <1>1, <1>s DEF RemoveJail
  <1>2. CASE RemoveResource(w)
    BY <1>2, <1>s DEF RemoveResource
  <1>3. CASE MarkDestroyed(w)
    BY <1>3 DEF MarkDestroyed
  <1>4. CASE RefreshStep(w)
    BY <1>4 DEF RefreshStep, ListTenants, WriteRoutingTable, WriteMailMaps,
                DropWebmail, RunWebmail, LoadMailMaps, Live
  <1>5. CASE Refused(w)
    BY <1>5 DEF Refused, Raise
  <1>6. CASE Abort(w)
    BY <1>6, ConstantsAssumption DEF Abort, Raise
  <1> QED
    BY <1>1, <1>2, <1>3, <1>4, <1>5, <1>6 DEF DestroyStep

(* Only AllocatePort, at step 1, brings a worker to a step past the first   *)
(* without a port, and it sets the port.                                    *)
LEMMA NextHoldsPort == TypeInv /\ [Next]_vars => HoldsPort'
  <1> SUFFICES ASSUME TypeInv, [Next]_vars,
                      NEW v \in Workers, job'[v] = "create", at'[v] > 1
               PROVE  port'[v] \in SshPorts
    BY DEF HoldsPort
  <1> USE DEF TypeInv, DataOK, ControlOK
  <1>1. CASE UNCHANGED vars
    BY <1>1 DEF vars, HoldsPort
  <1>2. ASSUME NEW w \in Workers, NEW d \in Domains,
               Begin(w, d)
        PROVE  port'[v] \in SshPorts
    BY <1>2 DEF Begin, BeginCreate, BeginRestore, BeginDestroy, Start, HoldsPort
  <1>3. ASSUME NEW w \in Workers, AllocatePort(w)
        PROVE  port'[v] \in SshPorts
    BY <1>3 DEF AllocatePort, FreePorts, Creating, Advance, Stop, HoldsPort
  <1>4. ASSUME NEW w \in Workers, UNCHANGED port, Busy(w), Advance(w),
               job[w] = "create" => at[w] > 1
        PROVE  port'[v] \in SshPorts
    BY <1>4 DEF Advance, Stop, HoldsPort
  <1>5. ASSUME NEW w \in Workers,
               \/ EnsureVolume(w) \/ CreateNetwork(w) \/ RunContainer(w)
               \/ PassOver(w) \/ Register(w)
        PROVE  port'[v] \in SshPorts
    <2>1. Busy(w) /\ Advance(w) /\ UNCHANGED port /\ Step(w) # "allocate"
      BY <1>5 DEF EnsureVolume, CreateNetwork, RunContainer, MayRun, PassOver,
                  PassesOver, Register, Creating, Busy, Volumes, Containers
    <2>2. job[w] = "create" => at[w] > 1
      BY <2>1, StepTable, CreateTable
    <2> QED
      BY <2>1, <2>2, <1>4
  <1>6. ASSUME NEW w \in Workers, Raise(w)
        PROVE  port'[v] \in SshPorts
    BY <1>6 DEF Raise, Stop, HoldsPort
  <1>7. ASSUME NEW w \in Workers, InstallJail(w)
        PROVE  port'[v] \in SshPorts
    <2>1. Busy(w) /\ Step(w) = "jail_on" /\ job[w] = "create"
      BY <1>7 DEF InstallJail, Creating, Busy
    <2>2. at[w] = 25 /\ Len(Program[job[w]]) = 25
      BY <2>1, StepTable, CreateTable
    <2> QED
      BY <1>7, <2>2 DEF InstallJail, Advance, Stop, HoldsPort
  <1>8. ASSUME NEW w \in Workers, DestroyStep(w) \/ RefreshStep(w)
        PROVE  port'[v] \in SshPorts
    <2>1. Busy(w) /\ Advance(w) /\ UNCHANGED port
      BY <1>8 DEF DestroyStep, RemoveJail, RemoveResource, MarkDestroyed,
                  Destroying, RefreshStep, ListTenants, WriteRoutingTable,
                  WriteMailMaps, DropWebmail, RunWebmail, LoadMailMaps, Busy
    <2>2. job[w] = "create" => Step(w) # "allocate"
      BY <1>8 DEF DestroyStep, RemoveJail, RemoveResource, MarkDestroyed,
                  Destroying, RefreshStep, ListTenants, WriteRoutingTable,
                  WriteMailMaps, DropWebmail, RunWebmail, LoadMailMaps
    <2>3. job[w] = "create" => at[w] > 1
      BY <2>1, <2>2, StepTable, CreateTable
    <2> QED
      BY <2>1, <2>3, <1>4
  <1>9. ASSUME NEW w \in Workers, RemakeSftp(w)
        PROVE  port'[v] \in SshPorts
    <2>1. job[w] = "create" /\ at[w] = 12 /\ UNCHANGED <<port, job>>
      BY <1>9, RemakeControl DEF RemakeSftp
    <2> QED
      BY <1>9, <2>1 DEF RemakeSftp, HoldsPort
  <1> QED
    BY <1>1, <1>2, <1>3, <1>5, <1>6, <1>7, <1>8, <1>9
       DEF Next, Progress, CreateStep, RunRaises, Refused, Abort

(* The types are inductive.                                                  *)
LEMMA TypeStep == TypeInv /\ [Next]_vars => TypeInv'
  <1> SUFFICES ASSUME TypeInv, [Next]_vars PROVE DataOK'
    BY NextControl, NextHoldsPort DEF TypeInv
  <1>1. CASE UNCHANGED vars
    BY <1>1 DEF vars, TypeInv, DataOK
  <1>2. ASSUME NEW w \in Workers, NEW d \in Domains,
               Begin(w, d)
        PROVE  DataOK'
    BY <1>2, ConstantsAssumption
       DEF Begin, BeginCreate, BeginRestore, BeginDestroy, Start, TypeInv, DataOK,
           registry, host, shared
  <1> QED
    BY <1>1, <1>2, CreateTypes, OtherTypes DEF Next, Progress

(* Whatever the constants, the state keeps its type: in particular a row     *)
(* always carries a port of SSH_PORT_RANGE (create_tenant, destroy_tenant).  *)
THEOREM TypeCorrect == Spec => []TypeOK
  BY InitTypes, TypeStep, TypeInvImpliesTypeOK, PTL DEF Spec

-----------------------------------------------------------------------------
(* The inductive invariant.  It speaks of the slugs on which no two          *)
(* operations ever overlapped, and holds whatever happens on the others.     *)

OneJobPerSlug ==
    \A v, w \in Workers :
        v # w /\ Busy(v) /\ Busy(w) /\ Slug(v) = Slug(w) => Slug(w) \in clashed

(* Until its row is inserted a tenant under construction is not live, and    *)
(* everything its earlier steps made is still there, which a restore's WAF   *)
(* container never is; once it has made the network, no whole tenant has its *)
(* slug.  Afterwards the row carries the worker's port.                      *)
BuildsUp ==
    \A w \in Workers : job[w] = "create" /\ Slug(w) \notin clashed =>
        /\ at[w] <= 16 =>
              /\ target[w] \notin Live
              /\ \A i \in 2..15 : i < at[w] /\ ~(i = 9 /\ Restoring(w)) =>
                    CreateProgram[i] \in res[Slug(w)]
              /\ at[w] > 2 => "host_dirs" \in res[Slug(w)]
              /\ at[w] > 3 => \A d \in Live \ dismantling : SlugOf[d] # Slug(w)
        /\ at[w] > 16 => [domain |-> target[w], port |-> port[w]] \in rows

(* Until its row is marked destroyed a tenant being destroyed is live, and   *)
(* nothing its earlier steps removed has come back.                          *)
TearsDown ==
    \A w \in Workers : job[w] = "destroy" /\ Slug(w) \notin clashed /\ at[w] <= 17 =>
        /\ target[w] \in Live /\ target[w] \in dismantling
        /\ at[w] > 1 => jail[Slug(w)] = NoPort
        /\ \A i \in 2..16 : i < at[w] => DestroyProgram[i] \notin res[Slug(w)]

(* What the unique indexes of the active rows keep.                          *)
RegistryUnique ==
    \A r, q \in rows :
        r # q => /\ r.domain # q.domain
                 /\ SlugOf[r.domain] # SlugOf[q.domain]
                 /\ r.port # q.port

(* Only a live tenant's row names a WAF container.                           *)
WalledAreLive == walled \subseteq Live

IInv ==
    /\ TypeInv
    /\ RegistryUnique
    /\ WalledAreLive
    /\ OneJobPerSlug
    /\ BuildsUp
    /\ TearsDown
    /\ JailsAreLive
    /\ LiveIsWhole

-----------------------------------------------------------------------------
(* The registry alone: no assumption on who runs what when.                  *)

(* Only add_tenant and mark_destroyed change the set of active rows.         *)
LEMMA RowsChange ==
    ASSUME [Next]_vars, rows' # rows \/ walled' # walled
    PROVE  \E w \in Workers : Register(w) \/ MarkDestroyed(w)
  BY DEF Next, vars, registry, Begin, BeginCreate, BeginRestore, BeginDestroy,
         Progress, CreateStep, AllocatePort, EnsureVolume, CreateNetwork,
         RunContainer, RunRaises, PassOver, RemakeSftp, InstallJail, DestroyStep,
         RemoveJail, RemoveResource, RefreshStep, ListTenants, WriteRoutingTable,
         WriteMailMaps, DropWebmail, RunWebmail, LoadMailMaps, Refused, Abort

(* The three unique indexes are inductive.                                   *)
LEMMA UniqueStep == RegistryUnique /\ [Next]_vars => RegistryUnique'
  <1> SUFFICES ASSUME RegistryUnique, [Next]_vars, rows' # rows
               PROVE  RegistryUnique'
    BY DEF RegistryUnique
  <1>1. PICK w \in Workers : Register(w) \/ MarkDestroyed(w)
    BY RowsChange
  <1>2. CASE Register(w)
    BY <1>2 DEF Register, IndexesAllow, RegistryUnique
  <1>3. CASE MarkDestroyed(w)
    BY <1>3 DEF MarkDestroyed, RegistryUnique
  <1> QED
    BY <1>1, <1>2, <1>3

(* WalledAreLive is inductive: both change in the same two statements.       *)
LEMMA WalledStep == WalledAreLive /\ [Next]_vars => WalledAreLive'
  <1> SUFFICES ASSUME WalledAreLive, [Next]_vars PROVE WalledAreLive'
    OBVIOUS
  <1>1. CASE UNCHANGED <<rows, walled>>
    BY <1>1 DEF WalledAreLive, Live
  <1>2. ASSUME NEW w \in Workers, Register(w)
        PROVE  WalledAreLive'
    <2>1. \A d \in Live \cup {target[w]} : d \in Live'
      <3>1. [domain |-> target[w], port |-> port[w]] \in rows' /\ rows \subseteq rows'
        BY <1>2 DEF Register
      <3>2. target[w] \in Live'
        <4>1. [domain |-> target[w], port |-> port[w]].domain = target[w]
          OBVIOUS
        <4> QED
          BY <3>1, <4>1 DEF Live
      <3>3. Live \subseteq Live'
        BY <3>1 DEF Live
      <3> QED
        BY <3>2, <3>3
    <2> QED
      BY <1>2, <2>1 DEF Register, WalledAfter, WalledAreLive
  <1>3. ASSUME NEW w \in Workers, MarkDestroyed(w)
        PROVE  WalledAreLive'
    BY <1>3 DEF MarkDestroyed, WalledAreLive, Live
  <1> QED
    BY <1>1, <1>2, <1>3, RowsChange

-----------------------------------------------------------------------------
(* How a step moves its worker, and what it cannot do to the others.         *)

Moves(w) == Progress(w) \/ Abort(w)

(* Every step of an operation goes on to the next one or stops, but for the  *)
(* one that makes the SFTP container again.                                 *)
LEMMA MoverMoves ==
    ASSUME NEW w \in Workers, Moves(w)
    PROVE  Busy(w) /\ (Advance(w) \/ Stop(w) \/ RemakeSftp(w))
  BY DEF Moves, Progress, CreateStep, AllocatePort, EnsureVolume, CreateNetwork,
         RunContainer, RunRaises, MayRun, PassOver, PassesOver, RemakeSftp,
         Register, InstallJail, Creating,
         DestroyStep, RemoveJail, RemoveResource, MarkDestroyed, Destroying,
         RefreshStep, ListTenants, WriteRoutingTable, WriteMailMaps,
         DropWebmail, RunWebmail, LoadMailMaps, Refused, Abort, Raise, Busy

(* A step moves the worker that takes it one step on, or makes it idle, or   *)
(* goes back to running the SFTP container.                                 *)
LEMMA MoverControl ==
    ASSUME TypeInv, NEW w \in Workers, Moves(w)
    PROVE  /\ \A v \in Workers \ {w} :
                 /\ job'[v] = job[v] /\ target'[v] = target[v]
                 /\ at'[v] = at[v] /\ about'[v] = about[v]
           /\ clashed' = clashed
           /\ \/ job'[w] = "idle"
              \/ /\ job'[w] = job[w] /\ target'[w] = target[w]
                 /\ \/ /\ at'[w] = at[w] + 1 /\ at[w] \in 1..24
                       /\ about'[w] = about[w]
                    \/ /\ RemakeSftp(w) /\ job[w] = "create"
                       /\ at[w] = 12 /\ at'[w] = 11
  <1>1. Busy(w) /\ (Advance(w) \/ Stop(w) \/ RemakeSftp(w))
    BY MoverMoves
  <1>2. Len(Program[job[w]]) = 25 /\ at[w] \in 1..25
    BY <1>1, StepTable DEF TypeInv
  <1>3. CASE Stop(w)
    BY <1>3 DEF TypeInv, ControlOK, Stop
  <1>4. CASE Advance(w) /\ at[w] # 25
    BY <1>2, <1>4 DEF TypeInv, ControlOK, Advance
  <1>5. CASE RemakeSftp(w)
    <2>1. job[w] = "create" /\ at[w] = 12
      BY <1>5, RemakeControl DEF TypeInv
    <2> QED
      BY <1>5, <2>1 DEF RemakeSftp, TypeInv, ControlOK
  <1> QED
    BY <1>1, <1>2, <1>3, <1>4, <1>5 DEF Advance

(* Beginning beside an operation on the same slug marks the slug for good.   *)
LEMMA ClashesStay ==
    ASSUME TypeInv, [Next]_vars
    PROVE  clashed \subseteq clashed'
  <1>1. CASE UNCHANGED vars
    BY <1>1 DEF vars
  <1>2. ASSUME NEW w \in Workers, NEW d \in Domains,
               Begin(w, d)
        PROVE  clashed \subseteq clashed'
    BY <1>2 DEF Begin, BeginCreate, BeginRestore, BeginDestroy, Start
  <1> QED
    BY <1>1, <1>2, MoverControl DEF Next, Moves

(* So two operations are on one slug only when it is marked.                 *)
LEMMA OneJobStep ==
    ASSUME TypeInv, OneJobPerSlug, [Next]_vars
    PROVE  OneJobPerSlug'
  <1>1. CASE UNCHANGED vars
    BY <1>1 DEF vars, OneJobPerSlug, Busy, Slug
  <1>2. ASSUME NEW w \in Workers, NEW d \in Domains,
               Begin(w, d)
        PROVE  OneJobPerSlug'
    BY <1>2 DEF Begin, BeginCreate, BeginRestore, BeginDestroy, Start, Contended,
                TypeInv, ControlOK, OneJobPerSlug, Busy, Slug
  <1>3. ASSUME NEW w \in Workers, Moves(w)
        PROVE  OneJobPerSlug'
    <2>1. Busy(w)
      BY <1>3, MoverMoves
    <2> QED
      BY <1>3, <2>1, MoverControl DEF OneJobPerSlug, Busy, Slug
  <1> QED
    BY <1>1, <1>2, <1>3 DEF Next, Moves

(* The step of one worker leaves alone whatever belongs to another slug.     *)
LEMMA OtherSlugUntouched ==
    ASSUME TypeInv, NEW w \in Workers, Moves(w),
           NEW d \in Domains, SlugOf[d] # Slug(w)
    PROVE  /\ res'[SlugOf[d]] = res[SlugOf[d]]
           /\ bound'[SlugOf[d]] = bound[SlugOf[d]]
           /\ jail'[SlugOf[d]] = jail[SlugOf[d]]
           /\ \A p : [domain |-> d, port |-> p] \in rows'
                     <=> [domain |-> d, port |-> p] \in rows
           /\ d \in dismantling' <=> d \in dismantling
  <1> USE DEF registry, host, shared
  <1>0. Busy(w) /\ Slug(w) \in Slugs /\ SlugOf[d] \in Slugs
    BY MoverMoves, SlugType DEF TypeInv, Slugs
  <1>1. d # target[w]
    BY DEF Slug
  <1>2. CASE \/ AllocatePort(w) \/ PassOver(w) \/ RefreshStep(w)
             \/ Refused(w) \/ Abort(w)
    BY <1>2 DEF AllocatePort, PassOver, RefreshStep, ListTenants,
                WriteRoutingTable, WriteMailMaps, DropWebmail, RunWebmail,
                LoadMailMaps, Refused, Abort
  <1>3. CASE \/ EnsureVolume(w) \/ CreateNetwork(w) \/ RunContainer(w)
             \/ RunRaises(w) \/ RemakeSftp(w)
    BY <1>0, <1>3 DEF EnsureVolume, CreateNetwork, RunContainer, RunRaises,
                      RemakeSftp, AddContainer, TypeInv, DataOK
  <1>4. CASE Register(w)
    BY <1>1, <1>4 DEF Register
  <1>5. CASE InstallJail(w) \/ RemoveJail(w)
    BY <1>0, <1>5 DEF InstallJail, RemoveJail, TypeInv, DataOK
  <1>6. CASE RemoveResource(w)
    BY <1>0, <1>6 DEF RemoveResource, TypeInv, DataOK
  <1>7. CASE MarkDestroyed(w)
    BY <1>1, <1>7 DEF MarkDestroyed
  <1> QED
    BY <1>2, <1>3, <1>4, <1>5, <1>6, <1>7
       DEF Moves, Progress, CreateStep, DestroyStep

(* A domain is among the domains of a set of rows iff one of them is its.    *)
LEMMA DomainHasRow ==
    ASSUME NEW R \in SUBSET [domain : Domains, port : SshPorts], NEW d \in Domains
    PROVE  d \in {r.domain : r \in R}
              <=> \E p \in SshPorts : [domain |-> d, port |-> p] \in R
  <1>1. ASSUME NEW r \in R
        PROVE  r = [domain |-> r.domain, port |-> r.port] /\ r.port \in SshPorts
    OBVIOUS
  <1>2. ASSUME d \in {r.domain : r \in R}
        PROVE  \E p \in SshPorts : [domain |-> d, port |-> p] \in R
    <2>1. PICK r \in R : r.domain = d
      BY <1>2
    <2> QED
      BY <1>1, <2>1
  <1>3. ASSUME NEW p \in SshPorts, [domain |-> d, port |-> p] \in R
        PROVE  d \in {r.domain : r \in R}
    BY <1>3
  <1> QED
    BY <1>2, <1>3

(* ssh_port is a local variable: nobody else assigns it.                     *)
LEMMA OtherPortUntouched ==
    ASSUME TypeInv, NEW w \in Workers, Moves(w), NEW v \in Workers, v # w
    PROVE  port'[v] = port[v]
  BY DEF TypeInv, DataOK, Moves, Progress, CreateStep, AllocatePort,
         EnsureVolume, CreateNetwork, RunContainer, RunRaises, PassOver,
         RemakeSftp, Register, InstallJail, DestroyStep, RemoveJail,
         RemoveResource, MarkDestroyed,
         RefreshStep, ListTenants, WriteRoutingTable, WriteMailMaps,
         DropWebmail, RunWebmail, LoadMailMaps, Refused, Abort, Raise

(* Where the kinds of steps are in the two programs.                         *)
LEMMA CreateIndex ==
    ASSUME TypeInv, NEW w \in Workers, job[w] = "create"
    PROVE  /\ Step(w) \in Volumes \cup Containers \cup {"network"}
                 => at[w] \in 2..15
           /\ Step(w) = "allocate" => at[w] = 1
           /\ Step(w) = "network" => at[w] = 3
           /\ Step(w) = "waf" => at[w] = 9
           /\ Step(w) = "sftp" => at[w] = 11
           /\ Step(w) = "register" => at[w] = 16
           /\ Step(w) = "jail_on" => at[w] = 25
           /\ Step(w) \in {"list_routing", "write_routing", "list_maps",
                           "write_maps", "drop_webmail", "list_webmail",
                           "run_webmail", "load_maps"} => at[w] \in 17..24
  <1>1. Step(w) = CreateProgram[at[w]] /\ at[w] \in 1..25
    BY StepTable DEF TypeInv, Busy
  <1> QED
    BY <1>1, CreateTable DEF Volumes, Containers

(* The same for destroy_tenant.                                              *)
LEMMA DestroyIndex ==
    ASSUME TypeInv, NEW w \in Workers, job[w] = "destroy"
    PROVE  /\ Step(w) \in Resources => at[w] \in 2..16
           /\ Step(w) = "jail_off" => at[w] = 1
           /\ Step(w) = "unregister" => at[w] = 17
           /\ Step(w) \in {"list_routing", "write_routing", "list_maps",
                           "write_maps", "drop_webmail", "list_webmail",
                           "run_webmail", "load_maps"} => at[w] \in 18..25
  <1>1. Step(w) = DestroyProgram[at[w]] /\ at[w] \in 1..25
    BY StepTable DEF TypeInv, Busy
  <1> QED
    BY <1>1, DestroyTable DEF Resources, Volumes, Containers

(* A step makes no domain of another slug live, and retires none.            *)
LEMMA OtherLiveUntouched ==
    ASSUME TypeInv, TypeInv', NEW w \in Workers, Moves(w),
           NEW d \in Domains, SlugOf[d] # Slug(w)
    PROVE  d \in Live' <=> d \in Live
  <1>1. d \in Live' <=> \E p \in SshPorts : [domain |-> d, port |-> p] \in rows'
    BY DomainHasRow DEF TypeInv, DataOK, Live
  <1>2. d \in Live <=> \E p \in SshPorts : [domain |-> d, port |-> p] \in rows
    BY DomainHasRow DEF TypeInv, DataOK, Live
  <1> QED
    BY <1>1, <1>2, OtherSlugUntouched

-----------------------------------------------------------------------------
(* BuildsUp, step by step.                                                   *)

BuildsUpFor(w) ==
    job[w] = "create" /\ Slug(w) \notin clashed =>
        /\ at[w] <= 16 =>
              /\ target[w] \notin Live
              /\ \A i \in 2..15 : i < at[w] /\ ~(i = 9 /\ Restoring(w)) =>
                    CreateProgram[i] \in res[Slug(w)]
              /\ at[w] > 2 => "host_dirs" \in res[Slug(w)]
              /\ at[w] > 3 => \A d \in Live \ dismantling : SlugOf[d] # Slug(w)
        /\ at[w] > 16 => [domain |-> target[w], port |-> port[w]] \in rows

(* A step of one worker preserves BuildsUp for every other worker.           *)
LEMMA BuildsUpOther ==
    ASSUME TypeInv, TypeInv', OneJobPerSlug, BuildsUp,
           NEW w \in Workers, Moves(w), NEW v \in Workers, v # w
    PROVE  BuildsUpFor(v)'
  <1>1. job'[v] = job[v] /\ target'[v] = target[v] /\ at'[v] = at[v]
        /\ about'[v] = about[v] /\ port'[v] = port[v] /\ UNCHANGED clashed
    BY MoverControl, OtherPortUntouched
  <1>2. SUFFICES ASSUME job[v] = "create", Slug(v) \notin clashed PROVE BuildsUpFor(v)'
    BY <1>1, MoverControl DEF BuildsUpFor, Slug
  <1>3. target[v] \in Domains /\ SlugOf[target[v]] # Slug(w)
    BY <1>2, MoverMoves DEF OneJobPerSlug, Busy, Slug, TypeInv, ControlOK
  <1>4. ASSUME NEW d \in (Live \ dismantling)', SlugOf[d] = Slug(v)
        PROVE  d \in Live \ dismantling
    <2>1. d \in Domains /\ SlugOf[d] # Slug(w)
      BY <1>3, <1>4 DEF TypeInv, DataOK, Live, Slug
    <2> QED
      BY <1>4, <2>1, OtherSlugUntouched, OtherLiveUntouched
  <1>5. Slug(v)' = Slug(v) /\ Restoring(v)' = Restoring(v)
    BY <1>1 DEF Slug, Restoring
  <1>6. /\ res'[Slug(v)] = res[Slug(v)]
        /\ target[v] \in Live' <=> target[v] \in Live
        /\ [domain |-> target[v], port |-> port[v]] \in rows
              => [domain |-> target[v], port |-> port[v]] \in rows'
    BY <1>3, OtherSlugUntouched, OtherLiveUntouched DEF Slug
  <1>7. BuildsUpFor(v)
    BY DEF BuildsUp, BuildsUpFor
  <1> QED
    BY <1>1, <1>2, <1>4, <1>5, <1>6, <1>7 DEF BuildsUpFor

(* A step of a worker preserves BuildsUp for itself.                         *)
LEMMA BuildsUpMover ==
    ASSUME TypeInv, TypeInv', OneJobPerSlug, BuildsUp, LiveIsWhole,
           NEW w \in Workers, Moves(w), ~RemakeSftp(w)
    PROVE  BuildsUpFor(w)'
  <1> SUFFICES ASSUME job'[w] = "create", (Slug(w) \notin clashed)'
               PROVE  BuildsUpFor(w)'
    BY DEF BuildsUpFor
  <1>0. job[w] = "create" /\ Busy(w) /\ target'[w] = target[w]
        /\ Slug(w) \notin clashed /\ UNCHANGED clashed
        /\ at'[w] = at[w] + 1 /\ at[w] \in 1..24 /\ Slug(w)' = Slug(w)
        /\ Restoring(w)' = Restoring(w)
    BY MoverControl, MoverMoves DEF Busy, Slug, Restoring
  <1>s. Slug(w) \in Slugs /\ target[w] \in Domains
    BY <1>0, SlugType DEF TypeInv, ControlOK
  <1>i. Step(w) = CreateProgram[at[w]]
    BY <1>0, StepTable DEF TypeInv
  <1>b. BuildsUpFor(w)
    BY DEF BuildsUp, BuildsUpFor
  <1> USE DEF registry, host, shared
  <1>1. CASE AllocatePort(w)
    <2>1. at[w] = 1
      BY <1>1, <1>0, CreateIndex DEF AllocatePort, Creating
    <2> QED
      BY <1>1, <1>0, <1>b, <2>1 DEF AllocatePort, BuildsUpFor, Live
  <1>2. ASSUME Step(w) \in Volumes \cup Containers \cup {"network"},
               res'[Slug(w)] \in SUBSET Resources, UNCHANGED rows,
               res[Slug(w)] \cup {Step(w)} \subseteq res'[Slug(w)],
               at[w] = 2 => "host_dirs" \in res'[Slug(w)],
               at[w] = 3 => "network" \notin res[Slug(w)], UNCHANGED dismantling
        PROVE  BuildsUpFor(w)'
    <2>1. at[w] \in 2..15
      BY <1>0, <1>2, CreateIndex
    <2>2. UNCHANGED <<Live, dismantling>>
      BY <1>2 DEF Live
    <2>3. at[w] >= 3 => \A d \in Live \ dismantling : SlugOf[d] # Slug(w)
      <3>1. CASE at[w] = 3
        BY <1>0, <1>2, <3>1 DEF LiveIsWhole, Resources
      <3> QED
        BY <1>0, <1>b, <2>1, <3>1 DEF BuildsUpFor
    <2> QED
      BY <1>0, <1>b, <1>i, <1>2, <2>1, <2>2, <2>3 DEF BuildsUpFor
  <1>3. CASE EnsureVolume(w)
    <2>1. at[w] # 3
      BY <1>3, <1>0, <1>i, CreateTable DEF EnsureVolume, Volumes
    <2> QED
      BY <1>0, <1>s, <1>2, <1>3, <2>1 DEF EnsureVolume, TypeInv, DataOK
  <1>4. CASE CreateNetwork(w)
    <2>1. at[w] # 2
      BY <1>4, <1>0, <1>i, CreateTable DEF CreateNetwork, Creating
    <2> QED
      BY <1>0, <1>s, <1>2, <1>4, <2>1 DEF CreateNetwork, Creating, TypeInv, DataOK
  <1>5. CASE RunContainer(w)
    <2>1. at[w] # 2 /\ at[w] # 3
      BY <1>5, <1>0, <1>i, CreateTable DEF RunContainer, MayRun, Containers
    <2> QED
      BY <1>0, <1>s, <1>2, <1>5, <2>1
         DEF RunContainer, MayRun, AddContainer, TypeInv, DataOK
  <1>6. CASE Register(w)
    <2>1. at[w] = 16
      BY <1>6, <1>0, CreateIndex DEF Register, Creating
    <2> QED
      BY <1>6, <1>0, <2>1 DEF Register, BuildsUpFor
  <1>7. CASE InstallJail(w)
    BY <1>7, <1>0, CreateIndex DEF InstallJail, Creating
  <1>8. CASE DestroyStep(w)
    BY <1>8, <1>0 DEF DestroyStep, RemoveJail, RemoveResource, MarkDestroyed, Destroying
  <1>9. CASE RefreshStep(w)
    <2>1. at[w] \in 17..24 /\ UNCHANGED <<rows, port>>
      BY <1>9, <1>0, CreateIndex
         DEF RefreshStep, ListTenants, WriteRoutingTable, WriteMailMaps,
             DropWebmail, RunWebmail, LoadMailMaps
    <2> QED
      BY <1>0, <1>b, <2>1 DEF BuildsUpFor
  <1>10. CASE RunRaises(w) \/ Refused(w) \/ Abort(w)
    BY <1>10 DEF RunRaises, Refused, Abort, Raise, Stop, TypeInv, ControlOK
  <1>11. CASE PassOver(w)
    <2>1. at[w] = 9 /\ Restoring(w)
      BY <1>11, <1>0, CreateIndex DEF PassOver, PassesOver
    <2>2. UNCHANGED <<Live, dismantling, res>>
      BY <1>11 DEF PassOver, Live
    <2> QED
      BY <1>0, <1>b, <2>1, <2>2 DEF BuildsUpFor
  <1> QED
    BY <1>1, <1>3, <1>4, <1>5, <1>6, <1>7, <1>8, <1>9, <1>10, <1>11
       DEF Moves, Progress, CreateStep

(* Nor does going back to the SFTP container: it is the one step undone.     *)
LEMMA BuildsUpRemake ==
    ASSUME TypeInv, BuildsUp, NEW w \in Workers, RemakeSftp(w)
    PROVE  BuildsUpFor(w)'
  <1>1. job[w] = "create" /\ at[w] = 12 /\ Slug(w) \in Slugs
    BY RemakeControl, SlugType DEF TypeInv, Busy
  <1>2. /\ job'[w] = "create" /\ at'[w] = 11 /\ target'[w] = target[w]
        /\ Slug(w)' = Slug(w) /\ Restoring(w) /\ Restoring(w)'
        /\ UNCHANGED <<Live, dismantling, clashed>>
    BY <1>1 DEF RemakeSftp, Slug, Restoring, Live, registry, TypeInv, ControlOK
  <1>3. res'[Slug(w)] = res[Slug(w)] \ {"sftp"}
    BY <1>1 DEF RemakeSftp, TypeInv, DataOK
  <1>4. \A i \in 2..10 : CreateProgram[i] # "sftp"
    BY CreateTable
  <1>5. BuildsUpFor(w)
    BY DEF BuildsUp, BuildsUpFor
  <1> QED
    BY <1>1, <1>2, <1>3, <1>4, <1>5 DEF BuildsUpFor

(* BuildsUp is inductive.                                                    *)
LEMMA BuildsUpStep ==
    ASSUME TypeInv, TypeInv', OneJobPerSlug, BuildsUp, LiveIsWhole,
           [Next]_vars
    PROVE  BuildsUp'
  <1>1. CASE UNCHANGED vars
    BY <1>1 DEF vars, BuildsUp, Live, Slug, Restoring
  <1>2. ASSUME NEW w \in Workers, NEW d \in Domains,
               Begin(w, d)
        PROVE  BuildsUp'
    BY <1>2 DEF Begin, BeginCreate, BeginRestore, BeginDestroy, Start, TypeInv,
                ControlOK, BuildsUp, Live, Slug, Restoring, registry, host, shared
  <1>3. ASSUME NEW w \in Workers, Moves(w)
        PROVE  BuildsUp'
    <2>1. ASSUME NEW v \in Workers PROVE BuildsUpFor(v)'
      BY <1>3, BuildsUpMover, BuildsUpRemake, BuildsUpOther
    <2> QED
      BY <2>1 DEF BuildsUp, BuildsUpFor
  <1> QED
    BY <1>1, <1>2, <1>3 DEF Next, Moves

-----------------------------------------------------------------------------
(* TearsDown, step by step.                                                  *)

TearsDownFor(w) ==
    job[w] = "destroy" /\ Slug(w) \notin clashed /\ at[w] <= 17 =>
        /\ target[w] \in Live /\ target[w] \in dismantling
        /\ at[w] > 1 => jail[Slug(w)] = NoPort
        /\ \A i \in 2..16 : i < at[w] => DestroyProgram[i] \notin res[Slug(w)]

(* A step of one worker preserves TearsDown for every other worker.          *)
LEMMA TearsDownOther ==
    ASSUME TypeInv, TypeInv', OneJobPerSlug, TearsDown,
           NEW w \in Workers, Moves(w), NEW v \in Workers, v # w
    PROVE  TearsDownFor(v)'
  <1>1. job'[v] = job[v] /\ target'[v] = target[v] /\ at'[v] = at[v]
        /\ UNCHANGED clashed
    BY MoverControl
  <1>2. SUFFICES ASSUME job[v] = "destroy", Slug(v) \notin clashed PROVE TearsDownFor(v)'
    BY <1>1, MoverControl DEF TearsDownFor, Slug
  <1>3. target[v] \in Domains /\ SlugOf[target[v]] # Slug(w)
    BY <1>2, MoverMoves DEF OneJobPerSlug, Busy, Slug, TypeInv, ControlOK
  <1> QED
    BY <1>1, <1>2, <1>3, OtherSlugUntouched, OtherLiveUntouched
       DEF TearsDown, TearsDownFor, Slug

(* A step of a worker preserves TearsDown for itself.                        *)
LEMMA TearsDownMover ==
    ASSUME TypeInv, TypeInv', OneJobPerSlug, TearsDown,
           NEW w \in Workers, Moves(w)
    PROVE  TearsDownFor(w)'
  <1> SUFFICES ASSUME job'[w] = "destroy", at'[w] <= 17, (Slug(w) \notin clashed)'
               PROVE  TearsDownFor(w)'
    BY DEF TearsDownFor
  <1>0. job[w] = "destroy" /\ Busy(w) /\ target'[w] = target[w]
        /\ Slug(w) \notin clashed /\ UNCHANGED clashed
        /\ at'[w] = at[w] + 1 /\ at[w] \in 1..16 /\ Slug(w)' = Slug(w)
    BY MoverControl, MoverMoves DEF Busy, Slug
  <1>s. Slug(w) \in Slugs /\ target[w] \in Domains
    BY <1>0, SlugType DEF TypeInv, ControlOK
  <1>i. Step(w) = DestroyProgram[at[w]]
    BY <1>0, StepTable DEF TypeInv
  <1>b. TearsDownFor(w)
    BY DEF TearsDown, TearsDownFor
  <1> USE DEF registry, host, shared
  <1>1. CASE CreateStep(w)
    BY <1>1, <1>0 DEF CreateStep, AllocatePort, EnsureVolume, CreateNetwork,
                RunContainer, RunRaises, MayRun, PassOver, PassesOver,
                RemakeSftp, Register, InstallJail, Creating
  <1>2. CASE RemoveJail(w)
    <2>1. at[w] = 1
      BY <1>2, <1>0, DestroyIndex DEF RemoveJail, Destroying
    <2> QED
      BY <1>2, <1>0, <1>s, <1>b, <2>1
         DEF RemoveJail, TearsDownFor, Live, TypeInv, DataOK
  <1>3. CASE RemoveResource(w)
    <2>1. at[w] \in 2..16
      BY <1>3, <1>0, DestroyIndex DEF RemoveResource
    <2>2. res'[Slug(w)] = res[Slug(w)] \ {DestroyProgram[at[w]]}
      BY <1>3, <1>s, <1>i DEF RemoveResource, TypeInv, DataOK
    <2> QED
      BY <1>3, <1>0, <1>b, <2>1, <2>2 DEF RemoveResource, TearsDownFor, Live
  <1>4. CASE MarkDestroyed(w)
    BY <1>4, <1>0, DestroyIndex DEF MarkDestroyed, Destroying
  <1>5. CASE RefreshStep(w)
    BY <1>5, <1>0, DestroyIndex
       DEF RefreshStep, ListTenants, WriteRoutingTable, WriteMailMaps,
           DropWebmail, RunWebmail, LoadMailMaps
  <1>6. CASE Refused(w) \/ Abort(w)
    BY <1>6 DEF Refused, Abort, Raise, Stop, TypeInv, ControlOK
  <1> QED
    BY <1>1, <1>2, <1>3, <1>4, <1>5, <1>6 DEF Moves, Progress, DestroyStep

(* TearsDown is inductive.                                                   *)
LEMMA TearsDownStep ==
    ASSUME TypeInv, TypeInv', OneJobPerSlug, TearsDown, [Next]_vars
    PROVE  TearsDown'
  <1>1. CASE UNCHANGED vars
    BY <1>1 DEF vars, TearsDown, Live, Slug
  <1>2. ASSUME NEW w \in Workers, NEW d \in Domains,
               Begin(w, d)
        PROVE  TearsDown'
    BY <1>2 DEF Begin, BeginCreate, BeginRestore, BeginDestroy, Start, TypeInv,
                ControlOK, TearsDown, Live, Slug, registry, host, shared
  <1>3. ASSUME NEW w \in Workers, Moves(w)
        PROVE  TearsDown'
    <2>1. ASSUME NEW v \in Workers PROVE TearsDownFor(v)'
      BY <1>3, TearsDownMover, TearsDownOther
    <2> QED
      BY <2>1 DEF TearsDown, TearsDownFor
  <1> QED
    BY <1>1, <1>2, <1>3 DEF Next, Moves

-----------------------------------------------------------------------------
(* JailsAreLive and LiveIsWhole are inductive.                               *)

(* JailsAreLive is inductive: jails are written after the row, removed before. *)
LEMMA JailsStep ==
    ASSUME TypeInv, RegistryUnique, BuildsUp, TearsDown, JailsAreLive, [Next]_vars
    PROVE  JailsAreLive'
  <1> USE DEF registry, host, shared
  <1>0. clashed \subseteq clashed'
    BY ClashesStay
  <1>1. CASE UNCHANGED <<jail, rows>>
    BY <1>0, <1>1 DEF JailsAreLive
  <1>2. ASSUME NEW w \in Workers, Register(w)
        PROVE  JailsAreLive'
    BY <1>0, <1>2 DEF Register, JailsAreLive
  <1>3. ASSUME NEW w \in Workers, InstallJail(w)
        PROVE  JailsAreLive'
    <2>1. job[w] = "create" /\ at[w] = 25
      BY <1>3, CreateIndex DEF InstallJail, Creating
    <2>2. Slug(w) \notin clashed => [domain |-> target[w], port |-> port[w]] \in rows
      <3>1. BuildsUpFor(w)
        BY DEF BuildsUp, BuildsUpFor
      <3> QED
        BY <2>1, <3>1 DEF BuildsUpFor
    <2>3. CASE Restoring(w)
      BY <1>0, <1>3, <2>3 DEF InstallJail, JailsAreLive, TypeInv, DataOK
    <2> QED
      BY <1>0, <1>3, <2>2, <2>3 DEF InstallJail, JailsAreLive, Slug, TypeInv, DataOK
  <1>4. ASSUME NEW w \in Workers, RemoveJail(w)
        PROVE  JailsAreLive'
    BY <1>0, <1>4 DEF RemoveJail, JailsAreLive, TypeInv, DataOK
  <1>5. ASSUME NEW w \in Workers, MarkDestroyed(w)
        PROVE  JailsAreLive'
    <2>1. job[w] = "destroy" /\ at[w] = 17
      BY <1>5, DestroyIndex DEF MarkDestroyed, Destroying
    <2>2. Slug(w) \notin clashed => jail[Slug(w)] = NoPort
      <3>1. TearsDownFor(w)
        BY DEF TearsDown, TearsDownFor
      <3> QED
        BY <2>1, <3>1 DEF TearsDownFor
    <2> QED
      BY <1>0, <1>5, <2>2 DEF MarkDestroyed, JailsAreLive, Slug
  <1>6. \/ UNCHANGED <<jail, rows>>
        \/ \E w \in Workers : Register(w) \/ InstallJail(w) \/ RemoveJail(w)
                                \/ MarkDestroyed(w)
    BY DEF Next, vars, Begin, BeginCreate, BeginRestore, BeginDestroy, Progress,
           CreateStep, AllocatePort, EnsureVolume, CreateNetwork, RunContainer,
           RunRaises, PassOver, RemakeSftp, DestroyStep, RemoveResource,
           RefreshStep, ListTenants, WriteRoutingTable, WriteMailMaps,
           DropWebmail, RunWebmail, LoadMailMaps, Refused, Abort
  <1> QED
    BY <1>1, <1>2, <1>3, <1>4, <1>5, <1>6

(* Everything the program makes is there when it inserts the row.            *)
LEMMA WholeAtRegister ==
    ASSUME TypeInv, BuildsUp, NEW w \in Workers, Register(w), Slug(w) \notin clashed
    PROVE  /\ Resources \ {"waf"} \subseteq res[Slug(w)]
           /\ ~Restoring(w) => Resources \subseteq res[Slug(w)]
           /\ target[w] \notin Live
  <1>1. job[w] = "create" /\ at[w] = 16 /\ Slug(w) \in Slugs
    BY CreateIndex, SlugType DEF Register, Creating, Busy, TypeInv
  <1>2. /\ \A i \in (2..15) \ {9} : CreateProgram[i] \in res[Slug(w)]
        /\ ~Restoring(w) => CreateProgram[9] \in res[Slug(w)]
        /\ "host_dirs" \in res[Slug(w)]
        /\ target[w] \notin Live
    <2>1. BuildsUpFor(w)
      BY DEF BuildsUp, BuildsUpFor
    <2> QED
      BY <1>1, <2>1 DEF BuildsUpFor
  <1>3. /\ Resources \ {"waf"} \subseteq res[Slug(w)]
        /\ ~Restoring(w) => "waf" \in res[Slug(w)]
    BY <1>2, CreateTable DEF Resources, Volumes, Containers
  <1> QED
    BY <1>2, <1>3

(* What a live tenant cannot do without.                                     *)
Whole(d) == Resources \ (IF d \in walled THEN {} ELSE {"waf"})

(* LiveIsWhole is inductive.                                                 *)
LEMMA WholeStep ==
    ASSUME TypeInv, TypeInv', RegistryUnique, WalledAreLive, BuildsUp, TearsDown,
           LiveIsWhole, [Next]_vars
    PROVE  LiveIsWhole'
  <1> USE DEF registry, host, shared
  <1>0. ASSUME NEW d \in Live
        PROVE  d \in Domains /\ SlugOf[d] \in Slugs
    BY DEF Live, Slugs, TypeInv, DataOK
  <1>c. clashed \subseteq clashed'
    BY ClashesStay
  <1>1. CASE UNCHANGED <<rows, walled, res, dismantling>>
    BY <1>c, <1>1 DEF LiveIsWhole, Live
  <1>2. ASSUME NEW w \in Workers, NEW d \in Domains, BeginDestroy(w, d)
        PROVE  LiveIsWhole'
    BY <1>c, <1>2 DEF BeginDestroy, LiveIsWhole, Live
  <1>3. ASSUME NEW w \in Workers, Register(w)
        PROVE  LiveIsWhole'
    <2>1. ASSUME NEW d \in (Live \ dismantling)', d # target[w],
                 SlugOf[d] \notin clashed
          PROVE  Whole(d)' \subseteq res'[SlugOf[d]]
      <3>1. d \in Live \ dismantling /\ (d \in walled' <=> d \in walled)
        BY <1>3, <2>1 DEF Register, Live, WalledAfter
      <3> QED
        BY <1>3, <2>1, <3>1 DEF Register, LiveIsWhole, Whole
    <2>2. ASSUME NEW d \in Domains, d = target[w], SlugOf[d] \notin clashed
          PROVE  Whole(d)' \subseteq res'[SlugOf[d]]
      <3>0. Slug(w) \notin clashed
        BY <2>2 DEF Slug
      <3>1. d \notin walled
        BY <1>3, <2>2, <3>0, WholeAtRegister DEF WalledAreLive
      <3>2. d \in walled' <=> ~Restoring(w)
        BY <1>3, <2>2, <3>1 DEF Register, WalledAfter
      <3>3. UNCHANGED res /\ Slug(w) = SlugOf[d]
        BY <1>3, <2>2 DEF Register, Slug
      <3>4. /\ Resources \ {"waf"} \subseteq res'[SlugOf[d]]
            /\ d \in walled' => Resources \subseteq res'[SlugOf[d]]
        BY <1>3, <3>0, <3>2, <3>3, WholeAtRegister
      <3> QED
        BY <3>4 DEF Whole
    <2>3. ASSUME NEW d \in (Live \ dismantling)', SlugOf[d] \notin clashed
          PROVE  Whole(d)' \subseteq res'[SlugOf[d]]
      BY <2>1, <2>2, <2>3 DEF TypeInv, DataOK, Live
    <2> QED
      BY <1>c, <2>3 DEF LiveIsWhole, Whole
  <1>4. ASSUME NEW w \in Workers,
               EnsureVolume(w) \/ CreateNetwork(w) \/ RunContainer(w) \/ RunRaises(w)
        PROVE  LiveIsWhole'
    <2>1. UNCHANGED <<Live, dismantling, walled>>
      BY <1>4 DEF EnsureVolume, CreateNetwork, RunContainer, RunRaises, Live
    <2>2. \A s \in Slugs : res[s] \subseteq res'[s]
      BY <1>4 DEF EnsureVolume, CreateNetwork, RunContainer, RunRaises,
                  AddContainer, TypeInv, DataOK
    <2> QED
      BY <1>0, <1>c, <2>1, <2>2 DEF LiveIsWhole
  <1>5. ASSUME NEW w \in Workers, RemoveResource(w) \/ RemakeSftp(w),
               Slug(w) \notin clashed =>
                   \A d \in Live \ dismantling : SlugOf[d] # Slug(w)
        PROVE  LiveIsWhole'
    <2>1. UNCHANGED <<Live, dismantling, walled>>
      BY <1>5 DEF RemoveResource, RemakeSftp, Live
    <2>2. \A s \in Slugs \ {Slug(w)} : res'[s] = res[s]
      BY <1>5 DEF RemoveResource, RemakeSftp, TypeInv, DataOK
    <2> QED
      BY <1>0, <1>c, <1>5, <2>1, <2>2 DEF LiveIsWhole
  <1>6. ASSUME NEW w \in Workers, RemoveResource(w), Slug(w) \notin clashed
        PROVE  \A d \in Live \ dismantling : SlugOf[d] # Slug(w)
    <2>1. job[w] = "destroy" /\ at[w] <= 17
      BY <1>6, DestroyIndex DEF RemoveResource
    <2>2. target[w] \in Live /\ target[w] \in dismantling
      BY <1>6, <2>1 DEF TearsDown
    <2> QED
      BY <2>2 DEF RegistryUnique, Live, Slug
  <1>7. ASSUME NEW w \in Workers, RemakeSftp(w), Slug(w) \notin clashed
        PROVE  \A d \in Live \ dismantling : SlugOf[d] # Slug(w)
    <2>1. job[w] = "create" /\ at[w] = 12
      BY <1>7, RemakeControl DEF TypeInv
    <2>2. BuildsUpFor(w)
      BY DEF BuildsUp, BuildsUpFor
    <2> QED
      BY <1>7, <2>1, <2>2 DEF BuildsUpFor
  <1>8. ASSUME NEW w \in Workers, MarkDestroyed(w)
        PROVE  LiveIsWhole'
    BY <1>c, <1>8 DEF MarkDestroyed, LiveIsWhole, Live
  <1>9. \/ UNCHANGED <<rows, walled, res, dismantling>>
        \/ \E w \in Workers : \E d \in Domains : BeginDestroy(w, d)
        \/ \E w \in Workers :
              \/ EnsureVolume(w) \/ CreateNetwork(w) \/ RunContainer(w)
              \/ RunRaises(w) \/ RemakeSftp(w) \/ Register(w)
              \/ RemoveResource(w) \/ MarkDestroyed(w)
    BY DEF Next, vars, Begin, BeginCreate, BeginRestore, Progress, CreateStep,
           AllocatePort, PassOver, InstallJail, DestroyStep, RemoveJail,
           RefreshStep, ListTenants, WriteRoutingTable, WriteMailMaps,
           DropWebmail, RunWebmail, LoadMailMaps, Refused, Abort
  <1> QED
    BY <1>1, <1>2, <1>3, <1>4, <1>5, <1>6, <1>7, <1>8, <1>9

-----------------------------------------------------------------------------
(* The theorems that rest on the inductive invariant.                        *)

(* The empty host satisfies the invariant.                                   *)
LEMMA InitIInv == Init => IInv
  <1> SUFFICES ASSUME Init PROVE IInv
    OBVIOUS
  <1>1. TypeInv
    BY InitTypes
  <1> QED
    BY <1>1 DEF Init, IInv, RegistryUnique, OneJobPerSlug, BuildsUp, TearsDown,
                JailsAreLive, LiveIsWhole, WalledAreLive, Live, Busy, Slugs

(* Every step preserves it.                                                  *)
LEMMA IInvStep == IInv /\ [Next]_vars => IInv'
  BY TypeStep, UniqueStep, WalledStep, OneJobStep, BuildsUpStep, TearsDownStep,
     JailsStep, WholeStep DEF IInv

(* Every live tenant that no destroy was started on, and on whose slug no    *)
(* two operations ever overlapped, has all its containers (but a restored    *)
(* one its WAF container), volumes, directories and its network, however     *)
(* operations on other tenants overlap and wherever they die.                *)
THEOREM LiveStaysWhole == Spec => []LiveIsWhole
  <1>1. IInv => LiveIsWhole
    BY DEF IInv
  <1> QED
    BY <1>1, InitIInv, IInvStep, PTL DEF Spec

(* However operations on other tenants overlap and wherever any die, a jail   *)
(* watches the port that its tenant's row holds, so a port given to the next  *)
(* tenant is watched by no jail of the last one.                             *)
THEOREM JailsStayLive == Spec => []JailsAreLive
  <1>1. IInv => JailsAreLive
    BY DEF IInv
  <1> QED
    BY <1>1, InitIInv, IInvStep, PTL DEF Spec

(* When destroy_tenant marks the tenant destroyed, nothing of it is left.    *)
LEMMA NothingLeftAtMark ==
    ASSUME IInv, NEW w \in Workers, MarkDestroyed(w), Slug(w) \notin clashed
    PROVE  /\ res[Slug(w)] = {} /\ jail[Slug(w)] = NoPort
           /\ target[w] \in Live
  <1>1. job[w] = "destroy" /\ at[w] = 17 /\ Slug(w) \in Slugs
    BY DestroyIndex, SlugType DEF IInv, TypeInv, MarkDestroyed, Destroying, Busy
  <1>2. TearsDownFor(w)
    BY DEF IInv, TearsDown, TearsDownFor
  <1>3. \A i \in 2..16 : DestroyProgram[i] \notin res[Slug(w)]
    BY <1>1, <1>2 DEF TearsDownFor
  <1>4. \A r \in Resources : r \notin res[Slug(w)]
    BY <1>3, DestroyTable DEF Resources, Volumes, Containers
  <1> QED
    BY <1>1, <1>2, <1>4 DEF TearsDownFor, IInv, TypeInv, DataOK

(* Only the destroy of a domain retires it.                                  *)
LEMMA LiveShrinks ==
    ASSUME IInv, [Next]_vars, NEW d \in Domains, d \in Live, d \notin Live'
    PROVE  \E w \in Workers : MarkDestroyed(w) /\ target[w] = d
  <1>1. PICK w \in Workers : Register(w) \/ MarkDestroyed(w)
    BY RowsChange DEF Live
  <1> QED
    BY <1>1 DEF Register, MarkDestroyed, Live

(* As long as no two operations on its slug overlapped, a tenant's row is    *)
(* marked destroyed only when no container, volume, directory, network or    *)
(* jail of the tenant is left, so a failed destroy can always be repeated.    *)
THEOREM RowOutlives == Spec => RowOutlivesResources
  <1>1. ASSUME IInv, [Next]_vars
        PROVE  [\A d \in Domains :
                    d \in Live /\ d \notin Live' /\ SlugOf[d] \notin clashed =>
                    res[SlugOf[d]] = {} /\ jail[SlugOf[d]] = NoPort]_vars
    BY <1>1, LiveShrinks, NothingLeftAtMark DEF Slug
  <1> QED
    BY <1>1, InitIInv, IInvStep, PTL DEF Spec, RowOutlivesResources

(* Docker refuses no step of destroy_tenant: the order of its steps removes  *)
(* every container before the volumes and the network it uses.  Only looking *)
(* up a restored tenant's WAF container, which has no name, raises.          *)
THEOREM DestroyIsNeverRefused == Spec => []DestroyNeverRefused
  <1>1. ASSUME IInv, NEW w \in Workers, job[w] = "destroy", Step(w) \in Resources,
               Slug(w) \notin clashed
        PROVE  ~IsRefused(w) \/ NamesNothing(w)
    <2>1. at[w] \in 2..16 /\ Step(w) = DestroyProgram[at[w]]
      BY <1>1, DestroyIndex, StepTable DEF IInv, TypeInv, Busy
    <2>2. TearsDownFor(w)
      BY <1>1 DEF IInv, TearsDown, TearsDownFor
    <2>3. \A i \in 2..16 : i < at[w] => DestroyProgram[i] \notin res[Slug(w)]
      BY <1>1, <2>1, <2>2 DEF TearsDownFor
    <2>4. Step(w) \in Volumes \cup {"network"} => at[w] > 7
      BY <2>1, DestroyTable DEF Volumes
    <2>5. at[w] > 7 => \A c \in Containers : c \notin res[Slug(w)]
      BY <2>1, <2>3, DestroyTable DEF Containers
    <2>6. ~InUse(Slug(w), Step(w))
      BY <2>4, <2>5 DEF InUse, Containers
    <2> QED
      BY <1>1, <2>6 DEF IsRefused, Resources, Volumes, Containers
  <1>2. IInv => DestroyNeverRefused
    BY <1>1 DEF DestroyNeverRefused
  <1> QED
    BY <1>2, InitIInv, IInvStep, PTL DEF Spec

-----------------------------------------------------------------------------
(* The slugs that are one domain's and on which no operations clashed.       *)

(* The port a worker published is still published when it inserts the row.  *)
PublishedPort ==
    \A w \in Workers :
        job[w] = "create" /\ 11 < at[w] /\ at[w] <= 16 /\ Slug(w) \notin clashed =>
            bound[Slug(w)] = port[w]

RowsPublish ==
    \A r \in rows :
        SlugOf[r.domain] \notin Disowned /\ "sftp" \in res[SlugOf[r.domain]] =>
            bound[SlugOf[r.domain]] = r.port

PortInv == IInv /\ PublishedPort /\ RowsPublish

(* PublishedPort is inductive.                                               *)
LEMMA PublishedStep ==
    ASSUME IInv, IInv', PublishedPort, [Next]_vars
    PROVE  PublishedPort'
  <1> USE DEF registry, host, shared
  <1>0. clashed \subseteq clashed'
    BY ClashesStay DEF IInv
  <1>1. CASE UNCHANGED vars
    BY <1>1 DEF vars, PublishedPort, Slug
  <1>2. ASSUME NEW w \in Workers, NEW d \in Domains,
               Begin(w, d)
        PROVE  PublishedPort'
    BY <1>0, <1>2 DEF Begin, BeginCreate, BeginRestore, BeginDestroy, Start, IInv,
                TypeInv, ControlOK, PublishedPort, Slug
  <1>3. ASSUME NEW w \in Workers, Moves(w), NEW v \in Workers, v # w,
               (job[v] = "create" /\ 11 < at[v] /\ at[v] <= 16)',
               (Slug(v) \notin clashed)'
        PROVE  bound'[Slug(v)'] = port'[v]
    <2>1. job'[v] = job[v] /\ target'[v] = target[v] /\ at'[v] = at[v]
          /\ port'[v] = port[v] /\ Slug(v) \notin clashed
      BY <1>3, MoverControl, OtherPortUntouched DEF IInv, Slug
    <2>2. target[v] \in Domains /\ SlugOf[target[v]] # Slug(w)
      BY <1>3, <2>1, MoverMoves
         DEF IInv, OneJobPerSlug, Busy, Slug, TypeInv, ControlOK
    <2> QED
      BY <1>3, <2>1, <2>2, OtherSlugUntouched DEF IInv, PublishedPort, Slug
  <1>4. ASSUME NEW w \in Workers, Moves(w),
               (job[w] = "create" /\ 11 < at[w] /\ at[w] <= 16)',
               (Slug(w) \notin clashed)'
        PROVE  bound'[Slug(w)'] = port'[w]
    <2>1. job[w] = "create" /\ target'[w] = target[w] /\ at'[w] = at[w] + 1
          /\ at[w] \in 11..15 /\ Busy(w) /\ ~RemakeSftp(w) /\ UNCHANGED clashed
      <3>1. at'[w] # 11
        BY <1>4
      <3> QED
        BY <1>4, <3>1, MoverControl, MoverMoves, RemakeControl
           DEF IInv, TypeInv, ControlOK, RemakeSftp
    <2>2. Slug(w) \in Slugs \ clashed /\ Slug(w)' = Slug(w) /\ Step(w) = CreateProgram[at[w]]
      BY <1>4, <2>1, SlugType, StepTable DEF IInv, TypeInv, Slug
    <2>3. CASE RunContainer(w) /\ Step(w) = "sftp"
      BY <2>2, <2>3 DEF RunContainer, IInv, TypeInv, DataOK
    <2>4. ASSUME UNCHANGED <<bound, port>>, Step(w) # "sftp"
          PROVE  bound'[Slug(w)'] = port'[w]
      <3>1. at[w] # 11
        BY <2>2, <2>4, CreateTable
      <3> QED
        BY <2>1, <2>2, <2>4, <3>1 DEF PublishedPort
    <2>5. CASE EnsureVolume(w) \/ CreateNetwork(w) \/ (RunContainer(w) /\ Step(w) # "sftp")
      BY <2>4, <2>5 DEF EnsureVolume, CreateNetwork, RunContainer, Creating, Volumes
    <2>6. Step(w) \in Volumes \cup Containers \cup {"network"}
      BY <2>1, <2>2, CreateTable DEF Volumes, Containers
    <2>7. CASE \/ AllocatePort(w) \/ PassOver(w) \/ Register(w) \/ InstallJail(w)
               \/ DestroyStep(w) \/ RefreshStep(w)
      <3>1. Step(w) # "waf"
        BY <2>1, <2>2, CreateTable
      <3> QED
        BY <2>1, <2>6, <2>7, <3>1
         DEF AllocatePort, PassOver, PassesOver, Register, InstallJail,
             Creating, DestroyStep,
             RemoveJail, RemoveResource, MarkDestroyed, Destroying, RefreshStep,
             ListTenants, WriteRoutingTable, WriteMailMaps, DropWebmail,
             RunWebmail, LoadMailMaps, Volumes, Containers
    <2>8. CASE RunRaises(w) \/ Refused(w) \/ Abort(w)
      BY <1>4, <2>8 DEF RunRaises, Refused, Abort, Raise, Stop, IInv, TypeInv, ControlOK
    <2> QED
      BY <1>4, <2>1, <2>3, <2>5, <2>7, <2>8 DEF Moves, Progress, CreateStep
  <1> QED
    BY <1>1, <1>2, <1>3, <1>4 DEF Next, Moves, PublishedPort

(* A tenant under construction is not live, so a row seen while one of its   *)
(* steps runs belongs to another slug.                                       *)
LEMMA BuilderIsNotLive ==
    ASSUME IInv, NEW w \in Workers, job[w] = "create", at[w] <= 16,
           Slug(w) \notin Disowned, NEW r \in rows
    PROVE  SlugOf[r.domain] # Slug(w)
  <1>1. target[w] \notin Live /\ target[w] \in Domains
    <2>1. BuildsUpFor(w)
      BY DEF IInv, BuildsUp, BuildsUpFor
    <2> QED
      BY <2>1 DEF BuildsUpFor, Disowned, IInv, TypeInv, ControlOK, Busy
  <1> QED
    BY <1>1 DEF Live, Slug, Disowned, Shared, Slugs, IInv, TypeInv, DataOK

(* RowsPublish is inductive.                                                 *)
LEMMA RowsPublishStep ==
    ASSUME IInv, IInv', PublishedPort, RowsPublish, [Next]_vars
    PROVE  RowsPublish'
  <1> USE DEF registry, host, shared
  <1>0. \A r \in rows : r.domain \in Domains /\ SlugOf[r.domain] \in Slugs
    BY DEF IInv, TypeInv, DataOK, Slugs
  <1>d. Disowned \subseteq Disowned'
    BY ClashesStay DEF IInv, Disowned, Shared
  <1>1. CASE UNCHANGED <<rows, res, bound>>
    BY <1>d, <1>1 DEF RowsPublish
  <1>2. ASSUME NEW w \in Workers, Register(w)
        PROVE  RowsPublish'
    <2>1. job[w] = "create" /\ at[w] = 16
      BY <1>2, CreateIndex DEF Register, Creating, IInv
    <2>2. Slug(w) \notin Disowned => bound[Slug(w)] = port[w]
      BY <2>1 DEF PublishedPort, Disowned
    <2> QED
      BY <1>2, <1>d, <2>2 DEF Register, RowsPublish, Slug
  <1>3. ASSUME NEW w \in Workers,
               \/ EnsureVolume(w) \/ CreateNetwork(w) \/ RunContainer(w)
               \/ RunRaises(w) \/ RemakeSftp(w)
        PROVE  RowsPublish'
    <2>1. job[w] = "create" /\ at[w] <= 16 /\ rows' = rows /\ Slug(w) \in Slugs
      BY <1>3, CreateIndex, RemakeControl, SlugType
         DEF EnsureVolume, CreateNetwork, Creating, RunContainer, RunRaises,
             RemakeSftp, MayRun, IInv, TypeInv, Busy
    <2>2. ASSUME NEW r \in rows, SlugOf[r.domain] \notin Disowned
          PROVE  /\ res'[SlugOf[r.domain]] = res[SlugOf[r.domain]]
                 /\ bound'[SlugOf[r.domain]] = bound[SlugOf[r.domain]]
      <3>1. SlugOf[r.domain] # Slug(w) /\ r.domain \in Domains
        BY <1>0, <2>1, <2>2, BuilderIsNotLive
      <3>2. Moves(w)
        BY <1>3 DEF Moves, Progress, CreateStep
      <3> QED
        BY <3>1, <3>2, OtherSlugUntouched DEF IInv
    <2> QED
      BY <1>d, <2>1, <2>2 DEF RowsPublish
  <1>4. ASSUME NEW w \in Workers, RemoveResource(w)
        PROVE  RowsPublish'
    <2>1. Slug(w) \in Slugs
      BY <1>4, SlugType DEF RemoveResource, IInv, TypeInv, Busy
    <2> QED
      BY <1>0, <1>d, <1>4, <2>1 DEF RemoveResource, RowsPublish, IInv, TypeInv, DataOK
  <1>5. ASSUME NEW w \in Workers, MarkDestroyed(w)
        PROVE  RowsPublish'
    BY <1>d, <1>5 DEF MarkDestroyed, RowsPublish
  <1>6. \/ UNCHANGED <<rows, res, bound>>
        \/ \E w \in Workers :
              \/ EnsureVolume(w) \/ CreateNetwork(w) \/ RunContainer(w)
              \/ RunRaises(w) \/ RemakeSftp(w) \/ Register(w)
              \/ RemoveResource(w) \/ MarkDestroyed(w)
    BY DEF Next, vars, Begin, BeginCreate, BeginRestore, BeginDestroy, Progress,
           CreateStep, AllocatePort, PassOver, InstallJail, DestroyStep,
           RemoveJail, RefreshStep, ListTenants, WriteRoutingTable,
           WriteMailMaps, DropWebmail, RunWebmail, LoadMailMaps, Refused, Abort
  <1> QED
    BY <1>1, <1>2, <1>3, <1>4, <1>5, <1>6

(* The port in the row of a live tenant, alone on its slug and with no two   *)
(* operations ever overlapping on it, is the one its SFTP container publishes *)
(* and the only one its jail can be watching, although the port is chosen 15 *)
(* steps before the row is inserted and the jail is written 8 steps after.   *)
THEOREM PortsStayInAgreement == Spec => []PortsAgree
  <1>1. Init => PortInv
    BY InitIInv DEF Init, PortInv, PublishedPort, RowsPublish
  <1>2. PortInv /\ [Next]_vars => PortInv'
    BY IInvStep, PublishedStep, RowsPublishStep DEF PortInv
  <1>3. PortInv => PortsAgree
    BY DEF PortInv, IInv, TypeInv, DataOK, JailsAreLive, RegistryUnique,
           RowsPublish, PortsAgree, Disowned, Slugs
  <1> QED
    BY <1>1, <1>2, <1>3, PTL DEF Spec

-----------------------------------------------------------------------------
(* TenantLifecycle implements TenantDirectory.                               *)

SlugsLive == {SlugOf[d] : d \in Live}

(* What a step does to the tenant it works on touches no other one: no part  *)
(* of another slug, and no other slug's place in the registry.               *)
LEMMA StepsAreConfined ==
    ASSUME TypeInv, TypeInv', NEW w \in Workers, Moves(w),
           NEW n \in Slugs, n = Slug(w)
    PROVE  Directory!Stray(n) /\ UNCHANGED Disowned
  <1>1. ASSUME NEW m \in Slugs, m # n
        PROVE  res'[m] = res[m]
    <2>1. PICK d \in Domains : m = SlugOf[d]
      BY DEF Slugs
    <2> QED
      BY <1>1, <2>1, OtherSlugUntouched
  <1>2. res' = [res EXCEPT ![n] = res'[n]] /\ res'[n] \subseteq Resources
    BY <1>1 DEF TypeInv, DataOK
  <1>3. ASSUME NEW d \in Domains, SlugOf[d] # n
        PROVE  d \in Live' <=> d \in Live
    BY <1>3, OtherLiveUntouched
  <1>4. Live \subseteq Domains /\ Live' \subseteq Domains
    BY DEF Live, TypeInv, DataOK
  <1>5. SlugsLive' \ {n} = SlugsLive \ {n}
    BY <1>3, <1>4 DEF SlugsLive
  <1>6. UNCHANGED Disowned
    BY MoverControl DEF Disowned, Shared
  <1> QED
    BY <1>2, <1>5, <1>6 DEF Directory!Stray, Directory!OnlyChanges, SlugsLive

(* Making a volume, the network or a container is a Build of the directory,  *)
(* and so is removing the SFTP container that is made again.                 *)
LEMMA BuildIsBuild ==
    ASSUME IInv, IInv', NEW w \in Workers,
           \/ EnsureVolume(w) \/ CreateNetwork(w) \/ RunContainer(w)
           \/ RunRaises(w) \/ RemakeSftp(w),
           NEW n \in Slugs, n = Slug(w), n \notin Disowned
    PROVE  Directory!Build(n)
  <1> USE DEF registry, host, shared
  <1>1. job[w] = "create" /\ at[w] <= 16 /\ Moves(w) /\ UNCHANGED rows
    BY CreateIndex, RemakeControl
       DEF EnsureVolume, CreateNetwork, Creating, RunContainer, RunRaises,
           RemakeSftp, MayRun, IInv, TypeInv, Moves, Progress, CreateStep
  <1>2. n \notin SlugsLive
    BY <1>1, BuilderIsNotLive DEF SlugsLive, Live
  <1>3. res[n] \ {"sftp"} \subseteq res'[n] /\ res'[n] \subseteq Resources
    BY DEF EnsureVolume, CreateNetwork, RunContainer, RunRaises, RemakeSftp,
           AddContainer, IInv, TypeInv, DataOK
  <1>4. Directory!OnlyChanges(n)
    BY <1>1, StepsAreConfined DEF Directory!Stray, IInv
  <1>5. UNCHANGED SlugsLive
    BY <1>1 DEF SlugsLive, Live
  <1> QED
    BY <1>2, <1>3, <1>4, <1>5 DEF Directory!Build, SlugsLive

(* Removing a resource is a Dismantle.                                       *)
LEMMA RemoveIsDismantle ==
    ASSUME IInv, IInv', NEW w \in Workers, RemoveResource(w),
           NEW n \in Slugs, n = Slug(w), n \notin Disowned
    PROVE  Directory!Dismantle(n)
  <1> USE DEF registry, host, shared
  <1>1. job[w] = "destroy" /\ at[w] <= 17 /\ Moves(w) /\ UNCHANGED rows
    BY DestroyIndex DEF RemoveResource, IInv, Moves, Progress, DestroyStep
  <1>2. n \in SlugsLive
    <2>1. TearsDownFor(w) /\ n \notin clashed
      BY DEF IInv, TearsDown, TearsDownFor, Disowned
    <2> QED
      BY <1>1, <2>1 DEF TearsDownFor, SlugsLive, Slug
  <1>3. res'[n] \subseteq res[n]
    BY DEF RemoveResource, IInv, TypeInv, DataOK
  <1>4. Directory!OnlyChanges(n)
    BY <1>1, StepsAreConfined DEF Directory!Stray, IInv
  <1>5. UNCHANGED SlugsLive
    BY <1>1 DEF SlugsLive, Live
  <1> QED
    BY <1>2, <1>3, <1>4, <1>5 DEF Directory!Dismantle, SlugsLive

(* Inserting the row is GoLive: the unique index over slugs keeps it new.    *)
LEMMA RegisterIsGoLive ==
    ASSUME IInv, NEW w \in Workers, Register(w),
           NEW n \in Slugs, n = Slug(w), n \notin Disowned
    PROVE  Directory!GoLive(n)
  <1>1. n \notin SlugsLive
    BY DEF Register, IndexesAllow, SlugsLive, Live, Slug
  <1>2. SlugsLive' = SlugsLive \cup {n}
    <2>1. \A e \in Live' : e \in Live \/ e = target[w]
      BY DEF Register, Live
    <2>2. \A e \in Live : e \in Live'
      BY DEF Register, Live
    <2>3. target[w] \in Live'
      <3>1. [domain |-> target[w], port |-> port[w]] \in rows'
        BY DEF Register
      <3> QED
        BY <3>1 DEF Live
    <2> QED
      BY <2>1, <2>2, <2>3 DEF SlugsLive, Slug
  <1>3. Resources \ {"waf"} \subseteq res[n] /\ UNCHANGED res
    BY WholeAtRegister DEF IInv, Register, host, Disowned
  <1> QED
    BY <1>1, <1>2, <1>3 DEF Directory!GoLive, SlugsLive

(* Marking the row destroyed is Retire.                                      *)
LEMMA MarkIsRetire ==
    ASSUME IInv, NEW w \in Workers, MarkDestroyed(w),
           NEW n \in Slugs, n = Slug(w), n \notin Disowned
    PROVE  Directory!Retire(n)
  <1>1. target[w] \in Live /\ res[n] = {}
    BY NothingLeftAtMark DEF Disowned
  <1>2. SlugsLive' = SlugsLive \ {n}
    <2>1. \A e \in Live' : e \in Live /\ e # target[w]
      BY DEF MarkDestroyed, Live
    <2>2. \A e \in Live : e # target[w] => e \in Live'
      BY DEF MarkDestroyed, Live
    <2>3. \A e \in Live : e # target[w] => SlugOf[e] # n
      BY <1>1 DEF IInv, RegistryUnique, Live, Slug
    <2> QED
      BY <2>1, <2>2, <2>3 DEF SlugsLive, Slug
  <1>3. UNCHANGED res /\ n \in SlugsLive
    BY <1>1 DEF MarkDestroyed, host, SlugsLive, Slug
  <1> QED
    BY <1>1, <1>2, <1>3 DEF Directory!Retire, SlugsLive

(* Beginning an operation leaves the directory alone, or disowns its tenant. *)
LEMMA BeginDisowns ==
    ASSUME NEW w \in Workers, NEW d \in Domains, Begin(w, d)
    PROVE  Directory!Disown(SlugOf[d]) \/ UNCHANGED (Directory!vars)
  <1>1. UNCHANGED <<rows, res>> /\ clashed' \in {clashed, clashed \cup {SlugOf[d]}}
    BY DEF Begin, BeginCreate, BeginRestore, BeginDestroy, Start, registry, host
  <1>2. UNCHANGED <<SlugsLive, res, Shared>>
    BY <1>1 DEF SlugsLive, Live, Shared
  <1> QED
    BY <1>1, <1>2 DEF Directory!Disown, Directory!vars, SlugsLive, Disowned

(* Every step is a step of the directory or leaves it alone.                 *)
LEMMA StepRefines ==
    ASSUME IInv, IInv', [Next]_vars
    PROVE  [Directory!Next]_(Directory!vars)
  <1>1. CASE UNCHANGED vars
    BY <1>1 DEF vars, Directory!vars, Live, Disowned, Shared
  <1>2. ASSUME NEW w \in Workers, NEW d \in Domains, Begin(w, d)
        PROVE  [Directory!Next]_(Directory!vars)
    <2>1. SlugOf[d] \in Slugs
      BY DEF Slugs
    <2> QED
      BY <1>2, <2>1, BeginDisowns DEF Directory!Next
  <1>3. ASSUME NEW w \in Workers, Moves(w)
        PROVE  [Directory!Next]_(Directory!vars)
    <2>1. PICK n \in Slugs : n = Slug(w)
      BY <1>3, MoverMoves, SlugType DEF IInv, TypeInv
    <2>2. Directory!Stray(n) /\ UNCHANGED Disowned
      BY <1>3, <2>1, StepsAreConfined DEF IInv
    <2>3. CASE n \in Disowned
      BY <2>1, <2>2, <2>3 DEF Directory!Next
    <2>4. CASE /\ n \notin Disowned
               /\ \/ EnsureVolume(w) \/ CreateNetwork(w) \/ RunContainer(w)
                  \/ RunRaises(w) \/ RemakeSftp(w) \/ Register(w)
                  \/ RemoveResource(w) \/ MarkDestroyed(w)
      <3>1. Directory!Keep(n)
        BY <2>1, <2>4, BuildIsBuild, RegisterIsGoLive, RemoveIsDismantle,
           MarkIsRetire DEF Directory!Keep
      <3> QED
        BY <2>1, <2>2, <2>4, <3>1 DEF Directory!Next
    <2>5. CASE UNCHANGED <<rows, res>>
      BY <2>2, <2>5 DEF Directory!vars, Live
    <2>6. \/ UNCHANGED <<rows, res>>
          \/ EnsureVolume(w) \/ CreateNetwork(w) \/ RunContainer(w)
          \/ RunRaises(w) \/ RemakeSftp(w) \/ Register(w)
          \/ RemoveResource(w) \/ MarkDestroyed(w)
      BY <1>3 DEF Moves, registry, host, Progress, CreateStep, AllocatePort,
                  PassOver, InstallJail, DestroyStep, RemoveJail, RefreshStep,
                  ListTenants, WriteRoutingTable, WriteMailMaps, DropWebmail,
                  RunWebmail, LoadMailMaps, Refused, Abort
    <2> QED
      BY <2>3, <2>4, <2>5, <2>6
  <1> QED
    BY <1>1, <1>2, <1>3 DEF Next, Moves

(* The provisioner implements the tenant directory: parts are added only to  *)
(* tenants that are not live and taken only from tenants that are, a tenant   *)
(* becomes live whole and stops being live empty.  A tenant is disowned when *)
(* two operations on its slug overlap, or when two domains share the slug;   *)
(* what is done to it then still changes no other tenant.                    *)
THEOREM LifecycleImplementsDirectory == Spec => ImplementsDirectory
  <1>1. Init => Directory!Init
    <2> SUFFICES ASSUME Init PROVE Directory!Init
      OBVIOUS
    <2>1. Live = {}
      BY DEF Init, Live
    <2>2. Disowned \in SUBSET Slugs
      BY DEF Init, Disowned, Shared
    <2> QED
      BY <2>1, <2>2 DEF Directory!Init, Init
  <1>2. IInv /\ IInv' /\ [Next]_vars => [Directory!Next]_(Directory!vars)
    BY StepRefines
  <1> QED
    BY <1>1, <1>2, InitIInv, IInvStep, PTL DEF Spec, ImplementsDirectory, Directory!Spec

-----------------------------------------------------------------------------
(* The derived tables after an operation nobody overlapped.                  *)

(* Where in RefreshPlan a worker is; at 9 a create has its jail left.        *)
RefreshIndex(w) == at[w] - (IF job[w] = "create" THEN 16 ELSE 17)

(* What a worker that is alone has put into the tables so far.               *)
TablesSoFar(w) ==
    /\ RefreshIndex(w) \in {2, 4, 7} => seen[w] = Live
    /\ RefreshIndex(w) > 2 => routing = Live
    /\ RefreshIndex(w) > 4 => mailmaps = Live
    /\ RefreshIndex(w) > 7 => webmail = {Live}
    /\ RefreshIndex(w) > 8 => relayed = Live

AloneInv ==
    \A w \in alone :
        /\ Busy(w) /\ \A v \in Workers : Busy(v) => v = w
        /\ TablesSoFar(w)

(* A worker's step in RefreshPlan, by its index.                             *)
LEMMA RefreshTable ==
    ASSUME ControlOK, NEW w \in Workers, Busy(w)
    PROVE  /\ RefreshIndex(w) \in Int /\ RefreshIndex(w) <= 9
           /\ RefreshIndex(w) = 1 => Step(w) = "list_routing"
           /\ RefreshIndex(w) = 2 => Step(w) = "write_routing"
           /\ RefreshIndex(w) = 3 => Step(w) = "list_maps"
           /\ RefreshIndex(w) = 4 => Step(w) = "write_maps"
           /\ RefreshIndex(w) = 5 => Step(w) = "drop_webmail"
           /\ RefreshIndex(w) = 6 => Step(w) = "list_webmail"
           /\ RefreshIndex(w) = 7 => Step(w) = "run_webmail"
           /\ RefreshIndex(w) = 8 => Step(w) = "load_maps"
           /\ RefreshIndex(w) = 9 => Step(w) = "jail_on"
  <1>1. job[w] = "create" \/ job[w] = "destroy"
    BY DEF ControlOK, Busy
  <1>2. CASE job[w] = "create"
    BY <1>2, StepTable, CreateTable DEF RefreshIndex
  <1>3. CASE job[w] = "destroy"
    BY <1>3, StepTable, DestroyTable DEF RefreshIndex
  <1> QED
    BY <1>1, <1>2, <1>3

(* No step past the registry has the name of a resource or an earlier step.  *)
LEMMA RefreshNames ==
    {"list_routing", "write_routing", "list_maps", "write_maps", "drop_webmail",
     "list_webmail", "run_webmail", "load_maps", "jail_on"}
      \cap (Resources \cup {"allocate", "register", "jail_off", "unregister"}) = {}
  BY DEF Resources, Volumes, Containers

(* The steps a restore passes over or undoes concern resources.              *)
LEMMA PlainResources == {"waf", "mail_volume"} \subseteq Resources
  BY DEF Resources, Volumes, Containers

(* A step past the registry that does not end the operation, or ends it      *)
(* without an exception, is the one the plan names.                          *)
LEMMA RefreshMove ==
    ASSUME TypeInv, NEW w \in Workers, Moves(w), RefreshIndex(w) > 0,
           ~Refused(w), ~Abort(w)
    PROVE  /\ rows' = rows /\ Advance(w)
           /\ RefreshIndex(w) \in {1, 3, 6} => ListTenants(w)
           /\ RefreshIndex(w) = 2 => WriteRoutingTable(w)
           /\ RefreshIndex(w) = 4 => WriteMailMaps(w)
           /\ RefreshIndex(w) = 5 => DropWebmail(w)
           /\ RefreshIndex(w) = 7 => RunWebmail(w)
           /\ RefreshIndex(w) = 8 => LoadMailMaps(w)
           /\ RefreshIndex(w) = 9 => InstallJail(w)
  <1>1. Busy(w) BY MoverMoves
  <1> DEFINE names == {"list_routing", "write_routing", "list_maps", "write_maps",
                       "drop_webmail", "list_webmail", "run_webmail", "load_maps",
                       "jail_on"}
  <1>2. Step(w) \in names
    BY <1>1, RefreshTable DEF TypeInv
  <1>3. Step(w) \notin Resources \cup {"allocate", "register", "jail_off", "unregister"}
    BY <1>2, RefreshNames
  <1>4. Volumes \subseteq Resources /\ Containers \subseteq Resources
        /\ "network" \in Resources
    BY ResourceKinds DEF Resources
  <1>5. RefreshStep(w) \/ InstallJail(w)
    BY <1>3, <1>4, PlainResources
    DEF Moves, Progress, CreateStep, AllocatePort, EnsureVolume, CreateNetwork,
         RunContainer, RunRaises, MayRun, PassOver, PassesOver, RemakeSftp,
         Register, Creating, DestroyStep, RemoveJail, RemoveResource,
         MarkDestroyed, Destroying
  <1>6. rows' = rows /\ Advance(w)
    BY <1>5 DEF RefreshStep, ListTenants, WriteRoutingTable, WriteMailMaps, DropWebmail,
                RunWebmail, LoadMailMaps, InstallJail, registry
  <1> QED
    BY <1>1, <1>5, <1>6, RefreshTable
    DEF RefreshStep, ListTenants, WriteRoutingTable, WriteMailMaps, DropWebmail,
        RunWebmail, LoadMailMaps, InstallJail, Creating, TypeInv

LEMMA AloneStep == TypeInv /\ AloneInv /\ [Next]_vars => AloneInv'
  <1> SUFFICES ASSUME TypeInv, AloneInv, [Next]_vars PROVE AloneInv'
    OBVIOUS
  <1>1. CASE UNCHANGED vars
    BY <1>1 DEF vars, AloneInv, TablesSoFar, RefreshIndex, Busy, Live
  <1>2. ASSUME NEW w \in Workers, NEW d \in Domains,
               Begin(w, d)
        PROVE  AloneInv'
    <2>1. PICK kind \in {"create", "destroy"}, tale \in Tale :
             ~Busy(w) /\ Start(w, kind, d, tale)
      BY <1>2 DEF Begin, BeginCreate, BeginRestore, BeginDestroy, Start, Tale
    <2>2. CASE \E v \in Workers : Busy(v)
      BY <2>1, <2>2 DEF Start, AloneInv
    <2>3. CASE ~\E v \in Workers : Busy(v)
      <3>1. alone' = {w} /\ job' = [job EXCEPT ![w] = kind] /\ at' = [at EXCEPT ![w] = 1]
        BY <2>1, <2>3 DEF Start
      <3>2. /\ job'[w] = kind /\ at'[w] = 1
            /\ \A v \in Workers : v # w => job'[v] = job[v]
        BY <3>1 DEF TypeInv, ControlOK
      <3>3. Busy(w)' /\ \A v \in Workers : Busy(v)' => v = w
        BY <2>3, <3>2 DEF Busy
      <3>4. RefreshIndex(w)' \in {-15, -16}
        BY <3>2 DEF RefreshIndex
      <3>5. TablesSoFar(w)'
        BY <3>4 DEF TablesSoFar
      <3> QED
        BY <3>1, <3>3, <3>5 DEF AloneInv
    <2> QED
      BY <2>2, <2>3
  <1>3. ASSUME NEW w \in Workers, Moves(w)
        PROVE  AloneInv'
    <2>1. Busy(w) /\ (Advance(w) \/ Stop(w) \/ RemakeSftp(w))
      BY <1>3, MoverMoves
    <2>2. CASE Stop(w)
      BY <2>2 DEF Stop, AloneInv
    <2>4. CASE RemakeSftp(w)
      <3>1. /\ job[w] = "create" /\ at[w] = 12
            /\ at' = [at EXCEPT ![w] = @ - 1]
            /\ UNCHANGED <<job, target, alone>>
        BY <2>4, RemakeControl DEF RemakeSftp, TypeInv
      <3>2. \A v \in alone : v = w
        BY <2>1 DEF AloneInv, TypeInv, ControlOK
      <3>3. TablesSoFar(w)'
        BY <3>1 DEF TablesSoFar, RefreshIndex, TypeInv, ControlOK
      <3> QED
        BY <3>1, <3>2, <3>3 DEF AloneInv, Busy
    <2>3. CASE Advance(w) /\ ~Stop(w)
      <3>0. Len(Program[job[w]]) = 25 /\ at[w] \in 1..25
        BY <2>1, StepTable DEF TypeInv
      <3>1. /\ at[w] # 25 /\ at' = [at EXCEPT ![w] = @ + 1]
            /\ UNCHANGED <<job, target, alone>>
        BY <2>3, <3>0 DEF Advance
      <3>2. RefreshIndex(w)' = RefreshIndex(w) + 1 /\ RefreshIndex(w) \in Int
        BY <3>0, <3>1 DEF RefreshIndex, TypeInv, ControlOK
      <3>3. SUFFICES ASSUME w \in alone PROVE TablesSoFar(w)'
        <4>1. \A v \in alone : v = w BY <2>1 DEF AloneInv, TypeInv, ControlOK
        <4> QED BY <3>1, <4>1 DEF AloneInv, Busy
      <3>4. ~Refused(w) /\ ~Abort(w)
        BY <2>3 DEF Refused, Abort, Raise
      <3>5. CASE RefreshIndex(w) <= 0
        BY <3>2, <3>5 DEF TablesSoFar
      <3>6. CASE RefreshIndex(w) > 0
        <4>1. TablesSoFar(w) /\ Live' = Live
          BY <1>3, <3>3, <3>4, <3>6, RefreshMove DEF AloneInv, Live
        <4>2. seen \in [Workers -> SUBSET Domains]
          BY DEF TypeInv, DataOK
        <4>3. RefreshIndex(w) < 9
          BY <3>0, <3>1 DEF RefreshIndex
        <4>4. CASE RefreshIndex(w) \in {1, 3, 6}
          <5>1. ListTenants(w) BY <1>3, <3>4, <3>6, <4>4, RefreshMove
          <5> QED BY <3>2, <4>1, <4>2, <4>4, <5>1 DEF ListTenants, TablesSoFar, shared
        <4>5. CASE RefreshIndex(w) = 2
          <5>1. WriteRoutingTable(w) BY <1>3, <3>4, <3>6, <4>5, RefreshMove
          <5> QED BY <3>2, <4>1, <4>5, <5>1 DEF WriteRoutingTable, TablesSoFar
        <4>6. CASE RefreshIndex(w) = 4
          <5>1. WriteMailMaps(w) BY <1>3, <3>4, <3>6, <4>6, RefreshMove
          <5> QED BY <3>2, <4>1, <4>6, <5>1 DEF WriteMailMaps, TablesSoFar
        <4>7. CASE RefreshIndex(w) = 5
          <5>1. DropWebmail(w) BY <1>3, <3>4, <3>6, <4>7, RefreshMove
          <5> QED BY <3>2, <4>1, <4>7, <5>1 DEF DropWebmail, TablesSoFar
        <4>8. CASE RefreshIndex(w) = 7
          <5>1. RunWebmail(w) BY <1>3, <3>4, <3>6, <4>8, RefreshMove
          <5> QED BY <3>2, <4>1, <4>8, <5>1 DEF RunWebmail, TablesSoFar
        <4>9. CASE RefreshIndex(w) = 8
          <5>1. LoadMailMaps(w) BY <1>3, <3>4, <3>6, <4>9, RefreshMove
          <5> QED BY <3>2, <4>1, <4>9, <5>1 DEF LoadMailMaps, TablesSoFar
        <4> QED
          BY <3>2, <3>6, <4>3, <4>4, <4>5, <4>6, <4>7, <4>8, <4>9
      <3> QED
        BY <3>2, <3>5, <3>6
    <2> QED
      BY <2>1, <2>2, <2>3, <2>4
  <1> QED
    BY <1>1, <1>2, <1>3 DEF Next, Moves

LEMMA AloneCompletes ==
    ASSUME TypeInv, AloneInv, [Next]_vars, NEW w \in alone, Completes(w)
    PROVE  /\ routing' = Live' /\ mailmaps' = Live' /\ relayed' = Live'
           /\ webmail' = {Live'}
  <1>0. w \in Workers /\ Busy(w) BY DEF TypeInv, ControlOK, Completes
  <1>1. at[w] = 25 /\ at'[w] = 0 /\ ~IsRefused(w) /\ upsets' = upsets
    BY <1>0, StepTable DEF Completes, TypeInv
  <1>2. Moves(w)
    <2>1. CASE UNCHANGED vars BY <1>1, <2>1 DEF vars
    <2>2. ASSUME NEW v \in Workers, NEW d \in Domains,
                 Begin(v, d)
          PROVE  FALSE
      <3>1. v # w /\ at' = [at EXCEPT ![v] = 1]
        BY <1>0, <2>2 DEF Begin, BeginCreate, BeginRestore, BeginDestroy, Start
      <3> QED BY <1>0, <1>1, <3>1 DEF TypeInv, ControlOK
    <2>3. ASSUME NEW v \in Workers, Moves(v) PROVE v = w
      BY <2>3, MoverMoves DEF AloneInv
    <2> QED BY <2>1, <2>2, <2>3 DEF Next, Moves
  <1>3. ~Refused(w) /\ ~Abort(w)
    BY <1>1 DEF Refused, Abort, TypeInv, DataOK
  <1>4. TablesSoFar(w) BY DEF AloneInv
  <1>5. job[w] = "create" \/ job[w] = "destroy" BY <1>0 DEF TypeInv, ControlOK, Busy
  <1>6. CASE job[w] = "create"
    <2>1. RefreshIndex(w) = 9 BY <1>1, <1>6 DEF RefreshIndex
    <2>2. InstallJail(w) /\ rows' = rows BY <1>0, <1>2, <1>3, <2>1, RefreshMove
    <2> QED BY <1>4, <2>1, <2>2 DEF InstallJail, TablesSoFar, shared, Live
  <1>7. CASE job[w] = "destroy"
    <2>1. RefreshIndex(w) = 8 BY <1>1, <1>7 DEF RefreshIndex
    <2>2. LoadMailMaps(w) /\ rows' = rows BY <1>0, <1>2, <1>3, <2>1, RefreshMove
    <2> QED BY <1>4, <2>1, <2>2 DEF LoadMailMaps, TablesSoFar, Live
  <1> QED
    BY <1>5, <1>6, <1>7

(* An operation that nobody overlapped and that runs to its end leaves every *)
(* derived table naming the live tenants, whatever died or overlapped before *)
(* (provisioner.py:1117-1273): each list is read again before each rewrite.  *)
THEOREM TablesFollowAloneOperations == Spec => TablesFollowRegistry
  <1>1. TypeInv /\ AloneInv /\ [Next]_vars =>
            [\A w \in alone : Completes(w) =>
                /\ routing' = Live' /\ mailmaps' = Live' /\ relayed' = Live'
                /\ webmail' = {Live'}]_vars
    BY AloneCompletes
  <1>2. Init => AloneInv
    BY DEF Init, AloneInv
  <1> QED
    BY <1>1, <1>2, InitTypes, TypeStep, AloneStep, PTL DEF Spec, TablesFollowRegistry
=============================================================================

------------------------- MODULE BackupRequestsProofs -------------------------
(***************************************************************************)
(* Proofs about BackupRequests, for any tenants, clicks, forms, snapshots  *)
(* and upsets: the types, what the pass knows of a tenant's key at each    *)
(* stage, where every request comes from, and from these the invariants.   *)
(***************************************************************************)
EXTENDS BackupRequests, TLAPS

Destinations == {f.host : f \in Forms} \cup {NoHost}
Reqs ==
    [host : Destinations, enc : {"none", "generate", "own"},
     pasted : {"none", "good", "bad"}, port : {"ok", "bad"},
     restore : Clicks \cup {NoClick}, snap : Nat]
Statuses == [host : Destinations, enc : BOOLEAN, reveal : BOOLEAN]
Volumes ==
    [request : Reqs \cup {Absent, Unreadable}, status : Statuses \cup {Absent, Unreadable},
     marker : BOOLEAN]
Snapshots == [conf : Volumes, own : BOOLEAN, kept : SUBSET Stores]

\* Where the pass goes by the request it read.
Holding ==
    {"keys", "settings", "setkeys", "openscrub", "scrub", "restore", "openanswer", "answer"}
Passes ==
    [at : Holding \cup {"read", "marker", "backup", "status", "writestatus"}, t : Tenants,
     req : Reqs \cup {Absent}, hadKey : BOOLEAN, made : BOOLEAN, reveal : BOOLEAN]

\* A click with a request in it, and one that left a marker.
Submitted == [at : {"writing", "open", "done"}, tenant : Tenants, req : Reqs]
Marked == [at : {"done"}, tenant : Tenants]

Busy == pass # Resting
Holds == Busy /\ pass.at \in Holding

Types ==
    /\ click \in [Clicks -> {Unused} \cup Submitted \cup Marked]
    /\ conf \in [Tenants -> Volumes]
    /\ row \in [Tenants -> [host : Destinations, enc : BOOLEAN, key : BOOLEAN]]
    /\ taken \in [Tenants -> Seq(Snapshots)]
    /\ pass \in Passes \cup {Resting}
    /\ Holds => pass.req \in Reqs
    /\ served \in [Clicks -> Nat] /\ revived \in [Clicks -> Nat]
    /\ shown \in [Tenants -> Nat] /\ restores \in [Tenants -> Nat]

LEMMA TypesInit == Init => Types
<1> SUFFICES ASSUME Init PROVE Types
    OBVIOUS
<1>1. Fresh \in Volumes BY DEF Fresh, Volumes
<1>2. [host |-> NoHost, enc |-> FALSE, key |-> FALSE]
          \in [host : Destinations, enc : BOOLEAN, key : BOOLEAN]
    BY DEF Destinations
<1>3. ~Holds BY DEF Init, Holds, Busy
<1> QED BY <1>1, <1>2, <1>3 DEF Init, Types

\* The file that is there, if it is a record.
LEMMA FileTypes ==
    ASSUME Types, NEW t \in Tenants
    PROVE  /\ conf[t] \in Volumes
           /\ IsRecord(conf[t].request) => conf[t].request \in Reqs
           /\ conf[t].request # Unreadable /\ conf[t].request # Absent =>
                  conf[t].request \in Reqs
           /\ Status(t).host \in Destinations /\ Status(t).enc \in BOOLEAN
<1>1. conf[t] \in Volumes BY DEF Types
<1>2. conf[t].request \in Reqs \cup {Absent, Unreadable}
      /\ conf[t].status \in Statuses \cup {Absent, Unreadable}
    BY <1>1 DEF Volumes
<1>3. Status(t) \in Statuses
    BY <1>2 DEF Status, NoStatus, Statuses, Destinations, IsRecord
<1> QED BY <1>1, <1>2, <1>3 DEF IsRecord, Statuses

\* Volumes with another request, status or marker.
LEMMA VolumeEdits ==
    ASSUME NEW v \in Volumes, NEW r \in Reqs \cup {Absent, Unreadable},
           NEW s \in Statuses \cup {Absent, Unreadable}, NEW m \in BOOLEAN
    PROVE  /\ [v EXCEPT !.request = r] \in Volumes /\ [v EXCEPT !.status = s] \in Volumes
           /\ [v EXCEPT !.marker = m] \in Volumes
           /\ [v EXCEPT !.request = r].request = r
           /\ [v EXCEPT !.status = s].request = v.request
           /\ [v EXCEPT !.marker = m].request = v.request
BY DEF Volumes

\* What a click of the owners does.
LEMMA ClickTypes ==
    ASSUME Types, NEW c \in Clicks, Click(c)
    PROVE  Types'
<1> DEFINE t == click[c].tenant
<1>1. CASE OpenRequest(c)
    <2>1. click[c] \in Submitted
        BY <1>1 DEF OpenRequest, Types, Unused, Marked, Submitted
    <2>2. t \in Tenants /\ [click[c] EXCEPT !.at = "open"] \in Submitted
        BY <2>1 DEF Submitted
    <2>3. click' = [click EXCEPT ![c] = [click[c] EXCEPT !.at = "open"]]
        BY <1>1 DEF OpenRequest, Types
    <2>4. conf' = [conf EXCEPT ![t] = [conf[t] EXCEPT !.request = Unreadable]]
        BY <1>1, <2>2 DEF OpenRequest, Types
    <2>5. conf' \in [Tenants -> Volumes]
        BY ZenonT(40), <2>2, <2>4, FileTypes, VolumeEdits DEF Types, Volumes
    <2>6. click' \in [Clicks -> {Unused} \cup Submitted \cup Marked]
        BY <2>2, <2>3 DEF Types
    <2>7. Holds' <=> Holds BY <1>1 DEF OpenRequest, Holds, Busy
    <2> QED BY <1>1, <2>5, <2>6, <2>7 DEF OpenRequest, Types
<1>2. CASE WriteRequest(c)
    <2>1. click[c] \in Submitted
        BY <1>2 DEF WriteRequest, Types, Unused, Marked, Submitted
    <2>2. /\ t \in Tenants /\ [click[c] EXCEPT !.at = "done"] \in Submitted
          /\ click[c].req \in Reqs
        BY <2>1 DEF Submitted
    <2>3. click' = [click EXCEPT ![c] = [click[c] EXCEPT !.at = "done"]]
        BY <1>2 DEF WriteRequest, Types
    <2>4. PICK text \in {click[c].req, Unreadable} :
              conf' = [conf EXCEPT ![t] = [conf[t] EXCEPT !.request = text]]
        BY <1>2, <2>2 DEF WriteRequest, Types
    <2>5. conf' \in [Tenants -> Volumes]
        BY ZenonT(40), <2>2, <2>4, FileTypes, VolumeEdits DEF Types, Volumes
    <2>6. click' \in [Clicks -> {Unused} \cup Submitted \cup Marked]
        BY <2>2, <2>3 DEF Types
    <2>7. Holds' <=> Holds BY <1>2 DEF WriteRequest, Holds, Busy
    <2> QED BY <1>2, <2>5, <2>6, <2>7 DEF WriteRequest, Types
<1>3. ASSUME NEW u \in Tenants, SaveSettings(c, u) PROVE Types'
    <2>1. PICK f \in Forms :
              click' = [click EXCEPT ![c] =
                  [at |-> "writing", tenant |-> u,
                   req |-> [host |-> f.host, enc |-> f.enc, pasted |-> f.pasted,
                            port |-> f.port, restore |-> NoClick, snap |-> 0]]]
        BY <1>3 DEF SaveSettings
    <2> DEFINE r == [host |-> f.host, enc |-> f.enc, pasted |-> f.pasted,
                     port |-> f.port, restore |-> NoClick, snap |-> 0]
    <2>2. r \in Reqs BY FormAssumption DEF Reqs, Destinations
    <2> HIDE DEF r
    <2>3. [at |-> "writing", tenant |-> u, req |-> r] \in Submitted
        BY <2>2 DEF Submitted
    <2>4. click' \in [Clicks -> {Unused} \cup Submitted \cup Marked]
        BY <2>1, <2>3 DEF Types, r
    <2>5. Holds' <=> Holds BY <1>3 DEF SaveSettings, Holds, Busy
    <2> QED BY <1>3, <2>4, <2>5 DEF SaveSettings, Types
<1>4. ASSUME NEW u \in Tenants, AskRestore(c, u) PROVE Types'
    <2>1. PICK s \in DOMAIN taken[u] :
              click' = [click EXCEPT ![c] =
                  [at |-> "writing", tenant |-> u,
                   req |-> [host |-> Status(u).host,
                            enc |-> IF Status(u).enc THEN "generate" ELSE "none",
                            pasted |-> "none", port |-> "ok", restore |-> c, snap |-> s]]]
        BY <1>4 DEF AskRestore
    <2> DEFINE r == [host |-> Status(u).host,
                     enc |-> IF Status(u).enc THEN "generate" ELSE "none",
                     pasted |-> "none", port |-> "ok", restore |-> c, snap |-> s]
    <2>2. s \in Nat
        <3>1. taken[u] \in Seq(Snapshots) BY DEF Types
        <3> QED BY <3>1
    <2>3. r \in Reqs BY <2>2, FileTypes DEF Reqs
    <2> HIDE DEF r
    <2>4. [at |-> "writing", tenant |-> u, req |-> r] \in Submitted
        BY <2>3 DEF Submitted
    <2>5. click' \in [Clicks -> {Unused} \cup Submitted \cup Marked]
        BY <2>1, <2>4 DEF Types, r
    <2>6. Holds' <=> Holds BY <1>4 DEF AskRestore, Holds, Busy
    <2> QED BY <1>4, <2>5, <2>6 DEF AskRestore, Types
<1>5. ASSUME NEW u \in Tenants, BackupNow(c, u) PROVE Types'
    <2>1. [at |-> "done", tenant |-> u] \in Marked BY DEF Marked
    <2>2. click' \in [Clicks -> {Unused} \cup Submitted \cup Marked]
        BY <1>5, <2>1 DEF BackupNow, Types
    <2>3. conf' = [conf EXCEPT ![u] = [conf[u] EXCEPT !.marker = TRUE]]
        BY <1>5 DEF BackupNow, Types
    <2>4. conf' \in [Tenants -> Volumes]
        BY <2>3, FileTypes, VolumeEdits DEF Types, Volumes
    <2>5. Holds' <=> Holds BY <1>5 DEF BackupNow, Holds, Busy
    <2> QED BY <1>5, <2>2, <2>4, <2>5 DEF BackupNow, Types
<1> QED BY <1>1, <1>2, <1>3, <1>4, <1>5 DEF Click

-----------------------------------------------------------------------------
Stages == Holding \cup {"read", "marker", "backup", "status", "writestatus"}

LEMMA BusyPass ==
    ASSUME Types
    PROVE  /\ \A a \in Stages : In(a) => Busy
           /\ Busy => /\ pass \in Passes /\ pass.t \in Tenants /\ pass.at \in Stages
                      /\ pass.req \in Reqs \cup {Absent}
                      /\ {pass.hadKey, pass.made, pass.reveal} \subseteq BOOLEAN
           /\ \A q \in Passes : q # Resting
BY DEF Types, Busy, Passes, Stages, Holding, Resting, In

LEMMA GotoFields ==
    ASSUME Types, Busy, NEW a \in Stages, Goto(a), a \in Holding => pass.req \in Reqs
    PROVE  /\ pass' \in Passes /\ Busy' /\ pass'.at = a /\ pass'.t = pass.t
           /\ pass'.req = pass.req /\ pass'.hadKey = pass.hadKey
           /\ pass'.made = pass.made /\ pass'.reveal = pass.reveal
           /\ Holds' => pass'.req \in Reqs
<1>1. pass \in Passes BY BusyPass
<1>2. /\ pass' \in Passes /\ pass'.at = a /\ pass'.t = pass.t
      /\ pass'.req = pass.req /\ pass'.hadKey = pass.hadKey
      /\ pass'.made = pass.made /\ pass'.reveal = pass.reveal
    BY <1>1 DEF Goto, Passes, Stages
<1>3. Busy' BY <1>2, BusyPass DEF Busy
<1> QED BY <1>2, <1>3 DEF Holds

LEMMA TurnFields ==
    ASSUME NEW t \in Tenants
    PROVE  /\ Turn(t) \in Passes /\ Turn(t).at = "read" /\ Turn(t).t = t
           /\ Turn(t).reveal = FALSE /\ Turn(t) # Resting
BY DEF Turn, Passes, Resting

LEMMA MarkerFields ==
    ASSUME Types, Busy, ToMarker
    PROVE  /\ pass' \in Passes /\ Busy' /\ pass'.at = "marker" /\ pass'.t = pass.t
           /\ pass'.reveal = pass.reveal /\ ~Holds'
<1>1. pass \in Passes /\ pass.t \in Tenants /\ pass.reveal \in BOOLEAN BY BusyPass
<1>2. /\ pass' \in Passes /\ pass'.at = "marker" /\ pass'.t = pass.t
      /\ pass'.reveal = pass.reveal
    BY <1>1 DEF ToMarker, Turn, Passes
<1>3. Busy' BY <1>2, BusyPass DEF Busy
<1> QED BY <1>2, <1>3 DEF Holds, Holding

\* The tenant whose turn it is next, if any is left.
LEMMA NextFields ==
    ASSUME Types, Busy, pass' = NextTenant
    PROVE  /\ pass' \in Passes \cup {Resting} /\ ~Holds'
           /\ Busy' => pass'.at = "read" /\ ~pass'.reveal
<1>1. pass.t \in Tenants BY BusyPass
<1>2. CASE pass.t < NumTenants
    <2>1. pass.t + 1 \in Tenants BY <1>1, <1>2, CountAssumption DEF Tenants
    <2> QED BY <1>2, <2>1, TurnFields DEF NextTenant, Holds, Holding
<1>3. CASE ~(pass.t < NumTenants) BY <1>3 DEF NextTenant, Holds, Busy
<1> QED BY <1>2, <1>3

\* Pruning takes copies away and nothing else.
LEMMA PrunedTypes ==
    ASSUME NEW list \in Seq(Snapshots)
    PROVE  /\ Pruned(list) \in Seq(Snapshots) /\ Len(Pruned(list)) = Len(list)
           /\ \A s \in DOMAIN list : Pruned(list)[s].conf = list[s].conf
<1> DEFINE Left(s) == {d \in list[s].kept :
               Cardinality({u \in DOMAIN list : u > s /\ d \in list[u].kept}) < Retention}
           New(s) == [list[s] EXCEPT !.kept = Left(s)]
<1>1. Pruned(list) = [s \in DOMAIN list |-> New(s)] BY DEF Pruned
<1>2. \A s \in DOMAIN list : list[s] \in Snapshots /\ Left(s) \subseteq list[s].kept
    OBVIOUS
<1> HIDE DEF Left
<1>3. \A s \in DOMAIN list : New(s) \in Snapshots /\ New(s).conf = list[s].conf
    BY <1>2 DEF Snapshots
<1> HIDE DEF New
<1>4. DOMAIN list = 1..Len(list) /\ Len(list) \in Nat OBVIOUS
<1> QED BY <1>1, <1>3, <1>4

\* A snapshot of a volume.
LEMMA SnapshotTypes ==
    ASSUME Types, NEW t \in Tenants, Snapshot(t)
    PROVE  /\ taken' \in [Tenants -> Seq(Snapshots)]
           /\ Len(taken[t]) < MaxBackups /\ Len(taken'[t]) = Len(taken[t]) + 1
           /\ \A u \in Tenants :
                  /\ u # t => taken'[u] = taken[u]
                  /\ DOMAIN taken[u] \subseteq DOMAIN taken'[u]
                  /\ \A s \in DOMAIN taken'[u] :
                         \/ s \in DOMAIN taken[u] /\ taken'[u][s].conf = taken[u][s].conf
                         \/ u = t /\ taken'[u][s].conf = conf[t]
<1> DEFINE own == row[t].host # NoHost
           new == [conf |-> conf[t], own |-> own,
                   kept |-> IF own THEN Stores ELSE {"operator"}]
           list == Append(taken[t], new)
           left == Pruned(list)
<1>1. new \in Snapshots BY DEF Types, Snapshots, Stores
<1>2. taken' = [taken EXCEPT ![t] = left] /\ Len(taken[t]) < MaxBackups
    BY DEF Snapshot, Types
<1>3. new.conf = conf[t] OBVIOUS
<1> HIDE DEF new
<1>4. taken[t] \in Seq(Snapshots) BY DEF Types
<1>5. /\ list \in Seq(Snapshots) /\ Len(list) = Len(taken[t]) + 1
      /\ DOMAIN taken[t] \subseteq DOMAIN list
      /\ \A s \in DOMAIN list : \/ s \in DOMAIN taken[t] /\ list[s] = taken[t][s]
                                \/ list[s] = new
    BY <1>1, <1>4
<1> HIDE DEF list
<1>6. /\ left \in Seq(Snapshots) /\ Len(left) = Len(list) /\ DOMAIN left = DOMAIN list
      /\ \A s \in DOMAIN list : left[s].conf = list[s].conf
    <2>1. /\ left \in Seq(Snapshots) /\ Len(left) = Len(list)
          /\ \A s \in DOMAIN list : left[s].conf = list[s].conf
        BY <1>5, PrunedTypes
    <2> HIDE DEF left
    <2> QED BY <1>5, <2>1
<1> HIDE DEF left
<1>7. taken' \in [Tenants -> Seq(Snapshots)] BY <1>2, <1>6 DEF Types
<1>8. \A u \in Tenants : taken'[u] = IF u = t THEN left ELSE taken[u]
    BY <1>2 DEF Types
<1> QED BY <1>2, <1>3, <1>5, <1>6, <1>7, <1>8

\* A volume as a snapshot has it.
LEMMA BringBackTypes ==
    ASSUME Types, NEW t \in Tenants, NEW s \in DOMAIN taken[t], BringBack(t, s)
    PROVE  /\ conf' \in [Tenants -> Volumes] /\ taken[t][s].conf \in Volumes
           /\ conf'[t] = taken[t][s].conf
           /\ \A u \in Tenants : u # t => conf'[u] = conf[u]
           /\ click' \in [Clicks -> {Unused} \cup Submitted \cup Marked]
           /\ \A c \in Clicks :
                  \/ click'[c] = click[c]
                  \/ /\ click[c] \in Submitted /\ click[c].at = "open"
                     /\ click[c].tenant = t
                     /\ click'[c] = [click[c] EXCEPT !.at = "done"]
           /\ shown' \in [Tenants -> Nat] /\ restores' \in [Tenants -> Nat]
           /\ \A u \in Tenants : /\ u # t => /\ shown'[u] = shown[u]
                                            /\ restores'[u] = restores[u]
                                /\ shown'[u] >= shown[u]
           /\ restores'[t] = restores[t] + 1
           /\ shown'[t] = IF TellsKey(taken[t][s].conf.status) THEN shown[t] + 1 ELSE shown[t]
<1>0. /\ shown' \in [Tenants -> Nat] /\ restores' \in [Tenants -> Nat]
      /\ \A u \in Tenants : /\ u # t => shown'[u] = shown[u] /\ restores'[u] = restores[u]
                           /\ shown'[u] >= shown[u]
      /\ restores'[t] = restores[t] + 1
      /\ shown'[t] = IF TellsKey(taken[t][s].conf.status) THEN shown[t] + 1 ELSE shown[t]
    <2> DEFINE tells == TellsKey(taken[t][s].conf.status)
    <2>1. /\ shown' = [shown EXCEPT ![t] = IF tells THEN shown[t] + 1 ELSE shown[t]]
          /\ restores' = [restores EXCEPT ![t] = restores[t] + 1]
        BY DEF BringBack, Types
    <2>2. shown \in [Tenants -> Nat] /\ restores \in [Tenants -> Nat] BY DEF Types
    <2> HIDE DEF tells
    <2>3. /\ shown' \in [Tenants -> Nat] /\ restores' \in [Tenants -> Nat]
          /\ \A u \in Tenants : /\ u # t => shown'[u] = shown[u] /\ restores'[u] = restores[u]
                               /\ shown'[u] >= shown[u]
          /\ restores'[t] = restores[t] + 1
          /\ shown'[t] = IF tells THEN shown[t] + 1 ELSE shown[t]
        BY <2>1, <2>2
    <2> QED BY <2>3 DEF tells
<1>1. taken[t] \in Seq(Snapshots) BY DEF Types
<1>2. taken[t][s] \in Snapshots BY <1>1
<1>3. taken[t][s].conf \in Volumes BY <1>2 DEF Snapshots
<1>4. conf' = [conf EXCEPT ![t] = taken[t][s].conf] BY DEF BringBack
<1>5. \A c \in Clicks :
          \/ click'[c] = click[c]
          \/ /\ click[c] \in Submitted /\ click[c].at = "open" /\ click[c].tenant = t
             /\ click'[c] = [click[c] EXCEPT !.at = "done"]
    BY DEF BringBack, Types, Unused, Marked
<1>6. \A k \in Submitted : [k EXCEPT !.at = "done"] \in Submitted BY DEF Submitted
<1>7. click' \in [Clicks -> {Unused} \cup Submitted \cup Marked]
    <2>1. \A c \in Clicks : click'[c] \in {Unused} \cup Submitted \cup Marked
        <3> SUFFICES ASSUME NEW c \in Clicks
                     PROVE  click'[c] \in {Unused} \cup Submitted \cup Marked
            OBVIOUS
        <3>1. CASE click'[c] = click[c] BY <3>1 DEF Types
        <3>2. CASE click'[c] # click[c]
            <4>1. click[c] \in Submitted /\ click'[c] = [click[c] EXCEPT !.at = "done"]
                BY <1>5, <3>2
            <4>2. click'[c] \in Submitted BY <1>6, <4>1
            <4> QED BY <4>2
        <3> QED BY <3>1, <3>2
    <2>2. click' = [c \in Clicks |-> click'[c]] BY DEF BringBack
    <2> QED BY <2>1, <2>2
<1> QED BY <1>0, <1>3, <1>4, <1>5, <1>7 DEF Types

\* A request file written anew, whatever becomes of it.
LEMMA RequestTypes ==
    ASSUME Types, NEW t \in Tenants, NEW r \in Reqs \cup {Absent, Unreadable},
           conf' = [conf EXCEPT ![t].request = r]
    PROVE  /\ conf' \in [Tenants -> Volumes] /\ conf'[t].request = r
           /\ \A u \in Tenants : u # t => conf'[u] = conf[u]
<1>1. conf[t] \in Volumes BY DEF Types
<1> DEFINE v == [conf[t] EXCEPT !.request = r]
<1>2. v \in Volumes /\ v.request = r BY <1>1, VolumeEdits DEF Volumes
<1>3. conf' = [conf EXCEPT ![t] = v] BY DEF Types
<1> HIDE DEF v
<1> QED BY <1>2, <1>3 DEF Types

\* A file of a volume changes, and the status stays.
LEMMA RequestOnly ==
    ASSUME Types, NEW t \in Tenants, NEW x, conf' = [conf EXCEPT ![t].request = x]
    PROVE  \A u \in Tenants : conf'[u].status = conf[u].status
<1> DEFINE v == [conf[t] EXCEPT !.request = x]
<1>1. conf[t] \in Volumes BY DEF Types
<1>2. v.status = conf[t].status BY <1>1 DEF Volumes
<1>3. conf' = [conf EXCEPT ![t] = v] BY DEF Types
<1> HIDE DEF v
<1> QED BY <1>2, <1>3 DEF Types

LEMMA MarkerOnly ==
    ASSUME Types, NEW t \in Tenants, NEW x, conf' = [conf EXCEPT ![t].marker = x]
    PROVE  \A u \in Tenants : conf'[u].status = conf[u].status
<1> DEFINE v == [conf[t] EXCEPT !.marker = x]
<1>1. conf[t] \in Volumes BY DEF Types
<1>2. v.status = conf[t].status BY <1>1 DEF Volumes
<1>3. conf' = [conf EXCEPT ![t] = v] BY DEF Types
<1> HIDE DEF v
<1> QED BY <1>2, <1>3 DEF Types

-----------------------------------------------------------------------------
LEMMA PassTypes ==
    ASSUME Types, PassStep \/ StartPass \/ Crash,
           Holds /\ pass.req.restore # NoClick => pass.req.snap \in DOMAIN taken[pass.t]
    PROVE  Types'
<1> USE DEF In
<1>0. /\ Holding \subseteq Stages
      /\ \A a \in Stages : In(a) => Busy /\ pass \in Passes /\ pass.t \in Tenants
      /\ \A a \in Holding : In(a) => pass.req \in Reqs
    BY BusyPass DEF Stages, Types, Holds
<1>1. CASE StartPass
    <2>1. 1 \in Tenants BY CountAssumption DEF Tenants
    <2>2. pass' \in Passes /\ ~Holds'
        BY <1>1, <2>1, TurnFields DEF StartPass, Holds, Holding
    <2> QED BY <1>1, <2>2 DEF StartPass, Types
<1>2. CASE Crash
    <2>1. ~Holds' BY <1>2 DEF Crash, Holds, Busy
    <2>2. revived' \in [Clicks -> Nat] BY <1>2 DEF Crash, Types
    <2> QED BY <1>2, <2>1, <2>2 DEF Crash, Types
<1>3. CASE ReadRequest
    <2>1. Busy /\ pass \in Passes /\ pass.t \in Tenants BY <1>0, <1>3 DEF ReadRequest, Stages
    <2> DEFINE file == conf[pass.t].request
    <2>2. CASE file = Absent
        <3>1. (CASE file = Absent -> ToMarker
                 [] file = Unreadable -> Raise
                 [] OTHER -> pass' = [pass EXCEPT !.at = "keys", !.req = file,
                                                  !.hadKey = row[pass.t].key]) => ToMarker
            <4> HIDE DEF file
            <4> QED BY <2>2, AbsenceAssumption
        <3>2. ToMarker BY <1>3, <3>1 DEF ReadRequest
        <3> QED BY <1>3, <2>1, <3>2, MarkerFields DEF ReadRequest, Types
    <2>3. CASE file # Absent /\ file = Unreadable
        <3>1. ~Holds' BY <1>3, <2>3 DEF ReadRequest, Raise, Holds, Busy
        <3> QED BY <1>3, <2>3, <3>1 DEF ReadRequest, Raise, Types
    <2>4. CASE file # Absent /\ file # Unreadable
        <3>1. file \in Reqs BY <2>1, <2>4, FileTypes
        <3>2. row[pass.t].key \in BOOLEAN BY <2>1 DEF Types
        <3>3. pass' = [pass EXCEPT !.at = "keys", !.req = file, !.hadKey = row[pass.t].key]
            BY <1>3, <2>4 DEF ReadRequest
        <3>4. pass' \in Passes /\ pass'.req = file
            BY <2>1, <3>1, <3>2, <3>3 DEF Passes, Holding
        <3> QED BY <1>3, <3>1, <3>4 DEF ReadRequest, Types
    <2> QED BY <2>2, <2>3, <2>4
<1>4. CASE MakeKeys
    <2>1. Busy /\ pass \in Passes /\ pass.req \in Reqs
        BY <1>0, <1>4 DEF MakeKeys, Holding
    <2>2. CASE pass' = [pass EXCEPT !.at = "settings", !.made = TRUE]
        <3>1. pass' \in Passes /\ pass'.req = pass.req BY <2>1, <2>2 DEF Passes, Holding
        <3> QED BY <1>4, <2>1, <3>1 DEF MakeKeys, Types
    <2>3. CASE Goto("settings")
        <3>1. pass' \in Passes /\ pass'.req = pass.req
            BY <2>1, <2>3, GotoFields DEF Stages, Holding
        <3> QED BY <1>4, <2>1, <3>1 DEF MakeKeys, Types
    <2>4. CASE Raise
        <3>1. ~Holds' BY <2>4 DEF Raise, Holds, Busy
        <3> QED BY <1>4, <2>4, <3>1 DEF MakeKeys, Raise, Types
    <2> QED BY <1>4, <2>2, <2>3, <2>4 DEF MakeKeys
<1>5. CASE SetSettings
    <2>1. Busy /\ pass \in Passes /\ pass.req \in Reqs /\ pass.t \in Tenants
        BY <1>0, <1>5 DEF SetSettings, Holding, Stages
    <2>2. CASE pass.req.port = "bad"
        <3>0. Raise /\ UNCHANGED row BY <1>5, <2>2 DEF SetSettings
        <3>1. ~Holds' BY <3>0 DEF Raise, Holds, Busy
        <3> QED BY <1>5, <3>0, <3>1 DEF SetSettings, Raise, Types
    <2>3. CASE pass.req.port # "bad"
        <3>0. Goto("setkeys") BY <1>5, <2>3 DEF SetSettings
        <3>1. pass' \in Passes /\ pass'.req = pass.req
            BY <2>1, <3>0, GotoFields DEF Stages, Holding
        <3>2. NewHost(pass.t, pass.req) \in Destinations BY <2>1 DEF NewHost, Reqs
        <3> DEFINE h == NewHost(pass.t, pass.req)
                   e == pass.req.enc # "none"
                   new == [row[pass.t] EXCEPT !.host = h, !.enc = e]
        <3>3. row' = [row EXCEPT ![pass.t] = new]
            BY <1>5, <2>1, <2>3 DEF SetSettings, Types
        <3>4. e \in BOOLEAN OBVIOUS
        <3> HIDE DEF h, e
        <3>5. new \in [host : Destinations, enc : BOOLEAN, key : BOOLEAN]
            BY ZenonT(40), <2>1, <3>2, <3>4 DEF Types, h
        <3> HIDE DEF new
        <3>6. row' \in [Tenants -> [host : Destinations, enc : BOOLEAN, key : BOOLEAN]]
            BY <2>1, <3>3, <3>5 DEF Types
        <3> QED BY <1>5, <2>1, <3>1, <3>6 DEF SetSettings, Types
    <2> QED BY <2>2, <2>3
<1>6. CASE SetKeys
    <2>1. Busy /\ pass \in Passes /\ pass.req \in Reqs /\ pass.t \in Tenants
        BY <1>0, <1>6 DEF SetKeys, Holding, Stages
    <2>2. Reveals(pass.t) \in BOOLEAN /\ KeyKnown(pass.t) \in BOOLEAN
        BY <2>1 DEF Reveals, KeyKnown, Passes, Types
    <2> DEFINE a == IF pass.req.pasted # "none" THEN "openscrub" ELSE "restore"
               v == Reveals(pass.t)
               k == KeyKnown(pass.t)
               new == [row[pass.t] EXCEPT !.key = k]
    <2>3. a \in Holding BY DEF Holding
    <2>4. pass' = [pass EXCEPT !.reveal = v, !.at = a] BY <1>6 DEF SetKeys
    <2>5. row' = [row EXCEPT ![pass.t] = new] BY <1>6, <2>1 DEF SetKeys, Types
    <2> HIDE DEF a, v, k
    <2>6. pass' \in Passes /\ pass'.req = pass.req BY <2>1, <2>2, <2>3, <2>4 DEF Passes, v
    <2>7. new \in [host : Destinations, enc : BOOLEAN, key : BOOLEAN]
        BY <2>1, <2>2 DEF Types, k
    <2> HIDE DEF new
    <2>8. row' \in [Tenants -> [host : Destinations, enc : BOOLEAN, key : BOOLEAN]]
        BY <2>1, <2>5, <2>7 DEF Types
    <2> QED BY <1>6, <2>1, <2>6, <2>8 DEF SetKeys, Types
<1>7. ASSUME NEW a \in Holding, NEW b \in Holding, Reopen(a, b) PROVE Types'
    <2>1. Busy /\ pass.t \in Tenants /\ pass.req \in Reqs BY <1>0, <1>7 DEF Reopen
    <2>2. pass' \in Passes /\ (Holds' => pass'.req \in Reqs)
        BY <1>0, <1>7, <2>1, GotoFields DEF Reopen
    <2>3. conf' \in [Tenants -> Volumes] BY <1>7, <2>1, RequestTypes DEF Reopen
    <2> QED BY <1>7, <2>2, <2>3 DEF Reopen, Types
<1>8. ASSUME NEW text \in Reqs, Rewrite(text), Busy,
             pass' \in Passes, Holds' => pass'.req \in Reqs
      PROVE  Types'
    <2>1. PICK left \in {text, Unreadable} :
              conf' = [conf EXCEPT ![pass.t].request = left]
        BY <1>8 DEF Rewrite
    <2>2. conf' \in [Tenants -> Volumes] BY <1>8, <2>1, BusyPass, RequestTypes
    <2> QED BY <1>8, <2>2 DEF Rewrite, Types
<1>9. CASE WriteScrub
    <2>1. Busy /\ pass.req \in Reqs BY <1>0, <1>9 DEF WriteScrub, Holding
    <2>2. [pass.req EXCEPT !.pasted = "none"] \in Reqs BY <2>1 DEF Reqs
    <2>3. pass' \in Passes /\ (Holds' => pass'.req \in Reqs)
        BY <1>9, <2>1, GotoFields DEF WriteScrub, Stages, Holding
    <2> QED BY <1>8, <1>9, <2>1, <2>2, <2>3 DEF WriteScrub
<1>10. CASE WriteAnswer
    <2>1. Busy /\ pass.req \in Reqs BY <1>0, <1>10 DEF WriteAnswer, Holding
    <2>2. Remaining(pass.req) \in Reqs BY <2>1 DEF Remaining, Reqs
    <2> QED BY <1>8, <1>10, <2>1, <2>2, MarkerFields DEF WriteAnswer
<1>11. CASE Restore
    <2>1. Busy /\ pass.req \in Reqs /\ pass.t \in Tenants
        BY <1>0, <1>11 DEF Restore, Holding, Stages
    <2>2. CASE ToMarker /\ UNCHANGED <<click, conf, served, shown, restores>>
        BY <1>11, <2>1, <2>2, MarkerFields DEF Restore, Types
    <2>3. CASE pass.req.restore # NoClick
        <3>1. Goto("openanswer") BY <1>11, <2>3 DEF Restore
        <3>2. pass' \in Passes /\ pass'.req = pass.req
            BY <2>1, <3>1, GotoFields DEF Stages, Holding
        <3>3. CASE UNCHANGED <<click, conf, served, shown, restores>>
            BY <1>11, <2>1, <3>2, <3>3 DEF Restore, Types
        <3>4. CASE BringBack(pass.t, pass.req.snap)
                   /\ served' = [served EXCEPT ![pass.req.restore] = @ + 1]
            <4>1. Holds BY <1>11, <2>1 DEF Holds, Restore, Holding
            <4>2. pass.req.snap \in DOMAIN taken[pass.t] BY <2>3, <4>1
            <4>3. /\ conf' \in [Tenants -> Volumes]
                  /\ click' \in [Clicks -> {Unused} \cup Submitted \cup Marked]
                  /\ shown' \in [Tenants -> Nat] /\ restores' \in [Tenants -> Nat]
                BY <2>1, <3>4, <4>2, BringBackTypes
            <4>4. pass.req.restore \in Clicks BY <2>1, <2>3 DEF Reqs
            <4>5. served[pass.req.restore] \in Nat BY <4>4 DEF Types
            <4>6. served' \in [Clicks -> Nat] BY <3>4, <4>4, <4>5 DEF Types
            <4> QED BY <1>11, <2>1, <3>2, <4>3, <4>6 DEF Restore, Types
        <3> QED BY <1>11, <2>3, <3>3, <3>4 DEF Restore
    <2> QED BY <1>11, <2>2, <2>3 DEF Restore
<1>12. CASE TakeMarker
    <2>1. Busy /\ pass.t \in Tenants BY <1>0, <1>12 DEF TakeMarker, Stages
    <2> DEFINE a == IF conf[pass.t].marker THEN "backup" ELSE "status"
               v == [conf[pass.t] EXCEPT !.marker = FALSE]
    <2>2. a \in Stages \ Holding BY DEF Stages, Holding
    <2>3. conf' = [conf EXCEPT ![pass.t] = v] /\ Goto(a)
        BY <1>12, <2>1 DEF TakeMarker, Types
    <2>4. v \in Volumes BY <2>1, FileTypes, VolumeEdits DEF Volumes
    <2> HIDE DEF a, v
    <2>5. pass' \in Passes /\ ~Holds' BY <2>1, <2>2, <2>3, GotoFields DEF Holds
    <2>6. conf' \in [Tenants -> Volumes] BY <2>1, <2>3, <2>4 DEF Types
    <2> QED BY <1>12, <2>5, <2>6 DEF TakeMarker, Types
<1>13. CASE MakeBackup
    <2>1. Busy /\ pass.t \in Tenants BY <1>0, <1>13 DEF MakeBackup, Stages
    <2>2. pass' \in Passes /\ ~Holds'
        BY <1>13, <2>1, GotoFields DEF MakeBackup, Stages, Holds, Holding
    <2>3. taken' \in [Tenants -> Seq(Snapshots)]
        BY <1>13, <2>1, SnapshotTypes DEF MakeBackup, Types
    <2> QED BY <1>13, <2>2, <2>3 DEF MakeBackup, Types
<1>14. CASE OpenStatus
    <2>1. Busy /\ pass.t \in Tenants BY <1>0, <1>14 DEF OpenStatus, Stages
    <2>2. CASE pass' = NextTenant /\ UNCHANGED conf
        BY <1>14, <2>1, <2>2, NextFields DEF OpenStatus, Types
    <2>3. CASE Goto("writestatus") /\ conf' = [conf EXCEPT ![pass.t].status = Unreadable]
        <3> DEFINE v == [conf[pass.t] EXCEPT !.status = Unreadable]
        <3>1. v \in Volumes BY <2>1, FileTypes, VolumeEdits DEF Volumes
        <3>2. conf' = [conf EXCEPT ![pass.t] = v] BY <2>1, <2>3 DEF Types
        <3> HIDE DEF v
        <3>3. conf' \in [Tenants -> Volumes] BY <2>1, <3>1, <3>2 DEF Types
        <3>4. pass' \in Passes /\ ~Holds'
            BY <2>1, <2>3, GotoFields DEF Stages, Holds, Holding
        <3> QED BY <1>14, <3>3, <3>4 DEF OpenStatus, Types
    <2> QED BY <1>14, <2>2, <2>3 DEF OpenStatus
<1>15. CASE WriteStatus
    <2>1. Busy /\ pass.t \in Tenants /\ pass.reveal \in BOOLEAN
        BY <1>0, <1>15, BusyPass DEF WriteStatus, Stages
    <2> DEFINE s == [host |-> row[pass.t].host, enc |-> row[pass.t].enc,
                     reveal |-> pass.reveal]
               v == [conf[pass.t] EXCEPT !.status = s]
    <2>2. s \in Statuses BY <2>1 DEF Statuses, Types
    <2>3. conf' = [conf EXCEPT ![pass.t] = v] BY <1>15, <2>1 DEF WriteStatus, Types
    <2> HIDE DEF s
    <2>4. v \in Volumes BY <2>1, <2>2, FileTypes, VolumeEdits DEF Volumes
    <2> HIDE DEF v
    <2>5. conf' \in [Tenants -> Volumes] BY <2>1, <2>3, <2>4 DEF Types
    <2>6. shown' \in [Tenants -> Nat] BY <1>15, <2>1 DEF WriteStatus, Types
    <2>7. pass' \in Passes \cup {Resting} /\ ~Holds'
        BY <1>15, <2>1, NextFields DEF WriteStatus
    <2> QED BY <1>15, <2>5, <2>6, <2>7 DEF WriteStatus, Types
<1>16. CASE OpenScrub \/ OpenAnswer
    BY <1>7, <1>16 DEF OpenScrub, OpenAnswer, Holding
<1> QED
    BY <1>1, <1>2, <1>3, <1>4, <1>5, <1>6, <1>9, <1>10, <1>11, <1>12, <1>13, <1>14,
       <1>15, <1>16 DEF PassStep

-----------------------------------------------------------------------------
LEMMA CopyTypes ==
    ASSUME Types, NEW t \in Tenants, NightlyBackup(t)
    PROVE  Types'
<1>1. taken' \in [Tenants -> Seq(Snapshots)] BY SnapshotTypes DEF NightlyBackup
<1>2. Holds' <=> Holds BY DEF NightlyBackup, Holds, Busy
<1> QED BY <1>1, <1>2 DEF NightlyBackup, Types

LEMMA UndoTypes ==
    ASSUME Types, NEW t \in Tenants, NEW s \in DOMAIN taken[t], OperatorRestore(t, s)
    PROVE  Types'
<1>1. /\ conf' \in [Tenants -> Volumes]
      /\ click' \in [Clicks -> {Unused} \cup Submitted \cup Marked]
      /\ shown' \in [Tenants -> Nat] /\ restores' \in [Tenants -> Nat]
    BY BringBackTypes DEF OperatorRestore
<1>2. revived' \in [Clicks -> Nat] BY DEF OperatorRestore, Types
<1>3. Holds' <=> Holds BY DEF OperatorRestore, Holds, Busy
<1> QED BY <1>1, <1>2, <1>3 DEF OperatorRestore, Types

-----------------------------------------------------------------------------
\* The clicks on their way to the file.
Early == {"unused", "writing", "open"}

\* A click keeps its request and its tenant, and once it is done it stays.
ClicksGo ==
    \A c \in Clicks :
        /\ click[c] \in Submitted =>
               /\ click'[c] \in Submitted
               /\ click'[c].req = click[c].req /\ click'[c].tenant = click[c].tenant
        /\ click'[c].at \in Early => click[c].at \in Early

KeysStay == \A t \in Tenants : row[t].key => row'[t].key

SnapshotsStay == \A t \in Tenants : DOMAIN taken[t] \subseteq DOMAIN taken'[t]

LEMMA ClickGoes ==
    ASSUME Types, NEW c \in Clicks, Click(c)
    PROVE  ClicksGo
<1>1. click[c] \in Submitted =>
          /\ [click[c] EXCEPT !.at = "open"] \in Submitted
          /\ [click[c] EXCEPT !.at = "done"] \in Submitted
          /\ [click[c] EXCEPT !.at = "open"].req = click[c].req
          /\ [click[c] EXCEPT !.at = "open"].tenant = click[c].tenant
          /\ [click[c] EXCEPT !.at = "done"].req = click[c].req
          /\ [click[c] EXCEPT !.at = "done"].tenant = click[c].tenant
          /\ [click[c] EXCEPT !.at = "done"].at = "done"
    BY DEF Submitted
<1>2. click \in [Clicks -> {Unused} \cup Submitted \cup Marked] BY DEF Types
<1>3. Unused \notin Submitted /\ \A k \in Marked : k \notin Submitted /\ k.at = "done"
    BY DEF Unused, Submitted, Marked
<1>4. CASE OpenRequest(c)
    <2>1. click[c] \in Submitted BY <1>2, <1>4 DEF OpenRequest, Unused, Marked
    <2>2. click' = [click EXCEPT ![c] = [click[c] EXCEPT !.at = "open"]]
        BY <1>2, <1>4 DEF OpenRequest
    <2>3. \A d \in Clicks : d # c => click'[d] = click[d] BY <1>2, <2>2
    <2>4. click'[c] = [click[c] EXCEPT !.at = "open"] BY <1>2, <2>2
    <2>5. click[c].at \in Early BY <1>4 DEF OpenRequest, Early
    <2> QED BY <1>1, <2>1, <2>3, <2>4, <2>5 DEF ClicksGo
<1>5. CASE WriteRequest(c)
    <2>1. click[c] \in Submitted BY <1>2, <1>5 DEF WriteRequest, Unused, Marked
    <2>2. click' = [click EXCEPT ![c] = [click[c] EXCEPT !.at = "done"]]
        BY <1>2, <1>5 DEF WriteRequest
    <2>3. \A d \in Clicks : d # c => click'[d] = click[d] BY <1>2, <2>2
    <2>4. click'[c] = [click[c] EXCEPT !.at = "done"] BY <1>2, <2>2
    <2>5. click[c].at \in Early BY <1>5 DEF WriteRequest, Early
    <2> QED BY <1>1, <2>1, <2>3, <2>4, <2>5 DEF ClicksGo
<1>6. ASSUME click[c] = Unused, NEW k, click' = [click EXCEPT ![c] = k] PROVE ClicksGo
    <2>1. \A d \in Clicks : d # c => click'[d] = click[d] BY <1>2, <1>6
    <2>2. click[c].at \in Early BY <1>6 DEF Unused, Early
    <2> QED BY <1>3, <1>6, <2>1, <2>2 DEF ClicksGo
<1>7. ASSUME NEW t \in Tenants, SaveSettings(c, t) PROVE ClicksGo
    BY <1>6, <1>7 DEF SaveSettings
<1>8. ASSUME NEW t \in Tenants, AskRestore(c, t) PROVE ClicksGo
    BY <1>6, <1>8 DEF AskRestore
<1>9. ASSUME NEW t \in Tenants, BackupNow(c, t) PROVE ClicksGo
    BY <1>6, <1>9 DEF BackupNow
<1> QED BY <1>4, <1>5, <1>7, <1>8, <1>9 DEF Click

LEMMA BringBackGoes ==
    ASSUME Types, NEW t \in Tenants, NEW s \in DOMAIN taken[t], BringBack(t, s)
    PROVE  ClicksGo
<1> SUFFICES ASSUME NEW c \in Clicks
             PROVE  /\ click[c] \in Submitted =>
                          /\ click'[c] \in Submitted
                          /\ click'[c].req = click[c].req
                          /\ click'[c].tenant = click[c].tenant
                    /\ click'[c].at \in Early => click[c].at \in Early
    BY DEF ClicksGo
<1>1. CASE click'[c] = click[c] BY <1>1
<1>2. CASE click'[c] # click[c]
    <2>1. /\ click[c] \in Submitted /\ click[c].at = "open"
          /\ click'[c] = [click[c] EXCEPT !.at = "done"]
        BY <1>2, BringBackTypes
    <2> QED BY <2>1 DEF Submitted, Early
<1> QED BY <1>1, <1>2

LEMMA StillGoes ==
    ASSUME UNCHANGED click PROVE ClicksGo
BY DEF ClicksGo

-----------------------------------------------------------------------------
\* The pass goes on from a to b, in the same turn; and what it knows there.
Moves(a, b) ==
    /\ Busy /\ pass.at = a /\ pass.t \in Tenants
    /\ Busy' /\ pass'.at = b /\ pass'.t = pass.t

Knows ==
    /\ pass'.req = pass.req /\ pass'.hadKey = pass.hadKey
    /\ pass'.made = pass.made /\ pass'.reveal = pass.reveal

\* A turn begins.
Begins == Busy' => pass'.at = "read" /\ ~pass'.made /\ ~pass'.reveal

LEMMA StartEffect ==
    ASSUME Types, StartPass
    PROVE  ~Busy /\ Begins
<1>1. 1 \in Tenants BY CountAssumption DEF Tenants
<1> QED BY <1>1 DEF StartPass, Busy, Begins, Turn

LEMMA ReadEffect ==
    ASSUME Types, ReadRequest
    PROVE  /\ Busy /\ pass.at = "read" /\ pass.t \in Tenants
           /\ \/ ~Busy'
              \/ Moves("read", "marker") /\ pass'.reveal = pass.reveal
              \/ /\ Moves("read", "keys")
                 /\ pass'.req = conf[pass.t].request /\ IsRecord(pass'.req)
                 /\ pass'.hadKey = row[pass.t].key
                 /\ pass'.made = pass.made /\ pass'.reveal = pass.reveal
<1>0. Busy /\ pass.at = "read" /\ pass \in Passes /\ pass.t \in Tenants
    BY BusyPass DEF ReadRequest, In, Stages
<1> DEFINE file == conf[pass.t].request
<1>1. CASE file = Absent
    <2>1. (CASE file = Absent -> ToMarker
             [] file = Unreadable -> Raise
             [] OTHER -> pass' = [pass EXCEPT !.at = "keys", !.req = file,
                                              !.hadKey = row[pass.t].key]) => ToMarker
        <3> HIDE DEF file
        <3> QED BY <1>1, AbsenceAssumption
    <2>2. ToMarker BY <2>1 DEF ReadRequest
    <2> QED BY <1>0, <2>2, MarkerFields DEF Moves
<1>2. CASE file # Absent /\ file = Unreadable
    BY <1>0, <1>2 DEF ReadRequest, Raise, Busy
<1>3. CASE file # Absent /\ file # Unreadable
    <2>1. pass' = [pass EXCEPT !.at = "keys", !.req = file, !.hadKey = row[pass.t].key]
        BY <1>3 DEF ReadRequest
    <2>2. file \in Reqs /\ IsRecord(file) BY <1>0, <1>3, FileTypes DEF IsRecord
    <2>3. row[pass.t].key \in BOOLEAN BY <1>0 DEF Types
    <2>4. /\ pass' \in Passes /\ pass'.at = "keys" /\ pass'.req = file /\ pass'.t = pass.t
          /\ pass'.hadKey = row[pass.t].key
          /\ pass'.made = pass.made /\ pass'.reveal = pass.reveal
        BY <1>0, <2>1, <2>2, <2>3 DEF Passes, Holding
    <2>5. Busy' BY <2>4, BusyPass DEF Busy
    <2> QED BY <1>0, <2>2, <2>4, <2>5 DEF Moves
<1> QED BY <1>1, <1>2, <1>3

LEMMA KeysEffect ==
    ASSUME Types, MakeKeys
    PROVE  /\ Busy /\ pass.at = "keys" /\ pass.t \in Tenants
           /\ \/ ~Busy'
              \/ /\ Moves("keys", "settings") /\ NeedsKey(pass.t, pass.req)
                 /\ pass'.req = pass.req /\ pass'.hadKey = pass.hadKey
                 /\ pass'.made = TRUE /\ pass'.reveal = pass.reveal
              \/ Moves("keys", "settings") /\ Knows /\ ~NeedsKey(pass.t, pass.req)
<1>0. Busy /\ pass.at = "keys" /\ pass \in Passes /\ pass.t \in Tenants /\ pass.req \in Reqs
    BY BusyPass DEF MakeKeys, In, Stages, Holding, Types, Holds
<1>1. CASE Raise BY <1>0, <1>1 DEF Raise, Busy
<1>2. CASE NeedsKey(pass.t, pass.req) /\ pass' = [pass EXCEPT !.at = "settings", !.made = TRUE]
    <2>1. /\ pass' \in Passes /\ pass'.at = "settings" /\ pass'.t = pass.t
          /\ pass'.req = pass.req /\ pass'.hadKey = pass.hadKey
          /\ pass'.made = TRUE /\ pass'.reveal = pass.reveal
        BY <1>0, <1>2 DEF Passes, Holding
    <2>2. Busy' BY <2>1, BusyPass DEF Busy
    <2> QED BY <1>0, <1>2, <2>1, <2>2 DEF Moves
<1>3. CASE ~NeedsKey(pass.t, pass.req) /\ Goto("settings")
    BY <1>0, <1>3, GotoFields DEF Moves, Knows, Stages, Holding
<1> QED BY <1>1, <1>2, <1>3 DEF MakeKeys

LEMMA SettingsEffect ==
    ASSUME Types, SetSettings
    PROVE  /\ Busy /\ pass.at = "settings" /\ pass.t \in Tenants
           /\ \/ ~Busy' /\ UNCHANGED row
              \/ /\ Moves("settings", "setkeys") /\ Knows
                 /\ \A u \in Tenants : row'[u].key = row[u].key
                 /\ \A u \in Tenants : u # pass.t => row'[u] = row[u]
                 /\ row'[pass.t].host = pass.req.host
                 /\ row'[pass.t].enc = (pass.req.enc # "none")
<1>0. Busy /\ pass.at = "settings" /\ pass \in Passes /\ pass.t \in Tenants /\ pass.req \in Reqs
    BY BusyPass DEF SetSettings, In, Stages, Holding, Types, Holds
<1>1. CASE pass.req.port = "bad" BY <1>0, <1>1 DEF SetSettings, Raise, Busy
<1>2. CASE pass.req.port # "bad"
    <2>1. Goto("setkeys") BY <1>2 DEF SetSettings
    <2>2. Moves("settings", "setkeys") /\ Knows
        BY <1>0, <2>1, GotoFields DEF Moves, Knows, Stages, Holding
    <2> DEFINE h == pass.req.host
               e == pass.req.enc # "none"
               new == [row[pass.t] EXCEPT !.host = h, !.enc = e]
    <2>3. row' = [row EXCEPT ![pass.t] = new]
        BY <1>0, <1>2 DEF SetSettings, NewHost, Types
    <2> HIDE DEF h, e
    <2>4. new.host = h /\ new.enc = e /\ new.key = row[pass.t].key BY <1>0 DEF Types
    <2> HIDE DEF new
    <2>5. \A u \in Tenants : row'[u] = IF u = pass.t THEN new ELSE row[u]
        BY <2>3 DEF Types
    <2> QED BY <1>0, <2>2, <2>4, <2>5 DEF h, e
<1> QED BY <1>1, <1>2

LEMMA SetKeysEffect ==
    ASSUME Types, SetKeys
    PROVE  /\ Moves("setkeys", "openscrub") \/ Moves("setkeys", "restore")
           /\ pass'.req = pass.req /\ pass'.made = pass.made
           /\ pass'.reveal = (pass.made /\ ~pass.hadKey)
           /\ \A u \in Tenants : u # pass.t => row'[u] = row[u]
           /\ row'[pass.t].host = row[pass.t].host /\ row'[pass.t].enc = row[pass.t].enc
           /\ row'[pass.t].key = (row[pass.t].key \/ pass.made)
           /\ pass'.at = "openscrub" => pass.req.pasted # "none"
<1>0. Busy /\ pass.at = "setkeys" /\ pass \in Passes /\ pass.t \in Tenants /\ pass.req \in Reqs
    BY BusyPass DEF SetKeys, In, Stages, Holding, Types, Holds
<1> DEFINE a == IF pass.req.pasted # "none" THEN "openscrub" ELSE "restore"
           v == pass.made /\ ~pass.hadKey
           k == row[pass.t].key \/ pass.made
           new == [row[pass.t] EXCEPT !.key = k]
<1>1. /\ a \in {"openscrub", "restore"} /\ (a = "openscrub" => pass.req.pasted # "none")
      /\ v \in BOOLEAN /\ k \in BOOLEAN
    BY <1>0 DEF Types, Passes
<1>2. pass' = [pass EXCEPT !.reveal = v, !.at = a] BY DEF SetKeys, Reveals
<1>3. row' = [row EXCEPT ![pass.t] = new] BY <1>0 DEF SetKeys, KeyKnown, Types
<1>4. pass.made \in BOOLEAN BY <1>0 DEF Passes
<1> HIDE DEF a, v, k
<1>5. /\ pass' \in Passes /\ pass'.at = a /\ pass'.t = pass.t /\ pass'.req = pass.req
      /\ pass'.made = pass.made /\ pass'.reveal = v
    BY <1>0, <1>1, <1>2 DEF Passes, Holding
<1>6. Busy' BY <1>5, BusyPass DEF Busy
<1>7. new.host = row[pass.t].host /\ new.enc = row[pass.t].enc /\ new.key = k
    BY <1>0 DEF Types
<1> HIDE DEF new
<1>8. \A u \in Tenants : row'[u] = IF u = pass.t THEN new ELSE row[u] BY <1>3 DEF Types
<1>9. Moves("setkeys", "openscrub") \/ Moves("setkeys", "restore")
    BY <1>0, <1>1, <1>5, <1>6 DEF Moves
<1> QED BY <1>0, <1>1, <1>5, <1>7, <1>8, <1>9 DEF v, k

LEMMA ReopenEffect ==
    ASSUME Types, NEW a \in Holding, NEW b \in Holding, Reopen(a, b)
    PROVE  /\ Moves(a, b) /\ Knows
           /\ conf'[pass.t].request = Unreadable
           /\ \A u \in Tenants : u # pass.t => conf'[u] = conf[u]
<1>0. Busy /\ pass.at = a /\ pass \in Passes /\ pass.t \in Tenants /\ pass.req \in Reqs
    BY BusyPass DEF Reopen, In, Stages, Types, Holds
<1>1. Moves(a, b) /\ Knows BY <1>0, GotoFields DEF Moves, Knows, Stages, Reopen
<1> QED BY <1>0, <1>1, RequestTypes DEF Reopen

LEMMA RewriteEffect ==
    ASSUME Types, NEW text \in Reqs, Rewrite(text), pass.t \in Tenants
    PROVE  /\ conf'[pass.t].request \in {text, Unreadable}
           /\ \A u \in Tenants : u # pass.t => conf'[u] = conf[u]
<1>1. PICK left \in {text, Unreadable} : conf' = [conf EXCEPT ![pass.t].request = left]
    BY DEF Rewrite
<1> QED BY <1>1, RequestTypes

LEMMA ScrubEffect ==
    ASSUME Types, WriteScrub
    PROVE  /\ Moves("scrub", "restore") /\ Knows
           /\ conf'[pass.t].request \in {[pass.req EXCEPT !.pasted = "none"], Unreadable}
           /\ \A u \in Tenants : u # pass.t => conf'[u] = conf[u]
<1>0. Busy /\ pass.at = "scrub" /\ pass \in Passes /\ pass.t \in Tenants /\ pass.req \in Reqs
    BY BusyPass DEF WriteScrub, In, Stages, Holding, Types, Holds
<1>1. Moves("scrub", "restore") /\ Knows
    BY <1>0, GotoFields DEF Moves, Knows, Stages, Holding, WriteScrub
<1>2. [pass.req EXCEPT !.pasted = "none"] \in Reqs BY <1>0 DEF Reqs
<1> QED BY <1>0, <1>1, <1>2, RewriteEffect DEF WriteScrub

LEMMA AnswerEffect ==
    ASSUME Types, WriteAnswer
    PROVE  /\ Moves("answer", "marker") /\ pass'.reveal = pass.reveal
           /\ conf'[pass.t].request \in {Remaining(pass.req), Unreadable}
           /\ \A u \in Tenants : u # pass.t => conf'[u] = conf[u]
<1>0. Busy /\ pass.at = "answer" /\ pass \in Passes /\ pass.t \in Tenants /\ pass.req \in Reqs
    BY BusyPass DEF WriteAnswer, In, Stages, Holding, Types, Holds
<1>1. Moves("answer", "marker") /\ pass'.reveal = pass.reveal
    BY <1>0, MarkerFields DEF Moves, WriteAnswer
<1>2. Remaining(pass.req) \in Reqs BY <1>0 DEF Reqs, Remaining
<1> QED BY <1>0, <1>1, <1>2, RewriteEffect DEF WriteAnswer

LEMMA RestoreEffect ==
    ASSUME Types, Restore
    PROVE  /\ Busy /\ pass.at = "restore" /\ pass.t \in Tenants /\ pass.req \in Reqs
           /\ \/ /\ Moves("restore", "marker") /\ pass'.reveal = pass.reveal
                 /\ UNCHANGED <<click, conf, served, shown, restores>>
              \/ /\ Moves("restore", "openanswer") /\ Knows /\ pass.req.restore \in Clicks
                 /\ \/ UNCHANGED <<click, conf, served, shown, restores>>
                    \/ /\ BringBack(pass.t, pass.req.snap)
                       /\ served' = [served EXCEPT ![pass.req.restore] = @ + 1]
<1>0. Busy /\ pass.at = "restore" /\ pass \in Passes /\ pass.t \in Tenants /\ pass.req \in Reqs
    BY BusyPass DEF Restore, In, Stages, Holding, Types, Holds
<1>1. CASE pass.req.restore = NoClick
    BY <1>0, <1>1, MarkerFields DEF Moves, Restore
<1>2. CASE pass.req.restore # NoClick
    <2>1. pass.req.restore \in Clicks BY <1>0, <1>2 DEF Reqs
    <2>2. Moves("restore", "openanswer") /\ Knows
        BY <1>0, <1>2, GotoFields DEF Moves, Knows, Stages, Holding, Restore
    <2> QED BY <1>0, <1>2, <2>1, <2>2 DEF Restore
<1> QED BY <1>1, <1>2

Closing == {"marker", "backup", "status", "writestatus"}

\* The turn is over.
TurnEnds == Busy /\ pass.t \in Tenants /\ Begins

LEMMA MarkerEffect ==
    ASSUME Types, TakeMarker
    PROVE  /\ \E b \in Closing \ {"marker"} : Moves("marker", b) /\ pass'.reveal = pass.reveal
           /\ \A u \in Tenants : conf'[u].request = conf[u].request
<1>0. Busy /\ pass.at = "marker" /\ pass \in Passes /\ pass.t \in Tenants
    BY BusyPass DEF TakeMarker, In, Stages
<1> DEFINE a == IF conf[pass.t].marker THEN "backup" ELSE "status"
           v == [conf[pass.t] EXCEPT !.marker = FALSE]
<1>1. a \in Stages \ Holding /\ a \in Closing \ {"marker"} BY DEF Stages, Holding, Closing
<1>2. conf' = [conf EXCEPT ![pass.t] = v] /\ Goto(a) BY <1>0 DEF TakeMarker, Types
<1>3. v.request = conf[pass.t].request BY <1>0, FileTypes, VolumeEdits DEF Volumes
<1> HIDE DEF a, v
<1>4. Moves("marker", a) /\ pass'.reveal = pass.reveal
    BY <1>0, <1>1, <1>2, GotoFields DEF Moves
<1> QED BY <1>1, <1>2, <1>3, <1>4 DEF Types

LEMMA BackupEffect ==
    ASSUME Types, MakeBackup
    PROVE  /\ Moves("backup", "status") /\ pass'.reveal = pass.reveal
           /\ Snapshot(pass.t) \/ UNCHANGED taken
<1>0. Busy /\ pass.at = "backup" /\ pass \in Passes /\ pass.t \in Tenants
    BY BusyPass DEF MakeBackup, In, Stages
<1> QED BY <1>0, GotoFields DEF MakeBackup, Moves, Stages, Holding

LEMMA NextTurn ==
    ASSUME Types, Busy, pass' = NextTenant
    PROVE  Begins
<1>1. pass.t \in Tenants BY BusyPass
<1>2. CASE pass.t < NumTenants
    <2>1. pass' = Turn(pass.t + 1) BY <1>2 DEF NextTenant
    <2> QED BY <2>1 DEF Turn, Begins
<1>3. CASE ~(pass.t < NumTenants) BY <1>3 DEF NextTenant, Begins, Busy
<1> QED BY <1>2, <1>3

LEMMA OpenEffect ==
    ASSUME Types, OpenStatus
    PROVE  /\ \/ pass.at = "status" /\ row[pass.t].host = NoHost /\ TurnEnds
              \/ Moves("status", "writestatus") /\ pass'.reveal = pass.reveal
           /\ \A u \in Tenants : conf'[u].request = conf[u].request
<1>0. Busy /\ pass.at = "status" /\ pass \in Passes /\ pass.t \in Tenants
    BY BusyPass DEF OpenStatus, In, Stages
<1>1. CASE row[pass.t].host = NoHost
    BY <1>0, <1>1, NextTurn DEF OpenStatus, TurnEnds
<1>2. CASE row[pass.t].host # NoHost
    <2> DEFINE v == [conf[pass.t] EXCEPT !.status = Unreadable]
    <2>1. v.request = conf[pass.t].request BY <1>0, FileTypes, VolumeEdits DEF Volumes
    <2>2. conf' = [conf EXCEPT ![pass.t] = v] BY <1>0, <1>2 DEF OpenStatus, Types
    <2> HIDE DEF v
    <2>3. Moves("status", "writestatus") /\ pass'.reveal = pass.reveal
        BY <1>0, <1>2, GotoFields DEF OpenStatus, Moves, Stages, Holding
    <2> QED BY <2>1, <2>2, <2>3 DEF Types
<1> QED BY <1>1, <1>2

LEMMA StatusEffect ==
    ASSUME Types, WriteStatus
    PROVE  /\ TurnEnds /\ pass.at = "writestatus"
           /\ \A u \in Tenants : conf'[u].request = conf[u].request
           /\ \A u \in Tenants :
                  shown'[u] = IF u = pass.t /\ pass.reveal THEN shown[u] + 1 ELSE shown[u]
<1>0. Busy /\ pass.at = "writestatus" /\ pass.t \in Tenants /\ pass.reveal \in BOOLEAN
    BY BusyPass DEF WriteStatus, In, Stages
<1>1. TurnEnds BY <1>0, NextTurn DEF WriteStatus, TurnEnds
<1> DEFINE s == [host |-> row[pass.t].host, enc |-> row[pass.t].enc, reveal |-> pass.reveal]
           v == [conf[pass.t] EXCEPT !.status = s]
<1>2. s \in Statuses BY <1>0 DEF Statuses, Types
<1>3. conf' = [conf EXCEPT ![pass.t] = v] BY <1>0 DEF WriteStatus, Types
<1> HIDE DEF s
<1>4. v.request = conf[pass.t].request BY <1>0, <1>2, FileTypes, VolumeEdits DEF Volumes
<1> HIDE DEF v
<1>5. shown' = [shown EXCEPT ![pass.t] = IF pass.reveal THEN shown[pass.t] + 1 ELSE shown[pass.t]]
    BY <1>0 DEF WriteStatus, Types
<1>6. \A u \in Tenants :
          shown'[u] = IF u = pass.t /\ pass.reveal THEN shown[u] + 1 ELSE shown[u]
    BY <1>0, <1>5 DEF Types
<1> QED BY <1>0, <1>1, <1>3, <1>4, <1>6 DEF Types

-----------------------------------------------------------------------------
\* What the pass knows of the key, by how far it is in a tenant's turn.
KeyInv ==
    Busy =>
        /\ pass.at = "read" => ~pass.made /\ ~pass.reveal
        /\ pass.at = "keys" => ~pass.made
        /\ pass.at \in {"keys", "settings", "setkeys"} =>
               pass.hadKey = row[pass.t].key /\ ~pass.reveal
        /\ pass.at \in {"settings", "setkeys"} =>
               /\ pass.made => NeedsKey(pass.t, pass.req)
               /\ NeedsKey(pass.t, pass.req) => pass.made
        /\ pass.at = "setkeys" =>
               /\ row[pass.t].host = pass.req.host
               /\ row[pass.t].enc = (pass.req.enc # "none")
        /\ pass.at \in {"openscrub", "scrub"} /\ pass.req.enc = "own" => row[pass.t].key

LEMMA KeyInit == Init => KeyInv
BY DEF Init, KeyInv, Busy

LEMMA KeyStep == Types /\ KeyInv /\ [Next]_vars => KeyInv'
<1> SUFFICES ASSUME Types, KeyInv, [Next]_vars PROVE KeyInv'
    OBVIOUS
<1> USE DEF Moves, Knows
<1>1. CASE UNCHANGED <<pass, row>> BY <1>1 DEF KeyInv, Busy, NeedsKey
<1>2. ASSUME NEW c \in Clicks, Click(c) PROVE UNCHANGED <<pass, row>>
    BY <1>2 DEF Click, OpenRequest, WriteRequest, SaveSettings, AskRestore, BackupNow
<1>3. ASSUME NEW t \in Tenants, NightlyBackup(t) PROVE UNCHANGED <<pass, row>>
    BY <1>3 DEF NightlyBackup
<1>4. ASSUME NEW t \in Tenants, NEW s \in DOMAIN taken[t], OperatorRestore(t, s)
      PROVE  UNCHANGED <<pass, row>>
    BY <1>4 DEF OperatorRestore
<1>5. CASE StartPass BY <1>5, StartEffect DEF KeyInv, Begins
<1>6. CASE Crash BY <1>6 DEF Crash, KeyInv, Busy
<1>7. CASE ReadRequest
    <2>1. UNCHANGED row BY <1>7 DEF ReadRequest
    <2> QED BY <1>7, <2>1, ReadEffect DEF KeyInv
<1>8. CASE MakeKeys
    <2>1. UNCHANGED row BY <1>8 DEF MakeKeys
    <2> QED BY <1>8, <2>1, KeysEffect DEF KeyInv, NeedsKey
<1>9. CASE SetSettings
    <2>1. CASE ~Busy' BY <2>1 DEF KeyInv
    <2>2. CASE Busy'
        <3>1. /\ Moves("settings", "setkeys") /\ Knows
              /\ \A u \in Tenants : row'[u].key = row[u].key
              /\ row'[pass.t].host = pass.req.host
              /\ row'[pass.t].enc = (pass.req.enc # "none")
            BY <1>9, <2>2, SettingsEffect
        <3>2. NeedsKey(pass.t, pass.req)' <=> NeedsKey(pass.t, pass.req)
            BY <3>1 DEF NeedsKey
        <3> QED BY <3>1, <3>2 DEF KeyInv
    <2> QED BY <2>1, <2>2
<1>10. CASE SetKeys
    <2>1. /\ Moves("setkeys", "openscrub") \/ Moves("setkeys", "restore")
          /\ pass'.req = pass.req
          /\ row'[pass.t].key = (row[pass.t].key \/ pass.made)
          /\ pass'.at = "openscrub" => pass.req.pasted # "none"
        BY <1>10, SetKeysEffect
    <2>2. CASE pass'.at = "openscrub"
        <3>1. pass.req.enc = "own" => pass.made BY <2>1, <2>2 DEF KeyInv, NeedsKey
        <3> QED BY <2>1, <2>2, <3>1 DEF KeyInv
    <2>3. CASE pass'.at # "openscrub" BY <2>1, <2>3 DEF KeyInv
    <2> QED BY <2>2, <2>3
<1>11. CASE OpenScrub
    <2>1. UNCHANGED row BY <1>11 DEF OpenScrub, Reopen
    <2>2. Moves("openscrub", "scrub") /\ Knows
        BY <1>11, ReopenEffect DEF OpenScrub, Holding
    <2> QED BY <2>1, <2>2 DEF KeyInv
<1>12. CASE WriteScrub BY <1>12, ScrubEffect DEF KeyInv
<1>13. CASE Restore BY <1>13, RestoreEffect DEF KeyInv
<1>14. CASE OpenAnswer
    <2>1. Moves("openanswer", "answer")
        BY <1>14, ReopenEffect DEF OpenAnswer, Holding
    <2> QED BY <2>1 DEF KeyInv
<1>15. CASE WriteAnswer BY <1>15, AnswerEffect DEF KeyInv
<1>16. CASE TakeMarker
    <2>1. PICK b \in Closing \ {"marker"} : Moves("marker", b) BY <1>16, MarkerEffect
    <2> QED BY <2>1 DEF KeyInv, Closing
<1>17. CASE MakeBackup BY <1>17, BackupEffect DEF KeyInv
<1>18. CASE OpenStatus BY <1>18, OpenEffect DEF KeyInv, TurnEnds, Begins
<1>19. CASE WriteStatus BY <1>19, StatusEffect DEF KeyInv, TurnEnds, Begins
<1>20. CASE UNCHANGED vars BY <1>1, <1>20 DEF vars
<1> QED
    BY <1>1, <1>2, <1>3, <1>4, <1>5, <1>6, <1>7, <1>8, <1>9, <1>10, <1>11, <1>12, <1>13,
       <1>14, <1>15, <1>16, <1>17, <1>18, <1>19, <1>20 DEF Next, PassStep

-----------------------------------------------------------------------------
Asked(t, c) == click[c] \in Submitted /\ click[c].tenant = t

\* A request for t, wherever it lies, is what the owner of t asked for, or what
\* the pass left of it.
Fine(t, r) ==
    /\ \E c \in Clicks :
           Asked(t, c) /\ click[c].req.host = r.host /\ click[c].req.enc = r.enc
    /\ r.enc = "own" /\ r.pasted = "none" =>
           \/ row[t].key
           \/ \E c \in Clicks :
                  Asked(t, c) /\ click[c].req.enc = "own" /\ click[c].req.pasted = "none"
    /\ r.restore = NoClick => r.snap = 0
    /\ r.restore # NoClick =>
           /\ Asked(t, r.restore) /\ click[r.restore].at \notin Early
           /\ r.snap \in DOMAIN taken[t]

ClicksFine ==
    \A c \in Clicks : click[c] \in Submitted =>
        /\ click[c].req.restore \in {c, NoClick}
        /\ click[c].req.restore = NoClick => click[c].req.snap = 0
        /\ click[c].req.restore # NoClick =>
               click[c].req.snap \in DOMAIN taken[click[c].tenant]

FilesFine ==
    \A t \in Tenants, r \in Reqs : conf[t].request = r /\ IsRecord(r) => Fine(t, r)

SnapshotsFine ==
    \A t \in Tenants, r \in Reqs : \A s \in DOMAIN taken[t] :
        taken[t][s].conf.request = r /\ IsRecord(r) => Fine(t, r)

PassFine == Holds => \A r \in Reqs : pass.req = r => Fine(pass.t, r)

SourceInv == ClicksFine /\ FilesFine /\ SnapshotsFine /\ PassFine

LEMMA SourceInit == Init => SourceInv
<1> SUFFICES ASSUME Init PROVE SourceInv
    OBVIOUS
<1>1. ClicksFine BY DEF Init, ClicksFine, Unused, Submitted
<1>2. FilesFine BY DEF Init, FilesFine, Fresh, IsRecord
<1>3. SnapshotsFine BY DEF Init, SnapshotsFine
<1>4. PassFine BY DEF Init, PassFine, Holds, Busy
<1> QED BY <1>1, <1>2, <1>3, <1>4 DEF SourceInv

LEMMA NextTypes ==
    ASSUME Types, SourceInv, [Next]_vars
    PROVE  Types'
<1>1. Holds /\ pass.req.restore # NoClick => pass.req.snap \in DOMAIN taken[pass.t]
    <2> SUFFICES ASSUME Holds, pass.req.restore # NoClick
                 PROVE  pass.req.snap \in DOMAIN taken[pass.t]
        OBVIOUS
    <2>1. pass.req \in Reqs BY DEF Types
    <2>2. Fine(pass.t, pass.req) BY <2>1 DEF SourceInv, PassFine
    <2> QED BY <2>2 DEF Fine
<1>2. CASE PassStep \/ StartPass \/ Crash BY <1>1, <1>2, PassTypes
<1>3. CASE UNCHANGED vars
    <2>1. Holds' <=> Holds BY <1>3 DEF vars, Holds, Busy
    <2> QED BY <1>3, <2>1 DEF vars, Types
<1> QED BY <1>2, <1>3, ClickTypes, CopyTypes, UndoTypes DEF Next

\* What no step takes back.
LEMMA NextKeeps ==
    ASSUME Types, SourceInv, [Next]_vars
    PROVE  ClicksGo /\ KeysStay /\ SnapshotsStay
<1>1. ASSUME UNCHANGED row PROVE KeysStay BY <1>1 DEF KeysStay
<1>2. ASSUME UNCHANGED taken PROVE SnapshotsStay BY <1>2 DEF SnapshotsStay
<1>3. ASSUME NEW t \in Tenants, Snapshot(t) PROVE SnapshotsStay
    BY <1>3, SnapshotTypes DEF SnapshotsStay
<1>4. ASSUME NEW c \in Clicks, Click(c) PROVE ClicksGo /\ UNCHANGED <<row, taken>>
    BY <1>4, ClickGoes
       DEF Click, OpenRequest, WriteRequest, SaveSettings, AskRestore, BackupNow
<1>5. ASSUME NEW t \in Tenants, NightlyBackup(t)
      PROVE  UNCHANGED <<row, click>> /\ SnapshotsStay
    BY <1>3, <1>5 DEF NightlyBackup
<1>6. ASSUME NEW t \in Tenants, NEW s \in DOMAIN taken[t], OperatorRestore(t, s)
      PROVE  ClicksGo /\ UNCHANGED <<row, taken>>
    BY <1>6, BringBackGoes DEF OperatorRestore
<1>7. CASE SetSettings
    <2>1. UNCHANGED <<click, taken>> BY <1>7 DEF SetSettings
    <2>2. KeysStay BY <1>7, SettingsEffect DEF KeysStay
    <2> QED BY <1>2, <2>1, <2>2, StillGoes
<1>8. CASE SetKeys
    <2>1. UNCHANGED <<click, taken>> BY <1>8 DEF SetKeys
    <2>2. KeysStay BY <1>8, SetKeysEffect DEF KeysStay
    <2> QED BY <1>2, <2>1, <2>2, StillGoes
<1>9. CASE Restore
    <2>1. UNCHANGED <<row, taken>> BY <1>9 DEF Restore
    <2>2. CASE UNCHANGED click BY <1>1, <1>2, <2>1, <2>2, StillGoes
    <2>3. CASE BringBack(pass.t, pass.req.snap)
              /\ Moves("restore", "openanswer") /\ pass.req.restore \in Clicks
        <3>1. Holds /\ pass.req \in Reqs /\ pass.t \in Tenants /\ pass.req.restore # NoClick
            BY <2>3, AbsenceAssumption DEF Moves, Holds, Holding, Types
        <3>2. Fine(pass.t, pass.req) BY <3>1 DEF SourceInv, PassFine
        <3>3. pass.req.snap \in DOMAIN taken[pass.t] BY <3>1, <3>2 DEF Fine
        <3> QED BY <1>1, <1>2, <2>1, <2>3, <3>1, <3>3, BringBackGoes
    <2> QED BY <1>9, <2>2, <2>3, RestoreEffect
<1>10. CASE MakeBackup
    <2>1. UNCHANGED <<click, row>> BY <1>10 DEF MakeBackup
    <2>2. pass.t \in Tenants /\ (Snapshot(pass.t) \/ UNCHANGED taken)
        BY <1>10, BackupEffect DEF Moves
    <2> QED BY <1>1, <1>2, <1>3, <2>1, <2>2, StillGoes
<1>11. CASE StartPass \/ Crash \/ ReadRequest \/ MakeKeys \/ OpenScrub \/ WriteScrub
            \/ OpenAnswer \/ WriteAnswer \/ TakeMarker \/ OpenStatus \/ WriteStatus
    <2>1. UNCHANGED <<click, row, taken>>
        BY <1>11 DEF StartPass, Crash, ReadRequest, MakeKeys, OpenScrub, WriteScrub,
                     OpenAnswer, WriteAnswer, TakeMarker, OpenStatus, WriteStatus,
                     Reopen, Rewrite
    <2> QED BY <1>1, <1>2, <2>1, StillGoes
<1>12. CASE UNCHANGED vars BY <1>1, <1>2, <1>12, StillGoes DEF vars
<1> QED
    BY <1>1, <1>2, <1>4, <1>5, <1>6, <1>7, <1>8, <1>9, <1>10, <1>11, <1>12, StillGoes
       DEF Next, PassStep

LEMMA FineStays ==
    ASSUME Types, ClicksGo, KeysStay, SnapshotsStay,
           NEW t \in Tenants, NEW r \in Reqs, Fine(t, r)
    PROVE  Fine(t, r)'
<1>1. \A c \in Clicks : Asked(t, c) => Asked(t, c)' /\ click'[c].req = click[c].req
    BY DEF ClicksGo, Asked
<1>2. \E c \in Clicks :
          Asked(t, c)' /\ click'[c].req.host = r.host /\ click'[c].req.enc = r.enc
    BY <1>1 DEF Fine
<1>3. r.enc = "own" /\ r.pasted = "none" =>
          \/ row'[t].key
          \/ \E c \in Clicks :
                 /\ Asked(t, c)'
                 /\ click'[c].req.enc = "own" /\ click'[c].req.pasted = "none"
    BY <1>1 DEF Fine, KeysStay
<1>4. r.restore # NoClick =>
          /\ Asked(t, r.restore)' /\ click'[r.restore].at \notin Early
          /\ r.snap \in DOMAIN taken'[t]
    <2> SUFFICES ASSUME r.restore # NoClick
                 PROVE  /\ Asked(t, r.restore)' /\ click'[r.restore].at \notin Early
                        /\ r.snap \in DOMAIN taken'[t]
        OBVIOUS
    <2>1. r.restore \in Clicks BY DEF Reqs
    <2>2. Asked(t, r.restore) /\ click[r.restore].at \notin Early /\ r.snap \in DOMAIN taken[t]
        BY DEF Fine
    <2> QED BY <1>1, <2>1, <2>2 DEF ClicksGo, SnapshotsStay
<1> QED BY <1>2, <1>3, <1>4 DEF Fine

\* What the pass leaves of a request.
LEMMA RestIsFine ==
    ASSUME NEW t \in Tenants, NEW r \in Reqs, Fine(t, r)
    PROVE  /\ Remaining(r) \in Reqs /\ Fine(t, Remaining(r))
           /\ [r EXCEPT !.pasted = "none"] \in Reqs
           /\ (r.enc = "own" => row[t].key) => Fine(t, [r EXCEPT !.pasted = "none"])
<1> DEFINE q == Remaining(r)
           p == [r EXCEPT !.pasted = "none"]
<1>1. /\ q \in Reqs /\ q.host = r.host /\ q.enc = r.enc /\ q.pasted = r.pasted
      /\ q.restore = NoClick /\ q.snap = 0
    BY DEF Remaining, Reqs
<1>2. /\ p \in Reqs /\ p.host = r.host /\ p.enc = r.enc /\ p.restore = r.restore
      /\ p.snap = r.snap
    BY DEF Reqs
<1> HIDE DEF p, q
<1>3. Fine(t, q) BY <1>1 DEF Fine
<1>4. (r.enc = "own" => row[t].key) => Fine(t, p) BY <1>2 DEF Fine
<1> QED BY <1>1, <1>2, <1>3, <1>4 DEF p, q

-----------------------------------------------------------------------------
\* A new request names the click it came with, and a snapshot that is there.
LEMMA NewClicks ==
    ASSUME Types, ClicksFine, NEW d \in Clicks, Click(d), SnapshotsStay, ClicksGo
    PROVE  ClicksFine'
<1> SUFFICES ASSUME NEW c \in Clicks, click'[c] \in Submitted
             PROVE  /\ click'[c].req.restore \in {c, NoClick}
                    /\ click'[c].req.restore = NoClick => click'[c].req.snap = 0
                    /\ click'[c].req.restore # NoClick =>
                           click'[c].req.snap \in DOMAIN taken'[click'[c].tenant]
    BY DEF ClicksFine
<1>1. CASE click[c] \in Submitted
    <2>1. click'[c].req = click[c].req /\ click'[c].tenant = click[c].tenant
          /\ click[c].tenant \in Tenants
        BY <1>1 DEF ClicksGo, Submitted
    <2> QED BY <1>1, <2>1 DEF ClicksFine, SnapshotsStay
<1>2. CASE click[c] \notin Submitted
    <2>1. \A k : click' = [click EXCEPT ![d] = k] => c = d /\ click'[c] = k
        BY <1>2 DEF Types
    <2>2. ASSUME OpenRequest(d) PROVE FALSE
        <3>1. click[d] \in Submitted BY <2>2 DEF OpenRequest, Types, Unused, Marked
        <3>2. click' = [click EXCEPT ![d] = [click[d] EXCEPT !.at = "open"]]
            BY <2>2 DEF OpenRequest, Types
        <3> QED BY <1>2, <2>1, <3>1, <3>2
    <2>3. ASSUME WriteRequest(d) PROVE FALSE
        <3>1. click[d] \in Submitted BY <2>3 DEF WriteRequest, Types, Unused, Marked
        <3>2. click' = [click EXCEPT ![d] = [click[d] EXCEPT !.at = "done"]]
            BY <2>3 DEF WriteRequest, Types
        <3> QED BY <1>2, <2>1, <3>1, <3>2
    <2>4. ASSUME NEW t \in Tenants, SaveSettings(d, t)
          PROVE  click'[c].req.restore = NoClick /\ click'[c].req.snap = 0
        <3>1. PICK f \in Forms :
                  click' = [click EXCEPT ![d] =
                      [at |-> "writing", tenant |-> t,
                       req |-> [host |-> f.host, enc |-> f.enc, pasted |-> f.pasted,
                                port |-> f.port, restore |-> NoClick, snap |-> 0]]]
            BY <2>4 DEF SaveSettings
        <3> QED BY ZenonT(40), <2>1, <3>1
    <2>5. ASSUME NEW t \in Tenants, AskRestore(d, t)
          PROVE  /\ click'[c].req.restore = c
                 /\ click'[c].req.snap \in DOMAIN taken'[click'[c].tenant]
        <3>1. PICK s \in DOMAIN taken[t] :
                  click' = [click EXCEPT ![d] =
                      [at |-> "writing", tenant |-> t,
                       req |-> [host |-> Status(t).host,
                                enc |-> IF Status(t).enc THEN "generate" ELSE "none",
                                pasted |-> "none", port |-> "ok", restore |-> d, snap |-> s]]]
            BY <2>5 DEF AskRestore
        <3> DEFINE k == [host |-> Status(t).host,
                         enc |-> IF Status(t).enc THEN "generate" ELSE "none",
                         pasted |-> "none", port |-> "ok", restore |-> d, snap |-> s]
               q == [at |-> "writing", tenant |-> t, req |-> k]
        <3>2. k.restore = d /\ k.snap = s OBVIOUS
        <3> HIDE DEF k
        <3>3. q.tenant = t /\ q.req = k OBVIOUS
        <3>4. click' = [click EXCEPT ![d] = q] BY <3>1 DEF k
        <3> HIDE DEF q
        <3>5. c = d /\ click'[c] = q BY <2>1, <3>4
        <3> QED BY <3>2, <3>3, <3>5 DEF SnapshotsStay
    <2>6. ASSUME NEW t \in Tenants, BackupNow(d, t) PROVE FALSE
        <3>1. click'[c] = [at |-> "done", tenant |-> t] BY <2>1, <2>6 DEF BackupNow
        <3> QED BY <3>1 DEF Submitted
    <2> QED BY <2>2, <2>3, <2>4, <2>5, <2>6, AbsenceAssumption DEF Click
<1> QED BY <1>1, <1>2

\* Where a click does not add one.
LEMMA OldClicks ==
    ASSUME Types, ClicksFine, ClicksGo, SnapshotsStay,
           \A c \in Clicks : click'[c] \in Submitted => click[c] \in Submitted
    PROVE  ClicksFine'
<1> SUFFICES ASSUME NEW c \in Clicks, click'[c] \in Submitted
             PROVE  /\ click'[c].req.restore \in {c, NoClick}
                    /\ click'[c].req.restore = NoClick => click'[c].req.snap = 0
                    /\ click'[c].req.restore # NoClick =>
                           click'[c].req.snap \in DOMAIN taken'[click'[c].tenant]
    BY DEF ClicksFine
<1>1. click[c] \in Submitted /\ click'[c].req = click[c].req
      /\ click'[c].tenant = click[c].tenant /\ click[c].tenant \in Tenants
    BY DEF ClicksGo, Submitted
<1> QED BY <1>1 DEF ClicksFine, SnapshotsStay

LEMMA RestoreFinds ==
    ASSUME Types, SourceInv, Restore, BringBack(pass.t, pass.req.snap),
           Moves("restore", "openanswer"), pass.req.restore \in Clicks
    PROVE  /\ pass.t \in Tenants /\ pass.req.snap \in DOMAIN taken[pass.t]
           /\ click[pass.req.restore] \in Submitted
           /\ click[pass.req.restore].tenant = pass.t
           /\ click[pass.req.restore].at \notin Early
<1>1. Holds /\ pass.req \in Reqs /\ pass.t \in Tenants /\ pass.req.restore # NoClick
    BY AbsenceAssumption DEF Moves, Holds, Holding, Types
<1>2. Fine(pass.t, pass.req) BY <1>1 DEF SourceInv, PassFine
<1> QED BY <1>1, <1>2 DEF Fine, Asked

LEMMA ClicksStep ==
    ASSUME Types, SourceInv, [Next]_vars
    PROVE  ClicksFine'
<1>1. ClicksFine /\ ClicksGo /\ SnapshotsStay BY NextKeeps DEF SourceInv
<1>2. CASE UNCHANGED click BY <1>1, <1>2, OldClicks
<1>3. ASSUME NEW t \in Tenants, NEW s \in DOMAIN taken[t], BringBack(t, s)
      PROVE  ClicksFine'
    <2>1. \A c \in Clicks : click'[c] \in Submitted => click[c] \in Submitted
        BY <1>3, BringBackTypes
    <2> QED BY <1>1, <2>1, OldClicks
<1>4. CASE Restore BY <1>2, <1>3, <1>4, RestoreEffect, RestoreFinds
<1>5. ASSUME NEW t \in Tenants, NEW s \in DOMAIN taken[t], OperatorRestore(t, s)
      PROVE  ClicksFine'
    BY <1>3, <1>5 DEF OperatorRestore
<1>6. ASSUME NEW t \in Tenants, NightlyBackup(t) PROVE ClicksFine'
    BY <1>2, <1>6 DEF NightlyBackup
<1>7. CASE PassStep /\ ~Restore
    <2>1. UNCHANGED click
        BY <1>7 DEF PassStep, ReadRequest, MakeKeys, SetSettings, SetKeys, OpenScrub,
                    WriteScrub, OpenAnswer, WriteAnswer, TakeMarker, MakeBackup,
                    OpenStatus, WriteStatus, Reopen, Rewrite
    <2> QED BY <1>2, <2>1
<1>8. CASE StartPass \/ Crash BY <1>2, <1>8 DEF StartPass, Crash
<1>9. CASE UNCHANGED vars BY <1>2, <1>9 DEF vars
<1> QED BY <1>1, <1>4, <1>5, <1>6, <1>7, <1>8, <1>9, NewClicks DEF Next

-----------------------------------------------------------------------------
LEMMA FilesStep ==
    ASSUME Types, KeyInv, SourceInv, [Next]_vars
    PROVE  FilesFine'
<1> SUFFICES ASSUME NEW t \in Tenants, NEW r \in Reqs, conf'[t].request = r, IsRecord(r)
             PROVE  Fine(t, r)'
    BY DEF FilesFine, IsRecord
<1>0. ClicksGo /\ KeysStay /\ SnapshotsStay BY NextKeeps
<1>1. Fine(t, r) => Fine(t, r)' BY <1>0, FineStays
<1>2. conf[t].request = r => Fine(t, r)' BY <1>1 DEF SourceInv, FilesFine
<1>3. conf'[t].request = conf[t].request => Fine(t, r)' BY <1>2
<1>4. r # Unreadable BY DEF IsRecord
<1>5. ASSUME NEW s \in DOMAIN taken[t], conf'[t] = taken[t][s].conf PROVE Fine(t, r)'
    <2>1. Fine(t, r) BY <1>5 DEF SourceInv, SnapshotsFine
    <2> QED BY <1>1, <2>1
<1>6. ASSUME NEW u \in Tenants, NEW s \in DOMAIN taken[u], BringBack(u, s)
      PROVE  Fine(t, r)'
    <2>1. CASE u = t BY <1>5, <1>6, <2>1, BringBackTypes
    <2>2. CASE u # t BY <1>3, <1>6, <2>2, BringBackTypes
    <2> QED BY <2>1, <2>2
<1>7. CASE UNCHANGED conf BY <1>3, <1>7
<1>8. ASSUME NEW c \in Clicks, Click(c) PROVE Fine(t, r)'
    <2>1. CASE OpenRequest(c)
        <3> DEFINE u == click[c].tenant
        <3>1. u \in Tenants
            BY <2>1 DEF OpenRequest, Types, Unused, Marked, Submitted
        <3>2. conf' = [conf EXCEPT ![u].request = Unreadable]
            BY <2>1 DEF OpenRequest
        <3> HIDE DEF u
        <3>3. CASE u = t BY <1>4, <3>1, <3>2, <3>3, RequestTypes
        <3>4. CASE u # t BY <1>3, <3>1, <3>2, <3>4, RequestTypes
        <3> QED BY <3>3, <3>4
    <2>2. CASE WriteRequest(c)
        <3> DEFINE u == click[c].tenant
        <3>1. click[c] \in Submitted
            BY <2>2 DEF WriteRequest, Types, Unused, Marked
        <3>2. u \in Tenants /\ click[c].req \in Reqs BY <3>1 DEF Submitted
        <3>3. PICK text \in {click[c].req, Unreadable} :
                  conf' = [conf EXCEPT ![u].request = text]
            BY <2>2 DEF WriteRequest
        <3>4. conf'[u].request = text /\ (u # t => conf'[t] = conf[t])
            BY <3>2, <3>3, RequestTypes
        <3>5. CASE u = t /\ text = click[c].req
            <4>1. click' = [click EXCEPT ![c] = [click[c] EXCEPT !.at = "done"]]
                BY <2>2 DEF WriteRequest, Types
            <4>2. /\ click'[c] \in Submitted /\ click'[c].at = "done"
                  /\ click'[c].req = r /\ click'[c].tenant = t
                BY <3>1, <3>4, <3>5, <4>1 DEF Types, Submitted
            <4>3. Asked(t, c)' BY <4>2 DEF Asked
            <4>4. ClicksFine' BY ClicksStep
            <4>5. /\ r.restore \in {c, NoClick} /\ (r.restore = NoClick => r.snap = 0)
                  /\ r.restore # NoClick => r.snap \in DOMAIN taken'[t]
                BY <4>2, <4>4 DEF ClicksFine
            <4>6. r.restore # NoClick => click'[r.restore].at \notin Early
                BY <4>2, <4>5 DEF Early
            <4> QED BY <4>2, <4>3, <4>5, <4>6 DEF Fine
        <3>6. CASE u # t BY <1>3, <3>4, <3>6
        <3>7. CASE u = t /\ text = Unreadable BY <1>4, <3>4, <3>7
        <3> QED BY <3>5, <3>6, <3>7
    <2>3. ASSUME NEW u \in Tenants, BackupNow(c, u) PROVE Fine(t, r)'
        <3> DEFINE v == [conf[u] EXCEPT !.marker = TRUE]
        <3>1. v.request = conf[u].request BY FileTypes, VolumeEdits DEF Volumes
        <3>2. conf' = [conf EXCEPT ![u] = v] BY <2>3 DEF BackupNow, Types
        <3> HIDE DEF v
        <3> QED BY <1>3, <3>1, <3>2 DEF Types
    <2>4. ASSUME NEW u \in Tenants, SaveSettings(c, u) \/ AskRestore(c, u)
          PROVE  Fine(t, r)'
        BY <1>7, <2>4 DEF SaveSettings, AskRestore
    <2> QED BY <1>8, <2>1, <2>2, <2>3, <2>4 DEF Click
<1>9. ASSUME Busy, pass.at \in Holding
      PROVE  pass.req \in Reqs /\ Fine(pass.t, pass.req) /\ pass.t \in Tenants
    <2>1. pass.req \in Reqs /\ pass.t \in Tenants BY <1>9, BusyPass DEF Types, Holds
    <2> QED BY <1>9, <2>1 DEF SourceInv, PassFine, Holds
<1>10. CASE OpenScrub
    <2>1. /\ conf'[pass.t].request = Unreadable
          /\ \A u \in Tenants : u # pass.t => conf'[u] = conf[u]
        BY <1>10, ReopenEffect DEF OpenScrub, Holding
    <2> QED BY <1>3, <1>4, <2>1
<1>11. CASE OpenAnswer
    <2>1. /\ conf'[pass.t].request = Unreadable
          /\ \A u \in Tenants : u # pass.t => conf'[u] = conf[u]
        BY <1>11, ReopenEffect DEF OpenAnswer, Holding
    <2> QED BY <1>3, <1>4, <2>1
<1>12. CASE WriteScrub
    <2>1. /\ Moves("scrub", "restore")
          /\ conf'[pass.t].request \in {[pass.req EXCEPT !.pasted = "none"], Unreadable}
          /\ \A u \in Tenants : u # pass.t => conf'[u] = conf[u]
        BY <1>12, ScrubEffect
    <2>2. pass.req \in Reqs /\ Fine(pass.t, pass.req) /\ pass.t \in Tenants
        BY <1>9, <2>1 DEF Moves, Holding
    <2>3. pass.req.enc = "own" => row[pass.t].key BY <2>1 DEF KeyInv, Moves
    <2>4. Fine(pass.t, [pass.req EXCEPT !.pasted = "none"]) BY <2>2, <2>3, RestIsFine
    <2> QED BY <1>1, <1>3, <1>4, <2>1, <2>4
<1>13. CASE WriteAnswer
    <2>1. /\ Moves("answer", "marker")
          /\ conf'[pass.t].request \in {Remaining(pass.req), Unreadable}
          /\ \A u \in Tenants : u # pass.t => conf'[u] = conf[u]
        BY <1>13, AnswerEffect
    <2>2. pass.req \in Reqs /\ Fine(pass.t, pass.req) /\ pass.t \in Tenants
        BY <1>9, <2>1 DEF Moves, Holding
    <2>3. Fine(pass.t, Remaining(pass.req)) BY <2>2, RestIsFine
    <2> QED BY <1>1, <1>3, <1>4, <2>1, <2>3
<1>14. CASE Restore
    BY <1>6, <1>7, <1>14, RestoreEffect, RestoreFinds
<1>15. CASE TakeMarker \/ OpenStatus \/ WriteStatus
    BY <1>3, <1>15, MarkerEffect, OpenEffect, StatusEffect
<1>16. CASE ReadRequest \/ MakeKeys \/ SetSettings \/ SetKeys \/ MakeBackup
    BY <1>7, <1>16 DEF ReadRequest, MakeKeys, SetSettings, SetKeys, MakeBackup
<1>17. CASE StartPass \/ Crash BY <1>7, <1>17 DEF StartPass, Crash
<1>18. ASSUME NEW u \in Tenants, NightlyBackup(u) PROVE Fine(t, r)'
    BY <1>7, <1>18 DEF NightlyBackup
<1>19. ASSUME NEW u \in Tenants, NEW s \in DOMAIN taken[u], OperatorRestore(u, s)
       PROVE  Fine(t, r)'
    BY <1>6, <1>19 DEF OperatorRestore
<1>20. CASE UNCHANGED vars BY <1>7, <1>20 DEF vars
<1> QED
    BY <1>8, <1>10, <1>11, <1>12, <1>13, <1>14, <1>15, <1>16, <1>17, <1>18, <1>19, <1>20
       DEF Next, PassStep

LEMMA SnapshotsStep ==
    ASSUME Types, SourceInv, [Next]_vars
    PROVE  SnapshotsFine'
<1> SUFFICES ASSUME NEW t \in Tenants, NEW r \in Reqs, NEW s \in DOMAIN taken'[t],
                    taken'[t][s].conf.request = r, IsRecord(r)
             PROVE  Fine(t, r)'
    BY DEF SnapshotsFine, IsRecord
<1>0. ClicksGo /\ KeysStay /\ SnapshotsStay BY NextKeeps
<1>1. Fine(t, r) => Fine(t, r)' BY <1>0, FineStays
<1>2. CASE s \in DOMAIN taken[t] /\ taken'[t][s].conf = taken[t][s].conf
    BY <1>1, <1>2 DEF SourceInv, SnapshotsFine
<1>3. CASE taken'[t][s].conf = conf[t]
    BY <1>1, <1>3 DEF SourceInv, FilesFine
<1>4. ASSUME NEW u \in Tenants, Snapshot(u) PROVE Fine(t, r)'
    BY <1>2, <1>3, <1>4, SnapshotTypes
<1>5. CASE UNCHANGED taken BY <1>2, <1>5
<1>6. CASE MakeBackup BY <1>4, <1>5, <1>6, BackupEffect DEF Moves
<1>7. ASSUME NEW u \in Tenants, NightlyBackup(u) PROVE Fine(t, r)'
    BY <1>4, <1>7 DEF NightlyBackup
<1>8. CASE PassStep /\ ~MakeBackup
    <2>1. UNCHANGED taken
        BY <1>8 DEF PassStep, ReadRequest, MakeKeys, SetSettings, SetKeys, OpenScrub,
                    WriteScrub, OpenAnswer, WriteAnswer, TakeMarker, Restore,
                    OpenStatus, WriteStatus, Reopen, Rewrite
    <2> QED BY <1>5, <2>1
<1>9. ASSUME NEW c \in Clicks, Click(c) PROVE Fine(t, r)'
    BY <1>5, <1>9 DEF Click, OpenRequest, WriteRequest, SaveSettings, AskRestore, BackupNow
<1>10. CASE StartPass \/ Crash BY <1>5, <1>10 DEF StartPass, Crash
<1>11. ASSUME NEW u \in Tenants, NEW k \in DOMAIN taken[u], OperatorRestore(u, k)
       PROVE  Fine(t, r)'
    BY <1>5, <1>11 DEF OperatorRestore
<1>12. CASE UNCHANGED vars BY <1>5, <1>12 DEF vars
<1> QED BY <1>6, <1>7, <1>8, <1>9, <1>10, <1>11, <1>12 DEF Next

LEMMA PassFineStep ==
    ASSUME Types, SourceInv, [Next]_vars
    PROVE  PassFine'
<1> USE DEF Moves, Knows
<1>0. ClicksGo /\ KeysStay /\ SnapshotsStay BY NextKeeps
<1>1. CASE ~Holds' BY <1>1 DEF PassFine
<1>2. ASSUME Holds, pass.t \in Tenants, pass'.t = pass.t, pass'.req = pass.req
      PROVE  PassFine'
    <2> SUFFICES ASSUME NEW r \in Reqs, pass'.req = r PROVE Fine(pass.t, r)'
        BY DEF PassFine
    <2> DEFINE t == pass.t
    <2>1. Fine(t, r) /\ t \in Tenants BY <1>2 DEF SourceInv, PassFine
    <2> HIDE DEF t
    <2>2. \A u \in Tenants : Fine(u, r) => Fine(u, r)' BY <1>0, FineStays
    <2>3. \A u \in Tenants : u = pass'.t => (Fine(u, r)' => Fine(pass.t, r)')
        BY DEF Fine, Asked
    <2> QED BY <1>2, <2>1, <2>2, <2>3 DEF t
<1>3. CASE ReadRequest
    <2>1. CASE ~Holds' BY <1>1, <2>1
    <2>2. CASE Holds'
        <3>1. /\ pass.t \in Tenants /\ pass'.t = pass.t
              /\ pass'.req = conf[pass.t].request /\ IsRecord(pass'.req)
            BY <1>3, <2>2, ReadEffect DEF Holds, Holding
        <3> SUFFICES ASSUME NEW r \in Reqs, pass'.req = r PROVE Fine(pass.t, r)'
            BY DEF PassFine
        <3>2. IsRecord(r) BY <3>1
        <3>3. Fine(pass.t, r) BY <3>1, <3>2 DEF SourceInv, FilesFine
        <3>4. \A u \in Tenants : Fine(u, r) => Fine(u, r)' BY <1>0, FineStays
        <3>5. \A u \in Tenants : u = pass'.t => (Fine(u, r)' => Fine(pass.t, r)')
            BY DEF Fine, Asked
        <3> QED BY <3>1, <3>3, <3>4, <3>5
    <2> QED BY <2>1, <2>2
<1>4. CASE MakeKeys
    BY <1>1, <1>2, <1>4, KeysEffect DEF Holds, Holding
<1>5. CASE SetSettings
    BY <1>1, <1>2, <1>5, SettingsEffect DEF Holds, Holding
<1>6. CASE SetKeys
    BY <1>1, <1>2, <1>6, SetKeysEffect DEF Holds, Holding
<1>7. CASE OpenScrub
    BY <1>1, <1>2, <1>7, ReopenEffect DEF Holds, Holding, OpenScrub
<1>8. CASE OpenAnswer
    BY <1>1, <1>2, <1>8, ReopenEffect DEF Holds, Holding, OpenAnswer
<1>9. CASE WriteScrub
    BY <1>1, <1>2, <1>9, ScrubEffect DEF Holds, Holding
<1>10. CASE Restore
    BY <1>1, <1>2, <1>10, RestoreEffect DEF Holds, Holding
<1>11. CASE WriteAnswer
    BY <1>1, <1>11, AnswerEffect DEF Holds, Holding
<1>12. CASE TakeMarker
    BY <1>1, <1>12, MarkerEffect DEF Holds, Holding, Closing
<1>13. CASE MakeBackup
    BY <1>1, <1>13, BackupEffect DEF Holds, Holding
<1>14. CASE OpenStatus
    BY <1>1, <1>14, OpenEffect DEF Holds, Holding, TurnEnds, Begins
<1>15. CASE WriteStatus
    BY <1>1, <1>15, StatusEffect DEF Holds, Holding, TurnEnds, Begins
<1>16. CASE StartPass
    BY <1>1, <1>16, StartEffect DEF Holds, Holding, Begins
<1>17. CASE Crash
    BY <1>1, <1>17 DEF Crash, Holds, Busy
<1>18. CASE UNCHANGED pass
    <2>1. CASE Holds BY <1>2, <1>18, <2>1, BusyPass DEF Holds
    <2>2. CASE ~Holds BY <1>1, <1>18, <2>2 DEF Holds, Busy
    <2> QED BY <2>1, <2>2
<1>19. ASSUME NEW c \in Clicks, Click(c) PROVE UNCHANGED pass
    BY <1>19 DEF Click, OpenRequest, WriteRequest, SaveSettings, AskRestore, BackupNow
<1>20. ASSUME NEW u \in Tenants, NightlyBackup(u) PROVE UNCHANGED pass
    BY <1>20 DEF NightlyBackup
<1>21. ASSUME NEW u \in Tenants, NEW k \in DOMAIN taken[u], OperatorRestore(u, k)
       PROVE  UNCHANGED pass
    BY <1>21 DEF OperatorRestore
<1>22. CASE UNCHANGED vars BY <1>18, <1>22 DEF vars
<1> QED
    BY <1>3, <1>4, <1>5, <1>6, <1>7, <1>8, <1>9, <1>10, <1>11, <1>12, <1>13, <1>14,
       <1>15, <1>16, <1>17, <1>18, <1>19, <1>20, <1>21, <1>22 DEF Next, PassStep

LEMMA SourceStep == Types /\ KeyInv /\ SourceInv /\ [Next]_vars => SourceInv'
BY ClicksStep, FilesStep, SnapshotsStep, PassFineStep DEF SourceInv

-----------------------------------------------------------------------------
\* A key was asked for, and no destination to tell it at.
KeyNowhere(t) ==
    \E c \in Clicks :
        Asked(t, c) /\ click[c].req.host = NoHost /\ click[c].req.enc # "none"

\* The key is yet to be told, by the pass that made it.
ToTell(t) == Busy /\ pass.t = t /\ pass.reveal

ShownInv ==
    \A t \in Tenants :
        /\ shown[t] <= 1 + restores[t] /\ (shown[t] > 0 => row[t].key)
        /\ ToTell(t) =>
               /\ shown[t] = 0 /\ row[t].key
               /\ row[t].host # NoHost \/ KeyNowhere(t)
        /\ row[t].key /\ shown[t] = 0 /\ t \notin untold => KeyNowhere(t) \/ ToTell(t)

LEMMA ShownInit == Init => ShownInv
BY DEF Init, ShownInv, ToTell, Busy

\* No volume and no snapshot tells a key that was not shown.
Seen ==
    \A t \in Tenants :
        /\ TellsKey(conf[t].status) => shown[t] > 0
        /\ \A s \in DOMAIN taken[t] : TellsKey(taken[t][s].conf.status) => shown[t] > 0

LEMMA SeenInit == Init => Seen
BY DEF Init, Seen, TellsKey, IsRecord, Fresh

\* Only a restore and the last steps of a turn touch a status file.
LEMMA StatusesStay ==
    ASSUME Types,
           \/ \E c \in Clicks : Click(c)
           \/ StartPass \/ Crash \/ \E t \in Tenants : NightlyBackup(t)
           \/ PassStep /\ ~Restore /\ ~OpenStatus /\ ~WriteStatus
    PROVE  (\A t \in Tenants : conf'[t].status = conf[t].status) /\ UNCHANGED shown
<1>1. ASSUME NEW c \in Clicks, Click(c)
      PROVE  (\A t \in Tenants : conf'[t].status = conf[t].status) /\ UNCHANGED shown
    <2>1. CASE OpenRequest(c)
        <3>1. click[c].tenant \in Tenants
            BY <2>1 DEF OpenRequest, Types, Unused, Marked, Submitted
        <3> QED BY <2>1, <3>1, RequestOnly DEF OpenRequest
    <2>2. CASE WriteRequest(c)
        <3>1. click[c].tenant \in Tenants
            BY <2>2 DEF WriteRequest, Types, Unused, Marked, Submitted
        <3>2. PICK text : conf' = [conf EXCEPT ![click[c].tenant].request = text]
            BY <2>2 DEF WriteRequest
        <3> QED BY <2>2, <3>1, <3>2, RequestOnly DEF WriteRequest
    <2>3. ASSUME NEW t \in Tenants, SaveSettings(c, t) \/ AskRestore(c, t)
          PROVE  UNCHANGED <<conf, shown>>
        BY <2>3 DEF SaveSettings, AskRestore
    <2>4. ASSUME NEW t \in Tenants, BackupNow(c, t)
          PROVE  (\A u \in Tenants : conf'[u].status = conf[u].status) /\ UNCHANGED shown
        BY <2>4, MarkerOnly DEF BackupNow
    <2> QED BY <1>1, <2>1, <2>2, <2>3, <2>4 DEF Click
<1>2. CASE OpenScrub \/ OpenAnswer
    <2>1. pass.t \in Tenants BY <1>2, BusyPass DEF OpenScrub, OpenAnswer, Reopen, Stages, Holding
    <2> QED BY <1>2, <2>1, RequestOnly DEF OpenScrub, OpenAnswer, Reopen
<1>3. CASE WriteScrub \/ WriteAnswer
    <2>1. pass.t \in Tenants BY <1>3, BusyPass DEF WriteScrub, WriteAnswer, Stages, Holding
    <2>2. \E left : conf' = [conf EXCEPT ![pass.t].request = left]
        BY <1>3 DEF WriteScrub, WriteAnswer, Rewrite
    <2>3. UNCHANGED shown BY <1>3 DEF WriteScrub, WriteAnswer, Rewrite
    <2> QED BY <2>1, <2>2, <2>3, RequestOnly
<1>4. CASE TakeMarker
    <2>1. pass.t \in Tenants BY <1>4, BusyPass DEF TakeMarker, Stages
    <2> QED BY <1>4, <2>1, MarkerOnly DEF TakeMarker
<1>5. CASE \/ StartPass \/ Crash \/ \E t \in Tenants : NightlyBackup(t)
           \/ ReadRequest \/ MakeKeys \/ SetSettings \/ SetKeys \/ MakeBackup
    BY <1>5 DEF StartPass, Crash, NightlyBackup, ReadRequest, MakeKeys, SetSettings,
                SetKeys, MakeBackup
<1> QED BY <1>1, <1>2, <1>3, <1>4, <1>5 DEF PassStep

LEMMA SeenStep == Types /\ SourceInv /\ Seen /\ [Next]_vars => Seen'
<1> SUFFICES ASSUME Types, SourceInv, Seen, [Next]_vars PROVE Seen'
    OBVIOUS
<1> USE DEF Moves
<1>0. shown \in [Tenants -> Nat] BY DEF Types
<1>1. ASSUME UNCHANGED <<taken, shown>>,
             \A t \in Tenants : \/ conf'[t].status = conf[t].status
                               \/ conf'[t].status = Unreadable
      PROVE  Seen'
    BY <1>1 DEF Seen, TellsKey, IsRecord
<1>2. ASSUME NEW t \in Tenants, Snapshot(t), UNCHANGED shown,
             \A u \in Tenants : conf'[u].status = conf[u].status
      PROVE  Seen'
    BY <1>2, SnapshotTypes DEF Seen
<1>3. ASSUME NEW t \in Tenants, NEW s \in DOMAIN taken[t], BringBack(t, s), UNCHANGED taken
      PROVE  Seen'
    <2>1. /\ conf'[t] = taken[t][s].conf /\ \A u \in Tenants : u # t => conf'[u] = conf[u]
          /\ \A u \in Tenants : shown'[u] >= shown[u] /\ shown'[u] \in Nat
        BY <1>3, BringBackTypes
    <2>2. \A u \in Tenants : shown[u] > 0 => shown'[u] > 0 BY <1>0, <2>1
    <2> QED BY <1>3, <2>1, <2>2 DEF Seen
<1>4. ASSUME NEW c \in Clicks, Click(c) PROVE Seen'
    <2>1. UNCHANGED taken
        BY <1>4 DEF Click, OpenRequest, WriteRequest, SaveSettings, AskRestore, BackupNow
    <2> QED BY <1>1, <1>4, <2>1, StatusesStay
<1>5. ASSUME NEW t \in Tenants, NightlyBackup(t) PROVE Seen'
    BY <1>2, <1>5, StatusesStay DEF NightlyBackup
<1>6. ASSUME NEW t \in Tenants, NEW s \in DOMAIN taken[t], OperatorRestore(t, s) PROVE Seen'
    BY <1>3, <1>6 DEF OperatorRestore
<1>7. CASE Restore
    <2>1. UNCHANGED taken BY <1>7 DEF Restore
    <2>2. CASE UNCHANGED <<conf, shown>> BY <1>1, <2>1, <2>2
    <2> QED BY <1>3, <1>7, <2>1, <2>2, RestoreEffect, RestoreFinds
<1>8. CASE OpenStatus
    <2>1. UNCHANGED <<taken, shown>> BY <1>8 DEF OpenStatus
    <2>2. CASE UNCHANGED conf BY <1>1, <2>1, <2>2
    <2>3. CASE conf' = [conf EXCEPT ![pass.t].status = Unreadable]
        <3>1. pass.t \in Tenants BY <1>8, BusyPass DEF OpenStatus, Stages
        <3> DEFINE v == [conf[pass.t] EXCEPT !.status = Unreadable]
        <3>2. conf' = [conf EXCEPT ![pass.t] = v] BY <2>3, <3>1 DEF Types
        <3>3. v.status = Unreadable BY <3>1, FileTypes DEF Volumes
        <3> HIDE DEF v
        <3>4. \A u \in Tenants : conf'[u] = IF u = pass.t THEN v ELSE conf[u]
            BY <3>2 DEF Types
        <3> QED BY <1>1, <2>1, <3>3, <3>4
    <2> QED BY <1>8, <2>2, <2>3 DEF OpenStatus
<1>9. CASE WriteStatus
    <2>1. UNCHANGED taken BY <1>9 DEF WriteStatus
    <2>2. Busy /\ pass.t \in Tenants BY <1>9, StatusEffect DEF TurnEnds
    <2>3. \A u \in Tenants :
              shown'[u] = IF u = pass.t /\ pass.reveal THEN shown[u] + 1 ELSE shown[u]
        BY <1>9, StatusEffect
    <2> DEFINE k == [host |-> row[pass.t].host, enc |-> row[pass.t].enc,
                     reveal |-> pass.reveal]
               v == [conf[pass.t] EXCEPT !.status = k]
    <2>4. conf' = [conf EXCEPT ![pass.t] = v] BY <1>9, <2>2 DEF WriteStatus, Types
    <2>5. k.reveal = pass.reveal OBVIOUS
    <2> HIDE DEF k
    <2>6. v.status = k BY <2>2, FileTypes DEF Volumes
    <2> HIDE DEF v
    <2>7. \A u \in Tenants : conf'[u] = IF u = pass.t THEN v ELSE conf[u]
        BY <2>4 DEF Types
    <2>8. \A u \in Tenants : shown[u] > 0 => shown'[u] > 0 BY <1>0, <2>3
    <2>9. pass.reveal => shown'[pass.t] > 0 BY <1>0, <2>2, <2>3
    <2> QED BY <2>1, <2>2, <2>3, <2>5, <2>6, <2>7, <2>8, <2>9 DEF Seen, TellsKey
<1>10. CASE MakeBackup
    <2>1. pass.t \in Tenants /\ (Snapshot(pass.t) \/ UNCHANGED taken)
        BY <1>10, BackupEffect
    <2>2. UNCHANGED <<conf, shown>> BY <1>10 DEF MakeBackup
    <2> QED BY <1>1, <1>2, <2>1, <2>2
<1>11. CASE StartPass \/ Crash
    BY <1>1, <1>11, StatusesStay DEF StartPass, Crash
<1>12. CASE PassStep /\ ~Restore /\ ~OpenStatus /\ ~WriteStatus /\ ~MakeBackup
    <2>1. UNCHANGED taken
        BY <1>12 DEF PassStep, ReadRequest, MakeKeys, SetSettings, SetKeys, OpenScrub,
                     WriteScrub, OpenAnswer, WriteAnswer, TakeMarker, Reopen, Rewrite
    <2> QED BY <1>1, <1>12, <2>1, StatusesStay
<1>13. CASE UNCHANGED vars BY <1>1, <1>13 DEF vars
<1> QED
    BY <1>4, <1>5, <1>6, <1>7, <1>8, <1>9, <1>10, <1>11, <1>12, <1>13 DEF Next

LEMMA ShownStep ==
    Types /\ KeyInv /\ SourceInv /\ Seen /\ ShownInv /\ [Next]_vars => ShownInv'
<1> SUFFICES ASSUME Types, KeyInv, SourceInv, Seen, ShownInv, [Next]_vars PROVE ShownInv'
    OBVIOUS
<1> USE DEF Moves, Knows
<1>0. ClicksGo BY NextKeeps
<1>a. shown \in [Tenants -> Nat] /\ restores \in [Tenants -> Nat] BY DEF Types
<1>1. \A t \in Tenants : KeyNowhere(t) => KeyNowhere(t)'
    BY <1>0 DEF KeyNowhere, Asked, ClicksGo
<1>2. ASSUME UNCHANGED <<row, shown, restores, untold>>,
             \A t \in Tenants : ToTell(t)' <=> ToTell(t)
      PROVE  ShownInv'
    BY <1>1, <1>2 DEF ShownInv
<1>3. ASSUME UNCHANGED <<row, shown, restores, untold>>, Busy, Busy', pass'.t = pass.t,
             pass'.reveal = pass.reveal
      PROVE  ShownInv'
    BY <1>2, <1>3 DEF ToTell
<1>4. ASSUME UNCHANGED <<row, shown, restores, untold>>, Busy => ~pass.reveal,
             Busy' => ~pass'.reveal
      PROVE  ShownInv'
    BY <1>2, <1>4 DEF ToTell
<1>5. ASSUME UNCHANGED <<row, shown, restores, untold, pass>> PROVE ShownInv'
    <2>1. \A t \in Tenants : ToTell(t)' <=> ToTell(t) BY <1>5 DEF ToTell, Busy
    <2> QED BY <1>2, <1>5, <2>1
<1>6. ASSUME NEW c \in Clicks, Click(c) PROVE ShownInv'
    BY <1>5, <1>6
       DEF Click, OpenRequest, WriteRequest, SaveSettings, AskRestore, BackupNow
<1>7. ASSUME NEW t \in Tenants, NightlyBackup(t) PROVE ShownInv'
    BY <1>5, <1>7 DEF NightlyBackup
<1>8. ASSUME NEW t \in Tenants, NEW s \in DOMAIN taken[t], BringBack(t, s),
             UNCHANGED <<row, untold>>, \A u \in Tenants : ToTell(u)' <=> ToTell(u)
      PROVE  ShownInv'
    <2>1. /\ \A u \in Tenants : u # t => shown'[u] = shown[u] /\ restores'[u] = restores[u]
          /\ restores'[t] = restores[t] + 1 /\ shown'[t] \in {shown[t], shown[t] + 1}
          /\ shown[t] = 0 => shown'[t] = 0
        BY <1>8, <1>a, BringBackTypes DEF Seen
    <2>2. ASSUME NEW u \in Tenants
          PROVE  /\ shown'[u] <= 1 + restores'[u]
                 /\ shown'[u] = 0 <=> shown[u] = 0
        BY <1>a, <2>1 DEF ShownInv
    <2>3. \A u \in Tenants : shown'[u] > 0 => shown[u] > 0
        BY <1>a, <2>1
    <2> QED BY <1>1, <1>8, <2>2, <2>3 DEF ShownInv
<1>25. ASSUME NEW t \in Tenants, NEW s \in DOMAIN taken[t], OperatorRestore(t, s)
       PROVE  ShownInv'
    <2>1. UNCHANGED <<row, untold, pass>> BY <1>25 DEF OperatorRestore
    <2>2. \A u \in Tenants : ToTell(u)' <=> ToTell(u) BY <2>1 DEF ToTell, Busy
    <2> QED BY <1>8, <1>25, <2>1, <2>2 DEF OperatorRestore
<1>9. CASE StartPass
    <2>1. UNCHANGED <<row, shown, restores, untold>> BY <1>9 DEF StartPass
    <2> QED BY <1>4, <1>9, <2>1, StartEffect DEF Begins
<1>10. CASE Crash
    <2>1. /\ UNCHANGED <<row, shown, restores>> /\ Busy /\ ~Busy'
          /\ untold' = IF pass.reveal THEN untold \cup {pass.t} ELSE untold
        BY <1>10 DEF Crash, Busy
    <2>2. \A t \in Tenants : t \notin untold' => t \notin untold /\ ~ToTell(t)
        BY <2>1 DEF ToTell
    <2> QED BY <1>1, <2>1, <2>2 DEF ShownInv, ToTell
<1>11. CASE ReadRequest
    <2>1. UNCHANGED <<row, shown, restores, untold>> BY <1>11 DEF ReadRequest
    <2> QED BY <1>3, <1>4, <1>11, <2>1, ReadEffect DEF KeyInv
<1>12. CASE MakeKeys
    <2>1. UNCHANGED <<row, shown, restores, untold>> BY <1>12 DEF MakeKeys
    <2> QED BY <1>3, <1>4, <1>12, <2>1, KeysEffect DEF KeyInv
<1>13. CASE SetSettings
    <2>1. UNCHANGED <<shown, restores, untold>> BY <1>13 DEF SetSettings
    <2>2. /\ Busy /\ \A u \in Tenants : row'[u].key = row[u].key
          /\ Busy' => pass'.reveal = pass.reveal
        BY <1>13, SettingsEffect
    <2>3. ~pass.reveal BY <1>13, <2>2, SettingsEffect DEF KeyInv
    <2>4. \A t \in Tenants : ~ToTell(t) /\ ~ToTell(t)' BY <2>2, <2>3 DEF ToTell
    <2> QED BY <1>1, <2>1, <2>2, <2>4 DEF ShownInv
<1>14. CASE SetKeys
    <2>1. UNCHANGED <<shown, restores, untold, click>> BY <1>14 DEF SetKeys
    <2>2. /\ Busy /\ Busy' /\ pass.at = "setkeys" /\ pass.t \in Tenants /\ pass'.t = pass.t
          /\ pass'.reveal = (pass.made /\ ~pass.hadKey)
          /\ \A u \in Tenants : u # pass.t => row'[u] = row[u]
          /\ row'[pass.t].host = row[pass.t].host
          /\ row'[pass.t].key = (row[pass.t].key \/ pass.made)
        BY <1>14, SetKeysEffect
    <2>3. ~pass.reveal /\ pass.hadKey = row[pass.t].key BY <2>2 DEF KeyInv
    <2> PICK u \in Tenants : u = pass.t BY <2>2
    <2>4. /\ \A t \in Tenants : ToTell(t)' => t = u
          /\ \A t \in Tenants : ~ToTell(t)
        BY <2>2, <2>3 DEF ToTell
    <2>5. ASSUME NEW t \in Tenants, t # u
          PROVE  /\ shown'[t] <= 1 + restores'[t] /\ (shown'[t] > 0 => row'[t].key)
                 /\ ToTell(t)' => /\ shown'[t] = 0 /\ row'[t].key
                                  /\ row'[t].host # NoHost \/ KeyNowhere(t)'
                 /\ row'[t].key /\ shown'[t] = 0 /\ t \notin untold' =>
                        KeyNowhere(t)' \/ ToTell(t)'
        BY <1>1, <2>1, <2>2, <2>4, <2>5 DEF ShownInv
    <2>6. /\ shown'[u] <= 1 + restores'[u] /\ (shown'[u] > 0 => row'[u].key)
          /\ row[u].key => row'[u].key
        BY <2>1, <2>2, <2>4 DEF ShownInv
    <2>7. CASE ToTell(u)'
        <3>1. pass.made /\ ~row[u].key BY <2>2, <2>3, <2>7 DEF ToTell
        <3>0. shown[u] = 0 BY <1>a, <3>1 DEF ShownInv
        <3>2. shown'[u] = 0 /\ row'[u].key BY <2>1, <2>2, <3>0, <3>1
        <3>3. row[u].host = pass.req.host /\ pass.req.enc # "none"
            BY <2>2, <3>1 DEF KeyInv, NeedsKey
        <3>4. row'[u].host # NoHost \/ KeyNowhere(u)
            <4>1. pass.req \in Reqs /\ Holds BY <2>2 DEF Types, Holds, Holding
            <4>2. Fine(u, pass.req) BY <4>1 DEF SourceInv, PassFine
            <4> QED BY <2>2, <3>3, <4>2 DEF Fine, KeyNowhere
        <3>5. KeyNowhere(u) => KeyNowhere(u)' BY <1>1, <2>4
        <3> QED BY <2>5, <2>6, <2>7, <3>2, <3>4, <3>5 DEF ShownInv
    <2>8. CASE ~ToTell(u)'
        <3>1. ~(pass.made /\ ~row[u].key) BY <2>2, <2>3, <2>8 DEF ToTell
        <3>2. row'[u].key => row[u].key BY <2>2, <3>1
        <3>3. row'[u].key /\ shown'[u] = 0 /\ u \notin untold' => KeyNowhere(u)'
            BY <1>1, <2>1, <2>4, <3>2 DEF ShownInv
        <3> QED BY <2>5, <2>6, <2>8, <3>3 DEF ShownInv
    <2> QED BY <2>7, <2>8
<1>15. CASE OpenScrub
    <2>1. UNCHANGED <<row, shown, restores, untold>> BY <1>15 DEF OpenScrub, Reopen
    <2> QED BY <1>3, <1>15, <2>1, ReopenEffect DEF OpenScrub, Holding
<1>16. CASE OpenAnswer
    <2>1. UNCHANGED <<row, shown, restores, untold>> BY <1>16 DEF OpenAnswer, Reopen
    <2> QED BY <1>3, <1>16, <2>1, ReopenEffect DEF OpenAnswer, Holding
<1>17. CASE WriteScrub
    <2>1. UNCHANGED <<row, shown, restores, untold>> BY <1>17 DEF WriteScrub, Rewrite
    <2> QED BY <1>3, <1>17, <2>1, ScrubEffect
<1>18. CASE WriteAnswer
    <2>1. UNCHANGED <<row, shown, restores, untold>> BY <1>18 DEF WriteAnswer, Rewrite
    <2> QED BY <1>3, <1>18, <2>1, AnswerEffect
<1>19. CASE Restore
    <2>1. UNCHANGED <<row, untold>> /\ Busy /\ Busy' /\ pass'.t = pass.t
          /\ pass'.reveal = pass.reveal
        BY <1>19, RestoreEffect DEF Restore
    <2>2. \A u \in Tenants : ToTell(u)' <=> ToTell(u) BY <2>1 DEF ToTell
    <2>3. CASE UNCHANGED <<shown, restores>> BY <1>2, <2>1, <2>2, <2>3
    <2> QED BY <1>8, <1>19, <2>1, <2>2, <2>3, RestoreEffect, RestoreFinds
<1>20. CASE TakeMarker
    <2>1. UNCHANGED <<row, shown, restores, untold>> BY <1>20 DEF TakeMarker
    <2> QED BY <1>3, <1>20, <2>1, MarkerEffect
<1>21. CASE MakeBackup
    <2>1. UNCHANGED <<row, shown, restores, untold>> BY <1>21 DEF MakeBackup
    <2> QED BY <1>3, <1>21, <2>1, BackupEffect
<1>22. CASE OpenStatus
    <2>1. UNCHANGED <<row, shown, restores, untold>> BY <1>22 DEF OpenStatus
    <2>2. CASE Moves("status", "writestatus") /\ pass'.reveal = pass.reveal
        BY <1>3, <2>1, <2>2
    <2>3. CASE row[pass.t].host = NoHost /\ TurnEnds
        <3>1. \A t \in Tenants : ~ToTell(t)' BY <2>3 DEF TurnEnds, Begins, ToTell
        <3>2. \A t \in Tenants : ToTell(t) => KeyNowhere(t) BY <2>3 DEF ShownInv, ToTell
        <3> QED BY <1>1, <2>1, <3>1, <3>2 DEF ShownInv
    <2> QED BY <1>22, <2>2, <2>3, OpenEffect
<1>23. CASE WriteStatus
    <2>1. UNCHANGED <<row, restores, untold>> BY <1>23 DEF WriteStatus
    <2>2. /\ \A u \in Tenants :
                 shown'[u] = IF u = pass.t /\ pass.reveal THEN shown[u] + 1 ELSE shown[u]
          /\ Busy /\ Begins
        BY <1>23, StatusEffect DEF TurnEnds
    <2>3. \A t \in Tenants : ~ToTell(t)' BY <2>2 DEF Begins, ToTell
    <2> SUFFICES ASSUME NEW t \in Tenants
                 PROVE  /\ shown'[t] <= 1 + restores'[t] /\ (shown'[t] > 0 => row'[t].key)
                        /\ row'[t].key /\ shown'[t] = 0 /\ t \notin untold' => KeyNowhere(t)'
        BY <2>3 DEF ShownInv
    <2>4. CASE ToTell(t)
        <3>1. shown[t] = 0 /\ row[t].key BY <2>4 DEF ShownInv
        <3>2. shown'[t] = shown[t] + 1 BY <2>2, <2>4 DEF ToTell
        <3> QED BY <1>a, <2>1, <3>1, <3>2
    <2>5. CASE ~ToTell(t)
        <3>1. shown'[t] = shown[t] BY <2>2, <2>5 DEF ToTell
        <3> QED BY <1>1, <2>1, <2>5, <3>1 DEF ShownInv
    <2> QED BY <2>4, <2>5
<1>24. CASE UNCHANGED vars BY <1>5, <1>24 DEF vars
<1> QED
    BY <1>6, <1>7, <1>9, <1>10, <1>11, <1>12, <1>13, <1>14, <1>15, <1>16, <1>17,
       <1>18, <1>19, <1>20, <1>21, <1>22, <1>23, <1>24, <1>25 DEF Next, PassStep

-----------------------------------------------------------------------------
LEMMA AskedIsAsked ==
    ASSUME NEW t \in Tenants, NEW c \in Clicks, Asked(t, c)
    PROVE  click[c].req \in AskedOf(t)
BY DEF Asked, Submitted, AskedOf

LEMMA ShownOnce == ShownInv => KeyShownOnce
<1> SUFFICES ASSUME ShownInv, NEW t \in Tenants
             PROVE  /\ shown[t] <= 1 + restores[t]
                    /\ row[t].key /\ shown[t] = 0 /\ t \notin untold
                           /\ (pass # Resting => pass.t # t) =>
                          \E r \in AskedOf(t) : r.host = NoHost /\ r.enc # "none"
    BY DEF KeyShownOnce
<1>1. shown[t] <= 1 + restores[t] BY DEF ShownInv
<1>2. KeyNowhere(t) => \E r \in AskedOf(t) : r.host = NoHost /\ r.enc # "none"
    BY AskedIsAsked DEF KeyNowhere
<1> QED BY <1>1, <1>2 DEF ShownInv, ToTell, Busy

LEMMA EncryptionInit == Init => EncryptionHasKey
BY DEF Init, EncryptionHasKey

LEMMA EncryptionStep ==
    Types /\ KeyInv /\ SourceInv /\ EncryptionHasKey /\ [Next]_vars => EncryptionHasKey'
<1> SUFFICES ASSUME Types, KeyInv, SourceInv, EncryptionHasKey, [Next]_vars,
                    NEW t \in Tenants, row'[t].enc, ~row'[t].key
             PROVE  \/ (pass'.at = "setkeys" /\ pass'.t = t) \/ t \in halfway'
                    \/ \E r \in AskedOf(t)' : r.enc = "own" /\ r.pasted = "none"
    BY DEF EncryptionHasKey, In
<1> DEFINE Keyless ==
        \E c \in Clicks :
            Asked(t, c) /\ click[c].req.enc = "own" /\ click[c].req.pasted = "none"
<1> USE DEF Moves, Knows
<1>0. ClicksGo BY NextKeeps
<1>1. \A r \in AskedOf(t) : r \in AskedOf(t)'
    <2> SUFFICES ASSUME NEW c \in Clicks, "req" \in DOMAIN click[c], click[c].tenant = t
                 PROVE  click[c].req \in AskedOf(t)'
        BY DEF AskedOf
    <2>0. DOMAIN Unused = {"at"} /\ \A k \in Marked : DOMAIN k = {"at", "tenant"}
        BY DEF Unused, Marked
    <2>1. click[c] \in Submitted
        <3>1. DOMAIN click[c] # {"at"} /\ DOMAIN click[c] # {"at", "tenant"} OBVIOUS
        <3>2. click[c] # Unused /\ click[c] \notin Marked BY <2>0, <3>1
        <3>3. click[c] \in {Unused} \cup Submitted \cup Marked BY DEF Types
        <3> QED BY <3>2, <3>3
    <2>2. Asked(t, c)' /\ click'[c].req = click[c].req BY <1>0, <2>1 DEF ClicksGo, Asked
    <2> QED BY <2>2 DEF Asked, Submitted, AskedOf
<1>2. \/ row'[t] # row[t] \/ (pass.at = "setkeys" /\ pass.t = t) \/ t \in halfway
      \/ \E r \in AskedOf(t)' : r.enc = "own" /\ r.pasted = "none"
    BY <1>1 DEF EncryptionHasKey, In
<1>3. CASE SetSettings
    <2>1. CASE ~Busy'
        BY <1>2, <1>3, <2>1, SettingsEffect DEF SetSettings
    <2>2. CASE Busy'
        BY <1>2, <1>3, <2>2, SettingsEffect DEF SetSettings
    <2> QED BY <2>1, <2>2
<1>4. CASE SetKeys
    <2>1. halfway' = halfway \ {pass.t} /\ UNCHANGED click BY <1>4 DEF SetKeys
    <2>2. /\ Busy /\ pass.at = "setkeys" /\ pass.t \in Tenants
          /\ \A u \in Tenants : u # pass.t => row'[u] = row[u]
          /\ row'[pass.t].enc = row[pass.t].enc
          /\ row'[pass.t].key = (row[pass.t].key \/ pass.made)
        BY <1>4, SetKeysEffect
    <2>3. CASE pass.t # t BY <1>2, <2>1, <2>2, <2>3
    <2>4. CASE pass.t = t
        <3>1. ~pass.made /\ ~row[t].key BY <2>2, <2>4
        <3>2. pass.req.enc # "none" /\ ~NeedsKey(t, pass.req) BY <2>2, <2>4, <3>1 DEF KeyInv
        <3>3. pass.req \in Reqs /\ Holds BY <2>2 DEF Types, Holds, Holding
        <3>4. pass.req.enc = "own" /\ pass.req.pasted = "none"
            BY <3>1, <3>2, <3>3 DEF NeedsKey, Reqs
        <3>5. Fine(t, pass.req) BY <2>4, <3>3 DEF SourceInv, PassFine
        <3>6. Keyless BY <3>1, <3>4, <3>5 DEF Fine
        <3>7. \E r \in AskedOf(t) : r.enc = "own" /\ r.pasted = "none"
            BY <3>6, AskedIsAsked
        <3> QED BY <1>1, <3>7
    <2> QED BY <2>3, <2>4
<1>5. CASE Crash BY <1>2, <1>5 DEF Crash, In
<1>6. CASE UNCHANGED <<row, halfway>> /\ (UNCHANGED pass \/ pass.at # "setkeys")
    BY <1>2, <1>6
<1>7. ASSUME NEW c \in Clicks, Click(c) PROVE UNCHANGED <<row, halfway, pass>>
    BY <1>7 DEF Click, OpenRequest, WriteRequest, SaveSettings, AskRestore, BackupNow
<1>8. ASSUME NEW u \in Tenants, NightlyBackup(u) PROVE UNCHANGED <<row, halfway, pass>>
    BY <1>8 DEF NightlyBackup
<1>9. ASSUME NEW u \in Tenants, NEW s \in DOMAIN taken[u], OperatorRestore(u, s)
      PROVE  UNCHANGED <<row, halfway, pass>>
    BY <1>9 DEF OperatorRestore
<1>10. CASE PassStep /\ ~SetSettings /\ ~SetKeys
    <2>1. UNCHANGED <<row, halfway>> /\ pass.at # "setkeys"
        BY <1>10 DEF PassStep, ReadRequest, MakeKeys, OpenScrub, WriteScrub, Restore,
                     OpenAnswer, WriteAnswer, TakeMarker, MakeBackup, OpenStatus,
                     WriteStatus, Reopen, Rewrite, In
    <2> QED BY <1>6, <2>1
<1>11. CASE StartPass BY <1>6, <1>11 DEF StartPass, Resting
<1>12. CASE UNCHANGED vars BY <1>6, <1>12 DEF vars
<1> QED BY <1>3, <1>4, <1>5, <1>6, <1>7, <1>8, <1>9, <1>10, <1>11, <1>12 DEF Next

-----------------------------------------------------------------------------
\* A restore that may still be carried out: the request file asks for it (when
\* the pass has carried it out, and only has to write that, what the snapshot
\* brought back no longer counts), the pass is on its way to it, or the click
\* is on its way to the file.
LiveFile(t, c) ==
    c \in AsksFor(conf[t].request) /\ ~(pass.at = "openanswer" /\ pass.t = t)
LivePass(c) ==
    /\ pass.at \in {"keys", "settings", "setkeys", "openscrub", "scrub", "restore"}
    /\ Busy /\ pass.req.restore = c
Live(c) ==
    \/ \E t \in Tenants : LiveFile(t, c)
    \/ LivePass(c)
    \/ click[c].at \in Early

\* One that may still be carried out has come back as often as it was.
ServeInv ==
    \A c \in Clicks :
        /\ served[c] <= 1 + revived[c]
        /\ Live(c) => served[c] <= revived[c]

LEMMA ServeInit == Init => ServeInv
BY DEF Init, ServeInv

LEMMA ServeSame ==
    ASSUME ServeInv, UNCHANGED <<served, revived>>, \A c \in Clicks : Live(c)' => Live(c)
    PROVE  ServeInv'
BY DEF ServeInv

\* The same requests lie in the volumes, or fewer.
LEMMA ServeClick ==
    ASSUME Types, SourceInv, ServeInv, NEW d \in Clicks, Click(d), ClicksGo
    PROVE  ServeInv'
<1>0. UNCHANGED <<served, revived, pass>>
    BY DEF Click, OpenRequest, WriteRequest, SaveSettings, AskRestore, BackupNow
<1>1. \A c \in Clicks : click'[c].at \in Early => click[c].at \in Early BY DEF ClicksGo
<1>2. \A c \in Clicks : LivePass(c)' => LivePass(c) BY <1>0 DEF LivePass, Busy
<1>3. ASSUME NEW u \in Tenants, NEW c \in Clicks, LiveFile(u, c)'
      PROVE  LiveFile(u, c) \/ click[c].at \in Early
    <2>1. c \in AsksFor(conf'[u].request) /\ ~(pass.at = "openanswer" /\ pass.t = u)
        BY <1>0, <1>3 DEF LiveFile
    <2>2. CASE conf'[u].request = conf[u].request BY <2>1, <2>2 DEF LiveFile
    <2>3. CASE conf'[u].request = Unreadable BY <2>1, <2>3 DEF AsksFor, IsRecord
    <2>4. CASE OpenRequest(d)
        <3>1. click[d].tenant \in Tenants
            BY <2>4 DEF OpenRequest, Types, Unused, Marked, Submitted
        <3> QED BY <2>2, <2>3, <2>4, <3>1, RequestTypes DEF OpenRequest
    <2>5. CASE WriteRequest(d)
        <3>1. click[d] \in Submitted BY <2>5 DEF WriteRequest, Types, Unused, Marked
        <3>2. click[d].tenant \in Tenants /\ click[d].req \in Reqs BY <3>1 DEF Submitted
        <3>3. PICK text \in {click[d].req, Unreadable} :
                  conf' = [conf EXCEPT ![click[d].tenant].request = text]
            BY <2>5 DEF WriteRequest
        <3>4. CASE u # click[d].tenant BY <2>2, <3>2, <3>3, <3>4, RequestTypes
        <3>5. CASE u = click[d].tenant
            <4>1. conf'[u].request = text BY <3>2, <3>3, <3>5, RequestTypes
            <4>2. CASE text = Unreadable BY <2>3, <4>1, <4>2
            <4>3. CASE text = click[d].req
                <5>1. c = click[d].req.restore /\ c # NoClick
                    BY <2>1, <4>1, <4>3 DEF AsksFor
                <5>2. c = d BY <3>1, <5>1 DEF SourceInv, ClicksFine
                <5> QED BY <2>5, <5>2 DEF WriteRequest, Early
            <4> QED BY <4>2, <4>3
        <3> QED BY <3>4, <3>5
    <2>6. ASSUME NEW t \in Tenants, SaveSettings(d, t) \/ AskRestore(d, t)
          PROVE  conf'[u].request = conf[u].request
        BY <2>6 DEF SaveSettings, AskRestore
    <2>7. ASSUME NEW t \in Tenants, BackupNow(d, t)
          PROVE  conf'[u].request = conf[u].request
        <3> DEFINE v == [conf[t] EXCEPT !.marker = TRUE]
        <3>1. v.request = conf[t].request BY FileTypes, VolumeEdits DEF Volumes
        <3>2. conf' = [conf EXCEPT ![t] = v] BY <2>7 DEF BackupNow, Types
        <3> HIDE DEF v
        <3> QED BY <3>1, <3>2 DEF Types
    <2> QED BY <2>2, <2>4, <2>5, <2>6, <2>7 DEF Click
<1> QED BY <1>0, <1>1, <1>2, <1>3, ServeSame DEF Live

\* Where the pass goes on, a step at a time.
LEMMA ServePass ==
    ASSUME Types, SourceInv, ServeInv, PassStep, ~Restore
    PROVE  ServeInv'
<1> USE DEF Moves, Knows
<1>0. UNCHANGED <<served, revived, click>>
    BY DEF PassStep, ReadRequest, MakeKeys, SetSettings, SetKeys, OpenScrub, WriteScrub,
           OpenAnswer, WriteAnswer, TakeMarker, MakeBackup, OpenStatus, WriteStatus,
           Reopen, Rewrite
<1>1. \A c \in Clicks : click'[c].at \in Early => click[c].at \in Early BY <1>0
<1>2. \A u \in Tenants, c \in Clicks :
          /\ conf'[u].request = Unreadable => c \notin AsksFor(conf'[u].request)
          /\ c \in AsksFor(conf'[u].request) => c = conf'[u].request.restore
          /\ c # NoClick
    BY AbsenceAssumption DEF AsksFor, IsRecord
<1>3. CASE ReadRequest
    <2>1. UNCHANGED conf BY <1>3 DEF ReadRequest
    <2>2. pass.at = "read" /\ pass.t \in Tenants BY <1>3, ReadEffect
    <2>3. \A u \in Tenants, c \in Clicks : LiveFile(u, c)' => LiveFile(u, c)
        BY <2>1, <2>2 DEF LiveFile
    <2>4. ASSUME NEW c \in Clicks, LivePass(c)' PROVE LiveFile(pass.t, c)
        <3>1. pass'.req = conf[pass.t].request /\ IsRecord(pass'.req)
            BY <1>3, <2>4, ReadEffect DEF LivePass
        <3>2. pass'.req.restore = c /\ c # NoClick BY <1>2, <2>2, <2>4 DEF LivePass
        <3> QED BY <2>2, <3>1, <3>2 DEF LiveFile, AsksFor
    <2> QED BY <1>0, <1>1, <2>2, <2>3, <2>4, ServeSame DEF Live
<1>4. ASSUME UNCHANGED conf, pass.at # "openanswer",
             \A c \in Clicks : LivePass(c)' => LivePass(c)
      PROVE  ServeInv'
    <2>1. \A u \in Tenants, c \in Clicks : LiveFile(u, c)' => LiveFile(u, c)
        BY <1>4 DEF LiveFile
    <2> QED BY <1>0, <1>1, <1>4, <2>1, ServeSame DEF Live
<1>5. CASE MakeKeys \/ SetSettings \/ SetKeys
    <2>1. UNCHANGED conf BY <1>5 DEF MakeKeys, SetSettings, SetKeys
    <2>2. /\ Busy /\ pass.at \in {"keys", "settings", "setkeys"}
          /\ Busy' => pass'.req = pass.req
        BY <1>5, KeysEffect, SettingsEffect, SetKeysEffect
    <2>3. \A c \in Clicks : LivePass(c)' => LivePass(c) BY <2>2 DEF LivePass
    <2> QED BY <1>4, <2>1, <2>2, <2>3
<1>6. ASSUME pass.t \in Tenants, conf'[pass.t].request = Unreadable,
             \A u \in Tenants : u # pass.t => conf'[u] = conf[u],
             pass'.t = pass.t,
             \A c \in Clicks : LivePass(c)' => LivePass(c)
      PROVE  ServeInv'
    <2>1. \A u \in Tenants, c \in Clicks : LiveFile(u, c)' => LiveFile(u, c)
        BY <1>2, <1>6 DEF LiveFile
    <2> QED BY <1>0, <1>1, <1>6, <2>1, ServeSame DEF Live
<1>7. CASE OpenScrub
    <2>1. /\ Moves("openscrub", "scrub") /\ Knows
          /\ conf'[pass.t].request = Unreadable
          /\ \A u \in Tenants : u # pass.t => conf'[u] = conf[u]
        BY <1>7, ReopenEffect DEF OpenScrub, Holding
    <2>2. \A c \in Clicks : LivePass(c)' => LivePass(c) BY <2>1 DEF LivePass
    <2> QED BY <1>6, <2>1, <2>2
<1>8. CASE OpenAnswer
    <2>1. /\ Moves("openanswer", "answer")
          /\ conf'[pass.t].request = Unreadable
          /\ \A u \in Tenants : u # pass.t => conf'[u] = conf[u]
        BY <1>8, ReopenEffect DEF OpenAnswer, Holding
    <2>2. \A c \in Clicks : LivePass(c)' => LivePass(c) BY <2>1 DEF LivePass
    <2> QED BY <1>6, <2>1, <2>2
<1>9. CASE WriteScrub
    <2>1. /\ Moves("scrub", "restore") /\ Knows
          /\ conf'[pass.t].request \in {[pass.req EXCEPT !.pasted = "none"], Unreadable}
          /\ \A u \in Tenants : u # pass.t => conf'[u] = conf[u]
        BY <1>9, ScrubEffect
    <2>2. [pass.req EXCEPT !.pasted = "none"].restore = pass.req.restore
        BY <2>1, BusyPass DEF Types, Holds, Holding, Reqs
    <2>3. \A c \in Clicks : LivePass(c)' => LivePass(c) BY <2>1 DEF LivePass
    <2>4. \A u \in Tenants, c \in Clicks : LiveFile(u, c)' => LiveFile(u, c) \/ LivePass(c)
        BY <1>2, <2>1, <2>2 DEF LiveFile, LivePass
    <2> QED BY <1>0, <1>1, <2>3, <2>4, ServeSame DEF Live
<1>10. CASE WriteAnswer
    <2>1. /\ Moves("answer", "marker")
          /\ conf'[pass.t].request \in {Remaining(pass.req), Unreadable}
          /\ \A u \in Tenants : u # pass.t => conf'[u] = conf[u]
        BY <1>10, AnswerEffect
    <2>2. Remaining(pass.req).restore = NoClick
        BY <2>1, BusyPass DEF Types, Holds, Holding, Reqs, Remaining
    <2>3. \A c \in Clicks : ~LivePass(c)' BY <2>1 DEF LivePass
    <2>4. \A u \in Tenants, c \in Clicks : LiveFile(u, c)' => LiveFile(u, c)
        BY <1>2, <2>1, <2>2 DEF LiveFile
    <2> QED BY <1>0, <1>1, <2>3, <2>4, ServeSame DEF Live
<1>11. CASE TakeMarker \/ MakeBackup \/ OpenStatus \/ WriteStatus
    <2>1. \A u \in Tenants : conf'[u].request = conf[u].request
        BY <1>11, MarkerEffect, OpenEffect, StatusEffect DEF MakeBackup
    <2>2. pass.at # "openanswer" /\ (Busy' => pass'.at \in Closing \cup {"read"})
        BY <1>11, MarkerEffect, BackupEffect, OpenEffect, StatusEffect
           DEF TurnEnds, Begins, Closing
    <2>3. \A c \in Clicks : ~LivePass(c)' BY <2>2 DEF LivePass, Closing
    <2>4. \A u \in Tenants, c \in Clicks : LiveFile(u, c)' => LiveFile(u, c)
        BY <2>1, <2>2 DEF LiveFile
    <2> QED BY <1>0, <1>1, <2>3, <2>4, ServeSame DEF Live
<1> QED BY <1>3, <1>5, <1>7, <1>8, <1>9, <1>10, <1>11 DEF PassStep

LEMMA ServeRestore ==
    ASSUME Types, SourceInv, ServeInv, Restore, ClicksGo
    PROVE  ServeInv'
<1> USE DEF Moves, Knows
<1>0. UNCHANGED revived /\ Busy /\ pass.at = "restore" /\ pass.t \in Tenants
    BY RestoreEffect DEF Restore
<1>1. \A c \in Clicks : click'[c].at \in Early => click[c].at \in Early BY DEF ClicksGo
<1>2. \A c \in Clicks : ~LivePass(c)' BY RestoreEffect DEF LivePass
<1>3. CASE UNCHANGED <<click, conf, served, shown, restores>>
    <2>1. \A u \in Tenants, c \in Clicks : LiveFile(u, c)' => LiveFile(u, c)
        BY <1>0, <1>3 DEF LiveFile
    <2> QED BY <1>0, <1>1, <1>2, <1>3, <2>1, ServeSame DEF Live
<1>4. CASE /\ Moves("restore", "openanswer") /\ pass.req.restore \in Clicks
           /\ BringBack(pass.t, pass.req.snap)
           /\ served' = [served EXCEPT ![pass.req.restore] = @ + 1]
    <2>0. PICK k \in Clicks : k = pass.req.restore BY <1>4
    <2>1. /\ pass.t \in Tenants /\ pass.req.snap \in DOMAIN taken[pass.t]
          /\ click[k] \in Submitted /\ click[k].tenant = pass.t /\ click[k].at \notin Early
        BY <1>4, <2>0, RestoreFinds
    <2>2. \A u \in Tenants : u # pass.t => conf'[u] = conf[u] BY <1>4, <2>1, BringBackTypes
    <2>3. ASSUME NEW u \in Tenants, NEW c \in Clicks, LiveFile(u, c)'
          PROVE  c # k /\ LiveFile(u, c)
        <3>1. u # pass.t BY <1>4, <2>3 DEF LiveFile
        <3>2. conf'[u] = conf[u] /\ c \in AsksFor(conf[u].request)
            BY <2>2, <2>3, <3>1 DEF LiveFile
        <3>3. LiveFile(u, c) BY <1>0, <3>2 DEF LiveFile
        <3>4. IsRecord(conf[u].request) /\ conf[u].request.restore = c /\ c # NoClick
            BY <3>2 DEF AsksFor
        <3>5. conf[u].request \in Reqs BY <3>4, FileTypes
        <3>6. Fine(u, conf[u].request) BY <3>4, <3>5 DEF SourceInv, FilesFine
        <3>7. click[c].tenant = u BY <3>4, <3>6 DEF Fine, Asked
        <3> QED BY <2>1, <3>1, <3>3, <3>7
    <2>4. ~Live(k)' BY <1>1, <1>2, <2>1, <2>3 DEF Live
    <2>5. \A c \in Clicks : c # k => (Live(c)' => Live(c)) BY <1>1, <1>2, <2>3 DEF Live
    <2>6. Live(k) BY <1>0, <2>0 DEF Live, LivePass
    <2>7. \A c \in Clicks : served'[c] = IF c = k THEN served[c] + 1 ELSE served[c]
        BY <1>4, <2>0 DEF Types
    <2>8. \A c \in Clicks : served[c] \in Nat /\ revived[c] \in Nat BY DEF Types
    <2> QED BY <1>0, <2>4, <2>5, <2>6, <2>7, <2>8 DEF ServeInv
<1> QED BY <1>3, <1>4, RestoreEffect

LEMMA ServeStep == Types /\ SourceInv /\ ServeInv /\ [Next]_vars => ServeInv'
<1> SUFFICES ASSUME Types, SourceInv, ServeInv, [Next]_vars PROVE ServeInv'
    OBVIOUS
<1>0. ClicksGo BY NextKeeps
<1>1. \A c \in Clicks : click'[c].at \in Early => click[c].at \in Early
    BY <1>0 DEF ClicksGo
<1>2. \A c \in Clicks : served[c] \in Nat /\ revived[c] \in Nat BY DEF Types
<1>3. CASE StartPass
    <2>1. UNCHANGED <<click, conf, served, revived>> BY <1>3 DEF StartPass
    <2>2. \A c \in Clicks : ~LivePass(c)' BY <1>3, StartEffect DEF LivePass, Begins
    <2>3. pass.at # "openanswer" BY <1>3 DEF StartPass, Resting
    <2>4. \A u \in Tenants, c \in Clicks : LiveFile(u, c)' => LiveFile(u, c)
        BY <2>1, <2>3 DEF LiveFile
    <2> QED BY <1>1, <2>1, <2>2, <2>4, ServeSame DEF Live
<1>4. CASE Crash
    <2>1. UNCHANGED <<click, conf, served, shown, restores>> /\ ~Busy' BY <1>4 DEF Crash, Busy
    <2>2. \A c \in Clicks : revived'[c] = revived[c] +
              IF c \in AsksFor(conf[pass.t].request) /\ pass.at = "openanswer" THEN 1 ELSE 0
        BY <1>4 DEF Crash, In
    <2> SUFFICES ASSUME NEW c \in Clicks
                 PROVE  /\ served'[c] <= 1 + revived'[c]
                        /\ Live(c)' => served'[c] <= revived'[c]
        BY DEF ServeInv
    <2>3. CASE c \in AsksFor(conf[pass.t].request) /\ pass.at = "openanswer"
        BY <1>2, <2>1, <2>2, <2>3 DEF ServeInv
    <2>4. CASE ~(c \in AsksFor(conf[pass.t].request) /\ pass.at = "openanswer")
        <3>1. revived'[c] = revived[c] BY <1>2, <2>2, <2>4
        <3>2. \A u \in Tenants : LiveFile(u, c)' => LiveFile(u, c)
            BY <2>1, <2>4 DEF LiveFile
        <3>3. Live(c)' => Live(c) BY <1>1, <2>1, <3>2 DEF Live, LivePass
        <3> QED BY <2>1, <3>1, <3>3 DEF ServeInv
    <2> QED BY <2>3, <2>4
<1>5. ASSUME NEW t \in Tenants, NEW s \in DOMAIN taken[t], OperatorRestore(t, s)
      PROVE  ServeInv'
    <2>1. UNCHANGED <<pass, served>> BY <1>5 DEF OperatorRestore
    <2>2. \A c \in Clicks : revived'[c] = revived[c] +
              IF c \in AsksFor(taken[t][s].conf.request) THEN 1 ELSE 0
        BY <1>5 DEF OperatorRestore
    <2>3. /\ conf'[t] = taken[t][s].conf
          /\ \A u \in Tenants : u # t => conf'[u] = conf[u]
        BY <1>5, BringBackTypes DEF OperatorRestore
    <2> SUFFICES ASSUME NEW c \in Clicks
                 PROVE  /\ served'[c] <= 1 + revived'[c]
                        /\ Live(c)' => served'[c] <= revived'[c]
        BY DEF ServeInv
    <2>4. CASE c \in AsksFor(taken[t][s].conf.request)
        BY <1>2, <2>1, <2>2, <2>4 DEF ServeInv
    <2>5. CASE c \notin AsksFor(taken[t][s].conf.request)
        <3>1. revived'[c] = revived[c] BY <1>2, <2>2, <2>5
        <3>2. \A u \in Tenants : LiveFile(u, c)' => LiveFile(u, c)
            BY <2>1, <2>3, <2>5 DEF LiveFile
        <3>3. LivePass(c)' => LivePass(c) BY <2>1 DEF LivePass, Busy
        <3>4. Live(c)' => Live(c) BY <1>1, <3>2, <3>3 DEF Live
        <3> QED BY <2>1, <3>1, <3>4 DEF ServeInv
    <2> QED BY <2>4, <2>5
<1>6. ASSUME UNCHANGED <<click, conf, pass, served, revived>> PROVE ServeInv'
    <2>1. \A c \in Clicks : Live(c)' => Live(c)
        BY <1>6 DEF Live, LiveFile, LivePass, Busy
    <2> QED BY <1>6, <2>1, ServeSame
<1>7. ASSUME NEW t \in Tenants, NightlyBackup(t) PROVE ServeInv'
    BY <1>6, <1>7 DEF NightlyBackup
<1>8. CASE UNCHANGED vars BY <1>6, <1>8 DEF vars
<1> QED
    BY <1>0, <1>3, <1>4, <1>5, <1>7, <1>8, ServeClick, ServePass, ServeRestore DEF Next

-----------------------------------------------------------------------------
\* A status names a destination.
Telling(file) == IsRecord(file) => file.host # NoHost

\* What the types leave open.
BoundInv ==
    /\ \A t \in Tenants :
           /\ Len(taken[t]) <= MaxBackups
           /\ Telling(conf[t].status)
           /\ \A s \in DOMAIN taken[t] : Telling(taken[t][s].conf.status)
    /\ Busy /\ pass.at = "writestatus" => row[pass.t].host # NoHost
    /\ keyFile \in [Tenants -> {"none", "good", "bad"}]

LEMMA BoundInit == Init => BoundInv
BY CountAssumption DEF Init, BoundInv, Telling, IsRecord, Fresh, Busy

\* A step that leaves the statuses and the snapshots as they are.
LEMMA BoundSame ==
    ASSUME BoundInv, UNCHANGED <<taken, keyFile>>,
           \A t \in Tenants : conf'[t].status = conf[t].status,
           Busy' /\ pass'.at = "writestatus" => row'[pass'.t].host # NoHost
    PROVE  BoundInv'
BY DEF BoundInv, Telling

LEMMA BoundSnapshot ==
    ASSUME Types, BoundInv, NEW t \in Tenants, Snapshot(t)
    PROVE  \A u \in Tenants :
               /\ Len(taken'[u]) <= MaxBackups
               /\ \A s \in DOMAIN taken'[u] : Telling(taken'[u][s].conf.status)
<1>1. taken[t] \in Seq(Snapshots) BY DEF Types
<1>2. Len(taken[t]) \in Nat BY <1>1
<1>3. Len(taken'[t]) <= MaxBackups BY <1>2, SnapshotTypes, CountAssumption
<1> QED BY <1>3, SnapshotTypes DEF BoundInv

LEMMA BoundBringBack ==
    ASSUME Types, BoundInv, NEW t \in Tenants, NEW s \in DOMAIN taken[t], BringBack(t, s),
           UNCHANGED <<taken, keyFile>>,
           Busy' /\ pass'.at = "writestatus" => row'[pass'.t].host # NoHost
    PROVE  BoundInv'
<1>1. conf'[t] = taken[t][s].conf /\ \A u \in Tenants : u # t => conf'[u] = conf[u]
    BY BringBackTypes
<1> QED BY <1>1 DEF BoundInv, Telling

LEMMA BoundClick ==
    ASSUME Types, BoundInv, NEW c \in Clicks, Click(c)
    PROVE  BoundInv'
<1>0. UNCHANGED <<row, taken, keyFile, pass>>
    BY DEF Click, OpenRequest, WriteRequest, SaveSettings, AskRestore, BackupNow
<1>1. Busy' /\ pass'.at = "writestatus" => row'[pass'.t].host # NoHost
    BY <1>0 DEF BoundInv, Busy
<1> QED BY <1>0, <1>1, BoundSame, StatusesStay

LEMMA BoundStep == Types /\ SourceInv /\ BoundInv /\ [Next]_vars => BoundInv'
<1> SUFFICES ASSUME Types, SourceInv, BoundInv, [Next]_vars PROVE BoundInv'
    OBVIOUS
<1> USE DEF Moves, Knows
<1>1. ASSUME UNCHANGED <<taken, keyFile>>,
             \A t \in Tenants : conf'[t].status = conf[t].status,
             ~(Busy' /\ pass'.at = "writestatus")
      PROVE  BoundInv'
    BY <1>1, BoundSame
<1>2. CASE StartPass
    <2>1. UNCHANGED <<conf, taken, keyFile>> BY <1>2 DEF StartPass
    <2> QED BY <1>1, <1>2, <2>1, StartEffect DEF Begins
<1>3. CASE Crash
    <2>1. UNCHANGED <<conf, taken, keyFile>> /\ ~Busy' BY <1>3 DEF Crash, Busy
    <2> QED BY <1>1, <2>1
<1>4. CASE ReadRequest
    <2>1. UNCHANGED <<conf, taken, keyFile>> BY <1>4 DEF ReadRequest
    <2> QED BY <1>1, <1>4, <2>1, ReadEffect
<1>5. CASE MakeKeys
    <2>1. UNCHANGED <<conf, taken>> BY <1>5 DEF MakeKeys
    <2>2. ~(Busy' /\ pass'.at = "writestatus") BY <1>5, KeysEffect
    <2>3. /\ pass.t \in Tenants /\ pass.req \in Reqs
        BY <1>5, KeysEffect DEF Types, Holds, Holding
    <2>4. KeyAfter(pass.t, pass.req) \in {"none", "good", "bad"}
        BY <2>3 DEF KeyAfter, Reqs, BoundInv
    <2> DEFINE k == KeyAfter(pass.t, pass.req)
    <2>5. keyFile' = keyFile \/ keyFile' = [keyFile EXCEPT ![pass.t] = k]
        BY <1>5 DEF MakeKeys
    <2> HIDE DEF k
    <2>6. keyFile' \in [Tenants -> {"none", "good", "bad"}]
        BY <2>3, <2>4, <2>5 DEF BoundInv, k
    <2> QED BY <2>1, <2>2, <2>6 DEF BoundInv
<1>6. CASE SetSettings
    <2>1. UNCHANGED <<conf, taken, keyFile>> BY <1>6 DEF SetSettings
    <2> QED BY <1>1, <1>6, <2>1, SettingsEffect
<1>7. CASE SetKeys
    <2>1. UNCHANGED <<conf, taken, keyFile>> BY <1>7 DEF SetKeys
    <2> QED BY <1>1, <1>7, <2>1, SetKeysEffect
<1>8. ASSUME NEW text, pass.t \in Tenants, Rewrite(text)
      PROVE  /\ UNCHANGED <<taken, keyFile>>
             /\ \A t \in Tenants : conf'[t].status = conf[t].status
    <2>1. PICK left : conf' = [conf EXCEPT ![pass.t].request = left]
        BY <1>8 DEF Rewrite
    <2> QED BY <1>8, <2>1, RequestOnly DEF Rewrite
<1>9. ASSUME NEW a \in Holding, NEW b \in Holding, Reopen(a, b) PROVE BoundInv'
    <2>1. UNCHANGED <<taken, keyFile>> BY <1>9 DEF Reopen
    <2>2. Moves(a, b) BY <1>9, ReopenEffect
    <2> QED BY <1>1, <1>9, <2>1, <2>2, RequestOnly DEF Reopen, Holding
<1>10. CASE OpenScrub \/ OpenAnswer BY <1>9, <1>10 DEF OpenScrub, OpenAnswer, Holding
<1>11. CASE WriteScrub
    <2>1. Moves("scrub", "restore") BY <1>11, ScrubEffect
    <2> QED BY <1>1, <1>8, <1>11, <2>1 DEF WriteScrub
<1>12. CASE WriteAnswer
    <2>1. Moves("answer", "marker") BY <1>12, AnswerEffect
    <2> QED BY <1>1, <1>8, <1>12, <2>1 DEF WriteAnswer
<1>13. CASE Restore
    <2>1. UNCHANGED <<taken, keyFile>> BY <1>13 DEF Restore
    <2>2. ~(Busy' /\ pass'.at = "writestatus") BY <1>13, RestoreEffect
    <2>3. CASE UNCHANGED conf BY <1>1, <2>1, <2>2, <2>3
    <2> QED BY <1>13, <2>1, <2>2, <2>3, BoundBringBack, RestoreEffect, RestoreFinds
<1>14. CASE TakeMarker
    <2>1. UNCHANGED <<row, taken, keyFile>> BY <1>14 DEF TakeMarker
    <2>2. PICK b \in Closing \ {"marker"} : Moves("marker", b) BY <1>14, MarkerEffect
    <2>3. b # "writestatus" BY <1>14, <2>2 DEF TakeMarker, Goto, Types, Passes
    <2>4. \A t \in Tenants : conf'[t].status = conf[t].status
        BY <1>14, <2>2, MarkerOnly DEF TakeMarker
    <2> QED BY <1>1, <2>1, <2>2, <2>3, <2>4
<1>15. CASE MakeBackup
    <2>1. UNCHANGED <<conf, keyFile>> BY <1>15 DEF MakeBackup
    <2>2. Moves("backup", "status") /\ (Snapshot(pass.t) \/ UNCHANGED taken)
        BY <1>15, BackupEffect
    <2>3. CASE UNCHANGED taken BY <1>1, <2>1, <2>2, <2>3
    <2>4. CASE Snapshot(pass.t) BY <2>1, <2>2, <2>4, BoundSnapshot DEF BoundInv
    <2> QED BY <2>2, <2>3, <2>4
<1>16. CASE OpenStatus
    <2>1. UNCHANGED <<row, taken, keyFile>> BY <1>16 DEF OpenStatus
    <2>2. CASE row[pass.t].host = NoHost
        <3>1. UNCHANGED conf BY <1>16, <2>2 DEF OpenStatus
        <3>2. ~(Busy' /\ pass'.at = "writestatus")
            BY <1>16, <2>2, NextTurn, BusyPass DEF OpenStatus, Begins, In, Stages
        <3> QED BY <1>1, <2>1, <3>1, <3>2
    <2>3. CASE row[pass.t].host # NoHost
        <3>1. pass.t \in Tenants /\ pass'.t = pass.t
            BY <1>16, <2>3, OpenEffect
        <3> DEFINE v == [conf[pass.t] EXCEPT !.status = Unreadable]
        <3>2. conf' = [conf EXCEPT ![pass.t] = v]
            BY <1>16, <2>3, <3>1 DEF OpenStatus, Types
        <3>3. v.status = Unreadable BY <3>1, FileTypes DEF Volumes
        <3> HIDE DEF v
        <3>4. \A t \in Tenants : conf'[t] = IF t = pass.t THEN v ELSE conf[t]
            BY <3>2 DEF Types
        <3> QED BY <2>1, <2>3, <3>1, <3>3, <3>4 DEF BoundInv, Telling, IsRecord
    <2> QED BY <2>2, <2>3
<1>17. CASE WriteStatus
    <2>1. UNCHANGED <<row, taken, keyFile>> BY <1>17 DEF WriteStatus
    <2>2. Busy /\ pass.t \in Tenants /\ Begins /\ pass.at = "writestatus"
        BY <1>17, StatusEffect DEF TurnEnds
    <2> DEFINE s == [host |-> row[pass.t].host, enc |-> row[pass.t].enc,
                     reveal |-> pass.reveal]
               v == [conf[pass.t] EXCEPT !.status = s]
    <2>3. conf' = [conf EXCEPT ![pass.t] = v] BY <1>17, <2>2 DEF WriteStatus, Types
    <2>4. s.host # NoHost BY <2>2 DEF BoundInv
    <2> HIDE DEF s
    <2>5. v.status = s BY <2>2, FileTypes DEF Volumes
    <2> HIDE DEF v
    <2>6. \A t \in Tenants : conf'[t] = IF t = pass.t THEN v ELSE conf[t]
        BY <2>3 DEF Types
    <2> QED BY <2>1, <2>2, <2>4, <2>5, <2>6 DEF BoundInv, Telling, Begins
<1>18. ASSUME NEW t \in Tenants, NightlyBackup(t) PROVE BoundInv'
    <2>1. UNCHANGED <<conf, keyFile, pass, row>> BY <1>18 DEF NightlyBackup
    <2> QED BY <1>18, <2>1, BoundSnapshot DEF NightlyBackup, BoundInv, Busy
<1>19. ASSUME NEW t \in Tenants, NEW s \in DOMAIN taken[t], OperatorRestore(t, s)
       PROVE  BoundInv'
    <2>1. UNCHANGED <<taken, keyFile, pass, row>> BY <1>19 DEF OperatorRestore
    <2>2. Busy' /\ pass'.at = "writestatus" => row'[pass'.t].host # NoHost
        BY <2>1 DEF BoundInv, Busy
    <2> QED BY <1>19, <2>1, <2>2, BoundBringBack DEF OperatorRestore
<1>20. CASE UNCHANGED vars
    <2>1. UNCHANGED <<conf, taken, keyFile, pass, row>> BY <1>20 DEF vars
    <2> QED BY <2>1, BoundSame DEF BoundInv, Busy
<1> QED
    BY <1>2, <1>3, <1>4, <1>5, <1>6, <1>7, <1>10, <1>11, <1>12, <1>13, <1>14, <1>15,
       <1>16, <1>17, <1>18, <1>19, <1>20, BoundClick DEF Next, PassStep

\* The types of the module follow.
LEMMA RequestsHold ==
    ASSUME Types, BoundInv, NEW t \in Tenants, NEW r \in Reqs, Fine(t, r)
    PROVE  r \in Requests
<1>1. taken[t] \in Seq(Snapshots) /\ Len(taken[t]) <= MaxBackups BY DEF Types, BoundInv
<1>2. Len(taken[t]) \in Nat /\ DOMAIN taken[t] = 1..Len(taken[t]) BY <1>1
<1>3. CASE r.restore = NoClick
    <2>1. r.snap = 0 BY <1>3 DEF Fine
    <2> QED BY <1>2, <1>3, <2>1, CountAssumption DEF Requests, Reqs, Destinations
<1>4. CASE r.restore # NoClick
    <2>1. r.snap \in DOMAIN taken[t] BY <1>4 DEF Fine
    <2>2. r.snap \in 1..MaxBackups
        BY <1>1, <1>2, <2>1, CountAssumption
    <2> QED BY <1>4, <2>2, CountAssumption DEF Requests, Reqs, Destinations
<1> QED BY <1>3, <1>4

LEMMA ConfHolds ==
    ASSUME NEW f \in Volumes, Telling(f.status),
           IsRecord(f.request) => f.request \in Requests
    PROVE  IsConf(f)
<1>1. f.marker \in BOOLEAN /\ f.status \in Statuses \cup {Absent, Unreadable}
    BY DEF Volumes
<1>2. IsRecord(f.status) => f.status \in Statuses BY <1>1 DEF IsRecord
<1>3. IsRecord(f.status) =>
          /\ f.status.host \in {g.host : g \in Forms} \ {NoHost}
          /\ {f.status.enc, f.status.reveal} \subseteq BOOLEAN
    BY <1>2 DEF Statuses, Destinations, Telling
<1> QED BY <1>1, <1>3 DEF IsConf

LEMMA TypesHold == Types /\ SourceInv /\ BoundInv => TypeOK
<1> SUFFICES ASSUME Types, SourceInv, BoundInv PROVE TypeOK
    OBVIOUS
<1>1. \A c \in Clicks : click[c].at \in {"unused", "writing", "open", "done"}
    BY DEF Types, Unused, Submitted, Marked
<1>2. ASSUME NEW t \in Tenants
      PROVE  IsConf(conf[t])
    <2>1. IsRecord(conf[t].request) =>
              conf[t].request \in Reqs /\ Fine(t, conf[t].request)
        BY FileTypes DEF SourceInv, FilesFine
    <2>2. IsRecord(conf[t].request) => conf[t].request \in Requests
        BY <2>1, RequestsHold
    <2>3. Telling(conf[t].status) BY DEF BoundInv
    <2> QED BY <2>2, <2>3, ConfHolds, FileTypes
<1>3. ASSUME NEW t \in Tenants, NEW s \in DOMAIN taken[t]
      PROVE  IsConf(taken[t][s].conf) /\ taken[t][s].kept \subseteq Stores
    <2> DEFINE f == taken[t][s].conf
    <2>1. taken[t] \in Seq(Snapshots) BY DEF Types
    <2>2. taken[t][s] \in Snapshots BY <2>1
    <2>3. f \in Volumes /\ taken[t][s].kept \subseteq Stores BY <2>2 DEF Snapshots
    <2>4. IsRecord(f.request) => f.request \in Reqs /\ Fine(t, f.request)
        BY <2>3 DEF Volumes, IsRecord, SourceInv, SnapshotsFine
    <2>5. IsRecord(f.request) => f.request \in Requests BY <2>4, RequestsHold
    <2>6. Telling(f.status) BY DEF BoundInv
    <2> QED BY <2>3, <2>5, <2>6, ConfHolds
<1>4. \A t \in Tenants :
          /\ row[t] \in [host : {f.host : f \in Forms} \cup {NoHost},
                         enc : BOOLEAN, key : BOOLEAN]
          /\ Len(taken[t]) <= MaxBackups
    BY DEF Types, BoundInv, Destinations
<1>5. pass # Resting =>
          /\ pass.t \in Tenants
          /\ pass.at \notin {"read", "marker", "backup", "status", "writestatus"} =>
                 pass.req \in Requests
    <2> SUFFICES ASSUME Busy
                 PROVE  /\ pass.t \in Tenants
                        /\ pass.at \notin
                               {"read", "marker", "backup", "status", "writestatus"} =>
                               pass.req \in Requests
        BY DEF Busy
    <2>1. pass.t \in Tenants /\ pass.at \in Stages BY BusyPass
    <2>2. CASE pass.at \in Holding
        <3>1. Holds /\ pass.req \in Reqs BY <2>2 DEF Holds, Types
        <3>2. Fine(pass.t, pass.req) BY <3>1 DEF SourceInv, PassFine
        <3> QED BY <2>1, <3>1, <3>2, RequestsHold
    <2>3. CASE pass.at \notin Holding BY <2>1, <2>3 DEF Stages
    <2> QED BY <2>2, <2>3
<1>6. keyFile \in [Tenants -> {"none", "good", "bad"}] BY DEF BoundInv
<1> QED BY <1>1, <1>2, <1>3, <1>4, <1>5, <1>6 DEF TypeOK

-----------------------------------------------------------------------------
\* What the proofs rest on, in one.
Known == Types /\ KeyInv /\ SourceInv

LEMMA KnownInit == Init => Known
BY TypesInit, KeyInit, SourceInit DEF Known

LEMMA KnownStep == Known /\ [Next]_vars => Known'
BY NextTypes, KeyStep, SourceStep DEF Known

(***************************************************************************)
(* Files, rows, snapshots and the pass are of their types, and a request   *)
(* names a snapshot just when it asks for a restore (backup.py:1185-1367): *)
(* for any tenants, clicks, forms, snapshots and upsets.                   *)
(***************************************************************************)
THEOREM TypesAreKept == Spec => []TypeOK
<1>1. Known /\ BoundInv /\ [Next]_vars => BoundInv' BY BoundStep DEF Known
<1>2. Known /\ BoundInv => TypeOK BY TypesHold DEF Known
<1> QED BY KnownInit, KnownStep, BoundInit, <1>1, <1>2, PTL DEF Spec

(***************************************************************************)
(* The private key comes onto the page once and again only with a restore  *)
(* of the file that tells it; and, unless a pass was killed, it does come  *)
(* if there was a destination (backup.py:1313-1334, 1366): for any         *)
(* tenants, owners, forms and snapshots.                                   *)
(***************************************************************************)
THEOREM KeyIsShownOnce == Spec => []KeyShownOnce
<1>1. Known /\ Seen /\ [Next]_vars => Seen' BY SeenStep DEF Known
<1>2. Known /\ Seen /\ ShownInv /\ [Next]_vars => ShownInv' BY ShownStep DEF Known
<1> QED BY KnownInit, KnownStep, SeenInit, ShownInit, <1>1, <1>2, ShownOnce, PTL DEF Spec

(***************************************************************************)
(* A tenant whose copies are to be encrypted has a key (backup.py:1244-    *)
(* 1254), but for the exceptions the property names.                       *)
(***************************************************************************)
THEOREM EncryptedHasKey == Spec => []EncryptionHasKey
<1>1. Known /\ EncryptionHasKey /\ [Next]_vars => EncryptionHasKey'
    BY EncryptionStep DEF Known
<1> QED BY KnownInit, KnownStep, EncryptionInit, <1>1, PTL DEF Spec

(***************************************************************************)
(* A restore is carried out once for each time it was asked for, or asked  *)
(* for again by what a restore or a killed pass left in the volume         *)
(* (backup.py:1335-1357).                                                  *)
(***************************************************************************)
THEOREM RestoresAsAsked == Spec => []RestoredAsAsked
<1>1. Known /\ ServeInv /\ [Next]_vars => ServeInv' BY ServeStep DEF Known
<1>2. ServeInv => RestoredAsAsked BY DEF ServeInv, RestoredAsAsked
<1> QED BY KnownInit, KnownStep, ServeInit, <1>1, <1>2, PTL DEF Spec
=============================================================================

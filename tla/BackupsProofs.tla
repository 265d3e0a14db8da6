----------------------------- MODULE BackupsProofs -----------------------------
(***************************************************************************)
(* Theorems about Backups, for any number of processes, tenants, hosts,    *)
(* failures and any retention: a listed copy is there, the sweep serves    *)
(* whoever was due, pruning leaves nothing behind and keeps the newest.    *)
(***************************************************************************)
EXTENDS Backups, FiniteSetTheorems, TLAPS

Rows == [id : Nat, at : Nat, place : Places]
Copies == [id : Nat, whole : BOOLEAN]
Stages == {"build", "push", "record", "prune", "remove"}
Jobs ==
    [at : Stages, t : Tenants, own : Hosts \cup {NoHost}, dest : Destinations,
     id : Nat, stale : Seq(Rows)]

Types ==
    /\ now \in Nat /\ built \in Nat
    /\ own \in [Tenants -> Hosts \cup {NoHost}]
    /\ rows \in [Tenants -> [Destinations -> Seq(Rows)]]
    /\ remote \in [Tenants -> [Places -> SUBSET Copies]]
    /\ job \in [Processes -> Jobs \cup {Idle}]
    /\ \A p \in Processes : Working(p) /\ job[p].dest = "tenant" => job[p].own # NoHost
    /\ \A t \in Tenants, d \in Destinations : \A i \in DOMAIN rows[t][d] :
           rows[t][d][i].place = Operator <=> d = "operator"

\* p holds the id of a snapshot that is ready.
Ready(p) == Working(p) /\ job[p].at # "build"

\* p has yet to push or to record its snapshot for d.
Pending(p, d) ==
    /\ Ready(p)
    /\ \/ job[p].dest = d /\ job[p].at \in {"push", "record"}
       \/ job[p].dest = "operator" /\ d = "tenant"

\* Every snapshot has an id of its own, which is in a list at most once.
IdsAreDistinct ==
    /\ \A p \in Processes : Ready(p) => job[p].id <= built
    /\ \A p, q \in Processes : Ready(p) /\ Ready(q) /\ p # q => job[p].id # job[q].id
    /\ \A t \in Tenants, d \in Destinations : \A i \in DOMAIN rows[t][d] :
           rows[t][d][i].id <= built
    /\ \A t \in Tenants, d \in Destinations : \A i, j \in DOMAIN rows[t][d] :
           i # j => rows[t][d][i].id # rows[t][d][j].id

\* What is stale is listed no more.
StaleIsUnlisted ==
    \A p \in Processes : Working(p) =>
        \A k \in DOMAIN job[p].stale :
            /\ job[p].stale[k].id <= built
            /\ \A i \in DOMAIN rows[job[p].t][job[p].dest] :
                   rows[job[p].t][job[p].dest][i].id # job[p].stale[k].id

\* What is pending is neither listed nor stale.
PendingIsNew ==
    \A p \in Processes, d \in Destinations : Pending(p, d) =>
        /\ \A i \in DOMAIN rows[job[p].t][d] : rows[job[p].t][d][i].id # job[p].id
        /\ \A q \in Processes :
               Working(q) /\ job[q].t = job[p].t /\ job[q].dest = d =>
                   \A k \in DOMAIN job[q].stale : job[q].stale[k].id # job[p].id

\* What is about to be recorded was pushed.
PushedIsThere ==
    \A p \in Processes : Working(p) /\ job[p].at = "record" =>
        Copy(job[p].id, TRUE) \in remote[job[p].t][Place(job[p])]

ListInv ==
    /\ Types /\ IdsAreDistinct /\ StaleIsUnlisted /\ PendingIsNew /\ PushedIsThere
    /\ ListedIsThere

-----------------------------------------------------------------------------
LEMMA Names == Operator \notin Hosts /\ Operator # NoHost /\ NoHost \notin Hosts
BY NameAssumption

LEMMA IdleIsNoJob == Idle \notin Jobs
BY DEF Idle, Jobs, Stages

\* Pruning cuts a list in two.
LEMMA CutList ==
    ASSUME NEW list \in Seq(Rows)
    PROVE  /\ Stale(list) \in Seq(Rows) /\ Kept(list) \in Seq(Rows)
           /\ \A k \in DOMAIN Stale(list) : k \in DOMAIN list /\ Stale(list)[k] = list[k]
           /\ \A i \in DOMAIN Kept(list) :
                  \E j \in DOMAIN list :
                      j = i + Len(Stale(list)) /\ Kept(list)[i] = list[j]
<1> DEFINE n == IF Len(list) > Retention THEN Len(list) - Retention ELSE 0
<1>1. n \in Nat /\ n <= Len(list) BY CountAssumption
<1>2. Stale(list) = SubSeq(list, 1, n) BY DEF Stale
<1> HIDE DEF n
<1>3. /\ Stale(list) \in Seq(Rows) /\ Len(Stale(list)) = n
      /\ \A k \in 1..n : Stale(list)[k] = list[k]
    BY <1>1, <1>2
<1>4. Kept(list) = SubSeq(list, n + 1, Len(list)) BY <1>3 DEF Kept
<1>5. /\ Kept(list) \in Seq(Rows) /\ Len(Kept(list)) = Len(list) - n
      /\ \A i \in 1..(Len(list) - n) : Kept(list)[i] = list[n + i]
    BY <1>1, <1>4
<1>6. \A i \in DOMAIN Kept(list) : /\ i + n \in DOMAIN list
                                   /\ Kept(list)[i] = list[i + n]
    BY <1>1, <1>5
<1>7. \A k \in DOMAIN Stale(list) : k \in DOMAIN list /\ Stale(list)[k] = list[k]
    BY <1>1, <1>3
<1> QED BY <1>3, <1>5, <1>6, <1>7

\* The place of a job is a place, and the operator's is apart.
LEMMA PlaceOfJob ==
    ASSUME Types, NEW p \in Processes, Working(p)
    PROVE  /\ job[p] \in Jobs
           /\ Place(job[p]) \in Places
           /\ Place(job[p]) = Operator <=> job[p].dest = "operator"
BY Names DEF Types, Working, Jobs, Destinations, Place, Places

\* The ids of jobs, rows and stale rows are numbers.
LEMMA Numbers ==
    ASSUME Types
    PROVE  /\ \A p \in Processes : Working(p) => job[p].id \in Nat
           /\ \A t \in Tenants, d \in Destinations : \A i \in DOMAIN rows[t][d] :
                  rows[t][d][i] \in Rows /\ rows[t][d][i].id \in Nat
           /\ \A p \in Processes : Working(p) =>
                  \A k \in DOMAIN job[p].stale : job[p].stale[k].id \in Nat
<1>1. ASSUME NEW list \in Seq(Rows), NEW i \in DOMAIN list
      PROVE  list[i] \in Rows /\ list[i].id \in Nat
    <2>1. list[i] \in Rows OBVIOUS
    <2> QED BY <2>1 DEF Rows
<1>2. \A p \in Processes : Working(p) => job[p].id \in Nat /\ job[p].stale \in Seq(Rows)
    BY DEF Types, Working, Jobs
<1>3. \A t \in Tenants, d \in Destinations : rows[t][d] \in Seq(Rows)
    BY DEF Types
<1> QED BY <1>1, <1>2, <1>3

LEMMA ListInit == Init => ListInv
BY CountAssumption
DEF Init, ListInv, Types, IdsAreDistinct, StaleIsUnlisted, PendingIsNew, PushedIsThere,
    ListedIsThere, Working, Ready, Pending, Places, Copies

\* A job that ends takes what it was about with it.
LEMMA EndOfJob ==
    ASSUME ListInv, NEW p \in Processes, Working(p), job' = [job EXCEPT ![p] = Idle],
           UNCHANGED <<now, own, store, built>>
    PROVE  ListInv'
<1> USE DEF ListInv, store
<1>1. \A q \in Processes : Working(q)' => q # p /\ Working(q) /\ job'[q] = job[q]
    BY DEF Working, Types
<1>2. Types' BY <1>1 DEF Types
<1>3. IdsAreDistinct' BY <1>1 DEF IdsAreDistinct, Ready
<1>4. StaleIsUnlisted' BY <1>1 DEF StaleIsUnlisted
<1>5. PendingIsNew' BY <1>1 DEF PendingIsNew, Pending, Ready
<1>6. PushedIsThere' BY <1>1 DEF PushedIsThere
<1>7. ListedIsThere' BY DEF ListedIsThere
<1> QED BY <1>2, <1>3, <1>4, <1>5, <1>6, <1>7

\* A job that begins has no snapshot yet.
LEMMA StartOfJob ==
    ASSUME ListInv, NEW p \in Processes, NEW t \in Tenants, ~Working(p), Begin(p, t),
           UNCHANGED <<now, own, store, built>>
    PROVE  ListInv'
<1> USE DEF ListInv, store
<1> DEFINE new == [at |-> "build", t |-> t, own |-> own[t], dest |-> "operator",
                   id |-> 0, stale |-> <<>>]
<1>1. new \in Jobs BY DEF Jobs, Stages, Types, Destinations
<1>2. job' = [job EXCEPT ![p] = new] BY DEF Begin
<1>3. /\ new.at = "build" /\ new.dest = "operator" /\ DOMAIN new.stale = {}
    OBVIOUS
<1> HIDE DEF new
<1>4. \A q \in Processes : Working(q)' => \/ q = p /\ job'[q] = new
                                          \/ q # p /\ Working(q) /\ job'[q] = job[q]
    BY <1>2 DEF Working, Types
<1>5. Types' BY <1>1, <1>2, <1>3, <1>4 DEF Types
<1>6. IdsAreDistinct' BY <1>3, <1>4 DEF IdsAreDistinct, Ready
<1>7. StaleIsUnlisted' BY <1>3, <1>4 DEF StaleIsUnlisted
<1>8. PendingIsNew' BY <1>3, <1>4 DEF PendingIsNew, Pending, Ready
<1>9. PushedIsThere' BY <1>3, <1>4 DEF PushedIsThere
<1>10. ListedIsThere' BY DEF ListedIsThere
<1> QED BY <1>5, <1>6, <1>7, <1>8, <1>9, <1>10

LEMMA BuildStep ==
    ASSUME ListInv, NEW p \in Processes, Build(p)
    PROVE  ListInv'
<1> USE DEF ListInv, store
<1> DEFINE new == [job[p] EXCEPT !.at = "push", !.id = built + 1]
<1>1. job[p] \in Jobs /\ Working(p) /\ job[p].at = "build"
    BY PlaceOfJob DEF Build
<1>2. /\ new \in Jobs /\ new.at = "push" /\ new.id = built + 1 /\ new.t = job[p].t
      /\ new.dest = job[p].dest /\ new.own = job[p].own /\ new.stale = job[p].stale
    <2> DEFINE n == built + 1
    <2>1. n \in Nat BY DEF Types
    <2> HIDE DEF n
    <2>2. [job[p] EXCEPT !.at = "push", !.id = n] \in Jobs
        BY <1>1, <2>1 DEF Jobs, Stages
    <2> QED BY <1>1, <2>2 DEF Jobs, n
<1>3. /\ job' = [job EXCEPT ![p] = new] /\ built' = built + 1
      /\ UNCHANGED <<now, own, rows, remote>>
    BY <1>1 DEF Build, Types
<1> HIDE DEF new
<1>4. \A q \in Processes : Working(q)' => \/ q = p /\ job'[q] = new
                                          \/ q # p /\ Working(q) /\ job'[q] = job[q]
    BY <1>3 DEF Working, Types
<1>5. Types' BY <1>1, <1>2, <1>3, <1>4 DEF Types
<1>6. IdsAreDistinct'
    BY <1>2, <1>3, <1>4, Numbers DEF IdsAreDistinct, Ready, Types
<1>7. StaleIsUnlisted'
    <2>1. ASSUME NEW q \in Processes, Working(q)'
          PROVE  /\ Working(q) /\ job'[q].t = job[q].t /\ job'[q].dest = job[q].dest
                 /\ job'[q].stale = job[q].stale
        BY <1>1, <1>2, <1>4, <2>1
    <2>2. ASSUME NEW q \in Processes, Working(q)', NEW k \in DOMAIN job'[q].stale
          PROVE  /\ job'[q].stale[k].id <= built'
                 /\ \A i \in DOMAIN rows'[job'[q].t][job'[q].dest] :
                        rows'[job'[q].t][job'[q].dest][i].id # job'[q].stale[k].id
        <3>1. Working(q) /\ k \in DOMAIN job[q].stale /\ job'[q].stale[k] = job[q].stale[k]
            BY <2>1, <2>2
        <3>2. job[q].stale[k].id \in Nat /\ job[q].stale[k].id <= built
            BY <3>1, Numbers DEF StaleIsUnlisted
        <3>3. job'[q].stale[k].id <= built'
            BY <1>3, <3>1, <3>2 DEF Types
        <3> QED BY SMTT(30), <1>3, <2>1, <2>2, <3>1, <3>3 DEF StaleIsUnlisted
    <2> QED BY <2>2 DEF StaleIsUnlisted
<1>8. PendingIsNew'
    <2>1. ASSUME NEW d \in Destinations, NEW q \in Processes, Working(q)'
          PROVE  /\ \A i \in DOMAIN rows'[job'[q].t][d] :
                         rows'[job'[q].t][d][i].id # built + 1
                 /\ \A k \in DOMAIN job'[q].stale : job'[q].stale[k].id # built + 1
        <3>1. Working(q) /\ job[q] \in Jobs /\ job'[q].t = job[q].t /\ job'[q].stale = job[q].stale
            BY <1>1, <1>2, <1>4, <2>1, PlaceOfJob
        <3>2. \A i \in DOMAIN rows[job[q].t][d] : /\ rows[job[q].t][d][i].id <= built
                                                 /\ rows[job[q].t][d][i].id \in Nat
            BY <3>1, Numbers DEF IdsAreDistinct, Jobs
        <3>3. \A k \in DOMAIN job[q].stale : job[q].stale[k].id <= built /\ job[q].stale[k].id \in Nat
            BY <3>1, Numbers DEF StaleIsUnlisted
        <3> QED BY <1>3, <3>1, <3>2, <3>3 DEF Types
    <2>2. ASSUME NEW q \in Processes, NEW d \in Destinations, Pending(q, d)', q # p
          PROVE  Pending(q, d) /\ job'[q] = job[q]
        BY <1>4, <2>2 DEF Pending, Ready
    <2>3. ASSUME NEW q \in Processes, Working(q)'
          PROVE  Working(q) /\ job'[q].t = job[q].t /\ job'[q].stale = job[q].stale
                 /\ job'[q].dest = job[q].dest
        BY <1>1, <1>2, <1>4, <2>3
    <2>4. ASSUME NEW q \in Processes, NEW d \in Destinations, Pending(q, d)', q # p
          PROVE  /\ \A i \in DOMAIN rows'[job'[q].t][d] : rows'[job'[q].t][d][i].id # job'[q].id
                 /\ \A r \in Processes :
                      Working(r)' /\ job'[r].t = job'[q].t /\ job'[r].dest = d =>
                         \A k \in DOMAIN job'[r].stale : job'[r].stale[k].id # job'[q].id
        BY <1>3, <2>2, <2>3, <2>4 DEF PendingIsNew
    <2>5. ASSUME NEW q \in Processes, NEW d \in Destinations, Pending(q, d)', q = p
          PROVE  /\ \A i \in DOMAIN rows'[job'[q].t][d] : rows'[job'[q].t][d][i].id # job'[q].id
                 /\ \A r \in Processes :
                      Working(r)' /\ job'[r].t = job'[q].t /\ job'[r].dest = d =>
                         \A k \in DOMAIN job'[r].stale : job'[r].stale[k].id # job'[q].id
        BY <1>2, <1>4, <2>1, <2>5 DEF Pending, Ready
    <2> QED BY <2>4, <2>5 DEF PendingIsNew
<1>9. PushedIsThere' BY <1>2, <1>3, <1>4 DEF PushedIsThere
<1>10. ListedIsThere' BY <1>3 DEF ListedIsThere
<1> QED BY <1>5, <1>6, <1>7, <1>8, <1>9, <1>10

LEMMA PushStep ==
    ASSUME ListInv, NEW p \in Processes, NEW whole \in BOOLEAN,
           Working(p), job[p].at = "push",
           remote' = [remote EXCEPT ![job[p].t][Place(job[p])] = Upload(@, job[p], whole)],
           UNCHANGED <<now, own, rows, built>>,
           \/ whole /\ Goto(p, "record")
           \/ job' = [job EXCEPT ![p] = Idle]
    PROVE  ListInv'
<1> USE DEF ListInv
<1> DEFINE h == Place(job[p])
           t == job[p].t
           id == job[p].id
<1>1. /\ job[p] \in Jobs /\ h \in Places /\ t \in Tenants /\ id \in Nat
      /\ h = Operator <=> job[p].dest = "operator"
    BY PlaceOfJob DEF Jobs
<1>2. Copy(id, whole) \in Copies BY <1>1 DEF Copy, Copies
<1>3. /\ remote' \in [Tenants -> [Places -> SUBSET Copies]]
      /\ remote'[t][h] = {f \in remote[t][h] : f.id # id} \cup {Copy(id, whole)}
      /\ \A u \in Tenants, g \in Places :
             u # t \/ g # h => remote'[u][g] = remote[u][g]
    BY <1>1, <1>2 DEF Upload, Types
<1>4. \A n : Copy(n, TRUE).id = n BY DEF Copy
<1>5. \A u \in Tenants, g \in Places, n \in Nat :
          Copy(n, TRUE) \in remote[u][g] /\ n # id => Copy(n, TRUE) \in remote'[u][g]
    BY <1>3, <1>4
<1>6. Pending(p, job[p].dest) /\ Ready(p) BY <1>1 DEF Pending, Ready
<1> HIDE DEF h, t, id
<1>7. \A q \in Processes : Working(q)' =>
          /\ Working(q)
          /\ \/ q # p /\ job'[q] = job[q]
             \/ q = p /\ whole /\ job'[q] = [job[p] EXCEPT !.at = "record"]
    BY DEF Working, Types, Goto
<1>8. /\ [job[p] EXCEPT !.at = "record"] \in Jobs
      /\ [job[p] EXCEPT !.at = "record"].at = "record"
      /\ \A f \in {"t", "own", "dest", "id", "stale"} :
             [job[p] EXCEPT !.at = "record"][f] = job[p][f]
    BY <1>1 DEF Jobs, Stages
<1>9. \A q \in Processes : Working(q)' =>
          /\ job'[q] \in Jobs /\ job'[q].t = job[q].t /\ job'[q].own = job[q].own
          /\ job'[q].dest = job[q].dest /\ job'[q].id = job[q].id
          /\ job'[q].stale = job[q].stale
          /\ Ready(q)' => Ready(q)
          /\ \A d \in Destinations : Pending(q, d)' => Pending(q, d)
    BY <1>6, <1>7, <1>8, PlaceOfJob DEF Pending, Ready
<1>10. Types'
    <2>1. job' \in [Processes -> Jobs \cup {Idle}]
        BY <1>8 DEF Types, Goto
    <2> QED BY <1>3, <1>7, <1>9, <2>1 DEF Types
<1>11. IdsAreDistinct' BY <1>7, <1>9 DEF IdsAreDistinct, Ready
<1>12. StaleIsUnlisted'
    <2> SUFFICES ASSUME NEW q \in Processes, Working(q)'
                 PROVE  \A k \in DOMAIN job'[q].stale :
                            /\ job'[q].stale[k].id <= built'
                            /\ \A i \in DOMAIN rows'[job'[q].t][job'[q].dest] :
                                   rows'[job'[q].t][job'[q].dest][i].id # job'[q].stale[k].id
        BY DEF StaleIsUnlisted
    <2>1. /\ Working(q) /\ rows' = rows /\ built' = built /\ job'[q].t = job[q].t
          /\ job'[q].dest = job[q].dest /\ job'[q].stale = job[q].stale
        BY <1>7, <1>9
    <2> QED BY <2>1 DEF StaleIsUnlisted
<1>13. PendingIsNew'
    <2> SUFFICES ASSUME NEW q \in Processes, NEW d \in Destinations, Pending(q, d)'
                 PROVE  /\ \A i \in DOMAIN rows'[job'[q].t][d] :
                               rows'[job'[q].t][d][i].id # job'[q].id
                        /\ \A r \in Processes :
                               Working(r)' /\ job'[r].t = job'[q].t /\ job'[r].dest = d =>
                                   \A k \in DOMAIN job'[r].stale :
                                       job'[r].stale[k].id # job'[q].id
        BY DEF PendingIsNew
    <2>1. Working(q)' BY DEF Pending, Ready
    <2>2. /\ Pending(q, d) /\ rows' = rows
          /\ job'[q].t = job[q].t /\ job'[q].id = job[q].id
        BY <1>9, <2>1
    <2>3. \A r \in Processes : Working(r)' =>
              /\ Working(r) /\ job'[r].t = job[r].t /\ job'[r].dest = job[r].dest
              /\ job'[r].stale = job[r].stale
        BY <1>7, <1>9
    <2> QED BY <2>2, <2>3 DEF PendingIsNew
<1>14. PushedIsThere'
    <2> SUFFICES ASSUME NEW q \in Processes, Working(q)', job'[q].at = "record"
                 PROVE  Copy(job'[q].id, TRUE) \in remote'[job'[q].t][Place(job'[q])]
        BY DEF PushedIsThere
    <2>1. CASE q = p
        <3>1. whole /\ job'[q].t = t /\ job'[q].id = id /\ Place(job'[q]) = h
            BY <1>7, <1>9, <2>1 DEF t, id, h, Place
        <3> QED BY <1>3, <3>1
    <2>2. CASE q # p
        <3>1. Working(q) /\ job'[q] = job[q] BY <1>7, <2>2
        <3>2. Copy(job[q].id, TRUE) \in remote[job[q].t][Place(job[q])]
            BY <3>1 DEF PushedIsThere
        <3>3. job[q].id # id
            BY <1>6, <2>2, <3>1 DEF IdsAreDistinct, Ready, id
        <3>4. job[q].t \in Tenants /\ Place(job[q]) \in Places /\ job[q].id \in Nat
            BY <3>1, PlaceOfJob DEF Jobs
        <3> QED BY <1>5, <3>1, <3>2, <3>3, <3>4
    <2> QED BY <2>1, <2>2
<1>15. ListedIsThere'
    <2> SUFFICES ASSUME NEW u \in Tenants, NEW d \in Destinations,
                        NEW i \in DOMAIN rows[u][d]
                 PROVE  Copy(rows[u][d][i].id, TRUE) \in remote'[u][rows[u][d][i].place]
        BY DEF ListedIsThere
    <2>1. /\ rows[u][d][i].id \in Nat /\ rows[u][d][i].place \in Places
          /\ rows[u][d][i].place = Operator <=> d = "operator"
        BY Numbers DEF Rows, Types
    <2>2. Copy(rows[u][d][i].id, TRUE) \in remote[u][rows[u][d][i].place]
        BY DEF ListedIsThere
    <2>3. CASE u # t \/ rows[u][d][i].place # h BY <1>3, <2>1, <2>2, <2>3
    <2>4. CASE u = t /\ rows[u][d][i].place = h
        <3>1. d = job[p].dest BY <1>1, <2>1, <2>4 DEF Jobs, Destinations
        <3>2. rows[u][d][i].id # id BY <1>6, <2>4, <3>1 DEF PendingIsNew, id, t
        <3> QED BY <1>5, <2>1, <2>2, <3>2
    <2> QED BY <2>3, <2>4
<1> QED BY <1>10, <1>11, <1>12, <1>13, <1>14, <1>15

LEMMA RecordStep ==
    ASSUME ListInv, NEW p \in Processes, Record(p)
    PROVE  ListInv'
<1> USE DEF ListInv
<1> DEFINE h == Place(job[p])
           t == job[p].t
           e == job[p].dest
           id == job[p].id
           r == [id |-> id, at |-> now, place |-> h]
           new == [job[p] EXCEPT !.at = "prune"]
<1>1. /\ job[p] \in Jobs /\ h \in Places /\ t \in Tenants /\ e \in Destinations
      /\ h = Operator <=> e = "operator"
      /\ Working(p) /\ job[p].at = "record" /\ id \in Nat
    BY PlaceOfJob DEF Record, Jobs
<1>2. r \in Rows /\ r.id = id /\ r.place = h
    BY <1>1 DEF Rows, Types
<1>3. /\ job' = [job EXCEPT ![p] = new]
      /\ rows' = [rows EXCEPT ![t][e] = Append(@, r)]
      /\ UNCHANGED <<now, own, remote, built>>
    BY <1>1 DEF Record, Goto, Types
<1>4. /\ new \in Jobs /\ new.at = "prune" /\ new.t = t /\ new.own = job[p].own
      /\ new.dest = e /\ new.id = id /\ new.stale = job[p].stale
    BY <1>1 DEF Jobs, Stages
<1>5. Pending(p, e) /\ Ready(p) BY <1>1 DEF Pending, Ready
<1>6. PushedIsThere /\ Copy(id, TRUE) \in remote[t][h] BY <1>1 DEF PushedIsThere
<1> HIDE DEF h, t, e, id, r, new
<1>7. \A q \in Processes : Working(q)' => \/ q = p /\ job'[q] = new
                                          \/ q # p /\ Working(q) /\ job'[q] = job[q]
    BY <1>3 DEF Working, Types
<1>8. \A q \in Processes : Working(q)' =>
          /\ Working(q) /\ job'[q].t = job[q].t /\ job'[q].own = job[q].own
          /\ job'[q].dest = job[q].dest /\ job'[q].id = job[q].id
          /\ job'[q].stale = job[q].stale
          /\ Ready(q)' => Ready(q)
          /\ \A d \in Destinations : Pending(q, d)' => Pending(q, d)
    BY <1>1, <1>4, <1>5, <1>7 DEF Pending, Ready, t, e, id
<1>9. \A d \in Destinations : Pending(p, d)' => d # e
    BY <1>4, <1>7 DEF Pending, Ready
<1>10. /\ rows' \in [Tenants -> [Destinations -> Seq(Rows)]]
       /\ \A u \in Tenants, d \in Destinations : \A i \in DOMAIN rows'[u][d] :
              \/ i \in DOMAIN rows[u][d] /\ rows'[u][d][i] = rows[u][d][i]
              \/ u = t /\ d = e /\ i = Len(rows[u][d]) + 1 /\ rows'[u][d][i] = r
    <2>1. rows[t][e] \in Seq(Rows) BY <1>1 DEF Types
    <2>2. /\ Append(rows[t][e], r) \in Seq(Rows)
          /\ \A i \in DOMAIN Append(rows[t][e], r) :
                 \/ i \in DOMAIN rows[t][e] /\ Append(rows[t][e], r)[i] = rows[t][e][i]
                 \/ i = Len(rows[t][e]) + 1 /\ Append(rows[t][e], r)[i] = r
        BY <1>2, <2>1
    <2> DEFINE l == Append(rows[t][e], r)
    <2>3. rows' = [rows EXCEPT ![t][e] = l] BY <1>1, <1>3 DEF Types
    <2> HIDE DEF l
    <2>4. \A u \in Tenants, d \in Destinations :
              rows'[u][d] = IF u = t /\ d = e THEN l ELSE rows[u][d]
        BY <1>1, <2>3 DEF Types
    <2>5. rows' \in [Tenants -> [Destinations -> Seq(Rows)]]
        BY <1>1, <2>2, <2>3 DEF Types, l
    <2> QED BY <2>2, <2>4, <2>5 DEF l
<1>11. Types'
    <2>1. job' \in [Processes -> Jobs \cup {Idle}] BY <1>3, <1>4 DEF Types
    <2> QED BY <1>1, <1>2, <1>3, <1>8, <1>10, <2>1 DEF Types
<1>12. IdsAreDistinct'
    <2>1. id <= built BY <1>5 DEF IdsAreDistinct, id
    <2>2. \A u \in Tenants, d \in Destinations : \A i \in DOMAIN rows'[u][d] :
              rows'[u][d][i].id <= built'
        BY <1>2, <1>3, <1>10, <2>1 DEF IdsAreDistinct
    <2>3. \A i \in DOMAIN rows[t][e] : rows[t][e][i].id # id
        BY <1>1, <1>5 DEF PendingIsNew, id, t
    <2>4. \A u \in Tenants, d \in Destinations : \A i, j \in DOMAIN rows'[u][d] :
              i # j => rows'[u][d][i].id # rows'[u][d][j].id
        <3> SUFFICES ASSUME NEW u \in Tenants, NEW d \in Destinations,
                            NEW i \in DOMAIN rows'[u][d], NEW j \in DOMAIN rows'[u][d], i # j
                     PROVE  rows'[u][d][i].id # rows'[u][d][j].id
            OBVIOUS
        <3>1. CASE i \in DOMAIN rows[u][d] /\ rows'[u][d][i] = rows[u][d][i]
                   /\ j \in DOMAIN rows[u][d] /\ rows'[u][d][j] = rows[u][d][j]
            BY <3>1 DEF IdsAreDistinct
        <3>2. CASE ~(i \in DOMAIN rows[u][d] /\ rows'[u][d][i] = rows[u][d][i])
            BY <1>2, <1>10, <2>3, <3>2
        <3>3. CASE ~(j \in DOMAIN rows[u][d] /\ rows'[u][d][j] = rows[u][d][j])
            BY <1>2, <1>10, <2>3, <3>3
        <3> QED BY <3>1, <3>2, <3>3
    <2>5. \A q \in Processes : Ready(q)' => Ready(q) /\ job'[q].id = job[q].id
        BY <1>8 DEF Ready
    <2> QED BY <1>3, <2>2, <2>4, <2>5 DEF IdsAreDistinct
<1>13. StaleIsUnlisted'
    <2> SUFFICES ASSUME NEW q \in Processes, Working(q)', NEW k \in DOMAIN job'[q].stale
                 PROVE  /\ job'[q].stale[k].id <= built'
                        /\ \A i \in DOMAIN rows'[job'[q].t][job'[q].dest] :
                               rows'[job'[q].t][job'[q].dest][i].id # job'[q].stale[k].id
        BY DEF StaleIsUnlisted
    <2>1. /\ Working(q) /\ job'[q].t = job[q].t /\ job'[q].dest = job[q].dest
          /\ job'[q].stale = job[q].stale /\ job[q].t \in Tenants
          /\ job[q].dest \in Destinations
        BY <1>8, PlaceOfJob DEF Jobs
    <2>2. job[q].t = t /\ job[q].dest = e => job[q].stale[k].id # id
        BY <1>1, <1>5, <2>1 DEF PendingIsNew, id, t
    <2>3. /\ job[q].stale[k].id <= built
          /\ \A i \in DOMAIN rows[job[q].t][job[q].dest] :
                 rows[job[q].t][job[q].dest][i].id # job[q].stale[k].id
        BY <2>1 DEF StaleIsUnlisted
    <2> SUFFICES ASSUME NEW i \in DOMAIN rows'[job[q].t][job[q].dest]
                 PROVE  rows'[job[q].t][job[q].dest][i].id # job[q].stale[k].id
        BY <1>3, <2>1, <2>3
    <2>4. CASE i \in DOMAIN rows[job[q].t][job[q].dest]
               /\ rows'[job[q].t][job[q].dest][i] = rows[job[q].t][job[q].dest][i]
        BY <2>3, <2>4
    <2>5. CASE job[q].t = t /\ job[q].dest = e /\ rows'[job[q].t][job[q].dest][i] = r
        BY <1>2, <2>2, <2>5
    <2> QED BY <1>10, <2>1, <2>4, <2>5
<1>14. PendingIsNew'
    <2> SUFFICES ASSUME NEW q \in Processes, NEW d \in Destinations, Pending(q, d)'
                 PROVE  /\ \A i \in DOMAIN rows'[job'[q].t][d] :
                               rows'[job'[q].t][d][i].id # job'[q].id
                        /\ \A w \in Processes :
                              Working(w)' /\ job'[w].t = job'[q].t /\ job'[w].dest = d =>
                                 \A k \in DOMAIN job'[w].stale :
                                     job'[w].stale[k].id # job'[q].id
        BY DEF PendingIsNew
    <2>1. /\ Pending(q, d) /\ Ready(q) /\ Working(q) /\ job[q].t \in Tenants
          /\ job'[q].t = job[q].t /\ job'[q].id = job[q].id
        BY <1>8, PlaceOfJob DEF Pending, Ready, Jobs
    <2>2. d = e => q # p BY <1>9
    <2>3. d = e => job[q].id # id BY <1>5, <2>1, <2>2 DEF IdsAreDistinct, id
    <2>4. \A i \in DOMAIN rows'[job'[q].t][d] : rows'[job'[q].t][d][i].id # job'[q].id
        <3> SUFFICES ASSUME NEW i \in DOMAIN rows'[job[q].t][d]
                     PROVE  rows'[job[q].t][d][i].id # job[q].id
            BY <2>1
        <3>1. CASE i \in DOMAIN rows[job[q].t][d] /\ rows'[job[q].t][d][i] = rows[job[q].t][d][i]
            BY <2>1, <3>1 DEF PendingIsNew
        <3>2. CASE d = e /\ rows'[job[q].t][d][i] = r
            BY <1>2, <2>3, <3>2
        <3> QED BY <1>10, <2>1, <3>1, <3>2
    <2>5. \A w \in Processes : Working(w)' /\ job'[w].t = job'[q].t /\ job'[w].dest = d =>
              \A k \in DOMAIN job'[w].stale : job'[w].stale[k].id # job'[q].id
        BY <1>8, <2>1 DEF PendingIsNew
    <2> QED BY <2>4, <2>5
<1>15. PushedIsThere' BY <1>3, <1>4, <1>7 DEF PushedIsThere
<1>16. ListedIsThere'
    <2> SUFFICES ASSUME NEW u \in Tenants, NEW d \in Destinations, NEW i \in DOMAIN rows'[u][d]
                 PROVE  Copy(rows'[u][d][i].id, TRUE) \in remote[u][rows'[u][d][i].place]
        BY <1>3 DEF ListedIsThere
    <2>1. CASE i \in DOMAIN rows[u][d] /\ rows'[u][d][i] = rows[u][d][i]
        BY <2>1 DEF ListedIsThere
    <2>2. CASE u = t /\ rows'[u][d][i] = r
        BY <1>2, <1>6, <2>2
    <2> QED BY <1>10, <2>1, <2>2
<1> QED BY <1>11, <1>12, <1>13, <1>14, <1>15, <1>16

LEMMA PruneStep ==
    ASSUME ListInv, NEW p \in Processes, PruneRows(p)
    PROVE  ListInv'
<1> USE DEF ListInv
<1> DEFINE t == job[p].t
           e == job[p].dest
           list == rows[t][e]
           new == [job[p] EXCEPT !.at = "remove", !.stale = Stale(list)]
<1>1. /\ job[p] \in Jobs /\ t \in Tenants /\ e \in Destinations
      /\ Working(p) /\ job[p].at = "prune" /\ list \in Seq(Rows)
    BY PlaceOfJob DEF PruneRows, Jobs, Types
<1>2. /\ job' = [job EXCEPT ![p] = new]
      /\ rows' = [rows EXCEPT ![t][e] = Kept(list)]
      /\ UNCHANGED <<now, own, remote, built>>
    BY <1>1 DEF PruneRows, Types
<1> DEFINE n == Len(Stale(list))
           gone == Stale(list)
           kept == Kept(list)
<1>3. /\ gone \in Seq(Rows) /\ kept \in Seq(Rows) /\ n \in Nat
      /\ \A k \in DOMAIN gone : k \in DOMAIN list /\ gone[k] = list[k] /\ k \in 1..n
      /\ \A i \in DOMAIN kept : i \in Nat \ {0} /\ i + n \in DOMAIN list
                                /\ kept[i] = list[i + n]
    BY <1>1, CutList
<1> HIDE DEF gone, n, kept
<1>4. /\ new \in Jobs /\ new.at = "remove" /\ new.t = t /\ new.own = job[p].own
      /\ new.dest = e /\ new.id = job[p].id /\ new.stale = gone
    BY <1>1, <1>3 DEF Jobs, Stages, gone
<1> HIDE DEF new
<1>5. \A q \in Processes : Working(q)' => \/ q = p /\ job'[q] = new
                                          \/ q # p /\ Working(q) /\ job'[q] = job[q]
    BY <1>2 DEF Working, Types
<1>6. \A q \in Processes : Working(q)' =>
          /\ Working(q) /\ job'[q].t = job[q].t /\ job'[q].own = job[q].own
          /\ job'[q].dest = job[q].dest /\ job'[q].id = job[q].id
          /\ Ready(q)' => Ready(q)
          /\ \A d \in Destinations : Pending(q, d)' => Pending(q, d)
    BY <1>1, <1>4, <1>5 DEF Pending, Ready
<1>7. /\ rows' \in [Tenants -> [Destinations -> Seq(Rows)]]
      /\ \A u \in Tenants, d \in Destinations :
             rows'[u][d] = IF u = t /\ d = e THEN kept ELSE rows[u][d]
    BY <1>1, <1>2, <1>3 DEF Types, kept
<1>8. \A u \in Tenants, d \in Destinations : \A i \in DOMAIN rows'[u][d] :
          \E j \in DOMAIN rows[u][d] : rows'[u][d][i] = rows[u][d][j]
    <2> SUFFICES ASSUME NEW u \in Tenants, NEW d \in Destinations, NEW i \in DOMAIN rows'[u][d]
                 PROVE  \E j \in DOMAIN rows[u][d] : rows'[u][d][i] = rows[u][d][j]
        OBVIOUS
    <2>1. CASE u = t /\ d = e
        <3>1. rows'[u][d] = kept /\ list = rows[u][d] BY <1>7, <2>1
        <3>2. i + n \in DOMAIN list /\ kept[i] = list[i + n] BY <1>3, <3>1
        <3> QED BY <3>1, <3>2
    <2>2. CASE ~(u = t /\ d = e) BY <1>7, <2>2
    <2> QED BY <2>1, <2>2
<1> HIDE DEF t, e
<1>9. Types'
    <2>1. job' \in [Processes -> Jobs \cup {Idle}] BY <1>2, <1>4 DEF Types
    <2> QED BY <1>2, <1>6, <1>7, <1>8, <2>1 DEF Types
<1>10. IdsAreDistinct'
    <2>1. \A u \in Tenants, d \in Destinations : \A i \in DOMAIN rows'[u][d] :
              rows'[u][d][i].id <= built'
        BY <1>2, <1>8 DEF IdsAreDistinct
    <2>2. \A i, j \in DOMAIN kept : i # j => kept[i].id # kept[j].id
        <3> SUFFICES ASSUME NEW i \in DOMAIN kept, NEW j \in DOMAIN kept, i # j
                     PROVE  kept[i].id # kept[j].id
            OBVIOUS
        <3>1. i + n # j + n BY <1>3
        <3> QED BY SMTT(30), <1>1, <1>3, <3>1 DEF IdsAreDistinct
    <2>3. \A u \in Tenants, d \in Destinations : \A i, j \in DOMAIN rows'[u][d] :
              i # j => rows'[u][d][i].id # rows'[u][d][j].id
        BY <1>7, <2>2 DEF IdsAreDistinct
    <2>4. \A q \in Processes : Ready(q)' => Ready(q) /\ job'[q].id = job[q].id
        BY <1>6 DEF Ready
    <2> QED BY <1>2, <2>1, <2>3, <2>4 DEF IdsAreDistinct
<1>11. StaleIsUnlisted'
    <2> SUFFICES ASSUME NEW q \in Processes, Working(q)', NEW k \in DOMAIN job'[q].stale
                 PROVE  /\ job'[q].stale[k].id <= built'
                        /\ \A i \in DOMAIN rows'[job'[q].t][job'[q].dest] :
                               rows'[job'[q].t][job'[q].dest][i].id # job'[q].stale[k].id
        BY DEF StaleIsUnlisted
    <2>1. CASE q = p
        <3>1. job'[q].t = t /\ job'[q].dest = e /\ job'[q].stale = gone
            BY <1>4, <1>5, <2>1
        <3>2. k \in DOMAIN list /\ gone[k] = list[k] /\ k \in 1..n
            BY <1>3, <3>1
        <3>3. \A i \in DOMAIN kept : kept[i].id # gone[k].id
            <4> SUFFICES ASSUME NEW i \in DOMAIN kept PROVE kept[i].id # gone[k].id
                OBVIOUS
            <4>1. i + n # k BY <1>3, <3>2
            <4> QED BY <1>1, <1>3, <3>2, <4>1 DEF IdsAreDistinct
        <3> QED BY <1>1, <1>2, <1>7, <3>1, <3>2, <3>3 DEF IdsAreDistinct
    <2>2. CASE q # p
        <3>1. Working(q) /\ job'[q] = job[q] BY <1>5, <2>2
        <3>2. job[q].t \in Tenants /\ job[q].dest \in Destinations
            BY <3>1, PlaceOfJob DEF Jobs
        <3>3. /\ job[q].stale[k].id <= built
              /\ \A i \in DOMAIN rows[job[q].t][job[q].dest] :
                     rows[job[q].t][job[q].dest][i].id # job[q].stale[k].id
            BY <3>1 DEF StaleIsUnlisted
        <3>4. \A i \in DOMAIN rows'[job[q].t][job[q].dest] :
                  rows'[job[q].t][job[q].dest][i].id # job[q].stale[k].id
            BY <1>8, <3>2, <3>3
        <3> QED BY <1>2, <3>1, <3>3, <3>4
    <2> QED BY <2>1, <2>2
<1>12. PendingIsNew'
    <2> SUFFICES ASSUME NEW q \in Processes, NEW d \in Destinations, Pending(q, d)'
                 PROVE  /\ \A i \in DOMAIN rows'[job'[q].t][d] :
                               rows'[job'[q].t][d][i].id # job'[q].id
                        /\ \A w \in Processes :
                              Working(w)' /\ job'[w].t = job'[q].t /\ job'[w].dest = d =>
                                 \A k \in DOMAIN job'[w].stale :
                                     job'[w].stale[k].id # job'[q].id
        BY DEF PendingIsNew
    <2>1. /\ Pending(q, d) /\ Working(q) /\ job[q].t \in Tenants
          /\ job'[q].t = job[q].t /\ job'[q].id = job[q].id
        BY <1>6, PlaceOfJob DEF Pending, Ready, Jobs
    <2>2. \A i \in DOMAIN rows[job[q].t][d] : rows[job[q].t][d][i].id # job[q].id
        BY <2>1 DEF PendingIsNew
    <2>3. \A i \in DOMAIN rows'[job'[q].t][d] : rows'[job'[q].t][d][i].id # job'[q].id
        BY <1>8, <2>1, <2>2
    <2>4. ASSUME NEW w \in Processes, Working(w)', job'[w].t = job'[q].t, job'[w].dest = d,
                 NEW k \in DOMAIN job'[w].stale
          PROVE  job'[w].stale[k].id # job'[q].id
        <3>1. CASE w = p
            <4>1. t = job[q].t /\ e = d /\ job'[w].stale = gone
                BY <1>4, <1>5, <2>1, <2>4, <3>1
            <4>2. k \in DOMAIN list /\ gone[k] = list[k]
                BY <1>3, <4>1
            <4> QED BY <2>1, <2>2, <4>1, <4>2
        <3>2. CASE w # p
            <4>1. Working(w) /\ job'[w] = job[w] BY <1>5, <2>4, <3>2
            <4> QED BY <2>1, <2>4, <4>1 DEF PendingIsNew
        <3> QED BY <3>1, <3>2
    <2> QED BY <2>3, <2>4
<1>13. PushedIsThere' BY <1>2, <1>4, <1>5 DEF PushedIsThere
<1>14. ListedIsThere'
    <2> SUFFICES ASSUME NEW u \in Tenants, NEW d \in Destinations, NEW i \in DOMAIN rows'[u][d]
                 PROVE  Copy(rows'[u][d][i].id, TRUE) \in remote[u][rows'[u][d][i].place]
        BY <1>2 DEF ListedIsThere
    <2>1. PICK j \in DOMAIN rows[u][d] : rows'[u][d][i] = rows[u][d][j] BY <1>8
    <2> QED BY <2>1 DEF ListedIsThere
<1> QED BY <1>9, <1>10, <1>11, <1>12, <1>13, <1>14

LEMMA RemoveStep ==
    ASSUME ListInv, NEW p \in Processes, RemoveStale(p)
    PROVE  ListInv'
<1> USE DEF ListInv
<1> DEFINE h == Place(job[p])
           t == job[p].t
           e == job[p].dest
           old == job[p].stale
           x == Head(old).id
           new == [job[p] EXCEPT !.stale = Tail(old)]
<1>1. /\ job[p] \in Jobs /\ h \in Places /\ t \in Tenants /\ e \in Destinations
      /\ h = Operator <=> e = "operator"
      /\ Working(p) /\ job[p].at = "remove" /\ old \in Seq(Rows) /\ old # <<>>
    BY PlaceOfJob DEF RemoveStale, Jobs
<1>2. /\ job' = [job EXCEPT ![p] = new]
      /\ UNCHANGED <<now, own, rows, built>>
      /\ remote' = remote \/ remote' = [remote EXCEPT ![t][h] = {f \in @ : f.id # x}]
    BY <1>1 DEF RemoveStale, NextStale, Types
<1>3. /\ Tail(old) \in Seq(Rows) /\ 1 \in DOMAIN old /\ x = old[1].id
      /\ \A k \in DOMAIN Tail(old) : k + 1 \in DOMAIN old /\ Tail(old)[k] = old[k + 1]
    BY <1>1
<1>4. /\ new \in Jobs /\ new.at = "remove" /\ new.t = t /\ new.own = job[p].own
      /\ new.dest = e /\ new.id = job[p].id /\ new.stale = Tail(old)
    BY <1>1, <1>3 DEF Jobs
<1>5. /\ remote' \in [Tenants -> [Places -> SUBSET Copies]]
      /\ \A n : \A u \in Tenants, g \in Places :
             /\ Copy(n, TRUE) \in remote[u][g]
             /\ u # t \/ g # h \/ n # x
             => Copy(n, TRUE) \in remote'[u][g]
    <2>1. CASE remote' = remote BY <2>1 DEF Types
    <2>2. CASE remote' = [remote EXCEPT ![t][h] = {f \in @ : f.id # x}]
        <3> DEFINE left == {f \in remote[t][h] : f.id # x}
        <3>1. left \in SUBSET Copies BY <1>1 DEF Types
        <3>2. \A n : Copy(n, TRUE) \in remote[t][h] /\ n # x => Copy(n, TRUE) \in left
            BY DEF Copy
        <3>3. remote' = [remote EXCEPT ![t][h] = left] BY <1>1, <2>2 DEF Types
        <3> HIDE DEF left, t, h, x
        <3>4. remote' \in [Tenants -> [Places -> SUBSET Copies]]
            BY <1>1, <3>1, <3>3 DEF Types
        <3>5. ASSUME NEW n, NEW u \in Tenants, NEW g \in Places,
                     Copy(n, TRUE) \in remote[u][g], u # t \/ g # h \/ n # x
              PROVE  Copy(n, TRUE) \in remote'[u][g]
            <4>1. CASE u = t /\ g = h
                <5>1. remote'[u][g] = left BY <1>1, <3>3, <4>1 DEF Types
                <5> QED BY <3>2, <3>5, <4>1, <5>1
            <4>2. CASE ~(u = t /\ g = h)
                <5>1. remote'[u][g] = remote[u][g] BY <1>1, <3>3, <4>2 DEF Types
                <5> QED BY <3>5, <5>1
            <4> QED BY <4>1, <4>2
        <3> QED BY <3>4, <3>5
    <2> QED BY <1>2, <2>1, <2>2
<1>6. \A i \in DOMAIN rows[t][e] : rows[t][e][i].id # x
    BY <1>1, <1>3 DEF StaleIsUnlisted
<1>7. \A q \in Processes : Pending(q, e) /\ job[q].t = t => job[q].id # x
    BY <1>1, <1>3 DEF PendingIsNew
<1> HIDE DEF h, t, e, old, x, new
<1>8. \A q \in Processes : Working(q)' => \/ q = p /\ job'[q] = new
                                          \/ q # p /\ Working(q) /\ job'[q] = job[q]
    BY <1>2 DEF Working, Types
<1>9. \A q \in Processes : Working(q)' =>
          /\ Working(q) /\ job'[q].t = job[q].t /\ job'[q].own = job[q].own
          /\ job'[q].dest = job[q].dest /\ job'[q].id = job[q].id
          /\ \A k \in DOMAIN job'[q].stale :
                 \E l \in DOMAIN job[q].stale : job'[q].stale[k] = job[q].stale[l]
    <2> SUFFICES ASSUME NEW q \in Processes, Working(q)'
                 PROVE  /\ Working(q) /\ job'[q].t = job[q].t /\ job'[q].own = job[q].own
                        /\ job'[q].dest = job[q].dest /\ job'[q].id = job[q].id
                        /\ \A k \in DOMAIN job'[q].stale :
                             \E l \in DOMAIN job[q].stale : job'[q].stale[k] = job[q].stale[l]
        OBVIOUS
    <2>1. CASE q # p BY <1>8, <2>1
    <2>2. CASE q = p
        <3>1. job'[q] = new BY <1>8, <2>2
        <3>2. \A k \in DOMAIN Tail(old) :
                  \E l \in DOMAIN old : Tail(old)[k] = old[l]
            BY <1>3
        <3>3. job'[q].stale = Tail(old) /\ job[q].stale = old
            BY <1>4, <2>2, <3>1 DEF old
        <3>4. /\ Working(q) /\ job'[q].t = job[q].t /\ job'[q].own = job[q].own
              /\ job'[q].dest = job[q].dest /\ job'[q].id = job[q].id
            BY <1>1, <1>4, <2>2, <3>1 DEF t, e
        <3> QED BY <3>2, <3>3, <3>4
    <2> QED BY <2>1, <2>2
<1>10. \A q \in Processes :
           /\ Ready(q)' => Ready(q)
           /\ \A d \in Destinations : Pending(q, d)' => Pending(q, d)
    BY <1>1, <1>4, <1>8 DEF Pending, Ready, e
<1>11. Types'
    <2>1. job' \in [Processes -> Jobs \cup {Idle}] BY <1>2, <1>4 DEF Types
    <2> QED BY <1>2, <1>5, <1>9, <2>1 DEF Types
<1>12. IdsAreDistinct' BY <1>2, <1>9, <1>10 DEF IdsAreDistinct, Ready
<1>13. StaleIsUnlisted'
    <2> SUFFICES ASSUME NEW q \in Processes, Working(q)', NEW k \in DOMAIN job'[q].stale
                 PROVE  /\ job'[q].stale[k].id <= built
                        /\ \A i \in DOMAIN rows[job'[q].t][job'[q].dest] :
                               rows[job'[q].t][job'[q].dest][i].id # job'[q].stale[k].id
        BY SMTT(30), <1>2 DEF StaleIsUnlisted
    <2>1. PICK l \in DOMAIN job[q].stale : job'[q].stale[k] = job[q].stale[l] BY <1>9
    <2>2. Working(q) /\ job'[q].t = job[q].t /\ job'[q].dest = job[q].dest BY <1>9
    <2>3. /\ job[q].stale[l].id <= built
          /\ \A i \in DOMAIN rows[job[q].t][job[q].dest] :
                 rows[job[q].t][job[q].dest][i].id # job[q].stale[l].id
        BY <2>2 DEF StaleIsUnlisted
    <2> QED BY <2>1, <2>2, <2>3
<1>14. PendingIsNew'
    <2> SUFFICES ASSUME NEW q \in Processes, NEW d \in Destinations, Pending(q, d)'
                 PROVE  /\ \A i \in DOMAIN rows[job'[q].t][d] :
                               rows[job'[q].t][d][i].id # job'[q].id
                        /\ \A w \in Processes :
                              Working(w)' /\ job'[w].t = job'[q].t /\ job'[w].dest = d =>
                                 \A k \in DOMAIN job'[w].stale :
                                     job'[w].stale[k].id # job'[q].id
        BY <1>2 DEF PendingIsNew
    <2>1. /\ Pending(q, d) /\ Working(q)
          /\ job'[q].t = job[q].t /\ job'[q].id = job[q].id
        BY <1>9, <1>10 DEF Pending, Ready
    <2>2. ASSUME NEW w \in Processes, Working(w)', job'[w].t = job'[q].t, job'[w].dest = d,
                 NEW k \in DOMAIN job'[w].stale
          PROVE  job'[w].stale[k].id # job'[q].id
        <3>1. PICK l \in DOMAIN job[w].stale : job'[w].stale[k] = job[w].stale[l]
            BY <1>9, <2>2
        <3>2. Working(w) /\ job[w].t = job[q].t /\ job[w].dest = d BY <1>9, <2>1, <2>2
        <3> QED BY <2>1, <3>1, <3>2 DEF PendingIsNew
    <2> QED BY <2>1, <2>2 DEF PendingIsNew
<1>15. PushedIsThere'
    <2> SUFFICES ASSUME NEW q \in Processes, Working(q)', job'[q].at = "record"
                 PROVE  Copy(job'[q].id, TRUE) \in remote'[job'[q].t][Place(job'[q])]
        BY DEF PushedIsThere
    <2>1. q # p /\ Working(q) /\ job'[q] = job[q] BY <1>4, <1>8
    <2>2. Copy(job[q].id, TRUE) \in remote[job[q].t][Place(job[q])]
        BY <2>1 DEF PushedIsThere
    <2>3. /\ job[q].t \in Tenants /\ Place(job[q]) \in Places
          /\ job[q].dest \in Destinations
          /\ Place(job[q]) = Operator <=> job[q].dest = "operator"
        BY <2>1, PlaceOfJob DEF Jobs
    <2>4. job[q].t # t \/ Place(job[q]) # h \/ job[q].id # x
        <3>1. SUFFICES ASSUME job[q].t = t, Place(job[q]) = h PROVE job[q].id # x
            OBVIOUS
        <3>2. job[q].dest = e BY <1>1, <2>3, <3>1 DEF Destinations
        <3>3. Pending(q, e) BY <2>1, <3>2 DEF Pending, Ready
        <3> QED BY <1>7, <3>1, <3>3
    <2> QED BY <1>5, <2>1, <2>2, <2>3, <2>4
<1>16. ListedIsThere'
    <2> SUFFICES ASSUME NEW u \in Tenants, NEW d \in Destinations,
                        NEW i \in DOMAIN rows[u][d]
                 PROVE  Copy(rows[u][d][i].id, TRUE) \in remote'[u][rows[u][d][i].place]
        BY <1>2 DEF ListedIsThere
    <2>1. /\ rows[u][d][i].place \in Places
          /\ rows[u][d][i].place = Operator <=> d = "operator"
        BY Numbers DEF Rows, Types
    <2>2. Copy(rows[u][d][i].id, TRUE) \in remote[u][rows[u][d][i].place]
        BY DEF ListedIsThere
    <2>3. u # t \/ rows[u][d][i].place # h \/ rows[u][d][i].id # x
        BY <1>1, <1>6, <2>1 DEF Destinations
    <2> QED BY <1>5, <2>1, <2>2, <2>3
<1> QED BY <1>11, <1>12, <1>13, <1>14, <1>15, <1>16

LEMMA DestinationStep ==
    ASSUME ListInv, NEW p \in Processes, NextDestination(p)
    PROVE  ListInv'
<1> USE DEF ListInv, store
<1> DEFINE new == [job[p] EXCEPT !.at = "push", !.dest = "tenant"]
<1>1. /\ job[p] \in Jobs /\ Working(p) /\ job[p].at = "remove" /\ job[p].stale = <<>>
      /\ job[p].dest = "operator" /\ job[p].own # NoHost
    BY PlaceOfJob DEF NextDestination
<1>2. /\ job' = [job EXCEPT ![p] = new]
      /\ UNCHANGED <<now, own, rows, remote, built>>
    BY <1>1 DEF NextDestination, Types
<1>3. /\ new \in Jobs /\ new.at = "push" /\ new.t = job[p].t /\ new.own # NoHost
      /\ new.dest = "tenant" /\ new.id = job[p].id /\ DOMAIN new.stale = {}
    <2>1. new \in Jobs BY <1>1 DEF Jobs, Stages, Destinations
    <2>2. DOMAIN job[p].stale = {} BY <1>1
    <2> QED BY <1>1, <2>1, <2>2 DEF Jobs
<1> HIDE DEF new
<1>4. \A q \in Processes : Working(q)' => \/ q = p /\ job'[q] = new
                                          \/ q # p /\ Working(q) /\ job'[q] = job[q]
    BY <1>2 DEF Working, Types
<1>5. \A q \in Processes :
          /\ Ready(q)' => Ready(q) /\ job'[q].id = job[q].id /\ job'[q].t = job[q].t
          /\ \A d \in Destinations : Pending(q, d)' => Pending(q, d)
    BY <1>1, <1>3, <1>4 DEF Pending, Ready
<1>6. Types'
    <2>1. job' \in [Processes -> Jobs \cup {Idle}] BY <1>2, <1>3 DEF Types
    <2> QED BY <1>2, <1>3, <1>4, <2>1 DEF Types
<1>7. IdsAreDistinct' BY <1>2, <1>5 DEF IdsAreDistinct
<1>8. StaleIsUnlisted' BY <1>2, <1>3, <1>4 DEF StaleIsUnlisted
<1>9. PendingIsNew'
    <2> SUFFICES ASSUME NEW q \in Processes, NEW d \in Destinations, Pending(q, d)'
                 PROVE  /\ \A i \in DOMAIN rows[job'[q].t][d] :
                               rows[job'[q].t][d][i].id # job'[q].id
                        /\ \A w \in Processes :
                              Working(w)' /\ job'[w].t = job'[q].t /\ job'[w].dest = d =>
                                 \A k \in DOMAIN job'[w].stale :
                                     job'[w].stale[k].id # job'[q].id
        BY <1>2 DEF PendingIsNew
    <2>1. Pending(q, d) /\ job'[q].t = job[q].t /\ job'[q].id = job[q].id
        BY <1>5 DEF Pending
    <2> QED BY <1>3, <1>4, <2>1 DEF PendingIsNew
<1>10. PushedIsThere' BY <1>2, <1>3, <1>4 DEF PushedIsThere
<1>11. ListedIsThere' BY <1>2 DEF ListedIsThere
<1> QED BY <1>6, <1>7, <1>8, <1>9, <1>10, <1>11

\* Nothing that matters changes.
LEMMA IdleStep ==
    ASSUME ListInv, UNCHANGED <<rows, remote, job, built>>, now' \in Nat,
           own' \in [Tenants -> Hosts \cup {NoHost}]
    PROVE  ListInv'
<1> USE DEF ListInv, Working, Ready, Pending
<1>1. Types' BY DEF Types
<1>2. IdsAreDistinct' BY DEF IdsAreDistinct
<1>3. StaleIsUnlisted' BY DEF StaleIsUnlisted
<1>4. PendingIsNew' BY DEF PendingIsNew
<1>5. PushedIsThere' BY DEF PushedIsThere
<1>6. ListedIsThere' BY DEF ListedIsThere
<1> QED BY <1>1, <1>2, <1>3, <1>4, <1>5, <1>6

LEMMA ListStep == ListInv /\ [Next]_vars => ListInv'
<1> SUFFICES ASSUME ListInv, [Next]_vars PROVE ListInv'
    OBVIOUS
<1> USE DEF store
<1>0. now \in Nat /\ own \in [Tenants -> Hosts \cup {NoHost}] BY DEF ListInv, Types
<1>1. ASSUME NEW p \in Processes, CreateStep(p) PROVE ListInv'
    <2>1. CASE Build(p) BY <2>1, BuildStep
    <2>2. CASE Push(p) BY <2>2, PushStep DEF Push
    <2>3. CASE Record(p) BY <2>3, RecordStep
    <2>4. CASE PruneRows(p) BY <2>4, PruneStep
    <2>5. CASE RemoveStale(p) BY <2>5, RemoveStep
    <2>6. CASE NextDestination(p) BY <2>6, DestinationStep
    <2>7. CASE Return(p) BY <2>7, EndOfJob DEF Return
    <2>8. CASE Fail(p) \/ Die(p)
        <3>1. CASE UNCHANGED remote BY <2>8, <3>1, EndOfJob DEF Fail, Die, GivesUp
        <3>2. CASE ~UNCHANGED remote BY <2>8, <3>2, PushStep DEF Fail, Die, GivesUp
        <3> QED BY <3>1, <3>2
    <2> QED BY <1>1, <2>1, <2>2, <2>3, <2>4, <2>5, <2>6, <2>7, <2>8 DEF CreateStep
<1>2. ASSUME NEW c \in Clerks, NEW t \in Tenants, Ask(c, t) PROVE ListInv'
    BY <1>2, StartOfJob DEF Ask, Processes
<1>3. CASE StartSweep BY <1>0, <1>3, IdleStep DEF StartSweep
<1>4. CASE Turn
    <2>1. CASE Due(sweep.t)
        BY <1>4, <2>1, StartOfJob DEF Turn, Processes
    <2>2. CASE ~Due(sweep.t) BY <1>0, <1>4, <2>2, IdleStep DEF Turn
    <2> QED BY <2>1, <2>2
<1>5. CASE EndSweep BY <1>0, <1>5, IdleStep DEF EndSweep
<1>6. CASE Tick BY <1>0, <1>6, IdleStep DEF Tick
<1>7. ASSUME NEW t \in Tenants, NEW h \in Hosts \cup {NoHost}, SetDestination(t, h)
      PROVE  ListInv'
    BY <1>0, <1>7, IdleStep DEF SetDestination
<1>8. CASE UNCHANGED vars BY <1>0, <1>8, IdleStep DEF vars
<1> QED BY <1>1, <1>2, <1>3, <1>4, <1>5, <1>6, <1>7, <1>8 DEF Next

(***************************************************************************)
(* What the panels list is there and whole, whichever backups overlap,     *)
(* fail or die (backup.py:669-707): the row comes after its file, is gone  *)
(* before it, and no snapshot takes the place of another.                  *)
(***************************************************************************)
THEOREM ListedStaysThere == Spec => []ListedIsThere
<1>1. ListInv /\ [Next]_vars => ListInv' BY ListStep
<1>2. ListInv => ListedIsThere BY DEF ListInv
<1> QED BY ListInit, <1>1, <1>2, PTL DEF Spec

-----------------------------------------------------------------------------
\* The rows is_backup_due goes by.
OwnRows(t) == rows[t]["operator"]

\* t has a backup since the sweep began.
Served(t) == OwnRows(t) # <<>> /\ Last(OwnRows(t)).at >= sweep.began

\* The operator's copy of this run is recorded.
Recorded(j) == j.dest = "tenant" \/ j.at \in {"prune", "remove"}

Sweeps ==
    [on : BOOLEAN, t : Nat, began : Nat, due : SUBSET Tenants,
     failed : SUBSET Nat, last : Nat]

\* The tenants before the sweep's place are served or noted; a due one it has
\* yet to reach is due still, unless someone else has served it.
SweepInv ==
    /\ sweep \in Sweeps /\ failures \in Nat
    /\ sweep.on => sweep.began <= now
    /\ Working(Timer) => sweep.on /\ job[Timer].t = sweep.t
    /\ Working(Timer) /\ Recorded(job[Timer]) => Served(sweep.t)
    /\ sweep.on => \A t \in sweep.due :
           /\ t < sweep.t => t \in sweep.failed \/ Served(t)
           /\ \/ OwnRows(t) = <<>>
              \/ sweep.began >= Last(OwnRows(t)).at + Interval * Day
              \/ Served(t)

-----------------------------------------------------------------------------
\* Pruning leaves the newest row where it is.
LEMMA KeptEndsAlike ==
    ASSUME NEW list \in Seq(Rows)
    PROVE  /\ Kept(list) = <<>> <=> list = <<>>
           /\ list # <<>> => Last(Kept(list)) = Last(list)
<1> DEFINE n == IF Len(list) > Retention THEN Len(list) - Retention ELSE 0
<1>1. n \in Nat /\ n <= Len(list) /\ (list # <<>> => n < Len(list))
    BY CountAssumption
<1>2. Stale(list) = SubSeq(list, 1, n) BY DEF Stale
<1> HIDE DEF n
<1>3. Len(Stale(list)) = n BY <1>1, <1>2
<1>4. /\ Kept(list) \in Seq(Rows) /\ Len(Kept(list)) = Len(list) - n
      /\ \A i \in 1..(Len(list) - n) : Kept(list)[i] = list[n + i]
    BY <1>1, <1>3 DEF Kept
<1>5. CASE list = <<>> BY <1>1, <1>4, <1>5
<1>6. CASE list # <<>>
    <2>1. Len(list) \in Nat /\ Len(list) > 0 BY <1>6
    <2>2. Kept(list)[Len(list) - n] = list[Len(list)] BY <1>1, <1>4, <1>6, <2>1
    <2> QED BY <1>1, <1>4, <1>6, <2>1, <2>2 DEF Last
<1> QED BY <1>5, <1>6

\* The last row is a row, with a time of its own.
LEMMA LastRow ==
    ASSUME Types, NEW t \in Tenants, OwnRows(t) # <<>>
    PROVE  Last(OwnRows(t)).at \in Nat
<1>1. OwnRows(t) \in Seq(Rows) BY DEF Types, Destinations, OwnRows
<1>2. OwnRows(t)[Len(OwnRows(t))] \in Rows BY <1>1
<1> QED BY <1>2 DEF Last, Rows

\* A step of a backup leaves the newest row where it is, or adds one made now.
LEMMA NewestRow ==
    ASSUME Types, NEW p \in Processes, CreateStep(p), NEW t \in Tenants
    PROVE  \/ /\ OwnRows(t)' = <<>> <=> OwnRows(t) = <<>>
              /\ OwnRows(t) # <<>> => Last(OwnRows(t))' = Last(OwnRows(t))
           \/ OwnRows(t)' # <<>> /\ Last(OwnRows(t))'.at = now
<1> DEFINE u == job[p].t
           d == job[p].dest
<1>1. Working(p) 
    BY DEF CreateStep, Build, Push, Record, PruneRows, RemoveStale, NextDestination,
           Return, Fail, Die
<1>2. u \in Tenants /\ d \in Destinations BY <1>1, PlaceOfJob DEF Jobs
<1>3. OwnRows(t) \in Seq(Rows) /\ rows[u][d] \in Seq(Rows)
    BY <1>2 DEF Types, Destinations, OwnRows
<1>4. CASE UNCHANGED rows BY <1>4 DEF OwnRows
<1>5. CASE Record(p)
    <2> DEFINE r == [id |-> job[p].id, at |-> now, place |-> Place(job[p])]
    <2>1. rows' = [rows EXCEPT ![u][d] = Append(rows[u][d], r)]
        BY <1>2, <1>5 DEF Record, Types
    <2>2. r.at = now OBVIOUS
    <2> HIDE DEF r
    <2>3. \/ OwnRows(t)' = OwnRows(t)
          \/ OwnRows(t)' = Append(OwnRows(t), r)
        BY <1>2, <2>1 DEF OwnRows, Types, Destinations
    <2>4. CASE OwnRows(t)' = Append(OwnRows(t), r)
        <3>1. /\ Append(OwnRows(t), r) # <<>>
              /\ Append(OwnRows(t), r)[Len(Append(OwnRows(t), r))] = r
            BY <1>3
        <3> QED BY <2>2, <2>4, <3>1 DEF Last
    <2> QED BY <2>3, <2>4
<1>6. CASE PruneRows(p)
    <2>1. rows' = [rows EXCEPT ![u][d] = Kept(rows[u][d])]
        BY <1>2, <1>6 DEF PruneRows, Types
    <2>2. OwnRows(t)' = OwnRows(t) \/ OwnRows(t)' = Kept(OwnRows(t))
        BY <1>2, <2>1 DEF OwnRows, Types, Destinations
    <2> QED BY <1>3, <2>2, KeptEndsAlike
<1> QED
    BY <1>4, <1>5, <1>6
    DEF CreateStep, Build, Push, RemoveStale, NextDestination, Return, Fail, Die, GivesUp, store

\* Who is served stays served while the sweep's beginning is the same.
LEMMA ServedStays ==
    ASSUME Types, SweepInv, sweep.on, NEW p \in Processes, CreateStep(p),
           sweep'.began = sweep.began, NEW t \in Tenants
    PROVE  /\ Served(t) => Served(t)'
           /\ \/ Served(t)'
              \/ /\ OwnRows(t)' = <<>> <=> OwnRows(t) = <<>>
                 /\ OwnRows(t) # <<>> => Last(OwnRows(t))' = Last(OwnRows(t))
<1>1. sweep.began <= now BY DEF SweepInv
<1>2. now \in Nat /\ sweep.began \in Nat BY DEF Types, SweepInv, Sweeps
<1> QED BY <1>1, <1>2, NewestRow DEF Served

LEMMA SweepInit == Init => SweepInv
BY DEF Init, SweepInv, Asleep, Sweeps, Working, Processes

\* A step of a backup does to the timer's job what this says.
LEMMA TimersJob ==
    ASSUME Types, NEW p \in Processes, CreateStep(p), Working(Timer)'
    PROVE  /\ Working(Timer) /\ job'[Timer].t = job[Timer].t
           /\ \/ Recorded(job'[Timer]) => Recorded(job[Timer])
              \/ p = Timer /\ Record(p) /\ job[p].dest = "operator"
<1>1. Timer \in Processes /\ Idle \notin Jobs BY IdleIsNoJob DEF Processes
<1>2. CASE p # Timer
    BY <1>1, <1>2
    DEF CreateStep, Build, Push, Record, PruneRows, RemoveStale, NextDestination, Return,
        Fail, Die, GivesUp, Goto, Types, Working
<1>3. CASE p = Timer
    <2>1. Working(p) /\ job[p] \in Jobs
        BY <1>1, PlaceOfJob
        DEF CreateStep, Build, Push, Record, PruneRows, RemoveStale, NextDestination,
            Return, Fail, Die
    <2>2. CASE Build(p)
        BY <1>1, <1>3, <2>1, <2>2 DEF Build, Types, Jobs, Recorded
    <2>3. CASE Push(p)
        BY <1>1, <1>3, <2>1, <2>3 DEF Push, Goto, Types, Jobs, Recorded
    <2>4. CASE Record(p)
        BY <1>1, <1>3, <2>1, <2>4 DEF Record, Goto, Types, Jobs, Recorded, Destinations
    <2>5. CASE PruneRows(p)
        BY <1>1, <1>3, <2>1, <2>5 DEF PruneRows, Types, Jobs, Recorded
    <2>6. CASE RemoveStale(p)
        BY <1>1, <1>3, <2>1, <2>6 DEF RemoveStale, Types, Jobs, Recorded
    <2>7. CASE NextDestination(p)
        BY <1>1, <1>3, <2>1, <2>7 DEF NextDestination, Types, Jobs, Recorded
    <2>8. CASE job' = [job EXCEPT ![p] = Idle]
        BY <1>1, <1>3, <2>8 DEF Types, Working
    <2> QED
        BY <2>2, <2>3, <2>4, <2>5, <2>6, <2>7, <2>8 DEF CreateStep, Return, Fail, Die, GivesUp
<1> QED BY <1>2, <1>3

\* Recording the operator's copy serves the tenant.
LEMMA RecordServes ==
    ASSUME Types, SweepInv, sweep.on, UNCHANGED sweep, NEW p \in Processes, Record(p),
           job[p].dest = "operator", NEW t \in Tenants, t = job[p].t
    PROVE  Served(t)'
<1> DEFINE r == [id |-> job[p].id, at |-> now, place |-> Place(job[p])]
<1>1. OwnRows(t) \in Seq(Rows) BY DEF Types, Destinations, OwnRows
<1>2. r.at = now OBVIOUS
<1>3. rows' = [rows EXCEPT ![t]["operator"] = Append(OwnRows(t), r)]
    BY DEF Record, Types, OwnRows
<1> HIDE DEF r
<1>4. OwnRows(t)' = Append(OwnRows(t), r)
    BY <1>3 DEF Types, Destinations, OwnRows
<1>5. Append(OwnRows(t), r) # <<>> /\ Append(OwnRows(t), r)[Len(Append(OwnRows(t), r))] = r
    BY <1>1
<1>6. Last(OwnRows(t)').at = now /\ OwnRows(t)' # <<>>
    BY <1>2, <1>4, <1>5 DEF Last
<1>7. now >= sweep.began BY DEF SweepInv, Types, Sweeps
<1>8. sweep'.began = sweep.began OBVIOUS
<1> QED BY <1>6, <1>7, <1>8 DEF Served

\* A step of a backup, of the sweep's own or of another.
LEMMA BackupInSweep ==
    ASSUME Types, SweepInv, NEW p \in Processes, CreateStep(p)
    PROVE  SweepInv'
<1>0. now' = now /\ failures' \in {failures, failures + 1}
    BY DEF CreateStep, Build, Push, Record, PruneRows, RemoveStale, NextDestination,
           Return, Fail, Die
<1>1. now' = now /\ now \in Nat /\ failures' \in Nat
    BY <1>0 DEF Types, SweepInv
<1>2. \/ UNCHANGED sweep
      \/ p = Timer /\ Return(p) /\ sweep' = AfterTurn(sweep, FALSE)
      \/ p = Timer /\ Fail(p) /\ sweep' = AfterTurn(sweep, TRUE)
      \/ p = Timer /\ Die(p) /\ sweep' = [Asleep EXCEPT !.last = sweep.last]
    BY DEF CreateStep, Build, Push, Record, PruneRows, RemoveStale, NextDestination,
           Return, Fail, Die, SweepGoesOn
<1>3. sweep \in Sweeps BY DEF SweepInv
<1>4. /\ sweep' \in Sweeps
      /\ sweep'.on => /\ sweep.on /\ sweep'.began = sweep.began
                      /\ sweep.failed \subseteq sweep'.failed
    <2>1. ASSUME NEW raised \in BOOLEAN, sweep' = AfterTurn(sweep, raised)
          PROVE  /\ sweep' \in Sweeps
                 /\ sweep'.on => /\ sweep.on /\ sweep'.began = sweep.began
                                 /\ sweep.failed \subseteq sweep'.failed
        <3> DEFINE more == IF raised THEN sweep.failed \cup {sweep.t} ELSE sweep.failed
        <3>1. more \in SUBSET Nat /\ sweep.failed \subseteq more BY <1>3 DEF Sweeps
        <3>2. sweep' = [on |-> sweep.on, t |-> sweep.t + 1, began |-> sweep.began,
                        due |-> sweep.due, failed |-> more, last |-> sweep.last]
            BY <1>3, <2>1 DEF AfterTurn, Sweeps
        <3> HIDE DEF more
        <3>3. sweep' \in Sweeps BY <1>3, <3>1, <3>2 DEF Sweeps
        <3> QED BY <3>1, <3>2, <3>3
    <2>2. CASE sweep' = [Asleep EXCEPT !.last = sweep.last]
        BY <1>3, <2>2 DEF Sweeps, Asleep
    <2> QED BY <1>2, <1>3, <2>1, <2>2
<1>5. ASSUME sweep'.on, NEW t \in Tenants
      PROVE  /\ Served(t) => Served(t)'
             /\ \/ Served(t)'
                \/ /\ OwnRows(t)' = <<>> <=> OwnRows(t) = <<>>
                   /\ OwnRows(t) # <<>> => Last(OwnRows(t))' = Last(OwnRows(t))
    BY <1>4, <1>5, ServedStays
<1>6. CASE UNCHANGED sweep
    <2>1. Working(Timer)' => sweep'.on /\ job'[Timer].t = sweep'.t
        BY <1>6, TimersJob DEF SweepInv
    <2>2. ASSUME Working(Timer)', Recorded(job'[Timer]), NEW t, t = sweep.t
          PROVE  Served(t)'
        <3>1. /\ Working(Timer) /\ sweep.on /\ job[Timer].t = sweep.t
              /\ sweep.t \in Tenants
            BY <2>2, TimersJob, PlaceOfJob DEF SweepInv, Processes, Jobs
        <3>2. CASE Recorded(job[Timer])
            <4>1. Served(t) BY <2>2, <3>1, <3>2 DEF SweepInv
            <4> QED BY <1>5, <1>6, <2>2, <3>1, <4>1
        <3>3. CASE p = Timer /\ Record(p) /\ job[p].dest = "operator"
            BY <1>6, <2>2, <3>1, <3>3, RecordServes
        <3> QED BY <2>2, <3>2, <3>3, TimersJob
    <2>3. ASSUME sweep.on, NEW t \in sweep.due
          PROVE  /\ t < sweep.t => t \in sweep.failed \/ Served(t)'
                 /\ \/ OwnRows(t)' = <<>>
                    \/ sweep.began >= Last(OwnRows(t))'.at + Interval * Day
                    \/ Served(t)'
        <3>1. t \in Tenants BY <1>3 DEF Sweeps
        <3>2. /\ t < sweep.t => t \in sweep.failed \/ Served(t)
              /\ \/ OwnRows(t) = <<>>
                 \/ sweep.began >= Last(OwnRows(t)).at + Interval * Day
                 \/ Served(t)
            BY <2>3 DEF SweepInv
        <3> QED BY <1>5, <1>6, <2>3, <3>1, <3>2
    <2>4. Recorded(job[Timer])' <=> Recorded(job'[Timer]) BY DEF Recorded
    <2> QED BY <1>1, <1>3, <1>6, <2>1, <2>2, <2>3, <2>4 DEF SweepInv
<1>7. CASE p = Timer /\ (Return(p) \/ Fail(p)) /\ ~UNCHANGED sweep
    <2>1. ~Working(Timer)'
        BY <1>7 DEF Return, Fail, GivesUp, Types, Working, Processes
    <2>2. Working(Timer) /\ sweep.on /\ job[Timer].t = sweep.t /\ sweep.t \in Tenants
        BY <1>7, PlaceOfJob DEF SweepInv, Return, Fail, Jobs
    <2>3. /\ sweep'.t = sweep.t + 1 /\ sweep'.due = sweep.due /\ sweep'.on
          /\ sweep'.began = sweep.began
        <3>1. \E raised \in BOOLEAN : sweep' = AfterTurn(sweep, raised)
            BY <1>7, <2>2 DEF Return, Fail, SweepGoesOn
        <3> QED BY <1>3, <2>2, <3>1 DEF AfterTurn, Sweeps
    <2>4. ASSUME NEW t \in Tenants, t = sweep.t
          PROVE  t \in sweep'.failed \/ Served(t)'
        <3>1. CASE Return(p) /\ sweep' = AfterTurn(sweep, FALSE)
            <4>1. Recorded(job[Timer]) BY <1>7, <3>1 DEF Return, Recorded
            <4>2. Served(t) BY <2>2, <2>4, <4>1 DEF SweepInv
            <4> QED BY <1>5, <2>3, <2>4, <4>2
        <3>2. CASE Fail(p) /\ sweep' = AfterTurn(sweep, TRUE)
            BY <1>3, <2>4, <3>2 DEF AfterTurn, Sweeps
        <3> QED BY <1>2, <1>7, <2>3, <3>1, <3>2 DEF Asleep
    <2>5. ASSUME NEW t \in sweep.due
          PROVE  /\ t < sweep.t + 1 => t \in sweep'.failed \/ Served(t)'
                 /\ \/ OwnRows(t)' = <<>>
                    \/ sweep.began >= Last(OwnRows(t))'.at + Interval * Day
                    \/ Served(t)'
        <3>1. t \in Tenants /\ t \in Nat /\ sweep.t \in Nat BY <1>3 DEF Sweeps, Tenants
        <3>2. /\ t < sweep.t => t \in sweep.failed \/ Served(t)
              /\ \/ OwnRows(t) = <<>>
                 \/ sweep.began >= Last(OwnRows(t)).at + Interval * Day
                 \/ Served(t)
            BY <2>2 DEF SweepInv
        <3>3. t < sweep.t + 1 => t < sweep.t \/ t = sweep.t BY <3>1
        <3> QED BY <1>4, <1>5, <2>3, <2>4, <3>1, <3>2, <3>3
    <2>6. sweep'.began <= now' BY <1>1, <2>2, <2>3 DEF SweepInv
    <2> QED BY <1>1, <1>4, <2>1, <2>3, <2>5, <2>6 DEF SweepInv
<1>8. CASE p = Timer /\ Die(p) /\ sweep' = [Asleep EXCEPT !.last = sweep.last]
    <2>1. ~Working(Timer)' BY <1>8 DEF Die, GivesUp, Types, Working, Processes
    <2>2. sweep' \in Sweeps /\ ~sweep'.on BY <1>3, <1>8 DEF Sweeps, Asleep
    <2> QED BY <1>1, <2>1, <2>2 DEF SweepInv
<1> QED BY <1>2, <1>6, <1>7, <1>8

\* No backup moves, and the sweep goes on from where it was, if at all.
LEMMA RowsStay ==
    ASSUME SweepInv, UNCHANGED rows, failures' \in Nat, sweep' \in Sweeps,
           sweep'.on => /\ sweep.on /\ sweep'.began = sweep.began /\ sweep.began <= now'
                        /\ sweep'.due = sweep.due /\ sweep'.failed = sweep.failed
                        /\ \A t \in sweep.due :
                               t < sweep'.t => t < sweep.t \/ Served(t),
           Working(Timer)' =>
               /\ sweep'.on /\ job'[Timer].t = sweep'.t
               /\ Recorded(job'[Timer]) =>
                      Working(Timer) /\ Recorded(job[Timer]) /\ sweep'.t = sweep.t
    PROVE  SweepInv'
<1>1. \A t : OwnRows(t)' = OwnRows(t) /\ Last(OwnRows(t))' = Last(OwnRows(t))
    BY DEF OwnRows
<1>2. sweep'.on => \A t : Served(t) => Served(t)'
    BY <1>1 DEF Served
<1>3. ASSUME Working(Timer)', Recorded(job'[Timer]), NEW t, t = sweep'.t PROVE Served(t)'
    <2>1. Served(t) BY <1>3 DEF SweepInv
    <2> QED BY <1>2, <1>3, <2>1
<1>4. ASSUME sweep'.on, NEW t \in sweep'.due
      PROVE  /\ t < sweep'.t => t \in sweep'.failed \/ Served(t)'
             /\ \/ OwnRows(t)' = <<>>
                \/ sweep'.began >= Last(OwnRows(t))'.at + Interval * Day
                \/ Served(t)'
    BY <1>1, <1>2, <1>4 DEF SweepInv
<1>5. Recorded(job[Timer])' <=> Recorded(job'[Timer]) BY DEF Recorded
<1> QED BY <1>3, <1>4, <1>5 DEF SweepInv

LEMMA SweepStep == Types /\ SweepInv /\ [Next]_vars => SweepInv'
<1> SUFFICES ASSUME Types, SweepInv, [Next]_vars PROVE SweepInv'
    OBVIOUS
<1> USE DEF store
<1>0. Timer \in Processes /\ Timer \notin Clerks BY NameAssumption DEF Processes
<1>1. ASSUME NEW p \in Processes, CreateStep(p) PROVE SweepInv'
    BY <1>1, BackupInSweep
<1>2. CASE UNCHANGED <<rows, sweep, failures>> /\ now' >= now /\ now' \in Nat
           /\ job'[Timer] = job[Timer]
    <2>1. Working(Timer)' <=> Working(Timer) BY <1>2 DEF Working
    <2>2. sweep.on => sweep.began <= now' BY <1>2 DEF SweepInv, Types, Sweeps
    <2> QED BY <1>2, <2>1, <2>2, RowsStay DEF SweepInv
<1>3. ASSUME NEW c \in Clerks, NEW t \in Tenants, Ask(c, t) PROVE SweepInv'
    <2>1. now' >= now /\ now' \in Nat /\ job'[Timer] = job[Timer]
        BY <1>0, <1>3 DEF Ask, Begin, Types, Processes
    <2> QED BY <1>2, <1>3, <2>1 DEF Ask
<1>4. CASE StartSweep
    <2>1. ~Working(Timer)' BY <1>4 DEF StartSweep, MustStart, SweepInv, Working
    <2>2. sweep' \in Sweeps BY <1>4 DEF StartSweep, Sweeps, Types
    <2>3. sweep'.began = now /\ now' = now /\ sweep'.t = 1
        BY <1>4 DEF StartSweep
    <2>4. ASSUME NEW t \in sweep'.due
          PROVE  /\ ~(t < 1)
                 /\ OwnRows(t)' = <<>> \/ sweep'.began >= Last(OwnRows(t))'.at + Interval * Day
        BY <1>4, <2>4 DEF StartSweep, Due, OwnRows, Tenants
    <2> QED BY <1>4, <2>1, <2>2, <2>3, <2>4 DEF SweepInv, StartSweep, Types
<1>5. CASE Turn
    <2>1. CASE Due(sweep.t)
        <3>1. /\ UNCHANGED <<now, rows, sweep, failures>>
              /\ sweep.on /\ job'[Timer].t = sweep.t
              /\ job'[Timer].dest = "operator" /\ job'[Timer].at = "build"
            BY <1>0, <1>5, <2>1 DEF Turn, Begin, Types
        <3>2. ~Recorded(job'[Timer]) BY <3>1 DEF Recorded
        <3> QED BY <3>1, <3>2, RowsStay DEF SweepInv
    <2>2. CASE ~Due(sweep.t)
        <3>1. UNCHANGED <<now, rows, job, failures>> /\ ~Working(Timer) /\ sweep.on
            BY <1>5, <2>2 DEF Turn
        <3>2. sweep' = [sweep EXCEPT !.t = sweep.t + 1] BY <1>5, <2>2 DEF Turn, SweepInv, Sweeps
        <3>3. /\ sweep' \in Sweeps /\ sweep'.t = sweep.t + 1 /\ sweep'.began = sweep.began
              /\ sweep'.due = sweep.due /\ sweep'.failed = sweep.failed /\ sweep'.on
            BY <3>1, <3>2 DEF SweepInv, Sweeps
        <3>5. ~Working(Timer)' BY <3>1 DEF Working
        <3>6. ASSUME NEW t \in sweep.due, t = sweep.t PROVE Served(t)
            <4>1. t \in Tenants BY DEF SweepInv, Sweeps
            <4>2. OwnRows(t) # <<>> /\ ~(now >= Last(OwnRows(t)).at + Interval * Day)
                BY <2>2, <3>6 DEF Due, OwnRows
            <4>3. Last(OwnRows(t)).at \in Nat BY <4>1, <4>2, LastRow
            <4>4. \/ sweep.began >= Last(OwnRows(t)).at + Interval * Day
                  \/ Served(t)
                BY <3>1, <4>2 DEF SweepInv
            <4> DEFINE days == Interval * Day
            <4>5. days \in Nat BY CountAssumption
            <4>6. now \in Nat /\ sweep.began \in Nat /\ sweep.began <= now
                BY <3>1 DEF SweepInv, Sweeps, Types
            <4> HIDE DEF days
            <4>7. ~(now >= Last(OwnRows(t)).at + days) BY <4>2 DEF days
            <4>8. ~(sweep.began >= Last(OwnRows(t)).at + days) BY <4>3, <4>5, <4>6, <4>7
            <4> QED BY <4>4, <4>8 DEF days
        <3>7. ASSUME NEW t \in sweep.due, t < sweep.t + 1
              PROVE  t < sweep.t \/ Served(t)
            <4>1. t \in Nat /\ sweep.t \in Nat BY DEF SweepInv, Sweeps, Tenants
            <4>2. t < sweep.t \/ t = sweep.t BY <3>7, <4>1
            <4> QED BY <3>6, <4>2
        <3> QED BY <3>1, <3>3, <3>5, <3>7, RowsStay DEF SweepInv
    <2> QED BY <2>1, <2>2
<1>6. CASE EndSweep
    <2>1. /\ UNCHANGED <<now, rows, job, failures>> /\ sweep' = [sweep EXCEPT !.on = FALSE]
          /\ sweep.on /\ sweep.t > NumTenants
        BY <1>6 DEF EndSweep
    <2>2. sweep' \in Sweeps /\ ~sweep'.on BY <2>1 DEF SweepInv, Sweeps
    <2>3. ~Working(Timer)
        <3>1. SUFFICES ASSUME Working(Timer) PROVE FALSE OBVIOUS
        <3>2. sweep.t \in Tenants BY <1>0, <3>1, PlaceOfJob DEF SweepInv, Jobs
        <3> QED BY <2>1, <3>2, CountAssumption DEF Tenants
    <2> QED BY <2>1, <2>2, <2>3 DEF SweepInv, Working
<1>7. CASE Tick BY <1>2, <1>7 DEF Tick, Types
<1>8. ASSUME NEW t \in Tenants, NEW h \in Hosts \cup {NoHost}, SetDestination(t, h)
      PROVE  SweepInv'
    BY <1>2, <1>8 DEF SetDestination, Types
<1>9. CASE UNCHANGED vars BY <1>2, <1>9 DEF vars, Types
<1> QED BY <1>1, <1>3, <1>4, <1>5, <1>6, <1>7, <1>8, <1>9 DEF Next

(***************************************************************************)
(* When run_all_due_backups (backup.py:911-935) ends, each tenant that was *)
(* due when it began and whose backup did not raise has a backup since,    *)
(* whatever ran beside it.                                                 *)
(***************************************************************************)
THEOREM DueTenantsAreServed == Spec => SweepServesAll
<1> DEFINE Ends == sweep.on /\ ~sweep'.on /\ failures' = failures
<1>1. ASSUME Types, SweepInv, [Next]_vars, Ends, NEW t \in sweep.due \ sweep'.failed
      PROVE  rows[t]["operator"] # <<>> /\ Last(rows[t]["operator"]).at >= sweep.began
    <2>1. EndSweep
        <3>1. ASSUME NEW p \in Processes PROVE ~CreateStep(p)
            <4>1. SUFFICES ASSUME CreateStep(p) PROVE FALSE OBVIOUS
            <4>2. Die(p)
                BY <1>1, <4>1
                DEF CreateStep, Build, Push, Record, PruneRows, RemoveStale, NextDestination,
                    Return, Fail, SweepGoesOn, AfterTurn, SweepInv, Sweeps
            <4> QED BY <1>1, <4>2 DEF Die, SweepInv
        <3> QED
            BY <1>1, <3>1
            DEF Next, Ask, StartSweep, Turn, Tick, SetDestination, SweepInv, Sweeps, vars
    <2>2. sweep'.failed = sweep.failed /\ sweep.t > NumTenants
        BY <2>1 DEF EndSweep, SweepInv, Sweeps
    <2>3. t \in Tenants /\ sweep.t \in Nat BY <1>1 DEF SweepInv, Sweeps
    <2>4. t < sweep.t BY <2>2, <2>3, CountAssumption DEF Tenants
    <2> QED BY <1>1, <2>2, <2>4 DEF SweepInv, Served, OwnRows
<1>2. Types /\ SweepInv /\ [Next]_vars =>
          [(sweep.on /\ ~sweep'.on /\ failures' = failures) =>
              \A t \in sweep.due \ sweep'.failed :
                  rows[t]["operator"] # <<>> /\ Last(rows[t]["operator"]).at >= sweep.began]_vars
    BY <1>1
<1>3. ListInv => Types BY DEF ListInv
<1> QED
    BY ListInit, ListStep, SweepInit, SweepStep, <1>2, <1>3, PTL DEF Spec, SweepServesAll

-----------------------------------------------------------------------------
\* A file's row is there; its row is about to be; its removal is.
ListedAs(t, h, n) ==
    \E i \in DOMAIN rows[t][KindOf(h)] :
        rows[t][KindOf(h)][i].id = n /\ rows[t][KindOf(h)][i].place = h

Awaited(p, t, h, n) ==
    /\ Working(p) /\ job[p].t = t /\ job[p].at = "record"
    /\ Place(job[p]) = h /\ job[p].id = n

Doomed(p, t, h, n) ==
    /\ Working(p) /\ job[p].t = t
    /\ \E k \in DOMAIN job[p].stale : job[p].stale[k].id = n /\ job[p].stale[k].place = h

Accounted(t, h, n) ==
    \/ <<h, n>> \in strays
    \/ ListedAs(t, h, n)
    \/ \E p \in Processes : Awaited(p, t, h, n) \/ Doomed(p, t, h, n)

\* Every file is accounted for, and a job has nothing to remove before it prunes.
LeakInv ==
    /\ \A p \in Processes : Working(p) /\ job[p].at # "remove" => job[p].stale = <<>>
    /\ \A t \in Tenants, h \in Places : \A f \in remote[t][h] : Accounted(t, h, f.id)

\* A step of a backup is a step of one job, which keeps its tenant.
LEMMA OneJob ==
    ASSUME Types, NEW p \in Processes, CreateStep(p)
    PROVE  /\ Working(p) /\ job[p] \in Jobs
           /\ \A q \in Processes : q # p => job'[q] = job[q] /\ (Working(q)' <=> Working(q))
           /\ Working(p)' => /\ job'[p].t = job[p].t /\ job'[p].own = job[p].own
                             /\ job'[p] \in Jobs
           /\ UNCHANGED <<own, moves>> /\ failures' \in {failures, failures + 1}
<1>1. Working(p) /\ job[p] \in Jobs
    BY PlaceOfJob
    DEF CreateStep, Build, Push, Record, PruneRows, RemoveStale, NextDestination, Return,
        Fail, Die
<1>2. UNCHANGED <<own, moves>> /\ failures' \in {failures, failures + 1}
    BY DEF CreateStep, Build, Push, Record, PruneRows, RemoveStale, NextDestination,
           Return, Fail, Die
<1>3. ASSUME NEW new, job' = [job EXCEPT ![p] = new]
      PROVE  /\ job'[p] = new
             /\ \A q \in Processes : q # p => job'[q] = job[q] /\ (Working(q)' <=> Working(q))
    BY <1>3 DEF Types, Working
<1> DEFINE Goal == /\ \A q \in Processes :
                          q # p => job'[q] = job[q] /\ (Working(q)' <=> Working(q))
                   /\ Working(p)' => /\ job'[p].t = job[p].t /\ job'[p].own = job[p].own
                                     /\ job'[p] \in Jobs
<1>4. ASSUME job' = [job EXCEPT ![p] = Idle] PROVE Goal
    BY <1>3, <1>4 DEF Working
<1>5. ASSUME Build(p) PROVE Goal
    <2> DEFINE n == built + 1
               new == [job[p] EXCEPT !.at = "push", !.id = n]
    <2>1. n \in Nat BY DEF Types
    <2>2. job' = [job EXCEPT ![p] = new] BY <1>1, <1>5 DEF Build, Types
    <2> HIDE DEF n
    <2>3. new \in Jobs /\ new.t = job[p].t /\ new.own = job[p].own
        BY <1>1, <2>1 DEF Jobs, Stages
    <2> HIDE DEF new
    <2> QED BY <1>3, <2>2, <2>3
<1>6. ASSUME NEW s \in Stages, Goto(p, s) PROVE Goal
    <2> DEFINE new == [job[p] EXCEPT !.at = s]
    <2>1. job' = [job EXCEPT ![p] = new] BY <1>1, <1>6 DEF Goto, Types
    <2>2. new \in Jobs /\ new.t = job[p].t /\ new.own = job[p].own
        BY <1>1 DEF Jobs
    <2> HIDE DEF new
    <2> QED BY <1>3, <2>1, <2>2
<1>7. ASSUME PruneRows(p) PROVE Goal
    <2> DEFINE gone == Stale(rows[job[p].t][job[p].dest])
               new == [job[p] EXCEPT !.at = "remove", !.stale = gone]
    <2>1. gone \in Seq(Rows) BY <1>1, CutList DEF Types, Jobs
    <2>2. job' = [job EXCEPT ![p] = new] BY <1>1, <1>7 DEF PruneRows, Types
    <2> HIDE DEF gone
    <2>3. new \in Jobs /\ new.t = job[p].t /\ new.own = job[p].own
        BY <1>1, <2>1 DEF Jobs, Stages
    <2> HIDE DEF new
    <2> QED BY <1>3, <2>2, <2>3
<1>8. ASSUME RemoveStale(p) PROVE Goal
    <2> DEFINE rest == Tail(job[p].stale)
               new == [job[p] EXCEPT !.stale = rest]
    <2>1. rest \in Seq(Rows) BY <1>1, <1>8 DEF RemoveStale, Jobs
    <2>2. job' = [job EXCEPT ![p] = new] BY <1>1, <1>8 DEF RemoveStale, NextStale, Types
    <2> HIDE DEF rest
    <2>3. new \in Jobs /\ new.t = job[p].t /\ new.own = job[p].own
        BY <1>1, <2>1 DEF Jobs
    <2> HIDE DEF new
    <2> QED BY <1>3, <2>2, <2>3
<1>9. ASSUME NextDestination(p) PROVE Goal
    <2> DEFINE new == [job[p] EXCEPT !.at = "push", !.dest = "tenant"]
    <2>1. job' = [job EXCEPT ![p] = new] BY <1>1, <1>9 DEF NextDestination, Types
    <2>2. new \in Jobs /\ new.t = job[p].t /\ new.own = job[p].own
        BY <1>1 DEF Jobs, Stages, Destinations
    <2> HIDE DEF new
    <2> QED BY <1>3, <2>1, <2>2
<1>10. Goal
    BY <1>4, <1>5, <1>6, <1>7, <1>8, <1>9
    DEF CreateStep, Push, Record, Return, Fail, Die, GivesUp, Stages
<1> QED BY <1>1, <1>2, <1>10

LEMMA LeakInit == Init => LeakInv
BY DEF Init, LeakInv, Working, Places

\* Pruning loses no row: each is kept or is stale.
LEMMA CutLosesNone ==
    ASSUME NEW list \in Seq(Rows), NEW i \in DOMAIN list
    PROVE  \/ \E k \in DOMAIN Stale(list) : Stale(list)[k] = list[i]
           \/ \E k \in DOMAIN Kept(list) : Kept(list)[k] = list[i]
<1> DEFINE n == IF Len(list) > Retention THEN Len(list) - Retention ELSE 0
<1>1. n \in Nat /\ n <= Len(list) /\ i \in 1..Len(list) BY CountAssumption
<1>2. Stale(list) = SubSeq(list, 1, n) BY DEF Stale
<1> HIDE DEF n
<1>3. DOMAIN Stale(list) = 1..n /\ Len(Stale(list)) = n
      /\ \A k \in 1..n : Stale(list)[k] = list[k]
    BY <1>1, <1>2
<1>4. /\ DOMAIN Kept(list) = 1..(Len(list) - n)
      /\ \A k \in 1..(Len(list) - n) : Kept(list)[k] = list[n + k]
    BY <1>1, <1>3 DEF Kept
<1>5. CASE i <= n BY <1>1, <1>3, <1>5
<1>6. CASE ~(i <= n)
    <2>1. i - n \in 1..(Len(list) - n) /\ n + (i - n) = i BY <1>1, <1>6
    <2>2. Kept(list)[i - n] = list[i] BY <1>4, <2>1
    <2> QED BY <1>4, <2>1, <2>2
<1> QED BY <1>5, <1>6

\* KindOf tells the operator's place from the tenants'.
LEMMA Kinds ==
    ASSUME NEW h \in Places
    PROVE  /\ KindOf(h) \in Destinations
           /\ KindOf(h) = "operator" <=> h = Operator
           /\ KindOf(h) = "tenant" <=> h \in Hosts
BY Names DEF KindOf, Destinations, Places

\* What was accounted for by anyone but p still is; strays stay.
LEMMA OthersAccount ==
    ASSUME Types, NEW p \in Processes, CreateStep(p), NEW t, NEW h, NEW n,
           Accounted(t, h, n)
    PROVE  ListedAs(t, h, n) \/ Awaited(p, t, h, n) \/ Doomed(p, t, h, n)
           \/ Accounted(t, h, n)'
<1>1. strays \subseteq strays'
    BY DEF CreateStep, Build, Push, Record, PruneRows, RemoveStale, NextDestination,
           Return, Fail, Die, GivesUp
<1>2. CASE <<h, n>> \in strays BY <1>1, <1>2 DEF Accounted
<1>3. ASSUME NEW q \in Processes, q # p, Awaited(q, t, h, n) \/ Doomed(q, t, h, n)
      PROVE  Accounted(t, h, n)'
    <2>1. job'[q] = job[q] /\ (Working(q)' <=> Working(q)) BY <1>3, OneJob
    <2>2. (Awaited(q, t, h, n) \/ Doomed(q, t, h, n))'
        BY <1>3, <2>1 DEF Awaited, Doomed, Place
    <2> QED BY <2>2 DEF Accounted
<1> QED BY <1>2, <1>3 DEF Accounted

\* A push adds one file at most.
LEMMA UploadAdds ==
    ASSUME Types, NEW j \in Jobs, Place(j) \in Places, NEW whole \in BOOLEAN,
           remote' = [remote EXCEPT ![j.t][Place(j)] = Upload(@, j, whole)],
           NEW t \in Tenants, NEW h \in Places, NEW f \in remote'[t][h]
    PROVE  \/ f \in remote[t][h]
           \/ t = j.t /\ h = Place(j) /\ f.id = j.id
<1> DEFINE g == Place(j)
           u == j.t
           files == Upload(remote[u][g], j, whole)
<1>1. g \in Places /\ u \in Tenants BY DEF Jobs
<1>2. remote' = [remote EXCEPT ![u][g] = files] BY <1>1 DEF Types
<1>3. files = {k \in remote[u][g] : k.id # j.id} \cup {Copy(j.id, whole)} BY DEF Upload
<1>4. Copy(j.id, whole).id = j.id BY DEF Copy
<1> HIDE DEF g, u, files
<1>5. remote'[t][h] = IF t = u /\ h = g THEN files ELSE remote[t][h]
    BY <1>1, <1>2 DEF Types
<1>6. f \in remote[t][h] \/ (t = u /\ h = g /\ f.id = j.id)
    BY <1>3, <1>4, <1>5
<1> QED BY <1>6 DEF u, g

\* A step of a backup leaves every file accounted for.
LEMMA AccountStep ==
    ASSUME Types, Types', LeakInv, NEW p \in Processes, CreateStep(p),
           NEW t \in Tenants, NEW h \in Places, NEW f \in remote'[t][h]
    PROVE  Accounted(t, h, f.id)'
<1> DEFINE n == f.id
           j == job[p]
           d == KindOf(h)
           AsBefore == f \in remote[t][h] /\ UNCHANGED rows
                          /\ ~Awaited(p, t, h, n) /\ ~Doomed(p, t, h, n)
<1>1. /\ Working(p) /\ j \in Jobs /\ d \in Destinations /\ j.t \in Tenants
      /\ j.dest \in Destinations /\ Place(j) \in Places
    BY OneJob, Kinds, PlaceOfJob DEF Jobs
<1>3. ASSUME f \in remote[t][h]
      PROVE  ListedAs(t, h, n) \/ Awaited(p, t, h, n) \/ Doomed(p, t, h, n)
             \/ Accounted(t, h, n)'
    <2>1. Accounted(t, h, n) BY <1>3 DEF LeakInv
    <2> QED BY <2>1, OthersAccount
<1>4. rows[t][d] \in Seq(Rows) /\ rows[j.t][j.dest] \in Seq(Rows) BY <1>1 DEF Types
<1>5. j.at # "remove" => j.stale = <<>> BY <1>1 DEF LeakInv
<1>6. j.stale = <<>> => ~Doomed(p, t, h, n) BY DEF Doomed
<1>7. CASE AsBefore
    <2>1. ListedAs(t, h, n) => ListedAs(t, h, n)' BY <1>7 DEF ListedAs
    <2> QED BY <1>3, <1>7, <2>1 DEF Accounted
<1>8. CASE Build(p)
    <2>1. f \in remote[t][h] /\ UNCHANGED rows BY <1>8 DEF Build, store
    <2> QED BY <1>5, <1>6, <1>7, <1>8, <2>1 DEF Build, Awaited
<1>9. CASE Push(p)
    <2>1. /\ j.at = "push" /\ UNCHANGED rows
          /\ remote' = [remote EXCEPT ![j.t][Place(j)] = Upload(@, j, TRUE)]
          /\ job' = [job EXCEPT ![p] = [j EXCEPT !.at = "record"]]
        BY <1>1, <1>9 DEF Push, Goto, Types
    <2>2. f \in remote[t][h] \/ (t = j.t /\ h = Place(j) /\ n = j.id)
        <3>1. j \in Jobs /\ Place(j) \in Places BY <1>1
        <3>2. remote' = [remote EXCEPT ![j.t][Place(j)] = Upload(@, j, TRUE)] BY <2>1
        <3> HIDE DEF j
        <3> QED BY <3>1, <3>2, UploadAdds
    <2>3. CASE f \in remote[t][h]
        BY <1>5, <1>6, <1>7, <2>1, <2>3 DEF Awaited
    <2>4. CASE t = j.t /\ h = Place(j) /\ n = j.id
        <3>2. /\ job'[p].t = t /\ job'[p].at = "record" /\ job'[p].id = n
              /\ job'[p].dest = j.dest /\ job'[p].own = j.own
            BY <1>1, <2>1, <2>4 DEF Types, Jobs
        <3>3. Place(job'[p]) = h BY <2>4, <3>2 DEF Place
        <3>4. Working(p)' BY <3>2 DEF Working, Idle
        <3> QED BY <3>2, <3>3, <3>4 DEF Accounted, Awaited, Place
    <2> QED BY <2>2, <2>3, <2>4
<1>10. CASE Record(p)
    <2> DEFINE r == [id |-> j.id, at |-> now, place |-> Place(j)]
    <2>1. /\ f \in remote[t][h] /\ j.at = "record"
          /\ rows' = [rows EXCEPT ![j.t][j.dest] = Append(rows[j.t][j.dest], r)]
        BY <1>1, <1>10 DEF Record, Types
    <2>2. r.id = j.id /\ r.place = Place(j) OBVIOUS
    <2> HIDE DEF r, j
    <2>3. ~Doomed(p, t, h, n) BY <1>5, <1>6, <2>1
    <2>4. CASE ListedAs(t, h, n)
        <3>1. PICK i \in DOMAIN rows[t][d] : rows[t][d][i].id = n /\ rows[t][d][i].place = h
            BY <2>4 DEF ListedAs
        <3>2. i \in DOMAIN rows'[t][d] /\ rows'[t][d][i] = rows[t][d][i]
            BY <1>1, <1>4, <2>1 DEF Types
        <3>3. ListedAs(t, h, n)' BY <3>1, <3>2 DEF ListedAs
        <3> QED BY <3>3 DEF Accounted
    <2>5. CASE Awaited(p, t, h, n)
        <3>1. t = j.t /\ h = Place(j) /\ n = j.id BY <2>5 DEF Awaited, j
        <3>2. d = j.dest
            BY <1>1, <3>1, PlaceOfJob, Kinds DEF j, Destinations
        <3> DEFINE list == Append(rows[t][d], r)
        <3>3. rows'[t][d] = list
            BY <1>1, <2>1, <3>1, <3>2 DEF Types
        <3>4. Len(list) \in DOMAIN list /\ list[Len(list)] = r BY <1>4
        <3> HIDE DEF list
        <3>5. ListedAs(t, h, n)' BY <2>2, <3>1, <3>3, <3>4 DEF ListedAs
        <3> QED BY <3>5 DEF Accounted
    <2> QED BY <1>3, <2>1, <2>3, <2>4, <2>5
<1>11. CASE PruneRows(p)
    <2> DEFINE list == rows[j.t][j.dest]
    <2>1. /\ f \in remote[t][h] /\ j.at = "prune"
          /\ rows' = [rows EXCEPT ![j.t][j.dest] = Kept(list)]
          /\ job' = [job EXCEPT ![p] = [j EXCEPT !.at = "remove", !.stale = Stale(list)]]
        BY ZenonT(40), <1>1, <1>11 DEF PruneRows, Types
    <2>2. ~Doomed(p, t, h, n) /\ ~Awaited(p, t, h, n)
        BY <1>5, <1>6, <2>1 DEF Awaited
    <2>3. CASE ListedAs(t, h, n) /\ t = j.t /\ d = j.dest
        <3>1. PICK i \in DOMAIN list : list[i].id = n /\ list[i].place = h
            BY <2>3 DEF ListedAs
        <3>2. rows'[t][d] = Kept(list) BY ZenonT(40), <1>1, <2>1, <2>3 DEF Types
        <3>3. /\ job'[p].t = t /\ job'[p].dest = d /\ job'[p].stale = Stale(list)
              /\ job'[p].at = "remove"
            BY <1>1, <2>1, <2>3 DEF Types, Jobs
        <3>4. Working(p)' BY <3>3 DEF Working, Idle
        <3>5. CASE \E k \in DOMAIN Stale(list) : Stale(list)[k] = list[i]
            <4>1. Doomed(p, t, h, n)' BY <3>1, <3>3, <3>4, <3>5 DEF Doomed
            <4> QED BY <4>1 DEF Accounted
        <3>6. CASE \E k \in DOMAIN Kept(list) : Kept(list)[k] = list[i]
            <4>1. ListedAs(t, h, n)' BY <3>1, <3>2, <3>6 DEF ListedAs
            <4> QED BY <4>1 DEF Accounted
        <3> QED BY <1>4, <3>1, <3>5, <3>6, CutLosesNone
    <2>4. CASE ListedAs(t, h, n) /\ ~(t = j.t /\ d = j.dest)
        <3> DEFINE u == j.t
                   e == j.dest
                   kept == Kept(list)
        <3>1. rows' = [rows EXCEPT ![u][e] = kept] BY <2>1
        <3>2. u \in Tenants /\ e \in Destinations /\ ~(t = u /\ d = e) BY <1>1, <2>4
        <3> HIDE DEF u, e, kept
        <3>3. rows'[t][d] = rows[t][d] BY <1>1, <3>1, <3>2 DEF Types
        <3>4. ListedAs(t, h, n)' BY <2>4, <3>3 DEF ListedAs
        <3> QED BY <3>4 DEF Accounted
    <2> QED BY <1>3, <2>1, <2>2, <2>3, <2>4
<1>12. CASE RemoveStale(p)
    <2> DEFINE old == j.stale
               row == Head(old)
    <2>1. /\ j.at = "remove" /\ old # <<>> /\ UNCHANGED rows
          /\ job' = [job EXCEPT ![p] = [j EXCEPT !.stale = Tail(old)]]
        BY <1>1, <1>12 DEF RemoveStale, NextStale, Types
    <2>2. f \in remote[t][h]
        <3> DEFINE u == j.t
                   g == Place(j)
                   files == {k \in remote[u][g] : k.id # row.id}
        <3>1. u \in Tenants /\ g \in Places BY <1>1
        <3>2. UNCHANGED remote \/ remote' = [remote EXCEPT ![u][g] = files]
            BY <1>12, <3>1 DEF RemoveStale, Types
        <3>3. files \subseteq remote[u][g] OBVIOUS
        <3> HIDE DEF u, g, files
        <3>4. CASE UNCHANGED remote BY <3>4
        <3>5. CASE remote' = [remote EXCEPT ![u][g] = files]
            <4>1. remote'[t][h] = IF t = u /\ h = g THEN files ELSE remote[t][h]
                BY <3>1, <3>5 DEF Types
            <4> QED BY <3>3, <4>1
        <3> QED BY <3>2, <3>4, <3>5
    <2>3. ~Awaited(p, t, h, n) BY <2>1 DEF Awaited
    <2>4. ListedAs(t, h, n) => ListedAs(t, h, n)' BY <2>1 DEF ListedAs
    <2>5. CASE Doomed(p, t, h, n)
        <3>1. t = j.t /\ old \in Seq(Rows) BY <1>1, <2>5 DEF Doomed, Jobs
        <3>2. PICK k \in DOMAIN old : old[k].id = n /\ old[k].place = h BY <2>5 DEF Doomed
        <3>3. CASE k = 1
            <4>1. row.id = n /\ row.place = h BY <2>1, <3>1, <3>2, <3>3
            <4>2. FileOf(row) = <<h, n>> BY <4>1 DEF FileOf
            <4>3. \/ strays' = strays \cup {FileOf(row)}
                  \/ /\ remote' = [remote EXCEPT ![j.t][Place(j)] = {g \in @ : g.id # row.id}]
                     /\ row.place = Place(j)
                BY <1>12 DEF RemoveStale
            <4>4. ~(remote' = [remote EXCEPT ![j.t][Place(j)] = {g \in @ : g.id # row.id}]
                    /\ row.place = Place(j))
                <5> SUFFICES ASSUME remote' = [remote EXCEPT ![t][h] =
                                                  {g \in remote[t][h] : g.id # n}]
                             PROVE  FALSE
                    BY <1>1, <3>1, <4>1 DEF Types
                <5>1. remote'[t][h] = {g \in remote[t][h] : g.id # n} BY DEF Types
                <5> QED BY <5>1
            <4>5. <<h, n>> \in strays' BY <4>2, <4>3, <4>4
            <4> QED BY <4>5 DEF Accounted
        <3>4. CASE k # 1
            <4>1. k - 1 \in DOMAIN Tail(old) /\ Tail(old)[k - 1] = old[k]
                BY <2>1, <3>1, <3>2, <3>4
            <4>2. /\ job'[p].t = t /\ job'[p].stale = Tail(old) /\ job'[p].at = "remove"
                BY <1>1, <2>1, <3>1 DEF Types, Jobs
            <4>3. Working(p)' BY <4>2 DEF Working, Idle
            <4>4. Doomed(p, t, h, n)' BY <3>2, <4>1, <4>2, <4>3 DEF Doomed
            <4> QED BY <4>4 DEF Accounted
        <3> QED BY <3>3, <3>4
    <2> QED BY <1>3, <2>2, <2>3, <2>4, <2>5 DEF Accounted
<1>13. CASE NextDestination(p)
    <2>1. f \in remote[t][h] /\ UNCHANGED rows BY <1>13 DEF NextDestination, store
    <2> QED BY <1>6, <1>7, <1>13, <2>1 DEF NextDestination, Awaited
<1>14. CASE Return(p)
    <2>1. f \in remote[t][h] /\ UNCHANGED rows BY <1>14 DEF Return, store
    <2> QED BY <1>6, <1>7, <1>14, <2>1 DEF Return, Awaited
<1>15. CASE Fail(p) \/ Die(p)
    <2>1. GivesUp(p) /\ UNCHANGED rows BY <1>15 DEF Fail, Die
    <2>2. f \in remote[t][h] \/ (j.at = "push" /\ h = Place(j) /\ n = j.id)
        BY <1>1, <2>1, UploadAdds DEF GivesUp
    <2>3. j.at \in {"push", "record"} => <<Place(j), j.id>> \in strays'
        BY <2>1 DEF GivesUp
    <2>4. CASE j.at = "push" /\ h = Place(j) /\ n = j.id BY <2>3, <2>4 DEF Accounted
    <2>5. CASE Awaited(p, t, h, n) BY <2>3, <2>5 DEF Awaited, Accounted
    <2>6. CASE Doomed(p, t, h, n)
        <3>1. PICK k \in DOMAIN j.stale : j.stale[k].id = n /\ j.stale[k].place = h
            BY <2>6 DEF Doomed
        <3>2. j.stale[k] \in ToSet(j.stale) BY <3>1 DEF ToSet
        <3>3. FileOf(j.stale[k]) = <<h, n>> BY <3>1 DEF FileOf
        <3>4. <<h, n>> \in strays' BY <2>1, <3>2, <3>3 DEF GivesUp
        <3> QED BY <3>4 DEF Accounted
    <2>7. ListedAs(t, h, n) => ListedAs(t, h, n)' BY <2>1 DEF ListedAs
    <2> QED BY <1>3, <2>2, <2>4, <2>5, <2>6, <2>7 DEF Accounted
<1> QED BY <1>8, <1>9, <1>10, <1>11, <1>12, <1>13, <1>14, <1>15 DEF CreateStep

\* LeakInv, after a step of a backup.
LEMMA LeakBackup ==
    ASSUME Types, Types', LeakInv, NEW p \in Processes, CreateStep(p)
    PROVE  LeakInv'
<1> DEFINE j == job[p]
<1>1. /\ Working(p) /\ j \in Jobs
      /\ \A q \in Processes : q # p => job'[q] = job[q] /\ (Working(q)' <=> Working(q))
    BY OneJob
<1>2. Working(p)' /\ job'[p].at # "remove" => job'[p].stale = <<>>
    <2>1. j.at # "remove" => j.stale = <<>> BY <1>1 DEF LeakInv
    <2>2. CASE Build(p) BY <1>1, <2>1, <2>2 DEF Build, Types, Jobs
    <2>3. CASE Push(p) BY <1>1, <2>1, <2>3 DEF Push, Goto, Types, Jobs
    <2>4. CASE Record(p) BY SMTT(30), <1>1, <2>1, <2>4 DEF Record, Goto, Types, Jobs
    <2>5. CASE PruneRows(p) BY ZenonT(40), <1>1, <2>5 DEF PruneRows, Types, Jobs
    <2>6. CASE RemoveStale(p) BY <1>1, <2>6 DEF RemoveStale, Types, Jobs
    <2>7. CASE NextDestination(p) BY <1>1, <2>7 DEF NextDestination, Types, Jobs
    <2>8. CASE job' = [job EXCEPT ![p] = Idle] BY <1>1, <2>8 DEF Types, Working
    <2> QED BY <2>2, <2>3, <2>4, <2>5, <2>6, <2>7, <2>8 DEF CreateStep, Return, Fail, Die, GivesUp
<1>3. \A q \in Processes : Working(q)' /\ job'[q].at # "remove" => job'[q].stale = <<>>
    BY <1>1, <1>2 DEF LeakInv
<1>4. \A t \in Tenants, h \in Places : \A f \in remote'[t][h] : Accounted(t, h, f.id)'
    BY AccountStep
<1> QED BY <1>3, <1>4 DEF LeakInv

LEMMA LeakStep == ListInv /\ LeakInv /\ [Next]_vars => LeakInv'
<1> SUFFICES ASSUME ListInv, LeakInv, [Next]_vars PROVE LeakInv'
    OBVIOUS
<1> USE DEF store
<1>1. Types /\ Types' BY ListStep DEF ListInv
<1>2. ASSUME NEW p \in Processes, CreateStep(p) PROVE LeakInv'
    BY <1>1, <1>2, LeakBackup
<1>3. ASSUME NEW p \in Processes, NEW t \in Tenants, ~Working(p), Begin(p, t),
             UNCHANGED <<store, strays>>
      PROVE  LeakInv'
    <2> DEFINE new == [at |-> "build", t |-> t, own |-> own[t], dest |-> "operator",
                       id |-> 0, stale |-> <<>>]
    <2>1. job' = [job EXCEPT ![p] = new] BY <1>3 DEF Begin
    <2>2. new.at = "build" /\ new.stale = <<>> OBVIOUS
    <2> HIDE DEF new
    <2>3. \A q \in Processes : Working(q)' => \/ q = p /\ job'[q] = new
                                              \/ q # p /\ Working(q) /\ job'[q] = job[q]
        BY <1>1, <2>1 DEF Working, Types
    <2>4. \A q \in Processes : Working(q) => q # p /\ job'[q] = job[q] /\ Working(q)'
        BY <1>1, <1>3, <2>1 DEF Working, Types
    <2>5. ASSUME NEW u, NEW h, NEW n, Accounted(u, h, n) PROVE Accounted(u, h, n)'
        <3>1. ListedAs(u, h, n) => ListedAs(u, h, n)' BY <1>3 DEF ListedAs
        <3>2. \A q \in Processes : /\ Awaited(q, u, h, n) => Awaited(q, u, h, n)'
                                   /\ Doomed(q, u, h, n) => Doomed(q, u, h, n)'
            BY <2>4 DEF Awaited, Doomed, Place
        <3> QED BY <1>3, <2>5, <3>1, <3>2 DEF Accounted
    <2>6. \A q \in Processes : Working(q)' /\ job'[q].at # "remove" => job'[q].stale = <<>>
        BY <2>2, <2>3 DEF LeakInv
    <2> QED BY <1>3, <2>5, <2>6 DEF LeakInv
<1>4. CASE UNCHANGED <<rows, remote, job, strays>>
    <2>1. \A t, h, n : Accounted(t, h, n) => Accounted(t, h, n)'
        BY <1>4 DEF Accounted, ListedAs, Awaited, Doomed, Working, Place
    <2>2. \A p \in Processes : Working(p)' <=> Working(p)
        BY <1>4 DEF Working
    <2> QED BY <1>4, <2>1, <2>2 DEF LeakInv
<1>5. ASSUME NEW c \in Clerks, NEW t \in Tenants, Ask(c, t) PROVE LeakInv'
    BY <1>3, <1>5 DEF Ask, Processes
<1>6. CASE Turn
    <2>1. CASE Due(sweep.t) BY <1>3, <1>6, <2>1 DEF Turn, Processes
    <2>2. CASE ~Due(sweep.t) BY <1>4, <1>6, <2>2 DEF Turn
    <2> QED BY <2>1, <2>2
<1>7. ASSUME NEW t \in Tenants, NEW h \in Hosts \cup {NoHost}, SetDestination(t, h)
      PROVE  LeakInv'
    BY <1>4, <1>7 DEF SetDestination
<1>8. CASE StartSweep \/ EndSweep \/ Tick \/ UNCHANGED vars
    BY <1>4, <1>8 DEF StartSweep, EndSweep, Tick, vars
<1> QED BY <1>2, <1>5, <1>6, <1>7, <1>8 DEF Next

(***************************************************************************)
(* prune_old_backups (backup.py:683-707) leaves nothing behind: of a tenant *)
(* nobody backs up every file is listed, but those a failed, killed or     *)
(* misdirected call gave up, however backups overlapped.                   *)
(***************************************************************************)
THEOREM PruningLeaksNothing == Spec => []NothingLeaks
<1>1. LeakInv => NothingLeaks
    <2> SUFFICES ASSUME LeakInv, NEW t \in Tenants,
                        \A p \in Processes : Working(p) => job[p].t # t,
                        NEW h \in Places, NEW f \in remote[t][h], <<h, f.id>> \notin strays
                 PROVE  \E row \in ToSet(rows[t][KindOf(h)]) : FileOf(row) = <<h, f.id>>
        BY DEF NothingLeaks
    <2> DEFINE list == rows[t][KindOf(h)]
    <2>1. Accounted(t, h, f.id) BY DEF LeakInv
    <2>2. ListedAs(t, h, f.id) BY <2>1 DEF Accounted, Awaited, Doomed
    <2>3. PICK i \in DOMAIN list : list[i].id = f.id /\ list[i].place = h
        BY <2>2 DEF ListedAs
    <2>4. FileOf(list[i]) = <<h, f.id>> BY <2>3 DEF FileOf
    <2>5. list[i] \in ToSet(list) BY <2>3 DEF ToSet
    <2> QED BY <2>4, <2>5
<1> QED BY ListInit, ListStep, LeakInit, LeakStep, <1>1, PTL DEF Spec

-----------------------------------------------------------------------------
(* Of a tenant whose backups never overlapped, the rows are in the order of *)
(* their snapshots, what is pending is newer than they are, and what is     *)
(* stale older than as many as are to be kept.                              *)

OneEach ==
    \A p, q \in Processes :
        Working(p) /\ Working(q) /\ p # q /\ job[p].t = job[q].t =>
            job[p].t \in overlapped

InOrder ==
    \A t \in Tenants \ overlapped, d \in Destinations : \A i, j \in DOMAIN rows[t][d] :
        i < j => rows[t][d][i].id < rows[t][d][j].id

PendingIsNewest ==
    \A p \in Processes, d \in Destinations :
        Pending(p, d) /\ job[p].t \notin overlapped =>
            \A i \in DOMAIN rows[job[p].t][d] : rows[job[p].t][d][i].id < job[p].id

StaleIsOldest ==
    \A p \in Processes :
        Working(p) /\ job[p].t \notin overlapped =>
            \A k \in DOMAIN job[p].stale :
                /\ Len(rows[job[p].t][job[p].dest]) >= Retention
                /\ \A i \in DOMAIN rows[job[p].t][job[p].dest] :
                       job[p].stale[k].id < rows[job[p].t][job[p].dest][i].id

FilesAreOld ==
    \A t \in Tenants, h \in Places : \A f \in remote[t][h] : f.id <= built

\* Where a push is to come, there is no file of its name.
Unpushed ==
    \A p \in Processes : Ready(p) =>
        /\ job[p].at = "push" =>
               \A f \in remote[job[p].t][Place(job[p])] : f.id # job[p].id
        /\ job[p].dest = "operator" =>
               \A h \in Hosts : \A f \in remote[job[p].t][h] : f.id # job[p].id

KeepInv ==
    /\ OneEach /\ InOrder /\ PendingIsNewest /\ StaleIsOldest
    /\ FilesAreOld /\ Unpushed

LEMMA KeepInit == Init => KeepInv
BY DEF Init, KeepInv, OneEach, InOrder, PendingIsNewest, StaleIsOldest, FilesAreOld,
       Unpushed, Working, Ready, Pending

\* The rows after a step of a backup.
LEMMA RowsAfter ==
    ASSUME Types, NEW p \in Processes, CreateStep(p)
    PROVE  \/ UNCHANGED rows
           \/ /\ Record(p)
              /\ \A t \in Tenants, d \in Destinations :
                     /\ ~(t = job[p].t /\ d = job[p].dest) => rows'[t][d] = rows[t][d]
                     /\ \A i \in DOMAIN rows'[t][d] :
                            \/ i \in DOMAIN rows[t][d] /\ rows'[t][d][i] = rows[t][d][i]
                            \/ /\ t = job[p].t /\ d = job[p].dest
                               /\ i = Len(rows[t][d]) + 1 /\ rows'[t][d][i].id = job[p].id
           \/ /\ PruneRows(p)
              /\ \A t \in Tenants, d \in Destinations :
                     rows'[t][d] = IF t = job[p].t /\ d = job[p].dest
                                   THEN Kept(rows[t][d]) ELSE rows[t][d]
<1>1. Working(p) /\ job[p] \in Jobs BY OneJob
<1>2. UNCHANGED rows \/ Record(p) \/ PruneRows(p)
    BY DEF CreateStep, Build, Push, RemoveStale, NextDestination, Return, Fail, Die, GivesUp, store
<1> DEFINE u == job[p].t
           e == job[p].dest
           l == rows[u][e]
<1>3. u \in Tenants /\ e \in Destinations BY <1>1 DEF Jobs
<1>4. l \in Seq(Rows) BY <1>3 DEF Types
<1>5. CASE PruneRows(p)
    <2>1. rows' = [rows EXCEPT ![u][e] = Kept(l)] BY <1>3, <1>5 DEF PruneRows, Types
    <2> QED BY <1>3, <1>5, <2>1 DEF Types
<1>6. CASE Record(p)
    <2> DEFINE r == [id |-> job[p].id, at |-> now, place |-> Place(job[p])]
               l2 == Append(l, r)
    <2>1. rows' = [rows EXCEPT ![u][e] = l2] BY <1>3, <1>6 DEF Record, Types
    <2>2. r.id = job[p].id OBVIOUS
    <2> HIDE DEF r
    <2>3. \A i \in DOMAIN l2 : \/ i \in DOMAIN l /\ l2[i] = l[i]
                               \/ i = Len(l) + 1 /\ l2[i] = r
        BY <1>4
    <2> HIDE DEF l2
    <2>4. \A t \in Tenants, d \in Destinations :
              rows'[t][d] = IF t = u /\ d = e THEN l2 ELSE rows[t][d]
        BY <1>3, <2>1 DEF Types
    <2>5. \A t \in Tenants, d \in Destinations : \A i \in DOMAIN rows'[t][d] :
              \/ i \in DOMAIN rows[t][d] /\ rows'[t][d][i] = rows[t][d][i]
              \/ /\ t = u /\ d = e
                 /\ i = Len(rows[t][d]) + 1 /\ rows'[t][d][i].id = job[p].id
        BY <2>2, <2>3, <2>4
    <2> QED BY <1>6, <2>4, <2>5
<1> QED BY <1>2, <1>5, <1>6

\* What a step of a backup puts and takes away.
LEMMA FilesAfter ==
    ASSUME Types, NEW p \in Processes, CreateStep(p), NEW t \in Tenants, NEW h \in Places
    PROVE  /\ \A f \in remote'[t][h] \ remote[t][h] :
                  /\ t = job[p].t /\ h = Place(job[p]) /\ job[p].at = "push"
                  /\ f.id = job[p].id
           /\ \A f \in remote[t][h] \ remote'[t][h] :
                  /\ t = job[p].t /\ h = Place(job[p])
                  /\ \/ job[p].at = "push" /\ f.id = job[p].id
                     \/ /\ RemoveStale(p) /\ job[p].stale # <<>>
                        /\ f.id = Head(job[p].stale).id
<1>1. Working(p) /\ job[p] \in Jobs BY OneJob
<1> DEFINE u == job[p].t
           g == Place(job[p])
<1>2. u \in Tenants /\ g \in Places BY <1>1, PlaceOfJob DEF Jobs
<1>3. CASE UNCHANGED remote BY <1>3
<1>4. ASSUME NEW files, remote' = [remote EXCEPT ![u][g] = files]
      PROVE  remote'[t][h] = IF t = u /\ h = g THEN files ELSE remote[t][h]
    BY <1>2, <1>4 DEF Types
<1>5. ASSUME NEW whole \in BOOLEAN, job[p].at = "push",
             remote' = [remote EXCEPT ![u][g] = Upload(remote[u][g], job[p], whole)]
      PROVE  /\ \A f \in remote'[t][h] \ remote[t][h] :
                    t = u /\ h = g /\ job[p].at = "push" /\ f.id = job[p].id
             /\ \A f \in remote[t][h] \ remote'[t][h] :
                    t = u /\ h = g /\ job[p].at = "push" /\ f.id = job[p].id
    <2> DEFINE files == Upload(remote[u][g], job[p], whole)
    <2>1. remote' = [remote EXCEPT ![u][g] = files] BY <1>5
    <2>2. files = {f \in remote[u][g] : f.id # job[p].id} \cup {Copy(job[p].id, whole)}
        BY DEF Upload
    <2>3. Copy(job[p].id, whole).id = job[p].id BY DEF Copy
    <2> HIDE DEF files
    <2>4. remote'[t][h] = IF t = u /\ h = g THEN files ELSE remote[t][h] BY <1>4, <2>1
    <2> QED BY <1>5, <2>2, <2>3, <2>4
<1>6. CASE Push(p) BY <1>2, <1>5, <1>6 DEF Push, Types
<1>7. CASE (Fail(p) \/ Die(p)) /\ ~UNCHANGED remote
    BY <1>2, <1>5, <1>7 DEF Fail, Die, GivesUp, Types
<1>8. CASE RemoveStale(p) /\ ~UNCHANGED remote
    <2> DEFINE x == Head(job[p].stale).id
               files == {f \in remote[u][g] : f.id # x}
    <2>1. remote' = [remote EXCEPT ![u][g] = files] /\ job[p].stale # <<>>
        BY <1>2, <1>8 DEF RemoveStale, Types
    <2> HIDE DEF x
    <2>2. \A f \in remote[u][g] : f.id # x => f \in files OBVIOUS
    <2>3. files \subseteq remote[u][g] OBVIOUS
    <2> HIDE DEF files
    <2>4. remote'[t][h] = IF t = u /\ h = g THEN files ELSE remote[t][h] BY <1>4, <2>1
    <2> QED BY <1>8, <2>1, <2>2, <2>3, <2>4 DEF x
<1> QED
    BY <1>3, <1>6, <1>7, <1>8
    DEF CreateStep, Build, Record, PruneRows, NextDestination, Return, store

\* What a step of a backup that goes on does to its job.
LEMMA FieldsAfter ==
    ASSUME Types, NEW p \in Processes, CreateStep(p), Working(p)'
    PROVE  \/ /\ Build(p) /\ job[p].at = "build" /\ job'[p].at = "push"
              /\ job'[p].dest = job[p].dest /\ job'[p].stale = job[p].stale
           \/ /\ Push(p) \/ Record(p)
              /\ job[p].at \in {"push", "record"} /\ job'[p].at \in {"record", "prune"}
              /\ job'[p].dest = job[p].dest /\ job'[p].stale = job[p].stale
           \/ /\ PruneRows(p) \/ RemoveStale(p)
              /\ job'[p].at = "remove" /\ job'[p].dest = job[p].dest
           \/ /\ NextDestination(p) /\ job[p].dest = "operator" /\ job'[p].at = "push"
              /\ job'[p].dest = "tenant" /\ job'[p].stale = <<>>
<1>1. job[p] \in Jobs BY OneJob
<1>2. CASE Build(p) BY <1>1, <1>2 DEF Build, Types, Jobs
<1>3. CASE Push(p) BY <1>1, <1>3 DEF Push, Goto, Types, Jobs
<1>4. CASE Record(p) BY <1>1, <1>4 DEF Record, Goto, Types, Jobs
<1>5. CASE PruneRows(p) BY <1>1, <1>5 DEF PruneRows, Types, Jobs
<1>6. CASE RemoveStale(p) BY <1>1, <1>6 DEF RemoveStale, Types, Jobs
<1>7. CASE NextDestination(p) BY <1>1, <1>7 DEF NextDestination, Types, Jobs
<1>8. CASE Return(p) \/ Fail(p) \/ Die(p)
    BY <1>8 DEF Return, Fail, Die, GivesUp, Types, Working
<1> QED BY <1>2, <1>3, <1>4, <1>5, <1>6, <1>7, <1>8 DEF CreateStep

\* What is pending after a step was pending before, but for a new snapshot.
LEMMA PendingAfter ==
    ASSUME Types, NEW p \in Processes, CreateStep(p)
    PROVE  /\ built' \in {built, built + 1} /\ overlapped' = overlapped
           /\ \A q \in Processes : Working(q)' => Working(q) /\ job'[q].t = job[q].t
           /\ Build(p) \/ \A q \in Processes :
                  /\ Ready(q)' => Ready(q) /\ job'[q].id = job[q].id
                  /\ \A d \in Destinations : Pending(q, d)' => Pending(q, d)
<1>1. /\ Working(p) /\ job[p] \in Jobs
      /\ \A q \in Processes : q # p => job'[q] = job[q] /\ (Working(q)' <=> Working(q))
      /\ Working(p)' => job'[p].t = job[p].t
    BY OneJob
<1>2. built' \in {built, built + 1} /\ overlapped' = overlapped
    BY DEF CreateStep, Build, Push, Record, PruneRows, RemoveStale, NextDestination, Return,
           Fail, Die
<1> DEFINE Goal == /\ Ready(p)' => Ready(p) /\ job'[p].id = job[p].id
                   /\ \A d \in Destinations : Pending(p, d)' => Pending(p, d)
<1>3. ASSUME NEW s \in {"record", "prune"}, Goto(p, s), Ready(p),
             s = "prune" \/ job[p].at = "push"
      PROVE  Goal
    <2>1. job'[p] = [job[p] EXCEPT !.at = s] BY <1>1, <1>3 DEF Goto, Types
    <2>2. /\ job'[p].at = s /\ job'[p].id = job[p].id /\ job'[p].dest = job[p].dest
        BY <1>1, <2>1 DEF Jobs
    <2> QED BY <1>1, <1>3, <2>2 DEF Pending, Ready
<1>4. ASSUME PruneRows(p) \/ RemoveStale(p) PROVE Goal
    <2>1. /\ job[p].at \in {"prune", "remove"} /\ job'[p].at = "remove"
          /\ job'[p].id = job[p].id /\ job'[p].dest = job[p].dest
        BY <1>1, <1>4 DEF PruneRows, RemoveStale, Types, Jobs
    <2> QED BY <1>1, <2>1 DEF Pending, Ready
<1>5. ASSUME NextDestination(p) PROVE Goal
    <2>1. /\ job[p].at = "remove" /\ job[p].dest = "operator" /\ job'[p].at = "push"
          /\ job'[p].id = job[p].id /\ job'[p].dest = "tenant"
        BY <1>1, <1>5 DEF NextDestination, Types, Jobs
    <2> QED BY <1>1, <2>1 DEF Pending, Ready
<1>6. ASSUME job' = [job EXCEPT ![p] = Idle] PROVE Goal
    BY <1>6 DEF Types, Working, Ready, Pending
<1>7. ASSUME Push(p) \/ Record(p) PROVE Goal
    BY <1>1, <1>3, <1>7 DEF Push, Record, Ready
<1>8. Build(p) \/ Goal
    BY <1>4, <1>5, <1>6, <1>7 DEF CreateStep, Return, Fail, Die, GivesUp
<1>9. \A q \in Processes : q # p =>
          /\ Ready(q)' => Ready(q) /\ job'[q].id = job[q].id
          /\ \A d \in Destinations : Pending(q, d)' => Pending(q, d)
    BY <1>1 DEF Ready, Pending
<1>10. Working(p)' => Working(p) BY <1>1
<1> QED BY <1>1, <1>2, <1>8, <1>9, <1>10

\* The new snapshot's number is above all there are.
LEMMA BuildIsNew ==
    ASSUME Types, NEW p \in Processes, Build(p)
    PROVE  /\ job'[p].id = built + 1 /\ built' = built + 1 /\ job'[p].t = job[p].t
           /\ job'[p].at = "push" /\ UNCHANGED store
BY PlaceOfJob DEF Build, Types, Jobs

LEMMA KeepRows ==
    ASSUME ListInv, LeakInv, KeepInv, NEW p \in Processes, CreateStep(p)
    PROVE  OneEach' /\ InOrder'
<1>1. Types BY DEF ListInv
<1>2. /\ \A q \in Processes : Working(q)' => Working(q) /\ job'[q].t = job[q].t
      /\ overlapped' = overlapped
    BY <1>1, PendingAfter
<1>3. OneEach' BY <1>2 DEF KeepInv, OneEach
<1>4. Working(p) /\ job[p] \in Jobs BY <1>1, OneJob
<1>5. InOrder'
    <2> SUFFICES ASSUME NEW t \in Tenants \ overlapped, NEW d \in Destinations,
                        NEW i \in DOMAIN rows'[t][d], NEW j \in DOMAIN rows'[t][d], i < j
                 PROVE  rows'[t][d][i].id < rows'[t][d][j].id
        BY <1>2 DEF InOrder
    <2>1. rows[t][d] \in Seq(Rows) BY <1>1 DEF Types
    <2>2. \A k, l \in DOMAIN rows[t][d] : k < l => rows[t][d][k].id < rows[t][d][l].id
        BY DEF KeepInv, InOrder
    <2>3. CASE UNCHANGED rows BY <2>2, <2>3
    <2>4. CASE Record(p)
        <3>1. \A k \in DOMAIN rows'[t][d] :
                  \/ k \in DOMAIN rows[t][d] /\ rows'[t][d][k] = rows[t][d][k]
                  \/ /\ t = job[p].t /\ d = job[p].dest
                     /\ k = Len(rows[t][d]) + 1 /\ rows'[t][d][k].id = job[p].id
            <4>1. ~PruneRows(p) BY <2>4 DEF Record, PruneRows
            <4> QED BY <1>1, <4>1, RowsAfter
        <3>2. CASE j \in DOMAIN rows[t][d] /\ rows'[t][d][j] = rows[t][d][j]
            <4>1. i # Len(rows[t][d]) + 1 BY <2>1, <3>2
            <4> QED BY <2>2, <3>1, <3>2, <4>1
        <3>3. CASE t = job[p].t /\ d = job[p].dest /\ j = Len(rows[t][d]) + 1
                   /\ rows'[t][d][j].id = job[p].id
            <4>1. i \in DOMAIN rows[t][d] /\ rows'[t][d][i] = rows[t][d][i]
                <5>1. i # Len(rows[t][d]) + 1 BY SMTT(30), <2>1, <3>3
                <5> QED BY <3>1, <5>1
            <4>2. Pending(p, d) BY <1>4, <2>4, <3>3 DEF Pending, Ready, Record
            <4>3. rows[t][d][i].id < job[p].id
                BY <3>3, <4>1, <4>2 DEF KeepInv, PendingIsNewest
            <4> QED BY <3>3, <4>1, <4>3
        <3> QED BY <3>1, <3>2, <3>3
    <2>5. CASE PruneRows(p) /\ ~UNCHANGED rows
        <3>1. \/ rows'[t][d] = rows[t][d]
              \/ rows'[t][d] = Kept(rows[t][d])
            <4>1. ~Record(p) BY <2>5 DEF Record, PruneRows
            <4> QED BY <1>1, <2>5, <4>1, RowsAfter
        <3>2. CASE rows'[t][d] = Kept(rows[t][d])
            <4> DEFINE l == rows[t][d]
            <4>1. Stale(l) \in Seq(Rows) /\ Kept(l) \in Seq(Rows)
                  /\ \A k \in DOMAIN Kept(l) :
                         \E m \in DOMAIN l : m = k + Len(Stale(l)) /\ Kept(l)[k] = l[m]
                BY <2>1, CutList
            <4>2. PICK m \in DOMAIN l : m = i + Len(Stale(l)) /\ Kept(l)[i] = l[m]
                BY <3>2, <4>1
            <4>3. PICK n \in DOMAIN l : n = j + Len(Stale(l)) /\ Kept(l)[j] = l[n]
                BY <3>2, <4>1
            <4>4. m < n
                <5>1. i \in Nat /\ j \in Nat /\ Len(Stale(l)) \in Nat BY <3>2, <4>1
                <5> QED BY <4>2, <4>3, <5>1
            <4> QED BY <2>2, <3>2, <4>2, <4>3, <4>4
        <3> QED BY <2>2, <3>1, <3>2
    <2> QED BY <1>1, <2>3, <2>4, <2>5, RowsAfter
<1> QED BY <1>3, <1>5

LEMMA KeepPending ==
    ASSUME ListInv, LeakInv, KeepInv, NEW p \in Processes, CreateStep(p)
    PROVE  PendingIsNewest'
<1>1. Types BY DEF ListInv
<1>2. /\ Working(p) /\ job[p] \in Jobs
      /\ \A q \in Processes : Working(q)' => Working(q) /\ job'[q].t = job[q].t
      /\ overlapped' = overlapped
    BY <1>1, OneJob, PendingAfter
<1> SUFFICES ASSUME NEW q \in Processes, NEW d \in Destinations, Pending(q, d)',
                    job'[q].t \notin overlapped, NEW i \in DOMAIN rows'[job'[q].t][d]
             PROVE  rows'[job'[q].t][d][i].id < job'[q].id
    BY <1>2 DEF PendingIsNewest
<1>3. Working(q)' BY DEF Pending, Ready
<1>4. /\ Working(q) /\ job'[q].t = job[q].t /\ job[q].t \in Tenants
      /\ rows[job[q].t][d] \in Seq(Rows)
    BY <1>1, <1>2, <1>3, PlaceOfJob DEF Jobs, Types
<1>5. CASE Build(p)
    <2>1. CASE q = p
        <3>1. rows'[job'[q].t][d][i].id \in Nat /\ rows'[job'[q].t][d][i].id <= built
            BY <1>1, <1>4, <1>5, BuildIsNew, Numbers DEF ListInv, IdsAreDistinct, store
        <3> QED BY <1>1, <1>5, <2>1, <3>1, BuildIsNew DEF Types
    <2>2. CASE q # p
        <3>1. job'[q] = job[q] /\ Pending(q, d) BY <1>1, <2>2, OneJob DEF Pending, Ready
        <3> QED BY <1>1, <1>4, <1>5, <3>1, BuildIsNew DEF KeepInv, PendingIsNewest, store
    <2> QED BY <2>1, <2>2
<1>6. CASE ~Build(p)
    <2>1. Pending(q, d) /\ job'[q].id = job[q].id
        BY <1>1, <1>6, PendingAfter DEF Pending
    <2>2. \A k \in DOMAIN rows[job[q].t][d] : rows[job[q].t][d][k].id < job[q].id
        BY <1>4, <2>1 DEF KeepInv, PendingIsNewest
    <2>3. CASE UNCHANGED rows BY <1>4, <2>1, <2>2, <2>3
    <2>4. CASE Record(p) /\ ~UNCHANGED rows
        <3>1. ~PruneRows(p) BY <2>4 DEF Record, PruneRows
        <3>2. \/ /\ i \in DOMAIN rows[job[q].t][d]
                 /\ rows'[job[q].t][d][i] = rows[job[q].t][d][i]
              \/ job[q].t = job[p].t /\ d = job[p].dest
            BY <1>1, <1>4, <2>4, <3>1, RowsAfter
        <3>3. ~(job[q].t = job[p].t /\ d = job[p].dest)
            <4>1. CASE q # p BY <1>2, <1>4, <4>1 DEF KeepInv, OneEach
            <4>2. CASE q = p
                <5>1. job'[p].at = "prune" /\ job'[p].dest = job[p].dest
                    BY <1>1, <1>2, <2>4 DEF Record, Goto, Types, Jobs
                <5> QED BY <4>2, <5>1 DEF Pending
            <4> QED BY <4>1, <4>2
        <3> QED BY <1>4, <2>1, <2>2, <3>2, <3>3
    <2>5. CASE PruneRows(p) /\ ~UNCHANGED rows
        <3>1. \/ rows'[job[q].t][d] = rows[job[q].t][d]
              \/ rows'[job[q].t][d] = Kept(rows[job[q].t][d])
            <4>1. ~Record(p) BY <2>5 DEF Record, PruneRows
            <4> QED BY <1>1, <1>4, <2>5, <4>1, RowsAfter
        <3>2. \E k \in DOMAIN rows[job[q].t][d] :
                  rows'[job[q].t][d][i] = rows[job[q].t][d][k]
            BY <1>4, <3>1, CutList
        <3> QED BY <1>4, <2>1, <2>2, <3>2
    <2> QED BY <1>1, <2>3, <2>4, <2>5, RowsAfter
<1> QED BY <1>5, <1>6

LEMMA KeepStale ==
    ASSUME ListInv, LeakInv, KeepInv, NEW p \in Processes, CreateStep(p)
    PROVE  StaleIsOldest'
<1>1. Types BY DEF ListInv
<1>2. /\ Working(p) /\ job[p] \in Jobs
      /\ \A q \in Processes : Working(q)' => Working(q) /\ job'[q].t = job[q].t
      /\ overlapped' = overlapped
    BY <1>1, OneJob, PendingAfter
<1> SUFFICES ASSUME NEW q \in Processes, Working(q)', job'[q].t \notin overlapped,
                    NEW k \in DOMAIN job'[q].stale
             PROVE  /\ Len(rows'[job'[q].t][job'[q].dest]) >= Retention
                    /\ \A i \in DOMAIN rows'[job'[q].t][job'[q].dest] :
                           job'[q].stale[k].id < rows'[job'[q].t][job'[q].dest][i].id
    BY <1>2 DEF StaleIsOldest
<1>3. Working(q) /\ job'[q].t = job[q].t /\ job[q] \in Jobs BY <1>1, <1>2, PlaceOfJob
<1>4. \A l \in DOMAIN job[q].stale :
          /\ Len(rows[job[q].t][job[q].dest]) >= Retention
          /\ \A i \in DOMAIN rows[job[q].t][job[q].dest] :
                 job[q].stale[l].id < rows[job[q].t][job[q].dest][i].id
    BY <1>3 DEF KeepInv, StaleIsOldest
<1>5. CASE q # p
    <2>1. job'[q] = job[q] BY <1>1, <1>5, OneJob
    <2>2. job[q].t # job[p].t BY <1>2, <1>3, <1>5 DEF KeepInv, OneEach
    <2>3. rows'[job[q].t] = rows[job[q].t]
        <3>1. \/ UNCHANGED rows
              \/ \A d \in Destinations : rows'[job[q].t][d] = rows[job[q].t][d]
            BY <1>1, <1>3, <2>2, RowsAfter DEF Jobs
        <3>2. \/ UNCHANGED rows
              \/ \E l : rows' = [rows EXCEPT ![job[p].t][job[p].dest] = l]
            BY <1>2, <2>2
            DEF CreateStep, Build, Push, Record, PruneRows, RemoveStale, NextDestination,
                Return, Fail, Die, GivesUp, store, Types, Jobs
        <3> QED BY <1>1, <1>2, <1>3, <2>2, <3>2 DEF Types, Jobs
    <2> QED BY <1>4, <2>1, <2>3
<1>6. CASE q = p
    <2>1. job[p].at # "remove" => job[p].stale = <<>> BY <1>2 DEF LeakInv
    <2>2. job'[p].stale # <<>> BY <1>6
    <2>3. CASE PruneRows(p)
        <3> DEFINE t == job[p].t
                   d == job[p].dest
                   l == rows[t][d]
        <3>1. /\ t \in Tenants \ overlapped /\ d \in Destinations /\ l \in Seq(Rows)
            BY <1>1, <1>2, <1>3, <1>6 DEF Jobs, Types
        <3>2. /\ job'[p].stale = Stale(l) /\ job'[p].t = t /\ job'[p].dest = d
              /\ rows'[t][d] = Kept(l)
            BY <1>1, <1>2, <2>3, <3>1 DEF PruneRows, Types, Jobs
        <3>3. \A i, j \in DOMAIN l : i < j => l[i].id < l[j].id
            BY <3>1 DEF KeepInv, InOrder
        <3> HIDE DEF l
        <3>4. Stale(l) = SubSeq(l, 1, IF Len(l) > Retention THEN Len(l) - Retention ELSE 0)
            BY DEF Stale
        <3>5. Retention \in Nat /\ Len(l) \in Nat BY <3>1, CountAssumption
        <3>6. CASE Len(l) > Retention
            <4> DEFINE n == Len(l) - Retention
            <4>1. n \in Nat /\ n <= Len(l) BY <3>5, <3>6
            <4>2. Stale(l) = SubSeq(l, 1, n) BY <3>4, <3>6
            <4>3. Len(Stale(l)) = n /\ DOMAIN Stale(l) = 1..n /\ \A m \in 1..n : Stale(l)[m] = l[m]
                BY <3>1, <4>1, <4>2
            <4>4. Kept(l) = SubSeq(l, n + 1, Len(l)) BY <4>3 DEF Kept
            <4>5. Len(Kept(l)) = Len(l) - n
                  /\ \A i \in 1..(Len(l) - n) : Kept(l)[i] = l[n + i]
                BY <3>1, <4>1, <4>4
            <4>6. Len(Kept(l)) = Retention /\ DOMAIN Kept(l) = 1..Retention
                BY <3>5, <4>4, <4>5, <3>1, <4>1
            <4>7. k \in 1..n /\ k \in DOMAIN l BY <1>6, <3>1, <3>2, <4>1, <4>3
            <4>8. ASSUME NEW i \in 1..Retention PROVE Stale(l)[k].id < Kept(l)[i].id
                <5>1. n + i \in DOMAIN l /\ k < n + i BY <3>1, <3>5, <4>1, <4>7
                <5>2. i \in 1..(Len(l) - n) BY <3>5
                <5> QED BY <3>3, <4>3, <4>5, <4>7, <5>1, <5>2
            <4> QED BY <1>6, <3>2, <3>5, <4>6, <4>8
        <3>7. CASE ~(Len(l) > Retention)
            <4>1. Stale(l) = SubSeq(l, 1, 0) BY <3>4, <3>7
            <4>2. DOMAIN Stale(l) = {} BY <3>1, <4>1
            <4> QED BY <1>6, <3>2, <4>2
        <3> QED BY <3>6, <3>7
    <2>4. CASE RemoveStale(p)
        <3>1. /\ job'[p].stale = Tail(job[p].stale) /\ job'[p].dest = job[p].dest
              /\ job[p].stale # <<>> /\ rows' = rows
            BY <1>1, <1>2, <2>4 DEF RemoveStale, NextStale, Types, Jobs
        <3>2. job[p].stale \in Seq(Rows) BY <1>2 DEF Jobs
        <3>3. k + 1 \in DOMAIN job[p].stale /\ Tail(job[p].stale)[k] = job[p].stale[k + 1]
            BY <1>6, <3>1, <3>2
        <3> QED BY <1>3, <1>4, <1>6, <3>1, <3>3
    <2>5. CASE ~PruneRows(p) /\ ~RemoveStale(p)
        <3>1. job'[p].stale = <<>>
            BY <1>1, <1>6, <2>1, <2>5, FieldsAfter
        <3> QED BY <2>2, <3>1
    <2> QED BY <2>3, <2>4, <2>5
<1> QED BY <1>5, <1>6

LEMMA KeepFiles ==
    ASSUME ListInv, KeepInv, NEW p \in Processes, CreateStep(p)
    PROVE  FilesAreOld' /\ Unpushed'
<1>1. Types BY DEF ListInv
<1>2. /\ Working(p) /\ job[p] \in Jobs /\ built \in Nat
      /\ built' \in {built, built + 1}
      /\ \A q \in Processes : Working(q)' => Working(q) /\ job'[q].t = job[q].t
    BY <1>1, OneJob, PendingAfter DEF Types
<1>3. \A t \in Tenants, h \in Places : \A f \in remote[t][h] : f.id \in Nat /\ f.id <= built
    BY <1>1 DEF KeepInv, FilesAreOld, Types, Copies
<1>4. \A t \in Tenants, h \in Places : \A f \in remote'[t][h] :
          \/ f \in remote[t][h]
          \/ /\ t = job[p].t /\ h = Place(job[p]) /\ job[p].at = "push"
             /\ f.id = job[p].id
    BY <1>1, FilesAfter
<1>5. FilesAreOld'
    <2>1. job[p].at = "push" => job[p].id \in Nat /\ job[p].id <= built
        BY <1>2 DEF ListInv, IdsAreDistinct, Ready, Jobs
    <2> QED BY <1>2, <1>3, <1>4, <2>1 DEF FilesAreOld
<1>6. Unpushed'
    <2> SUFFICES ASSUME NEW q \in Processes, Ready(q)'
                 PROVE  /\ job'[q].at = "push" =>
                               \A f \in remote'[job'[q].t][Place(job'[q])] : f.id # job'[q].id
                        /\ job'[q].dest = "operator" =>
                               \A h \in Hosts : \A f \in remote'[job'[q].t][h] : f.id # job'[q].id
        BY DEF Unpushed
    <2>1. Working(q)' /\ Working(q) /\ job'[q].t = job[q].t /\ job[q] \in Jobs
          /\ job[q].t \in Tenants /\ Hosts \subseteq Places
        BY <1>1, <1>2, PlaceOfJob DEF Ready, Jobs, Places
    <2>2. CASE q # p
        <3>1. job'[q] = job[q] /\ Ready(q) BY <1>1, <2>2, OneJob DEF Ready
        <3>2. job[p].at = "push" => job[p].id # job[q].id
            BY <1>2, <2>2, <3>1 DEF ListInv, IdsAreDistinct, Ready
        <3>3. Place(job[q]) \in Places BY <1>1, <2>1, PlaceOfJob
        <3>4. /\ job[q].at = "push" =>
                     \A f \in remote[job[q].t][Place(job[q])] : f.id # job[q].id
              /\ job[q].dest = "operator" =>
                     \A h \in Hosts : \A f \in remote[job[q].t][h] : f.id # job[q].id
            BY <3>1 DEF KeepInv, Unpushed
        <3>5. Place(job'[q]) = Place(job[q]) BY <3>1 DEF Place
        <3> QED BY <1>4, <2>1, <3>1, <3>2, <3>3, <3>4, <3>5
    <2>3. CASE q = p
        <3>1. CASE Build(p)
            <4>1. \A t \in Tenants, h \in Places : \A f \in remote'[t][h] : f.id # built + 1
                BY <1>1, <1>2, <1>3, <3>1, BuildIsNew DEF store
            <4>2. Place(job'[p]) \in Places
                BY <1>1, <1>2, <3>1, Names, PlaceOfJob DEF Build, Place, Types, Jobs, Places
            <4> QED BY <1>1, <2>1, <2>3, <3>1, <4>1, <4>2, BuildIsNew
        <3>2. CASE ~Build(p)
            <4>1. Ready(p) /\ job'[p].id = job[p].id
                BY <1>1, <2>3, <3>2, PendingAfter
            <4>2. job[p].dest = "operator" =>
                      \A h \in Hosts : \A f \in remote[job[p].t][h] : f.id # job[p].id
                BY <4>1 DEF KeepInv, Unpushed
            <4>3. job[p].dest = "operator" =>
                      \A h \in Hosts : \A f \in remote'[job[p].t][h] : f.id # job[p].id
                <5>1. job[p].dest = "operator" => Place(job[p]) \notin Hosts
                    BY Names DEF Place
                <5> QED BY <1>4, <2>1, <2>3, <4>2, <5>1
            <4>4. job'[p].dest = "operator" => job[p].dest = "operator"
                BY <1>1, <2>1, <2>3, FieldsAfter
            <4>5. CASE job'[p].at = "push"
                <5>1. NextDestination(p)
                    BY <1>1, <2>1, <2>3, <3>2, <4>5, FieldsAfter
                <5>2. /\ job[p].dest = "operator" /\ job[p].own \in Hosts
                      /\ Place(job'[p]) = job[p].own
                    BY <1>1, <1>2, <5>1 DEF NextDestination, Place, Types, Jobs
                <5> QED BY <2>1, <2>3, <4>1, <4>3, <4>4, <5>2
            <4> QED BY <2>1, <2>3, <4>1, <4>3, <4>4, <4>5
        <3> QED BY <3>1, <3>2
    <2> QED BY <2>2, <2>3
<1> QED BY <1>5, <1>6

LEMMA KeepStep == ListInv /\ LeakInv /\ KeepInv /\ [Next]_vars => KeepInv'
<1> SUFFICES ASSUME ListInv, LeakInv, KeepInv, [Next]_vars PROVE KeepInv'
    OBVIOUS
<1> USE DEF store
<1>1. Types BY DEF ListInv
<1>2. ASSUME NEW p \in Processes, CreateStep(p) PROVE KeepInv'
    BY <1>2, KeepRows, KeepPending, KeepStale, KeepFiles DEF KeepInv
<1>3. ASSUME NEW p \in Processes, NEW t \in Tenants, ~Working(p), Begin(p, t),
             UNCHANGED <<store, built>>
      PROVE  KeepInv'
    <2> DEFINE new == [at |-> "build", t |-> t, own |-> own[t], dest |-> "operator",
                       id |-> 0, stale |-> <<>>]
    <2>1. job' = [job EXCEPT ![p] = new] BY <1>3 DEF Begin
    <2>2. new.at = "build" /\ DOMAIN new.stale = {} /\ new.t = t OBVIOUS
    <2> HIDE DEF new
    <2>3. \A q \in Processes : Working(q)' => \/ q = p /\ job'[q] = new
                                              \/ q # p /\ Working(q) /\ job'[q] = job[q]
        BY <1>1, <2>1 DEF Working, Types
    <2>4. /\ overlapped \subseteq overlapped'
          /\ \A q \in Processes : q # p /\ Working(q) /\ job[q].t = t => t \in overlapped'
        BY <1>3 DEF Begin
    <2>5. OneEach' BY <2>2, <2>3, <2>4 DEF KeepInv, OneEach
    <2>6. InOrder' BY <1>3, <2>4 DEF KeepInv, InOrder
    <2>7. PendingIsNewest'
        BY <1>3, <2>2, <2>3, <2>4 DEF KeepInv, PendingIsNewest, Pending, Ready
    <2>8. StaleIsOldest' BY <1>3, <2>2, <2>3, <2>4 DEF KeepInv, StaleIsOldest
    <2>9. FilesAreOld' BY <1>3 DEF KeepInv, FilesAreOld
    <2>10. Unpushed' BY <1>3, <2>2, <2>3 DEF KeepInv, Unpushed, Ready, Place
    <2> QED BY <2>5, <2>6, <2>7, <2>8, <2>9, <2>10 DEF KeepInv
<1>4. CASE UNCHANGED <<rows, remote, job, built, overlapped>>
    <2>1. OneEach' BY <1>4 DEF KeepInv, OneEach, Working
    <2>2. InOrder' BY <1>4 DEF KeepInv, InOrder
    <2>3. PendingIsNewest' BY <1>4 DEF KeepInv, PendingIsNewest, Pending, Ready, Working
    <2>4. StaleIsOldest' BY <1>4 DEF KeepInv, StaleIsOldest, Working
    <2>5. FilesAreOld' BY <1>4 DEF KeepInv, FilesAreOld
    <2>6. Unpushed' BY <1>4 DEF KeepInv, Unpushed, Ready, Working, Place
    <2> QED BY <2>1, <2>2, <2>3, <2>4, <2>5, <2>6 DEF KeepInv
<1>5. ASSUME NEW c \in Clerks, NEW t \in Tenants, Ask(c, t) PROVE KeepInv'
    BY <1>3, <1>5 DEF Ask, Processes
<1>6. CASE Turn
    <2>1. CASE Due(sweep.t) BY <1>3, <1>6, <2>1 DEF Turn, Processes
    <2>2. CASE ~Due(sweep.t) BY <1>4, <1>6, <2>2 DEF Turn
    <2> QED BY <2>1, <2>2
<1>7. CASE StartSweep \/ EndSweep \/ Tick \/ UNCHANGED vars
    BY <1>4, <1>7 DEF StartSweep, EndSweep, Tick, vars
<1>8. ASSUME NEW t \in Tenants, NEW h \in Hosts \cup {NoHost}, SetDestination(t, h)
      PROVE  KeepInv'
    BY <1>4, <1>8 DEF SetDestination
<1> QED BY <1>2, <1>5, <1>6, <1>7, <1>8 DEF Next

LEMMA RemovedHasNewer ==
    ASSUME ListInv, LeakInv, KeepInv, [Next]_vars, NEW t \in Tenants \ overlapped',
           NEW h \in Places, NEW f \in remote[t][h] \ remote'[t][h]
    PROVE  Cardinality(Newer(rows'[t][KindOf(h)], f)) >= Retention
<1> DEFINE d == KindOf(h)
           list == rows[t][d]
<1>1. Types BY DEF ListInv
<1>2. PICK p \in Processes : CreateStep(p)
    BY DEF Next, Ask, StartSweep, Turn, EndSweep, Tick, SetDestination, vars, store
<1>3. /\ Working(p) /\ job[p] \in Jobs /\ t \notin overlapped
      /\ list \in Seq(Rows) /\ d \in Destinations
    BY <1>1, <1>2, OneJob, PendingAfter, Kinds DEF Types
<1>4. /\ t = job[p].t /\ h = Place(job[p])
      /\ \/ job[p].at = "push" /\ f.id = job[p].id
         \/ /\ RemoveStale(p) /\ job[p].stale # <<>>
            /\ f.id = Head(job[p].stale).id
    BY <1>1, <1>2, FilesAfter
<1>5. d = job[p].dest
    BY <1>1, <1>3, <1>4, Kinds, PlaceOfJob DEF Jobs, Destinations
<1>6. ~(job[p].at = "push" /\ f.id = job[p].id)
    BY <1>3, <1>4 DEF KeepInv, Unpushed, Ready
<1>7. /\ 1 \in DOMAIN job[p].stale /\ f.id = job[p].stale[1].id /\ rows' = rows
    BY <1>3, <1>4, <1>6 DEF RemoveStale, Jobs
<1>8. /\ Len(list) >= Retention
      /\ \A i \in DOMAIN list : f.id < list[i].id
    BY <1>3, <1>4, <1>5, <1>7 DEF KeepInv, StaleIsOldest
<1>9. f.id \in Nat /\ \A i \in DOMAIN list : list[i].id \in Nat
    BY <1>1, <1>3, Numbers DEF Types, Copies
<1>10. Newer(list, f) = 1..Len(list) BY <1>3, <1>8, <1>9 DEF Newer
<1>11. Cardinality(1..Len(list)) = Len(list)
    <2>1. Len(list) \in Nat BY <1>3
    <2> QED BY <2>1, FS_Interval
<1> QED BY <1>7, <1>8, <1>10, <1>11

(***************************************************************************)
(* Pruning a tenant whose backups did not overlap (registry.py's           *)
(* prune_old_backups, backup.py:683-689) takes a copy away only when the   *)
(* retention's number of newer ones is listed for its destination, for any *)
(* retention, any number of tenants and whatever fails.                    *)
(***************************************************************************)
THEOREM PruningKeepsNewest == Spec => PruneKeepsNewest
<1>1. ListInv /\ LeakInv /\ KeepInv /\ [Next]_vars =>
          [\A t \in Tenants \ overlapped', h \in Places :
               \A f \in remote[t][h] \ remote'[t][h] :
                   f.whole =>
                       Cardinality(Newer(rows'[t][KindOf(h)], f)) >= Retention]_vars
    BY RemovedHasNewer
<1> QED
    BY ListInit, ListStep, LeakInit, LeakStep, KeepInit, KeepStep, <1>1,
       PTL DEF Spec, PruneKeepsNewest
=============================================================================

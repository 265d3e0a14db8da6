------------------------ MODULE OperatorAccessProofs ------------------------
(***************************************************************************)
(* Theorems about OperatorAccess: what the grant file's read-modify-write  *)
(* handlers guarantee for any number of host processes, panel workers and  *)
(* grants.                                                                 *)
(***************************************************************************)
EXTENDS OperatorAccess, TLAPS

LEMMA Distinct == NoGrant \notin Grants /\ NoGrant \notin Operators
BY BoundAssumption, OperatorAssumption DEF NoGrant, Grants

\* Everything but the links between the histories: the types, and that a
\* process in the middle of a handler holds what that handler writes.
HoldsOK ==
    \A p \in Processes :
        /\ pc[p] \in Holding => copy[p] \in Contents
        /\ pc[p] # "idle" => task[p] \in Grants
        /\ pc[p] \in {"granting", "truncated_grant", "revoking", "truncated_revoke"}
               => copy[p].grant = task[p]
        /\ pc[p] \in {"revoking", "truncated_revoke"} => copy[p].revoked

Base == TypeOK /\ HoldsOK

LEMMA BaseInit == Init => Base
BY Distinct DEF Init, Base, TypeOK, HoldsOK, Stages, Holding, Truncated, Unreadable

LEMMA ClashesAreGrants ==
    ASSUME Base, NEW p \in Processes, NEW g \in Grants, Begins(p, g)
    PROVE  clashed' \subseteq Grants
BY DEF Base, TypeOK, HoldsOK, Begins, Busy

LEMMA BaseStep == Base /\ [Next]_vars => Base'
<1> SUFFICES ASSUME Base, [Next]_vars PROVE Base'
    OBVIOUS
<1> USE DEF Base, TypeOK, access, history, writes
<1> DEFINE Same == UNCHANGED <<pc, task, copy>>
<1>0. \A data \in Contents : Spent(data) \in Contents /\ Revoked(data) \in Contents
                             /\ Revoked(data).revoked /\ Revoked(data).grant = data.grant
    BY DEF Contents, Spent, Revoked
<1>1. ASSUME NEW h \in Hosts, Grant(h) PROVE Base'
    <2>0. h \in Processes BY DEF Processes
    <2>1. PICK g \in Grants, o \in Operators :
              /\ Begins(h, g)
              /\ issuedTo' = [issuedTo EXCEPT ![g] = o]
              /\ Goto(h, "granting") /\ Hold(h, g, NewGrant(g))
        BY <1>1 DEF Grant
    <2>2. NewGrant(g) \in Contents /\ NewGrant(g).grant = g
        BY DEF NewGrant, Contents
    <2>a. clashed' \subseteq Grants BY <2>0, <2>1, ClashesAreGrants
    <2>3. TypeOK' BY <1>1, <2>0, <2>1, <2>2, <2>a DEF Grant, Goto, Hold, Stages
    <2>4. HoldsOK' BY <2>0, <2>1, <2>2 DEF HoldsOK, Goto, Hold, Holding, Truncated
    <2> QED BY <2>3, <2>4
<1>2. ASSUME NEW h \in Hosts, Revoke(h) PROVE Base'
    <2>0. h \in Processes BY DEF Processes
    <2>1. file \in Contents BY <1>2 DEF Revoke, Readable
    <2>2. file.grant \in Grants BY <2>1 DEF Contents
    <2>a. clashed' \subseteq Grants BY <1>2, <2>0, <2>2, ClashesAreGrants DEF Revoke
    <2>3. TypeOK' BY <1>2, <1>0, <2>0, <2>1, <2>2, <2>a DEF Revoke, Goto, Hold, Stages
    <2>4. HoldsOK' BY <1>2, <1>0, <2>0, <2>1, <2>2 DEF Revoke, HoldsOK, Goto, Hold, Holding, Truncated
    <2> QED BY <2>3, <2>4
<1>3. ASSUME NEW w \in Workers, NEW g \in Grants, Consume(w, g) PROVE Base'
    <2>0. w \in Processes BY DEF Processes
    <2>a. clashed' \subseteq Grants BY <1>3, <2>0, ClashesAreGrants DEF Consume
    <2>1. TypeOK' BY <1>3, <2>0, <2>a DEF Consume, Goto, Hold, Stages
    <2>2. HoldsOK' BY <1>3, <2>0 DEF Consume, HoldsOK, Goto, Hold, Holding, Truncated
    <2> QED BY <2>1, <2>2
<1>4. ASSUME NEW w \in Workers, ReadAgain(w) PROVE Base'
    <2>0. w \in Processes BY DEF Processes
    <2>1. file \in Contents BY <1>4 DEF ReadAgain, Readable
    <2>2. TypeOK' BY <1>4, <1>0, <2>0, <2>1 DEF ReadAgain, Goto, Stages
    <2>3. HoldsOK' BY <1>4, <1>0, <2>0, <2>1 DEF ReadAgain, HoldsOK, Goto, Holding, Truncated
    <2> QED BY <2>2, <2>3
<1>5. ASSUME NEW w \in Workers, CannotMark(w) PROVE Base'
    <2>0. w \in Processes BY DEF Processes
    <2>1. TypeOK' BY <1>5, <2>0 DEF CannotMark, Goto, Stages
    <2>2. HoldsOK' BY <1>5, <2>0 DEF CannotMark, HoldsOK, Goto, Holding, Truncated
    <2> QED BY <2>1, <2>2
<1>6. ASSUME NEW w \in Workers, StartSession(w) PROVE Base'
    <2>0. w \in Processes /\ task[w] \in Grants BY <1>6 DEF Processes, StartSession, HoldsOK
    <2>1. TypeOK' BY <1>6, <2>0 DEF StartSession, Release, Goto, Hold, Stages
    <2>2. HoldsOK' BY <1>6, <2>0 DEF StartSession, HoldsOK, Release, Goto, Hold, Holding, Truncated
    <2> QED BY <2>1, <2>2
<1>7. ASSUME NEW p \in Processes, Truncate(p) PROVE Base'
    <2>1. TypeOK' BY <1>7 DEF Truncate, Goto, Stages, TruncatedFrom, Unreadable
    <2>2. HoldsOK' BY <1>7 DEF Truncate, HoldsOK, Goto, Holding, Truncated, TruncatedFrom
    <2> QED BY <2>1, <2>2
<1>8. ASSUME NEW h \in Hosts, WriteGrant(h) PROVE Base'
    <2>0. h \in Processes /\ task[h] \in Grants /\ copy[h] \in Contents
        BY <1>8 DEF Processes, WriteGrant, HoldsOK, Holding, Truncated
    <2>1. TypeOK' BY <1>8, <2>0 DEF WriteGrant, Written, Release, Goto, Hold, Stages, Unreadable
    <2>2. HoldsOK' BY <1>8, <2>0 DEF WriteGrant, HoldsOK, Release, Goto, Hold, Holding, Truncated
    <2> QED BY <2>1, <2>2
<1>9. ASSUME NEW h \in Hosts, WriteRevocation(h) PROVE Base'
    <2>0. h \in Processes /\ task[h] \in Grants /\ copy[h] \in Contents
        BY <1>9 DEF Processes, WriteRevocation, HoldsOK, Holding, Truncated
    <2>1. TypeOK' BY <1>9, <2>0 DEF WriteRevocation, Written, Release, Goto, Hold, Stages, Unreadable
    <2>2. HoldsOK' BY <1>9, <2>0 DEF WriteRevocation, HoldsOK, Release, Goto, Hold, Holding, Truncated
    <2> QED BY <2>1, <2>2
<1>10. ASSUME NEW w \in Workers, WriteMark(w) PROVE Base'
    <2>0. w \in Processes /\ task[w] \in Grants /\ copy[w] \in Contents
        BY <1>10 DEF Processes, WriteMark, HoldsOK, Holding, Truncated
    <2>1. TypeOK' BY <1>10, <2>0 DEF WriteMark, Written, Goto, Stages, Unreadable
    <2>2. HoldsOK' BY <1>10, <2>0 DEF WriteMark, HoldsOK, Goto, Holding, Truncated
    <2> QED BY <2>1, <2>2
<1>11. ASSUME NEW g \in Grants, EndSession(g) PROVE Base'
    BY <1>11 DEF EndSession, HoldsOK
<1>12. ASSUME NEW g \in Grants, WindowEnds(g) PROVE Base'
    BY <1>12 DEF WindowEnds, HoldsOK
<1>13. ASSUME NEW p \in Processes, Dies(p) PROVE Base'
    <2>1. TypeOK' BY <1>13 DEF Dies, Release, Goto, Hold, Stages
    <2>2. HoldsOK' BY <1>13 DEF Dies, HoldsOK, Release, Goto, Hold, Holding, Truncated
    <2> QED BY <2>1, <2>2
<1>14. CASE UNCHANGED vars
    BY <1>14 DEF vars, HoldsOK
<1> QED
    BY <1>1, <1>2, <1>3, <1>4, <1>5, <1>6, <1>7, <1>8, <1>9, <1>10, <1>11, <1>12, <1>13, <1>14
    DEF Next, HostStep, PanelStep

(***************************************************************************)
(* The types hold in every reachable state (provisioner.py:1716-1723,      *)
(* app.py:1950-1956).                                                      *)
(***************************************************************************)
THEOREM TypeCorrect == Spec => []TypeOK
<1>1. Init => Base BY BaseInit
<1>2. Base /\ [Next]_vars => Base' BY BaseStep
<1>3. Base => TypeOK BY DEF Base
<1> QED BY <1>1, <1>2, <1>3, PTL DEF Spec

LEMMA BaseAlways == Spec => []Base
<1> QED BY BaseInit, BaseStep, PTL DEF Spec

-----------------------------------------------------------------------------
(***************************************************************************)
(* Revocation.  Once a grant was revoked with no stale copy of it around,  *)
(* every copy and the file itself carry the mark, and a new grant has a    *)
(* number of its own.                                                      *)
(***************************************************************************)
Issued(g) == issuedTo[g] # NoGrant

EndedInv ==
    /\ Readable => Issued(file.grant)
    /\ \A p \in Processes : pc[p] \in Holding => Issued(copy[p].grant)
    /\ \A g \in ended :
           /\ Issued(g)
           /\ Readable /\ file.grant = g => file.revoked
           /\ \A p \in Processes :
                  pc[p] \in Holding /\ copy[p].grant = g => copy[p].revoked

LEMMA EndedInit == Init => EndedInv
BY DEF Init, EndedInv, Readable, Unreadable, Holding, Truncated

LEMMA EndedStep == Base /\ EndedInv /\ [Next]_vars => EndedInv'
<1> SUFFICES ASSUME Base, EndedInv, [Next]_vars PROVE EndedInv'
    OBVIOUS
<1> USE DEF Base, TypeOK, HoldsOK, EndedInv, access, history, writes, Readable, Issued
<1>0. \A data \in Contents : /\ Spent(data) \in Contents /\ Revoked(data) \in Contents
                             /\ Revoked(data).revoked /\ Revoked(data).grant = data.grant
                             /\ Spent(data).grant = data.grant
                             /\ Spent(data).revoked = data.revoked
                             /\ data.grant \in Grants
    BY DEF Contents, Spent, Revoked
<1>a. Empty \in Unreadable /\ Garbled \in Unreadable
    BY DEF Unreadable
<1>1. ASSUME NEW h \in Hosts, Grant(h) PROVE EndedInv'
    <2>0. h \in Processes BY DEF Processes
    <2>1. PICK g \in Grants, o \in Operators :
              /\ issuedTo[g] = NoGrant
              /\ issuedTo' = [issuedTo EXCEPT ![g] = o]
              /\ Goto(h, "granting") /\ Hold(h, g, NewGrant(g))
        BY <1>1 DEF Grant
    <2>2. NewGrant(g).grant = g BY DEF NewGrant
    <2>3. \A f \in Grants : Issued(f) => Issued(f)' BY <2>1, Distinct
    <2>4. Issued(g)' BY <2>1, Distinct
    <2>5. g \notin ended BY <2>1
    <2>6. \A p \in Processes : pc[p] \in Holding => copy[p].grant \in Grants BY <1>0
    <2>7. Readable => file.grant \in Grants BY <1>0
    <2>8. file' = file /\ ended' = ended BY <1>1 DEF Grant
    <2>9. \A p \in Processes : pc'[p] \in Holding =>
             \/ p = h /\ copy'[p].grant = g
             \/ pc[p] \in Holding /\ copy'[p] = copy[p]
        BY <2>0, <2>1, <2>2 DEF Goto, Hold
    <2> QED BY <2>2, <2>3, <2>4, <2>5, <2>6, <2>7, <2>8, <2>9
<1>2. ASSUME NEW h \in Hosts, Revoke(h) PROVE EndedInv'
    <2>0. h \in Processes /\ file \in Contents BY <1>2 DEF Processes, Revoke
    <2> QED BY <1>2, <1>0, <2>0 DEF Revoke, Goto, Hold, Holding, Truncated
<1>3. ASSUME NEW w \in Workers, NEW g \in Grants, Consume(w, g) PROVE EndedInv'
    BY <1>3 DEF Processes, Consume, Goto, Hold, Holding, Truncated
<1>4. ASSUME NEW w \in Workers, ReadAgain(w) PROVE EndedInv'
    <2>0. w \in Processes /\ file \in Contents BY <1>4 DEF Processes, ReadAgain
    <2> QED BY <1>4, <1>0, <2>0 DEF ReadAgain, Goto, Holding, Truncated
<1>5. ASSUME NEW w \in Workers, CannotMark(w) PROVE EndedInv'
    BY <1>5 DEF Processes, CannotMark, Goto, Holding, Truncated
<1>6. ASSUME NEW w \in Workers, StartSession(w) PROVE EndedInv'
    BY <1>6 DEF Processes, StartSession, Release, Goto, Hold, Holding, Truncated
<1>7. ASSUME NEW p \in Processes, Truncate(p) PROVE EndedInv'
    BY <1>7, <1>a DEF Truncate, Goto, Holding, Truncated
<1>8. ASSUME NEW h \in Hosts, WriteGrant(h) PROVE EndedInv'
    <2>0. h \in Processes /\ pc[h] \in Holding
        BY <1>8 DEF Processes, WriteGrant, Holding, Truncated
    <2>1. file' \in {copy[h], Garbled} BY <1>8 DEF WriteGrant, Written
    <2>2. \A p \in Processes : pc'[p] \in Holding => pc[p] \in Holding /\ copy'[p] = copy[p]
        BY <1>8, <2>0 DEF WriteGrant, Release, Goto, Hold, Holding, Truncated
    <2> QED BY <1>8, <1>a, <2>0, <2>1, <2>2 DEF WriteGrant
<1>9. ASSUME NEW h \in Hosts, WriteRevocation(h) PROVE EndedInv'
    <2>0. /\ h \in Processes /\ pc[h] \in Holding
          /\ copy[h].grant = task[h] /\ copy[h].revoked /\ task[h] \in Grants
        BY <1>9 DEF Processes, WriteRevocation, Holding, Truncated
    <2>1. file' \in {copy[h], Garbled} BY <1>9 DEF WriteRevocation, Written
    <2>2. \A p \in Processes : pc'[p] \in Holding =>
              p # h /\ pc[p] \in Holding /\ copy'[p] = copy[p]
        BY <1>9, <2>0 DEF WriteRevocation, Release, Goto, Hold, Holding, Truncated
    <2>3. CASE StaleCopy(h, task[h])
        BY <1>9, <1>a, <2>0, <2>1, <2>2, <2>3 DEF WriteRevocation
    <2>4. CASE ~StaleCopy(h, task[h])
        <3>1. \A p \in Processes : pc'[p] \in Holding /\ copy'[p].grant = task[h] => copy'[p].revoked
            BY <2>2, <2>4 DEF StaleCopy
        <3>2. ended' = ended \cup {task[h]} BY <1>9, <2>4 DEF WriteRevocation
        <3> QED BY <1>9, <1>a, <2>0, <2>1, <2>2, <3>1, <3>2 DEF WriteRevocation
    <2> QED BY <2>3, <2>4
<1>10. ASSUME NEW w \in Workers, WriteMark(w) PROVE EndedInv'
    <2>0. w \in Processes /\ pc[w] \in Holding
        BY <1>10 DEF Processes, WriteMark, Holding, Truncated
    <2>1. file' \in {copy[w], Garbled} BY <1>10 DEF WriteMark, Written
    <2>2. \A p \in Processes : pc'[p] \in Holding => pc[p] \in Holding /\ copy'[p] = copy[p]
        BY <1>10, <2>0 DEF WriteMark, Goto, Holding, Truncated
    <2> QED BY <1>10, <1>a, <2>0, <2>1, <2>2 DEF WriteMark
<1>11. ASSUME NEW g \in Grants, EndSession(g) PROVE EndedInv'
    BY <1>11 DEF EndSession
<1>12. ASSUME NEW g \in Grants, WindowEnds(g) PROVE EndedInv'
    BY <1>12 DEF WindowEnds
<1>13. ASSUME NEW p \in Processes, Dies(p) PROVE EndedInv'
    BY <1>13 DEF Dies, Release, Goto, Hold, Holding, Truncated
<1>14. CASE UNCHANGED vars
    BY <1>14 DEF vars
<1> QED
    BY <1>1, <1>2, <1>3, <1>4, <1>5, <1>6, <1>7, <1>8, <1>9, <1>10, <1>11, <1>12, <1>13, <1>14
    DEF Next, HostStep, PanelStep

(***************************************************************************)
(* A revocation completed while nobody else was about to rewrite the grant *)
(* is never undone (provisioner.py:1747-1750, app.py:1951-1953).           *)
(***************************************************************************)
THEOREM CleanRevokeLasts == Spec => []CleanRevokeIsFinal
<1>1. EndedInv => CleanRevokeIsFinal BY DEF EndedInv, CleanRevokeIsFinal, Active
<1> QED BY <1>1, BaseAlways, EndedInit, EndedStep, PTL DEF Spec

(***************************************************************************)
(* A session holds the owner's rights only under a grant naming its        *)
(* operator that is in its window and was not revoked for good             *)
(* (app.py:991-1010).                                                      *)
(***************************************************************************)
THEOREM AuthorityStaysGranted == Spec => []AuthorityIsGranted
<1>1. Base /\ CleanRevokeIsFinal => AuthorityIsGranted
    <2> SUFFICES ASSUME Base, CleanRevokeIsFinal, NEW g \in sessions, MayAct(g)
                 PROVE \E f \in Grants : issuedTo[f] = issuedTo[g] /\ f \notin over /\ f \notin ended
        BY DEF AuthorityIsGranted
    <2>1. Active /\ issuedTo[file.grant] = issuedTo[g]
        BY DEF MayAct, SessionValid
    <2>2. file.grant \in Grants
        BY <2>1 DEF Active, Readable, Base, TypeOK, Contents
    <2>3. file.grant \notin over BY <2>1 DEF Active
    <2>4. file.grant \notin ended BY <2>1 DEF CleanRevokeIsFinal
    <2> QED BY <2>1, <2>2, <2>3, <2>4
<1> QED BY <1>1, BaseAlways, CleanRevokeLasts, PTL

-----------------------------------------------------------------------------
(***************************************************************************)
(* Grants nothing clashed over.  A handler working on such a grant is the  *)
(* only one running, so what it holds is what the file says: the token it  *)
(* checked is the one it burns, and the session that token opens is its    *)
(* first.  A clashing handler may end up with another's grant in hand, but *)
(* only with one that clashed too.                                         *)
(***************************************************************************)
Said == Readable /\ file.grant \notin clashed

ApartInv ==
    /\ \A p, q \in Busy : p # q => task[p] \in clashed /\ task[q] \in clashed
    /\ \A p \in Busy : Issued(task[p])
    /\ \A g \in opened : Issued(g)
    /\ Said => file.grant = latest /\ (file.grant \in opened => file.used)
    /\ \A p \in Processes : pc[p] \in Holding => copy[p].grant \in clashed \cup {task[p]}
    /\ \A p \in Processes : pc[p] = "checked" /\ Readable => file.grant \in clashed \cup {task[p]}
    /\ reused \subseteq clashed

HandlersInv ==
    \A p \in Busy : task[p] \notin clashed =>
        /\ pc[p] \in Truncated => file = Empty
        /\ pc[p] \in {"checked", "marking", "spent"} => Said /\ file.grant = task[p]
        /\ pc[p] = "spent" => file.used
        /\ pc[p] \in {"checked", "marking", "truncated_mark", "spent", "granting", "truncated_grant"}
               => task[p] \notin opened
        /\ pc[p] \in {"marking", "truncated_mark"} => copy[p].used /\ copy[p].grant = task[p]
        /\ pc[p] \in {"marking", "truncated_mark", "revoking", "truncated_revoke"}
               => task[p] = latest
        /\ pc[p] \in {"revoking", "truncated_revoke"} /\ task[p] \in opened => copy[p].used

LEMMA ApartInit == Init => ApartInv /\ HandlersInv
BY DEF Init, ApartInv, HandlersInv, Busy, Said, Readable, Unreadable, Holding, Truncated

\* A handler that begins clashes with all that run, and with nobody else.
LEMMA BeginClashes ==
    ASSUME Base, ApartInv, NEW p \in Processes, NEW g \in Grants, Begins(p, g),
           pc' \in [Processes -> Stages], \A q \in Processes \ {p} : pc'[q] = pc[q],
           \A q \in Processes \ {p} : task'[q] = task[q], task'[p] = g, pc'[p] # "idle"
    PROVE  /\ clashed \subseteq clashed'
           /\ \A q, r \in Busy' : q # r => task'[q] \in clashed' /\ task'[r] \in clashed'
           /\ \A q \in Busy' : task'[q] \notin clashed' => q = p /\ Busy = {} /\ clashed' = clashed
BY DEF Base, TypeOK, ApartInv, Begins, Busy

LEMMA ApartStep ==
    Base /\ EndedInv /\ ApartInv /\ HandlersInv /\ [Next]_vars => ApartInv' /\ HandlersInv'
<1> SUFFICES ASSUME Base, EndedInv, ApartInv, HandlersInv, [Next]_vars
             PROVE  ApartInv' /\ HandlersInv'
    OBVIOUS
<1> USE DEF access, history, writes
<1>0. \A data \in Contents : /\ Spent(data) \in Contents /\ Revoked(data) \in Contents
                             /\ Spent(data).grant = data.grant /\ Spent(data).used
                             /\ Revoked(data).grant = data.grant
                             /\ Revoked(data).used = data.used
                             /\ data.grant \in Grants /\ data.used \in BOOLEAN
    BY DEF Contents, Spent, Revoked
<1>a. Empty \in Unreadable /\ Garbled \in Unreadable
    BY DEF Unreadable
<1>b. \A data \in Contents : data \notin Unreadable /\ data # Garbled /\ data # Empty
    BY <1>a, ContentsAssumption
<1>c. Busy \subseteq Processes BY DEF Busy
<1>1. ASSUME NEW h \in Hosts, Grant(h) PROVE ApartInv' /\ HandlersInv'
    <2>0. h \in Processes BY DEF Processes
    <2>1. PICK g \in Grants, o \in Operators :
              /\ Begins(h, g)
              /\ issuedTo[g] = NoGrant
              /\ issuedTo' = [issuedTo EXCEPT ![g] = o]
              /\ Goto(h, "granting") /\ Hold(h, g, NewGrant(g))
        BY <1>1 DEF Grant
    <2>2. /\ clashed \subseteq clashed'
          /\ \A q, r \in Busy' : q # r => task'[q] \in clashed' /\ task'[r] \in clashed'
          /\ \A q \in Busy' : task'[q] \notin clashed' => q = h /\ Busy = {} /\ clashed' = clashed
        BY <2>0, <2>1, BeginClashes DEF Base, TypeOK, Goto, Hold, Stages
    <2>3. /\ UNCHANGED <<file, latest, opened, reused>>
          /\ g \notin opened
          /\ \A f \in Grants : Issued(f) => Issued(f)'
          /\ Issued(g)'
        BY <1>1, <2>1, Distinct DEF Grant, ApartInv, Issued, Base, TypeOK
    <2>4. /\ pc'[h] = "granting" /\ task'[h] = g /\ copy'[h].grant = g
          /\ \A q \in Processes \ {h} : pc'[q] = pc[q] /\ task'[q] = task[q] /\ copy'[q] = copy[q]
        BY <2>0, <2>1 DEF Goto, Hold, NewGrant, Base, TypeOK
    <2>5. ApartInv'
        BY <1>c, <2>0, <2>2, <2>3, <2>4 DEF ApartInv, Base, TypeOK, HoldsOK, Busy, Said, Readable
    <2>6. HandlersInv'
        BY <2>0, <2>2, <2>3, <2>4 DEF HandlersInv, Busy, Truncated
    <2> QED BY <2>5, <2>6
<1>2. ASSUME NEW h \in Hosts, Revoke(h) PROVE ApartInv' /\ HandlersInv'
    <2>0. h \in Processes /\ file \in Contents /\ Readable /\ Issued(file.grant)
        BY <1>2 DEF Processes, Revoke, Base, TypeOK, Readable, EndedInv
    <2>1. /\ Begins(h, file.grant) /\ file.grant \in Grants
          /\ Goto(h, "revoking") /\ Hold(h, file.grant, Revoked(file))
        BY <1>2, <1>0, <2>0 DEF Revoke
    <2>2. /\ clashed \subseteq clashed'
          /\ \A q, r \in Busy' : q # r => task'[q] \in clashed' /\ task'[r] \in clashed'
          /\ \A q \in Busy' : task'[q] \notin clashed' => q = h /\ Busy = {} /\ clashed' = clashed
        BY <2>0, <2>1, BeginClashes DEF Base, TypeOK, Goto, Hold, Stages
    <2>3. UNCHANGED <<file, issuedTo, latest, opened, reused>>
        BY <1>2 DEF Revoke
    <2>4. /\ pc'[h] = "revoking" /\ task'[h] = file.grant /\ copy'[h].grant = file.grant
          /\ copy'[h].used = file.used
          /\ \A q \in Processes \ {h} : pc'[q] = pc[q] /\ task'[q] = task[q] /\ copy'[q] = copy[q]
        BY <1>0, <2>0, <2>1 DEF Goto, Hold, Base, TypeOK
    <2>5. ApartInv'
        BY <1>c, <2>0, <2>2, <2>3, <2>4 DEF ApartInv, Base, TypeOK, HoldsOK, Busy, Said, Readable, Issued
    <2>6. HandlersInv'
        BY <2>0, <2>2, <2>3, <2>4 DEF HandlersInv, ApartInv, Said, Busy, Truncated
    <2> QED BY <2>5, <2>6
<1>3. ASSUME NEW w \in Workers, NEW g \in Grants, Consume(w, g) PROVE ApartInv' /\ HandlersInv'
    <2>0. w \in Processes /\ Readable /\ Issued(g) /\ file.grant = g /\ ~file.used
        BY <1>3 DEF Processes, Consume, Active, EndedInv
    <2>1. Begins(w, g) /\ Goto(w, "checked") /\ Hold(w, g, NoFile)
        BY <1>3 DEF Consume
    <2>2. /\ clashed \subseteq clashed'
          /\ \A q, r \in Busy' : q # r => task'[q] \in clashed' /\ task'[r] \in clashed'
          /\ \A q \in Busy' : task'[q] \notin clashed' => q = w /\ Busy = {} /\ clashed' = clashed
        BY <2>0, <2>1, BeginClashes DEF Base, TypeOK, Goto, Hold, Stages
    <2>3. UNCHANGED <<file, issuedTo, latest, opened, reused>>
        BY <1>3 DEF Consume
    <2>4. /\ pc'[w] = "checked" /\ task'[w] = g
          /\ \A q \in Processes \ {w} : pc'[q] = pc[q] /\ task'[q] = task[q] /\ copy'[q] = copy[q]
        BY <2>0, <2>1 DEF Goto, Hold, Base, TypeOK
    <2>5. ApartInv'
        BY <1>c, <2>0, <2>2, <2>3, <2>4
        DEF ApartInv, Base, TypeOK, HoldsOK, Busy, Said, Readable, Issued, Holding, Truncated
    <2>6. HandlersInv'
        BY <2>0, <2>2, <2>3, <2>4 DEF HandlersInv, ApartInv, Said, Readable, Busy, Truncated
    <2> QED BY <2>5, <2>6
<1>4. ASSUME NEW w \in Workers, ReadAgain(w) PROVE ApartInv' /\ HandlersInv'
    <2>0. w \in Processes /\ file \in Contents /\ Readable /\ pc[w] = "checked" /\ w \in Busy
        BY <1>4 DEF Processes, ReadAgain, Base, TypeOK, Readable, Busy
    <2>1. UNCHANGED <<file, issuedTo, task, latest, opened, reused, clashed>>
        BY <1>4 DEF ReadAgain
    <2>2. /\ pc'[w] = "marking" /\ copy'[w].grant = file.grant /\ copy'[w].used
          /\ \A q \in Processes \ {w} : pc'[q] = pc[q] /\ copy'[q] = copy[q]
        BY <1>4, <1>0, <2>0 DEF ReadAgain, Goto, Base, TypeOK
    <2>3. Busy' = Busy BY <2>0, <2>2 DEF Busy
    <2>4. ApartInv' BY <2>0, <2>1, <2>2, <2>3 DEF ApartInv, Said, Readable, Issued
    <2>5. HandlersInv' BY <2>0, <2>1, <2>2, <2>3 DEF HandlersInv, ApartInv, Said, Readable, Busy, Truncated
    <2> QED BY <2>4, <2>5
<1>5. ASSUME NEW w \in Workers, CannotMark(w) PROVE ApartInv' /\ HandlersInv'
    <2>0. w \in Processes /\ ~Readable /\ pc[w] = "checked" /\ w \in Busy
        BY <1>5 DEF Processes, CannotMark, Busy
    <2>1. UNCHANGED <<file, issuedTo, task, copy, latest, opened, reused, clashed>>
        BY <1>5 DEF CannotMark
    <2>2. pc'[w] = "spent" /\ \A q \in Processes \ {w} : pc'[q] = pc[q]
        BY <1>5, <2>0 DEF CannotMark, Goto, Base, TypeOK
    <2>3. Busy' = Busy BY <2>0, <2>2 DEF Busy
    <2>4. ApartInv'
        BY <2>0, <2>1, <2>2, <2>3 DEF ApartInv, Said, Readable, Issued, Holding, Truncated
    <2>5. HandlersInv' BY <2>0, <2>1, <2>2, <2>3 DEF HandlersInv, Said, Readable, Busy
    <2> QED BY <2>4, <2>5
<1>6. ASSUME NEW w \in Workers, StartSession(w) PROVE ApartInv' /\ HandlersInv'
    <2>0. w \in Processes /\ w \in Busy /\ pc[w] = "spent"
        BY <1>6 DEF Processes, StartSession, Busy
    <2>1. /\ UNCHANGED <<file, issuedTo, latest, clashed>>
          /\ opened' = opened \cup {task[w]} /\ reused' = reused \cup (opened \cap {task[w]})
        BY <1>6 DEF StartSession
    <2>2. pc'[w] = "idle" /\ \A q \in Processes \ {w} :
              pc'[q] = pc[q] /\ task'[q] = task[q] /\ copy'[q] = copy[q]
        BY <1>6, <2>0 DEF StartSession, Release, Goto, Hold, Base, TypeOK
    <2>3. Busy' = Busy \ {w} BY <2>0, <2>2 DEF Busy
    <2>4. ApartInv'
        BY <1>c, <2>0, <2>1, <2>2, <2>3
        DEF ApartInv, HandlersInv, Said, Readable, Issued, Holding, Truncated
    <2>5. HandlersInv'
        BY <1>c, <2>0, <2>1, <2>2, <2>3 DEF ApartInv, HandlersInv, Said, Readable
    <2> QED BY <2>4, <2>5
<1>7. ASSUME NEW p \in Processes, Truncate(p) PROVE ApartInv' /\ HandlersInv'
    <2>0. /\ pc[p] \in {"granting", "marking", "revoking"} /\ p \in Busy
          /\ file' = Empty
          /\ UNCHANGED <<issuedTo, task, copy, latest, opened, reused, clashed>>
        BY <1>7 DEF Truncate, Busy
    <2>1. ~Readable' BY <1>a, <2>0 DEF Readable
    <2>2. pc'[p] = TruncatedFrom[pc[p]] /\ \A q \in Processes \ {p} : pc'[q] = pc[q]
        BY <1>7 DEF Truncate, Goto, Base, TypeOK
    <2>3. Busy' = Busy BY <2>0, <2>2 DEF Busy, TruncatedFrom
    <2>4. ApartInv'
        BY <2>0, <2>1, <2>2, <2>3
        DEF ApartInv, Said, Issued, Holding, Truncated, TruncatedFrom
    <2>5. HandlersInv'
        <3>1. \A q \in Busy : task[q] \notin clashed => q = p \/ Busy \subseteq {q}
            BY DEF ApartInv
        <3> QED BY <2>0, <2>1, <2>2, <2>3, <3>1 DEF HandlersInv, Busy, Truncated, TruncatedFrom
    <2> QED BY <2>4, <2>5
<1>w. ASSUME NEW p \in Processes, pc[p] \in Truncated, file' \in Written(p)
      PROVE  /\ p \in Busy /\ copy[p] \in Contents /\ task[p] \in Grants
             /\ copy[p].grant \in clashed \cup {task[p]}
             /\ file' = copy[p] \/ (file' = Garbled /\ ~Readable')
             /\ task[p] \notin clashed => file' = copy[p] /\ copy[p].grant = task[p] /\ Busy = {p}
    <2>1. /\ p \in Busy /\ copy[p] \in Contents /\ task[p] \in Grants
          /\ copy[p].grant \in clashed \cup {task[p]}
        BY <1>w DEF Busy, Base, TypeOK, HoldsOK, Holding, Truncated, ApartInv
    <2>2. task[p] \notin clashed => file = Empty /\ Busy = {p} /\ copy[p].grant = task[p]
        BY <1>w, <2>1 DEF HandlersInv, ApartInv, Truncated, Base, HoldsOK
    <2> QED BY <1>w, <1>a, <2>1, <2>2 DEF Written, Readable
<1>8. ASSUME NEW h \in Hosts, WriteGrant(h) PROVE ApartInv' /\ HandlersInv'
    <2>0. h \in Processes /\ pc[h] = "truncated_grant"
        BY <1>8 DEF Processes, WriteGrant
    <2>1. /\ h \in Busy /\ copy[h] \in Contents /\ copy[h].grant = task[h]
          /\ file' = copy[h] \/ (file' = Garbled /\ ~Readable')
          /\ task[h] \notin clashed => file' = copy[h] /\ Busy = {h}
          /\ task[h] \in opened => task[h] \in clashed
        BY <1>8, <1>w, <2>0 DEF WriteGrant, Truncated, Base, HoldsOK, HandlersInv
    <2>2. UNCHANGED <<issuedTo, opened, reused, clashed>> /\ latest' = task[h]
        BY <1>8 DEF WriteGrant
    <2>3. pc'[h] = "idle" /\ \A q \in Processes \ {h} :
              pc'[q] = pc[q] /\ task'[q] = task[q] /\ copy'[q] = copy[q]
        BY <1>8, <2>0 DEF WriteGrant, Release, Goto, Hold, Base, TypeOK
    <2>4. Busy' = Busy \ {h} BY <2>0, <2>3 DEF Busy
    <2>5. ApartInv'
        BY <1>c, <2>0, <2>1, <2>2, <2>3, <2>4
        DEF ApartInv, HandlersInv, Said, Readable, Issued, Holding, Truncated, Busy
    <2>6. \A q \in Busy' : task'[q] \in clashed'
        BY <1>c, <2>1, <2>2, <2>3, <2>4 DEF ApartInv
    <2> QED BY <2>5, <2>6 DEF HandlersInv
<1>9. ASSUME NEW h \in Hosts, WriteRevocation(h) PROVE ApartInv' /\ HandlersInv'
    <2>0. h \in Processes /\ pc[h] = "truncated_revoke"
        BY <1>9 DEF Processes, WriteRevocation
    <2>1. /\ h \in Busy /\ copy[h] \in Contents /\ copy[h].grant = task[h]
          /\ file' = copy[h] \/ (file' = Garbled /\ ~Readable')
          /\ task[h] \notin clashed =>
                 /\ file' = copy[h] /\ Busy = {h} /\ task[h] = latest
                 /\ task[h] \in opened => copy[h].used
        BY <1>9, <1>w, <2>0 DEF WriteRevocation, Truncated, Base, HoldsOK, HandlersInv
    <2>2. UNCHANGED <<issuedTo, opened, reused, clashed, latest>>
        BY <1>9 DEF WriteRevocation
    <2>3. pc'[h] = "idle" /\ \A q \in Processes \ {h} :
              pc'[q] = pc[q] /\ task'[q] = task[q] /\ copy'[q] = copy[q]
        BY <1>9, <2>0 DEF WriteRevocation, Release, Goto, Hold, Base, TypeOK
    <2>4. Busy' = Busy \ {h} BY <2>0, <2>3 DEF Busy
    <2>5. ApartInv'
        BY <1>c, <2>0, <2>1, <2>2, <2>3, <2>4
        DEF ApartInv, HandlersInv, Said, Readable, Issued, Holding, Truncated, Busy
    <2>6. \A q \in Busy' : task'[q] \in clashed'
        BY <1>c, <2>1, <2>2, <2>3, <2>4 DEF ApartInv
    <2> QED BY <2>5, <2>6 DEF HandlersInv
<1>10. ASSUME NEW w \in Workers, WriteMark(w) PROVE ApartInv' /\ HandlersInv'
    <2>0. w \in Processes /\ pc[w] = "truncated_mark"
        BY <1>10 DEF Processes, WriteMark
    <2>1. /\ w \in Busy /\ copy[w] \in Contents /\ copy[w].grant \in clashed \cup {task[w]}
          /\ file' = copy[w] \/ (file' = Garbled /\ ~Readable')
          /\ task[w] \notin clashed =>
                 /\ file' = copy[w] /\ Busy = {w} /\ copy[w].grant = task[w] /\ task[w] = latest
                 /\ task[w] \notin opened /\ copy[w].used
        BY <1>10, <1>w, <2>0 DEF WriteMark, Truncated, HandlersInv
    <2>2. UNCHANGED <<issuedTo, task, opened, reused, clashed, latest>>
        BY <1>10 DEF WriteMark
    <2>3. pc'[w] = "spent" /\ \A q \in Processes \ {w} : pc'[q] = pc[q] /\ copy'[q] = copy[q]
        BY <1>10, <2>0 DEF WriteMark, Goto, Base, TypeOK
    <2>4. Busy' = Busy BY <2>0, <2>3 DEF Busy
    <2>5. \A q \in Busy : task[q] \notin clashed => Busy = {q}
        BY DEF ApartInv
    <2>6. ApartInv'
        BY <1>c, <2>0, <2>1, <2>2, <2>3, <2>4, <2>5
        DEF ApartInv, HandlersInv, Said, Readable, Issued, Holding, Truncated, Busy
    <2>7. HandlersInv'
        BY <1>b, <2>0, <2>1, <2>2, <2>3, <2>4, <2>5
        DEF HandlersInv, Said, Readable, Truncated
    <2> QED BY <2>6, <2>7
<1>11. ASSUME NEW g \in Grants, EndSession(g) PROVE ApartInv' /\ HandlersInv'
    BY <1>11 DEF EndSession, ApartInv, HandlersInv, Busy, Said, Readable, Issued
<1>12. ASSUME NEW g \in Grants, WindowEnds(g) PROVE ApartInv' /\ HandlersInv'
    BY <1>12 DEF WindowEnds, ApartInv, HandlersInv, Busy, Said, Readable, Issued
<1>13. ASSUME NEW p \in Processes, Dies(p) PROVE ApartInv' /\ HandlersInv'
    <2>1. pc'[p] = "idle" /\ \A q \in Processes \ {p} :
              pc'[q] = pc[q] /\ task'[q] = task[q] /\ copy'[q] = copy[q]
        BY <1>13 DEF Dies, Release, Goto, Hold, Base, TypeOK
    <2>2. UNCHANGED <<file, issuedTo, latest, opened, reused, clashed>>
        BY <1>13 DEF Dies
    <2>3. Busy' = Busy \ {p} BY <2>1 DEF Busy
    <2>4. ApartInv'
        BY <1>c, <2>1, <2>2, <2>3 DEF ApartInv, Said, Readable, Issued, Holding, Truncated
    <2>5. HandlersInv'
        BY <1>c, <2>1, <2>2, <2>3 DEF HandlersInv, Said, Readable
    <2> QED BY <2>4, <2>5
<1>14. CASE UNCHANGED vars
    BY <1>14 DEF vars, ApartInv, HandlersInv, Busy, Said, Readable, Issued
<1> QED
    BY <1>1, <1>2, <1>3, <1>4, <1>5, <1>6, <1>7, <1>8, <1>9, <1>10, <1>11, <1>12, <1>13, <1>14
    DEF Next, HostStep, PanelStep

LEMMA ApartAlways == Spec => []ApartInv
<1> QED BY ApartInit, ApartStep, BaseAlways, EndedInit, EndedStep, PTL DEF Spec

(***************************************************************************)
(* A token opens at most one session, unless a handler working on its      *)
(* grant ran while another handler did (app.py:1910, app.py:1946-1949).    *)
(***************************************************************************)
THEOREM TokenIsSingleUse == Spec => []TokenOpensOneSession
<1>1. ApartInv => TokenOpensOneSession BY DEF ApartInv, TokenOpensOneSession
<1> QED BY <1>1, ApartAlways, PTL

(***************************************************************************)
(* A replaced grant whose handlers clashed with nobody stays replaced      *)
(* (app.py:999-1001).                                                      *)
(***************************************************************************)
THEOREM NewestGrantStays == Spec => []NewestGrantRules
<1>1. ApartInv => NewestGrantRules BY DEF ApartInv, Said, NewestGrantRules
<1> QED BY <1>1, ApartAlways, PTL
=============================================================================

------------------------- MODULE SecretStoresProofs -------------------------
(***************************************************************************)
(* Theorems about SecretStores: what the order of a rotation's steps       *)
(* guarantees for any rows, owners, key files, rotations and services.     *)
(***************************************************************************)
EXTENDS SecretStores, TLAPS

LEMMA SealTypes ==
    /\ NoKey \notin Keys /\ Plain \notin Keys /\ Absent \notin Keys
    /\ Plain # Absent
    /\ \A k \in Keys : k \in Seals
BY SealAssumption DEF NoKey, Keys, Seals

LEMMA SealAllType ==
    ASSUME NEW items, NEW key \in Keys, seal \in [Items -> Seals]
    PROVE  /\ SealAll(items, key) \in [Items -> Seals]
           /\ \A i \in Items : SealAll(items, key)[i] = IF i \in items THEN key ELSE seal[i]
BY SealTypes DEF SealAll

LEMMA SealTotpType ==
    ASSUME NEW kept, NEW key \in Keys, seal \in [Items -> Seals]
    PROVE  /\ SealTotp(kept, key) \in [Items -> Seals]
           /\ \A i \in Items : SealTotp(kept, key)[i] =
                  IF i \in kept THEN key ELSE IF i \in Owners THEN Absent ELSE seal[i]
BY SealTypes DEF SealTotp, Seals

LEMMA NothingSeenType == NothingSeen \in [Rows -> [seal : Seals, value : 0..MaxSets]]
BY BoundAssumption DEF NothingSeen, Seals

\* The types, and that a command past its start has the keys it works with.
Base ==
    /\ TypeOK
    /\ pc # "idle" => master \in Keys
    /\ pc \in {"rotate_rows", "rotate_totp", "rotate_totp_write", "rotate_key",
               "rotate_rename"} => fresh \in Keys
    /\ pc = "rotate_rename" => nextFile = fresh

LEMMA BaseInit == Init => Base
<1> SUFFICES ASSUME Init PROVE Base
    OBVIOUS
<1>1. seal \in [Items -> Seals] BY DEF Init, Seals
<1>2. 0 \in 0..MaxKeys /\ 0 \in 0..MaxSets BY BoundAssumption
<1>3. value \in [Rows -> 0..MaxSets] BY <1>2 DEF Init
<1> QED BY <1>1, <1>2, <1>3, NothingSeenType DEF Init, Base, TypeOK, Steps

\* A command that ends forgets what it worked with.
LEMMA EndingTypes ==
    ASSUME Base, CommandEnds,
           UNCHANGED <<generated, stores>>, master' \in Keys \cup {NoKey},
           nextFile' \in Keys \cup {NoKey}, forced' \in BOOLEAN, interrupted' \in BOOLEAN
    PROVE  Base'
BY NothingSeenType DEF Base, TypeOK, CommandEnds, Steps, stores, content, calls

LEMMA CrossingTypes == ASSUME TypeOK, CrossCalls
    PROVE  /\ updates' \subseteq [row : Rows, under : Keys, crossed : BOOLEAN]
           /\ saves' \subseteq [kept : SUBSET Owners, crossed : BOOLEAN]
           /\ disturbed' \subseteq Items /\ making' = making
<1>1. \A u \in updates : Crossed(u) \in [row : Rows, under : Keys, crossed : BOOLEAN]
    BY DEF TypeOK, Crossed
<1>2. \A v \in saves : Crossed(v) \in [kept : SUBSET Owners, crossed : BOOLEAN]
    BY DEF TypeOK, Crossed
<1> QED BY <1>1, <1>2 DEF TypeOK, CrossCalls, Items

LEMMA NoteType == ASSUME TypeOK, NEW items \in SUBSET Items, NEW crossed, Note(items, crossed)
    PROVE  disturbed' \subseteq Items
BY DEF TypeOK, Note

LEMMA BaseStep == Base /\ [Next]_vars => Base'
<1> SUFFICES ASSUME Base, [Next]_vars PROVE Base'
    OBVIOUS
<1> USE DEF Base, TypeOK, stores, content, calls, command, lapses
<1>a. generated < MaxKeys => generated + 1 \in Keys /\ generated + 1 \in 0..MaxKeys
    BY BoundAssumption DEF Keys
<1>b. Snapshot \in [Rows -> [seal : Seals, value : 0..MaxSets]]
    BY DEF Snapshot, Items
<1>1. CASE InitKey
    BY <1>1, <1>a DEF InitKey, MayCommand, Steps
<1>2. CASE StartRotate
    BY <1>2, <1>a, <1>b, CrossingTypes DEF StartRotate, MayCommand, CanEncrypt, Steps
<1>3. CASE RotateRows
    <2>1. seal' \in [Items -> Seals] BY <1>3, SealAllType DEF RotateRows
    <2>2. value' \in [Rows -> 0..MaxSets] BY <1>3 DEF RotateRows, Rewritten
    <2> QED BY <1>3, <2>1, <2>2, NothingSeenType DEF RotateRows, Steps
<1>4. CASE RowsRollBack \/ MigrateDone \/ TotpFails \/ CommandDies \/ SwapKey
    BY <1>4, EndingTypes
    DEF RowsRollBack, MigrateDone, TotpFails, CommandDies, SwapKey
<1>5. CASE RotateTotp
    BY <1>5 DEF RotateTotp, LoadTotp, Steps, Enrolled
<1>6. CASE RotateTotpWrite
    <2>1. seal' \in [Items -> Seals] BY <1>6, SealTotpType DEF RotateTotpWrite, WriteTotp
    <2> QED BY <1>6, <2>1 DEF RotateTotpWrite, WriteTotp, Steps
<1>7. CASE WriteNewKey
    BY <1>7 DEF WriteNewKey, Steps
<1>9. CASE StartMigrate
    BY <1>9, <1>b, CrossingTypes DEF StartMigrate, MayCommand, CanEncrypt, Steps
<1>10. CASE MigrateRows
    <2>1. seal' \in [Items -> Seals] BY <1>10, SealAllType DEF MigrateRows
    <2>2. value' \in [Rows -> 0..MaxSets] BY <1>10 DEF MigrateRows, Rewritten
    <2> QED BY <1>10, <2>1, <2>2, NothingSeenType DEF MigrateRows, Steps
<1>11. CASE MigrateTotp
    BY <1>11 DEF MigrateTotp, LoadTotp, Steps, Enrolled
<1>12. CASE MigrateTotpWrite
    <2>1. seal' \in [Items -> Seals] BY <1>12, SealTotpType DEF MigrateTotpWrite, WriteTotp
    <2> QED BY <1>12, <2>1 DEF MigrateTotpWrite, WriteTotp, Steps
<1>13. ASSUME NEW k \in KeyFiles, MigrateKey(k) PROVE Base'
    BY <1>13, SealTypes DEF MigrateKey
<1>14. ASSUME NEW r \in Rows, SealCredential(r) PROVE Base'
    <2>1. master \in Keys BY <1>14 DEF SealCredential, CanEncrypt
    <2>2. [row |-> r, under |-> master, crossed |-> pc # "idle"]
              \in [row : Rows, under : Keys, crossed : BOOLEAN]
        BY <2>1
    <2>3. updates' \subseteq [row : Rows, under : Keys, crossed : BOOLEAN]
        BY <1>14, <2>2 DEF SealCredential
    <2> QED BY <1>14, <2>3 DEF SealCredential
<1>17. ASSUME NEW u \in updates, WriteCredential(u) PROVE Base'
    <2>1. u.row \in Rows /\ u.row \in Items /\ u.under \in Keys /\ u.under \in Seals
        BY SealTypes DEF Items
    <2>2. latest[u.row] + 1 \in 0..MaxSets BY <1>17, <2>1, BoundAssumption DEF WriteCredential
    <2>3. latest' \in [Rows -> 0..MaxSets] /\ latest'[u.row] = latest[u.row] + 1
        BY <1>17, <2>1, <2>2 DEF WriteCredential
    <2>4. value' \in [Rows -> 0..MaxSets] BY <1>17, <2>1, <2>2, <2>3 DEF WriteCredential
    <2>5. seal' \in [Items -> Seals] BY <1>17, <2>1 DEF WriteCredential
    <2>6. disturbed' \subseteq Items BY <1>17, <2>1, NoteType DEF WriteCredential
    <2> QED BY <1>17, <2>3, <2>4, <2>5, <2>6 DEF WriteCredential
<1>15. ASSUME NEW o \in Owners, NEW on \in BOOLEAN, LoadForSave(o, on) PROVE Base'
    <2> DEFINE kept == IF on THEN Enrolled \cup {o} ELSE Enrolled \ {o}
    <2>1. kept \in SUBSET Owners BY DEF Enrolled
    <2>2. [kept |-> kept, crossed |-> pc # "idle"] \in [kept : SUBSET Owners, crossed : BOOLEAN]
        BY <2>1
    <2>3. saves' \subseteq [kept : SUBSET Owners, crossed : BOOLEAN]
        BY <1>15, <2>2 DEF LoadForSave
    <2> QED BY <1>15, <2>3 DEF LoadForSave
<1>18. ASSUME NEW v \in saves, SaveTotp(v) PROVE Base'
    <2>1. master \in Keys BY <1>18 DEF SaveTotp, CanEncrypt
    <2>2. seal' \in [Items -> Seals] BY <1>18, <2>1, SealTotpType DEF SaveTotp
    <2>3. Owners \in SUBSET Items BY DEF Items
    <2>4. disturbed' \subseteq Items BY <1>18, <2>3, NoteType DEF SaveTotp
    <2> QED BY <1>18, <2>2, <2>4 DEF SaveTotp
<1>19. ASSUME NEW k \in KeyFiles, GenerateKey(k) PROVE Base'
    <2>1. {k} \in SUBSET Items BY DEF Items
    <2>2. disturbed' \subseteq Items BY <1>19, <2>1, NoteType DEF GenerateKey
    <2> QED BY <1>19, <2>2 DEF GenerateKey, Seals
<1>20. ASSUME NEW k \in KeyFiles, SealKey(k) PROVE Base'
    <2>1. k \in Items BY DEF Items
    <2>2. CanEncrypt => master \in Seals BY SealTypes DEF CanEncrypt
    <2>3. Doubled \in Seals BY DEF Seals
    <2>4. seal' \in [Items -> Seals] BY <1>20, <2>1, <2>2, <2>3 DEF SealKey
    <2> QED BY <1>20, <2>4 DEF SealKey
<1>21. CASE UNCHANGED vars
    BY <1>21 DEF vars
<1> QED
    BY <1>1, <1>2, <1>3, <1>4, <1>5, <1>6, <1>7, <1>9, <1>10, <1>11, <1>12, <1>13,
       <1>14, <1>15, <1>17, <1>18, <1>19, <1>20, <1>21
    DEF Next, Rotation, Migration, Service

LEMMA BaseAlways == Spec => []Base
BY BaseInit, BaseStep, PTL DEF Spec

(***************************************************************************)
(* The types hold in every reachable state (secretbox.py:55-75,            *)
(* cli.py:443-458).                                                        *)
(***************************************************************************)
THEOREM TypeCorrect == Spec => []TypeOK
<1>1. Base => TypeOK BY DEF Base
<1> QED BY <1>1, BaseAlways, PTL

(***************************************************************************)
(* No step writes a sealed credential or TOTP secret back in plaintext     *)
(* (totp.py:58-66, registry.py:594-606).                                   *)
(***************************************************************************)
THEOREM StaysSealed == Spec => NeverBackToPlaintext
<1> DEFINE Kept == \A i \in Rows \cup Owners : seal[i] \in Keys => seal'[i] # Plain
<1>1. Base /\ [Next]_vars => [Kept]_vars
    <2> SUFFICES ASSUME Base, Next PROVE Kept
        OBVIOUS
    <2> USE DEF Base, TypeOK, stores, content
    <2>0. \A i \in Rows \cup Owners : i \in Items /\ i \notin KeyFiles
        BY ItemAssumption DEF Items
    <2>1. \A i \in Items : seal[i] \in Keys => seal[i] # Plain
        BY SealTypes
    <2>2. CASE UNCHANGED seal
        BY <2>0, <2>1, <2>2
    <2>3. CASE RotateRows
        BY <2>0, <2>1, <2>3, SealAllType, SealTypes DEF RotateRows
    <2>4. CASE RotateTotpWrite
        BY <2>0, <2>1, <2>4, SealTotpType, SealTypes DEF RotateTotpWrite, WriteTotp
    <2>5. CASE MigrateRows
        BY <2>0, <2>1, <2>5, SealAllType, SealTypes DEF MigrateRows
    <2>6. CASE MigrateTotpWrite
        BY <2>0, <2>1, <2>6, SealTotpType, SealTypes DEF MigrateTotpWrite, WriteTotp
    <2>7. ASSUME NEW k \in KeyFiles, MigrateKey(k) \/ GenerateKey(k) \/ SealKey(k) PROVE Kept
        BY <2>0, <2>1, <2>7 DEF MigrateKey, GenerateKey, SealKey
    <2>8. ASSUME NEW u \in updates, WriteCredential(u) PROVE Kept
        <3>1. u.row \in Rows /\ u.under \in Keys OBVIOUS
        <3> QED BY <2>0, <2>1, <2>8, <3>1, SealTypes DEF WriteCredential
    <2>9. ASSUME NEW v \in saves, SaveTotp(v) PROVE Kept
        <3>1. master \in Keys BY <2>9 DEF SaveTotp, CanEncrypt
        <3> QED BY <2>0, <2>1, <2>9, <3>1, SealTotpType, SealTypes DEF SaveTotp
    <2>10. CASE InitKey \/ StartRotate \/ RowsRollBack \/ RotateTotp \/ WriteNewKey \/ SwapKey
                \/ StartMigrate \/ MigrateTotp \/ MigrateDone \/ TotpFails \/ CommandDies
        BY <2>2, <2>10 DEF InitKey, StartRotate, RowsRollBack, RotateTotp, WriteNewKey, SwapKey,
                           StartMigrate, MigrateTotp, LoadTotp, MigrateDone, TotpFails, CommandDies
    <2>11. ASSUME NEW r \in Rows, SealCredential(r) PROVE Kept
        BY <2>2, <2>11 DEF SealCredential
    <2>12. ASSUME NEW o \in Owners, NEW on \in BOOLEAN, LoadForSave(o, on) PROVE Kept
        BY <2>2, <2>12 DEF LoadForSave
    <2> QED
        BY <2>3, <2>4, <2>5, <2>6, <2>7, <2>8, <2>9, <2>10, <2>11, <2>12
        DEF Next, Rotation, Migration, Service
<1> QED BY <1>1, BaseAlways, PTL DEF Spec, NeverBackToPlaintext

-----------------------------------------------------------------------------
(***************************************************************************)
(* Service calls beside commands.  A call that overlapped no command       *)
(* carries the key that is on disk still.                                  *)
(***************************************************************************)
CallsInv ==
    /\ pc # "idle" => \A c \in updates \cup saves : c.crossed
    /\ \A u \in updates : master # NoKey /\ (u.crossed \/ forced \/ u.under = master)
    /\ saves # {} => Owners # {}

LEMMA CrossingStep ==
    ASSUME TypeOK, CallsInv, CrossCalls, UNCHANGED <<master, forced>>
    PROVE  CallsInv'
<1>1. \A u \in updates : Crossed(u).crossed /\ Crossed(u).under = u.under
    BY DEF TypeOK, Crossed
<1>2. \A v \in saves : Crossed(v).crossed
    BY DEF TypeOK, Crossed
<1> QED BY <1>1, <1>2 DEF CallsInv, CrossCalls

LEMMA CallsStep == ASSUME Base, CallsInv, [Next]_vars PROVE CallsInv'
<1> USE DEF Base, TypeOK, CallsInv, stores, content, calls, command, lapses
<1>1. CASE InitKey
    <2>0. master' # NoKey
        BY <1>1, BoundAssumption DEF InitKey, NoKey
    <2>1. master' # NoKey /\ (updates # {} => forced')
        BY <1>1, <2>0 DEF InitKey
    <2> QED BY <1>1, <2>1 DEF InitKey, MayCommand
<1>2. CASE StartRotate \/ StartMigrate
    BY <1>2, CrossingStep DEF StartRotate, StartMigrate
<1>3. CASE SwapKey
    BY <1>3, SealTypes DEF SwapKey, CommandEnds
<1>4. ASSUME UNCHANGED <<updates, saves, master, forced>>, pc # "idle"
      PROVE  CallsInv'
    BY <1>4
<1>5. ASSUME UNCHANGED <<updates, saves, master, forced, pc>> PROVE CallsInv'
    BY <1>5
<1>6. CASE \/ RotateRows \/ RowsRollBack \/ RotateTotp \/ RotateTotpWrite \/ WriteNewKey
           \/ MigrateRows \/ MigrateTotp \/ MigrateTotpWrite \/ MigrateDone
           \/ TotpFails \/ CommandDies
    BY <1>4, <1>6
    DEF RotateRows, RowsRollBack, RotateTotp, RotateTotpWrite, LoadTotp, WriteTotp, WriteNewKey,
        MigrateRows, MigrateTotp, MigrateTotpWrite, MigrateDone, TotpFails, CommandDies
<1>7. ASSUME NEW k \in KeyFiles, MigrateKey(k) \/ GenerateKey(k) \/ SealKey(k) PROVE CallsInv'
    BY <1>5, <1>7 DEF MigrateKey, GenerateKey, SealKey
<1>8. ASSUME NEW r \in Rows, SealCredential(r) PROVE CallsInv'
    <2> DEFINE call == [row |-> r, under |-> master, crossed |-> pc # "idle"]
    <2>1. updates' = updates \cup {call} /\ master # NoKey
          /\ UNCHANGED <<saves, master, forced, pc>>
        BY <1>8 DEF SealCredential, CanEncrypt
    <2>2. call.under = master /\ call.crossed = (pc # "idle")
        OBVIOUS
    <2> HIDE DEF call
    <2> QED BY <2>1, <2>2
<1>9. ASSUME NEW u \in updates, WriteCredential(u) PROVE CallsInv'
    BY <1>9 DEF WriteCredential
<1>10. ASSUME NEW o \in Owners, NEW on \in BOOLEAN, LoadForSave(o, on) PROVE CallsInv'
    <2> DEFINE kept == IF on THEN Enrolled \cup {o} ELSE Enrolled \ {o}
               call == [kept |-> kept, crossed |-> pc # "idle"]
    <2>1. saves' = saves \cup {call} /\ UNCHANGED <<updates, master, forced, pc>>
        BY <1>10 DEF LoadForSave
    <2>2. call.crossed = (pc # "idle")
        OBVIOUS
    <2> HIDE DEF call
    <2> QED BY <2>1, <2>2
<1>11. ASSUME NEW v \in saves, SaveTotp(v) PROVE CallsInv'
    BY <1>11 DEF SaveTotp
<1>12. CASE UNCHANGED vars
    BY <1>5, <1>12 DEF vars
<1> QED
    BY <1>1, <1>2, <1>3, <1>6, <1>7, <1>8, <1>9, <1>10, <1>11, <1>12
    DEF Next, Rotation, Migration, Service

-----------------------------------------------------------------------------
(***************************************************************************)
(* Rotation, for the entries no call across a command wrote.  Until the    *)
(* rows are rewritten they open with the key on disk; from then on the     *)
(* rows, and after the TOTP file was written all of them, carry the fresh  *)
(* key, and the rename makes that the key on disk.                         *)
(***************************************************************************)
RowsUnder(key) == \A r \in Rows : seal[r] # Absent /\ Undisturbed(r) => seal[r] = key
AllUnder(key) == \A i \in Credentials : Undisturbed(i) => OpensWith(key, seal[i])

BeforeRewrite == {"idle", "rotate_rows", "migrate_rows", "migrate_totp",
                  "migrate_totp_write", "migrate_keys"}
TotpOpened == {"rotate_totp_write", "migrate_totp_write"}

RotationInv ==
    /\ pc \in BeforeRewrite /\ ~forced /\ ~interrupted =>
           /\ IF master = NoKey THEN \A i \in Credentials : Undisturbed(i) => seal[i] = Plain
              ELSE AllUnder(master)
           /\ TotpUndisturbed /\ torn # "no" => pc = "migrate_totp_write"
    /\ pc \in {"rotate_rows", "migrate_rows"} =>
           \A r \in Rows : Undisturbed(r) => seen[r] = [seal |-> seal[r], value |-> value[r]]
    /\ pc \in {"rotate_totp", "rotate_totp_write"} => RowsUnder(fresh)
    /\ pc \in TotpOpened /\ TotpUndisturbed => entries = Enrolled /\ torn = "empty"
    /\ pc \in {"rotate_key", "rotate_rename"} =>
           AllUnder(fresh) /\ (TotpUndisturbed => torn = "no")

LEMMA UndisturbedRows ==
    /\ \A r \in Rows : r \notin Owners /\ (Undisturbed(r) <=> r \notin disturbed)
    /\ \A o \in Owners : o \notin Rows /\ (Undisturbed(o) <=> TotpUndisturbed)
    /\ \A i \in Rows \cup Owners : i \in Items /\ i \notin KeyFiles
BY ItemAssumption DEF Undisturbed, Items

LEMMA RotationInit == Init => RotationInv
BY DEF Init, RotationInv, Credentials, BeforeRewrite, TotpOpened, Items

LEMMA RotateStep ==
    ASSUME Base, RotationInv, Rotation PROVE RotationInv'
<1> USE DEF Base, TypeOK, RotationInv, BeforeRewrite, TotpOpened, stores, content, calls, command,
            lapses, RowsUnder, AllUnder, Credentials, OpensWith, TotpUndisturbed
<1>u. /\ \A i \in Rows \cup Owners : i \in Items /\ i \notin KeyFiles
      /\ \A r \in Rows : r \notin Owners
    BY UndisturbedRows
<1>d. disturbed' = disturbed =>
          TotpUndisturbed' = TotpUndisturbed /\ \A i : Undisturbed(i)' = Undisturbed(i)
    BY DEF Undisturbed
<1>2. CASE StartRotate
    <2>1. /\ \A i : Undisturbed(i)' => Undisturbed(i)
          /\ TotpUndisturbed' => TotpUndisturbed
        BY <1>2 DEF StartRotate, CrossCalls, Undisturbed
    <2>2. \A r \in Rows : seen'[r] = [seal |-> seal[r], value |-> value[r]]
        BY <1>2 DEF StartRotate, Snapshot
    <2> QED BY <1>2, <2>1, <2>2 DEF StartRotate, MayCommand, CanEncrypt
<1>3. CASE RotateRows
    <2>0. pc = "rotate_rows" /\ pc' = "rotate_totp" /\ fresh' = fresh /\ disturbed' = disturbed
        BY <1>3 DEF RotateRows
    <2>1. ASSUME NEW r \in Rows, seal'[r] # Absent, Undisturbed(r) PROVE seal'[r] = fresh
        <3>1. seen[r].seal = seal[r] BY <2>0, <2>1
        <3> QED BY <1>3, <1>u, <2>1, <3>1, SealAllType DEF RotateRows, Resealed, Known
    <2>2. RowsUnder(fresh)'
        BY <1>d, <2>0, <2>1
    <2> QED BY <2>0, <2>2
<1>4. CASE RowsRollBack
    BY <1>4, <1>d DEF RowsRollBack, CommandEnds
<1>5. CASE RotateTotp
    <2>1. CASE Enrolled = {}
        <3>1. AllUnder(fresh) BY <1>5, <2>1 DEF RotateTotp, LoadTotp, Enrolled
        <3> QED BY <1>5, <1>d, <2>1, <3>1 DEF RotateTotp, LoadTotp, TotpLoads
    <2>2. CASE Enrolled # {}
        BY <1>5, <1>d, <2>2 DEF RotateTotp, LoadTotp, Enrolled
    <2> QED BY <2>1, <2>2
<1>6. CASE RotateTotpWrite
    <2>1. \A i \in Rows \cup Owners :
              seal'[i] = IF i \in entries THEN fresh ELSE IF i \in Owners THEN Absent ELSE seal[i]
        BY <1>6, <1>u, SealTotpType DEF RotateTotpWrite, WriteTotp
    <2>2. \A i \in Rows \cup Owners : seal'[i] # Absent /\ Undisturbed(i) => seal'[i] = fresh
        BY <1>6, <1>u, <2>1 DEF RotateTotpWrite, WriteTotp
    <2>3. TotpUndisturbed => torn' = "no"
        BY <1>6 DEF RotateTotpWrite, WriteTotp
    <2> QED BY <1>6, <1>d, <2>2, <2>3 DEF RotateTotpWrite, WriteTotp
<1>7. CASE WriteNewKey
    BY <1>7, <1>d DEF WriteNewKey
<1>8. CASE SwapKey
    BY <1>8, <1>d, SealTypes DEF SwapKey, CommandEnds
<1> QED BY <1>2, <1>3, <1>4, <1>5, <1>6, <1>7, <1>8 DEF Rotation

LEMMA MigrateStep ==
    ASSUME Base, RotationInv, Migration \/ InitKey \/ TotpFails \/ CommandDies PROVE RotationInv'
<1> USE DEF Base, TypeOK, RotationInv, BeforeRewrite, TotpOpened, stores, content, calls, command,
            lapses, RowsUnder, AllUnder, Credentials, OpensWith, TotpUndisturbed
<1>u. /\ \A i \in Rows \cup Owners : i \in Items /\ i \notin KeyFiles
      /\ \A r \in Rows : r \notin Owners
    BY UndisturbedRows
<1>d. disturbed' = disturbed =>
          TotpUndisturbed' = TotpUndisturbed /\ \A i : Undisturbed(i)' = Undisturbed(i)
    BY DEF Undisturbed
<1>1. CASE InitKey
    <2>1. pc = "idle" /\ pc' = "idle" /\ seal' = seal /\ torn' = torn /\ interrupted' = interrupted
        BY <1>1 DEF InitKey, MayCommand
    <2>2. ~forced' => ~forced /\ master = NoKey
        BY <1>1 DEF InitKey
    <2> QED BY <1>1, <1>d, <2>1, <2>2 DEF InitKey
<1>9. CASE StartMigrate
    <2>1. /\ \A i : Undisturbed(i)' => Undisturbed(i)
          /\ TotpUndisturbed' => TotpUndisturbed
        BY <1>9 DEF StartMigrate, CrossCalls, Undisturbed
    <2>2. \A r \in Rows : seen'[r] = [seal |-> seal[r], value |-> value[r]]
        BY <1>9 DEF StartMigrate, Snapshot
    <2> QED BY <1>9, <2>1, <2>2 DEF StartMigrate, MayCommand, CanEncrypt
<1>10. CASE MigrateRows
    <2>1. \A i \in Rows \cup Owners : Undisturbed(i) =>
              seal'[i] = IF i \in Rows /\ seal[i] = Plain THEN master ELSE seal[i]
        BY <1>10, <1>u, SealAllType DEF MigrateRows
    <2>2. master # NoKey BY <1>10, SealTypes DEF MigrateRows
    <2> QED BY <1>10, <1>d, <2>1, <2>2 DEF MigrateRows
<1>11. CASE MigrateTotp
    BY <1>11, <1>d DEF MigrateTotp, LoadTotp, Enrolled
<1>12. CASE MigrateTotpWrite
    <2>1. \A i \in Rows \cup Owners :
              seal'[i] = IF i \in entries THEN master ELSE IF i \in Owners THEN Absent ELSE seal[i]
        BY <1>12, <1>u, SealTotpType DEF MigrateTotpWrite, WriteTotp
    <2>2. master # NoKey BY <1>12, SealTypes DEF MigrateTotpWrite, WriteTotp
    <2>3. TotpUndisturbed => torn' = "no"
        BY <1>12 DEF MigrateTotpWrite, WriteTotp
    <2> QED BY <1>12, <1>u, <1>d, <2>1, <2>2, <2>3 DEF MigrateTotpWrite, WriteTotp
<1>13. ASSUME NEW k \in KeyFiles, MigrateKey(k) PROVE RotationInv'
    <2>1. \A i \in Rows \cup Owners : seal'[i] = seal[i] BY <1>13, <1>u DEF MigrateKey
    <2> QED BY <1>13, <1>d, <2>1 DEF MigrateKey
<1>14. CASE MigrateDone
    BY <1>14, <1>d DEF MigrateDone, CommandEnds
<1>15. CASE TotpFails
    BY <1>15, <1>d DEF TotpFails, CommandEnds
<1>16. CASE CommandDies
    BY <1>16, <1>d DEF CommandDies, CommandEnds, Steps
<1> QED BY <1>1, <1>9, <1>10, <1>11, <1>12, <1>13, <1>14, <1>15, <1>16 DEF Migration

LEMMA ServiceStep ==
    ASSUME Base, CallsInv, RotationInv, Service PROVE RotationInv'
<1> USE DEF Base, TypeOK, RotationInv, BeforeRewrite, TotpOpened, stores, content, calls, command,
            lapses, RowsUnder, AllUnder, Credentials, OpensWith
<1>u. /\ \A i \in Rows \cup Owners : i \in Items /\ i \notin KeyFiles
      /\ \A r \in Rows : r \notin Owners /\ (Undisturbed(r) <=> r \notin disturbed)
      /\ \A o \in Owners : o \notin Rows /\ (Undisturbed(o) <=> TotpUndisturbed)
    BY UndisturbedRows
<1>v. /\ \A r \in Rows : Undisturbed(r)' <=> r \notin disturbed'
      /\ \A o \in Owners : Undisturbed(o)' <=> TotpUndisturbed'
    BY UndisturbedRows DEF Undisturbed, TotpUndisturbed
<1>d. disturbed' = disturbed =>
          TotpUndisturbed' = TotpUndisturbed /\ \A i : Undisturbed(i)' = Undisturbed(i)
    BY DEF Undisturbed, TotpUndisturbed
<1>1. ASSUME NEW r \in Rows, SealCredential(r) PROVE RotationInv'
    BY <1>1, <1>d DEF SealCredential, Enrolled
<1>2. ASSUME NEW o \in Owners, NEW on \in BOOLEAN, LoadForSave(o, on) PROVE RotationInv'
    BY <1>2, <1>d DEF LoadForSave, Enrolled
<1>3. ASSUME NEW u \in updates, WriteCredential(u) PROVE RotationInv'
    <2>0. u.row \in Rows /\ u.row \notin Owners /\ u.crossed \in BOOLEAN
        BY <1>u
    <2>1. \A i \in Rows \cup Owners :
              seal'[i] = (IF i = u.row THEN u.under ELSE seal[i])
        BY <1>3, <1>u DEF WriteCredential
    <2>2. \A r \in Rows : value'[r] = IF r = u.row THEN latest'[r] ELSE value[r]
        BY <1>3 DEF WriteCredential
    <2>3. disturbed' = IF u.crossed THEN disturbed \cup {u.row} ELSE disturbed \ {u.row}
        BY <1>3 DEF WriteCredential, Note
    <2>4. TotpUndisturbed' = TotpUndisturbed
        BY <2>0, <2>3 DEF TotpUndisturbed
    <2>5. \A i \in Rows \cup Owners : i # u.row => (Undisturbed(i)' <=> Undisturbed(i))
        BY <1>u, <1>v, <2>0, <2>3, <2>4
    <2>6. pc # "idle" => ~Undisturbed(u.row)'
        BY <1>v, <2>0, <2>3 DEF CallsInv
    <2>7. ~forced /\ Undisturbed(u.row)' => u.under = master
        BY <1>v, <2>0, <2>3 DEF CallsInv
    <2>8. master # NoKey
        BY DEF CallsInv
    <2>9. Enrolled' = Enrolled
        BY <1>u, <2>0, <2>1 DEF Enrolled
    <2>10. UNCHANGED <<master, torn, pc, fresh, seen, entries, forced, interrupted>>
        BY <1>3 DEF WriteCredential
    <2> QED BY <1>u, <2>1, <2>2, <2>4, <2>5, <2>6, <2>7, <2>8, <2>9, <2>10
<1>4. ASSUME NEW v \in saves, SaveTotp(v) PROVE RotationInv'
    <2>0. master \in Keys /\ master # NoKey /\ v.kept \subseteq Owners /\ Owners # {}
        BY <1>4 DEF SaveTotp, CanEncrypt, CallsInv
    <2>1. \A i \in Rows \cup Owners :
              seal'[i] = IF i \in v.kept THEN master ELSE IF i \in Owners THEN Absent ELSE seal[i]
        BY <1>4, <1>u, <2>0, SealTotpType DEF SaveTotp
    <2>2. disturbed' = IF v.crossed THEN disturbed \cup Owners ELSE disturbed \ Owners
        BY <1>4 DEF SaveTotp, Note
    <2>3. \A r \in Rows : seal'[r] = seal[r] /\ (Undisturbed(r)' <=> Undisturbed(r))
        BY <1>u, <1>v, <2>0, <2>1, <2>2
    <2>4. pc # "idle" => v.crossed
        BY DEF CallsInv
    <2>5. v.crossed => ~TotpUndisturbed' /\ \A o \in Owners : ~Undisturbed(o)'
        BY <1>v, <2>0, <2>2 DEF TotpUndisturbed
    <2>6. \A o \in Owners : seal'[o] \in {master, Absent}
        BY <2>1
    <2>7. torn' = "no" \/ ~TotpUndisturbed'
        BY <1>4, <2>4, <2>5 DEF SaveTotp
    <2>8. UNCHANGED <<master, value, pc, fresh, seen, entries, forced, interrupted>>
        BY <1>4 DEF SaveTotp
    <2> QED BY <1>u, <2>0, <2>3, <2>4, <2>5, <2>6, <2>7, <2>8
<1>5. ASSUME NEW k \in KeyFiles, GenerateKey(k) \/ SealKey(k) PROVE RotationInv'
    <2>1. \A i \in Rows \cup Owners : i # k /\ seal'[i] = seal[i]
        BY <1>5, <1>u DEF GenerateKey, SealKey
    <2>2. \A i \in Rows \cup Owners : i \in disturbed' <=> i \in disturbed
        BY <1>5, <2>1 DEF GenerateKey, SealKey, Note
    <2>3. TotpUndisturbed' = TotpUndisturbed /\ Enrolled' = Enrolled
          /\ \A i \in Rows \cup Owners : Undisturbed(i)' = Undisturbed(i)
        BY <2>1, <2>2 DEF TotpUndisturbed, Undisturbed, Enrolled
    <2>4. UNCHANGED <<master, value, torn, pc, fresh, seen, entries, forced, interrupted>>
        BY <1>5 DEF GenerateKey, SealKey
    <2> QED BY <2>1, <2>3, <2>4
<1> QED BY <1>1, <1>2, <1>3, <1>4, <1>5 DEF Service

LEMMA RotationStep ==
    ASSUME Base, CallsInv, RotationInv, [Next]_vars PROVE RotationInv'
<1>1. CASE UNCHANGED vars
    BY <1>1 DEF vars, stores, content, calls, command, lapses, RotationInv, BeforeRewrite,
                TotpOpened, RowsUnder, AllUnder, Credentials, TotpUndisturbed, Undisturbed, Enrolled
<1> QED BY <1>1, RotateStep, MigrateStep, ServiceStep DEF Next

LEMMA RotationAlways == Spec => [](Base /\ CallsInv /\ RotationInv)
<1>1. Init => CallsInv
    BY DEF Init, CallsInv
<1>2. Base /\ CallsInv /\ [Next]_vars => CallsInv'
    BY CallsStep
<1>3. Base /\ CallsInv /\ RotationInv /\ [Next]_vars => RotationInv'
    BY RotationStep
<1> QED BY <1>1, <1>2, <1>3, BaseAlways, RotationInit, PTL DEF Spec

(***************************************************************************)
(* The key about to be swapped in opens every row and every TOTP secret    *)
(* (cli.py:452-458), whatever services do meanwhile, but for what they     *)
(* write in calls that overlap a command.                                  *)
(***************************************************************************)
THEOREM NewKeyIsReady == Spec => []NewKeyOpensBothStores
<1>1. Base /\ RotationInv => NewKeyOpensBothStores
    BY DEF Base, RotationInv, AllUnder, NewKeyOpensBothStores
<1> QED BY <1>1, RotationAlways, PTL

(***************************************************************************)
(* Between commands everything that no call across a command wrote opens   *)
(* with the key on disk, unless a key was thrown away or a command was     *)
(* stopped half way (cli.py:430-434).                                      *)
(***************************************************************************)
THEOREM StaysReadable == Spec => []ReadableUnlessInterrupted
<1>1. Base /\ RotationInv => ReadableUnlessInterrupted
    BY DEF Base, RotationInv, AllUnder, BeforeRewrite, ReadableUnlessInterrupted, CanOpen, CanEncrypt
<1> QED BY <1>1, RotationAlways, PTL

-----------------------------------------------------------------------------
RowsCurrent == \A r \in Rows : Undisturbed(r) => value[r] = latest[r]

LEMMA ValueStep ==
    ASSUME Base, RotationInv, RowsCurrent, [Next]_vars PROVE RowsCurrent'
<1> USE DEF Base, TypeOK, RowsCurrent
<1>u. \A r \in Rows : (Undisturbed(r) <=> r \notin disturbed)
                      /\ (Undisturbed(r)' <=> r \notin disturbed')
    BY UndisturbedRows DEF Undisturbed
<1>1. ASSUME pc \in {"rotate_rows", "migrate_rows"}, NEW S \in SUBSET Rows,
             value' = [r \in Rows |-> IF r \in S THEN Rewritten(r) ELSE value[r]],
             UNCHANGED <<latest, disturbed>>
      PROVE  RowsCurrent'
    <2>1. \A r \in Rows : Undisturbed(r) => seen[r].value = value[r]
        BY <1>1 DEF RotationInv
    <2> QED BY <1>1, <1>u, <2>1 DEF Rewritten
<1>2. CASE RotateRows
    BY <1>1, <1>2 DEF RotateRows, Resealed, Known, calls
<1>3. CASE MigrateRows
    <2>1. {r \in Rows : seen[r].seal = Plain} \in SUBSET Rows OBVIOUS
    <2> QED BY <1>1, <1>3, <2>1 DEF MigrateRows, calls
<1>4. ASSUME NEW u \in updates, WriteCredential(u) PROVE RowsCurrent'
    <2>1. \A r \in Rows : r # u.row => (Undisturbed(r)' <=> Undisturbed(r))
        BY <1>4, <1>u DEF WriteCredential, Note
    <2> QED BY <1>4, <2>1 DEF WriteCredential
<1>5. ASSUME UNCHANGED <<value, latest>>, \A r \in Rows : r \in disturbed => r \in disturbed'
      PROVE  RowsCurrent'
    BY <1>5, <1>u
<1>6. CASE StartRotate \/ StartMigrate
    BY <1>5, <1>6 DEF StartRotate, StartMigrate, CrossCalls, content
<1>7. ASSUME NEW v \in saves, SaveTotp(v) PROVE RowsCurrent'
    BY <1>5, <1>7, UndisturbedRows DEF SaveTotp, Note
<1>8. ASSUME NEW k \in KeyFiles, GenerateKey(k) PROVE RowsCurrent'
    BY <1>5, <1>8, UndisturbedRows DEF GenerateKey, Note
<1>9. CASE UNCHANGED <<value, latest, disturbed>>
    BY <1>5, <1>9
<1> QED
    BY <1>2, <1>3, <1>4, <1>6, <1>7, <1>8, <1>9
    DEF Next, Rotation, Migration, Service, vars, stores, content, calls, InitKey, RowsRollBack,
        RotateTotp, RotateTotpWrite, LoadTotp, WriteTotp, WriteNewKey, SwapKey, MigrateTotp,
        MigrateTotpWrite, MigrateKey, MigrateDone, TotpFails, CommandDies, SealCredential,
        LoadForSave, SealKey

(***************************************************************************)
(* A rotation or a migration leaves every row what was set last, wherever  *)
(* it stops, but for a row set in a call that overlapped it                *)
(* (registry.py:570-652).                                                  *)
(***************************************************************************)
THEOREM RowsShowWhatWasSet == Spec => []ShowsWhatWasSet
<1>1. Init => RowsCurrent BY DEF Init, RowsCurrent
<1>2. Base /\ RotationInv /\ RowsCurrent /\ [Next]_vars => RowsCurrent'
    BY ValueStep
<1>3. RowsCurrent => ShowsWhatWasSet BY DEF ShowsWhatWasSet, RowsCurrent
<1> QED BY <1>1, <1>2, <1>3, RotationAlways, PTL DEF Spec
=============================================================================

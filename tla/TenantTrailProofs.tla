--------------------------- MODULE TenantTrailProofs ---------------------------
(***************************************************************************)
(* Theorems about TenantTrail, for any number of writers, any limit and    *)
(* any number of entries and kills.                                        *)
(***************************************************************************)
EXTENDS TenantTrail, Integers, FiniteSetTheorems, SequenceTheorems, TLAPS

Active(w) == phase[w] \in {"locked", "truncated"}

\* Who holds the lock, and what a writer has at hand in each phase.
Locking ==
    /\ \A w \in Writers :
          /\ Active(w) <=> lock = w
          /\ Active(w) => written < MaxWrites
          /\ phase[w] = "truncated" => MustTrim(w)
          /\ phase[w] = "buffered" => Len(entry[w]) = 1
          /\ phase[w] # "buffered" => entry[w] = <<>>

TypeInv == TypeOK /\ Locking

-----------------------------------------------------------------------------
(* What the file and the lines kept are made of.                           *)

LEMMA ReadTypes ==
    ASSUME TypeInv
    PROVE  /\ Len(file) \in Nat /\ written \in Nat /\ MaxWrites \in Nat
           /\ AuditMaxEntries \in Nat \ {0}
           /\ \A i \in 1..Len(file) : file[i] \in Entries /\ file[i].id \in Nat
           /\ \A w \in Writers :
                 /\ lines[w] \in Seq(Entries) /\ Len(lines[w]) \in Nat
                 /\ \A i \in 1..Len(lines[w]) :
                       lines[w][i] \in Entries /\ lines[w][i].id \in Nat
           /\ \A w \in Writers : phase[w] = "buffered" =>
                 entry[w][1] \in Entries /\ entry[w][1].id \in Nat
<1>1. ASSUME NEW s \in Seq(Entries), NEW i \in 1..Len(s)
      PROVE  s[i] \in Entries /\ s[i].id \in Nat
    <2>1. s[i] \in Entries OBVIOUS
    <2> QED BY <2>1, ConstantsAssumption DEF Entries
<1>2. file \in Seq(Entries) /\ (\A w \in Writers : lines[w] \in Seq(Entries))
    BY DEF TypeInv, TypeOK
<1>3. ASSUME NEW w \in Writers, phase[w] = "buffered"
      PROVE  entry[w][1] \in Entries /\ entry[w][1].id \in Nat
    <2>1. entry[w] \in Seq(Entries) /\ Len(entry[w]) = 1
        BY <1>3 DEF TypeInv, TypeOK, Locking
    <2> QED BY <1>1, <2>1
<1> QED BY <1>1, <1>2, <1>3, ConstantsAssumption DEF TypeInv, TypeOK

LEMMA FlushedFile ==
    ASSUME TypeInv, NEW w \in Writers, phase[w] = "buffered"
    PROVE  /\ Flushed(w) \in Seq(Entries) /\ Len(Flushed(w)) = Len(file) + 1
           /\ \A i \in 1..Len(file) : Flushed(w)[i] = file[i]
           /\ Flushed(w)[Len(file) + 1] = entry[w][1]
<1>1. file \in Seq(Entries) /\ entry[w] \in Seq(Entries) /\ Len(entry[w]) = 1
    BY DEF TypeInv, TypeOK, Locking
<1>2. Len(file) \in Nat BY <1>1
<1> QED BY <1>1, <1>2, ConcatProperties DEF Flushed

\* The lines before those kept.
Cut(w) == Len(lines[w]) - AuditMaxEntries + 1

LEMMA KeptLines ==
    ASSUME TypeInv, NEW w \in Writers, MustTrim(w)
    PROVE  /\ Kept(w) \in Seq(Entries) /\ Len(Kept(w)) = AuditMaxEntries - 1
           /\ Cut(w) \in Nat \ {0} /\ Len(lines[w]) = Cut(w) + AuditMaxEntries - 1
           /\ \A i \in 1..Len(Kept(w)) :
                 i + Cut(w) \in 1..Len(lines[w]) /\ Kept(w)[i] = lines[w][i + Cut(w)]
<1> DEFINE m == Len(lines[w]) - AuditMaxEntries + 2
           n == Len(lines[w])
<1>1. /\ m \in Int /\ n \in Int /\ m >= 2 /\ m <= n + 1
      /\ AuditMaxEntries \in Nat \ {0} /\ n \in Nat
    BY SMTT(30), ReadTypes DEF MustTrim
<1>2. \A i \in m..n : lines[w][i] \in Entries
    BY <1>1, ReadTypes
<1>3. /\ SubSeq(lines[w], m, n) \in Seq(Entries)
      /\ Len(SubSeq(lines[w], m, n)) = IF m <= n THEN n - m + 1 ELSE 0
      /\ \A i \in 1 .. n - m + 1 : SubSeq(lines[w], m, n)[i] = lines[w][m + i - 1]
    <2> HIDE DEF m, n
    <2> QED BY <1>1, <1>2, SubSeqProperties
<1>4. Kept(w) = SubSeq(lines[w], m, n) BY DEF Kept
<1>5. n - m + 1 = AuditMaxEntries - 1 /\ Cut(w) = m - 1 BY <1>1 DEF Cut
<1>6. Len(Kept(w)) = AuditMaxEntries - 1
    BY <1>1, <1>3, <1>4, <1>5
<1>7. ASSUME NEW i \in 1..Len(Kept(w))
      PROVE  i + Cut(w) \in 1..n /\ Kept(w)[i] = lines[w][i + Cut(w)]
    <2>1. i \in 1 .. n - m + 1 /\ i \in Int BY <1>5, <1>6
    <2>2. m + i - 1 = i + Cut(w) BY <1>1, <1>5, <2>1
    <2> QED BY <1>1, <1>3, <1>4, <1>5, <2>1, <2>2
<1> QED BY <1>1, <1>3, <1>4, <1>5, <1>6, <1>7

LEMMA RewrittenFile ==
    ASSUME TypeInv, NEW w \in Writers, MustTrim(w)
    PROVE  LET new == file \o Kept(w)
           IN  /\ new \in Seq(Entries) /\ Len(new) = Len(file) + Len(Kept(w))
               /\ \A i \in 1..Len(file) : new[i] = file[i]
               /\ \A i \in 1..Len(new) : i > Len(file) =>
                     /\ i - Len(file) \in 1..Len(Kept(w))
                     /\ new[i] = Kept(w)[i - Len(file)]
<1>1. /\ file \in Seq(Entries) /\ Kept(w) \in Seq(Entries)
      /\ Len(file) \in Nat /\ Len(Kept(w)) \in Nat
    BY KeptLines, LenProperties DEF TypeInv, TypeOK
<1> QED BY <1>1, ConcatProperties

-----------------------------------------------------------------------------
(* Types.                                                                   *)

LEMMA TypeInit == Init => TypeInv
<1> SUFFICES ASSUME Init PROVE TypeInv
    OBVIOUS
<1>1. <<>> \in Seq(Entries) /\ <<>> \in Seq(1..MaxWrites)
    OBVIOUS
<1>2. TypeOK
    BY <1>1, ConstantsAssumption DEF Init, TypeOK, Resting
<1>3. Locking
    BY ConstantsAssumption DEF Init, Locking, Active, Writers
<1> QED BY <1>2, <1>3 DEF TypeInv

LEMMA NewEntryType ==
    ASSUME TypeInv, NEW w \in Writers, NEW op \in BOOLEAN, written < MaxWrites
    PROVE  NewEntry(w, op) \in Entries /\ NewEntry(w, op).id = written + 1
<1>1. LastId(lines[w]) \in 0..MaxWrites
    <2>1. CASE lines[w] = <<>> BY <2>1, ConstantsAssumption DEF LastId
    <2>2. CASE lines[w] # <<>>
        <3>1. Len(lines[w]) \in 1..Len(lines[w]) BY <2>2, ReadTypes
        <3>2. lines[w][Len(lines[w])] \in Entries BY <3>1, ReadTypes
        <3> QED BY <2>2, <3>2, ConstantsAssumption DEF LastId, Entries
    <2> QED BY <2>1, <2>2
<1> QED BY <1>1, ReadTypes DEF NewEntry, Entries

LEMMA HeldIds ==
    ASSUME TypeInv, NEW w \in Writers
    PROVE  /\ Held(w) \subseteq 1..MaxWrites
           /\ phase[w] = "buffered" => Held(w) = {entry[w][1].id}
           /\ phase[w] # "buffered" => Held(w) = {}
<1>1. entry[w] \in Seq(Entries) BY DEF TypeInv, TypeOK
<1>2. \A k \in 1..Len(entry[w]) : entry[w][k].id \in 1..MaxWrites
    <2>1. \A k \in 1..Len(entry[w]) : entry[w][k] \in Entries BY <1>1
    <2> QED BY <2>1 DEF Entries
<1>3. phase[w] = "buffered" => Len(entry[w]) = 1 BY DEF TypeInv, Locking
<1>4. phase[w] # "buffered" => Len(entry[w]) = 0 BY DEF TypeInv, Locking
<1> QED BY <1>2, <1>3, <1>4 DEF Held

LEMMA TypeStep == TypeInv /\ [Next]_vars => TypeInv'
<1> SUFFICES ASSUME TypeInv, [Next]_vars PROVE TypeInv'
    OBVIOUS
<1>0. written \in Nat /\ crashes \in Nat /\ MaxCrashes \in Nat
    BY ReadTypes, ConstantsAssumption DEF TypeInv, TypeOK
<1>1. ASSUME NEW w \in Writers, TakeLock(w) PROVE TypeInv'
    <2>1. \A v \in Writers : ~Active(v)
        BY <1>1, ConstantsAssumption DEF TakeLock, TypeInv, Locking, Writers
    <2>2. TypeOK'
        BY <1>1 DEF TakeLock, TypeInv, TypeOK, copying, Busy
    <2>3. Locking'
        BY <1>1, <2>1 DEF TakeLock, TypeInv, TypeOK, Locking, Active
    <2> QED BY <2>2, <2>3 DEF TypeInv
<1>2. ASSUME NEW w \in Writers, Truncate(w) PROVE TypeInv'
    <2>1. TypeOK'
        BY <1>2 DEF Truncate, TypeInv, TypeOK, copying, calls
    <2>2. Locking'
        BY <1>2 DEF Truncate, TypeInv, TypeOK, Locking, Active, MustTrim
    <2> QED BY <2>1, <2>2 DEF TypeInv
<1>3. ASSUME NEW w \in Writers, RewriteKept(w) PROVE TypeInv'
    <2>1. MustTrim(w) BY <1>3 DEF RewriteKept, TypeInv, Locking
    <2>2. TypeOK'
        BY <1>3, <2>1, KeptLines, RewrittenFile DEF RewriteKept, TypeInv, TypeOK, copying, calls
    <2>3. Locking'
        BY <1>3 DEF RewriteKept, TypeInv, TypeOK, Locking, Active, MustTrim
    <2> QED BY <2>2, <2>3 DEF TypeInv
<1>4. ASSUME NEW w \in Writers, ComposeAndUnlock(w) PROVE TypeInv'
    <2>1. written < MaxWrites
        BY <1>4 DEF ComposeAndUnlock, TypeInv, Locking, Active
    <2>2. PICK op \in BOOLEAN : entry' = [entry EXCEPT ![w] = <<NewEntry(w, op)>>]
        BY <1>4 DEF ComposeAndUnlock
    <2>3. <<NewEntry(w, op)>> \in Seq(Entries) /\ Len(<<NewEntry(w, op)>>) = 1
        BY <2>1, NewEntryType
    <2>4. TypeOK'
        <3>1. entry' \in [Writers -> Seq(Entries)]
            BY <2>2, <2>3 DEF TypeInv, TypeOK
        <3>2. written' \in 0..MaxWrites
            BY <1>0, <1>4, <2>1, ReadTypes DEF ComposeAndUnlock
        <3> QED BY <1>4, <3>1, <3>2 DEF ComposeAndUnlock, TypeInv, TypeOK, copying, calls
    <2>5. Locking'
        BY <1>4, <2>2, <2>3, ConstantsAssumption
           DEF ComposeAndUnlock, TypeInv, TypeOK, Locking, Active, MustTrim, Writers
    <2> QED BY <2>4, <2>5 DEF TypeInv
<1>5. ASSUME NEW w \in Writers, FlushAndClose(w) PROVE TypeInv'
    <2>0. doubtful' \subseteq 1..MaxWrites
        BY <1>5, HeldIds DEF FlushAndClose, TypeInv, TypeOK
    <2>1. TypeOK'
        BY <1>5, <2>0, FlushedFile DEF FlushAndClose, Return, TypeInv, TypeOK, copying
    <2>2. Locking'
        BY <1>5 DEF FlushAndClose, Return, TypeInv, TypeOK, Locking, Active, MustTrim
    <2> QED BY <2>1, <2>2 DEF TypeInv
<1>6. ASSUME NEW w \in Writers, WriterDies(w) PROVE TypeInv'
    <2>0. doubtful' \subseteq 1..MaxWrites
        BY <1>6, HeldIds DEF WriterDies, TypeInv, TypeOK
    <2>1. TypeOK'
        BY <1>0, <1>6, <2>0 DEF WriterDies, Return, TypeInv, TypeOK, copying
    <2>2. Locking'
        BY <1>6, ConstantsAssumption
           DEF WriterDies, Return, TypeInv, TypeOK, Locking, Active, MustTrim, Writers
    <2> QED BY <2>1, <2>2 DEF TypeInv
<1>7. CASE Mirror \/ MirrorDies
    <2>1. Locking'
        BY <1>7 DEF Mirror, ReadTrail, MirrorLine, SaveWatermark, MirrorDies, tenant,
                    TypeInv, Locking, Active, MustTrim
    <2>2. CASE ReadTrail
        <3>1. SeenLines \in Nat BY DEF SeenLines, TypeInv, TypeOK
        <3> QED BY <2>1, <2>2, <3>1 DEF ReadTrail, TypeInv, TypeOK, tenant, calls
    <2>3. CASE MirrorLine
        <3> DEFINE e == mirror.lines[mirror.pos + 1]
        <3>1. e \in Entries BY <2>3 DEF MirrorLine, TypeInv, TypeOK
        <3>2. CopyOf(e) \in 1..MaxWrites BY <3>1 DEF CopyOf, Entries
        <3>3. Append(operatorLog, CopyOf(e)) \in Seq(1..MaxWrites)
            BY <3>2, AppendProperties DEF TypeInv, TypeOK
        <3>4. operatorLog' \in Seq(1..MaxWrites)
            BY <2>3, <3>3 DEF MirrorLine, TypeInv, TypeOK
        <3>5. mirror' \in [busy : BOOLEAN, lines : Seq(Entries), pos : Nat]
            <4> DEFINE Record(S) == [busy : BOOLEAN, lines : S, pos : Nat]
            <4>1. ASSUME NEW S, NEW m \in Record(S)
                  PROVE  [m EXCEPT !.pos = @ + 1] \in Record(S)
                OBVIOUS
            <4>2. mirror \in Record(Seq(Entries)) BY DEF TypeInv, TypeOK
            <4>3. mirror' = [mirror EXCEPT !.pos = @ + 1] BY <2>3 DEF MirrorLine
            <4> HIDE DEF Record
            <4>4. mirror' \in Record(Seq(Entries)) BY <4>1, <4>2, <4>3
            <4> QED BY <4>4 DEF Record
        <3> QED BY <2>1, <2>3, <3>4, <3>5 DEF MirrorLine, TypeInv, TypeOK, tenant, calls
    <2>4. CASE SaveWatermark
        BY <2>1, <2>4 DEF SaveWatermark, NewWatermark, Resting, TypeInv, TypeOK, tenant, calls
    <2>5. CASE MirrorDies
        BY <1>0, <2>1, <2>5 DEF MirrorDies, Resting, TypeInv, TypeOK, tenant, calls
    <2> QED BY <1>7, <2>2, <2>3, <2>4, <2>5 DEF Mirror
<1>8. CASE UNCHANGED vars
    BY <1>8 DEF vars, calls, TypeInv, TypeOK, Locking, Active, MustTrim
<1> QED BY <1>1, <1>2, <1>3, <1>4, <1>5, <1>6, <1>7, <1>8 DEF Next, Write

(* The types of the tenant's log, the writers' local state and the mirror's   *)
(* watermark, for any constants.                                             *)
THEOREM TypeCorrect == Spec => []TypeOK
<1>1. TypeInv => TypeOK BY DEF TypeInv
<1> QED BY <1>1, TypeInit, TypeStep, PTL DEF Spec

-----------------------------------------------------------------------------
(* No entry is recorded twice.                                               *)

OneToOne(s) == \A i, j \in 1..Len(s) : s[i].id = s[j].id => i = j
Lacks(s, n) == \A i \in 1..Len(s) : s[i].id # n
Upto(s, n) == \A i \in 1..Len(s) : s[i].id <= n

IdsInv ==
    /\ OneToOne(file) /\ Upto(file, written)
    /\ \A w \in Writers : Active(w) =>
          /\ OneToOne(lines[w]) /\ Upto(lines[w], written)
          /\ phase[w] = "truncated" =>
                \A i \in 1..Len(lines[w]) : Lacks(file, lines[w][i].id)
    /\ \A w \in Writers : phase[w] = "buffered" =>
          /\ entry[w][1].id <= written
          /\ Lacks(file, entry[w][1].id)
          /\ \A v \in Writers : Active(v) => Lacks(lines[v], entry[w][1].id)
          /\ \A v \in Writers :
                phase[v] = "buffered" /\ v # w => entry[v][1].id # entry[w][1].id

LEMMA IdsInit == Init => IdsInv
BY DEF Init, IdsInv, OneToOne, Upto, Active

LEMMA IdsStep == TypeInv /\ IdsInv /\ [Next]_vars => IdsInv'
<1> SUFFICES ASSUME TypeInv, IdsInv, [Next]_vars PROVE IdsInv'
    OBVIOUS
<1>1. ASSUME NEW w \in Writers, TakeLock(w) PROVE IdsInv'
    <2>1. /\ file' = file /\ written' = written /\ entry' = entry
          /\ \A v \in Writers :
                /\ v # w => lines'[v] = lines[v] /\ phase'[v] = phase[v]
                /\ v = w => lines'[v] = file /\ phase'[v] = "locked"
        BY <1>1 DEF TakeLock, TypeInv, TypeOK
    <2>2. \A v \in Writers : phase'[v] = "buffered" =>
              v # w /\ phase[v] = "buffered" /\ entry'[v] = entry[v]
        BY <2>1
    <2>3. \A v \in Writers : Active(v)' =>
              \/ lines'[v] = file /\ phase'[v] # "truncated"
              \/ Active(v) /\ lines'[v] = lines[v] /\ phase'[v] = phase[v]
        BY <2>1 DEF Active
    <2> QED BY <2>1, <2>2, <2>3 DEF IdsInv
<1>2. ASSUME NEW w \in Writers, Truncate(w) PROVE IdsInv'
    <2>1. /\ file' = <<>> /\ written' = written /\ entry' = entry /\ lines' = lines
          /\ Active(w)
          /\ \A v \in Writers : Active(v) => v = w
          /\ \A v \in Writers : v # w => phase'[v] = phase[v]
          /\ phase'[w] = "truncated"
        BY <1>2 DEF Truncate, TypeInv, TypeOK, Locking, Active
    <2>2. OneToOne(<<>>) /\ Upto(<<>>, written) /\ \A n : Lacks(<<>>, n)
        BY DEF OneToOne, Upto, Lacks
    <2>3. \A v \in Writers : phase'[v] = "buffered" => phase[v] = "buffered"
        BY <2>1
    <2>4. \A v \in Writers : Active(v)' => Active(v)
        BY <2>1 DEF Active
    <2> QED BY <2>1, <2>2, <2>3, <2>4 DEF IdsInv
<1>3. ASSUME NEW w \in Writers, RewriteKept(w) PROVE IdsInv'
    <2>1. /\ MustTrim(w) /\ phase[w] = "truncated"
          /\ file' = file \o Kept(w) /\ written' = written /\ entry' = entry
          /\ \A v \in Writers : Active(v) => v = w
          /\ \A v \in Writers :
                /\ v # w => lines'[v] = lines[v] /\ phase'[v] = phase[v]
                /\ v = w => lines'[v] = Kept(w) /\ phase'[v] = "locked"
        BY <1>3 DEF RewriteKept, TypeInv, TypeOK, Locking, Active
    <2>2. OneToOne(lines[w]) /\ Upto(lines[w], written)
        BY <2>1 DEF IdsInv, Active
    <2>3. \A i \in 1..Len(Kept(w)) : \E j \in 1..Len(lines[w]) :
              Kept(w)[i] = lines[w][j] /\ j = i + Cut(w)
        BY <2>1, KeptLines
    <2>4. Cut(w) \in Nat /\ Len(Kept(w)) \in Nat
        BY <2>1, KeptLines
    <2>5. OneToOne(Kept(w)) /\ Upto(Kept(w), written)
        <3>1. Upto(Kept(w), written) BY <2>2, <2>3 DEF Upto
        <3>2. ASSUME NEW i \in 1..Len(Kept(w)), NEW j \in 1..Len(Kept(w)),
                     Kept(w)[i].id = Kept(w)[j].id
              PROVE  i = j
            <4>1. i + Cut(w) = j + Cut(w) BY <2>2, <2>3, <3>2 DEF OneToOne
            <4>2. i \in Nat /\ j \in Nat BY <2>4
            <4> QED BY <2>4, <4>1, <4>2
        <3> QED BY <3>1, <3>2 DEF OneToOne
    <2>6. /\ Len(file') = Len(file) + Len(Kept(w))
          /\ \A i \in 1..Len(file) : file'[i] = file[i]
          /\ \A i \in 1..Len(file') : i > Len(file) =>
                i - Len(file) \in 1..Len(Kept(w)) /\ file'[i] = Kept(w)[i - Len(file)]
        BY <2>1, RewrittenFile
    <2>7. \A i \in 1..Len(Kept(w)) : Lacks(file, Kept(w)[i].id)
        BY <2>1, <2>3 DEF IdsInv, Active
    <2>8. \A i \in 1..Len(file') :
              \/ i \in 1..Len(file) /\ file'[i] = file[i]
              \/ i > Len(file) /\ \E k \in 1..Len(Kept(w)) :
                    k = i - Len(file) /\ file'[i] = Kept(w)[k]
        BY <2>6
    <2>9. OneToOne(file')
        <3> SUFFICES ASSUME NEW i \in 1..Len(file'), NEW j \in 1..Len(file'),
                            file'[i].id = file'[j].id
                     PROVE  i = j
            BY DEF OneToOne
        <3>0. i \in Nat /\ j \in Nat /\ Len(file) \in Nat
            BY <2>4, <2>6, ReadTypes
        <3>1. CASE i <= Len(file) /\ j <= Len(file)
            BY <2>6, <3>0, <3>1 DEF IdsInv, OneToOne
        <3>2. CASE i > Len(file) /\ j > Len(file)
            <4>1. PICK k \in 1..Len(Kept(w)) : k = i - Len(file) /\ file'[i] = Kept(w)[k]
                BY <2>6, <3>0, <3>2
            <4>2. PICK l \in 1..Len(Kept(w)) : l = j - Len(file) /\ file'[j] = Kept(w)[l]
                BY <2>6, <3>0, <3>2
            <4>3. k = l BY <2>5, <4>1, <4>2 DEF OneToOne
            <4> QED BY <3>0, <4>1, <4>2, <4>3
        <3>3. CASE i <= Len(file) /\ j > Len(file)
            <4>1. PICK l \in 1..Len(Kept(w)) : file'[j] = Kept(w)[l]
                BY <2>6, <3>0, <3>3
            <4>2. i \in 1..Len(file) /\ file'[i] = file[i] BY <2>6, <3>0, <3>3
            <4> QED BY <2>7, <4>1, <4>2 DEF Lacks
        <3>4. CASE i > Len(file) /\ j <= Len(file)
            <4>1. PICK k \in 1..Len(Kept(w)) : file'[i] = Kept(w)[k]
                BY <2>6, <3>0, <3>4
            <4>2. j \in 1..Len(file) /\ file'[j] = file[j] BY <2>6, <3>0, <3>4
            <4> QED BY <2>7, <4>1, <4>2 DEF Lacks
        <3> QED BY <3>0, <3>1, <3>2, <3>3, <3>4
    <2>10. Upto(file, written)' BY <2>1, <2>5, <2>8 DEF IdsInv, Upto
    <2>11. ASSUME NEW n, Lacks(file, n), Lacks(lines[w], n)
           PROVE  Lacks(file', n) /\ Lacks(Kept(w), n)
        <3>1. Lacks(Kept(w), n) BY <2>3, <2>11 DEF Lacks
        <3> QED BY <2>8, <2>11, <3>1 DEF Lacks
    <2>12. \A v \in Writers : Active(v)' =>
               v = w /\ phase'[v] # "truncated" /\ lines'[v] = Kept(w)
        BY <2>1 DEF Active
    <2>13. \A v \in Writers : phase'[v] = "buffered" => phase[v] = "buffered" /\ v # w
        BY <2>1
    <2>14. Active(w) BY <2>1 DEF Active
    <2>15. OneToOne(file)' BY <2>9
    <2>16. \A v \in Writers : Active(v)' =>
              /\ OneToOne(lines[v])' /\ Upto(lines[v], written)'
              /\ phase'[v] # "truncated"
        BY <2>1, <2>5, <2>12
    <2>17. ASSUME NEW v \in Writers, phase'[v] = "buffered"
           PROVE  /\ entry'[v][1].id <= written'
                  /\ Lacks(file', entry'[v][1].id)
                  /\ \A u \in Writers : Active(u)' => Lacks(lines'[u], entry'[v][1].id)
                  /\ \A u \in Writers :
                        phase'[u] = "buffered" /\ u # v => entry'[u][1].id # entry'[v][1].id
        <3>1. /\ phase[v] = "buffered" /\ entry'[v] = entry[v]
              /\ Lacks(file, entry[v][1].id) /\ Lacks(lines[w], entry[v][1].id)
            BY <2>1, <2>13, <2>14, <2>17 DEF IdsInv
        <3> QED BY <2>1, <2>11, <2>12, <2>13, <3>1 DEF IdsInv
    <2> QED BY <2>10, <2>15, <2>16, <2>17 DEF IdsInv
<1>4. ASSUME NEW w \in Writers, ComposeAndUnlock(w) PROVE IdsInv'
    <2>1. written < MaxWrites
        BY <1>4 DEF ComposeAndUnlock, TypeInv, Locking, Active
    <2>2. PICK op \in BOOLEAN : entry' = [entry EXCEPT ![w] = <<NewEntry(w, op)>>]
        BY <1>4 DEF ComposeAndUnlock
    <2>3. entry'[w][1].id = written + 1 /\ \A v \in Writers : v # w => entry'[v] = entry[v]
        BY <2>1, <2>2, NewEntryType DEF TypeInv, TypeOK
    <2>4. /\ file' = file /\ lines' = lines /\ written' = written + 1
          /\ \A v \in Writers : Active(v) => v = w
          /\ \A v \in Writers :
                /\ v # w => phase'[v] = phase[v]
                /\ v = w => phase'[v] = "buffered"
        BY <1>4 DEF ComposeAndUnlock, TypeInv, TypeOK, Locking, Active
    <2>6. OneToOne(file)' /\ Upto(file, written)' /\ Lacks(file', written + 1)
        <3>1. \A i \in 1..Len(file) : file[i].id \in Nat /\ file[i].id <= written
            BY ReadTypes DEF IdsInv, Upto
        <3>2. Upto(file, written + 1) /\ Lacks(file, written + 1)
            BY <3>1, ReadTypes DEF Upto, Lacks
        <3> QED BY <2>4, <3>2 DEF IdsInv
    <2>7. \A v \in Writers : ~Active(v)'
        BY <2>4 DEF Active
    <2>8. ASSUME NEW v \in Writers, phase'[v] = "buffered"
          PROVE  /\ entry'[v][1].id <= written'
                 /\ Lacks(file', entry'[v][1].id)
                 /\ \A u \in Writers :
                       phase'[u] = "buffered" /\ u # v => entry'[u][1].id # entry'[v][1].id
        <3>1. \A u \in Writers : phase'[u] = "buffered" /\ u # w =>
                  /\ phase[u] = "buffered" /\ entry'[u] = entry[u]
                  /\ entry[u][1].id \in Nat /\ entry[u][1].id <= written
            BY <2>3, <2>4, ReadTypes DEF IdsInv
        <3>2. CASE v = w
            <4>1. \A u \in Writers : phase'[u] = "buffered" /\ u # w =>
                      entry'[u][1].id # written + 1
                BY <3>1, ReadTypes
            <4> QED BY <2>3, <2>4, <2>6, <3>2, <4>1, ReadTypes
        <3>3. CASE v # w
            <4>1. Lacks(file, entry[v][1].id) BY <2>8, <3>1, <3>3 DEF IdsInv
            <4>2. entry[v][1].id <= written + 1 /\ entry[v][1].id # written + 1
                BY <2>8, <3>1, <3>3, ReadTypes
            <4> QED BY <2>3, <2>4, <2>8, <3>1, <3>3, <4>1, <4>2 DEF IdsInv
        <3> QED BY <3>2, <3>3
    <2> QED BY <2>6, <2>7, <2>8 DEF IdsInv
<1>5. ASSUME NEW w \in Writers, FlushAndClose(w) PROVE IdsInv'
    <2>1. /\ phase[w] = "buffered" /\ file' = Flushed(w) /\ written' = written
          /\ \A v \in Writers :
                /\ v # w => /\ phase'[v] = phase[v] /\ lines'[v] = lines[v]
                            /\ entry'[v] = entry[v]
                /\ v = w => phase'[v] = "idle"
        BY <1>5 DEF FlushAndClose, Return, TypeInv, TypeOK
    <2>2. /\ Len(file') = Len(file) + 1
          /\ \A i \in 1..Len(file) : file'[i] = file[i]
          /\ file'[Len(file) + 1] = entry[w][1]
        BY <2>1, FlushedFile
    <2>3. \A i \in 1..Len(file') :
              \/ i \in 1..Len(file) /\ file'[i] = file[i]
              \/ i = Len(file) + 1 /\ file'[i] = entry[w][1]
        BY <2>2
    <2>4. OneToOne(file') /\ Upto(file', written)
        <3>1. Upto(file', written) BY <2>1, <2>3 DEF IdsInv, Upto
        <3>2. ASSUME NEW i \in 1..Len(file'), NEW j \in 1..Len(file'),
                     file'[i].id = file'[j].id
              PROVE  i = j
            BY <2>1, <2>3, <3>2 DEF IdsInv, OneToOne, Lacks
        <3> QED BY <3>1, <3>2 DEF OneToOne
    <2>5. ASSUME NEW n, Lacks(file, n), n # entry[w][1].id
          PROVE  Lacks(file', n)
        BY <2>3, <2>5 DEF Lacks
    <2>6. \A v \in Writers : phase'[v] # "idle" => v # w
        BY <2>1
    <2>7. ASSUME NEW v \in Writers, Active(v)'
          PROVE  /\ OneToOne(lines[v])' /\ Upto(lines[v], written)'
                 /\ phase'[v] = "truncated" =>
                       \A i \in 1..Len(lines'[v]) : Lacks(file', lines'[v][i].id)
        <3>1. /\ v # w /\ Active(v) /\ lines'[v] = lines[v] /\ phase'[v] = phase[v]
              /\ Lacks(lines[v], entry[w][1].id)
            BY <2>1, <2>6, <2>7 DEF Active, IdsInv
        <3>2. \A i \in 1..Len(lines[v]) : lines[v][i].id # entry[w][1].id
            BY <3>1 DEF Lacks
        <3> QED BY <2>1, <2>5, <3>1, <3>2 DEF IdsInv
    <2>8. ASSUME NEW v \in Writers, phase'[v] = "buffered"
          PROVE  /\ entry'[v][1].id <= written'
                 /\ Lacks(file', entry'[v][1].id)
                 /\ \A u \in Writers : Active(u)' => Lacks(lines'[u], entry'[v][1].id)
                 /\ \A u \in Writers :
                       phase'[u] = "buffered" /\ u # v => entry'[u][1].id # entry'[v][1].id
        <3>1. /\ v # w /\ phase[v] = "buffered" /\ entry'[v] = entry[v]
              /\ entry[v][1].id # entry[w][1].id
            BY <2>1, <2>6, <2>8 DEF IdsInv
        <3>2. Lacks(file', entry'[v][1].id)
            BY <2>5, <3>1 DEF IdsInv
        <3>3. \A u \in Writers : Active(u)' => Active(u) /\ lines'[u] = lines[u]
            BY <2>1, <2>6 DEF Active
        <3>4. \A u \in Writers : phase'[u] = "buffered" =>
                  phase[u] = "buffered" /\ entry'[u] = entry[u]
            BY <2>1, <2>6
        <3> QED BY <2>1, <3>1, <3>2, <3>3, <3>4 DEF IdsInv
    <2>9. OneToOne(file)' /\ Upto(file, written)' BY <2>4, <2>1
    <2> QED BY <2>7, <2>8, <2>9 DEF IdsInv
<1>6. ASSUME NEW w \in Writers, WriterDies(w) PROVE IdsInv'
    <2>1. /\ file' = file /\ written' = written
          /\ \A v \in Writers :
                /\ v # w => /\ phase'[v] = phase[v] /\ lines'[v] = lines[v]
                            /\ entry'[v] = entry[v]
                /\ v = w => phase'[v] = "idle"
        BY <1>6 DEF WriterDies, Return, TypeInv, TypeOK
    <2>2. \A v \in Writers : phase'[v] = "buffered" =>
              phase[v] = "buffered" /\ entry'[v] = entry[v]
        BY <2>1
    <2>3. \A v \in Writers : Active(v)' =>
              Active(v) /\ lines'[v] = lines[v] /\ phase'[v] = phase[v]
        BY <2>1 DEF Active
    <2> QED BY <2>1, <2>2, <2>3 DEF IdsInv
<1>7. CASE UNCHANGED <<file, lines, phase, entry, written>>
    BY <1>7 DEF IdsInv, Active
<1> QED
    BY <1>1, <1>2, <1>3, <1>4, <1>5, <1>6, <1>7
       DEF Next, Write, Mirror, ReadTrail, MirrorLine, SaveWatermark, MirrorDies, tenant, vars

-----------------------------------------------------------------------------
(* Below the limit nothing is lost but what a killed writer had.             *)

Buffered == {w \in Writers : phase[w] = "buffered"}

CountInv ==
    /\ IsFiniteSet(Buffered)
    /\ BelowLimit =>
          /\ Len(file) + Cardinality(Buffered) <= written
          /\ written <= Len(file) + Cardinality(Buffered) + crashes
          /\ \A w \in Writers : Active(w) =>
                Len(lines[w]) <= written /\ phase[w] # "truncated"

LEMMA CountInit == Init => CountInv
<1> SUFFICES ASSUME Init PROVE CountInv
    OBVIOUS
<1>1. Buffered = {} BY DEF Init, Buffered
<1>2. IsFiniteSet(Buffered) /\ Cardinality(Buffered) = 0
    BY <1>1, FS_EmptySet
<1>3. /\ Len(file) = 0 /\ written = 0 /\ crashes = 0
      /\ \A w \in Writers : ~Active(w)
    BY DEF Init, Active
<1> QED BY <1>2, <1>3 DEF CountInv

LEMMA NoTrimBelow ==
    ASSUME TypeInv, CountInv, BelowLimit, NEW w \in Writers, Active(w)
    PROVE  ~MustTrim(w) /\ phase[w] = "locked"
BY ReadTypes DEF CountInv, BelowLimit, MustTrim, Active

LEMMA CountStep == TypeInv /\ CountInv /\ [Next]_vars => CountInv'
<1> SUFFICES ASSUME TypeInv, CountInv, [Next]_vars PROVE CountInv'
    OBVIOUS
<1>0. /\ IsFiniteSet(Buffered) /\ Cardinality(Buffered) \in Nat
      /\ Len(file) \in Nat /\ written \in Nat /\ AuditMaxEntries \in Nat
      /\ crashes \in Nat
    BY FS_CardinalityType, ReadTypes DEF CountInv, TypeInv, TypeOK
<1>1. ASSUME NEW w \in Writers, TakeLock(w) PROVE CountInv'
    <2>1. /\ Buffered' = Buffered
          /\ file' = file /\ written' = written /\ crashes' = crashes
        BY <1>1 DEF TakeLock, Buffered, TypeInv, TypeOK
    <2>2. \A v \in Writers : Active(v)' =>
              \/ lines'[v] = file /\ phase'[v] = "locked"
              \/ Active(v) /\ lines'[v] = lines[v] /\ phase'[v] = phase[v]
        BY <1>1 DEF TakeLock, Active, TypeInv, TypeOK
    <2>3. BelowLimit => Len(file) <= written
        BY <1>0 DEF CountInv
    <2> QED BY <2>1, <2>2, <2>3 DEF CountInv, BelowLimit
<1>2. ASSUME NEW w \in Writers, Truncate(w) \/ RewriteKept(w) PROVE CountInv'
    <2>1. ~BelowLimit
        BY <1>2, NoTrimBelow DEF Truncate, RewriteKept, Active
    <2>2. Buffered' = Buffered /\ written' = written
        BY <1>2 DEF Truncate, RewriteKept, Buffered, TypeInv, TypeOK
    <2> QED BY <1>0, <2>1, <2>2 DEF CountInv, BelowLimit
<1>3. ASSUME NEW w \in Writers, ComposeAndUnlock(w) PROVE CountInv'
    <2>1. /\ w \notin Buffered /\ Buffered' = Buffered \cup {w}
          /\ file' = file /\ written' = written + 1 /\ crashes' = crashes
        BY <1>3 DEF ComposeAndUnlock, Buffered, TypeInv, TypeOK
    <2>2. IsFiniteSet(Buffered') /\ Cardinality(Buffered') = Cardinality(Buffered) + 1
        BY <1>0, <2>1, FS_AddElement
    <2>3. \A v \in Writers : ~Active(v)'
        BY <1>3 DEF ComposeAndUnlock, TypeInv, TypeOK, Locking, Active
    <2>4. BelowLimit' => BelowLimit
        BY <1>0, <2>1 DEF BelowLimit
    <2> QED BY <1>0, <2>1, <2>2, <2>3, <2>4 DEF CountInv
<1>4. ASSUME NEW w \in Writers, FlushAndClose(w) PROVE CountInv'
    <2>1. /\ w \in Buffered /\ Buffered' = Buffered \ {w}
          /\ written' = written /\ crashes' = crashes
        BY <1>4 DEF FlushAndClose, Return, Buffered, TypeInv, TypeOK
    <2>2. IsFiniteSet(Buffered') /\ Cardinality(Buffered') = Cardinality(Buffered) - 1
        BY <1>0, <2>1, FS_RemoveElement
    <2>3. Len(file') = Len(file) + 1
        BY <1>4, FlushedFile DEF FlushAndClose
    <2>4. \A v \in Writers : Active(v)' =>
              Active(v) /\ lines'[v] = lines[v] /\ phase'[v] = phase[v]
        BY <1>4 DEF FlushAndClose, Return, Active, TypeInv, TypeOK
    <2> QED BY <1>0, <2>1, <2>2, <2>3, <2>4 DEF CountInv, BelowLimit
<1>5. ASSUME NEW w \in Writers, WriterDies(w) PROVE CountInv'
    <2>1. /\ Buffered' = Buffered \ {w}
          /\ file' = file /\ written' = written /\ crashes' = crashes + 1
        BY <1>5 DEF WriterDies, Return, Buffered, TypeInv, TypeOK
    <2>2. /\ IsFiniteSet(Buffered') /\ Cardinality(Buffered') \in Nat
          /\ Cardinality(Buffered') <= Cardinality(Buffered)
          /\ Cardinality(Buffered) <= Cardinality(Buffered') + 1
        <3>1. /\ IsFiniteSet(Buffered')
              /\ Cardinality(Buffered') = IF w \in Buffered THEN Cardinality(Buffered) - 1
                                          ELSE Cardinality(Buffered)
            BY <1>0, <2>1, FS_RemoveElement
        <3>2. Cardinality(Buffered') \in Nat BY <3>1, FS_CardinalityType
        <3> QED BY <1>0, <3>1, <3>2
    <2>3. \A v \in Writers : Active(v)' =>
              Active(v) /\ lines'[v] = lines[v] /\ phase'[v] = phase[v]
        BY <1>5 DEF WriterDies, Return, Active, TypeInv, TypeOK
    <2>4. ASSUME BelowLimit'
          PROVE  /\ Len(file') + Cardinality(Buffered') <= written'
                 /\ written' <= Len(file') + Cardinality(Buffered') + crashes'
        <3>1. /\ Len(file) + Cardinality(Buffered) <= written
              /\ written <= Len(file) + Cardinality(Buffered) + crashes
            BY <2>1, <2>4 DEF CountInv, BelowLimit
        <3> DEFINE before == Cardinality(Buffered)
                   after == Cardinality(Buffered')
        <3>2. /\ before \in Nat /\ after \in Nat
              /\ after <= before /\ before <= after + 1
            BY <1>0, <2>2
        <3>3. Len(file) + before <= written /\ written <= Len(file) + before + crashes
            BY <3>1
        <3> HIDE DEF before, after
        <3>4. Len(file) + after <= written /\ written <= Len(file) + after + (crashes + 1)
            BY <1>0, <3>2, <3>3
        <3> QED BY <2>1, <3>4 DEF after
    <2>5. ASSUME BelowLimit', NEW v \in Writers, Active(v)'
          PROVE  Len(lines'[v]) <= written' /\ phase'[v] # "truncated"
        BY <2>1, <2>3, <2>5 DEF CountInv, BelowLimit
    <2> QED BY <2>2, <2>4, <2>5 DEF CountInv
<1>6. CASE UNCHANGED <<file, lines, phase, written>> /\ (crashes' = crashes \/ MirrorDies)
    <2>1. Buffered' = Buffered /\ \A v \in Writers : Active(v)' = Active(v)
        BY <1>6 DEF Buffered, Active
    <2>2. crashes' \in Nat /\ crashes <= crashes'
        BY <1>0, <1>6 DEF MirrorDies
    <2> QED BY <1>0, <1>6, <2>1, <2>2 DEF CountInv, BelowLimit
<1> QED
    BY <1>1, <1>2, <1>3, <1>4, <1>5, <1>6
       DEF Next, Write, Mirror, ReadTrail, MirrorLine, SaveWatermark, MirrorDies, tenant, vars

(* An entry is recorded once, and below the limit every one is, but for at     *)
(* most one for each process killed: EntriesRecorded, for any constants.      *)
THEOREM EveryEntryOnce == Spec => []EntriesRecorded
<1>1. TypeInv /\ IdsInv /\ CountInv => EntriesRecorded
    <2> SUFFICES ASSUME TypeInv, IdsInv, CountInv PROVE EntriesRecorded
        OBVIOUS
    <2>1. ASSUME \A w \in Writers : phase[w] = "idle"
          PROVE  Cardinality(Buffered) = 0
        BY <2>1, FS_EmptySet DEF Buffered
    <2>2. /\ Len(file) \in Nat /\ written \in Nat /\ crashes \in Nat
        BY ReadTypes DEF TypeInv, TypeOK
    <2> QED BY <2>1, <2>2 DEF EntriesRecorded, IdsInv, OneToOne, CountInv
<1> QED
    BY <1>1, TypeInit, TypeStep, IdsInit, IdsStep, CountInit, CountStep, PTL DEF Spec

-----------------------------------------------------------------------------
(* The mirror.                                                               *)

Done(i) == file[i].op => Copied(file[i].id)

MirrorInv ==
    BelowLimit =>
        /\ watermark <= Len(file)
        /\ \A i \in 1..watermark : Done(i)
        /\ mirror.busy =>
              /\ Len(mirror.lines) <= Len(file) /\ mirror.pos <= Len(mirror.lines)
              /\ \A i \in 1..Len(mirror.lines) : mirror.lines[i] = file[i]
              /\ \A i \in 1..mirror.pos : Done(i)

LEMMA MirrorInit == Init => MirrorInv
BY DEF Init, MirrorInv, Resting

LEMMA MirrorStep == TypeInv /\ CountInv /\ MirrorInv /\ [Next]_vars => MirrorInv'
<1> SUFFICES ASSUME TypeInv, CountInv, MirrorInv, [Next]_vars, BelowLimit'
             PROVE  MirrorInv'
    BY DEF MirrorInv
<1>0. /\ Len(file) \in Nat /\ written \in Nat /\ AuditMaxEntries \in Nat
      /\ watermark \in Nat /\ mirror.pos \in Nat /\ Len(mirror.lines) \in Nat
      /\ mirror.lines \in Seq(Entries) /\ operatorLog \in Seq(1..MaxWrites)
    BY ReadTypes DEF TypeInv, TypeOK
<1>1. written <= written'
    BY <1>0 DEF Next, Write, Mirror, TakeLock, Truncate, RewriteKept, ComposeAndUnlock,
                FlushAndClose, WriterDies, ReadTrail, MirrorLine, SaveWatermark,
                MirrorDies, tenant, vars
<1>2. BelowLimit
    <2>1. written' \in Nat BY TypeStep DEF TypeInv, TypeOK
    <2> QED BY <1>0, <1>1, <2>1 DEF BelowLimit
<1>3. ASSUME NEW w \in Writers, FlushAndClose(w) PROVE MirrorInv'
    <2>1. /\ Len(file') = Len(file) + 1
          /\ \A i \in 1..Len(file) : file'[i] = file[i]
          /\ UNCHANGED <<watermark, mirror, operatorLog>>
        BY <1>3, FlushedFile DEF FlushAndClose, copying
    <2>2. \A i \in 1..Len(file) : Done(i) => Done(i)'
        BY <2>1 DEF Done, Copied
    <2> QED BY <1>0, <1>2, <2>1, <2>2 DEF MirrorInv
<1>4. ASSUME NEW w \in Writers, Truncate(w) \/ RewriteKept(w) PROVE FALSE
    BY <1>2, <1>4, NoTrimBelow DEF Truncate, RewriteKept, Active
<1>5. CASE ReadTrail
    <2>1. SeenLines = watermark BY <1>0, <1>2 DEF SeenLines, MirrorInv
    <2>2. /\ mirror' = [busy |-> TRUE, lines |-> file, pos |-> watermark]
          /\ UNCHANGED <<file, watermark, operatorLog>>
        BY <1>5, <2>1 DEF ReadTrail, tenant
    <2> QED BY <1>0, <1>2, <2>2 DEF MirrorInv, Done, Copied
<1>6. CASE MirrorLine
    <2>0. PICK k, e : k = mirror.pos + 1 /\ e = mirror.lines[k]
        BY <1>0
    <2>1. /\ mirror.busy /\ mirror.pos < Len(mirror.lines)
          /\ mirror' = [mirror EXCEPT !.pos = k]
          /\ UNCHANGED <<file, watermark>>
          /\ operatorLog' = IF e.op THEN Append(operatorLog, CopyOf(e)) ELSE operatorLog
        BY <1>6, <2>0 DEF MirrorLine, tenant
    <2>2. k \in 1..Len(mirror.lines) BY <1>0, <2>0, <2>1
    <2>3. /\ Len(mirror.lines) <= Len(file)
          /\ \A i \in 1..Len(mirror.lines) : mirror.lines[i] = file[i]
          /\ \A i \in 1..mirror.pos : Done(i)
          /\ watermark <= Len(file) /\ \A i \in 1..watermark : Done(i)
        BY <1>2, <2>1 DEF MirrorInv
    <2>4. e = file[k] /\ k \in 1..Len(file) /\ e \in Entries
        BY <1>0, <2>0, <2>2, <2>3, ReadTypes
    <2>5. CopyOf(e) = e.id /\ e.id \in 1..MaxWrites
        BY <2>4 DEF CopyOf, Entries
    <2>6. /\ Append(operatorLog, e.id) \in Seq(1..MaxWrites)
          /\ Len(Append(operatorLog, e.id)) = Len(operatorLog) + 1
          /\ \A i \in 1..Len(operatorLog) : Append(operatorLog, e.id)[i] = operatorLog[i]
          /\ Append(operatorLog, e.id)[Len(operatorLog) + 1] = e.id
          /\ Len(operatorLog) \in Nat
        BY <1>0, <2>5, AppendProperties
    <2>7. \A n : Copied(n) => Copied(n)'
        <3>1. CASE operatorLog' = operatorLog BY <3>1 DEF Copied
        <3>2. CASE operatorLog' = Append(operatorLog, e.id) BY <2>6, <3>2 DEF Copied
        <3> QED BY <2>1, <2>5, <3>1, <3>2
    <2>8. e.op => Copied(e.id)' BY <2>1, <2>5, <2>6 DEF Copied
    <2>9. \A i \in 1..Len(file) : Done(i) => Done(i)'
        BY <2>1, <2>7 DEF Done
    <2>10. Done(k)' BY <2>1, <2>4, <2>8 DEF Done
    <2>11. mirror'.lines = mirror.lines /\ mirror'.pos = k /\ mirror'.busy
        BY <2>1 DEF TypeInv, TypeOK
    <2>12. \A i \in 1..k : Done(i)'
        <3>1. \A i \in 1..k : i = k \/ i \in 1..mirror.pos
            BY <1>0, <2>0
        <3>2. \A i \in 1..mirror.pos : i \in 1..Len(file)
            BY <1>0, <2>1, <2>3
        <3> QED BY <2>3, <2>9, <2>10, <3>1, <3>2
    <2>13. \A i \in 1..watermark : Done(i)'
        BY <1>0, <2>3, <2>9
    <2>14. k <= Len(mirror.lines) BY <1>0, <2>2
    <2> QED BY <2>1, <2>3, <2>11, <2>12, <2>13, <2>14 DEF MirrorInv
<1>7. CASE SaveWatermark
    <2>1. /\ mirror.busy /\ mirror.pos >= Len(mirror.lines)
          /\ watermark' = Len(mirror.lines) /\ mirror' = Resting
          /\ UNCHANGED <<file, operatorLog>>
        BY <1>7 DEF SaveWatermark, NewWatermark, tenant
    <2> QED BY <1>0, <1>2, <2>1 DEF MirrorInv, Resting, Done, Copied
<1>8. CASE UNCHANGED <<file, watermark, operatorLog>> /\ (mirror' = mirror \/ mirror' = Resting)
    BY <1>2, <1>8 DEF MirrorInv, Resting, Done, Copied
<1> QED
    BY <1>3, <1>4, <1>5, <1>6, <1>7, <1>8
       DEF Next, Write, Mirror, TakeLock, ComposeAndUnlock, WriterDies, MirrorDies,
           tenant, copying, vars

(* What the watermark has passed was copied, as long as the trail was not      *)
(* trimmed: NoneSkipped, for any writers and kills.                          *)
THEOREM MirrorSkipsNone == Spec => []NoneSkipped
<1>1. TypeInv /\ MirrorInv => NoneSkipped
    BY ReadTypes DEF MirrorInv, NoneSkipped, Done, TypeInv, TypeOK
<1> QED
    BY <1>1, TypeInit, TypeStep, CountInit, CountStep, MirrorInit, MirrorStep, PTL DEF Spec

-----------------------------------------------------------------------------
(* How often an action was copied.                                           *)

Places(n) == {k \in 1..Len(operatorLog) : operatorLog[k] = n}

\* How far into the file the mirror has come.
Considered == IF mirror.busy THEN mirror.pos ELSE watermark

CopyInv ==
    BelowLimit => \A n \in 1..MaxWrites :
        /\ TimesCopied(n) <= crashes + 1
        /\ (\A i \in 1..Considered : file[i].id # n) => TimesCopied(n) <= crashes

LEMMA TimesCopiedType ==
    ASSUME TypeInv, NEW n
    PROVE  /\ IsFiniteSet(Places(n)) /\ TimesCopied(n) = Cardinality(Places(n))
           /\ TimesCopied(n) \in Nat
<1>1. Len(operatorLog) \in Nat BY DEF TypeInv, TypeOK
<1>2. IsFiniteSet(1..Len(operatorLog)) BY <1>1, FS_Interval
<1>3. Places(n) \in SUBSET (1..Len(operatorLog)) BY DEF Places
<1>4. IsFiniteSet(Places(n)) BY <1>2, <1>3, FS_Subset
<1>5. TimesCopied(n) = Cardinality(Places(n)) BY DEF TimesCopied, Places
<1> QED BY <1>4, <1>5, FS_CardinalityType

LEMMA CopyInit == Init => CopyInv
<1> SUFFICES ASSUME Init, NEW n \in 1..MaxWrites PROVE TimesCopied(n) = 0
    BY ConstantsAssumption DEF CopyInv, Init
<1>1. {k \in 1..Len(operatorLog) : operatorLog[k] = n} = {}
    BY DEF Init
<1> QED BY <1>1, FS_EmptySet DEF TimesCopied

LEMMA CopyStep ==
    TypeInv /\ IdsInv /\ CountInv /\ MirrorInv /\ CopyInv /\ [Next]_vars => CopyInv'
<1> SUFFICES ASSUME TypeInv, IdsInv, CountInv, MirrorInv, CopyInv, [Next]_vars,
                    BelowLimit', NEW n \in 1..MaxWrites
             PROVE  /\ TimesCopied(n)' <= crashes' + 1
                    /\ (\A i \in 1..Considered' : file'[i].id # n)
                          => TimesCopied(n)' <= crashes'
    BY DEF CopyInv
<1>0. /\ Len(file) \in Nat /\ written \in Nat /\ AuditMaxEntries \in Nat
      /\ watermark \in Nat /\ mirror.pos \in Nat /\ Len(mirror.lines) \in Nat
      /\ mirror.lines \in Seq(Entries) /\ operatorLog \in Seq(1..MaxWrites)
      /\ crashes \in Nat /\ TimesCopied(n) \in Nat
    BY ReadTypes, TimesCopiedType DEF TypeInv, TypeOK
<1>1. written <= written'
    BY <1>0 DEF Next, Write, Mirror, TakeLock, Truncate, RewriteKept, ComposeAndUnlock,
                FlushAndClose, WriterDies, ReadTrail, MirrorLine, SaveWatermark,
                MirrorDies, tenant, vars
<1>2. BelowLimit
    <2>1. written' \in Nat BY TypeStep DEF TypeInv, TypeOK
    <2> QED BY <1>0, <1>1, <2>1 DEF BelowLimit
<1>3. /\ watermark <= Len(file)
      /\ mirror.busy => /\ Len(mirror.lines) <= Len(file)
                        /\ mirror.pos <= Len(mirror.lines)
                        /\ \A i \in 1..Len(mirror.lines) : mirror.lines[i] = file[i]
    BY <1>2 DEF MirrorInv
<1>4. /\ TimesCopied(n) <= crashes + 1
      /\ (\A i \in 1..Considered : file[i].id # n) => TimesCopied(n) <= crashes
    BY <1>2 DEF CopyInv
<1>5. Considered \in Nat /\ Considered <= Len(file)
    BY <1>0, <1>3 DEF Considered
<1>6. ASSUME NEW w \in Writers, FlushAndClose(w)
      PROVE  /\ UNCHANGED <<operatorLog, crashes, watermark, mirror>>
             /\ \A i \in 1..Considered : file'[i].id = file[i].id
    <2>1. /\ \A i \in 1..Len(file) : file'[i] = file[i]
          /\ UNCHANGED <<watermark, mirror, operatorLog, crashes>>
        BY <1>6, FlushedFile DEF FlushAndClose, copying
    <2> QED BY <1>0, <1>5, <2>1
<1>7. ASSUME NEW w \in Writers, Truncate(w) \/ RewriteKept(w) PROVE FALSE
    BY <1>2, <1>7, NoTrimBelow DEF Truncate, RewriteKept, Active
<1>8. CASE /\ UNCHANGED <<operatorLog, crashes>> /\ Considered' = Considered
           /\ \A i \in 1..Considered : file'[i].id = file[i].id
    <2>1. TimesCopied(n)' = TimesCopied(n) BY <1>8 DEF TimesCopied
    <2> QED BY <1>4, <1>8, <2>1
<1>9. CASE operatorLog' = operatorLog /\ crashes' = crashes + 1
    <2>1. TimesCopied(n)' = TimesCopied(n) BY <1>9 DEF TimesCopied
    <2> QED BY <1>0, <1>4, <1>9, <2>1
<1>10. CASE ReadTrail
    <2>1. SeenLines = watermark BY <1>0, <1>3 DEF SeenLines
    <2>2. /\ ~mirror.busy
          /\ mirror' = [busy |-> TRUE, lines |-> file, pos |-> watermark]
          /\ UNCHANGED <<file, watermark, operatorLog, crashes>>
        BY <1>10, <2>1 DEF ReadTrail, tenant
    <2>3. Considered' = Considered BY <2>2 DEF Considered
    <2> QED BY <1>8, <2>2, <2>3
<1>11. CASE SaveWatermark
    <2>1. /\ mirror.busy /\ mirror.pos >= Len(mirror.lines)
          /\ watermark' = Len(mirror.lines) /\ mirror' = Resting
          /\ UNCHANGED <<file, operatorLog, crashes>>
        BY <1>11 DEF SaveWatermark, NewWatermark, tenant
    <2>2. Considered' = Considered BY <1>0, <1>3, <2>1 DEF Considered, Resting
    <2> QED BY <1>8, <2>1, <2>2
<1>12. CASE MirrorLine
    <2>0. PICK k, e : k = mirror.pos + 1 /\ e = mirror.lines[k]
        BY <1>0
    <2>1. /\ mirror.busy /\ mirror.pos < Len(mirror.lines)
          /\ mirror' = [mirror EXCEPT !.pos = k]
          /\ UNCHANGED <<file, watermark, crashes>>
          /\ operatorLog' = IF e.op THEN Append(operatorLog, CopyOf(e)) ELSE operatorLog
        BY <1>12, <2>0 DEF MirrorLine, tenant
    <2>2. k \in 1..Len(mirror.lines) /\ k \in 1..Len(file) /\ e = file[k]
        <3>1. /\ Len(mirror.lines) <= Len(file)
              /\ \A i \in 1..Len(mirror.lines) : mirror.lines[i] = file[i]
            BY <1>3, <2>1
        <3>2. k \in 1..Len(mirror.lines) BY <1>0, <2>0, <2>1
        <3> QED BY <1>0, <2>0, <3>1, <3>2
    <2>3. Considered = mirror.pos /\ Considered' = k
        BY <2>1 DEF Considered, TypeInv, TypeOK
    <2>4. CASE operatorLog' = operatorLog
        <3>1. TimesCopied(n)' = TimesCopied(n) BY <2>4 DEF TimesCopied
        <3>2. ASSUME \A i \in 1..k : file[i].id # n
              PROVE  \A i \in 1..mirror.pos : file[i].id # n
            BY <1>0, <2>0, <3>2
        <3> QED BY <1>4, <2>1, <2>3, <3>1, <3>2
    <2>5. CASE operatorLog' = Append(operatorLog, e.id)
        <3>1. e.id \in 1..MaxWrites BY <2>2, ReadTypes DEF Entries
        <3>2. /\ Len(operatorLog) \in Nat /\ Len(operatorLog') = Len(operatorLog) + 1
              /\ \A i \in 1..Len(operatorLog) : operatorLog'[i] = operatorLog[i]
              /\ operatorLog'[Len(operatorLog) + 1] = e.id
            BY <1>0, <2>5, <3>1, AppendProperties
        <3>3. CASE e.id # n
            <4>1. Places(n)' = Places(n) BY <3>2, <3>3 DEF Places
            <4>2. TimesCopied(n)' = TimesCopied(n)
                BY <4>1, TypeStep, TimesCopiedType DEF TimesCopied, Places
            <4>3. ASSUME \A i \in 1..k : file[i].id # n
                  PROVE  \A i \in 1..mirror.pos : file[i].id # n
                BY <1>0, <2>0, <4>3
            <4> QED BY <1>4, <2>1, <2>3, <4>2, <4>3
        <3>4. CASE e.id = n
            <4>1. \A i \in 1..mirror.pos : file[i].id # n
                <5>1. \A i \in 1..Len(file) : file[i].id = file[k].id => i = k
                    BY <2>2 DEF IdsInv, OneToOne
                <5>2. \A i \in 1..mirror.pos : i \in 1..Len(file) /\ i # k
                    BY <1>0, <1>3, <2>0, <2>1
                <5> QED BY <2>2, <3>4, <5>1, <5>2
            <4>2. TimesCopied(n) <= crashes BY <1>4, <2>3, <4>1
            <4>3. Places(n)' = Places(n) \cup {Len(operatorLog) + 1}
                BY <3>2, <3>4 DEF Places
            <4>4. Len(operatorLog) + 1 \notin Places(n) BY <3>2 DEF Places
            <4>5. Cardinality(Places(n)') = Cardinality(Places(n)) + 1
                BY <4>3, <4>4, TimesCopiedType, FS_AddElement
            <4>6. TimesCopied(n)' = TimesCopied(n) + 1
                BY <4>5, TimesCopiedType DEF TimesCopied, Places
            <4>7. file'[k].id = n /\ k \in 1..Considered' BY <1>0, <2>0, <2>1, <2>2, <2>3, <3>4
            <4> QED BY <1>0, <2>1, <4>2, <4>6, <4>7
        <3> QED BY <3>3, <3>4
    <2> QED BY <2>1, <2>4, <2>5 DEF CopyOf
<1>13. CASE UNCHANGED <<file, watermark, mirror, operatorLog, crashes>>
    BY <1>8, <1>13 DEF Considered
<1>14. ASSUME NEW w \in Writers, FlushAndClose(w)
       PROVE  Considered' = Considered
    BY <1>6, <1>14 DEF Considered
<1> QED
    BY <1>6, <1>7, <1>8, <1>9, <1>10, <1>11, <1>12, <1>13, <1>14
       DEF Next, Write, Mirror, TakeLock, ComposeAndUnlock, WriterDies, MirrorDies,
           tenant, copying, vars

(* An operator action is copied at most once more for each kill, for any        *)
(* writers, any growth of the file and any kills: CopiedOncePerKill.           *)
THEOREM CopiesArePerKill == Spec => []CopiedOncePerKill
<1>1. TypeInv /\ CopyInv => CopiedOncePerKill
    BY TimesCopiedType DEF CopyInv, CopiedOncePerKill, TypeInv, TypeOK
<1> QED
    BY <1>1, TypeInit, TypeStep, IdsInit, IdsStep, CountInit, CountStep,
       MirrorInit, MirrorStep, CopyInit, CopyStep, PTL DEF Spec

-----------------------------------------------------------------------------
(* What crossing calls may damage, and what they may not.                    *)

\* Each line was chained to the one before, but for lines in D.
Chained(s, D) ==
    \A i \in 2..Len(s) : s[i].prev = s[i - 1].id \/ s[i].id \in D \/ s[i - 1].id \in D

\* With an entry of N all later ones of N are there, below it.
Complete(s, N) ==
    \A i \in 1..Len(s) : s[i].id \in N =>
        \A n \in N : n > s[i].id => \E j \in i + 1 .. Len(s) : s[j].id = n

(* Calls in progress together are crossed; a call nobody crossed sees the file *)
(* as it read it; a trim somebody crossed leaves the other's lines in front.   *)
CallsInv ==
    /\ \A v, w \in Busy : v # w => v \in crossed
    /\ \A w \in Writers : w \notin crossed =>
          /\ phase[w] = "locked" => lines[w] = file
          /\ phase[w] = "truncated" => file = <<>>
          /\ phase[w] = "buffered" =>
                entry[w][1].id = written /\ entry[w][1].prev = LastId(file)
    /\ \A w \in Writers : phase[w] = "truncated" =>
          \A i \in 1..Len(file) : file[i].id \in doubtful

OrderInv ==
    /\ Chained(file, doubtful) /\ Complete(file, Settled)
    /\ \A w \in Writers : Active(w) =>
          Chained(lines[w], doubtful) /\ Complete(lines[w], Settled)

LEMMA OrderInit == Init => CallsInv /\ OrderInv
BY DEF Init, CallsInv, OrderInv, Busy, Chained, Complete, Active

LEMMA KeptInOrder ==
    ASSUME TypeInv, NEW w \in Writers, MustTrim(w), NEW D, NEW N,
           Chained(lines[w], D), Complete(lines[w], N)
    PROVE  Chained(Kept(w), D) /\ Complete(Kept(w), N)
<1> DEFINE s == lines[w]
           k == Kept(w)
           c == Cut(w)
<1>1. /\ Len(k) \in Nat /\ c \in Nat \ {0} /\ Len(s) = c + Len(k)
      /\ \A i \in 1..Len(k) : i + c \in 1..Len(s) /\ k[i] = s[i + c]
    BY KeptLines, ReadTypes
<1>2. Chained(s, D) /\ Complete(s, N)
    OBVIOUS
<1> HIDE DEF s, k, c
<1>3. ASSUME NEW i \in 2..Len(k)
      PROVE  k[i].prev = k[i - 1].id \/ k[i].id \in D \/ k[i - 1].id \in D
    <2>1. i \in 1..Len(k) /\ i - 1 \in 1..Len(k) /\ i + c \in 2..Len(s)
        BY <1>1
    <2>2. (i - 1) + c = (i + c) - 1 BY <1>1, <2>1
    <2>3. k[i] = s[i + c] /\ k[i - 1] = s[(i + c) - 1] BY <1>1, <2>1, <2>2
    <2> QED BY <1>2, <2>1, <2>3 DEF Chained
<1>4. ASSUME NEW i \in 1..Len(k), k[i].id \in N, NEW n \in N, n > k[i].id
      PROVE  \E j \in i + 1 .. Len(k) : k[j].id = n
    <2>1. PICK j \in i + c + 1 .. Len(s) : s[j].id = n
        BY <1>1, <1>2, <1>4 DEF Complete
    <2>2. /\ j - c \in i + 1 .. Len(k) /\ j - c \in 1..Len(k) /\ (j - c) + c = j
        BY <1>1, <2>1
    <2> QED BY <1>1, <2>1, <2>2
<1>5. Chained(k, D) /\ Complete(k, N)
    BY <1>3, <1>4 DEF Chained, Complete
<1> QED BY <1>5 DEF k

\* Doubts only grow, and fewer settled entries ask for less.
LEMMA OrderWeakens ==
    ASSUME NEW s, NEW D, NEW E, D \subseteq E, NEW M, NEW N, M \subseteq N,
           Chained(s, D), Complete(s, N)
    PROVE  Chained(s, E) /\ Complete(s, M)
BY DEF Chained, Complete

LEMMA CallsStep == TypeInv /\ IdsInv /\ CallsInv /\ [Next]_vars => CallsInv'
<1> SUFFICES ASSUME TypeInv, IdsInv, CallsInv, [Next]_vars PROVE CallsInv'
    OBVIOUS
<1>0. /\ written \in Nat /\ Len(file) \in Nat /\ file \in Seq(Entries)
      /\ Busy \subseteq Writers
    BY ReadTypes DEF TypeInv, TypeOK, Busy
<1>a. \A v, w \in Writers : Active(v) /\ Active(w) => v = w
    BY DEF TypeInv, Locking
<1>1. ASSUME NEW w \in Writers, TakeLock(w) PROVE CallsInv'
    <2>1. /\ file' = file /\ written' = written /\ lines'[w] = file /\ phase'[w] = "locked"
          /\ \A v \in Writers \ {w} : phase'[v] = phase[v] /\ lines'[v] = lines[v]
          /\ entry' = entry /\ doubtful' = doubtful
          /\ crossed' = IF Busy = {} THEN crossed ELSE crossed \cup Busy \cup {w}
        BY <1>1 DEF TakeLock, TypeInv, TypeOK
    <2>2. Busy' = Busy \cup {w} BY <2>1 DEF Busy
    <2>3. \A v, u \in Busy' : v # u => v \in crossed'
        BY <2>1, <2>2 DEF CallsInv
    <2>4. crossed \subseteq crossed' BY <2>1
    <2> QED BY <2>1, <2>3, <2>4 DEF CallsInv
<1>2. ASSUME NEW w \in Writers, Truncate(w) PROVE CallsInv'
    <2>1. /\ phase[w] = "locked" /\ phase'[w] = "truncated" /\ file' = <<>>
          /\ \A v \in Writers \ {w} : phase'[v] = phase[v]
          /\ UNCHANGED <<lines, entry, written, crossed, doubtful>>
        BY <1>2 DEF Truncate, calls, TypeInv, TypeOK
    <2>2. Busy' = Busy /\ w \in Busy BY <2>1 DEF Busy
    <2>3. \A v \in Writers \ {w} : phase[v] # "idle" => v \in crossed
        BY <2>2 DEF CallsInv, Busy
    <2>4. \A v, u \in Busy' : v # u => v \in crossed'
        BY <2>1, <2>2 DEF CallsInv
    <2> QED BY <2>1, <2>3, <2>4 DEF CallsInv
<1>3. ASSUME NEW w \in Writers, RewriteKept(w) PROVE CallsInv'
    <2>1. /\ phase[w] = "truncated" /\ phase'[w] = "locked"
          /\ file' = file \o Kept(w) /\ lines'[w] = Kept(w)
          /\ \A v \in Writers \ {w} : phase'[v] = phase[v] /\ lines'[v] = lines[v]
          /\ UNCHANGED <<entry, written, crossed, doubtful>>
        BY <1>3 DEF RewriteKept, calls, TypeInv, TypeOK
    <2>2. Busy' = Busy /\ w \in Busy BY <2>1 DEF Busy
    <2>3. \A v \in Writers \ {w} : phase[v] # "idle" => v \in crossed
        BY <2>2 DEF CallsInv, Busy
    <2>4. \A v, u \in Busy' : v # u => v \in crossed'
        BY <2>1, <2>2 DEF CallsInv
    <2>5. \A v \in Writers : phase'[v] # "truncated"
        BY <1>a, <2>1 DEF Active
    <2>6. w \notin crossed => file' = Kept(w)
        <3>1. MustTrim(w) BY <2>1 DEF TypeInv, Locking
        <3>2. Kept(w) \in Seq(Entries) BY <3>1, KeptLines
        <3>3. <<>> \o Kept(w) = Kept(w) BY <3>2, ConcatEmptySeq
        <3> QED BY <2>1, <3>3 DEF CallsInv
    <2> QED BY <2>1, <2>3, <2>4, <2>5, <2>6 DEF CallsInv
<1>4. ASSUME NEW w \in Writers, ComposeAndUnlock(w) PROVE CallsInv'
    <2>1. PICK op \in BOOLEAN : entry' = [entry EXCEPT ![w] = <<NewEntry(w, op)>>]
        BY <1>4 DEF ComposeAndUnlock
    <2>2. /\ phase[w] = "locked" /\ phase'[w] = "buffered"
          /\ entry'[w][1] = NewEntry(w, op) /\ written' = written + 1
          /\ \A v \in Writers \ {w} : phase'[v] = phase[v] /\ entry'[v] = entry[v]
          /\ UNCHANGED <<file, lines, crossed, doubtful>>
        BY <1>4, <2>1 DEF ComposeAndUnlock, calls, TypeInv, TypeOK
    <2>3. Busy' = Busy /\ w \in Busy BY <2>2 DEF Busy
    <2>4. \A v \in Writers \ {w} : phase[v] # "idle" => v \in crossed
        BY <2>3 DEF CallsInv, Busy
    <2>5. \A v, u \in Busy' : v # u => v \in crossed'
        BY <2>2, <2>3 DEF CallsInv
    <2> QED BY <2>2, <2>4, <2>5 DEF CallsInv, NewEntry
<1>5. ASSUME NEW w \in Writers, FlushAndClose(w) PROVE CallsInv'
    <2>1. /\ phase[w] = "buffered" /\ phase'[w] = "idle" /\ file' = Flushed(w)
          /\ \A v \in Writers \ {w} :
                phase'[v] = phase[v] /\ entry'[v] = entry[v] /\ lines'[v] = lines[v]
          /\ written' = written /\ crossed' = crossed \ {w}
          /\ doubtful' = IF w \in crossed THEN doubtful \cup Held(w) ELSE doubtful
        BY <1>5 DEF FlushAndClose, Return, TypeInv, TypeOK
    <2>2. Busy' = Busy \ {w} /\ w \in Busy BY <2>1 DEF Busy
    <2>3. \A v \in Writers \ {w} : phase[v] # "idle" => v \in crossed /\ w \in crossed
        BY <2>2 DEF CallsInv, Busy
    <2>4. \A v, u \in Busy' : v # u => v \in crossed'
        BY <2>1, <2>2 DEF CallsInv
    <2>5. Held(w) = {entry[w][1].id} BY <2>1, HeldIds
    <2>6. ASSUME NEW v \in Writers, phase'[v] = "truncated", NEW i \in 1..Len(file')
          PROVE  file'[i].id \in doubtful'
        <3>1. w \in crossed /\ phase[v] = "truncated" BY <2>1, <2>3, <2>6
        <3>2. CASE i \in 1..Len(file)
            BY <2>1, <3>1, <3>2, FlushedFile DEF CallsInv
        <3>3. CASE i \notin 1..Len(file)
            <4>1. i = Len(file) + 1 BY <1>0, <2>1, <2>6, <3>3, FlushedFile
            <4> QED BY <2>1, <2>5, <3>1, <4>1, FlushedFile
        <3> QED BY <3>2, <3>3
    <2> QED BY <2>1, <2>3, <2>4, <2>6 DEF CallsInv
<1>6. ASSUME NEW w \in Writers, WriterDies(w) PROVE CallsInv'
    <2>1. /\ phase[w] # "idle" /\ phase'[w] = "idle" /\ file' = file
          /\ \A v \in Writers \ {w} :
                phase'[v] = phase[v] /\ entry'[v] = entry[v] /\ lines'[v] = lines[v]
          /\ written' = written /\ crossed' = crossed \ {w}
          /\ doubtful' = doubtful \cup Held(w)
        BY <1>6 DEF WriterDies, Return, TypeInv, TypeOK
    <2>2. Busy' = Busy \ {w} BY <2>1 DEF Busy
    <2>3. \A v, u \in Busy' : v # u => v \in crossed'
        BY <2>1, <2>2 DEF CallsInv
    <2> QED BY <2>1, <2>3 DEF CallsInv
<1>7. CASE UNCHANGED <<file, phase, lines, entry, written, crossed, doubtful>>
    BY <1>7 DEF CallsInv, Busy
<1> QED
    BY <1>1, <1>2, <1>3, <1>4, <1>5, <1>6, <1>7
       DEF Next, Write, Mirror, ReadTrail, MirrorLine, SaveWatermark, MirrorDies, tenant,
           calls, vars

LEMMA SettledIds == TypeInv => Settled \subseteq 1..written /\ Settled \cap doubtful = {}
BY DEF Settled

\* Only a call that returns uncrossed settles an entry; doubts are not taken back.
LEMMA SettledStep ==
    TypeInv /\ IdsInv /\ [Next]_vars =>
        /\ doubtful \subseteq doubtful'
        /\ \/ Settled' \subseteq Settled
           \/ \E w \in Writers : FlushAndClose(w) /\ w \notin crossed
                                 /\ Settled' \subseteq Settled \cup {entry[w][1].id}
<1> SUFFICES ASSUME TypeInv, IdsInv, [Next]_vars
             PROVE  /\ doubtful \subseteq doubtful'
                    /\ \/ Settled' \subseteq Settled
                       \/ \E w \in Writers : FlushAndClose(w) /\ w \notin crossed
                                             /\ Settled' \subseteq Settled \cup {entry[w][1].id}
    OBVIOUS
<1>0. written \in Nat BY ReadTypes
<1>1. CASE UNCHANGED <<entry, written, doubtful>>
    BY <1>1 DEF Settled, Held
<1>2. ASSUME NEW w \in Writers, ComposeAndUnlock(w)
      PROVE  doubtful \subseteq doubtful' /\ Settled' \subseteq Settled
    <2>1. PICK op \in BOOLEAN : entry' = [entry EXCEPT ![w] = <<NewEntry(w, op)>>]
        BY <1>2 DEF ComposeAndUnlock
    <2>2. /\ doubtful' = doubtful /\ written' = written + 1
          /\ entry[w] = <<>> /\ entry'[w] = <<NewEntry(w, op)>>
          /\ \A v \in Writers \ {w} : entry'[v] = entry[v]
        BY <1>2, <2>1 DEF ComposeAndUnlock, calls, TypeInv, TypeOK, Locking
    <2>3. written + 1 \in Held(w)'
        BY <2>2 DEF Held, NewEntry
    <2>4. \A v \in Writers : Held(v) \subseteq Held(v)'
        BY <2>2 DEF Held
    <2> QED BY <1>0, <2>2, <2>3, <2>4 DEF Settled
<1>3. ASSUME NEW w \in Writers, FlushAndClose(w) \/ WriterDies(w)
      PROVE  /\ doubtful \subseteq doubtful'
             /\ Settled' \subseteq Settled \cup Held(w)
             /\ (WriterDies(w) \/ w \in crossed => Settled' \subseteq Settled)
    <2>1. /\ written' = written /\ \A v \in Writers \ {w} : entry'[v] = entry[v]
          /\ doubtful' = doubtful \/ doubtful' = doubtful \cup Held(w)
          /\ WriterDies(w) \/ w \in crossed => doubtful' = doubtful \cup Held(w)
        BY <1>3 DEF FlushAndClose, WriterDies, Return, TypeInv, TypeOK
    <2>2. \A v \in Writers \ {w} : Held(v)' = Held(v)
        BY <2>1 DEF Held
    <2> QED BY <2>1, <2>2 DEF Settled
<1>4. ASSUME NEW w \in Writers, FlushAndClose(w)
      PROVE  Held(w) = {entry[w][1].id}
    BY <1>4, HeldIds DEF FlushAndClose
<1> QED
    BY <1>1, <1>2, <1>3, <1>4
       DEF Next, Write, TakeLock, Truncate, RewriteKept, Mirror, ReadTrail, MirrorLine,
           SaveWatermark, MirrorDies, tenant, calls, vars

LEMMA OrderStep ==
    TypeInv /\ IdsInv /\ CallsInv /\ OrderInv /\ [Next]_vars => OrderInv'
<1> SUFFICES ASSUME TypeInv, IdsInv, CallsInv, OrderInv, [Next]_vars PROVE OrderInv'
    OBVIOUS
<1>0. /\ written \in Nat /\ Len(file) \in Nat /\ file \in Seq(Entries)
      /\ doubtful \subseteq doubtful'
    BY ReadTypes, SettledStep DEF TypeInv, TypeOK
<1>1. ASSUME NEW s, Chained(s, doubtful), Complete(s, Settled), Settled' \subseteq Settled
      PROVE  Chained(s, doubtful') /\ Complete(s, Settled')
    BY <1>0, <1>1, OrderWeakens
<1>2. ASSUME NEW w \in Writers, RewriteKept(w) PROVE OrderInv'
    <2>1. /\ phase[w] = "truncated" /\ phase'[w] = "locked"
          /\ file' = file \o Kept(w) /\ lines'[w] = Kept(w)
          /\ \A v \in Writers \ {w} : phase'[v] = phase[v] /\ lines'[v] = lines[v]
          /\ doubtful' = doubtful /\ Settled' = Settled
        BY <1>2 DEF RewriteKept, calls, TypeInv, TypeOK, Settled, Held
    <2>2. MustTrim(w) /\ Active(w) BY <2>1 DEF TypeInv, Locking, Active
    <2>3. Chained(Kept(w), doubtful) /\ Complete(Kept(w), Settled)
        BY <2>2, KeptInOrder DEF OrderInv
    <2>4. \A i \in 1..Len(file) : file[i].id \in doubtful
        BY <2>1 DEF CallsInv
    <2>5. /\ Len(Kept(w)) \in Nat /\ Len(file') = Len(file) + Len(Kept(w))
          /\ \A i \in 1..Len(file) : file'[i] = file[i]
          /\ \A i \in 1..Len(file') : i > Len(file) =>
                i - Len(file) \in 1..Len(Kept(w)) /\ file'[i] = Kept(w)[i - Len(file)]
        BY <2>1, <2>2, RewrittenFile, KeptLines
    <2>6. Chained(file', doubtful)
        <3> SUFFICES ASSUME NEW i \in 2..Len(file')
                     PROVE  \/ file'[i].prev = file'[i - 1].id
                            \/ file'[i].id \in doubtful \/ file'[i - 1].id \in doubtful
            BY DEF Chained
        <3>1. CASE i - 1 \in 1..Len(file)
            BY <2>4, <2>5, <3>1
        <3>2. CASE i - 1 > Len(file)
            <4> DEFINE k == i - Len(file)
            <4>1. /\ i \in 1..Len(file') /\ i - 1 \in 1..Len(file') /\ i > Len(file)
                  /\ (i - 1) - Len(file) = k - 1
                BY <1>0, <2>5, <3>2
            <4>2. k \in 2..Len(Kept(w)) BY <1>0, <2>5, <3>2
            <4>3. file'[i] = Kept(w)[k] /\ file'[i - 1] = Kept(w)[k - 1]
                BY <2>5, <3>2, <4>1
            <4> QED BY <2>3, <4>2, <4>3 DEF Chained
        <3> QED BY <1>0, <2>5, <3>1, <3>2
    <2>7. Complete(file', Settled)
        <3> SUFFICES ASSUME NEW i \in 1..Len(file'), file'[i].id \in Settled,
                            NEW n \in Settled, n > file'[i].id
                     PROVE  \E j \in i + 1 .. Len(file') : file'[j].id = n
            BY DEF Complete
        <3>1. i > Len(file)
            BY <1>0, <2>4, <2>5, SettledIds
        <3> DEFINE k == i - Len(file)
        <3>2. k \in 1..Len(Kept(w)) /\ file'[i] = Kept(w)[k]
            BY <2>5, <3>1
        <3>3. PICK m \in k + 1 .. Len(Kept(w)) : Kept(w)[m].id = n
            BY <2>3, <3>2 DEF Complete
        <3>4. /\ m + Len(file) \in i + 1 .. Len(file') /\ m + Len(file) \in 1..Len(file')
              /\ m + Len(file) > Len(file) /\ (m + Len(file)) - Len(file) = m
            BY <1>0, <2>5, <3>1, <3>2, <3>3
        <3>5. file'[m + Len(file)] = Kept(w)[m] BY <2>5, <3>4
        <3> QED BY <3>3, <3>4, <3>5
    <2>8. \A v \in Writers : Active(v)' => v = w \/ Active(v)
        BY <2>1 DEF Active
    <2> QED BY <2>1, <2>2, <2>3, <2>6, <2>7, <2>8 DEF OrderInv
<1>3. ASSUME NEW w \in Writers, FlushAndClose(w) PROVE OrderInv'
    <2> DEFINE e == entry[w][1]
    <2>1. /\ phase[w] = "buffered" /\ phase'[w] = "idle" /\ file' = Flushed(w)
          /\ \A v \in Writers \ {w} : phase'[v] = phase[v] /\ lines'[v] = lines[v]
          /\ doubtful' = IF w \in crossed THEN doubtful \cup Held(w) ELSE doubtful
          /\ written' = written
        BY <1>3 DEF FlushAndClose, Return, TypeInv, TypeOK
    <2>2. /\ Len(file') = Len(file) + 1 /\ file'[Len(file) + 1] = e
          /\ \A i \in 1..Len(file) : file'[i] = file[i]
          /\ Held(w) = {e.id}
        BY <2>1, FlushedFile, HeldIds
    <2>3. /\ w \in crossed => e.id \in doubtful'
          /\ w \notin crossed => e.id = written /\ e.prev = LastId(file)
        BY <2>1, <2>2 DEF CallsInv
    <2>4. Settled' \subseteq Settled \/ (w \notin crossed /\ Settled' \subseteq Settled \cup {e.id})
        <3>1. \A v \in Writers : FlushAndClose(v) /\ v # w => FALSE
            BY <2>1 DEF FlushAndClose, Return, TypeInv, TypeOK
        <3> QED BY <3>1, SettledStep
    <2>5. Chained(file', doubtful')
        <3> SUFFICES ASSUME NEW i \in 2..Len(file')
                     PROVE  \/ file'[i].prev = file'[i - 1].id
                            \/ file'[i].id \in doubtful' \/ file'[i - 1].id \in doubtful'
            BY DEF Chained
        <3>1. CASE i \in 2..Len(file)
            <4>1. i \in 1..Len(file) /\ i - 1 \in 1..Len(file) BY <1>0, <3>1
            <4> QED BY <1>0, <2>2, <3>1, <4>1 DEF OrderInv, Chained
        <3>2. CASE i = Len(file) + 1
            <4>1. Len(file) \in 1..Len(file) /\ file # <<>> /\ i - 1 = Len(file)
                BY <1>0, <3>2
            <4>2. LastId(file) = file'[i - 1].id BY <2>2, <4>1 DEF LastId
            <4> QED BY <2>2, <2>3, <3>2, <4>2
        <3> QED BY <1>0, <2>2, <3>1, <3>2
    <2>6. Complete(file', Settled')
        <3> SUFFICES ASSUME NEW i \in 1..Len(file'), file'[i].id \in Settled',
                            NEW n \in Settled', n > file'[i].id
                     PROVE  \E j \in i + 1 .. Len(file') : file'[j].id = n
            BY DEF Complete
        <3>0. Settled' \subseteq 1..written /\ Settled' \cap doubtful' = {}
            BY <2>1 DEF Settled
        <3>1. i # Len(file) + 1
            BY <1>0, <2>2, <2>3, <3>0
        <3>2. i \in 1..Len(file) /\ file'[i] = file[i] BY <1>0, <2>2, <3>1
        <3>3. file[i].id # e.id
            BY <2>1, <3>2 DEF IdsInv, Lacks
        <3>4. file[i].id \in Settled BY <2>4, <3>2, <3>3
        <3>5. CASE n \in Settled
            <4>1. PICK j \in i + 1 .. Len(file) : file[j].id = n
                BY <3>2, <3>4, <3>5 DEF OrderInv, Complete
            <4>2. j \in 1..Len(file) /\ j \in i + 1 .. Len(file') BY <1>0, <2>2, <3>2, <4>1
            <4> QED BY <2>2, <4>1, <4>2
        <3>6. CASE n \notin Settled
            <4>1. n = e.id BY <2>4, <3>6
            <4>2. Len(file) + 1 \in i + 1 .. Len(file') BY <1>0, <2>2, <3>2
            <4> QED BY <2>2, <4>1, <4>2
        <3> QED BY <3>5, <3>6
    <2>7. ASSUME NEW v \in Writers, Active(v)'
          PROVE  Chained(lines'[v], doubtful') /\ Complete(lines'[v], Settled')
        <3>1. v # w /\ Active(v) /\ lines'[v] = lines[v]
            BY <2>1, <2>7 DEF Active
        <3>2. w \in crossed BY <2>1, <3>1 DEF CallsInv, Busy, Active
        <3> QED BY <1>1, <2>4, <3>1, <3>2 DEF OrderInv
    <2> QED BY <2>5, <2>6, <2>7 DEF OrderInv
<1>4. CASE /\ ~\E w \in Writers : RewriteKept(w) \/ FlushAndClose(w)
    <2>1. Settled' \subseteq Settled BY <1>4, SettledStep
    <2>2. Chained(file, doubtful') /\ Complete(file, Settled')
        BY <1>1, <2>1 DEF OrderInv
    <2>3. file' = file \/ file' = <<>>
        BY <1>4 DEF Next, Write, TakeLock, Truncate, ComposeAndUnlock, WriterDies, Mirror,
               ReadTrail, MirrorLine, SaveWatermark, MirrorDies, tenant, vars
    <2>4. Chained(<<>>, doubtful') /\ Complete(<<>>, Settled') BY DEF Chained, Complete
    <2>5. \A v \in Writers : Active(v)' => lines'[v] = file \/ (Active(v) /\ lines'[v] = lines[v])
        BY <1>4 DEF Next, Write, TakeLock, Truncate, ComposeAndUnlock, WriterDies, Return, Mirror,
               ReadTrail, MirrorLine, SaveWatermark, MirrorDies, tenant, vars, Active,
               TypeInv, TypeOK
    <2>6. ASSUME NEW v \in Writers, Active(v)'
          PROVE  Chained(lines'[v], doubtful') /\ Complete(lines'[v], Settled')
        BY <1>1, <2>1, <2>2, <2>5, <2>6 DEF OrderInv
    <2> QED BY <2>2, <2>3, <2>4, <2>6 DEF OrderInv
<1> QED BY <1>2, <1>3, <1>4

LEMMA OrderAlways == Spec => []OrderInv
<1> QED
    BY TypeInit, TypeStep, IdsInit, IdsStep, OrderInit, CallsStep, OrderStep, PTL DEF Spec

(* The trail's chain breaks only at a line whose call crossed another's, across *)
(* any number of trims and kills: TrailChainIntact, for any constants.        *)
THEOREM TrailStaysChained == Spec => []TrailChainIntact
<1>1. OrderInv => TrailChainIntact BY DEF OrderInv, TrailChainIntact, Chained
<1> QED BY <1>1, OrderAlways, PTL

(* A trim keeps the newest of the settled lines, all of them and in their       *)
(* order: TrimKeepsNewest, for any constants.                                  *)
THEOREM TrimKeepsTheNewest == Spec => []TrimKeepsNewest
<1>1. OrderInv => TrimKeepsNewest BY DEF OrderInv, TrimKeepsNewest, Complete
<1> QED BY <1>1, OrderAlways, PTL
=============================================================================

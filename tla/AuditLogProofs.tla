--------------------------- MODULE AuditLogProofs ---------------------------
(***************************************************************************)
(* What TLAPS proves about AuditLog: for any number of writers, shippers   *)
(* and upsets, and any length of the log.                                  *)
(***************************************************************************)
EXTENDS AuditLog, SequenceTheorems, TLAPS

-----------------------------------------------------------------------------
(* Type correctness.                                                        *)

(* A ship in its work directory has a second for it, and for its chunk.     *)
Places(s) ==
    /\ Housed(s) => workdir[s] \in 1..clock
    /\ phase[s] \in {"push", "clean"} => timestamp[s] \in 1..clock

AllPlaces == \A s \in Shippers : Places(s)

(* They are seconds that have come.                                         *)
LEMMA PlacesStep == TypeOK /\ AllPlaces /\ [Next]_vars => AllPlaces'
  <1> SUFFICES ASSUME TypeOK, AllPlaces, [Next]_vars, NEW u \in Shippers
               PROVE  Places(u)'
    BY DEF AllPlaces
  <1> USE ConstantsAssumption DEF TypeOK
  <1>0. Places(u) /\ clock \in Nat /\ clock \in 1..clock
    BY DEF AllPlaces, Seconds
  <1>1. CASE UNCHANGED <<clock, phase, workdir, timestamp>>
    BY <1>0, <1>1 DEF Places, Housed
  <1>2. CASE Tick
    BY <1>0, <1>2 DEF Tick, Places, Housed, inMemory
  <1>3. ASSUME NEW s \in Shippers,
               ReadOffset(s) \/ StatLog(s) \/ ReadNewLines(s) \/ OpenState(s)
        PROVE  Places(u)'
    BY <1>0, <1>3 DEF ReadOffset, StatLog, ReadNewLines, OpenState, inMemory, Places, Housed
  <1>4. ASSUME NEW s \in Shippers, MakeDir(s) \/ WriteChunk(s) \/ PushChunk(s)
        PROVE  Places(u)'
    BY <1>0, <1>4 DEF MakeDir, WriteChunk, PushChunk, Places, Housed
  <1>5. ASSUME NEW s \in Shippers,
               RemoveDir(s) \/ FindsNothing(s) \/ SaveOffset(s) \/ ShipFails(s)
        PROVE  Places(u)'
    BY <1>0, <1>5 DEF RemoveDir, FindsNothing, SaveOffset, ShipFails, Return, Places, Housed
  <1> QED
    BY <1>1, <1>2, <1>3, <1>4, <1>5
       DEF Next, Ship, HashLast, AppendLine, shipping, shipState, inMemory, vars

(* No step of a writer or of a shipper breaks the types.                    *)
LEMMA TypeStep == TypeOK /\ AllPlaces /\ [Next]_vars => TypeOK'
  <1> SUFFICES ASSUME TypeOK, AllPlaces, [Next]_vars PROVE TypeOK'
    OBVIOUS
  <1> USE ConstantsAssumption DEF TypeOK, logging
  <1>1. CASE UNCHANGED vars
    BY <1>1 DEF vars
  <1>2. ASSUME NEW w \in Writers, HashLast(w) PROVE TypeOK'
    BY <1>2 DEF HashLast, LastLine, Logging, shipState, inMemory, onDisk, sent
  <1>3. ASSUME NEW w \in Writers, AppendLine(w) PROVE TypeOK'
    <2>1. Len(log) + 1 \in Nat
      OBVIOUS
    <2>2. doubtful' \subseteq Nat /\ crossed' \subseteq Writers
      BY <1>3, <2>1 DEF AppendLine
    <2>3. log' \in Seq(Nat \cup {NoPrev})
      BY <1>3 DEF AppendLine
    <2> QED
      BY <1>3, <2>2, <2>3 DEF AppendLine, shipping, shipState, inMemory, onDisk, sent
  <1>l. Len(log) \in Nat
    OBVIOUS
  <1>0. Seconds \subseteq Nat /\ clock \in Nat /\ Seconds \subseteq 0..MaxSeconds
    BY DEF Seconds
  <1>n. Nothing \in [Seconds -> [first : Nat, last : Nat] \cup {NoFile}]
    BY DEF Nothing
  <1>t. CASE Tick
    BY <1>t DEF Tick, Seconds, inMemory, onDisk, sent
  <1>4. ASSUME NEW s \in Shippers, ReadOffset(s) \/ StatLog(s) \/ ReadNewLines(s)
        PROVE  TypeOK'
    <2>1. CASE ReadOffset(s)
      BY <2>1 DEF ReadOffset, Readable, onDisk, sent
    <2>2. CASE StatLog(s)
      BY <2>2, <1>l DEF StatLog, onDisk, sent
    <2>3. CASE ReadNewLines(s)
      BY <2>3, <1>l DEF ReadNewLines, onDisk, sent
    <2> QED
      BY <1>4, <2>1, <2>2, <2>3
  <1>5. ASSUME NEW s \in Shippers, MakeDir(s) PROVE TypeOK'
    <2>1. \A t \in Shippers : NewLines(t) \subseteq Nat
      BY DEF NewLines
    <2>2. UNION {NewLines(t) : t \in {u \in Housemates(s) \cup {s} : Housemates(s) # {}}}
              \subseteq Nat
      BY <2>1 DEF Housemates
    <2>3. spoiled' \subseteq Nat
      BY <1>5, <2>2 DEF MakeDir
    <2> QED
      BY <1>5, <1>0, <2>3 DEF MakeDir, sent
  <1>6. ASSUME NEW s \in Shippers, WriteChunk(s) PROVE TypeOK'
    <2>1. Chunk(s) \in [first : Nat, last : Nat]
      BY DEF Chunk
    <2>2. workdir[s] \in Seconds /\ local[workdir[s]]
              \in [Seconds -> [first : Nat, last : Nat] \cup {NoFile}]
      BY <1>6 DEF WriteChunk
    <2>3. [local[workdir[s]] EXCEPT ![clock] = Chunk(s)]
              \in [Seconds -> [first : Nat, last : Nat] \cup {NoFile}]
      BY <2>1, <2>2
    <2>4. local' \in [Seconds -> [Seconds -> [first : Nat, last : Nat] \cup {NoFile}]]
      BY <1>6, <2>2, <2>3 DEF WriteChunk
    <2>5. timestamp' \in [Shippers -> 0..MaxSeconds]
      BY <1>6, <1>0 DEF WriteChunk
    <2> QED
      BY <1>6, <2>4, <2>5 DEF WriteChunk, sent
  <1>7. ASSUME NEW s \in Shippers, PushChunk(s), Places(s) PROVE TypeOK'
    <2>1. timestamp[s] \in Seconds /\ workdir[s] \in Seconds
      BY <1>7, <1>0 DEF PushChunk, Places, Housed, Seconds
    <2>2. Written(s) \in [first : Nat, last : Nat] /\ remote[timestamp[s]]
              \in [first : Nat, last : Nat] \cup {NoFile}
      BY <1>7, <2>1 DEF PushChunk, Written
    <2>3. Lines(remote[timestamp[s]]) \subseteq Nat
      BY <2>2 DEF Lines
    <2>4. remote' \in [Seconds -> [first : Nat, last : Nat] \cup {NoFile}]
      BY <1>7, <2>2 DEF PushChunk
    <2>5. replaced' \subseteq Nat
      BY <1>7, <2>3 DEF PushChunk
    <2> QED
      BY <1>7, <2>4, <2>5 DEF PushChunk, onDisk
  <1>r. ASSUME NEW d, RemoveTree(d)
        PROVE  /\ dirs' \subseteq Seconds
               /\ local' \in [Seconds -> [Seconds -> [first : Nat, last : Nat] \cup {NoFile}]]
    BY <1>r, <1>n DEF RemoveTree
  <1>8. ASSUME NEW s \in Shippers, RemoveDir(s) \/ FindsNothing(s) PROVE TypeOK'
    <2>1. RemoveTree(workdir[s])
      BY <1>8 DEF RemoveDir, FindsNothing
    <2>2. CASE RemoveDir(s)
      BY <2>1, <2>2, <1>r DEF RemoveDir, sent
    <2>3. CASE FindsNothing(s)
      BY <2>1, <2>3, <1>r DEF FindsNothing, Return, sent
    <2> QED
      BY <1>8, <2>2, <2>3
  <1>9. ASSUME NEW s \in Shippers, OpenState(s) \/ SaveOffset(s) \/ ShipFails(s)
        PROVE  TypeOK'
    <2>1. CASE OpenState(s)
      BY <2>1 DEF OpenState, inMemory, onDisk, sent
    <2>2. CASE SaveOffset(s)
      BY <2>2 DEF SaveOffset, SavedOffset, Return, onDisk, sent
    <2>3. CASE ShipFails(s)
      BY <2>3, <1>r DEF ShipFails, Return, onDisk, sent
    <2> QED
      BY <1>9, <2>1, <2>2, <2>3
  <1> QED
    BY <1>1, <1>2, <1>3, <1>t, <1>4, <1>5, <1>6, <1>7, <1>8, <1>9
       DEF Next, Ship, AllPlaces

(* The log holds positions and the shipper offsets, whatever the constants.  *)
THEOREM TypeCorrect == Spec => [](TypeOK /\ AllPlaces)
  <1>1. Init => TypeOK /\ AllPlaces
    BY ConstantsAssumption
       DEF Init, TypeOK, Seconds, Nothing, AllPlaces, Places, Housed
  <1> QED
    BY <1>1, TypeStep, PlacesStep, PTL DEF Spec

-----------------------------------------------------------------------------
(* The chain.                                                               *)

(* What a writer whose call crossed no other has hashed is still the last    *)
(* line, and nobody else is inside log_action.                               *)
AloneHashedLast ==
    \A w \in Writers : hashed[w] # NotHashed /\ w \notin crossed =>
        /\ hashed[w] = Len(log)
        /\ \A v \in Writers : v # w => hashed[v] = NotHashed

(* Only writers touch the log or what they hashed.                          *)
LEMMA ShippersDoNotWrite ==
    ASSUME NEW s \in Shippers, Ship(s) \/ ShipFails(s)
    PROVE  UNCHANGED logging
  BY DEF Ship, ReadOffset, StatLog, ReadNewLines, MakeDir, WriteChunk, PushChunk,
         RemoveDir, FindsNothing, OpenState, SaveOffset, ShipFails, logging

(* Two calls that run at once have crossed each other.                       *)
LEMMA HashKeepsAlone ==
    ASSUME TypeOK, AloneHashedLast, NEW w \in Writers, HashLast(w)
    PROVE  AloneHashedLast'
  <1> USE ConstantsAssumption DEF TypeOK
  <1> SUFFICES ASSUME NEW u \in Writers, hashed'[u] # NotHashed, u \notin crossed'
               PROVE  /\ hashed'[u] = Len(log')
                      /\ \A v \in Writers : v # u => hashed'[v] = NotHashed
    BY DEF AloneHashedLast
  <1>1. log' = log /\ hashed' = [hashed EXCEPT ![w] = Len(log)]
    BY DEF HashLast, LastLine
  <1>2. CASE Logging = {}
    BY <1>1, <1>2 DEF Logging
  <1>3. CASE Logging # {}
    <2>1. crossed' = crossed \cup Logging \cup {w}
      BY <1>3 DEF HashLast
    <2>2. u # w /\ u \notin Logging
      BY <2>1
    <2> QED
      BY <1>1, <2>2 DEF Logging
  <1> QED
    BY <1>2, <1>3

(* A line that names its predecessor, or is remembered as doubtful, joins a  *)
(* log in which every break is.                                              *)
LEMMA AppendKeepsChain ==
    ASSUME TypeOK, AloneHashedLast, ChainIntact, NEW w \in Writers, AppendLine(w)
    PROVE  ChainIntact'
  <1> DEFINE n == Len(log)
  <1>1. n \in Nat /\ log' = Append(log, hashed[w])
    BY DEF TypeOK, AppendLine
  <1>2. Len(log') = n + 1 /\ log'[n + 1] = hashed[w]
        /\ \A i \in 1..n : log'[i] = log[i]
    BY <1>1, AppendProperties DEF TypeOK
  <1>3. doubtful \subseteq doubtful' /\ (w \in crossed => n + 1 \in doubtful')
    BY DEF AppendLine
  <1>4. w \notin crossed => hashed[w] = n
    BY DEF AppendLine, AloneHashedLast
  <1> HIDE DEF n
  <1> SUFFICES ASSUME NEW i \in 1..(n + 1), BreaksChain(i)' PROVE i \in doubtful'
    BY <1>2 DEF ChainIntact
  <1>5. CASE i = n + 1
    BY <1>1, <1>2, <1>3, <1>4, <1>5 DEF BreaksChain
  <1>6. CASE i \in 1..n
    <2>1. i > 1 => i - 1 \in 1..n
      BY <1>1, <1>6
    <2>2. BreaksChain(i)
      BY <1>2, <1>6, <2>1 DEF BreaksChain
    <2> QED
      BY <1>3, <1>6, <2>2 DEF ChainIntact, n
  <1> QED
    BY <1>1, <1>5, <1>6

(* The invariant is inductive.                                               *)
LEMMA ChainStep ==
    TypeOK /\ AloneHashedLast /\ ChainIntact /\ [Next]_vars
        => (AloneHashedLast /\ ChainIntact)'
  <1> SUFFICES ASSUME TypeOK, AloneHashedLast, ChainIntact, [Next]_vars
               PROVE  (AloneHashedLast /\ ChainIntact)'
    OBVIOUS
  <1>1. CASE UNCHANGED logging
    BY <1>1 DEF logging, AloneHashedLast, ChainIntact, BreaksChain
  <1>2. ASSUME NEW w \in Writers, HashLast(w)
        PROVE  (AloneHashedLast /\ ChainIntact)'
    <2>1. ChainIntact'
      BY <1>2 DEF HashLast, ChainIntact, BreaksChain
    <2> QED
      BY <1>2, <2>1, HashKeepsAlone
  <1>3. ASSUME NEW w \in Writers, AppendLine(w)
        PROVE  (AloneHashedLast /\ ChainIntact)'
    <2>1. ASSUME NEW u \in Writers, hashed'[u] # NotHashed, u \notin crossed'
          PROVE  FALSE
      <3>1. u # w /\ hashed[u] # NotHashed /\ u \notin crossed
        BY <1>3, <2>1 DEF AppendLine, TypeOK
      <3> QED
        BY <1>3, <3>1 DEF AppendLine, AloneHashedLast
    <2> QED
      BY <1>3, <2>1, AppendKeepsChain DEF AloneHashedLast
  <1> QED
    BY <1>1, <1>2, <1>3, ShippersDoNotWrite DEF Next, Tick, vars, logging

(* With any number of processes writing at once, and any number of lines     *)
(* from before the field existed: `vhsp audit verify` reports a break in a   *)
(* log nobody tampered with only at a line whose call overlapped another.    *)
THEOREM ChainStaysIntact == Spec => []ChainIntact
  <1>1. Init => AloneHashedLast /\ ChainIntact
    BY ConstantsAssumption
       DEF Init, AloneHashedLast, ChainIntact, BreaksChain
  <1> QED
    BY <1>1, TypeCorrect, ChainStep, PTL DEF Spec

-----------------------------------------------------------------------------
(* What has been sent under a name up to t, or need not have been.           *)

Cover(t) == replaced \cup spoiled \cup UNION {Lines(remote[u]) : u \in 1..t}

(* Names of later seconds cover more, and all of them what was ever sent.    *)
LEMMA CoverIsSent ==
    ASSUME TypeOK, NEW t \in 0..MaxSeconds
    PROVE  /\ Cover(t) \subseteq Sent \cup spoiled
           /\ \A u \in 0..MaxSeconds : t <= u => Cover(t) \subseteq Cover(u)
  <1>1. 1..t \subseteq Seconds
    BY ConstantsAssumption DEF Seconds
  <1>2. Cover(t) \subseteq Sent \cup spoiled
    BY <1>1 DEF Cover, Sent
  <1>3. ASSUME NEW u \in 0..MaxSeconds, t <= u PROVE 1..t \subseteq 1..u
    BY <1>3, ConstantsAssumption
  <1> QED
    BY <1>2, <1>3 DEF Cover

(* A push keeps what is covered: what it replaces is remembered, and under   *)
(* its own name the lines it sends are added.                               *)
LEMMA PushCovers ==
    ASSUME TypeOK, AllPlaces, NEW s \in Shippers, PushChunk(s), NEW t \in 0..MaxSeconds
    PROVE  /\ Cover(t) \subseteq Cover(t)'
           /\ t >= timestamp[s] => Lines(Written(s)) \subseteq Cover(t)'
           /\ timestamp[s] \in Seconds
           /\ t = timestamp[s] - 1 => Cover(timestamp[s]) \subseteq Cover(t)'
  <1> DEFINE n == timestamp[s]
  <1>1. n \in 1..clock /\ clock \in Seconds /\ n \in Seconds /\ n \in Nat /\ t \in Nat
    BY ConstantsAssumption DEF PushChunk, AllPlaces, Places, TypeOK, Seconds
  <1>2. /\ remote'[n] = Written(s)
        /\ \A u \in Seconds : u # n => remote'[u] = remote[u]
        /\ replaced' = replaced \cup Lines(remote[n]) /\ spoiled' = spoiled
    BY <1>1 DEF PushChunk, TypeOK
  <1> HIDE DEF n
  <1>3. \A u \in 1..MaxSeconds : Lines(remote[u]) \subseteq replaced' \cup Lines(remote'[u])
    BY <1>2 DEF Seconds
  <1>4. 1..t \subseteq 1..MaxSeconds
    BY ConstantsAssumption
  <1>5. Cover(t) \subseteq Cover(t)'
    BY <1>2, <1>3, <1>4 DEF Cover
  <1>6. ASSUME t >= n PROVE Lines(Written(s)) \subseteq Cover(t)'
    <2>1. n \in 1..t
      BY <1>1, <1>6 DEF Seconds
    <2>2. Cover(t)' = replaced' \cup spoiled' \cup UNION {Lines(remote'[u]) : u \in 1..t}
      BY DEF Cover, Lines
    <2> QED
      BY <1>2, <2>1, <2>2
  <1>7. ASSUME t = n - 1 PROVE Cover(n) \subseteq Cover(t)'
    <2>1. \A u \in 1..n : u = n \/ u \in 1..t
      BY <1>1, <1>7
    <2>2. Cover(n) \subseteq Cover(t) \cup Lines(remote[n])
      BY <2>1 DEF Cover
    <2>3. replaced' \subseteq Cover(t)'
      BY DEF Cover
    <2> QED
      BY <1>2, <1>5, <2>2, <2>3
  <1> QED
    BY <1>1, <1>5, <1>6, <1>7 DEF n

(* Nothing covered is uncovered by any step.                                *)
LEMMA CoverGrows ==
    ASSUME TypeOK, AllPlaces, [Next]_vars, NEW t \in 0..MaxSeconds
    PROVE  Cover(t) \subseteq Cover(t)'
  <1>1. CASE UNCHANGED sent /\ spoiled \subseteq spoiled'
    BY <1>1 DEF Cover, sent
  <1>2. ASSUME NEW s \in Shippers, PushChunk(s) PROVE Cover(t) \subseteq Cover(t)'
    BY <1>2, PushCovers
  <1> QED
    BY <1>1, <1>2
       DEF Next, Ship, HashLast, AppendLine, Tick, ReadOffset, StatLog, ReadNewLines,
           MakeDir, WriteChunk, RemoveDir, FindsNothing, OpenState, SaveOffset,
           ShipFails, vars, shipping, shipState, sent

-----------------------------------------------------------------------------
(* Shipping.                                                                *)

(* What the numbers of a ship stand for at each of its steps.               *)
Counts(s) ==
    /\ phase[s] # "idle" => 1..from[s] \subseteq Cover(clock)
    /\ phase[s] = "read" => size[s] <= Len(log)
    /\ phase[s] \in {"mkdir", "write", "push"} => size[s] <= upto[s]
    /\ phase[s] \in {"clean", "open", "save"} => 1..size[s] \subseteq Cover(clock)

Alone(s) == \A t \in Shippers : t # s /\ Housed(t) => workdir[t] # workdir[s]

(* The chunk under its name is its own, or its lines are remembered.        *)
Owns(s) ==
    phase[s] \in {"write", "push"} =>
        \/ NewLines(s) \subseteq spoiled
        \/ Alone(s) /\ (phase[s] = "push" => Written(s) = Chunk(s))

(* The state file, and the chunks that lie in work directories.              *)
OffsetInv == Readable => 1..offset \subseteq Cover(clock)

FilesInv ==
    \A d, t \in Seconds :
        local[d][t] # NoFile => 1..(local[d][t].first - 1) \subseteq Cover(t)

ShipInv ==
    /\ OffsetInv /\ FilesInv
    /\ \A s \in Shippers : Counts(s) /\ Owns(s)

(* What is covered now will be covered.                                     *)
LEMMA CoverNow ==
    ASSUME TypeOK, TypeOK', clock' >= clock,
           \A t \in 0..MaxSeconds : Cover(t) \subseteq Cover(t)'
    PROVE  Cover(clock) \subseteq Cover(clock)'
  <1>1. ASSUME NEW now, now = clock, NEW then, then = clock'
        PROVE  Cover(clock) \subseteq Cover(clock)'
    <2>1. now \in 0..MaxSeconds /\ then \in 0..MaxSeconds /\ now <= then
      BY <1>1, ConstantsAssumption DEF TypeOK, Seconds
    <2>2. Cover(now) \subseteq Cover(now)'
      BY <2>1
    <2>3. 1..now \subseteq 1..then
      BY <2>1
    <2> QED
      BY <1>1, <2>2, <2>3 DEF Cover, Lines
  <1> QED
    BY <1>1

(* Where a step leaves a ship alone, its numbers stand for the same.         *)
LEMMA CountsStay ==
    ASSUME TypeOK, TypeOK', Cover(clock) \subseteq Cover(clock)',
           Len(log') >= Len(log),
           NEW u \in Shippers, Counts(u),
           phase'[u] = phase[u], from'[u] = from[u],
           size'[u] = size[u], upto'[u] = upto[u]
    PROVE  Counts(u)'
  <1>1. Len(log) \in Nat /\ Len(log') \in Nat /\ size[u] \in Nat
    BY DEF TypeOK
  <1> QED
    BY <1>1 DEF Counts

(* Time and the log only grow.                                              *)
LEMMA TimeGoesOn ==
    ASSUME TypeOK, TypeOK', [Next]_vars
    PROVE  clock' >= clock /\ Len(log') >= Len(log)
  <1>1. Len(log) \in Nat /\ clock \in Nat
    BY ConstantsAssumption DEF TypeOK, Seconds
  <1>2. ASSUME NEW w \in Writers, AppendLine(w) PROVE Len(log') >= Len(log)
    BY <1>1, <1>2, AppendProperties DEF AppendLine, TypeOK
  <1>3. ASSUME NEW s \in Shippers, Ship(s) \/ ShipFails(s) PROVE UNCHANGED <<log, clock>>
    BY <1>3 DEF Ship, ReadOffset, StatLog, ReadNewLines, MakeDir, WriteChunk, PushChunk,
                RemoveDir, FindsNothing, OpenState, SaveOffset, ShipFails, logging
  <1> QED
    BY <1>1, <1>2, <1>3
       DEF Next, HashLast, AppendLine, Tick, logging, shipping, shipState, vars

(* A step that leaves memory, disk and what is spoiled alone.                *)
LEMMA OwnsStays ==
    ASSUME NEW u \in Shippers, Owns(u), spoiled \subseteq spoiled',
           \A t \in Shippers :
               t # u /\ Housed(t)' => \/ Housed(t) /\ workdir'[t] = workdir[t]
                                     \/ workdir'[t] # workdir[u],
           phase'[u] = phase[u], workdir'[u] = workdir[u], from'[u] = from[u],
           upto'[u] = upto[u], timestamp'[u] = timestamp[u],
           Alone(u) => local'[workdir[u]] = local[workdir[u]]
    PROVE  Owns(u)'
  <1>1. NewLines(u)' = NewLines(u) /\ Chunk(u)' = Chunk(u)
    BY DEF NewLines, Chunk
  <1>2. Alone(u) => Alone(u)' /\ Written(u)' = Written(u)
    BY DEF Alone, Written
  <1> QED
    BY <1>1, <1>2 DEF Owns

(* A ship's numbers mean what they should after every step.                  *)
LEMMA CountsStep ==
    ASSUME TypeOK, TypeOK', AllPlaces, ShipInv, [Next]_vars, NEW u \in Shippers
    PROVE  Counts(u)'
  <1>1. /\ Cover(clock) \subseteq Cover(clock)' /\ Len(log') >= Len(log)
        /\ Counts(u) /\ OffsetInv /\ Len(log) \in Nat
    <2>1. clock' >= clock /\ Len(log') >= Len(log)
      BY TimeGoesOn
    <2>2. Cover(clock) \subseteq Cover(clock)'
      BY <2>1, CoverNow, CoverGrows
    <2> QED
      BY <2>1, <2>2 DEF ShipInv, TypeOK
  <1>2. CASE UNCHANGED <<phase, from, size, upto>>
    BY <1>1, <1>2, CountsStay
  <1>3. ASSUME NEW s \in Shippers, Ship(s) \/ ShipFails(s), s # u
        PROVE  Counts(u)'
    <2>1. /\ phase'[u] = phase[u] /\ from'[u] = from[u]
          /\ size'[u] = size[u] /\ upto'[u] = upto[u]
      BY <1>3
         DEF Ship, ReadOffset, StatLog, ReadNewLines, MakeDir, WriteChunk, PushChunk,
             RemoveDir, FindsNothing, OpenState, SaveOffset, ShipFails, Return, inMemory,
             TypeOK
    <2> QED
      BY <1>1, <2>1, CountsStay
  <1>4. ASSUME ReadOffset(u) \/ StatLog(u) \/ ReadNewLines(u) PROVE Counts(u)'
    <2>1. CASE ReadOffset(u)
      BY <1>1, <2>1 DEF ReadOffset, Counts, OffsetInv, TypeOK
    <2>2. CASE StatLog(u)
      BY <1>1, <2>2 DEF StatLog, Counts, TypeOK, logging
    <2>3. CASE ReadNewLines(u)
      BY <1>1, <2>3 DEF ReadNewLines, Counts, TypeOK, logging
    <2> QED
      BY <1>4, <2>1, <2>2, <2>3
  <1>5. ASSUME MakeDir(u) \/ WriteChunk(u) \/ RemoveDir(u) \/ OpenState(u)
        PROVE  Counts(u)'
    BY <1>1, <1>5
       DEF MakeDir, WriteChunk, RemoveDir, OpenState, Counts, TypeOK, inMemory
  <1>6. ASSUME PushChunk(u) PROVE Counts(u)'
    <2>1. /\ phase'[u] = "clean" /\ from'[u] = 0 /\ size'[u] = size[u] /\ clock' = clock
          /\ phase[u] = "push" /\ size[u] <= upto[u] /\ 1..from[u] \subseteq Cover(clock)
          /\ size[u] \in Nat /\ upto[u] \in Nat /\ from[u] \in Nat
      BY <1>1, <1>6 DEF PushChunk, Counts, TypeOK
    <2>2. clock \in 0..MaxSeconds /\ clock >= timestamp[u] /\ timestamp[u] \in Nat
      BY <2>1, ConstantsAssumption DEF AllPlaces, Places, TypeOK, Seconds
    <2>3. Lines(Written(u)) \subseteq Cover(clock)'
      <3>1. ASSUME NEW now, now = clock PROVE Lines(Written(u)) \subseteq Cover(now)'
        BY <1>6, <2>2, <3>1, PushCovers
      <3> QED
        BY <2>1, <3>1 DEF Cover, Lines
    <2>4. NewLines(u) \subseteq Cover(clock)'
      <3>1. CASE NewLines(u) \subseteq spoiled
        BY <1>6, <3>1 DEF PushChunk, Cover
      <3>2. CASE Written(u) = Chunk(u)
        <4>1. Chunk(u) # NoFile
          BY <1>6, <3>2 DEF PushChunk
        <4>2. Lines(Chunk(u)) = NewLines(u)
          BY <4>1 DEF Lines, Chunk, NewLines
        <4> QED
          BY <2>3, <3>2, <4>2
      <3> QED
        BY <2>1, <3>1, <3>2 DEF ShipInv, Owns
    <2>5. \A i \in 1..size[u] : i \in 1..from[u] \/ i \in NewLines(u)
      BY <2>1 DEF NewLines
    <2>6. 1..size[u] \subseteq Cover(clock)'
      BY <1>1, <2>1, <2>4, <2>5
    <2> QED
      BY <2>1, <2>6 DEF Counts
  <1>7. ASSUME FindsNothing(u) \/ SaveOffset(u) \/ ShipFails(u) PROVE Counts(u)'
    BY <1>7 DEF FindsNothing, SaveOffset, ShipFails, Return, Counts, TypeOK
  <1> QED
    BY <1>2, <1>3, <1>4, <1>5, <1>6, <1>7
       DEF Next, Ship, HashLast, AppendLine, Tick, shipping, shipState, inMemory, vars

(* Whoever moves into a directory marks the lines of those who are in it.    *)
LEMMA OwnsStep ==
    ASSUME TypeOK, TypeOK', AllPlaces, ShipInv, [Next]_vars, NEW u \in Shippers
    PROVE  Owns(u)'
  <1>0. Owns(u) /\ clock \in Seconds /\ clock \in Nat
    BY DEF ShipInv, TypeOK, Seconds
  <1>1. CASE UNCHANGED <<phase, from, upto, workdir, timestamp, local, spoiled>>
    BY <1>0, <1>1, OwnsStays DEF Housed
  <1>2. ASSUME NEW s \in Shippers, s # u, MakeDir(s) PROVE Owns(u)'
    <2> DEFINE marked == {v \in Housemates(s) \cup {s} : Housemates(s) # {}}
    <2>1. /\ phase'[u] = phase[u] /\ workdir'[u] = workdir[u] /\ from'[u] = from[u]
          /\ upto'[u] = upto[u] /\ timestamp'[u] = timestamp[u] /\ local' = local
          /\ spoiled' = spoiled \cup UNION {NewLines(t) : t \in marked}
          /\ \A t \in Shippers : t # s =>
                phase'[t] = phase[t] /\ workdir'[t] = workdir[t]
          /\ workdir'[s] = clock
      BY <1>2 DEF MakeDir, TypeOK
    <2>2. CASE Housed(u) /\ workdir[u] = clock
      <3>1. u \in marked
        BY <1>2, <2>2 DEF Housemates
      <3>2. NewLines(u) \subseteq spoiled'
        BY <2>1, <3>1
      <3> QED
        BY <2>1, <3>2 DEF Owns, NewLines
    <2>3. CASE ~Housed(u)
      BY <2>1, <2>3 DEF Owns, Housed
    <2>4. CASE workdir[u] # clock
      <3> HIDE DEF marked
      <3>1. \A t \in Shippers :
               t # u /\ Housed(t)' => \/ Housed(t) /\ workdir'[t] = workdir[t]
                                     \/ workdir'[t] # workdir[u]
        BY <2>1, <2>4 DEF Housed
      <3> QED
        BY <1>0, <2>1, <3>1, OwnsStays
    <2> QED
      BY <2>2, <2>3, <2>4
  <1>3. ASSUME NEW s \in Shippers, s # u,
               \/ ReadOffset(s) \/ StatLog(s) \/ ReadNewLines(s) \/ WriteChunk(s)
               \/ PushChunk(s) \/ RemoveDir(s) \/ FindsNothing(s) \/ OpenState(s)
               \/ SaveOffset(s) \/ ShipFails(s)
        PROVE  Owns(u)'
    <2>1. /\ phase'[u] = phase[u] /\ workdir'[u] = workdir[u] /\ from'[u] = from[u]
          /\ upto'[u] = upto[u] /\ timestamp'[u] = timestamp[u] /\ spoiled' = spoiled
          /\ \A t \in Shippers : t # s =>
                phase'[t] = phase[t] /\ workdir'[t] = workdir[t]
      BY <1>3
         DEF ReadOffset, StatLog, ReadNewLines, WriteChunk, PushChunk, RemoveDir,
             FindsNothing, OpenState, SaveOffset, ShipFails, Return, inMemory, TypeOK
    <2>2. Housed(s)' => Housed(s) /\ workdir'[s] = workdir[s]
      BY <1>3
         DEF ReadOffset, StatLog, ReadNewLines, WriteChunk, PushChunk, RemoveDir,
             FindsNothing, OpenState, SaveOffset, ShipFails, Return, inMemory, TypeOK, Housed
    <2>3. \/ local' = local
          \/ /\ Housed(s)
             /\ \A d \in Seconds : d # workdir[s] => local'[d] = local[d]
      BY <1>3
         DEF ReadOffset, StatLog, ReadNewLines, WriteChunk, PushChunk, RemoveDir, RemoveTree,
             FindsNothing, OpenState, SaveOffset, ShipFails, onDisk, TypeOK, Housed
    <2>4. CASE ~Housed(u)
      BY <2>1, <2>4 DEF Owns, Housed
    <2>5. CASE Housed(u)
      <3>1. workdir[u] \in Seconds
        BY <1>0, <2>5, ConstantsAssumption DEF AllPlaces, Places, Seconds, TypeOK
      <3>2. Alone(u) => local'[workdir[u]] = local[workdir[u]]
        BY <1>3, <2>3, <3>1 DEF Alone
      <3>3. \A t \in Shippers :
               t # u /\ Housed(t)' => Housed(t) /\ workdir'[t] = workdir[t]
        BY <2>1, <2>2 DEF Housed
      <3> QED
        BY <1>0, <2>1, <3>2, <3>3, OwnsStays
    <2> QED
      BY <2>4, <2>5
  <1>4. CASE MakeDir(u)
    <2> DEFINE marked == {v \in Housemates(u) \cup {u} : Housemates(u) # {}}
    <2>1. /\ phase'[u] = "write" /\ workdir'[u] = clock /\ from' = from /\ upto' = upto
          /\ spoiled' = spoiled \cup UNION {NewLines(t) : t \in marked}
          /\ \A t \in Shippers : t # u =>
                phase'[t] = phase[t] /\ workdir'[t] = workdir[t]
      BY <1>4 DEF MakeDir, TypeOK
    <2>2. CASE Housemates(u) = {}
      <3>1. Alone(u)'
        BY <2>1, <2>2 DEF Alone, Housemates, Housed
      <3> QED
        BY <2>1, <3>1 DEF Owns
    <2>3. CASE Housemates(u) # {}
      <3>1. NewLines(u) \subseteq spoiled'
        BY <2>1, <2>3
      <3> QED
        BY <2>1, <3>1 DEF Owns, NewLines
    <2> QED
      BY <2>2, <2>3
  <1>5. CASE WriteChunk(u)
    <2>1. /\ phase'[u] = "push" /\ workdir' = workdir /\ from' = from /\ upto' = upto
          /\ spoiled' = spoiled /\ timestamp'[u] = clock /\ phase[u] = "write"
          /\ local'[workdir[u]][clock] = Chunk(u)
          /\ \A t \in Shippers : t # u => phase'[t] = phase[t]
      BY <1>0, <1>5 DEF WriteChunk, TypeOK
    <2>2. Written(u)' = Chunk(u)' /\ NewLines(u)' = NewLines(u)
      BY <2>1 DEF Written, Chunk, NewLines
    <2>3. Alone(u) => Alone(u)'
      BY <2>1 DEF Alone, Housed
    <2> QED
      BY <1>0, <2>1, <2>2, <2>3 DEF Owns
  <1>6. ASSUME \/ ReadOffset(u) \/ StatLog(u) \/ ReadNewLines(u)
               \/ PushChunk(u) \/ RemoveDir(u) \/ FindsNothing(u) \/ OpenState(u)
               \/ SaveOffset(u) \/ ShipFails(u)
        PROVE  Owns(u)'
    BY <1>6
       DEF ReadOffset, StatLog, ReadNewLines, PushChunk, RemoveDir, FindsNothing,
           OpenState, SaveOffset, ShipFails, Return, TypeOK, Owns
  <1> QED
    BY <1>1, <1>2, <1>3, <1>4, <1>5, <1>6
       DEF Next, Ship, HashLast, AppendLine, Tick, shipping, shipState, inMemory, onDisk, vars

(* A chunk comes under a name with what is before it covered.                *)
LEMMA FilesStep ==
    ASSUME TypeOK, TypeOK', AllPlaces, ShipInv, [Next]_vars
    PROVE  FilesInv'
  <1>0. FilesInv /\ Seconds \subseteq 0..MaxSeconds
        /\ \A t \in 0..MaxSeconds : Cover(t) \subseteq Cover(t)'
    BY CoverGrows DEF ShipInv, Seconds
  <1>1. CASE UNCHANGED local
    BY <1>0, <1>1 DEF FilesInv
  <1>2. ASSUME NEW s \in Shippers, WriteChunk(s) PROVE FilesInv'
    <2>1. clock \in Seconds /\ workdir[s] \in Seconds
          /\ 1..from[s] \subseteq Cover(clock) /\ from[s] \in Nat
      BY <1>2 DEF WriteChunk, ShipInv, Counts, TypeOK
    <2>2. ASSUME NEW d \in Seconds, NEW t \in Seconds, local'[d][t] # NoFile
          PROVE  1..(local'[d][t].first - 1) \subseteq Cover(t)'
      <3>1. CASE d = workdir[s] /\ t = clock
        <4>1. local'[d][t] = Chunk(s)
          BY <1>2, <2>1, <3>1 DEF WriteChunk, TypeOK
        <4>2. local'[d][t].first - 1 = from[s]
          BY <2>1, <4>1 DEF Chunk
        <4>3. Cover(t) = Cover(clock)
          BY <3>1
        <4> QED
          BY <1>0, <2>1, <4>2, <4>3
      <3>2. CASE ~(d = workdir[s] /\ t = clock)
        <4>1. local'[d][t] = local[d][t]
          BY <1>2, <2>1, <3>2 DEF WriteChunk, TypeOK
        <4> QED
          BY <1>0, <2>2, <4>1 DEF FilesInv
      <3> QED
        BY <3>1, <3>2
    <2> QED
      BY <2>2 DEF FilesInv
  <1>3. ASSUME NEW d, RemoveTree(d) PROVE FilesInv'
    <2>1. \A e, t \in Seconds : local'[e][t] = local[e][t] \/ local'[e][t] = NoFile
      BY <1>3 DEF RemoveTree, Nothing, TypeOK
    <2> QED
      BY <1>0, <2>1 DEF FilesInv
  <1> QED
    BY <1>1, <1>2, <1>3
       DEF Next, Ship, HashLast, AppendLine, Tick, ReadOffset, StatLog, ReadNewLines,
           MakeDir, PushChunk, RemoveDir, FindsNothing, OpenState, SaveOffset, ShipFails,
           vars, shipping, shipState, onDisk

(* The offset is saved by ships whose lines are covered.                     *)
LEMMA OffsetStep ==
    ASSUME TypeOK, TypeOK', AllPlaces, ShipInv, [Next]_vars
    PROVE  OffsetInv'
  <1>0. OffsetInv /\ Cover(clock) \subseteq Cover(clock)'
    BY CoverNow, CoverGrows, TimeGoesOn DEF ShipInv
  <1>1. CASE UNCHANGED offset
    BY <1>0, <1>1 DEF OffsetInv, Readable
  <1>2. ASSUME NEW s \in Shippers, OpenState(s) PROVE OffsetInv'
    BY <1>2, ConstantsAssumption DEF OpenState, OffsetInv, Readable
  <1>3. ASSUME NEW s \in Shippers, SaveOffset(s) PROVE OffsetInv'
    <2>1. 1..size[s] \subseteq Cover(clock)
      BY <1>3 DEF SaveOffset, ShipInv, Counts
    <2>2. offset' = size[s] \/ ~Readable'
      BY <1>3, ConstantsAssumption DEF SaveOffset, SavedOffset, Readable
    <2> QED
      BY <1>0, <2>1, <2>2 DEF OffsetInv
  <1> QED
    BY <1>1, <1>2, <1>3
       DEF Next, Ship, HashLast, AppendLine, Tick, ReadOffset, StatLog, ReadNewLines,
           MakeDir, WriteChunk, PushChunk, RemoveDir, FindsNothing, ShipFails,
           vars, shipping, shipState

(* The parts together are inductive.                                         *)
LEMMA ShipInvHolds == Spec => []ShipInv
  <1>1. Init => ShipInv
    BY ConstantsAssumption
       DEF Init, ShipInv, OffsetInv, FilesInv, Counts, Owns, Readable, Nothing
  <1>2. TypeOK /\ TypeOK' /\ AllPlaces /\ ShipInv /\ [Next]_vars => ShipInv'
    BY CountsStep, OwnsStep, FilesStep, OffsetStep DEF ShipInv
  <1> QED
    BY <1>1, <1>2, TypeCorrect, PTL DEF Spec

(* With any number of timers and manual runs, wherever runs fail, die,       *)
(* overlap or share a second: what AUDIT_SHIP_STATE_PATH counts as shipped   *)
(* has been on the backup host, but for ships that shared a work directory.  *)
THEOREM NothingIsSkipped == Spec => []NothingSkipped
  <1>1. TypeOK /\ ShipInv => NothingSkipped
    <2> SUFFICES ASSUME TypeOK, ShipInv, Readable
                 PROVE  1..offset \subseteq Sent \cup spoiled
      BY DEF NothingSkipped
    <2>1. clock \in 0..MaxSeconds
      BY ConstantsAssumption DEF TypeOK, Seconds
    <2> QED
      BY <2>1, CoverIsSent DEF ShipInv, OffsetInv
  <1> QED
    BY <1>1, ShipInvHolds, TypeCorrect, PTL

-----------------------------------------------------------------------------
(* Replaying the chunks.                                                    *)

(* What a push puts under a name has its earlier lines covered by earlier     *)
(* names, for the file it replaces counts as replaced.                       *)
LEMMA ReplayStep ==
    TypeOK /\ AllPlaces /\ ShipInv /\ ReplaysInOrder /\ [Next]_vars => ReplaysInOrder'
  <1> SUFFICES ASSUME TypeOK, AllPlaces, ShipInv, ReplaysInOrder, [Next]_vars,
                      NEW t \in Seconds, remote'[t] # NoFile
               PROVE  1..(remote'[t].first - 1) \subseteq Cover(t - 1)'
    BY DEF ReplaysInOrder, Cover, Lines
  <1>1. t - 1 \in 0..MaxSeconds
    BY ConstantsAssumption DEF Seconds
  <1>2. Cover(t - 1) \subseteq Cover(t - 1)'
    BY <1>1, CoverGrows
  <1>3. remote[t] # NoFile => 1..(remote[t].first - 1) \subseteq Cover(t - 1)
    BY DEF ReplaysInOrder, Cover
  <1>4. CASE remote'[t] = remote[t]
    BY <1>2, <1>3, <1>4
  <1>5. ASSUME NEW s \in Shippers, PushChunk(s), remote'[t] # remote[t]
        PROVE  1..(remote'[t].first - 1) \subseteq Cover(t - 1)'
    <2>1. t = timestamp[s] /\ remote'[t] = Written(s)
      BY <1>5 DEF PushChunk, TypeOK
    <2>2. workdir[s] \in Seconds
      BY <1>5, ConstantsAssumption DEF PushChunk, AllPlaces, Places, Housed, TypeOK, Seconds
    <2>3. 1..(Written(s).first - 1) \subseteq Cover(t)
      BY <1>5, <2>1, <2>2 DEF PushChunk, ShipInv, FilesInv, Written
    <2>4. t - 1 = timestamp[s] - 1 /\ Cover(timestamp[s]) = Cover(t)
      BY <2>1
    <2>5. Cover(timestamp[s]) \subseteq Cover(t - 1)'
      BY <1>1, <1>5, <2>4, PushCovers
    <2> QED
      BY <2>1, <2>3, <2>4, <2>5
  <1> QED
    BY <1>4, <1>5
       DEF Next, Ship, HashLast, AppendLine, Tick, ReadOffset, StatLog, ReadNewLines,
           MakeDir, WriteChunk, RemoveDir, FindsNothing, OpenState, SaveOffset, ShipFails,
           vars, shipping, shipState, sent

(* The chunks replay in file-name order, for any shippers and failures: the   *)
(* lines before a chunk are under earlier names, were in a file that was      *)
(* replaced, or are excepted above.                                         *)
THEOREM ChunksReplayInOrder == Spec => []ReplaysInOrder
  <1>1. Init => ReplaysInOrder
    BY DEF Init, ReplaysInOrder, Nothing
  <1> QED
    BY <1>1, TypeCorrect, ShipInvHolds, ReplayStep, PTL DEF Spec
=============================================================================

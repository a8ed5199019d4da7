--------------------------- MODULE ImporterProofs ---------------------------
(***************************************************************************)
(* Proofs about Importer for any set of importers, any files and stamps,   *)
(* and any number of faults and crashes.                                   *)
(*                                                                         *)
(* TypeCorrect needs nothing else.  The rest assumes that a lock session   *)
(* does not end under a running attempt (MaxDrops = 0): the run            *)
(* import_lock_lost shows that without it the claims are false.            *)
(***************************************************************************)
EXTENDS Importer, TLAPS

\* The five names are the elements of Files.
LEMMA StringsDiffer ==
    /\ TitleBasics \in Files /\ NameBasics \in Files /\ TitlePrincipals \in Files
    /\ TitleCrew \in Files /\ TitleRatings \in Files
BY DEF Files

\* What survives the filters of keep.go is a set of films.
LEMMA KeptType ==
    ASSUME NEW f \in Files, NEW s \in Stamps,
           NEW k \in SUBSET Keys, NEW c \in SUBSET Keys
    PROVE  Kept(f, s, k, c) \in SUBSET Keys
<1>1. Holds[f][s] \in SUBSET Keys
  BY ImporterAssumption
<1> QED
  BY <1>1 DEF Kept

\* The tables CreateStaging makes are a schema.
LEMMA EmptyIsSchema == EmptySchema \in Schema
BY DEF EmptySchema, Schema

\* A pass over the files sets one stamp of one importer's reading.
LEMMA OneStamp ==
    ASSUME NEW g \in [Importers -> Generation], NEW i \in Importers,
           NEW f \in Files, NEW s \in Stamps
    PROVE  [g EXCEPT ![i][f] = s] \in [Importers -> Generation]
<1>1. [g[i] EXCEPT ![f] = s] \in Generation
  BY ImporterAssumption DEF Generation, Stamps
<1> QED
  BY <1>1

\* Fetching a file leaves one stamp per file on disk.
LEMMA OneFile ==
    ASSUME NEW d \in Generation, NEW f \in Files, NEW s \in Stamps
    PROVE  [d EXCEPT ![f] = s] \in Generation
BY ImporterAssumption DEF Generation, Stamps

\* A reading that has not begun is a generation, of zeros.
LEMMA UnreadIsGeneration == Unread \in Generation
BY ImporterAssumption DEF Unread, Generation

\* An empty database and idle importers satisfy the type invariant.
LEMMA InitTypeOK == Init => TypeOK
BY ImporterAssumption DEF Init, Fresh, TypeOK, Generation, Unread, Stamps, Steps

\* Loading a file leaves a schema, with rows of the keys there are.
LEMMA LoadedSchema ==
    ASSUME TypeOK, NEW i \in Importers, NEW f \in Files, LoadFile(i, f)
    PROVE  staging' \in Schema /\ Kept(f, disk[f], kept[i], credited[i]) \in SUBSET Keys
<1> DEFINE rows == Kept(f, disk[f], kept[i], credited[i])
<1>1. disk[f] \in Stamps
  <2>1. disk \in [Files -> 0..MaxStamp] /\ disk[f] # 0
    BY DEF TypeOK, LoadFile, CanLoad, Generation
  <2> QED
    BY <2>1, ImporterAssumption DEF Stamps
<1>2. kept[i] \in SUBSET Keys /\ credited[i] \in SUBSET Keys /\ staging \in Schema
  BY DEF TypeOK, LoadFile, CanLoad
<1>3. rows \in SUBSET Keys
  BY <1>1, <1>2, KeptType
<1>4. staging' = [staging EXCEPT !.rows[f] = @ \cup rows, !.from[f] = @ \cup {disk[f]}]
  BY DEF LoadFile
<1> HIDE DEF rows
<1>5. staging' \in Schema
  BY <1>1, <1>2, <1>3, <1>4 DEF Schema
<1> QED
  BY <1>3, <1>5 DEF rows

\* No step, fault, crash or lost session breaks the type invariant.
LEMMA TypeStep == TypeOK /\ [Next]_vars => TypeOK'
<1> SUFFICES ASSUME TypeOK, [Next]_vars PROVE TypeOK'
  OBVIOUS
<1> USE ImporterAssumption, StringsDiffer DEF TypeOK, Goto, Took, Start, locals, bounds, schemas
<1>1. ASSUME NEW i \in Importers, TakeLock(i) PROVE TypeOK'
  BY <1>1 DEF TakeLock, Steps
<1>2. ASSUME NEW i \in Importers, ReadPublished(i) PROVE TypeOK'
  BY <1>2 DEF ReadPublished, Steps
<1>3. ASSUME NEW i \in Importers, NEW f \in Files, HeadFile(i, f) PROVE TypeOK'
  <2>1. opened' \in [Importers -> Generation]
    BY <1>3, OneStamp DEF HeadFile
  <2> QED
    BY <1>3, <2>1 DEF HeadFile, Steps
<1>4. ASSUME NEW i \in Importers, Decide(i) PROVE TypeOK'
  BY <1>4 DEF Decide, Steps
<1>5. ASSUME NEW i \in Importers, DropRetired(i) PROVE TypeOK'
  BY <1>5 DEF DropRetired, Steps
<1>6. ASSUME NEW i \in Importers, NEW f \in Files, Download(i, f) PROVE TypeOK'
  <2>1. disk' \in Generation
    BY <1>6, OneFile DEF Download
  <2>2. CASE todo[i] = {f}
    <3>1. /\ pc' = [pc EXCEPT ![i] = "again"]
          /\ todo' = [todo EXCEPT ![i] = Files]
      BY <1>6, <2>2 DEF Download
    <3>2. pc' \in [Importers -> Steps] /\ todo' \in [Importers -> SUBSET Files]
      BY <3>1 DEF Steps
    <3>3. \A j \in Importers : pc'[j] = "idle" => pc[j] = "idle" /\ todo'[j] = todo[j]
      BY <3>1
    <3> QED
      BY <1>6, <2>1, <3>2, <3>3 DEF Download
  <2>3. CASE todo[i] # {f}
    <3>1. /\ pc' = [pc EXCEPT ![i] = "download"]
          /\ todo' = [todo EXCEPT ![i] = @ \ {f}]
      BY <1>6, <2>3 DEF Download
    <3>2. pc' \in [Importers -> Steps] /\ todo' \in [Importers -> SUBSET Files]
      BY <3>1 DEF Steps
    <3>3. \A j \in Importers : pc'[j] = "idle" => pc[j] = "idle" /\ todo'[j] = todo[j]
      BY <3>1
    <3> QED
      BY <1>6, <2>1, <3>2, <3>3 DEF Download
  <2> QED
    BY <2>2, <2>3
<1>7. ASSUME NEW i \in Importers, NEW f \in Files, HeadAgain(i, f) PROVE TypeOK'
  <2>1. after' \in [Importers -> Generation]
    BY <1>7, OneStamp DEF HeadAgain
  <2> QED
    BY <1>7, <2>1 DEF HeadAgain, Steps
<1>8. ASSUME NEW i \in Importers, Compare(i) PROVE TypeOK'
  BY <1>8 DEF Compare, Steps
<1>9. ASSUME NEW i \in Importers, DropStaging(i) PROVE TypeOK'
  BY <1>9 DEF DropStaging, Steps
<1>10. ASSUME NEW i \in Importers, CreateStaging(i) PROVE TypeOK'
  <2>1. CASE staging = NoSchema
    <3>1. /\ pc' = [pc EXCEPT ![i] = "load"]
          /\ todo' = [todo EXCEPT ![i] = Files]
          /\ staging' = EmptySchema
      BY <1>10, <2>1 DEF CreateStaging
    <3>2. pc' \in [Importers -> Steps] /\ todo' \in [Importers -> SUBSET Files]
      BY <3>1 DEF Steps
    <3>3. \A j \in Importers : pc'[j] = "idle" => pc[j] = "idle" /\ todo'[j] = todo[j]
      BY <3>1
    <3> QED
      BY <1>10, <3>1, <3>2, <3>3, EmptyIsSchema DEF CreateStaging
  <2>2. CASE staging # NoSchema
    BY <1>10, <2>2 DEF CreateStaging, Steps
  <2> QED
    BY <2>1, <2>2
<1>11. ASSUME NEW i \in Importers, NEW f \in Files, LoadFile(i, f) PROVE TypeOK'
  <2>1. staging' \in Schema /\ Kept(f, disk[f], kept[i], credited[i]) \in SUBSET Keys
    BY <1>11, LoadedSchema
  <2>2. pc[i] = "load" /\ pc' \in [Importers -> Steps]
    BY <1>11 DEF LoadFile, Steps
  <2>3. kept' \in [Importers -> SUBSET Keys] /\ credited' \in [Importers -> SUBSET Keys]
    BY <1>11, <2>1 DEF LoadFile
  <2>4. todo' \in [Importers -> SUBSET Files]
    BY <1>11 DEF LoadFile
  <2>5. ASSUME NEW j \in Importers, pc'[j] = "idle"
        PROVE  todo'[j] = {} /\ kept'[j] = {} /\ credited'[j] = {}
    <3>1. j # i
      BY <1>11, <2>5 DEF LoadFile
    <3> QED
      BY <1>11, <2>5, <3>1 DEF LoadFile
  <2> QED
    BY <1>11, <2>1, <2>2, <2>3, <2>4, <2>5 DEF LoadFile
<1>12. ASSUME NEW i \in Importers, NEW f \in Files, LoadFails(i, f) PROVE TypeOK'
  BY <1>12 DEF LoadFails, Steps
<1>13. ASSUME NEW i \in Importers, CheckLoad(i) PROVE TypeOK'
  BY <1>13 DEF CheckLoad, Steps
<1>14. ASSUME NEW i \in Importers, Publish(i) PROVE TypeOK'
  <2>1. CASE staging # NoSchema
    <3>1. pc' = [pc EXCEPT ![i] = "refresh"]
      BY <1>14, <2>1 DEF Publish
    <3>2. pc' \in [Importers -> Steps]
      BY <3>1 DEF Steps
    <3>3. \A j \in Importers : pc'[j] = "idle" => pc[j] = "idle"
      BY <3>1
    <3>4. recorded' = opened[i] /\ live' = staging /\ retired' = live /\ staging' = NoSchema
      BY <1>14, <2>1 DEF Publish
    <3> QED
      BY <1>14, <3>2, <3>3, <3>4 DEF Publish
  <2>2. CASE staging = NoSchema
    BY <1>14, <2>2 DEF Publish, Steps
  <2> QED
    BY <2>1, <2>2
<1>15. ASSUME NEW i \in Importers, Refresh(i) PROVE TypeOK'
  BY <1>15 DEF Refresh, Steps
<1>16. ASSUME NEW i \in Importers, Discard(i) PROVE TypeOK'
  BY <1>16, UnreadIsGeneration DEF Discard, Steps
<1>17. ASSUME NEW i \in Importers, Unlock(i) PROVE TypeOK'
  BY <1>17, UnreadIsGeneration DEF Unlock, Forgotten, Steps
<1>18. ASSUME NEW i \in Importers, Fault(i) PROVE TypeOK'
  <2>1. disk' \in Generation
    BY <1>18, UnreadIsGeneration DEF Fault, Generation
  <2> QED
    <3>1. PICK s \in {"unlock", "discard"} : Goto(i, s)
      BY <1>18 DEF Fault
    <3>2. pc' \in [Importers -> Steps] /\ pc'[i] # "idle"
      BY <3>1 DEF Steps
    <3>3. \A j \in Importers : j # i => pc'[j] = pc[j]
      BY <3>1
    <3>4. pc[i] # "idle" /\ faults' \in 0..MaxFaults
      BY <1>18 DEF Fault, Asking, Holding
    <3> QED
      BY <1>18, <2>1, <3>2, <3>3, <3>4 DEF Fault
<1>19. ASSUME NEW i \in Importers, Crash(i) PROVE TypeOK'
  BY <1>19, UnreadIsGeneration DEF Crash, Forgotten, Steps
<1>20. ASSUME NEW i \in Importers, SessionDrops(i) PROVE TypeOK'
  BY <1>20 DEF SessionDrops
<1>21. CASE SessionReaped
  BY <1>21 DEF SessionReaped
<1>22. ASSUME NEW f \in Files, HostMoves(f) PROVE TypeOK'
  BY <1>22 DEF HostMoves, Stamps
<1>23. CASE UNCHANGED vars
  BY <1>23 DEF vars
<1> QED
  BY <1>1, <1>2, <1>3, <1>4, <1>5, <1>6, <1>7, <1>8, <1>9, <1>10, <1>11, <1>12,
     <1>13, <1>14, <1>15, <1>16, <1>17, <1>18, <1>19, <1>20, <1>21, <1>22, <1>23
     DEF Next, Step, OverFiles

\* Every variable keeps the values RunOnce can give it, with any number of
\* importers, faults, crashes and lost sessions.
THEOREM TypeCorrect == Spec => []TypeOK
<1>1. Init => TypeOK
  BY InitTypeOK
<1>2. TypeOK /\ [Next]_vars => TypeOK'
  BY TypeStep
<1> QED
  BY <1>1, <1>2, PTL DEF Spec
-----------------------------------------------------------------------------
(* The lock.                                                               *)

\* Past the lock means holding it.
LockHeld == \A i \in Importers : pc[i] # "idle" => lock = i

\* While sessions outlive their attempts, whoever is past the lock holds it.
LEMMA LockStep ==
    ASSUME MaxDrops = 0
    PROVE  TypeOK /\ LockHeld /\ [Next]_vars => LockHeld'
<1> SUFFICES ASSUME TypeOK, LockHeld, [Next]_vars PROVE LockHeld'
  OBVIOUS
<1> USE ImporterAssumption DEF LockHeld, Goto, Took, Start
<1> pc \in [Importers -> Steps]
  BY DEF TypeOK
<1>1. ASSUME NEW i \in Importers, TakeLock(i) PROVE LockHeld'
  BY <1>1 DEF TakeLock
<1>2. ASSUME NEW i \in Importers, pc[i] # "idle", lock' = lock,
             \A j \in Importers : j # i => pc'[j] = pc[j]
      PROVE  LockHeld'
  BY <1>2
<1>3. ASSUME NEW i \in Importers,
             \/ ReadPublished(i) \/ Decide(i) \/ DropRetired(i) \/ Compare(i)
             \/ DropStaging(i) \/ CreateStaging(i) \/ CheckLoad(i)
             \/ Publish(i) \/ Refresh(i) \/ Discard(i)
      PROVE  LockHeld'
  <2>1. pc[i] # "idle" /\ lock' = lock
    BY <1>3 DEF ReadPublished, Decide, DropRetired, Compare, DropStaging,
                CreateStaging, CheckLoad, Publish, Refresh, Discard
  <2>2. \A j \in Importers : j # i => pc'[j] = pc[j]
    BY <1>3 DEF ReadPublished, Decide, DropRetired, Compare, DropStaging,
                CreateStaging, CheckLoad, Publish, Refresh, Discard
  <2> QED
    BY <1>2, <2>1, <2>2
<1>4. ASSUME NEW i \in Importers, OverFiles(i) PROVE LockHeld'
  <2>1. pc[i] # "idle" /\ lock' = lock
    BY <1>4 DEF OverFiles, HeadFile, Download, HeadAgain, LoadFile, LoadFails
  <2>2. \A j \in Importers : j # i => pc'[j] = pc[j]
    BY <1>4 DEF OverFiles, HeadFile, Download, HeadAgain, LoadFile, LoadFails
  <2> QED
    BY <1>2, <2>1, <2>2
<1>5. ASSUME NEW i \in Importers, Unlock(i) PROVE LockHeld'
  BY <1>5 DEF Unlock
<1>6. ASSUME NEW i \in Importers, Fault(i) PROVE LockHeld'
  <2>1. pc[i] # "idle" /\ lock' = lock
    BY <1>6 DEF Fault, Asking, Holding
  <2>2. \A j \in Importers : j # i => pc'[j] = pc[j]
    BY <1>6 DEF Fault
  <2> QED
    BY <1>2, <2>1, <2>2
<1>7. ASSUME NEW i \in Importers, Crash(i) PROVE LockHeld'
  BY <1>7 DEF Crash
<1>8. ASSUME NEW i \in Importers, SessionDrops(i) PROVE LockHeld'
  BY <1>8 DEF SessionDrops, TypeOK
<1>9. CASE SessionReaped
  BY <1>9 DEF SessionReaped
<1>10. ASSUME NEW f \in Files, HostMoves(f) PROVE LockHeld'
  BY <1>10 DEF HostMoves
<1>11. CASE UNCHANGED vars
  BY <1>11 DEF vars
<1> QED
  BY <1>1, <1>3, <1>4, <1>5, <1>6, <1>7, <1>8, <1>9, <1>10, <1>11
     DEF Next, Step

\* No two attempts are ever past the lock together, whatever has crashed and
\* whichever session still holds it: nobody writes another's staging schema.
THEOREM MutualExclusion ==
    ASSUME MaxDrops = 0
    PROVE  Spec => []OneAtATime
<1>1. Init => LockHeld
  BY DEF Init, Fresh, LockHeld
<1>2. LockHeld => OneAtATime
  BY DEF LockHeld, OneAtATime
<1>3. TypeOK /\ LockHeld /\ [Next]_vars => LockHeld'
  BY LockStep
<1> QED
  BY <1>1, <1>2, <1>3, TypeCorrect, PTL DEF Spec
-----------------------------------------------------------------------------
(* What is published is what the record says was published.                *)
(*                                                                         *)
(* RecordedIsLive is not inductive: Publish makes it true again from what  *)
(* the attempt knows about the staging schema.  The strengthening is       *)
(* Bracketed, which follows an attempt from its first reading to there,    *)
(* and LockHeld, by which nobody else can undo what it knows.              *)

Inductive == TypeOK /\ LockHeld /\ Bracketed /\ RecordedIsLive /\ LiveWhole

\* One attempt at a time, said of one importer.
LEMMA OthersAreIdle ==
    ASSUME LockHeld, NEW i \in Importers, pc[i] # "idle"
    PROVE  \A j \in Importers : j # i => pc[j] = "idle"
BY DEF LockHeld

\* An importer between attempts has nothing to keep true.
LEMMA IdleKnowsNothing ==
    ASSUME NEW i \in Importers, pc[i] = "idle"
    PROVE  AttemptKnows(i)
BY DEF AttemptKnows, Decided, Fetched, Verified

\* A step of one attempt has only what that attempt knows to keep.
LEMMA OnlyItsOwn ==
    ASSUME LockHeld, NEW i \in Importers, pc[i] # "idle",
           \A j \in Importers : j # i => pc'[j] = pc[j],
           AttemptKnows(i)'
    PROVE  Bracketed'
<1>1. ASSUME NEW j \in Importers, j # i PROVE AttemptKnows(j)'
  <2>1. pc'[j] = "idle"
    BY <1>1, OthersAreIdle
  <2> QED
    BY <2>1 DEF AttemptKnows, Decided, Fetched, Verified
<1> QED
  BY <1>1 DEF Bracketed

\* A step that leaves what is published alone.
LEMMA SameCatalog ==
    ASSUME RecordedIsLive, LiveWhole, live' = live, recorded' = recorded
    PROVE  RecordedIsLive' /\ LiveWhole'
BY DEF RecordedIsLive, LiveWhole, NoTableEmpty

\* The steps of an attempt that take no file keep what it knows.
LEMMA AttemptStep ==
    ASSUME Inductive, NEW i \in Importers,
           \/ ReadPublished(i) \/ Decide(i) \/ DropRetired(i) \/ Compare(i)
           \/ DropStaging(i) \/ CreateStaging(i) \/ CheckLoad(i)
           \/ Refresh(i) \/ Discard(i) \/ Unlock(i)
    PROVE  Bracketed' /\ RecordedIsLive' /\ LiveWhole'
<1> USE DEF Inductive, Goto, Start
<1>1. TypeOK /\ AttemptKnows(i)
  BY DEF Bracketed
<1>2. /\ pc \in [Importers -> Steps]
      /\ published \in [Importers -> Generation]
      /\ todo \in [Importers -> SUBSET Files]
  BY <1>1 DEF TypeOK
<1>3. live' = live /\ recorded' = recorded /\ upstream' = upstream
  BY DEF ReadPublished, Decide, DropRetired, Compare, DropStaging, schemas,
         CreateStaging, CheckLoad, Refresh, Discard, Unlock
<1>4. pc[i] # "idle" /\ \A j \in Importers : j # i => pc'[j] = pc[j]
  BY <1>2 DEF ReadPublished, Decide, DropRetired, Compare, DropStaging,
         CreateStaging, CheckLoad, Refresh, Discard, Unlock
<1>5. AttemptKnows(i)'
  <2>1. CASE ReadPublished(i)
    BY <2>1, <1>2 DEF ReadPublished, AttemptKnows, Decided, Fetched, Verified
  <2>2. CASE Decide(i)
    BY <2>2, <1>1, <1>2 DEF Decide, locals, AttemptKnows, Decided, Fetched, Verified
  <2>3. CASE DropRetired(i)
    BY <2>3, <1>1, <1>2 DEF DropRetired, AttemptKnows, Decided, Fetched, Verified
  <2>4. CASE Compare(i)
    <3>1. CASE Same(opened[i], after[i])
      <4>1. \A f \in Files : disk[f] = opened[i][f]
        BY <2>4, <3>1, <1>1, ImporterAssumption
           DEF Compare, AttemptKnows, Same, Fetched, TypeOK, Generation, Stamps
      <4> QED
        BY <2>4, <3>1, <4>1, <1>1, <1>2
           DEF Compare, locals, AttemptKnows, Decided, Fetched, Verified
    <3>2. CASE ~Same(opened[i], after[i])
      BY <2>4, <3>2, <1>2 DEF Compare, AttemptKnows, Decided, Fetched, Verified
    <3> QED
      BY <3>1, <3>2
  <2>5. CASE DropStaging(i)
    BY <2>5, <1>1, <1>2 DEF DropStaging, locals, AttemptKnows, Decided, Fetched, Verified
  <2>6. CASE CreateStaging(i)
    <3>1. CASE staging = NoSchema
      <4>1. staging' = EmptySchema /\ staging' # NoSchema
        BY <2>6, <3>1, EmptyIsSchema, NoSchemaAssumption DEF CreateStaging
      <4>2. pc'[i] = "load" /\ todo'[i] = Files
        BY <2>6, <3>1, <1>2 DEF CreateStaging
      <4>3. \A f \in Files : staging'.from[f] = {}
        BY <4>1 DEF EmptySchema
      <4> QED
        BY <2>6, <4>1, <4>2, <4>3, <1>1
           DEF CreateStaging, AttemptKnows, Decided, Fetched, Verified
    <3>2. CASE staging # NoSchema
      BY <2>6, <3>2, <1>2 DEF CreateStaging, AttemptKnows, Decided, Fetched, Verified
    <3> QED
      BY <3>1, <3>2
  <2>7. CASE CheckLoad(i)
    BY <2>7, <1>1, <1>2
       DEF CheckLoad, Check, NoTableEmpty, schemas, locals,
           AttemptKnows, Decided, Fetched, Verified
  <2>8. CASE Refresh(i) \/ Discard(i) \/ Unlock(i)
    BY <2>8, <1>2 DEF Refresh, Discard, Unlock, AttemptKnows, Decided, Fetched, Verified
  <2> QED
    BY <2>1, <2>2, <2>3, <2>4, <2>5, <2>6, <2>7, <2>8
<1> QED
  BY <1>3, <1>4, <1>5, OnlyItsOwn, SameCatalog

\* ... and so do those that take one: this is where the two readings and the
\* fetch between them are tied together.
LEMMA FileStep ==
    ASSUME Inductive, NEW i \in Importers, NEW f \in Files,
           \/ HeadFile(i, f) \/ Download(i, f) \/ HeadAgain(i, f)
           \/ LoadFile(i, f) \/ LoadFails(i, f)
    PROVE  Bracketed' /\ RecordedIsLive' /\ LiveWhole'
<1> USE DEF Inductive, Goto, Start, Took
<1>1. TypeOK /\ AttemptKnows(i)
  BY DEF Bracketed
<1>2. /\ pc \in [Importers -> Steps]
      /\ todo \in [Importers -> SUBSET Files]
      /\ opened \in [Importers -> [Files -> 0..MaxStamp]]
      /\ after \in [Importers -> [Files -> 0..MaxStamp]]
      /\ disk \in [Files -> 0..MaxStamp]
      /\ upstream \in [Files -> 1..MaxStamp]
      /\ MaxStamp \in Nat
  BY <1>1, ImporterAssumption DEF TypeOK, Generation, Stamps
<1>3. live' = live /\ recorded' = recorded /\ upstream' = upstream
  BY DEF HeadFile, Download, HeadAgain, LoadFile, LoadFails, schemas
<1>4. pc[i] # "idle" /\ \A j \in Importers : j # i => pc'[j] = pc[j]
  BY <1>2 DEF HeadFile, Download, HeadAgain, LoadFile, LoadFails
<1>5. AttemptKnows(i)'
  <2>1. CASE HeadFile(i, f)
    <3>1. /\ opened'[i] = [opened[i] EXCEPT ![f] = upstream[f]]
          /\ todo'[i] = todo[i] \ {f}
          /\ pc'[i] = IF todo[i] = {f} THEN "decide" ELSE "head"
      BY <2>1, <1>2 DEF HeadFile
    <3>2. \A g \in Files \ todo'[i] : opened'[i][g] \in 1..upstream[g]
      BY <2>1, <3>1, <1>1, <1>2 DEF HeadFile, AttemptKnows
    <3>3. published'[i] = recorded
      BY <2>1, <1>1 DEF HeadFile, AttemptKnows
    <3>4. todo[i] = {f} => todo'[i] = {}
      BY <3>1
    <3> QED
      BY <3>1, <3>2, <3>3, <3>4, <1>3 DEF AttemptKnows, Decided, Fetched, Verified
  <2>2. CASE Download(i, f)
    <3>1. /\ disk' = [disk EXCEPT ![f] = upstream[f]]
          /\ pc[i] = "download"
          /\ UNCHANGED <<published, opened>>
      BY <2>2 DEF Download
    <3>2. \A g \in Files : g = f \/ g \notin todo[i] => disk'[g] \in opened[i][g]..upstream[g]
      BY <3>1, <1>1, <1>2 DEF AttemptKnows, Decided
    <3>3. /\ published'[i] = recorded
          /\ Ready(published'[i], opened'[i])
          /\ \A g \in Files : opened'[i][g] \in 1..upstream'[g]
      BY <3>1, <1>1, <1>3 DEF AttemptKnows, Decided
    <3>4. CASE todo[i] = {f}
      <4>1. pc'[i] = "again" /\ todo'[i] = Files
        BY <2>2, <3>4, <1>2 DEF Download
      <4> QED
        BY <4>1, <3>1, <3>2, <3>3, <3>4, <1>3 DEF AttemptKnows, Decided, Fetched, Verified
    <3>5. CASE todo[i] # {f}
      <4>1. pc'[i] = "download" /\ todo'[i] = todo[i] \ {f}
        BY <2>2, <3>1, <3>5, <1>2 DEF Download
      <4> QED
        BY <4>1, <3>1, <3>2, <3>3, <1>3 DEF AttemptKnows, Decided, Fetched, Verified
    <3> QED
      BY <3>4, <3>5
  <2>3. CASE HeadAgain(i, f)
    <3>1. /\ after'[i] = [after[i] EXCEPT ![f] = upstream[f]]
          /\ todo'[i] = todo[i] \ {f}
          /\ pc'[i] = IF todo[i] = {f} THEN "compare" ELSE "again"
          /\ pc[i] = "again"
          /\ UNCHANGED <<published, opened, disk>>
      BY <2>3, <1>2 DEF HeadAgain
    <3>2. \A g \in Files \ todo'[i] : after'[i][g] \in disk[g]..upstream[g]
      BY <3>1, <1>1, <1>2 DEF AttemptKnows, Fetched
    <3>3. todo[i] = {f} => todo'[i] = {}
      BY <3>1
    <3> QED
      BY <3>1, <3>2, <3>3, <1>1, <1>3 DEF AttemptKnows, Decided, Fetched, Verified
  <2>4. CASE LoadFile(i, f)
    <3>1. /\ pc[i] = "load"
          /\ todo'[i] = todo[i] \ {f}
          /\ pc'[i] = IF todo[i] = {f} THEN "check" ELSE "load"
          /\ f \in todo[i]
          /\ UNCHANGED <<published, opened, disk>>
      BY <2>4, <1>2 DEF LoadFile, IsNext
    <3>2. staging \in Schema
      BY <2>4, <1>1 DEF LoadFile, CanLoad, TypeOK
    <3>3. staging' \in Schema
      BY <2>4, <1>1, LoadedSchema
    <3>4. staging' # NoSchema
      BY <3>3, NoSchemaAssumption
    <3>5. staging'.from = [staging.from EXCEPT ![f] = @ \cup {disk[f]}]
      BY <2>4, <3>2 DEF LoadFile, Schema
    <3>6. \A g \in Files : staging'.from[g] = IF g \in todo'[i] THEN {} ELSE {disk[g]}
      BY <3>1, <3>2, <3>5, <1>1 DEF AttemptKnows, Schema
    <3>7. todo[i] = {f} => todo'[i] = {}
      BY <3>1
    <3> QED
      BY <3>1, <3>4, <3>6, <3>7, <1>1, <1>3 DEF AttemptKnows, Decided, Fetched, Verified
  <2>5. CASE LoadFails(i, f)
    BY <2>5, <1>2 DEF LoadFails, AttemptKnows, Decided, Fetched, Verified
  <2> QED
    BY <2>1, <2>2, <2>3, <2>4, <2>5
<1> QED
  BY <1>3, <1>4, <1>5, OnlyItsOwn, SameCatalog

\* A publish makes live what the record it writes describes.
LEMMA PublishStep ==
    ASSUME Inductive, NEW i \in Importers, Publish(i)
    PROVE  Bracketed' /\ RecordedIsLive' /\ LiveWhole'
<1> USE DEF Inductive, Goto
<1>1. TypeOK /\ AttemptKnows(i) /\ pc[i] = "publish"
  BY DEF Bracketed, Publish
<1>2. /\ staging # NoSchema /\ NoTableEmpty(staging)
      /\ \A f \in Files : staging.from[f] = {disk[f]} /\ disk[f] = opened[i][f]
  BY <1>1 DEF AttemptKnows, Verified
<1>3. live' = staging /\ recorded' = opened[i]
  BY <1>2 DEF Publish
<1>4. RecordedIsLive' /\ LiveWhole'
  BY <1>2, <1>3 DEF RecordedIsLive, LiveWhole, NoTableEmpty
<1>5. pc'[i] = "refresh" /\ \A j \in Importers : j # i => pc'[j] = pc[j]
  BY <1>1, <1>2 DEF Publish, TypeOK
<1>6. AttemptKnows(i)'
  BY <1>5 DEF AttemptKnows, Decided, Fetched, Verified
<1> QED
  BY <1>1, <1>4, <1>5, <1>6, OnlyItsOwn

\* Nor does anything around the attempts: faults, crashes, the reaped session,
\* the host.
LEMMA AroundStep ==
    ASSUME Inductive, MaxDrops = 0,
           \/ \E i \in Importers :
                TakeLock(i) \/ Fault(i) \/ Crash(i) \/ SessionDrops(i)
           \/ SessionReaped
           \/ \E f \in Files : HostMoves(f)
           \/ UNCHANGED vars
    PROVE  Bracketed' /\ RecordedIsLive' /\ LiveWhole'
<1> USE DEF Inductive, Goto
<1>1. TypeOK /\ pc \in [Importers -> Steps]
  BY DEF TypeOK
<1>2. live' = live /\ recorded' = recorded
  BY DEF TakeLock, Fault, Crash, SessionDrops, SessionReaped, HostMoves, vars, schemas
<1>3. ASSUME NEW i \in Importers, TakeLock(i) PROVE Bracketed'
  <2>1. lock = Nobody /\ pc' = [pc EXCEPT ![i] = "published"]
    BY <1>3 DEF TakeLock
  <2>2. \A j \in Importers : pc'[j] \in {"idle", "published"}
    BY <2>1, <1>1, ImporterAssumption DEF LockHeld
  <2> QED
    BY <2>2 DEF Bracketed, AttemptKnows, Decided, Fetched, Verified
<1>4. ASSUME NEW i \in Importers, Fault(i) PROVE Bracketed'
  <2>1. pc[i] # "idle" /\ \A j \in Importers : j # i => pc'[j] = pc[j]
    BY <1>4, <1>1 DEF Fault, Asking, Holding
  <2>2. pc'[i] \in {"unlock", "discard"}
    BY <1>4, <1>1 DEF Fault
  <2>3. AttemptKnows(i)'
    BY <2>2 DEF AttemptKnows, Decided, Fetched, Verified
  <2> QED
    BY <2>1, <2>3, OnlyItsOwn
<1>5. ASSUME NEW i \in Importers, Crash(i) PROVE Bracketed'
  <2>1. pc[i] # "idle" /\ \A j \in Importers : j # i => pc'[j] = pc[j]
    BY <1>5, <1>1 DEF Crash
  <2>2. pc'[i] = "idle"
    BY <1>5, <1>1 DEF Crash
  <2>3. AttemptKnows(i)'
    BY <2>2 DEF AttemptKnows, Decided, Fetched, Verified
  <2> QED
    BY <2>1, <2>3, OnlyItsOwn
<1>6. ASSUME NEW i \in Importers, SessionDrops(i) PROVE FALSE
  BY <1>6, <1>1 DEF SessionDrops, TypeOK
<1>7. ASSUME NEW f \in Files, HostMoves(f) PROVE Bracketed'
  <2>1. /\ upstream \in [Files -> 1..MaxStamp] /\ MaxStamp \in Nat
        /\ opened \in [Importers -> [Files -> 0..MaxStamp]]
        /\ after \in [Importers -> [Files -> 0..MaxStamp]]
        /\ disk \in [Files -> 0..MaxStamp]
    BY <1>1, ImporterAssumption DEF TypeOK, Stamps, Generation
  <2>2. \A g \in Files : upstream[g] \in Nat /\ upstream'[g] \in Nat /\ upstream[g] <= upstream'[g]
    BY <1>7, <2>1 DEF HostMoves
  <2>3. UNCHANGED <<staging, live, recorded, disk, pc, todo, published, opened, after>>
    BY <1>7 DEF HostMoves, schemas, locals
  <2>4. ASSUME NEW j \in Importers PROVE AttemptKnows(j)'
    <3>1. AttemptKnows(j)
      BY DEF Bracketed
    <3>2. \A g \in Files, x, y \in Nat : x \in y..upstream[g] => x \in y..upstream'[g]
      BY <2>2
    <3>3. \A g \in Files : opened[j][g] \in Nat /\ after[j][g] \in Nat /\ disk[g] \in Nat
      BY <2>1
    <3>4. pc[j] = "head" => \A g \in Files \ todo[j] : opened[j][g] \in 1..upstream'[g]
      BY <3>1, <3>2, <3>3 DEF AttemptKnows
    <3>5. pc[j] \in Decided \cup {"decide"} =>
            \A g \in Files : opened[j][g] \in 1..upstream'[g]
      BY <3>1, <3>2, <3>3 DEF AttemptKnows
    <3>6. pc[j] = "download" =>
            \A g \in Files \ todo[j] : disk[g] \in opened[j][g]..upstream'[g]
      BY <3>1, <3>2, <3>3 DEF AttemptKnows
    <3>7. pc[j] \in Fetched => \A g \in Files : disk[g] \in opened[j][g]..upstream'[g]
      BY <3>1, <3>2, <3>3 DEF AttemptKnows
    <3>8. pc[j] = "again" =>
            \A g \in Files \ todo[j] : after[j][g] \in disk[g]..upstream'[g]
      BY <3>1, <3>2, <3>3 DEF AttemptKnows
    <3>9. pc[j] = "compare" => \A g \in Files : after[j][g] \in disk[g]..upstream'[g]
      BY <3>1, <3>2, <3>3 DEF AttemptKnows
    <3> QED
      BY <3>1, <2>3, <3>4, <3>5, <3>6, <3>7, <3>8, <3>9
         DEF AttemptKnows, Decided, Fetched, Verified, NoTableEmpty
  <2> QED
    BY <2>4 DEF Bracketed
<1>8. CASE SessionReaped \/ UNCHANGED vars
  <2>1. UNCHANGED <<upstream, staging, live, recorded, disk, pc, todo, published, opened, after>>
    BY <1>8 DEF SessionReaped, vars, schemas, locals
  <2>2. ASSUME NEW j \in Importers PROVE AttemptKnows(j)'
    <3>1. AttemptKnows(j)
      BY DEF Bracketed
    <3> QED
      BY <2>1, <3>1 DEF AttemptKnows, Decided, Fetched, Verified, NoTableEmpty
  <2>3. Bracketed'
    BY <2>2 DEF Bracketed
  <2> QED
    BY <2>3, <1>2, SameCatalog
<1> QED
  BY <1>2, <1>3, <1>4, <1>5, <1>6, <1>7, <1>8, SameCatalog

\* The inductive invariant survives every step.
LEMMA InductiveStep ==
    ASSUME MaxDrops = 0
    PROVE  Inductive /\ [Next]_vars => Inductive'
<1> SUFFICES ASSUME Inductive, [Next]_vars PROVE Inductive'
  OBVIOUS
<1>1. TypeOK' /\ LockHeld'
  BY TypeStep, LockStep DEF Inductive
<1>2. Bracketed' /\ RecordedIsLive' /\ LiveWhole'
  BY AttemptStep, FileStep, PublishStep, AroundStep DEF Next, Step, OverFiles
<1> QED
  BY <1>1, <1>2 DEF Inductive

\* ... and holds in every state.
LEMMA InductiveAlways ==
    ASSUME MaxDrops = 0
    PROVE  Spec => []Inductive
<1>1. Init => Inductive
  BY InitTypeOK, IdleKnowsNothing
     DEF Init, Fresh, Inductive, LockHeld, Bracketed, RecordedIsLive, LiveWhole
<1>2. Inductive /\ [Next]_vars => Inductive'
  BY InductiveStep
<1> QED
  BY <1>1, <1>2, PTL DEF Spec

\* From its decision to its publish an attempt knows of each file what the
\* host did to it meanwhile: the files it loads are those whose stamps it
\* compared (import.go, RunOnce; generation.go).
THEOREM FilesAreFollowed ==
    ASSUME MaxDrops = 0
    PROVE  Spec => []Bracketed
<1>1. Inductive => Bracketed
  BY DEF Inductive
<1> QED
  BY <1>1, InductiveAlways, PTL

\* What meta.generation says of each file is what the live rows came from,
\* however the host moves the files while they are being read and fetched.
THEOREM RecordDescribesLive ==
    ASSUME MaxDrops = 0
    PROVE  Spec => []RecordedIsLive
<1>1. Inductive => RecordedIsLive
  BY DEF Inductive
<1> QED
  BY <1>1, InductiveAlways, PTL

\* Nothing with an empty table is ever published.
THEOREM NothingEmptyIsPublished ==
    ASSUME MaxDrops = 0
    PROVE  Spec => []LiveWhole
<1>1. Inductive => LiveWhole
  BY DEF Inductive
<1> QED
  BY <1>1, InductiveAlways, PTL

\* What an attempt decided at its start still holds when it publishes.
THEOREM DecisionHolds ==
    ASSUME MaxDrops = 0
    PROVE  Spec => []DecisionNotStale
<1>1. Inductive => DecisionNotStale
  BY DEF Inductive, Bracketed, AttemptKnows, DecisionNotStale
<1> QED
  BY <1>1, InductiveAlways, PTL
-----------------------------------------------------------------------------
(* An import is one swap.                                                  *)

\* Rows that came out of one file have its stamp.
LEMMA StampOfOne ==
    ASSUME NEW s \in Nat
    PROVE  StampOf({s}) = s
<1>1. \E t \in {s} : \A u \in {s} : u <= t
  OBVIOUS
<1> QED
  BY <1>1 DEF StampOf

\* The stamps the rows of a live schema came from, as PublishIsOneSwap reads
\* them.
ServedBy(schema) ==
    IF schema = NoSchema THEN Unread ELSE [f \in Files |-> StampOf(schema.from[f])]

\* Under the invariant the abstract `serving` is what is recorded.
LEMMA ServedIsRecorded ==
    ASSUME NEW schema, NEW record \in Generation,
           IF schema = NoSchema THEN record = Unread
                                ELSE \A f \in Files : schema.from[f] = {record[f]}
    PROVE  ServedBy(schema) = record
<1>1. record \in [Files -> 0..MaxStamp] /\ MaxStamp \in Nat
  BY ImporterAssumption DEF Generation
<1>2. CASE schema # NoSchema
  <2>1. \A f \in Files : StampOf(schema.from[f]) = record[f]
    BY <1>1, <1>2, StampOfOne
  <2> QED
    BY <1>1, <1>2, <2>1 DEF ServedBy
<1>3. CASE schema = NoSchema
  BY <1>3 DEF ServedBy
<1> QED
  BY <1>2, <1>3

\* The empty database is the abstract initial state.
LEMMA InitIsNothing == Init => Swapped!SwapInit
BY DEF Init, Fresh, Swapped!SwapInit, Swapped!Nothing, Unread

\* Only Publish touches what is live or what is recorded.
LEMMA OnlyPublishPublishes ==
    ASSUME [Next]_vars, \A i \in Importers : ~Publish(i)
    PROVE  live' = live /\ recorded' = recorded
<1>1. ASSUME NEW i \in Importers, Step(i) PROVE live' = live /\ recorded' = recorded
  <2>1. CASE OverFiles(i)
    BY <2>1 DEF OverFiles, HeadFile, Download, HeadAgain, LoadFile, LoadFails, schemas
  <2> QED
    BY <1>1, <2>1 DEF Step, TakeLock, ReadPublished, Decide, DropRetired, Compare,
       DropStaging, CreateStaging, CheckLoad, Refresh, Discard, Unlock, schemas
<1>2. ASSUME NEW i \in Importers, Fault(i) \/ Crash(i) \/ SessionDrops(i)
      PROVE  live' = live /\ recorded' = recorded
  BY <1>2 DEF Fault, Crash, SessionDrops, schemas
<1>3. CASE SessionReaped \/ (\E f \in Files : HostMoves(f)) \/ UNCHANGED vars
  BY <1>3 DEF SessionReaped, HostMoves, vars, schemas
<1> QED
  BY <1>1, <1>2, <1>3 DEF Next

\* Every step is a swap to newer files, or changes nothing a reader can see.
LEMMA StepIsSwap ==
    ASSUME Inductive, Inductive', [Next]_vars
    PROVE  Swapped!SwapNext \/ (ServedBy(live)' = ServedBy(live) /\ recorded' = recorded)
<1>1. ServedBy(live) = recorded
  <2>1. recorded \in Generation /\ RecordedIsLive
    BY DEF Inductive, TypeOK
  <2> QED
    BY <2>1, ServedIsRecorded DEF RecordedIsLive
<1>2. ServedBy(live') = recorded'
  <2>1. recorded' \in Generation /\ RecordedIsLive'
    BY DEF Inductive, TypeOK
  <2> QED
    BY <2>1, ServedIsRecorded DEF RecordedIsLive
<1>3. ASSUME NEW i \in Importers, Publish(i) PROVE Swapped!SwapNext
  <2>1. TypeOK /\ AttemptKnows(i) /\ pc[i] = "publish"
    BY <1>3 DEF Inductive, Bracketed, Publish
  <2>2. opened[i] \in [Files -> 0..MaxStamp] /\ MaxStamp \in Nat
    BY <2>1, ImporterAssumption DEF TypeOK, Generation
  <2>3. recorded' = opened[i]
    BY <1>3, <2>1 DEF Publish, AttemptKnows
  <2>4. \A f \in Files : opened[i][f] > 0 /\ (recorded[f] = 0 \/ opened[i][f] > recorded[f])
    BY <2>1, <2>2 DEF AttemptKnows, Decided, Fetched, Ready
  <2>5. \A f \in Files : opened[i][f] > recorded[f]
    BY <2>2, <2>4
  <2>6. Swapped!Swap(opened[i])
    BY <1>2, <2>3, <2>5 DEF Swapped!Swap, Swapped!Newer, ServedBy
  <2> QED
    BY <2>2, <2>6 DEF Swapped!SwapNext, Swapped!Set
<1> QED
  BY <1>3, OnlyPublishPublishes

\* Every behaviour of any number of importers is, for the readers, a behaviour
\* of CatalogSwap: rows and record change together and only to newer files.
THEOREM ImportImplementsSwap ==
    ASSUME MaxDrops = 0
    PROVE  Spec => PublishIsOneSwap
<1>1. Init => Swapped!SwapInit
  BY InitIsNothing
<1>2. Inductive /\ Inductive' /\ [Next]_vars
        => [Swapped!SwapNext]_(<<ServedBy(live), recorded>>)
  BY StepIsSwap
<1> QED
  BY <1>1, <1>2, InductiveAlways, PTL
     DEF Spec, PublishIsOneSwap, Swapped!SwapSpec, ServedBy
-----------------------------------------------------------------------------
(* The rows an import publishes: there is always a catalog once there was  *)
(* one, and its tables agree with each other.                              *)

\* Once a catalog has been served there is always one to serve, even when
\* lock sessions end under running attempts: the old schema steps aside only
\* in the transaction that brings the new one.
THEOREM AlwaysServed == Spec => NeverUnserved
<1>1. [Next]_vars => [live # NoSchema => live' # NoSchema]_vars
  <2> SUFFICES ASSUME [Next]_vars, live # NoSchema PROVE live' # NoSchema
    OBVIOUS
  <2>1. ASSUME NEW i \in Importers, Publish(i) PROVE live' # NoSchema
    BY <2>1 DEF Publish, schemas
  <2> QED
    BY <2>1, OnlyPublishPublishes
<1> QED
  BY <1>1, PTL DEF Spec, NeverUnserved
-----------------------------------------------------------------------------
(* The tables agree.                                                       *)
(*                                                                         *)
(* ReferencesResolve becomes true at a publish because of the order the    *)
(* files were loaded in, so what is kept true on the way is what a load    *)
(* knows: nothing before it begins; then that its allow-list and its       *)
(* people are the rows it has stored, and that names are still to come.    *)

\* The people one schema has credits of.
People(schema) == schema.rows[TitlePrincipals] \cup schema.rows[TitleCrew]

\* Credits and ratings name the schema's films.
CreditsResolve(schema) ==
    People(schema) \cup schema.rows[TitleRatings] \subseteq schema.rows[TitleBasics]

\* The names are those of the people credited.
NamesResolve(schema) ==
    \A s \in schema.from[NameBasics] :
        schema.rows[NameBasics] = Holds[NameBasics][s] \cap People(schema)

\* The steps after a load has begun.
Loading == {"load", "check", "publish", "refresh", "discard", "unlock"}

LoadKnows(i) ==
    /\ pc[i] \notin Loading => kept[i] = {} /\ credited[i] = {}
    /\ pc[i] = "load" =>
         /\ NameBasics \in todo[i]
         /\ \A f \in todo[i] : staging.rows[f] = {}
         /\ kept[i] = staging.rows[TitleBasics]
         /\ credited[i] = People(staging)
         /\ CreditsResolve(staging)
    /\ pc[i] \in {"check", "publish"} => CreditsResolve(staging) /\ NamesResolve(staging)

LoadsResolve == \A i \in Importers : LoadKnows(i)

\* Five files, five names.
LEMMA NamesApart ==
    /\ NameBasics # TitleBasics /\ NameBasics # TitlePrincipals
    /\ NameBasics # TitleCrew /\ NameBasics # TitleRatings
    /\ TitleBasics # TitlePrincipals /\ TitleBasics # TitleCrew
    /\ TitleBasics # TitleRatings /\ TitlePrincipals # TitleCrew
    /\ TitlePrincipals # TitleRatings /\ TitleCrew # TitleRatings
BY DEF NameBasics, TitleBasics, TitlePrincipals, TitleCrew, TitleRatings

\* The load takes the names when nothing else is left.
LEMMA NamesComeLast ==
    ASSUME NEW todos \in SUBSET Files, IsNext(NameBasics, LoadOrder, todos)
    PROVE  todos = {NameBasics}
<1>1. PICK n \in 1..5 : /\ LoadOrder[n] = NameBasics
                        /\ \A m \in 1..(n - 1) : LoadOrder[m] \notin todos
  BY DEF IsNext
<1>2. /\ LoadOrder[1] = TitleBasics /\ LoadOrder[2] = TitlePrincipals
      /\ LoadOrder[3] = TitleCrew /\ LoadOrder[4] = TitleRatings
      /\ LoadOrder[5] = NameBasics
  BY DEF LoadOrder
<1>3. n \in {1, 2, 3, 4, 5}
  OBVIOUS
<1>4. n = 5
  BY <1>1, <1>2, <1>3, NamesApart
<1>5. 1 \in 1..(n - 1) /\ 2 \in 1..(n - 1) /\ 3 \in 1..(n - 1) /\ 4 \in 1..(n - 1)
  BY <1>4
<1>6. /\ TitleBasics \notin todos /\ TitlePrincipals \notin todos
      /\ TitleCrew \notin todos /\ TitleRatings \notin todos
  BY <1>1, <1>2, <1>5
<1>7. NameBasics \in todos
  BY DEF IsNext
<1> QED
  BY <1>6, <1>7 DEF Files

\* A file that is loaded leaves what the load knows true of one more table.
LEMMA LoadFileResolves ==
    ASSUME Inductive, NEW i \in Importers, LoadKnows(i),
           NEW f \in Files, LoadFile(i, f)
    PROVE  LoadKnows(i)'
<1> DEFINE rows == Kept(f, disk[f], kept[i], credited[i])
<1>1. /\ TypeOK /\ pc[i] = "load" /\ staging \in Schema
      /\ pc \in [Importers -> Steps] /\ todo \in [Importers -> SUBSET Files]
      /\ kept \in [Importers -> SUBSET Keys] /\ credited \in [Importers -> SUBSET Keys]
  BY DEF Inductive, TypeOK, LoadFile, CanLoad
<1>2. staging.from[NameBasics] = {} \/ NameBasics \notin todo[i]
  BY <1>1, StringsDiffer DEF Inductive, Bracketed, AttemptKnows
<1>3. /\ NameBasics \in todo[i] /\ f \in todo[i]
      /\ \A g \in todo[i] : staging.rows[g] = {}
      /\ kept[i] = staging.rows[TitleBasics]
      /\ credited[i] = People(staging)
      /\ CreditsResolve(staging)
  BY <1>1 DEF LoadKnows, LoadFile, IsNext
<1>4. /\ staging' = [staging EXCEPT !.rows[f] = @ \cup rows, !.from[f] = @ \cup {disk[f]}]
      /\ kept'[i] = IF f = TitleBasics THEN rows ELSE kept[i]
      /\ credited'[i] = IF f \in {TitlePrincipals, TitleCrew} THEN credited[i] \cup rows
                                                              ELSE credited[i]
      /\ todo'[i] = todo[i] \ {f}
      /\ pc'[i] = IF todo[i] = {f} THEN "check" ELSE "load"
  BY <1>1 DEF LoadFile, Took, Goto
<1>5. rows = IF f = TitleBasics THEN Holds[f][disk[f]]
             ELSE IF f = NameBasics THEN Holds[f][disk[f]] \cap credited[i]
             ELSE Holds[f][disk[f]] \cap kept[i]
  BY NamesApart DEF Kept
<1> HIDE DEF rows
<1>6. /\ staging'.rows = [staging.rows EXCEPT ![f] = @ \cup rows]
      /\ staging'.from = [staging.from EXCEPT ![f] = @ \cup {disk[f]}]
  BY <1>1, <1>4 DEF Schema
<1>7. staging'.rows[f] = rows /\ \A g \in Files : g # f => staging'.rows[g] = staging.rows[g]
  BY <1>1, <1>3, <1>6 DEF Schema
<1>8. CreditsResolve(staging)'
  BY <1>3, <1>5, <1>7, NamesApart, StringsDiffer DEF CreditsResolve, People
<1>9. CASE f = NameBasics
  <2>1. todo[i] = {NameBasics}
    BY <1>1, <1>9, NamesComeLast DEF LoadFile
  <2>2. staging'.from[NameBasics] = {disk[NameBasics]}
    BY <1>1, <1>2, <1>3, <1>6, <1>9 DEF Schema
  <2>3. People(staging)' = People(staging)
    BY <1>7, <1>9, NamesApart, StringsDiffer DEF People
  <2>4. NamesResolve(staging)'
    BY <1>3, <1>5, <1>7, <1>9, <2>2, <2>3, NamesApart DEF NamesResolve
  <2> QED
    BY <1>4, <1>8, <1>9, <2>1, <2>4 DEF LoadKnows, Loading
<1>10. CASE f # NameBasics
  <2>1. pc'[i] = "load" /\ NameBasics \in todo'[i]
    BY <1>3, <1>4, <1>10
  <2>2. \A g \in todo'[i] : staging'.rows[g] = {}
    BY <1>1, <1>3, <1>4, <1>7
  <2>3. kept'[i] = staging'.rows[TitleBasics]
    BY <1>3, <1>4, <1>7, StringsDiffer
  <2>4. credited'[i] = People(staging)'
    BY <1>3, <1>4, <1>7, NamesApart, StringsDiffer DEF People
  <2> QED
    BY <1>8, <2>1, <2>2, <2>3, <2>4 DEF LoadKnows, Loading
<1> QED
  BY <1>9, <1>10

\* Every other step of an attempt keeps what its load knows.
LEMMA StepResolves ==
    ASSUME Inductive, Inductive', NEW i \in Importers, LoadKnows(i),
           Step(i) \/ Fault(i) \/ Crash(i), pc'[i] # "idle"
    PROVE  LoadKnows(i)'
<1> USE DEF Goto, Took, Start
<1>1. /\ TypeOK
      /\ pc \in [Importers -> Steps] /\ todo \in [Importers -> SUBSET Files]
      /\ kept \in [Importers -> SUBSET Keys] /\ credited \in [Importers -> SUBSET Keys]
  BY DEF Inductive, TypeOK
<1>2. CASE OverFiles(i)
  <2>1. ASSUME NEW f \in Files, HeadFile(i, f) \/ Download(i, f) \/ HeadAgain(i, f)
        PROVE  LoadKnows(i)'
    <3>1. kept' = kept /\ credited' = credited /\ pc[i] \notin Loading /\ pc'[i] \notin Loading
      BY <2>1, <1>1 DEF HeadFile, Download, HeadAgain, Loading
    <3> QED
      BY <3>1 DEF LoadKnows, Loading
  <2>2. ASSUME NEW f \in Files, LoadFails(i, f) PROVE LoadKnows(i)'
    <3>1. pc'[i] = "discard"
      BY <2>2, <1>1 DEF LoadFails
    <3> QED
      BY <3>1 DEF LoadKnows, Loading
  <2> QED
    BY <1>2, <2>1, <2>2, LoadFileResolves DEF OverFiles
<1>3. CASE TakeLock(i) \/ ReadPublished(i) \/ Decide(i) \/ DropRetired(i) \/ Compare(i)
             \/ DropStaging(i)
  <2>1. kept' = kept /\ credited' = credited /\ pc[i] \notin Loading
    BY <1>3 DEF TakeLock, ReadPublished, Decide, DropRetired, Compare, DropStaging,
                locals, Loading
  <2>2. pc'[i] \notin {"load", "check", "publish"}
    BY <1>1, <1>3 DEF TakeLock, ReadPublished, Decide, DropRetired, Compare, DropStaging
  <2> QED
    BY <2>1, <2>2 DEF LoadKnows
<1>4. CASE CreateStaging(i)
  <2>1. CASE staging = NoSchema
    <3>1. /\ pc[i] = "create" /\ pc'[i] = "load" /\ todo'[i] = Files
          /\ staging' = EmptySchema /\ kept' = kept /\ credited' = credited
      BY <1>1, <1>4, <2>1 DEF CreateStaging
    <3>2. kept[i] = {} /\ credited[i] = {}
      BY <3>1 DEF LoadKnows, Loading
    <3>3. \A f \in Files : staging'.rows[f] = {}
      BY <3>1 DEF EmptySchema
    <3>4. People(staging)' = {} /\ CreditsResolve(staging)'
      BY <3>3, StringsDiffer DEF People, CreditsResolve
    <3> QED
      BY <3>1, <3>2, <3>3, <3>4, StringsDiffer DEF LoadKnows, Loading
  <2>2. CASE staging # NoSchema
    <3>1. pc'[i] = "discard"
      BY <1>1, <1>4, <2>2 DEF CreateStaging
    <3> QED
      BY <3>1 DEF LoadKnows, Loading
  <2> QED
    BY <2>1, <2>2
<1>5. CASE CheckLoad(i)
  <2>1. pc[i] = "check" /\ pc'[i] \in {"publish", "discard"} /\ staging' = staging
    BY <1>1, <1>5 DEF CheckLoad, schemas
  <2> QED
    BY <2>1 DEF LoadKnows, Loading, CreditsResolve, NamesResolve, People
<1>6. CASE Publish(i) \/ Refresh(i) \/ Discard(i) \/ Unlock(i)
  <2>1. pc'[i] \in {"refresh", "discard", "unlock", "idle"}
    BY <1>1, <1>6 DEF Publish, Refresh, Discard, Unlock
  <2> QED
    BY <2>1 DEF LoadKnows, Loading
<1>7. CASE Fault(i) \/ Crash(i)
  <2>1. pc'[i] \in {"discard", "unlock", "idle"}
    BY <1>1, <1>7 DEF Fault, Crash
  <2> QED
    BY <2>1 DEF LoadKnows, Loading
<1> QED
  BY <1>2, <1>3, <1>4, <1>5, <1>6, <1>7 DEF Step

\* A step of one importer leaves where the others are.
LEMMA OtherPcsStay ==
    ASSUME TypeOK, NEW j \in Importers, Step(j) \/ Fault(j) \/ Crash(j),
           NEW i \in Importers, i # j
    PROVE  pc'[i] = pc[i]
<1> USE DEF Goto, Took, Start
<1>1. pc \in [Importers -> Steps]
  BY DEF TypeOK
<1>2. CASE OverFiles(j)
  BY <1>1, <1>2 DEF OverFiles, HeadFile, Download, HeadAgain, LoadFile, LoadFails
<1>3. CASE TakeLock(j) \/ ReadPublished(j) \/ Decide(j) \/ DropRetired(j) \/ Compare(j)
  BY <1>1, <1>3 DEF TakeLock, ReadPublished, Decide, DropRetired, Compare
<1>4. CASE DropStaging(j) \/ CreateStaging(j) \/ CheckLoad(j) \/ Publish(j)
  BY <1>1, <1>4 DEF DropStaging, CreateStaging, CheckLoad, Publish
<1>5. CASE Refresh(j) \/ Discard(j) \/ Unlock(j) \/ Fault(j) \/ Crash(j)
  BY <1>1, <1>5 DEF Refresh, Discard, Unlock, Fault, Crash
<1> QED
  BY <1>2, <1>3, <1>4, <1>5 DEF Step

\* No step of anybody makes an attempt wrong about its load.
LEMMA LoadsStep ==
    ASSUME MaxDrops = 0
    PROVE  Inductive /\ Inductive' /\ LoadsResolve /\ [Next]_vars => LoadsResolve'
<1> SUFFICES ASSUME Inductive, Inductive', LoadsResolve, [Next]_vars,
                    NEW i \in Importers
             PROVE  LoadKnows(i)'
  BY DEF LoadsResolve
<1>1. LoadKnows(i)
  BY DEF LoadsResolve
<1>2. CASE pc'[i] = "idle"
  <2>1. kept'[i] = {} /\ credited'[i] = {}
    BY <1>2 DEF Inductive, TypeOK
  <2> QED
    BY <1>2, <2>1 DEF LoadKnows
<1>3. CASE pc'[i] # "idle"
  <2>1. ASSUME NEW j \in Importers, j # i, Step(j) \/ Fault(j) \/ Crash(j)
        PROVE  FALSE
    <3>1. pc'[i] = pc[i]
      BY <2>1, OtherPcsStay DEF Inductive
    <3>2. lock = i /\ pc[j] = "idle"
      BY <1>3, <2>1, <3>1 DEF Inductive, LockHeld
    <3>3. TakeLock(j)
      BY <2>1, <3>2 DEF Step, OverFiles, Fault, Asking, Holding, Crash, ReadPublished,
         HeadFile, Decide, DropRetired, Download, HeadAgain, Compare, DropStaging,
         CreateStaging, LoadFile, LoadFails, CheckLoad, Publish, Refresh, Discard, Unlock
    <3> QED
      BY <3>2, <3>3, ImporterAssumption DEF TakeLock
  <2>2. CASE (\E j \in Importers : SessionDrops(j)) \/ SessionReaped
               \/ (\E f \in Files : HostMoves(f)) \/ UNCHANGED vars
    <3>1. UNCHANGED <<staging, pc, todo, kept, credited>>
      BY <2>2 DEF SessionDrops, SessionReaped, HostMoves, vars, schemas, locals
    <3> QED
      BY <1>1, <3>1 DEF LoadKnows, CreditsResolve, NamesResolve, People
  <2> QED
    BY <1>1, <1>3, <2>1, <2>2, StepResolves DEF Next
<1> QED
  BY <1>2, <1>3

\* The tables of what is live agree with each other.
LEMMA LiveStep ==
    ASSUME Inductive, LoadsResolve, ReferencesResolve, [Next]_vars
    PROVE  ReferencesResolve'
<1>1. ASSUME NEW i \in Importers, Publish(i) PROVE ReferencesResolve'
  <2>1. LoadKnows(i) /\ AttemptKnows(i) /\ pc[i] = "publish"
    BY <1>1 DEF Inductive, LoadsResolve, Bracketed, Publish
  <2>2. live' = staging
    BY <1>1, <2>1 DEF Publish, AttemptKnows
  <2>3. CreditsResolve(staging) /\ NamesResolve(staging)
    BY <2>1 DEF LoadKnows
  <2> QED
    BY <2>2, <2>3 DEF ReferencesResolve, CreditsResolve, NamesResolve, People
<1>2. CASE live' = live
  BY <1>2 DEF ReferencesResolve
<1> QED
  BY <1>1, <1>2, OnlyPublishPublishes

\* The live catalog has credits and ratings only of films it holds, and of
\* the names file exactly the people it has a credit of, whatever the host,
\* the faults and the crashes do: the tables of one catalog are of one load.
THEOREM TablesAgree ==
    ASSUME MaxDrops = 0
    PROVE  Spec => []ReferencesResolve
<1>1. Init => LoadsResolve /\ ReferencesResolve
  BY DEF Init, Fresh, LoadsResolve, LoadKnows, ReferencesResolve
<1>2. Inductive /\ Inductive' /\ LoadsResolve /\ [Next]_vars => LoadsResolve'
  BY LoadsStep
<1>3. Inductive /\ LoadsResolve /\ ReferencesResolve /\ [Next]_vars => ReferencesResolve'
  BY LiveStep
<1> QED
  BY <1>1, <1>2, <1>3, InductiveAlways, PTL DEF Spec
=============================================================================

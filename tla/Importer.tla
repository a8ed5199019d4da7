------------------------------ MODULE Importer ------------------------------
(***************************************************************************)
(* One generation from the IMDb dataset host into the live catalog:        *)
(* Importer.RunOnce of internal/catalog/import.go and everything it calls  *)
(* in generation.go, download.go, load.go and store.go.                    *)
(*                                                                         *)
(* Any number of importers share one Postgres database.  Each attempt is   *)
(* meant to be held under an advisory lock on one pooled connection; the   *)
(* statements of the attempt run on the other connections of the pool.     *)
(* The dataset host replaces its five files one at a time, whenever it     *)
(* likes.                                                                  *)
(*                                                                         *)
(* Importers on one machine share the directory the files are fetched to.  *)
(*                                                                         *)
(* A file is abstracted to its Last-Modified stamp and to the keys of the  *)
(* rows it holds.  One key stands for a film, its credits, its rating and  *)
(* the people credited on it.  meta.last_check is a log nobody reads back  *)
(* and is left out.                                                        *)
(***************************************************************************)
EXTENDS Naturals, FiniteSets

CONSTANTS
    Importers,      \* the processes that run attempts
    Keys,           \* the films the files can mention
    MaxStamp,       \* bound: stamps are 1..MaxStamp
    Holds,          \* Holds[f][s]: the keys in file f as published at stamp s
    MaxFaults,      \* bound: statements and requests that fail
    MaxCrashes,     \* bound: processes that die mid-attempt
    MaxDrops,       \* bound: lock sessions that end under a running attempt
    Nobody,         \* the advisory lock is free
    Orphan,         \* it is held by the session of a process that died
    NoSchema        \* the schema of that name does not exist

-----------------------------------------------------------------------------
(* The files.                                                              *)

TitleBasics     == "title.basics"
NameBasics      == "name.basics"
TitlePrincipals == "title.principals"
TitleCrew       == "title.crew"
TitleRatings    == "title.ratings"

Files == {TitleBasics, NameBasics, TitlePrincipals, TitleCrew, TitleRatings}

\* The order the set is read and fetched in, and the order it is loaded in:
\* titles first for the allow-list, names last because only then is it known
\* who was credited.
FetchOrder == <<TitleBasics, NameBasics, TitlePrincipals, TitleCrew, TitleRatings>>
LoadNamesEarly == <<TitleBasics, TitlePrincipals, NameBasics, TitleCrew, TitleRatings>>  \* slip
LoadOrder  == <<TitleBasics, TitlePrincipals, TitleCrew, TitleRatings, NameBasics>>

\* f is the file a loop over `order` takes next when `todo` is left.
IsNext(f, order, todo) ==
    /\ f \in todo
    /\ \E n \in 1..5 :
         /\ order[n] = f
         /\ \A m \in 1..(n - 1) : order[m] \notin todo

Stamps == 1..MaxStamp

\* A Generation: 0 for a file that has no stamp in it.
Unread     == [f \in Files |-> 0]
Generation == [Files -> 0..MaxStamp]

ASSUME ImporterAssumption ==
    /\ MaxStamp \in Nat \ {0}
    /\ MaxFaults \in Nat /\ MaxCrashes \in Nat /\ MaxDrops \in Nat
    /\ Holds \in [Files -> [Stamps -> SUBSET Keys]]
    /\ Nobody \notin Importers /\ Orphan \notin Importers /\ Nobody # Orphan

\* Every file has to have moved past what was published.  A file the last
\* publish never recorded counts as moved, so an empty record is ready.
Ready(was, next) == \A f \in Files : was[f] = 0 \/ next[f] > was[f]

Same(a, b) == \A f \in Files : a[f] = b[f]

-----------------------------------------------------------------------------
(* A schema: the rows of each table, by the file they come from, and which *)
(* stamps of that file they were read out of (nothing in the database      *)
(* records the second; it is here for the properties).                     *)

Schema == [rows : [Files -> SUBSET Keys], from : [Files -> SUBSET Stamps]]

EmptySchema == [rows |-> [f \in Files |-> {}], from |-> [f \in Files |-> {}]]

ASSUME NoSchemaAssumption == NoSchema \notin Schema

\* The rows of f that survive the filters of keep.go: credits and ratings of
\* kept films, and people with a kept credit.
Kept(f, s, kept, credited) ==
    CASE f = TitleBasics -> Holds[f][s]
      [] f = NameBasics  -> Holds[f][s] \cap credited
      [] OTHER           -> Holds[f][s] \cap kept

\* A table with no rows refuses the load, and so does a share of credits
\* naming a stored film below MinIntegrity (99 in 100).
NoTableEmpty(schema) == \A f \in Files : schema.rows[f] # {}

Credits(schema) ==
    ({TitlePrincipals} \X schema.rows[TitlePrincipals])
        \cup ({TitleCrew} \X schema.rows[TitleCrew])

Integral(schema) ==
    LET named == {c \in Credits(schema) : c[2] \in schema.rows[TitleBasics]}
    IN  100 * Cardinality(named) >= 99 * Cardinality(Credits(schema))

Check(schema) == NoTableEmpty(schema) /\ Integral(schema)

-----------------------------------------------------------------------------
VARIABLES
    upstream,       \* the stamp the dataset host serves each file at
    live,           \* schema `catalog`
    staging,        \* schema `catalog_next`
    retired,        \* schema `catalog_old`
    recorded,       \* the stamps in meta.generation
    lock,           \* whose session holds importLockKey
    disk,           \* the stamp of each downloaded file, 0 when it is not there
    pc,             \* where each importer is in RunOnce
    todo,           \* the files the loop it is in has still to take
    published,      \* its reading of meta.generation
    opened,         \* its first reading of the set
    after,          \* its second reading of the set
    kept,           \* the allow-list of films its load has built
    credited,       \* the people its load has seen credited
    faults, crashes, drops      \* how often each has happened, bounded

schemas == <<live, staging, retired>>
locals  == <<todo, published, opened, after, kept, credited>>
bounds  == <<faults, crashes, drops>>
vars    == <<upstream, schemas, recorded, lock, disk, pc, locals, bounds>>

\* An empty database, and nobody at work.
Fresh ==
    /\ live = NoSchema /\ staging = NoSchema /\ retired = NoSchema
    /\ recorded = Unread
    /\ lock = Nobody
    /\ disk = Unread
    /\ pc = [i \in Importers |-> "idle"]
    /\ todo = [i \in Importers |-> {}]
    /\ published = [i \in Importers |-> Unread]
    /\ opened = [i \in Importers |-> Unread]
    /\ after = [i \in Importers |-> Unread]
    /\ kept = [i \in Importers |-> {}]
    /\ credited = [i \in Importers |-> {}]

Init ==
    /\ Fresh
    /\ upstream = [f \in Files |-> 1]
    /\ faults = 0 /\ crashes = 0 /\ drops = 0

-----------------------------------------------------------------------------
(* The steps of an attempt.                                                *)

Goto(i, step) == pc' = [pc EXCEPT ![i] = step]

\* A pass over the five files begins.
Start(i, step) == Goto(i, step) /\ todo' = [todo EXCEPT ![i] = Files]

\* It has taken f, and goes on to `next` when that was the last.
Took(i, f, next) ==
    /\ todo' = [todo EXCEPT ![i] = @ \ {f}]
    /\ Goto(i, IF todo[i] = {f} THEN next ELSE pc[i])

\* Slip: only its own lock stops it.
TakeLockAnyway(i) ==
    /\ pc[i] = "idle"
    /\ lock # i
    /\ lock' = i
    /\ Goto(i, "published")
    /\ UNCHANGED <<upstream, schemas, recorded, disk, locals, bounds>>

\* pg_try_advisory_lock.  An importer that does not get it returns without
\* having changed anything, which is a stutter.
TakeLock(i) ==
    /\ pc[i] = "idle"
    /\ lock = Nobody
    /\ lock' = i
    /\ Goto(i, "published")
    /\ UNCHANGED <<upstream, schemas, recorded, disk, locals, bounds>>

ReadPublished(i) ==
    /\ pc[i] = "published"
    /\ published' = [published EXCEPT ![i] = recorded]
    /\ Start(i, "head")
    /\ UNCHANGED <<upstream, schemas, recorded, lock, disk, opened, after,
                   kept, credited, bounds>>

HeadFile(i, f) ==
    /\ pc[i] = "head"
    /\ IsNext(f, FetchOrder, todo[i])
    /\ opened' = [opened EXCEPT ![i][f] = upstream[f]]
    /\ Took(i, f, "decide")
    /\ UNCHANGED <<upstream, schemas, recorded, lock, disk, published, after,
                   kept, credited, bounds>>

\* Slip: one file that has moved is enough.
DecideOnAny(i) ==
    /\ pc[i] = "decide"
    /\ Goto(i, IF \E f \in Files : opened[i][f] > published[i][f] THEN "retire" ELSE "unlock")
    /\ UNCHANGED <<upstream, schemas, recorded, lock, disk, locals, bounds>>

Decide(i) ==
    /\ pc[i] = "decide"
    /\ Goto(i, IF Ready(published[i], opened[i]) THEN "retire" ELSE "unlock")
    /\ UNCHANGED <<upstream, schemas, recorded, lock, disk, locals, bounds>>

DropRetired(i) ==
    /\ pc[i] = "retire"
    /\ retired' = NoSchema
    /\ Start(i, "download")
    /\ UNCHANGED <<upstream, live, staging, recorded, lock, disk, published,
                   opened, after, kept, credited, bounds>>

\* Slip: a file that is there already is not fetched again.
DownloadMissing(i, f) ==
    /\ pc[i] = "download"
    /\ IsNext(f, FetchOrder, todo[i])
    /\ disk' = [disk EXCEPT ![f] = IF @ = 0 THEN upstream[f] ELSE @]
    /\ IF todo[i] = {f} THEN Start(i, "again") ELSE Took(i, f, "again")
    /\ UNCHANGED <<upstream, schemas, recorded, lock, published, opened,
                   after, kept, credited, bounds>>

\* Fetched to a temporary name and moved over whatever was there.
Download(i, f) ==
    /\ pc[i] = "download"
    /\ IsNext(f, FetchOrder, todo[i])
    /\ disk' = [disk EXCEPT ![f] = upstream[f]]
    /\ IF todo[i] = {f} THEN Start(i, "again") ELSE Took(i, f, "again")
    /\ UNCHANGED <<upstream, schemas, recorded, lock, published, opened,
                   after, kept, credited, bounds>>

HeadAgain(i, f) ==
    /\ pc[i] = "again"
    /\ IsNext(f, FetchOrder, todo[i])
    /\ after' = [after EXCEPT ![i][f] = upstream[f]]
    /\ Took(i, f, "compare")
    /\ UNCHANGED <<upstream, schemas, recorded, lock, disk, published, opened,
                   kept, credited, bounds>>

\* Slip: what the second reading says is not looked at.
CompareNothing(i) ==
    /\ pc[i] = "compare"
    /\ Goto(i, "drop")
    /\ UNCHANGED <<upstream, schemas, recorded, lock, disk, locals, bounds>>

Compare(i) ==
    /\ pc[i] = "compare"
    /\ Goto(i, IF Same(opened[i], after[i]) THEN "drop" ELSE "discard")
    /\ UNCHANGED <<upstream, schemas, recorded, lock, disk, locals, bounds>>

\* ResetStaging is two statements on the pool.  The second is a batch whose
\* CREATE TABLEs fail when somebody else has already made the tables.
DropStaging(i) ==
    /\ pc[i] = "drop"
    /\ staging' = NoSchema
    /\ Goto(i, "create")
    /\ UNCHANGED <<upstream, live, retired, recorded, lock, disk, locals, bounds>>

CreateStaging(i) ==
    /\ pc[i] = "create"
    /\ IF staging = NoSchema
         THEN staging' = EmptySchema /\ Start(i, "load")
         ELSE Goto(i, "discard") /\ UNCHANGED <<staging, todo>>
    /\ UNCHANGED <<upstream, live, retired, recorded, lock, disk, published,
                   opened, after, kept, credited, bounds>>

\* One file into its table with COPY.  What it keeps is filtered by the
\* films and people the earlier files of the same load brought in.  The load
\* stops with an error when the file or the schema is gone, or when the table
\* already holds one of the keys.
CanLoad(i, f) ==
    /\ disk[f] # 0
    /\ staging # NoSchema
    /\ Kept(f, disk[f], kept[i], credited[i]) \cap staging.rows[f] = {}

LoadFile(i, f) ==
    LET rows == Kept(f, disk[f], kept[i], credited[i]) IN
    /\ pc[i] = "load"
    /\ IsNext(f, LoadOrder, todo[i])
    /\ CanLoad(i, f)
    /\ staging' = [staging EXCEPT !.rows[f] = @ \cup rows,
                                  !.from[f] = @ \cup {disk[f]}]
    /\ kept' = [kept EXCEPT ![i] = IF f = TitleBasics THEN rows ELSE @]
    /\ credited' = [credited EXCEPT ![i] =
                      IF f \in {TitlePrincipals, TitleCrew} THEN @ \cup rows ELSE @]
    /\ Took(i, f, "check")
    /\ UNCHANGED <<upstream, live, retired, recorded, lock, disk, published,
                   opened, after, bounds>>

LoadFails(i, f) ==
    /\ pc[i] = "load"
    /\ IsNext(f, LoadOrder, todo[i])
    /\ ~CanLoad(i, f)
    /\ Goto(i, "discard")
    /\ UNCHANGED <<upstream, schemas, recorded, lock, disk, locals, bounds>>

\* Slip: only the share of credits is checked.
CheckShare(i) ==
    /\ pc[i] = "check"
    /\ Goto(i, IF staging # NoSchema /\ Integral(staging) THEN "publish" ELSE "discard")
    /\ UNCHANGED <<upstream, schemas, recorded, lock, disk, locals, bounds>>

\* Finish, CountStaging and Check: nothing is written that the rows depend on.
CheckLoad(i) ==
    /\ pc[i] = "check"
    /\ Goto(i, IF staging # NoSchema /\ Check(staging) THEN "publish" ELSE "discard")
    /\ UNCHANGED <<upstream, schemas, recorded, lock, disk, locals, bounds>>

\* Slip: the renames are not one transaction, and the first has taken effect
\* when the second fails.
PublishInTwo(i) ==
    /\ pc[i] = "publish"
    /\ retired' = live
    /\ live' = staging
    /\ staging' = NoSchema
    /\ recorded' = IF staging = NoSchema THEN recorded ELSE opened[i]
    /\ Goto(i, "refresh")
    /\ UNCHANGED <<upstream, lock, disk, locals, bounds>>

\* Slip: the row describing the generation is left for after the renames.
PublishUnrecorded(i) ==
    /\ pc[i] = "publish"
    /\ retired' = live
    /\ live' = staging
    /\ staging' = NoSchema
    /\ Goto(i, "refresh")
    /\ UNCHANGED <<upstream, recorded, lock, disk, locals, bounds>>

\* One transaction: the old live schema steps aside, the load takes its
\* name, and the row describing it is written.  The second rename fails, and
\* takes the transaction with it, when there is no staging schema.
Publish(i) ==
    /\ pc[i] = "publish"
    /\ IF staging # NoSchema
         THEN /\ retired' = live
              /\ live' = staging
              /\ staging' = NoSchema
              /\ recorded' = opened[i]
              /\ Goto(i, "refresh")
         ELSE /\ Goto(i, "discard")
              /\ UNCHANGED <<schemas, recorded>>
    /\ UNCHANGED <<upstream, lock, disk, locals, bounds>>

\* refreshQueueVotes, the notification and the note of what was done.
Refresh(i) ==
    /\ pc[i] = "refresh"
    /\ Goto(i, "discard")
    /\ UNCHANGED <<upstream, schemas, recorded, lock, disk, locals, bounds>>

-----------------------------------------------------------------------------
(* Every way of stopping: the deferred calls, last one first.              *)

\* Deferred only once all five were fetched.
Discard(i) ==
    /\ pc[i] = "discard"
    /\ disk' = Unread
    /\ Goto(i, "unlock")
    /\ UNCHANGED <<upstream, schemas, recorded, lock, locals, bounds>>

\* Slip: the people of the last load are kept for the next.
ForgottenButCredits(i) ==
    /\ todo' = [todo EXCEPT ![i] = {}]
    /\ published' = [published EXCEPT ![i] = Unread]
    /\ opened' = [opened EXCEPT ![i] = Unread]
    /\ after' = [after EXCEPT ![i] = Unread]
    /\ kept' = [kept EXCEPT ![i] = {}]
    /\ UNCHANGED credited

Forgotten(i) ==
    /\ todo' = [todo EXCEPT ![i] = {}]
    /\ published' = [published EXCEPT ![i] = Unread]
    /\ opened' = [opened EXCEPT ![i] = Unread]
    /\ after' = [after EXCEPT ![i] = Unread]
    /\ kept' = [kept EXCEPT ![i] = {}]
    /\ credited' = [credited EXCEPT ![i] = {}]

\* Slip: the lock is left to the pool, whose connection lives on.
UnlockNothing(i) ==
    /\ pc[i] = "unlock"
    /\ Goto(i, "idle")
    /\ Forgotten(i)
    /\ UNCHANGED <<upstream, schemas, recorded, lock, disk, bounds>>

\* pg_advisory_unlock by the session that took the lock.  A session that is
\* gone has nothing to unlock and the error is ignored.
Unlock(i) ==
    /\ pc[i] = "unlock"
    /\ lock' = IF lock = i THEN Nobody ELSE lock
    /\ Goto(i, "idle")
    /\ Forgotten(i)
    /\ UNCHANGED <<upstream, schemas, recorded, disk, bounds>>

-----------------------------------------------------------------------------
(* What goes wrong around it.                                              *)

Asking == {"published", "head", "retire"}
Holding == {"again", "drop", "create", "load", "check", "publish", "refresh"}

\* A statement or a request returns an error.  A download that fails removes
\* what it had fetched; after it the deferred Discard does.
Fault(i) ==
    /\ faults < MaxFaults
    /\ faults' = faults + 1
    /\ \/ /\ pc[i] \in Asking
          /\ Goto(i, "unlock")
          /\ UNCHANGED disk
       \/ /\ pc[i] = "download"
          /\ disk' = [f \in Files |-> IF f \in todo[i] THEN disk[f] ELSE 0]
          /\ Goto(i, "unlock")
       \/ /\ pc[i] \in Holding
          /\ Goto(i, "discard")
          /\ UNCHANGED disk
    /\ UNCHANGED <<upstream, schemas, recorded, lock, locals, crashes, drops>>

\* The process dies and is started again.  Its files stay on disk, its
\* staging schema stays, and its lock stays until the server sees it go.
Crash(i) ==
    /\ crashes < MaxCrashes
    /\ crashes' = crashes + 1
    /\ pc[i] # "idle"
    /\ lock' = IF lock = i THEN Orphan ELSE lock
    /\ Goto(i, "idle")
    /\ Forgotten(i)
    /\ UNCHANGED <<upstream, schemas, recorded, disk, faults, drops>>

SessionReaped ==
    /\ lock = Orphan
    /\ lock' = Nobody
    /\ UNCHANGED <<upstream, schemas, recorded, disk, pc, locals, bounds>>

\* The server ends the session the lock was taken on while the attempt
\* carries on over the other connections.
SessionDrops(i) ==
    /\ drops < MaxDrops
    /\ drops' = drops + 1
    /\ lock = i
    /\ lock' = Nobody
    /\ UNCHANGED <<upstream, schemas, recorded, disk, pc, locals, faults, crashes>>

\* The host replaces one file.  It finishes a round before it starts the next.
HostMoves(f) ==
    /\ upstream[f] < MaxStamp
    /\ \A g \in Files : upstream[g] >= upstream[f]
    /\ upstream' = [upstream EXCEPT ![f] = @ + 1]
    /\ UNCHANGED <<schemas, recorded, lock, disk, pc, locals, bounds>>

-----------------------------------------------------------------------------
OverFiles(i) ==
    \E f \in Files :
        HeadFile(i, f) \/ Download(i, f) \/ HeadAgain(i, f)
            \/ LoadFile(i, f) \/ LoadFails(i, f)

Step(i) ==
    \/ TakeLock(i) \/ ReadPublished(i) \/ Decide(i) \/ DropRetired(i)
    \/ OverFiles(i)
    \/ Compare(i) \/ DropStaging(i) \/ CreateStaging(i) \/ CheckLoad(i)
    \/ Publish(i) \/ Refresh(i) \/ Discard(i) \/ Unlock(i)

Next ==
    \/ \E i \in Importers : Step(i) \/ Fault(i) \/ Crash(i) \/ SessionDrops(i)
    \/ SessionReaped
    \/ \E f \in Files : HostMoves(f)

Spec == Init /\ [][Next]_vars

\* The hourly ticker and the Go scheduler keep an attempt moving, and the
\* server ends the session of a dead client.  Nobody owes us a fault, a
\* crash or a new file.
Fairness ==
    /\ \A i \in Importers : WF_vars(Step(i))
    /\ WF_vars(SessionReaped)

FairSpec == Spec /\ Fairness
-----------------------------------------------------------------------------
(* What must hold.                                                         *)

Steps == {"idle", "published", "head", "decide", "retire", "download", "again",
          "compare", "drop", "create", "load", "check", "publish", "refresh",
          "discard", "unlock"}

\* The steps at which an attempt holds a whole set of files it fetched.
Fetched == {"again", "compare", "drop", "create", "load", "check", "publish"}

\* ... and at which both readings of the set have agreed about them.
Verified == {"drop", "create", "load", "check", "publish"}

\* The steps at which its decision to import still has to be the right one.
Decided == Fetched \cup {"retire", "download"}

\* Every variable keeps the values the code can give it, and an attempt that
\* is over leaves nothing for the next one to start from.
TypeOK ==
    /\ upstream \in [Files -> Stamps]
    /\ live \in Schema \cup {NoSchema}
    /\ staging \in Schema \cup {NoSchema}
    /\ retired \in Schema \cup {NoSchema}
    /\ recorded \in Generation
    /\ lock \in Importers \cup {Nobody, Orphan}
    /\ disk \in Generation
    /\ pc \in [Importers -> Steps]
    /\ todo \in [Importers -> SUBSET Files]
    /\ published \in [Importers -> Generation]
    /\ opened \in [Importers -> Generation]
    /\ after \in [Importers -> Generation]
    /\ kept \in [Importers -> SUBSET Keys]
    /\ credited \in [Importers -> SUBSET Keys]
    /\ faults \in 0..MaxFaults /\ crashes \in 0..MaxCrashes /\ drops \in 0..MaxDrops
    /\ \A i \in Importers :
         pc[i] = "idle" => todo[i] = {} /\ kept[i] = {} /\ credited[i] = {}

\* "Two importers must not run: they would write the same staging schema"
\* (import.go:13): at most one attempt is past the lock at a time, whatever
\* has crashed before it.
OneAtATime ==
    \A i, j \in Importers : pc[i] # "idle" /\ pc[j] # "idle" => i = j

\* The rows every table of the live catalog holds came out of exactly the
\* file whose stamp meta.generation gives for it.  It is what Ready compares
\* the next generation with, so a stamp that is not the data's own would
\* hide a generation or import one twice.  The stamp is read before the file
\* is fetched; the second reading is what ties the two together.
RecordedIsLive ==
    IF live = NoSchema
      THEN recorded = Unread
      ELSE \A f \in Files : live.from[f] = {recorded[f]}

\* No table of the live catalog is empty ("Check rejects a load that is
\* empty ... before anything is published", store.go:196).
LiveWhole == live # NoSchema => NoTableEmpty(live)

\* The reading of meta.generation an attempt decided on at its start is still
\* what is recorded when it publishes, half an hour later.
DecisionNotStale ==
    \A i \in Importers :
        pc[i] \in Decided => published[i] = recorded /\ Ready(recorded, opened[i])

\* What an attempt knows at each of its steps.  A file it has fetched is no
\* older than its first reading and no newer than its second, so when the two
\* readings are the same every file is the one whose stamp was read; and what
\* is in staging came out of those files alone.
AttemptKnows(i) ==
    /\ pc[i] \in Decided \cup {"head", "decide"} => published[i] = recorded
    /\ pc[i] = "head" => \A f \in Files \ todo[i] : opened[i][f] \in 1..upstream[f]
    /\ pc[i] \in Decided \cup {"decide"} =>
         \A f \in Files : opened[i][f] \in 1..upstream[f]
    /\ pc[i] \in Decided => Ready(published[i], opened[i])
    /\ pc[i] = "download" =>
         \A f \in Files \ todo[i] : disk[f] \in opened[i][f]..upstream[f]
    /\ pc[i] \in Fetched => \A f \in Files : disk[f] \in opened[i][f]..upstream[f]
    /\ pc[i] = "again" =>
         \A f \in Files \ todo[i] : after[i][f] \in disk[f]..upstream[f]
    /\ pc[i] = "compare" => \A f \in Files : after[i][f] \in disk[f]..upstream[f]
    /\ pc[i] \in Verified => \A f \in Files : disk[f] = opened[i][f]
    /\ pc[i] \in {"load", "check", "publish"} => staging # NoSchema
    /\ pc[i] = "load" =>
         \A f \in Files : staging.from[f] = IF f \in todo[i] THEN {} ELSE {disk[f]}
    /\ pc[i] \in {"check", "publish"} =>
         \A f \in Files : staging.from[f] = {disk[f]}
    /\ pc[i] = "publish" => NoTableEmpty(staging)

Bracketed == \A i \in Importers : AttemptKnows(i)

\* The tables of the live catalog agree with each other: credits and ratings
\* only of films it holds, and of the people in the names file exactly those
\* it has a credit of.  This is what the order of the load is for.
ReferencesResolve ==
    live # NoSchema =>
        LET people == live.rows[TitlePrincipals] \cup live.rows[TitleCrew]
        IN  /\ people \cup live.rows[TitleRatings] \subseteq live.rows[TitleBasics]
            /\ \A s \in live.from[NameBasics] :
                 live.rows[NameBasics] = Holds[NameBasics][s] \cap people

\* Once there is a catalog there is always one: a swap that cannot finish
\* does not take the old schema away first.
NeverUnserved == [][live # NoSchema => live' # NoSchema]_vars

\* Seen from the readers, an import is the one step of CatalogSwap.
StampOf(from) == IF from = {} THEN 0 ELSE CHOOSE s \in from : \A t \in from : t <= s

Swapped == INSTANCE CatalogSwap WITH
    Datasets <- Files, LastStamp <- MaxStamp, described <- recorded,
    serving <- IF live = NoSchema THEN Unread ELSE [f \in Files |-> StampOf(live.from[f])]

PublishIsOneSwap == Swapped!SwapSpec

\* A set of files all of which are newer than what is published does not stay
\* unpublished for ever.
NewSetIsPublished == []<>~Ready(recorded, upstream)

\* "A real mismatch - principals from one generation, titles from another -
\* shows up as a number nowhere near this" (store.go:192): what passes Check
\* has 99 in 100 of the credits its files hold naming a film its files hold.
MismatchIsRefused ==
    \A i \in Importers : pc[i] = "publish" /\ lock = i =>
        LET read == [staging EXCEPT !.rows = [f \in Files |->
                       UNION {Holds[f][s] : s \in staging.from[f]}]]
        IN  Integral(read)
=============================================================================

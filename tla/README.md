# cinedikt in TLA+

cinedikt draws a map of films around one film. Its catalog is rebuilt every day
from IMDb's five dataset files, its pictures are looked up one title at a time
from OMDb and TMDb, and all of it lives in one Postgres database that several
processes share. An older way to the same map crawls TMDb on demand into a Neo4j
graph. This directory specifies how those processes, and the goroutines in them,
stay out of each other's way, checks the specification with TLC, and proves the
parts that matter most with TLAPS.

Paths below are relative to the repository; `catalog/` is `internal/catalog/`.

## 1. The system

| Part | State it keeps | Operations | Talks to |
|---|---|---|---|
| Importer (`catalog/import.go`, `generation.go`, `download.go`, `load.go`, `keep.go`, `store.go`) | schemas `catalog`, `catalog_next`, `catalog_old`; `meta.generation`; an advisory lock; five files on disk | `RunOnce`: lock, read the stamps, decide, fetch, read them again, load, check, publish | the dataset host, Postgres |
| Poster rows (`posters.go`, `tmdbposters.go`, `wants.go`, `colourjob.go`, `posterprobe.go`, `api/posterstandin.go`) | `meta.posters`, one row per film; what each job holds between its read and its write | backfill, fallback, stand-in, probe, marks of readers, colours, upkeep after a publish | OMDb, TMDb, image hosts, the live schema |
| Lease and loops (`lease.go`, `runner.go`) | an advisory lock on one connection; three wake channels of depth one | `HoldLease`, `listen`, `notify`, `waitFor`, the fill loops | Postgres LISTEN/NOTIFY |
| TMDb ids (`tmdbids.go`) | `meta.tmdb` and its queue | match a title, remember the answer | TMDb |
| Runner upkeep (`runner.go`, `note.go`, `progress.go`) | whether the stale alert is out | the hourly attempt, alerts, progress lines | notify |
| Catalog reads (`read.go`, `search.go`) | nothing | grid, search, first run | the live schema, the probe |
| OMDb and TMDb clients (`internal/omdb`, `internal/tmdb`) | limiter, the pause after a spent quota, a cache | one request with its retries | the services, Redis |
| Crawler (`internal/crawl`, `internal/seen`) | sets of films and people seen, expansions in flight | expand a film, expand people, write ratings | TMDb, OMDb, Neo4j |
| Graph store (`internal/graph`) | the Neo4j graph | writes, expansion queries, the grid | Neo4j |
| API server (`internal/api`) | the crawl gate, the warmer's queue, seed flights, the first-run cache | one handler per endpoint | the crawler, the graph, the catalog |
| Telegram board (`internal/telegram`) | the board's lines, whether they are dirty, the message's id | `Note`, `deliver`, `flushBoard` | Telegram |
| Web client (`web/src`) | the map cache, the trail, the screen | load a map, hop, go back | the API |
| Share images, configuration, commands, deployment | – | – | – |

The parts meet in three places. The **importer** publishes a generation, after
which the **rows** are brought up to date (`refreshQueueVotes`,
`ForgetUnknownPosters`) and a notification goes out. The **lease** decides in
which process the jobs that write the rows run, and turns the notification into
wakes. The **readers**, in any process, read the live schema and the rows, and
write marks the jobs' queues are ordered by.

What is hard in each:

* *Importer*: a half-hour attempt that decides on what it read at the start;
  files replaced by the host one at a time while they are fetched; a swap that
  has to be one step; crashes that leave a schema, files and a lock behind; a
  lock on one connection and work on others.
* *Poster rows*: seven writers with no lock between reading a row and writing
  it; queues chosen by what the others wrote; failures that must be tried again
  and answers that must not.
* *Lease and loops*: handover at a deploy; wakes that come while a loop is busy;
  notifications nobody hears.
* *Crawler, API*: flights shared under their first caller's context; memories that
  claim a node before it is written, and fetch a person before they claim them; a gate
  and a bounded queue used by concurrent requests; all of it in a memory that a restart
  empties while the graph stays.
* *Catalog reads, share images*: answers and addresses put together from several
  statements, with the data changing between any two.
* *TMDb ids, board, marks, probe*: what arrives while a call is out, what is lost when
  it fails, and what a stop leaves in hand.

`PROJECT.json` lists each hazard at its line with the properties that cover it,
or why none does yet.

## 2. Modules

| Module | What it is |
|---|---|
| `CatalogSwap` | What the importer promises the readers: data and description change together, in one step, only to newer files. |
| `Importer` | `RunOnce` and all it calls, for any number of importers. |
| `MCImporter` | Its instances for TLC: the file contents, and the initial states of the liveness run. |
| `ImporterProofs` | Theorems about `Importer`: the lock, the record and the swap; the rows. |
| `Posters` | One row of `meta.posters` per film and everybody who writes it. |
| `MCPosters` | Its instances: how films and votes go from generation to generation. |
| `PostersProofs` | Theorems about `Posters`. |
| `Lease` | `HoldLease`, the listener and the fill loops. |
| `MCLease` | Its instances: the loops that are run together. |
| `LeaseProofs` | Theorems about `Lease`. |
| `Crawl` | The graph path: requests, crawls on demand, cast-finishers, the gate and the warmer, over one graph. |
| `MCCrawl` | Its instances: two films that lead to each other. |
| `CrawlProofs` | Theorems about `Crawl`: writers, memories, what is read; the gate and the warmer. |
| `Maps` | Search, a map and its details, statement by statement, across publishes. |
| `ShareCards` | The picture of a shared link: address, version, table, year-long caches. |
| `Board` | The Telegram sink: new messages, and the standing one rewritten in place. |
| `TMDbIds` | A pass of the id matcher, with the other jobs that record ids. |
| `WantedMarks` | The buffer of readers' marks, its batches and its stop. |
| `Pictures` | The cold screen's probe and what it remembers of an address. |
| `ServedProofs` | Theorems about what is served: `Maps` and `ShareCards`. |
| `BoardProofs`, `TMDbIdsProofs` | Theorems about `Board` and `TMDbIds`. |
| `ProbeProofs` | Theorems about what readers tell the jobs: `WantedMarks` and `Pictures`. |
| `MCParts` | Their instance for TLC: the six modules side by side, one of which runs. |

Some operators are marked **Slip**. They are
deliberately wrong variants of the operator that follows them – a dropped guard,
a missing reset, the wrong order – and no specification uses them. For each
property, `PROJECT.json` ("mutants") names the slip that breaks it: putting the
slip in the place of the right operator makes TLC find a violation, which is
how we know that the property says something about the code.

### Importer

One action per statement whose position matters. `pc[i]` is the line of
`RunOnce` importer `i` is at; `todo[i]` the files the loop it is in has left.

| Action | Code |
|---|---|
| `TakeLock` | `pg_try_advisory_lock`; not getting it returns at once, a stutter |
| `ReadPublished`, `HeadFile`, `Decide` | `Store.Published`, `Head` file by file, `Ready` |
| `DropRetired`, `Download`, `HeadAgain`, `Compare` | the same names in the code; `Same` |
| `DropStaging`, `CreateStaging` | the two statements of `ResetStaging`, which are no transaction |
| `LoadFile`, `LoadFails` | one `COPY` each, titles first and names last, with the filters of `keep.go` |
| `CheckLoad` | `Finish`, `CountStaging`, `Check` |
| `Publish`, `Refresh` | the transaction; then votes, notification and note, whose effect on the rows is in `Posters` |
| `Discard`, `Unlock` | the deferred calls, in the order they run |
| `Fault`, `Crash`, `SessionReaped`, `SessionDrops` | an error return; a dead process and its session; the lock's session ended while its client goes on |
| `HostMoves` | the host replaces one file (external) |

A file is its stamp and the set of films it has rows for; one key stands for the
film, its credits, its rating and its people, so the tables can disagree only in
which films they are about. The schema records which stamps a table was read
from, which the database does not; that is what the properties talk about.
`Last-Modified` is compared for order only, so a small number is faithful to it.

### Posters

A row is the columns the queries choose by. `fetched_at` is compared only with
the start of the pass, so it is the set `touched` of rows written since then.
Each job is its state between two statements: the backfill's `asking` and
`answers`, the fallback's `page`, `tried` and `got`, the stand-in's answer, the
probe's and the readers' marks, the colour being averaged. `failed` and
`settled` are kept by no code: they record what the two parts of `AskedOnce` are
about. `upkeep` is what a publish still owes the rows.

A timeout is treated the way the code treats it: the backfill drops the answer
(`LookupTimesOut`), the fallback ends its pass (`FallbackStops`).

### Lease

`lease` is whose connection holds `LeaseKey`. `at[r]` is where process `r` is in
`HoldLease`. `heard`, `pending` and `wake` are one holding's LISTENs, unread
notifications and channels, and are dropped with it. A loop is in a pass, done
with its last look (`"done"`: what follows is a report), or waiting. What a pass
does is in `Posters`; here there is only `owed`, the loops with work their last
look did not see. `excused` (kept by no code) are those the comment on `waitFor`
leaves to the backstop: a pass failed, or a notification was sent while nobody
was listening.

### Crawl

| Action | Code |
|---|---|
| `Ask`, `LookAgain`, `Poll`, `Leave`, `RequestFails`, `Answer` | the routes of `api/server.go` and `api/grid.go`: `ensureSeeded`, `ensureGridSeeded`, `waitReady`, `fail` |
| `TakeSlot`, `TurnedAway`, `SeedTimesOut` | `beginSeed` under `crawlGate.acquire` and `SeedTimeout` |
| `Claim`, `MovieFetched`, `WriteCast`, `WriteDirectors`, `MovieFails` | `processMovie`; `WriteMovieCast` is two statements, each committed by itself |
| `StartCast`, `RestOfCast`, `FinishCrawl` | `expandMovie`: the first wave, the rest, the end |
| `StartItem`, `StopStarting`, `PersonFetched`, `PersonLost`, `WriteCredits`, `CreditsFail` | `fanOut`, `processPerson`, `writeFilmography` |
| `FinishCast`, `FinishTimesOut` | `finishCast`, `ExpandPeople`, outside the gate |
| `OfferNext`, `Receive`, `TryTake`, `Requeue`, `Check`, `WarmTimesOut` | `nextHop` and `warmer.go` |
| `Forget`, `Restart` | `seen.Set.evict`; a process that ends |

A film's expansion is named by its film, since a singleflight lets only one run, and a
cast-finisher by its reader; `task` says how far each has come with each person. `late`
is the expansions whose leader's deadline has passed: they start nobody else, and what is
out may fail. A failed statement may have taken effect. A film is what the code asks the
graph about it: `crawled`, which the first statement sets, and `directed`, which the second
adds. A person's filmography is `"none"`, `"acted"` or `"whole"`, two statements again. Left
out are the ratings an expansion also asks OMDb for, which nothing waits for but the
expansion itself, and the crawls deeper than one film that only the batch command makes.

### The six parts

* `Maps` has one step per statement. `spine[f]` is the set of places in the chip row that card `f` is
  credited to; `since` (kept by no code) is the generation a request began under while that is
  still live. Titles, votes and names are constants per generation; how a query matches is not
  modelled, so a query is the films it matches.
* `ShareCards` is about one film. It has a face, its title with its poster, and a year; all three
  are read and drawn, and any of them may change. A version is named after the face, which is all
  that `OGVersion` hashes (and is taken to tell apart): two pictures of one version may differ in
  the year. `kept` is what a browser or an unfurler keeps for a year under an address, with the film
  as it was then; `steady` (kept by no code) says that the film stood still since the page was read.
* `Board`'s texts are numbers of notes. Its clock is kept as ages: how many ticks ago, up to the
  interval. The lock is held for a step and no longer, so notes come between any two.
* `TMDbIds` has one step per statement of a pass; `RecordElsewhere` and `UnqueueElsewhere` are the
  fallback's and the stand-in's two. A `Mishap` is a call or a statement that fails, `Abandon` a
  pass or a process that ends.
* `WantedMarks` numbers the marks. A read's look at `stop` and its send are two steps.
* `Pictures` has one address per film and ages for times. `Hear` is the host: a hit, a miss (which an
  edge may replay for a picture that is there) or silence.

## 3. Runs

| Run | Instance and bounds | What it shows |
|---|---|---|
| `import_safety` | 2 importers (symmetric), 3 films, 2 stamps per file, 1 crash, ratings that share no film with the old titles | the eight safety properties below |
| `import_troubled` | 2 importers, 3 films; either the host has settled and a fault, a crash and a lost session are to come, or the host moves and they have been | `NeverUnserved`, `NewSetIsPublished` under fairness |
| `import_lock_lost` | 2 importers, 1 lost session | **violation** of `LiveWhole` |
| `import_mismatch` | 1 importer, 2 stamps | **violation** of `MismatchIsRefused` |
| `posters` | 1 failure, 2 readers' acts, 1 dead address; either 1 film through 4 generations (plain, adult, withdrawn, back), or 2 films, 2 generations that swap their votes, batches of 1 | `AskedOnce`, `DeadIsQueued`, `QueueVotesCurrent`, `EveryFilmAnswered`, `QueueDrains` |
| `posters_picture_lost` | 1 film, 1 failure | **violation** of `PictureKept` |
| `lease` | 2 processes, 2 loops, 1 piece of news, 1 trouble | `OnlyTheHolderWorks`, `NoWakeLost`, `AlwaysARunner`, `WorkIsSeen` |
| `lease_shared_wake` | 1 process, the 2 loops that share a channel | **violation** of `EveryLoopIsTold` |
| `crawl` | 2 films, 2 people, 1 reader whose finisher may outlive it, 1 warming worker, 1 slot, a queue of 1, 1 fault | the eight properties of `Crawl` below |
| `crawl_directors_lost` | as `crawl` | **violation** of `OpenedFilmsFinish` |
| `parts` | the six parts, one at a time; their bounds are in `MCParts.cfg` | the eleven properties below |
| `cards_year` | `ShareCards` alone, 2 faces, 2 years, 2 changes | **violation** of `KeptShowsTheFilm` |

Each passing run checks the module's type invariant too; those also say that
nothing of an attempt, or of a holding of the lease, is left for the next.

### What the properties say

* `OneAtATime` – "Two importers must not run": at most one attempt past the lock.
* `RecordedIsLive` – the row in `meta.generation` gives the stamps of the very
  bytes the live tables were loaded from. The stamp is read *before* the file is
  fetched, and only the second reading ties the two together.
* `LiveWhole`, `ReferencesResolve` – no live table is empty; credits and ratings
  are of films that are there, people exactly those credited.
* `DecisionNotStale` – what `Ready` compared with is still recorded at the swap.
* `Bracketed` – what an attempt knows at each step about its files; the middle of
  the proof below.
* `PublishIsOneSwap` – `Importer` implements `CatalogSwap`, where `serving` is read
  off the live tables and `described` is `meta.generation`.
* `NeverUnserved` – once there is a catalog there always is one.
* `NewSetIsPublished` – a set newer than the published one does not stay so for ever.
* `AskedOnce` – the backfill never asks again about a film whose answer is written
  (`NeverAgain`), nor in the same pass about one whose failure is written (`OncePerPass`), whoever
  writes the row meanwhile, until the film itself is withdrawn. A lookup that times out writes
  nothing, and is outside it.
* `DeadIsQueued` – a picture found gone stays in the fallback's queue until asked.
* `QueueVotesCurrent` – from the refresh on, every unasked row of a live film has
  the live vote count, lookups that straddle the publish included.
* `EveryFilmAnswered`, `QueueDrains` – both queues are worked off.
* `OnlyTheHolderWorks` – a process with a loop running holds the lease, or its
  connection was cut and it has still to notice.
* `NoWakeLost` – a loop that is done or asleep with news to see has a wake, an unread
  notification or an unsent signal coming, if it has its channel to itself.
* `AlwaysARunner`, `WorkIsSeen` – somebody runs the jobs again and again; no loop
  keeps unseen work for ever.
* `SeenIsWritten` – what the crawler remembers is in the graph in full or being written, so
  whoever finds it remembered and moves on leaves no hole.
* `OneWriterPerPerson` – a person may be fetched twice at once, but is written by one.
* `CrawlsHoldSlots` – the gate counts what it says, and every living expansion is led by
  somebody who holds a slot for that film.
* `ReadsAreOfWritten` – a request reads only a film whose own cast is written.
* `QueuedIsHeld` – a film the warmer remembers is queued, with a worker or crawled.
* `WaitingEnds` – no request waits for ever, whoever leads the crawl it joined.
* `LinkedAreLookedUp` – a film whose grid is opened again and again comes to have everyone the graph
  links to it looked up, where TMDb thinks them popular. `OpenedFilmsFinish` says the same of everyone
  credited, directors that were never linked included, and the code does not keep it.
* `MapHolds` – every card has somebody on the chip row, whatever was published between;
  the details agree with the map, and the film is on it, while one generation stays live.
* `OfferedFilmsOpen` – what a search offers opens, unless the dataset names nobody on it:
  the map joins `names` and the search does not.
* `VersionsHold` – a card in the table has the title and the poster its version says, and what is
  kept under an address a page named has those of that page, or is the generic card when the film
  could not be read. It says nothing of the year, and could not: `KeptShowsTheFilm`, which
  does, is violated.
* `NewsOnceInOrder`, `EditsAreSpaced`, `BoardCatchesUp` – a change of state is tried once and in
  order; without news the standing message is rewritten an interval apart; while no call
  fails, the last lines come to stand in the chat.
* `MatchesAreTrue`, `TitlesAreMatched` – a recorded id is TMDb's and belongs to one title; every
  live title comes to be recorded (`TitlesGetMatched` of `TMDbIds`, in the part of the run that is about it).
* `MarksSurviveStop` – what the buffer took before the stop is tried before the store closes.
* `GoneIsTwoMisses`, `GoneIsWrittenOff` – a picture is written off after two misses a window
  apart, and in the end it is. The first is counted from the first miss ever: a hit or a restart
  between the two is not excluded.

### What the violations show

These are disagreements between the code and what its own comments say.

1. `import_lock_lost`: the lock is on one idle connection, the attempt on others.
   If the server ends that session, a second attempt resets the staging schema
   after the first one's `Check`, and the first publishes empty tables.
2. `import_mismatch`: the integrity share is taken after the loads have dropped
   every credit of an unknown film, so it is 1 whatever the files are; and a set
   read while the host is part way through its round is imported as a mixture.
3. `posters_picture_lost`: `writePosters` writes `poster_url` whatever is there. A row
   left `missing` by a failed lookup is in both queues; OMDb's empty answer can land
   on top of TMDb's picture, and `tmdb_at` keeps it from being asked for again.
4. `lease_shared_wake`: the poster loop and the id matcher receive from one channel of
   depth one; a publish wakes one of them.
5. `crawl_directors_lost`: `WriteMovieCast` sets `directors_crawled` in its first statement and
   links the directors in its second. A failure between the two leaves a film that counts as
   crawled without them: no later request expands it, and `finishCast` knows only who is linked.
6. `cards_year`: the card draws the year, the version hashes title and poster. A generation
   that corrects `start_year` alone leaves the old card in the table under the address every page
   goes on naming, to be kept for another year.

### Seen while modelling, and allowed for by the properties

* A lookup's own timeout is `context.DeadlineExceeded`, which `posters.go:147` takes for the pass
  being stopped. The row is not marked and the same pass claims the title again, against
  `posters.go:83-85`: "this run must not pick it straight back up". `OncePerPass` is therefore about
  failures that were written; with the titles that timed out added to `failed` it does not hold.
* That a credited person must be expanded whatever their popularity (`crawler.go:57-61`) is known
  only to `mustExpand`, in memory. If the process ends after a film is written and before its people
  are, the next one finds the film crawled and never expands it; `finishCast` fetches who is
  missing, scores them, and drops the unpopular every time. `LinkedAreLookedUp` holds in `crawl`,
  where both people are popular, and fails when the director is not.
* With no failure at all a request that polls between the two statements of `WriteMovieCast` is
  answered before the directors are linked, though `server.go:284-285` says of the write of cast and
  directors that a request "returns as soon as that write is visible", and `query.go:16` calls
  `MovieCrawled` a report on both. `ReadsAreOfWritten` speaks of the cast only.
* A search asks that somebody is credited on a film (`search.go:68`), the map that somebody credited
  has a name (`read.go:84-90`). A film nobody named is credited on is offered, though a hit is
  "already known to be a movie this catalog can build a map from" (`search.go:12-13`), and does
  not open. `OfferedFilmsOpen` leaves it out.
* `boardEvery` "is the most often the standing message is rewritten" (`telegram.go:28`), for progress
  only: each piece of news rewrites it at once (`telegram.go:176`). `EditsAreSpaced` says "with no news".
* A share card whose film could not be read is answered with the generic one and a year in
  caches (`og.go:383`); a failed rewrite of the standing message is not tried again before the next
  note (`telegram.go:246`); two visits that confirm a missing picture at once can undo each
  other's verdict (`posterprobe.go:106`).

### Why the bounds are enough

* *Two importers, two processes*: every conflict is between one that holds a lock and
  one that does not; a third only repeats the second.
* *Two stamps*: one published and one newer set, and every mixture of the two. One film
  that leaves, one that stays and one that comes make every filter drop and keep
  something.
* *One film or two in `posters`*: rows do not touch each other except through the order
  of the queues, which the second story of the run has two films and batches of one for.
  Four generations take a film through every relation to the catalog, back included. One
  failure leaves a row `missing`; one dead address is all a film can meet before it is
  repaired. The safety properties are proved for any number of each.
* *One trouble in `lease`*: with two, the fairness graph is out of reach. The safety part
  of it is proved for any number.

* *Two films, two people, one of everything else in `crawl`*: an expansion, a finisher left by an
  earlier request, a crawl on demand and a warming worker are the four kinds of actor, and
  one slot and a queue of one are full as soon as one is used. One fault is a failed call, a
  passed deadline, an eviction or a restart at any moment; the graph is what it leaves behind,
  and everything after it runs without faults. A second fault meets the same code with
  another graph, one of those the first can leave.
* *`parts`*: each part has the second actor that the property is about: a publish between any two
  statements of a map and a film given to other people; two unfurlers, two faces and a change
  back; two jobs and three notes with one call out; an id two titles resolve to, a pass with
  batches of one and two mishaps; two reads around a stop with a buffer of two; two visits at
  one address and a window of two ticks. The machines share no variable and no step, and
  `part` is chosen once, so one run checks each as if it were alone.

The bounds `MaxFaults`, `MaxCrashes`, `MaxDrops`, `MaxReads`, `MaxDeaths`, `MaxNews`,
`MaxTroubles`, `MaxNotes`, `MaxBotches`, `MaxChanges`, `MaxMarks`, `MaxLost`, `MaxBroken`,
`MaxMishaps`, `MaxSpent`, `MostBlank`, `Fragile`, `LastGen` and `MaxStamp` only limit how often
the environment acts; no limit is put on the code's own steps.

`CHECK_DEADLOCK FALSE` in the poster runs: with every film answered and every bound used
up nothing is left to do. So it is in `parts`, where a store that has closed and a chat
whose notes are used up stop, and in the crawl runs, where nobody has to ask. The importer
and the lease never stop.

### Fairness

* `Importer`: weak fairness of each importer's step (the hourly ticker starts attempts,
  the Go scheduler and the timeouts of the clients carry them on) and of the server
  ending a dead client's session. None for the host, faults, crashes or lost sessions.
  An importer that does not get the lock returns, so taking it is one of its steps;
  weak fairness is enough because the holder always gives it back.
* `Posters`: weak fairness of the backfill, the fallback, the pending marks and the
  upkeep: each loop runs its passes one after another with a rest between them. None
  for readers, new generations or deaths of addresses, nor for the colour job.
  Of a lookup fairness promises only that it comes back, with any answer; failures
  are bounded, which is what makes the two liveness properties hold.
* `Lease`: weak fairness of each process's asking for the lease, of its stopping, of each
  loop's steps, of containers being replaced and dead sessions ended. LISTEN and the
  sending and reading of notifications have none: everything must work without them,
  and `WorkIsSeen` then rests on the backstop.
* `Crawl`: weak fairness of each expansion and its fan-out, of each finisher's fan-out, of each
  request's own steps and of each worker: calls return, goroutines run, tickers tick. Strong
  fairness of taking a slot: the gate is a channel, which serves its waiters in order.
  None for asking, leaving, failing, deadlines, evictions and restarts; `LinkedAreLookedUp`
  and `OpenedFilmsFinish` have as their condition that readers keep coming.
* `Board`: weak fairness of its one goroutine and of time. `TMDbIds`: weak fairness of the job, which
  runs passes as long as there is a process. `Pictures`: weak fairness of each visit's request and
  of the marking goroutines, strong fairness of time, which a request of two seconds holds up
  only in the model (a visit meets at most one tick). None for visits, hosts or restarts.

## 4. Proofs

The theorems hold for every value of the constants: any number of importers, films or
processes, any files and generations, any number of faults and crashes.

**Importer.** `TypeCorrect` needs no assumption beyond the constants' own
(`ImporterAssumption`, `NoSchemaAssumption`), nor does `AlwaysServed`, which follows from
`Publish` being the only step that touches what is live. The others assume `MaxDrops = 0`: the
session holding the lock does not end while its attempt runs. `import_lock_lost` shows
that they are false without it.

The inductive invariant is the type invariant with four more parts:

1. every attempt that is not idle holds the lock – so there is one of them
   (`MutualExclusion`);
2. `Bracketed`. `RecordedIsLive` is not inductive alone: that a publish records the stamps
   of what it renames must be known at `"publish"`, hence that staging came from the
   files on disk at `"check"`, hence file by file through `"load"`, hence that the files
   are those whose stamps were read at `"compare"`. There each is known to be no older than
   the first reading and no newer than the second, since the host only moves forward; when
   the readings agree all three are the same;
3. `RecordedIsLive`; 4. `LiveWhole`.

Each step of `Next` has its own lemma or proof step per part. Steps of an attempt leave the
others alone by part 1: nobody else is in one. `DecisionHolds` follows from part 2.
`ImportImplementsSwap` shows that the initial state maps to `SwapInit`, that `Publish` maps to
`Swap(opened[i])`, newer by the `Ready` of the decision that part 2 has kept, and that every
other step is a stutter.

`TablesAgree` (`ReferencesResolve`) needs a strengthening of its own, what a load knows. Before it
begins its allow-list and its people are empty, the tables of the files still to come are too, and
from then on the list and the people are the rows stored, so each filter of `keep.go` leaves rows
that resolve. The names are right because `LoadOrder` takes them only when nothing else is left
(`NamesComeLast`).

**Posters.** `RowWriters` names the few steps that write a row, so each invariant is checked
against those alone. `NeverAgain`, the first part of
`AskedOnce`, is strengthened to `AnswerStands`: an answered film has a row
that is not `missing`, and no answer about it is under way. The steps that could break it
are the other writers of `status`; `SavedIsNotMissing` and `UpsertedIsOk` say that neither can
write `missing`, and the probe's mark only ever makes a row `dead`. `OncePerPass`, the second, is strengthened to
`FailedIsTouched`: a film whose failure is written still has its row, and the row is among those
written in this pass, which is what keeps it out of the next rounds. Only a new pass forgets the
second (`PassRemembers`) and only a withdrawal the first (`FailedKeepTheirRow`), and both take the
film out of `failed` with it. `DeadIsQueued` is
strengthened to `DeadIsWanted`: the `wanted` mark the probe leaves is what holds the film in
the queue, and only TMDb's answer takes it away. `QueueVotesCurrent` is kept by every step
once `TypeOK` is: rows written late take their votes from the live tables as they write
(`UpsertedIsCurrent`), not from what was read before the publish. Nothing is assumed but
`PostersAssumption` and `NoRowAssumption`.

**Lease.** Each of `TypeOK`, `OnlyTheHolderWorks` and `NoWakeLost` is kept by every step once
`TypeOK` is, so the three step lemmas need no further strengthening: the guards of `LetGo`
(every loop back before the connection is closed) and the ghost `cut` carry
`HolderWorksAlone`, and the path of a piece of news, from the sender to the connection, from
there to its channel, out of the channel only into the loop itself, carries `WakesAreKept`.
Two loops of one channel break its last leg, which is why it speaks of a loop with a channel
of its own.

**Crawl.** Three theorems rest on one inductive invariant, `CrawlInductive`, with two facts
added to the properties. `ClaimedFirst`: whoever is being written is in the seen set; a claim
is granted only to who is not in it, so it is exclusive (`PeopleHaveOneWriter`), and the only
steps that take somebody out – the claimer's failure, a finisher's deadline, an eviction, a
restart – leave nobody writing them. `Stages`: a film's fan-out exists only from its
`"first"` wave on, and from `"directors"` on its cast is written; this is what lets every way an
expansion can end say whether its film is in the graph, so `RememberedIsWritten` and
`ReadersReadWritten` follow from one lemma about ends (`EndKeepsAll`) and one about
requests (`ReaderMoves`). Of `CrawlAssumption` they use that the readers' names are not
films, so that a finisher and an expansion are two.

The other three (`CrawlTypes`, `GateBoundsCrawls`, `WarmerLosesNothing`) rest on
`GateInductive`. The type invariant alone is not inductive: a slot given back must have been
taken for `taken` to stay a natural number. So the slots are counted: `taken` is the number of
films a reader's crawl holds one for, plus the number of workers at work, two finite sets
that each step changes by known members (`FiniteSetTheorems` does the counting). The step
that changes several is the end of an expansion, which gives back the slot of its leader
and of every worker that joined it (`EndCrawl`). `LedByHolders` says who
leads: a leader can give up its slot before the end only when its deadline passes, and that
makes the expansion `late`, which the property leaves out. `QueuedIsHeld` is kept by following a
film from the queue to a worker, back to the queue or into the graph; dropping it
from all three is what a full queue does, and there the memory is dropped too. These use of
`CrawlAssumption` that the sizes of the gate and the queue are natural numbers, that who is
credited is a person, and that there is a film.

**Maps.** An answer is put together by several statements, and a publish may fall between any
two. The inductive invariant is therefore in two layers, both about one visit. `Shown` is true whichever generations the parts came from: there
are no cards before the last statement, and each card has a place on the chip row the visit
itself carries, since a place is only ever looked up in that row (`CardsOfRow`). That is what holds
across a publish. `Current` is what a visit knows while the generation it began under is still
live: each part is what that generation says. A publish ends it
for every visit that is under way. `MapsHoldTogether` and `OffersOpen` are then read off;
the second needs that a film's chip row is empty only if the dataset names nobody on it (`ChipRow`).

**Share images.** `VersionsAlwaysHold` adds what each request knows at each of its steps
(`Knows`): the version it recomputed is that of the film it read, which is what it draws, and as long
as the film has not changed since the page was made, it is the address's version too. A request's
steps then keep it one lemma at a time; a change of the film only makes requests unsteady. The
theorem is about titles and posters: the year is drawn with them and no version speaks of it.

**TMDb ids.** `MatchesStayTrue` adds that the answer a pass is about to save is TMDb's for the
title it asked about. `Record` is the only step that writes a match, for the pass and for the
other jobs alike, and gives an id to a title only if nobody else has it (`RecordKeepsTrue`).

**Wanted marks.** `MarksAreTried` adds that the collector drains only after the stop, and that a
mark taken before it is tried, in hand or in the buffer; it closes when both of those are
empty. The queue lemmas it needs (what is sent is held, what is received was held) are about
sequences of any length.

**Board.** `NewsOnceInOrder` is a sum of three sequences, what was told, what is being sent and
what waits: a note lengthens the sum at its end and a send moves the border between two of
them (`HeadGoesOver`), for notes of any number. `EditsKeepTheirDistance` (`EditsAreSpaced`, an action
property) needs to know what the timer stands for. `TimerOutlastsEdit`: while one is armed, the
last rewrite will be an interval old when it fires. `WritingIsDue`: whoever is about to rewrite
either has news or waited that long, and the timer that led to it is no longer armed. A note
that comes while a call is out arms nothing that breaks either.

**Pictures.** `WrittenOffAfterTwoMisses` adds `MemoIsTrue`, what the shared memory
says of an address has happened to it (a remembered miss is younger than the time it has been
missing, a remembered verdict of gone is a window old), and `VisitsAreTrue`, the same of what a visit
holds in hand while others change the memory. The step that needs both is time passing,
which ages the memory and the misses together.

**Only model-checked.** Liveness under fairness is out of the prover's reach:
`NewSetIsPublished`, `EveryFilmAnswered`, `QueueDrains`, `AlwaysARunner`, `WorkIsSeen`, `WaitingEnds`,
`LinkedAreLookedUp`, `BoardCatchesUp`, `TitlesAreMatched`, `GoneIsWrittenOff`. Every safety property
the passing runs check is also a theorem. No module declares a recursive operator. Nothing is
assumed but each module's own `...Assumption` about its constants and, for the importer's
swap, `MaxDrops = 0`; they are `ASSUME`s of the modules, which every run evaluates
for its instance.

## 5. What is not modelled

* `meta.last_check`, the report lines and the stale alert: nothing reads them back.
* The ratings a crawl looks up, the grid and first-run queries of the graph, and the batch
  command's deeper levels: they write what is read for display.
* The OMDb and TMDb clients: Posters, TMDbIds and Crawl have their answers and failures, not
  their limiter, their pause or their retries.
* The web client, which is another program in another language: its map cache and trail
  are in the plan.
* Rows while a `COPY` is running, and locks inside Postgres: DDL waits are slow steps.
* The contents of rows: parsing, formatting, ranking, colours, sizes.
* The clocks: `fetched_at` against `started` assumes one clock.
* Two backfills at once: `Posters` has one, as the lease means it. A holder whose connection was cut
  and whose loops have not returned can overlap with the next (`OnlyTheHolderWorks` says how), and the
  importer command's posters-only mode runs beside the holder.
* Every part marked `not_modelled` in `PROJECT.json`, with its reason. Those marked planned
  are below.

## 6. Plan

In order of what they matter to the system. Each module is written to be proved about:
constants with named assumptions, one action per operation, invariants as named conjuncts.

Done: the importer and what it promises, the rows, the lease, the graph path, and six small
machines around them, with the theorems of section 4. Left, in order:

1. **`Clients`**: OMDb's spent quota, its hour's pause and its cache, with requests that were
   out when it was spent; TMDb's retries under its limiter and the caller's deadline.
2. **`WebState`**: `gridCache.ts`, `trail.ts` and `firstRun.ts` with answers that arrive late, out of
   order or after the reader has gone back: what is drawn is what the address names.
3. **The pool's connections**, for the session settings at `store.go:353`, and the colour of a
   picture that is replaced (`tmdbposters.go:297`).
4. **Readers over `CatalogSwap`**: `Maps` with the importer's promise in place of its own `Publish`.

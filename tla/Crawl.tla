------------------------------- MODULE Crawl -------------------------------
(***************************************************************************)
(* The graph path of the API: readers ask for films (api/server.go,        *)
(* api/grid.go), a film that is not in the graph is crawled from TMDb      *)
(* behind them (crawl/crawler.go, graph/write.go), a gate bounds how many  *)
(* crawls run at once (api/limit.go), and a warmer crawls what a reader    *)
(* may ask for next (api/warmer.go).  What has been fetched is remembered  *)
(* in memory (seen/seen.go); what has been written is in the graph.        *)
(*                                                                         *)
(* A film's expansion is named by its film and a reader's cast-finishing   *)
(* goroutine by the reader: both fan out over people, and `task` says how  *)
(* far each person's fetch has come.  A call that fails may have taken     *)
(* effect: its answer is what was lost.                                    *)
(***************************************************************************)
EXTENDS Naturals, Sequences, FiniteSets, Functions

CONSTANTS
    Films, People, Readers, Workers,
    Directors,      \* Directors[f]: the directors of f, a sequence of people
    Cast,           \* Cast[f]: its cast in billing order
    Leads,          \* who passes scoring from the credits alone
    Popular,        \* who passes scoring from their own profile
    Filmography,    \* Filmography[p]: the films p acted in or directed
    DirectsToo,     \* the people with credits as a director
    Requests,       \* what readers ask: <<film, whether it is for its grid>>
    Known,          \* the films in the graph when it begins, with their people
    FirstWave,      \* people fetched before the rest of the cast
    Concurrency,    \* requests one fan-out has in flight
    Slots,          \* cold crawls at once
    QueueSize,      \* films waiting to be warmed
    MaxFaults       \* bound: calls that fail, deadlines that pass, ids a
                    \* memory lets go of, processes that end

ASSUME CrawlAssumption ==
    /\ Films # {} /\ Readers \cap Films = {} /\ "seed" \notin Workers /\ "nobody" \notin Workers
    /\ Directors \in [Films -> Seq(People)] /\ Cast \in [Films -> Seq(People)]
    /\ Leads \subseteq People /\ Popular \subseteq People /\ DirectsToo \subseteq People
    /\ Filmography \in [People -> SUBSET Films]
    /\ Known \subseteq Films
    /\ Requests \subseteq Films \X BOOLEAN
    /\ {FirstWave, Concurrency, Slots, QueueSize} \subseteq Nat \ {0}
    /\ MaxFaults \in Nat

Owners == Films \cup Readers

VARIABLES
    crawled,        \* the films with crawled_at: the first statement landed
    directed,       \* the films whose directors are linked: the second did
    profile,        \* a person's filmography in the graph: "none", "acted"
                    \* (filmography_at is set, directed films may be missing),
                    \* "whole"
    seenMovies, seenPeople, mustExpand,     \* the crawler's memories
    crawl,          \* crawl[f]: the stage of f's expansion and who leads it
    task,           \* task[o][p]: "no", "todo", "fetch", "acted", "directed"
    late,           \* the films whose expansion's context has ended
    seed,           \* seed[f]: the on-demand crawl of f: "no", "slot", "crawl"
    taken,          \* slots of the gate that are taken
    reader,         \* reader[r]: where a request is, its film and its route
    offer,          \* offer[r]: films r's answer still has to offer to warm
    worker,         \* worker[w]: where a warming worker is, and its film
    queue, queued,  \* the warmer's queue and its memory
    faults

graph == <<crawled, directed, profile>>
memory == <<seenMovies, seenPeople, mustExpand>>
flights == <<crawl, task, late>>
gate == <<seed, taken>>
requests == <<reader, offer>>
warmer == <<worker, queue, queued>>
vars == <<graph, memory, flights, gate, requests, warmer, faults>>

NoTasks == [p \in People |-> "no"]
NoCrawl == [at |-> "no", leader |-> "nobody"]
AnyFilm == CHOOSE f \in Films : TRUE
IdleReader == [at |-> "idle", film |-> AnyFilm, grid |-> FALSE]
IdleWorker == [at |-> "idle", film |-> AnyFilm]

Init ==
    /\ crawled = Known /\ directed = Known
    /\ profile = [p \in People |->
                    IF \E f \in Known : p \in Range(Cast[f] \o Directors[f]) THEN "whole" ELSE "none"]
    /\ seenMovies = {} /\ seenPeople = {} /\ mustExpand = {}
    /\ crawl = [f \in Films |-> NoCrawl]
    /\ task = [o \in Owners |-> NoTasks]
    /\ late = {}
    /\ seed = [f \in Films |-> "no"] /\ taken = 0
    /\ reader = [r \in Readers |-> IdleReader] /\ offer = [r \in Readers |-> {}]
    /\ worker = [w \in Workers |-> IdleWorker]
    /\ queue = <<>> /\ queued = {}
    /\ faults = 0

-----------------------------------------------------------------------------
(* What the code asks of the graph.                                        *)

Credited(f) == Range(Directors[f]) \cup Range(Cast[f])

\* Everyone credited on f, in the order they are fetched in.
Candidates(f) ==
    LET heads == Range(Directors[f])
        Lead(p) == p \notin heads /\ p \in Leads
        Extra(p) == p \notin heads /\ p \notin Leads
    IN  Directors[f] \o SelectSeq(Cast[f], Lead) \o SelectSeq(Cast[f], Extra)

First(n, s) == Range(SubSeq(s, 1, IF n < Len(s) THEN n ELSE Len(s)))

\* Slip: asks whether the film is known at all.
KnownAtAll(f) == f \in crawled \/ \E p \in People : profile[p] # "none" /\ f \in Filmography[p]

MovieCrawled(f) == f \in crawled

Linked(f) ==
    {p \in People : \/ f \in crawled /\ p \in Range(Cast[f])
                    \/ f \in directed /\ p \in Range(Directors[f])
                    \/ profile[p] # "none" /\ f \in Filmography[p]}

\* Slip: only the cast is looked at.
ActorsOnly(f) == {p \in Range(Cast[f]) : f \in crawled /\ profile[p] = "none"}

UnexpandedCast(f) == {p \in Linked(f) : profile[p] = "none"}

\* The films an answer about f points at.
NextHop(f) ==
    UNION {Filmography[p] : p \in {q \in Linked(f) : profile[q] # "none"}} \ {f}

-----------------------------------------------------------------------------
(* A film's expansion: ExpandMovie and processMovie.                       *)

Busy(o) == {p \in People : task[o][p] \notin {"no", "todo"}}
Faulty == faults < MaxFaults /\ faults' = faults + 1
Fails(o) == Faulty \/ (o \in late /\ UNCHANGED faults)

\* Start the expansion of f, or join the one that is running.
Expand(f, leader) ==
    IF crawl[f].at = "no"
      THEN crawl' = [crawl EXCEPT ![f] = [at |-> "claim", leader |-> leader]]
      ELSE UNCHANGED crawl

Stage(f, at) == crawl' = [crawl EXCEPT ![f].at = at]

\* The crawl on demand of f is over: the requests that joined it read the
\* film, or are answered with what became of it.
Tell(f, result) ==
    reader' = [r \in Readers |->
                 IF reader[r].at = "wait" /\ reader[r].film = f
                   THEN IF result = "ok" THEN [reader[r] EXCEPT !.at = "read"] ELSE IdleReader
                   ELSE reader[r]]

\* Slip: only a crawl that went well gives its slot back.
KeepsSlot(f, result) ==
    LET warming == {w \in Workers : worker[w] = [at |-> "crawl", film |-> f]}
    IN  /\ crawl' = [crawl EXCEPT ![f] = NoCrawl]
        /\ late' = late \ {f}
        /\ seed' = IF seed[f] = "crawl" THEN [seed EXCEPT ![f] = "no"] ELSE seed
        /\ worker' = [w \in Workers |-> IF w \in warming THEN IdleWorker ELSE worker[w]]
        /\ taken' = IF result = "failed" THEN taken
                    ELSE taken - Cardinality(warming) - (IF seed[f] = "crawl" THEN 1 ELSE 0)
        /\ queued' = IF result = "failed" /\ warming # {} THEN queued \ {f} ELSE queued
        /\ IF seed[f] = "crawl" THEN Tell(f, result) ELSE UNCHANGED reader

\* The expansion is over.  Everybody who joined it, a crawl on demand and
\* warming workers, is given its result and gives their slot back; a worker
\* forgets a film it could not warm.
EndCrawl(f, result) ==
    LET warming == {w \in Workers : worker[w] = [at |-> "crawl", film |-> f]}
    IN  /\ crawl' = [crawl EXCEPT ![f] = NoCrawl]
        /\ late' = late \ {f}
        /\ seed' = IF seed[f] = "crawl" THEN [seed EXCEPT ![f] = "no"] ELSE seed
        /\ worker' = [w \in Workers |-> IF w \in warming THEN IdleWorker ELSE worker[w]]
        /\ taken' = taken - Cardinality(warming) - (IF seed[f] = "crawl" THEN 1 ELSE 0)
        /\ queued' = IF result = "failed" /\ warming # {} THEN queued \ {f} ELSE queued
        /\ IF seed[f] = "crawl" THEN Tell(f, result) ELSE UNCHANGED reader

Claim(f) ==
    /\ crawl[f].at = "claim"
    /\ \/ /\ f \in seenMovies
          /\ EndCrawl(f, IF f \in late THEN "failed" ELSE "ok")
          /\ UNCHANGED seenMovies
       \/ /\ f \notin seenMovies
          /\ seenMovies' = seenMovies \cup {f}
          /\ Stage(f, "fetch")
          /\ UNCHANGED <<late, gate, reader, worker, queued>>
    /\ UNCHANGED <<graph, seenPeople, mustExpand, task, offer, queue, faults>>

MovieFetched(f) ==
    /\ crawl[f].at = "fetch"
    /\ mustExpand' = mustExpand \cup Credited(f)
    /\ Stage(f, "cast")
    /\ UNCHANGED <<graph, seenMovies, seenPeople, task, late, gate, requests, warmer, faults>>

\* The people of one wave, as goroutines to be started.
Wave(f, people) == task' = [task EXCEPT ![f] = [p \in People |-> IF p \in people THEN "todo" ELSE "no"]]

\* processMovie returns its candidates.
StartCast(f) == Stage(f, "first") /\ Wave(f, First(FirstWave, Candidates(f)))

WriteCast(f) ==
    /\ crawl[f].at = "cast"
    /\ crawled' = crawled \cup {f}
    /\ IF Directors[f] = <<>>
         THEN StartCast(f)
         ELSE Stage(f, "directors") /\ UNCHANGED task
    /\ UNCHANGED <<directed, profile, memory, late, gate, requests, warmer, faults>>

WriteDirectors(f) ==
    /\ crawl[f].at = "directors"
    /\ directed' = directed \cup {f}
    /\ StartCast(f)
    /\ UNCHANGED <<crawled, profile, memory, late, gate, requests, warmer, faults>>

\* Slip: a film whose write failed stays remembered.
StillSeen(f) ==
    /\ crawl[f].at \in {"fetch", "cast", "directors"}
    /\ Fails(f)
    /\ seenMovies' = IF crawl[f].at = "fetch" THEN seenMovies \ {f} ELSE seenMovies
    /\ EndCrawl(f, "failed")
    /\ UNCHANGED <<graph, seenPeople, mustExpand, task, offer, queue>>

\* The fetch or a statement fails: the film is forgotten, the caller told.
MovieFails(f) ==
    /\ crawl[f].at \in {"fetch", "cast", "directors"}
    /\ Fails(f)
    /\ \/ UNCHANGED <<crawled, directed>>
       \/ crawl[f].at = "cast" /\ crawled' = crawled \cup {f} /\ UNCHANGED directed
       \/ crawl[f].at = "directors" /\ directed' = directed \cup {f} /\ UNCHANGED crawled
    /\ seenMovies' = seenMovies \ {f}
    /\ EndCrawl(f, "failed")
    /\ UNCHANGED <<profile, seenPeople, mustExpand, task, offer, queue>>

RestOfCast(f) ==
    /\ crawl[f].at = "first" /\ task[f] = NoTasks
    /\ Stage(f, "rest")
    /\ Wave(f, Range(Candidates(f)) \ First(FirstWave, Candidates(f)))
    /\ UNCHANGED <<graph, memory, late, gate, requests, warmer, faults>>

FinishCrawl(f) ==
    /\ crawl[f].at = "rest" /\ task[f] = NoTasks
    /\ EndCrawl(f, IF f \in late THEN "failed" ELSE "ok")
    /\ UNCHANGED <<graph, memory, task, offer, queue, faults>>

-----------------------------------------------------------------------------
(* One person of a fan-out: processPerson and writeFilmography.            *)

Task(o, p, stage) == task' = [task EXCEPT ![o][p] = stage]

StartItem(o, p) ==
    /\ task[o][p] = "todo" /\ Cardinality(Busy(o)) < Concurrency
    /\ Task(o, p, IF p \in seenPeople THEN "no" ELSE "fetch")
    /\ UNCHANGED <<graph, memory, crawl, late, gate, requests, warmer, faults>>

\* A fan-out whose context has ended starts nobody else.
StopStarting(o) ==
    /\ o \in late /\ \E p \in People : task[o][p] = "todo"
    /\ task' = [task EXCEPT ![o] = [p \in People |-> IF @[p] = "todo" THEN "no" ELSE @[p]]]
    /\ UNCHANGED <<graph, memory, crawl, late, gate, requests, warmer, faults>>

\* Slip: whoever has fetched a person writes them.
WritesAnyway(o, p) ==
    /\ task[o][p] = "fetch"
    /\ seenPeople' = seenPeople \cup {p}
    /\ Task(o, p, "acted")
    /\ UNCHANGED <<graph, seenMovies, mustExpand, crawl, late, gate, requests, warmer, faults>>

\* The profile arrives: scored, then claimed, then written.
PersonFetched(o, p) ==
    /\ task[o][p] = "fetch"
    /\ IF p \in mustExpand \cup Popular /\ p \notin seenPeople
         THEN seenPeople' = seenPeople \cup {p} /\ Task(o, p, "acted")
         ELSE Task(o, p, "no") /\ UNCHANGED seenPeople
    /\ UNCHANGED <<graph, seenMovies, mustExpand, crawl, late, gate, requests, warmer, faults>>

PersonLost(o, p) ==
    /\ task[o][p] = "fetch" /\ Fails(o)
    /\ Task(o, p, "no")
    /\ UNCHANGED <<graph, memory, crawl, late, gate, requests, warmer>>

\* What a credits statement leaves in the graph.
Written(p, stage) ==
    IF stage = "directed" \/ p \notin DirectsToo THEN "whole"
    ELSE IF profile[p] = "none" THEN "acted" ELSE profile[p]

WriteCredits(o, p) ==
    /\ task[o][p] \in {"acted", "directed"}
    /\ profile' = [profile EXCEPT ![p] = Written(p, task[o][p])]
    /\ Task(o, p, IF task[o][p] = "acted" /\ p \in DirectsToo THEN "directed" ELSE "no")
    /\ UNCHANGED <<crawled, directed, memory, crawl, late, gate, requests, warmer, faults>>

\* A statement fails, its effect perhaps in the graph: they are forgotten.
CreditsFail(o, p) ==
    /\ task[o][p] \in {"acted", "directed"} /\ Fails(o)
    /\ \/ UNCHANGED profile
       \/ profile' = [profile EXCEPT ![p] = Written(p, task[o][p])]
    /\ seenPeople' = seenPeople \ {p}
    /\ Task(o, p, "no")
    /\ UNCHANGED <<crawled, directed, seenMovies, mustExpand, crawl, late, gate, requests, warmer>>

\* A memory lets an id go: it has aged out, or was the oldest of a full set.
\* Nobody is as old as that while their write is out.
Forget(id) ==
    /\ Faulty
    /\ \/ id \in seenMovies /\ crawl[id].at \notin {"fetch", "cast", "directors"}
          /\ seenMovies' = seenMovies \ {id}
          /\ UNCHANGED <<seenPeople, mustExpand, queued>>
       \/ id \in seenPeople /\ (\A o \in Owners : task[o][id] \notin {"acted", "directed"})
          /\ seenPeople' = seenPeople \ {id}
          /\ UNCHANGED <<seenMovies, mustExpand, queued>>
       \/ id \in mustExpand /\ mustExpand' = mustExpand \ {id}
          /\ UNCHANGED <<seenMovies, seenPeople, queued>>
       \/ id \in queued /\ queued' = queued \ {id}
          /\ UNCHANGED memory
    /\ UNCHANGED <<graph, flights, gate, requests, worker, queue>>

-----------------------------------------------------------------------------
(* The gate and the crawl a request starts: crawlGate, beginSeed.          *)

TakeSlot(f) ==
    /\ seed[f] = "slot" /\ taken < Slots
    /\ taken' = taken + 1
    /\ seed' = [seed EXCEPT ![f] = "crawl"]
    /\ Expand(f, "seed")
    /\ UNCHANGED <<graph, memory, task, late, requests, warmer, faults>>

\* Slip: a crawl that got no slot gives one back.
GivesBackAnyway(f) ==
    /\ seed[f] = "slot" /\ Faulty
    /\ seed' = [seed EXCEPT ![f] = "no"] /\ taken' = taken - 1
    /\ Tell(f, "busy")
    /\ UNCHANGED <<graph, memory, flights, offer, warmer>>

\* No slot came free in time: busy.
TurnedAway(f) ==
    /\ seed[f] = "slot" /\ Faulty
    /\ seed' = [seed EXCEPT ![f] = "no"]
    /\ Tell(f, "busy")
    /\ UNCHANGED <<graph, memory, flights, taken, offer, warmer>>

\* Slip: the expansion it leads is not given its deadline.
RunsOn(f) ==
    /\ seed[f] = "crawl" /\ Faulty
    /\ seed' = [seed EXCEPT ![f] = "no"] /\ taken' = taken - 1
    /\ Tell(f, "late")
    /\ UNCHANGED <<graph, memory, flights, offer, warmer>>

\* SeedTimeout: it gives its slot back, and the expansion it leads ends.
SeedTimesOut(f) ==
    /\ seed[f] = "crawl" /\ Faulty
    /\ seed' = [seed EXCEPT ![f] = "no"] /\ taken' = taken - 1
    /\ Tell(f, "late")
    /\ late' = IF crawl[f].leader = "seed" THEN late \cup {f} ELSE late
    /\ UNCHANGED <<graph, memory, crawl, task, offer, warmer>>

-----------------------------------------------------------------------------
(* A request: moviePathways, movieGrid and what they wait for.             *)

At(r, at) == reader' = [reader EXCEPT ![r].at = at]
Done(r) == reader' = [reader EXCEPT ![r] = IdleReader]

\* waitReady: its first look at f, and beginSeed when the film is not there.
WaitReady(r, f, grid) ==
    /\ reader' = [reader EXCEPT ![r] =
                    [at |-> IF MovieCrawled(f) THEN "read" ELSE "wait", film |-> f, grid |-> grid]]
    /\ seed' = IF MovieCrawled(f) \/ seed[f] # "no" THEN seed ELSE [seed EXCEPT ![f] = "slot"]

\* A grid request looks first in ensureGridSeeded, which finishes the cast
\* of a film that is there, and again in waitReady.
Ask(r, f, grid) ==
    /\ reader[r].at = "idle"
    /\ IF ~grid THEN WaitReady(r, f, grid)
       ELSE /\ reader' = [reader EXCEPT ![r] =
                            [at |-> IF MovieCrawled(f) THEN "cast" ELSE "look", film |-> f, grid |-> grid]]
            /\ UNCHANGED seed
    /\ UNCHANGED <<graph, memory, flights, taken, offer, warmer, faults>>

LookAgain(r) ==
    /\ reader[r].at = "look"
    /\ WaitReady(r, reader[r].film, reader[r].grid)
    /\ UNCHANGED <<graph, memory, flights, taken, offer, warmer, faults>>

\* finishCast: whoever is left is fetched behind the answer, outside the
\* gate.  One such goroutine at a time per reader is a bound of the model.
FinishCast(r) ==
    /\ reader[r].at = "cast" /\ task[r] = NoTasks
    /\ task' = [task EXCEPT ![r] =
                  [p \in People |-> IF p \in UnexpandedCast(reader[r].film) THEN "todo" ELSE "no"]]
    /\ At(r, "read")
    /\ UNCHANGED <<graph, memory, crawl, late, gate, offer, warmer, faults>>

\* The finisher's 25 seconds pass: whoever has not been started never is,
\* and what is out fails.
FinishTimesOut(r) ==
    LET writing == {p \in People : task[r][p] \in {"acted", "directed"}}
    IN  /\ task[r] # NoTasks /\ Faulty
        /\ \E landed \in SUBSET writing :
             profile' = [p \in People |-> IF p \in landed THEN Written(p, task[r][p]) ELSE profile[p]]
        /\ seenPeople' = seenPeople \ writing
        /\ task' = [task EXCEPT ![r] = NoTasks]
        /\ UNCHANGED <<crawled, directed, seenMovies, mustExpand, crawl, late, gate, requests, warmer>>

\* A tick finds the film written before its crawl is over.
Poll(r) ==
    /\ reader[r].at = "wait" /\ MovieCrawled(reader[r].film)
    /\ At(r, "read")
    /\ UNCHANGED <<graph, memory, flights, gate, offer, warmer, faults>>

\* The client goes away.
Leave(r) ==
    /\ reader[r].at = "wait"
    /\ Done(r)
    /\ UNCHANGED <<graph, memory, flights, gate, offer, warmer, faults>>

\* A query of a request fails: it answers with an error.
RequestFails(r) ==
    /\ reader[r].at \in {"look", "wait", "read"}
    /\ Faulty
    /\ Done(r)
    /\ UNCHANGED <<graph, memory, flights, gate, offer, warmer>>

\* The answer: a grid is done, a pathways answer has films to offer.
Answer(r) ==
    LET next == IF reader[r].grid THEN {} ELSE NextHop(reader[r].film)
    IN  /\ reader[r].at = "read"
        /\ offer' = [offer EXCEPT ![r] = next]
        /\ IF next = {} THEN Done(r) ELSE At(r, "offer")
        /\ UNCHANGED <<graph, memory, flights, gate, warmer, faults>>

-----------------------------------------------------------------------------
(* The warmer: enqueue, handle, requeue, warm.                             *)

\* A film remembered is passed over; one the queue has no room for is
\* forgotten again, and the rest not offered.
Enqueue(r, f) ==
    \/ /\ f \in queued
       /\ offer' = [offer EXCEPT ![r] = @ \ {f}]
       /\ UNCHANGED <<queue, queued>>
    \/ /\ f \notin queued /\ Len(queue) < QueueSize
       /\ queue' = Append(queue, f) /\ queued' = queued \cup {f}
       /\ offer' = [offer EXCEPT ![r] = @ \ {f}]
    \/ /\ f \notin queued /\ Len(queue) = QueueSize
       /\ offer' = [offer EXCEPT ![r] = {}]
       /\ UNCHANGED <<queue, queued>>

OfferNext(r) ==
    /\ reader[r].at = "offer"
    /\ \E f \in offer[r] : Enqueue(r, f)
    /\ IF offer'[r] = {} THEN Done(r) ELSE UNCHANGED reader
    /\ UNCHANGED <<graph, memory, flights, gate, worker, faults>>

Move(w, at) == worker' = [worker EXCEPT ![w].at = at]
Rest(w) == worker' = [worker EXCEPT ![w] = IdleWorker]

\* tryWarm looks whether a reader waits, and only then tries for a slot.
Receive(w) ==
    /\ worker[w].at = "idle" /\ queue # <<>>
    /\ worker' = [worker EXCEPT ![w] =
                    [at |-> IF \E f \in Films : seed[f] = "slot" THEN "backoff" ELSE "clear",
                     film |-> Head(queue)]]
    /\ queue' = Tail(queue)
    /\ UNCHANGED <<graph, memory, flights, gate, requests, queued, faults>>

TryTake(w) ==
    /\ worker[w].at = "clear"
    /\ IF taken < Slots
         THEN Move(w, "check") /\ taken' = taken + 1
         ELSE Move(w, "backoff") /\ UNCHANGED taken
    /\ UNCHANGED <<graph, memory, flights, seed, requests, queue, queued, faults>>

Requeue(w) ==
    /\ worker[w].at = "backoff"
    /\ Rest(w)
    /\ IF Len(queue) < QueueSize
         THEN queue' = Append(queue, worker[w].film) /\ UNCHANGED queued
         ELSE queued' = queued \ {worker[w].film} /\ UNCHANGED queue
    /\ UNCHANGED <<graph, memory, flights, gate, requests, faults>>

\* warm: a film crawled meanwhile is done with, and one whose check failed
\* may come again.
Check(w) ==
    LET f == worker[w].film
    IN  /\ worker[w].at = "check"
        /\ \/ /\ MovieCrawled(f) /\ Rest(w) /\ taken' = taken - 1
              /\ UNCHANGED <<crawl, queued, faults>>
           \/ /\ ~MovieCrawled(f) /\ Move(w, "crawl") /\ Expand(f, w)
              /\ UNCHANGED <<taken, queued, faults>>
           \/ /\ Faulty /\ Rest(w) /\ taken' = taken - 1
              /\ queued' = queued \ {f}
              /\ UNCHANGED crawl
        /\ UNCHANGED <<graph, memory, task, late, seed, requests, queue>>

\* Slip: a film whose crawl ran out of time stays remembered.
StaysMarked(w) ==
    LET f == worker[w].film
    IN  /\ worker[w].at = "crawl" /\ Faulty
        /\ Rest(w) /\ taken' = taken - 1
        /\ late' = IF crawl[f].leader = w THEN late \cup {f} ELSE late
        /\ UNCHANGED <<graph, memory, crawl, task, seed, requests, queue, queued>>

WarmTimesOut(w) ==
    LET f == worker[w].film
    IN  /\ worker[w].at = "crawl" /\ Faulty
        /\ Rest(w) /\ taken' = taken - 1
        /\ queued' = queued \ {f}
        /\ late' = IF crawl[f].leader = w THEN late \cup {f} ELSE late
        /\ UNCHANGED <<graph, memory, crawl, task, seed, requests, queue>>

-----------------------------------------------------------------------------
(* The process ends, and with it every request and everything it           *)
(* remembers; another one starts on the same graph.                        *)
Restart ==
    /\ Faulty
    /\ seenMovies' = {} /\ seenPeople' = {} /\ mustExpand' = {}
    /\ crawl' = [f \in Films |-> NoCrawl]
    /\ task' = [o \in Owners |-> NoTasks]
    /\ late' = {}
    /\ seed' = [f \in Films |-> "no"] /\ taken' = 0
    /\ reader' = [r \in Readers |-> IdleReader] /\ offer' = [r \in Readers |-> {}]
    /\ worker' = [w \in Workers |-> IdleWorker]
    /\ queue' = <<>> /\ queued' = {}
    /\ UNCHANGED graph

FanOut(o) == \E p \in People : StartItem(o, p) \/ PersonFetched(o, p) \/ WriteCredits(o, p)

ExpansionStep(f) ==
    \/ Claim(f) \/ MovieFetched(f) \/ WriteCast(f) \/ WriteDirectors(f)
    \/ RestOfCast(f) \/ StopStarting(f) \/ FinishCrawl(f)

RequestStep(r) ==
    LookAgain(r) \/ FinishCast(r) \/ Poll(r) \/ Answer(r) \/ OfferNext(r)

WarmStep(w) ==
    \/ Receive(w) \/ TryTake(w) \/ Requeue(w) \/ Check(w)

Next ==
    \/ \E f \in Films :
        \/ ExpansionStep(f) \/ MovieFails(f)
        \/ TakeSlot(f) \/ TurnedAway(f) \/ SeedTimesOut(f)
    \/ \E o \in Owners :
        \/ FanOut(o)
        \/ \E p \in People : PersonLost(o, p) \/ CreditsFail(o, p)
    \/ \E id \in Films \cup People : Forget(id)
    \/ \E r \in Readers :
        \/ \E q \in Requests : Ask(r, q[1], q[2])
        \/ RequestStep(r) \/ Leave(r) \/ RequestFails(r) \/ FinishTimesOut(r)
    \/ \E w \in Workers : WarmStep(w) \/ WarmTimesOut(w)
    \/ Restart

\* Calls return, goroutines run and tickers tick.  Nobody has to ask, to
\* leave, to fail or to run out of time.  A channel serves its waiters in
\* order, so a crawl that waits for a slot gets one of those that come free.
Fairness ==
    /\ \A f \in Films : WF_vars(ExpansionStep(f) \/ FanOut(f)) /\ SF_vars(TakeSlot(f))
    /\ \A r \in Readers : WF_vars(FanOut(r)) /\ WF_vars(RequestStep(r))
    /\ \A w \in Workers : WF_vars(WarmStep(w))

Spec == Init /\ [][Next]_vars /\ Fairness

-----------------------------------------------------------------------------
(* Invariants.                                                             *)

TypeOK ==
    /\ crawled \subseteq Films /\ directed \subseteq Films
    /\ profile \in [People -> {"none", "acted", "whole"}]
    /\ seenMovies \subseteq Films /\ seenPeople \subseteq People /\ mustExpand \subseteq People
    /\ crawl \in [Films -> [at : {"no", "claim", "fetch", "cast", "directors", "first", "rest"},
                            leader : {"seed", "nobody"} \cup Workers]]
    /\ task \in [Owners -> [People -> {"no", "todo", "fetch", "acted", "directed"}]]
    /\ late \subseteq Films
    /\ seed \in [Films -> {"no", "slot", "crawl"}]
    /\ taken \in Nat
    /\ reader \in [Readers -> [at : {"idle", "look", "cast", "wait", "read", "offer"},
                               film : Films, grid : BOOLEAN]]
    /\ offer \in [Readers -> SUBSET Films]
    /\ worker \in [Workers -> [at : {"idle", "clear", "backoff", "check", "crawl"},
                               film : Films]]
    /\ queue \in Seq(Films) /\ Len(queue) <= QueueSize
    /\ queued \subseteq Films

\* A film or a person the crawler remembers having done is in the graph in
\* full, or the goroutine that claimed them is still at it: whoever finds
\* them remembered and moves on (processMovie, processPerson and
\* writeFilmography return at once) does not leave a hole behind.
SeenIsWritten ==
    /\ \A f \in seenMovies :
        \/ f \in crawled /\ (Directors[f] = <<>> \/ f \in directed)
        \/ crawl[f].at \in {"fetch", "cast", "directors"}
    /\ \A p \in seenPeople :
        \/ profile[p] = "whole"
        \/ \E o \in Owners : task[o][p] \in {"acted", "directed"}

\* However many expansions and cast-finishers reach one person at once, one
\* of them writes them: the claim is between the fetch and the write, and
\* only the claimer's own failure takes it back.
OneWriterPerPerson ==
    \A p \in People :
        \A o, q \in Owners :
            task[o][p] \in {"acted", "directed"} /\ task[q][p] \in {"acted", "directed"} => o = q

\* The gate bounds the crawls, not just the callers: every slot taken is
\* held by one crawl on demand or one warming worker, no more than the
\* limit are taken, and an expansion whose context is alive is led by a
\* holder of a slot for that film, though callers join, time out and leave.
CrawlsHoldSlots ==
    /\ taken = Cardinality({f \in Films : seed[f] = "crawl"})
               + Cardinality({w \in Workers : worker[w].at \in {"check", "crawl"}})
    /\ taken <= Slots
    /\ \A f \in Films : crawl[f].at # "no" /\ f \notin late =>
        \/ crawl[f].leader = "seed" /\ seed[f] = "crawl"
        \/ crawl[f].leader \in Workers
           /\ worker[crawl[f].leader] = [at |-> "crawl", film |-> f]

\* A request that gets as far as reading finds the film's own cast written,
\* whichever way it was let through: its first look, a tick, its own crawl,
\* or a crawl that found somebody else had done the work.
ReadsAreOfWritten ==
    \A r \in Readers : reader[r].at \in {"cast", "read"} => reader[r].film \in crawled

\* A film the warmer remembers is not lost to it: it is in the queue,
\* with a worker, or crawled.  Otherwise nobody could offer it
\* again for as long as it is remembered.
QueuedIsHeld ==
    \A f \in queued :
        \/ f \in crawled \/ f \in Range(queue)
        \/ \E w \in Workers : worker[w].at # "idle" /\ worker[w].film = f

-----------------------------------------------------------------------------
(* Liveness.                                                               *)

\* A request that waits for a crawl is answered, turned away or gone: the
\* crawl it joined may be led by somebody else, end without its film, or be
\* forgotten with the process.
WaitingEnds == \A r \in Readers : reader[r].at = "wait" ~> reader[r].at # "wait"

\* A film whose grid is opened again and again comes to have everyone the
\* graph links to it looked up ("fetches anyone on a written movie who still
\* has no filmography"), whatever failed the first times.  Directors that
\* were never linked are nobody the graph knows of: see OpenedFilmsFinish.
\* (Where they are popular: one who is not can be dropped each time.)
LinkedAreLookedUp ==
    \A f \in Films :
        ([]<> \E r \in Readers : reader[r].at # "idle" /\ reader[r].grid /\ reader[r].film = f)
            => <>[](f \in crawled /\ \A p \in Linked(f) : profile[p] # "none")

\* A crawl is started "unless the movie's own cast and directors are already
\* written", so a film opened again and again comes to have all of them, and
\* everyone credited on it is looked up.
OpenedFilmsFinish ==
    \A f \in Films :
        ([]<> \E r \in Readers : reader[r].at # "idle" /\ reader[r].grid /\ reader[r].film = f)
            => <>[](f \in crawled /\ \A p \in Credited(f) : profile[p] # "none")
=============================================================================

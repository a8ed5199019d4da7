------------------------------ MODULE CrawlProofs ------------------------------
(***************************************************************************)
(* Proofs about Crawl, for any films, people, readers and workers, any     *)
(* credits and filmographies, any size of the gate and the queue, and any  *)
(* number of faults, deadlines, evictions and restarts.                    *)
(*                                                                         *)
(* SeenIsWritten, OneWriterPerPerson and ReadsAreOfWritten are inductive   *)
(* together with two facts: an expansion has no fan-out before its film is *)
(* written (Stages), and whoever is being written is remembered            *)
(* (ClaimedFirst), which is what makes the claim exclusive.                *)
(*                                                                         *)
(* TypeOK, CrawlsHoldSlots and QueuedIsHeld rest on another invariant,     *)
(* GateInductive.  The slots are counted as two finite sets of holders,    *)
(* the readers' crawls (Seeding) and the workers' (AtWork), and each step  *)
(* says which of the two it changes, and by whom.                          *)
(***************************************************************************)
EXTENDS Crawl, FiniteSetTheorems, SequenceTheorems, TLAPS

Steps == {"no", "todo", "fetch", "acted", "directed"}
CrawlStages == {"no", "claim", "fetch", "cast", "directors", "first", "rest"}
ReaderSteps == {"idle", "look", "cast", "wait", "read", "offer"}

Shape ==
    /\ crawl \in [Films -> [at : CrawlStages, leader : {"seed", "nobody"} \cup Workers]]
    /\ task \in [Owners -> [People -> Steps]]
    /\ reader \in [Readers -> [at : ReaderSteps, film : Films \cup {AnyFilm}, grid : BOOLEAN]]
    /\ profile \in [People -> {"none", "acted", "whole"}]

Writing(o, p) == task[o][p] \in {"acted", "directed"}

\* Whoever is being written is remembered.
ClaimedFirst == \A o \in Owners, p \in People : Writing(o, p) => p \in seenPeople

\* What is known of a film by the stage its expansion is at.
Stages ==
    \A f \in Films :
        /\ crawl[f].at \notin {"first", "rest"} => \A p \in People : task[f][p] = "no"
        /\ crawl[f].at \in {"directors", "first", "rest"} => f \in crawled

FilmsWritten ==
    \A f \in seenMovies :
        \/ f \in crawled /\ (Directors[f] = <<>> \/ f \in directed)
        \/ crawl[f].at \in {"fetch", "cast", "directors"}

PeopleWritten ==
    \A p \in seenPeople : profile[p] = "whole" \/ \E o \in Owners : Writing(o, p)

FilmsHold == FilmsWritten /\ ReadsAreOfWritten /\ seenMovies \subseteq Films
PeopleHold == PeopleWritten /\ OneWriterPerPerson /\ ClaimedFirst /\ seenPeople \subseteq People

CrawlInductive == Shape /\ Stages /\ FilmsHold /\ PeopleHold

-----------------------------------------------------------------------------
(* People.                                                                 *)

\* A step that touches nobody's writing.
LEMMA WritingStands ==
    ASSUME PeopleHold, UNCHANGED <<profile, seenPeople>>,
           \A o \in Owners, p \in People : Writing(o, p)' <=> Writing(o, p)
    PROVE  PeopleHold'
BY DEF PeopleHold, PeopleWritten, OneWriterPerPerson, ClaimedFirst, Writing

\* A fan-out starts where there is none.
LEMMA FanOutStarts ==
    ASSUME Shape, PeopleHold, NEW o \in Owners, NEW t \in [People -> {"no", "todo"}],
           \A p \in People : task[o][p] = "no",
           task' = [task EXCEPT ![o] = t], UNCHANGED <<profile, seenPeople>>
    PROVE  PeopleHold' /\ task' \in [Owners -> [People -> Steps]]
<1>1. t \in [People -> Steps]
  BY DEF Steps
<1>2. task' \in [Owners -> [People -> Steps]]
  BY <1>1 DEF Shape
<1>3. \A q \in Owners : task'[q] = IF q = o THEN t ELSE task[q]
  BY DEF Shape
<1>4. \A q \in Owners, p \in People : Writing(q, p)' <=> Writing(q, p)
  BY <1>3 DEF Writing
<1> QED
  BY <1>2, <1>4, WritingStands

\* One person of a fan-out gets on.
LEMMA TaskMoves ==
    ASSUME Shape, NEW o \in Owners, NEW p \in People, NEW st \in Steps,
           Task(o, p, st)
    PROVE  /\ task' \in [Owners -> [People -> Steps]]
           /\ task'[o][p] = st
           /\ \A q \in Owners, r \in People : q # o \/ r # p => task'[q][r] = task[q][r]
BY DEF Shape, Task

\* A step of somebody who is not being written, and will not be.
LEMMA TaskKeepsWriting ==
    ASSUME Shape, NEW o \in Owners, NEW p \in People, NEW st \in {"no", "todo", "fetch"},
           Task(o, p, st), ~Writing(o, p)
    PROVE  \A q \in Owners, r \in People : Writing(q, r)' <=> Writing(q, r)
<1> SUFFICES ASSUME NEW q \in Owners, NEW r \in People
             PROVE  Writing(q, r)' <=> Writing(q, r)
  OBVIOUS
<1>0. st \in Steps
  BY DEF Steps
<1>1. CASE q = o /\ r = p
  <2>1. task'[o][p] = st
    BY <1>0, TaskMoves
  <2> QED
    BY <1>1, <2>1 DEF Writing
<1>2. CASE q # o \/ r # p
  <2>1. task'[q][r] = task[q][r]
    BY <1>0, <1>2, TaskMoves
  <2> QED
    BY <2>1 DEF Writing
<1> QED
  BY <1>1, <1>2

\* Whoever is in a fan-out of a film is in it once the film is written.
LEMMA StagesStand ==
    ASSUME CrawlAssumption, Shape, Stages, NEW o \in Owners, NEW p \in People, NEW st \in Steps,
           task[o][p] # "no", Task(o, p, st), UNCHANGED <<crawled, crawl>>
    PROVE  Stages'
<1>1. ASSUME NEW f \in Films
      PROVE  /\ (crawl[f].at \notin {"first", "rest"} => \A q \in People : task[f][q] = "no")'
             /\ (crawl[f].at \in {"directors", "first", "rest"} => f \in crawled)'
  <2>1. f \in Owners
    BY DEF Owners
  <2>2. CASE f = o
    <3>1. crawl[f].at \in {"first", "rest"}
      BY <2>2 DEF Stages
    <3> QED
      BY <3>1 DEF Stages
  <2>3. CASE f # o
    <3>1. \A q \in People : task'[f][q] = task[f][q]
      BY <2>1, <2>3, TaskMoves
    <3> QED
      BY <3>1 DEF Stages
  <2> QED
    BY <2>2, <2>3
<1> QED
  BY <1>1 DEF Stages

\* A person's fan-out step, and what it leaves of the rest.
PersonStep(o, p) ==
    \/ StartItem(o, p) \/ PersonFetched(o, p) \/ PersonLost(o, p)
    \/ WriteCredits(o, p) \/ CreditsFail(o, p)

LEMMA PersonKeepsPeople ==
    ASSUME CrawlAssumption, CrawlInductive, NEW o \in Owners, NEW p \in People, PersonStep(o, p)
    PROVE  PeopleHold' /\ Stages' /\ Shape'
<1> USE DEF CrawlInductive
<1>0. UNCHANGED <<crawl, reader, crawled>> /\ task[o][p] # "no"
  <2>1. CASE StartItem(o, p)
    BY <2>1 DEF StartItem, requests, graph
  <2>2. CASE PersonFetched(o, p)
    BY <2>2 DEF PersonFetched, requests, graph
  <2>3. CASE PersonLost(o, p)
    BY <2>3 DEF PersonLost, requests, graph
  <2>4. CASE WriteCredits(o, p)
    BY <2>4 DEF WriteCredits, requests
  <2>5. CASE CreditsFail(o, p)
    BY <2>5 DEF CreditsFail, requests
  <2> QED
    BY <2>1, <2>2, <2>3, <2>4, <2>5 DEF PersonStep
<1>1. CASE StartItem(o, p) \/ PersonLost(o, p)
  <2>1. PICK st \in {"no", "fetch"} : Task(o, p, st)
    BY <1>1 DEF StartItem, PersonLost
  <2>2. st \in Steps /\ UNCHANGED <<profile, seenPeople>> /\ ~Writing(o, p)
    <3>1. CASE StartItem(o, p)
      BY <3>1 DEF StartItem, graph, memory, Writing, Steps
    <3>2. CASE PersonLost(o, p)
      BY <3>2 DEF PersonLost, graph, memory, Writing, Steps
    <3> QED
      BY <1>1, <3>1, <3>2
  <2>3. \A q \in Owners, r \in People : Writing(q, r)' <=> Writing(q, r)
    BY <2>1, <2>2, TaskKeepsWriting
  <2>4. PeopleHold'
    BY <2>2, <2>3, WritingStands
  <2>5. Stages'
    BY <1>0, <2>1, <2>2, StagesStand
  <2> QED
    BY <1>0, <2>1, <2>2, <2>4, <2>5, TaskMoves DEF Shape
<1>2. CASE PersonFetched(o, p)
  <2>0. UNCHANGED profile /\ ~Writing(o, p)
    BY <1>2 DEF PersonFetched, graph, Writing
  <2>1. CASE p \in mustExpand \cup Popular /\ p \notin seenPeople
    <3>1. Task(o, p, "acted") /\ seenPeople' = seenPeople \cup {p} /\ "acted" \in Steps
      BY <1>2, <2>1 DEF PersonFetched, Steps
    <3>2. \A q \in Owners : ~Writing(q, p)
      BY <2>1 DEF PeopleHold, ClaimedFirst
    <3>3. Writing(o, p)' /\ \A q \in Owners, r \in People : q # o \/ r # p => (Writing(q, r)' <=> Writing(q, r))
      BY <3>1, TaskMoves DEF Writing
    <3>4. OneWriterPerPerson'
      <4> SUFFICES ASSUME NEW r \in People, NEW a \in Owners, NEW b \in Owners,
                          Writing(a, r)', Writing(b, r)'
                   PROVE  a = b
        BY DEF OneWriterPerPerson, Writing
      <4>1. CASE r = p
        BY <3>2, <3>3, <4>1
      <4>2. CASE r # p
        <5>1. Writing(a, r) /\ Writing(b, r)
          BY <3>3, <4>2
        <5> QED
          BY <5>1 DEF PeopleHold, OneWriterPerPerson, Writing
      <4> QED
        BY <4>1, <4>2
    <3>5. PeopleWritten'
      BY <2>0, <3>1, <3>3 DEF PeopleHold, PeopleWritten
    <3>6. ClaimedFirst'
      BY <3>1, <3>3 DEF PeopleHold, ClaimedFirst
    <3>7. Stages'
      BY <1>0, <3>1, StagesStand
    <3> QED
      BY <1>0, <2>0, <3>1, <3>4, <3>5, <3>6, <3>7, TaskMoves DEF Shape, PeopleHold
  <2>2. CASE ~(p \in mustExpand \cup Popular /\ p \notin seenPeople)
    <3>1. Task(o, p, "no") /\ UNCHANGED seenPeople /\ "no" \in Steps
      BY <1>2, <2>2 DEF PersonFetched, Steps
    <3>2. \A q \in Owners, r \in People : Writing(q, r)' <=> Writing(q, r)
      BY <2>0, <3>1, TaskKeepsWriting
    <3>3. PeopleHold'
      BY <2>0, <3>1, <3>2, WritingStands
    <3>4. Stages'
      BY <1>0, <3>1, StagesStand
    <3> QED
      BY <1>0, <2>0, <3>1, <3>3, <3>4, TaskMoves DEF Shape
  <2> QED
    BY <2>1, <2>2
<1>3. CASE WriteCredits(o, p)
  <2>0. /\ Writing(o, p) /\ UNCHANGED seenPeople
        /\ profile' = [profile EXCEPT ![p] = Written(p, task[o][p])]
    BY <1>3 DEF WriteCredits, memory, Writing
  <2>1. PICK st \in {"no", "directed"} :
          Task(o, p, st) /\ (st = "directed" <=> task[o][p] = "acted" /\ p \in DirectsToo)
    BY <1>3 DEF WriteCredits
  <2>2. st \in Steps
    BY DEF Steps
  <2>3. \A q \in Owners, r \in People : q # o \/ r # p => (Writing(q, r)' <=> Writing(q, r))
    BY <2>1, <2>2, TaskMoves DEF Writing
  <2>4. Written(p, task[o][p]) \in {"none", "acted", "whole"}
    BY DEF Written, Shape
  <2>5. profile' \in [People -> {"none", "acted", "whole"}] /\ profile'[p] = Written(p, task[o][p])
    BY <2>0, <2>4 DEF Shape
  <2>6. profile'[p] = "whole" \/ Writing(o, p)'
    <3>1. task'[o][p] = st
      BY <2>1, <2>2, TaskMoves
    <3> QED
      BY <2>0, <2>1, <2>5, <3>1 DEF Written, Writing
  <2>7. PeopleWritten'
    <3> SUFFICES ASSUME NEW r \in seenPeople, r # p
                 PROVE  profile'[r] = "whole" \/ \E q \in Owners : Writing(q, r)'
      BY <2>0, <2>6 DEF PeopleWritten
    <3>1. r \in People /\ profile'[r] = profile[r]
      BY <2>0 DEF PeopleHold, Shape
    <3> QED
      BY <2>3, <3>1 DEF PeopleHold, PeopleWritten
  <2>8. OneWriterPerPerson' /\ ClaimedFirst'
    <3>1. \A q \in Owners, r \in People : Writing(q, r)' => Writing(q, r)
      BY <2>0, <2>3
    <3> QED
      BY <2>0, <3>1 DEF PeopleHold, OneWriterPerPerson, ClaimedFirst, Writing
  <2>9. Stages'
    BY <1>0, <2>1, <2>2, StagesStand
  <2> QED
    BY <1>0, <2>0, <2>1, <2>2, <2>5, <2>7, <2>8, <2>9, TaskMoves DEF Shape, PeopleHold
<1>4. CASE CreditsFail(o, p)
  <2>0. /\ Writing(o, p) /\ seenPeople' = seenPeople \ {p} /\ Task(o, p, "no") /\ "no" \in Steps
    BY <1>4 DEF CreditsFail, Writing, Steps
  <2>1. /\ profile' \in [People -> {"none", "acted", "whole"}]
        /\ \A r \in People : r # p => profile'[r] = profile[r]
    <3>1. Written(p, task[o][p]) \in {"none", "acted", "whole"}
      BY DEF Written, Shape
    <3> QED
      BY <1>4, <3>1 DEF CreditsFail, Shape
  <2>2. ~Writing(o, p)' /\ \A q \in Owners, r \in People : q # o \/ r # p => (Writing(q, r)' <=> Writing(q, r))
    BY <2>0, TaskMoves DEF Writing
  <2>3. PeopleWritten'
    BY <2>0, <2>1, <2>2 DEF PeopleHold, PeopleWritten
  <2>4. \A q \in Owners : ~Writing(q, p)'
    BY <2>0, <2>2 DEF PeopleHold, OneWriterPerPerson, Writing
  <2>5. OneWriterPerPerson' /\ ClaimedFirst'
    BY <2>0, <2>2, <2>4 DEF PeopleHold, OneWriterPerPerson, ClaimedFirst, Writing
  <2>6. Stages'
    BY <1>0, <2>0, StagesStand
  <2> QED
    BY <1>0, <2>0, <2>1, <2>3, <2>5, <2>6, TaskMoves DEF Shape, PeopleHold
<1> QED
  BY <1>1, <1>2, <1>3, <1>4 DEF PersonStep

-----------------------------------------------------------------------------
(* Films.                                                                  *)

\* A step that changes nothing but where requests are, and lets none of them
\* read a film that is not written.
LEMMA RequestsMove ==
    ASSUME FilmsHold, UNCHANGED <<crawled, directed, seenMovies, crawl>>,
           \A r \in Readers : reader'[r].at \in {"cast", "read"} =>
               reader'[r] = reader[r] \/ reader'[r].film \in crawled
    PROVE  FilmsHold'
<1>1. FilmsWritten'
  BY DEF FilmsHold, FilmsWritten
<1>2. ReadsAreOfWritten'
  BY DEF FilmsHold, ReadsAreOfWritten
<1> QED
  BY <1>1, <1>2 DEF FilmsHold

\* A step of a fan-out leaves the films alone.
LEMMA FilmsStand ==
    ASSUME FilmsHold, UNCHANGED <<crawled, directed, seenMovies, crawl, reader>>
    PROVE  FilmsHold'
BY DEF FilmsHold, FilmsWritten, ReadsAreOfWritten

\* What the crawl of a film tells those who wait for it.
LEMMA TellsReaders ==
    ASSUME Shape, NEW f \in Films, NEW result, Tell(f, result)
    PROVE  /\ reader' \in [Readers -> [at : ReaderSteps, film : Films \cup {AnyFilm}, grid : BOOLEAN]]
           /\ \A r \in Readers : reader'[r].at \in {"cast", "read"} =>
                 reader'[r] = reader[r] \/ (reader'[r].film = f /\ result = "ok")
<1>1. \A r \in Readers :
        reader'[r] = IF reader[r].at = "wait" /\ reader[r].film = f
                       THEN IF result = "ok" THEN [reader[r] EXCEPT !.at = "read"] ELSE IdleReader
                       ELSE reader[r]
  BY DEF Tell
<1>2. IdleReader \in [at : ReaderSteps, film : Films \cup {AnyFilm}, grid : BOOLEAN]
      /\ IdleReader.at = "idle"
  BY DEF IdleReader, ReaderSteps
<1>3. \A r \in Readers :
        /\ [reader[r] EXCEPT !.at = "read"] \in [at : ReaderSteps, film : Films \cup {AnyFilm}, grid : BOOLEAN]
        /\ [reader[r] EXCEPT !.at = "read"].film = reader[r].film
  BY DEF Shape, ReaderSteps
<1>4. \A r \in Readers : reader'[r] \in [at : ReaderSteps, film : Films \cup {AnyFilm}, grid : BOOLEAN]
  BY <1>1, <1>2, <1>3 DEF Shape
<1>5. reader' \in [Readers -> [at : ReaderSteps, film : Films \cup {AnyFilm}, grid : BOOLEAN]]
  BY <1>4 DEF Tell
<1>6. ASSUME NEW r \in Readers, reader'[r].at \in {"cast", "read"}
      PROVE  reader'[r] = reader[r] \/ (reader'[r].film = f /\ result = "ok")
  BY <1>1, <1>2, <1>3, <1>6
<1> QED
  BY <1>5, <1>6

\* An expansion ends, well only if its film is written.
LEMMA CrawlEnds ==
    ASSUME Shape, Stages, NEW f \in Films, NEW result, EndCrawl(f, result),
           result = "ok" => f \in crawled',
           crawled \subseteq crawled', UNCHANGED <<task, profile>>,
           \A p \in People : task[f][p] = "no"
    PROVE  /\ Shape' /\ Stages'
           /\ crawl' = [crawl EXCEPT ![f] = NoCrawl]
           /\ \A r \in Readers : reader'[r].at \in {"cast", "read"} =>
                 reader'[r] = reader[r] \/ reader'[r].film \in crawled'
<1>1. crawl' = [crawl EXCEPT ![f] = NoCrawl]
  BY DEF EndCrawl
<1>2. NoCrawl \in [at : CrawlStages, leader : {"seed", "nobody"} \cup Workers] /\ NoCrawl.at = "no"
  BY DEF NoCrawl, CrawlStages
<1>3. crawl' \in [Films -> [at : CrawlStages, leader : {"seed", "nobody"} \cup Workers]]
  BY <1>1, <1>2 DEF Shape
<1>4. /\ reader' \in [Readers -> [at : ReaderSteps, film : Films \cup {AnyFilm}, grid : BOOLEAN]]
      /\ \A r \in Readers : reader'[r].at \in {"cast", "read"} =>
            reader'[r] = reader[r] \/ reader'[r].film \in crawled'
  <2>1. CASE Tell(f, result)
    BY <2>1, TellsReaders
  <2>2. CASE UNCHANGED reader
    BY <2>2 DEF Shape
  <2> QED
    BY <2>1, <2>2 DEF EndCrawl
<1>5. Stages'
  <2> SUFFICES ASSUME NEW g \in Films
               PROVE  /\ (crawl[g].at \notin {"first", "rest"} => \A p \in People : task[g][p] = "no")'
                      /\ (crawl[g].at \in {"directors", "first", "rest"} => g \in crawled)'
    BY DEF Stages
  <2>1. CASE g = f
    BY <1>1, <1>2, <2>1 DEF Shape
  <2>2. CASE g # f
    <3>1. crawl'[g] = crawl[g]
      BY <1>1, <2>2 DEF Shape
    <3> QED
      BY <3>1 DEF Stages
  <2> QED
    BY <2>1, <2>2
<1> QED
  BY <1>1, <1>3, <1>4, <1>5 DEF Shape

\* The stage of a film's expansion changes and nobody else's does.
LEMMA StageMoves ==
    ASSUME Shape, NEW f \in Films, NEW at \in CrawlStages, Stage(f, at)
    PROVE  /\ crawl' \in [Films -> [at : CrawlStages, leader : {"seed", "nobody"} \cup Workers]]
           /\ crawl'[f].at = at
           /\ \A g \in Films : g # f => crawl'[g] = crawl[g]
BY DEF Shape, Stage

\* An expansion that gets on, with no fan-out of its own yet.
LEMMA StagesAdvance ==
    ASSUME Shape, Stages, NEW f \in Films, NEW at \in CrawlStages, Stage(f, at),
           crawled \subseteq crawled', \A g \in Films, p \in People : g # f => task'[g][p] = task[g][p],
           at \notin {"first", "rest"} => \A p \in People : task'[f][p] = "no",
           at \in {"directors", "first", "rest"} => f \in crawled'
    PROVE  Stages'
<1> SUFFICES ASSUME NEW g \in Films
             PROVE  /\ (crawl[g].at \notin {"first", "rest"} => \A p \in People : task[g][p] = "no")'
                    /\ (crawl[g].at \in {"directors", "first", "rest"} => g \in crawled)'
  BY DEF Stages
<1>1. CASE g = f
  BY <1>1, StageMoves
<1>2. CASE g # f
  <2>1. crawl'[g] = crawl[g]
    BY <1>2, StageMoves
  <2> QED
    BY <1>2, <2>1 DEF Stages
<1> QED
  BY <1>1, <1>2

\* An expansion is started, or joined.
LEMMA ExpandStarts ==
    ASSUME Shape, Stages, FilmsHold, NEW f \in Films, NEW l \in {"seed"} \cup Workers, Expand(f, l),
           UNCHANGED <<crawled, directed, seenMovies, task, profile, reader>>
    PROVE  Shape' /\ Stages' /\ FilmsHold'
<1>1. CASE UNCHANGED crawl
  BY <1>1, FilmsStand DEF Shape, Stages
<1>2. CASE crawl[f].at = "no" /\ crawl' = [crawl EXCEPT ![f] = [at |-> "claim", leader |-> l]]
  <2>1. crawl' \in [Films -> [at : CrawlStages, leader : {"seed", "nobody"} \cup Workers]]
    BY <1>2 DEF Shape, CrawlStages
  <2>2. \A g \in Films : crawl'[g] = IF g = f THEN [at |-> "claim", leader |-> l] ELSE crawl[g]
    BY <1>2 DEF Shape
  <2>3. crawl'[f].at = "claim" /\ crawl[f].at = "no" /\ \A g \in Films : g # f => crawl'[g] = crawl[g]
    BY <1>2, <2>2
  <2>4. Stages'
    BY <2>3 DEF Stages
  <2>5. FilmsHold'
    BY <2>3 DEF FilmsHold, FilmsWritten, ReadsAreOfWritten
  <2> QED
    BY <2>1, <2>4, <2>5 DEF Shape
<1> QED
  BY <1>1, <1>2 DEF Expand

\* A film's claim is taken or given up as its expansion gets on.
LEMMA FilmsAdvance ==
    ASSUME Shape, FilmsHold, NEW f \in Films, NEW at \in CrawlStages, Stage(f, at),
           crawled \subseteq crawled', directed \subseteq directed',
           seenMovies' \subseteq seenMovies \cup {f}, UNCHANGED reader,
           f \in seenMovies' => \/ f \in crawled' /\ (Directors[f] = <<>> \/ f \in directed')
                                \/ at \in {"fetch", "cast", "directors"}
    PROVE  FilmsHold'
<1>1. crawl'[f].at = at /\ \A g \in Films : g # f => crawl'[g] = crawl[g]
  BY StageMoves
<1>2. FilmsWritten'
  <2> SUFFICES ASSUME NEW g \in seenMovies', g # f
               PROVE  \/ g \in crawled' /\ (Directors[g] = <<>> \/ g \in directed')
                      \/ crawl'[g].at \in {"fetch", "cast", "directors"}
    BY <1>1 DEF FilmsWritten
  <2>1. g \in seenMovies /\ crawl'[g] = crawl[g]
    BY <1>1 DEF FilmsHold
  <2> QED
    BY <2>1 DEF FilmsHold, FilmsWritten
<1>3. ReadsAreOfWritten'
  BY DEF FilmsHold, ReadsAreOfWritten
<1> QED
  BY <1>2, <1>3 DEF FilmsHold

\* An expansion is over: whoever joined it reads, or is turned away.
LEMMA EndKeepsAll ==
    ASSUME CrawlInductive, NEW f \in Films, NEW result, EndCrawl(f, result),
           result = "ok" => f \in crawled',
           crawled \subseteq crawled', directed \subseteq directed', seenMovies' \subseteq seenMovies,
           f \in seenMovies' => f \in crawled' /\ (Directors[f] = <<>> \/ f \in directed'),
           UNCHANGED <<task, profile, seenPeople>>,
           \A p \in People : task[f][p] = "no"
    PROVE  CrawlInductive'
<1> USE DEF CrawlInductive
<1>1. /\ Shape' /\ Stages'
      /\ crawl' = [crawl EXCEPT ![f] = NoCrawl]
      /\ \A r \in Readers : reader'[r].at \in {"cast", "read"} =>
            reader'[r] = reader[r] \/ reader'[r].film \in crawled'
  BY CrawlEnds
<1>2. \A g \in Films : g # f => crawl'[g] = crawl[g]
  BY <1>1 DEF Shape
<1>3. FilmsWritten'
  <2> SUFFICES ASSUME NEW g \in seenMovies', g # f
               PROVE  \/ g \in crawled' /\ (Directors[g] = <<>> \/ g \in directed')
                      \/ crawl'[g].at \in {"fetch", "cast", "directors"}
    BY DEF FilmsWritten
  <2>1. g \in seenMovies /\ crawl'[g] = crawl[g]
    BY <1>2 DEF FilmsHold
  <2> QED
    BY <2>1 DEF FilmsHold, FilmsWritten
<1>4. ReadsAreOfWritten'
  BY <1>1 DEF FilmsHold, ReadsAreOfWritten
<1>5. PeopleHold'
  BY WritingStands DEF Writing
<1> QED
  BY <1>1, <1>3, <1>4, <1>5 DEF FilmsHold

LEMMA ClaimKeeps ==
    ASSUME CrawlInductive, NEW f \in Films, Claim(f) PROVE CrawlInductive'
<1> USE DEF CrawlInductive
<1>0. crawl[f].at = "claim" /\ UNCHANGED <<graph, seenPeople, task>>
  BY DEF Claim
<1>1. \A p \in People : task[f][p] = "no"
  BY <1>0 DEF Stages
<1>2. CASE f \in seenMovies
  <2>1. EndCrawl(f, IF f \in late THEN "failed" ELSE "ok") /\ UNCHANGED seenMovies
    BY <1>2 DEF Claim
  <2>2. f \in crawled /\ (Directors[f] = <<>> \/ f \in directed)
    BY <1>0, <1>2 DEF FilmsHold, FilmsWritten
  <2> QED
    BY <1>0, <1>1, <2>1, <2>2, EndKeepsAll DEF graph
<1>3. CASE f \notin seenMovies
  <2>1. /\ seenMovies' = seenMovies \cup {f} /\ Stage(f, "fetch") /\ UNCHANGED reader
        /\ "fetch" \in CrawlStages
    BY <1>3 DEF Claim, CrawlStages
  <2>2. Stages'
    BY <1>0, <1>1, <2>1, StagesAdvance DEF graph
  <2>3. FilmsHold'
    BY <1>0, <2>1, FilmsAdvance DEF graph
  <2>4. PeopleHold'
    BY <1>0, WritingStands DEF Writing, graph
  <2> QED
    BY <1>0, <2>1, <2>2, <2>3, <2>4, StageMoves DEF Shape, graph
<1> QED
  BY <1>2, <1>3

\* An expansion comes to its people.
LEMMA WaveStarts ==
    ASSUME CrawlInductive, NEW f \in Films, NEW at \in {"first", "rest"}, NEW people,
           Stage(f, at), Wave(f, people), \A p \in People : task[f][p] = "no",
           f \in crawled', crawled \subseteq crawled', directed \subseteq directed',
           f \in seenMovies => Directors[f] = <<>> \/ f \in directed',
           UNCHANGED <<seenMovies, seenPeople, profile, reader>>
    PROVE  CrawlInductive'
<1> USE DEF CrawlInductive
<1>0. at \in CrawlStages /\ f \in Owners
  BY DEF CrawlStages, Owners
<1> DEFINE t == [p \in People |-> IF p \in people THEN "todo" ELSE "no"]
<1>1. t \in [People -> {"no", "todo"}] /\ task' = [task EXCEPT ![f] = t]
  BY DEF Wave
<1> HIDE DEF t
<1>2. PeopleHold' /\ task' \in [Owners -> [People -> Steps]]
  BY <1>0, <1>1, FanOutStarts
<1>3. \A g \in Films, p \in People : g # f => task'[g][p] = task[g][p]
  BY <1>1 DEF Shape, Owners
<1>4. Stages'
  BY <1>0, <1>3, StagesAdvance
<1>5. FilmsHold'
  BY <1>0, FilmsAdvance
<1> QED
  BY <1>0, <1>2, <1>4, <1>5, StageMoves DEF Shape

LEMMA MovieFetchedKeeps ==
    ASSUME CrawlInductive, NEW f \in Films, MovieFetched(f) PROVE CrawlInductive'
<1> USE DEF CrawlInductive
<1>1. /\ crawl[f].at = "fetch" /\ Stage(f, "cast") /\ "cast" \in CrawlStages
      /\ UNCHANGED <<crawled, directed, profile, seenMovies, seenPeople, task, reader>>
  BY DEF MovieFetched, graph, requests, CrawlStages
<1>2. \A p \in People : task[f][p] = "no"
  BY <1>1 DEF Stages
<1>3. Stages'
  BY <1>1, <1>2, StagesAdvance
<1>4. FilmsHold'
  BY <1>1, FilmsAdvance
<1>5. PeopleHold'
  BY <1>1, WritingStands DEF Writing
<1> QED
  BY <1>1, <1>3, <1>4, <1>5, StageMoves DEF Shape

LEMMA WriteCastKeeps ==
    ASSUME CrawlInductive, NEW f \in Films, WriteCast(f) PROVE CrawlInductive'
<1> USE DEF CrawlInductive
<1>1. /\ crawl[f].at = "cast" /\ crawled' = crawled \cup {f}
      /\ UNCHANGED <<directed, profile, seenMovies, seenPeople, reader>>
  BY DEF WriteCast, memory, requests
<1>2. \A p \in People : task[f][p] = "no"
  BY <1>1 DEF Stages
<1>3. CASE Directors[f] = <<>>
  <2>1. Stage(f, "first") /\ Wave(f, First(FirstWave, Candidates(f)))
    BY <1>3 DEF WriteCast, StartCast
  <2> QED
    BY <1>1, <1>2, <1>3, <2>1, WaveStarts
<1>4. CASE Directors[f] # <<>>
  <2>1. Stage(f, "directors") /\ UNCHANGED task /\ "directors" \in CrawlStages
    BY <1>4 DEF WriteCast, CrawlStages
  <2>2. Stages'
    BY <1>1, <1>2, <2>1, StagesAdvance
  <2>3. FilmsHold'
    BY <1>1, <2>1, FilmsAdvance
  <2>4. PeopleHold'
    BY <1>1, <2>1, WritingStands DEF Writing
  <2> QED
    BY <1>1, <2>1, <2>2, <2>3, <2>4, StageMoves DEF Shape
<1> QED
  BY <1>3, <1>4

LEMMA WriteDirectorsKeeps ==
    ASSUME CrawlInductive, NEW f \in Films, WriteDirectors(f) PROVE CrawlInductive'
<1> USE DEF CrawlInductive
<1>1. /\ crawl[f].at = "directors" /\ directed' = directed \cup {f}
      /\ Stage(f, "first") /\ Wave(f, First(FirstWave, Candidates(f)))
      /\ UNCHANGED <<crawled, profile, seenMovies, seenPeople, reader>>
  BY DEF WriteDirectors, StartCast, memory, requests
<1>2. f \in crawled /\ \A p \in People : task[f][p] = "no"
  BY <1>1 DEF Stages
<1> QED
  BY <1>1, <1>2, WaveStarts

LEMMA MovieFailsKeeps ==
    ASSUME CrawlInductive, NEW f \in Films, MovieFails(f) PROVE CrawlInductive'
<1> USE DEF CrawlInductive
<1>1. /\ crawl[f].at \in {"fetch", "cast", "directors"} /\ EndCrawl(f, "failed")
      /\ seenMovies' = seenMovies \ {f} /\ UNCHANGED <<profile, seenPeople, task>>
      /\ crawled \subseteq crawled' /\ directed \subseteq directed'
  BY DEF MovieFails
<1>2. \A p \in People : task[f][p] = "no"
  BY <1>1 DEF Stages
<1> QED
  BY <1>1, <1>2, EndKeepsAll

LEMMA RestOfCastKeeps ==
    ASSUME CrawlInductive, NEW f \in Films, RestOfCast(f) PROVE CrawlInductive'
<1> USE DEF CrawlInductive
<1>1. /\ crawl[f].at = "first" /\ \A p \in People : task[f][p] = "no"
      /\ Stage(f, "rest") /\ Wave(f, Range(Candidates(f)) \ First(FirstWave, Candidates(f)))
      /\ UNCHANGED <<crawled, directed, profile, seenMovies, seenPeople, reader>>
  BY DEF RestOfCast, NoTasks, graph, memory, requests
<1>2. f \in crawled /\ (f \in seenMovies => Directors[f] = <<>> \/ f \in directed)
  BY <1>1 DEF Stages, FilmsHold, FilmsWritten
<1> QED
  BY <1>1, <1>2, WaveStarts

LEMMA FinishCrawlKeeps ==
    ASSUME CrawlInductive, NEW f \in Films, FinishCrawl(f) PROVE CrawlInductive'
<1> USE DEF CrawlInductive
<1>1. /\ crawl[f].at = "rest" /\ \A p \in People : task[f][p] = "no"
      /\ EndCrawl(f, IF f \in late THEN "failed" ELSE "ok")
      /\ UNCHANGED <<crawled, directed, profile, seenMovies, seenPeople, task>>
  BY DEF FinishCrawl, NoTasks, graph, memory
<1>2. f \in crawled /\ (f \in seenMovies => Directors[f] = <<>> \/ f \in directed)
  BY <1>1 DEF Stages, FilmsHold, FilmsWritten
<1> QED
  BY <1>1, <1>2, EndKeepsAll

LEMMA StopStartingKeeps ==
    ASSUME CrawlInductive, NEW f \in Films, StopStarting(f) PROVE CrawlInductive'
<1> USE DEF CrawlInductive
<1>1. UNCHANGED <<crawled, directed, profile, seenMovies, seenPeople, crawl, reader>>
  BY DEF StopStarting, graph, memory, requests
<1> DEFINE t == [p \in People |-> IF task[f][p] = "todo" THEN "no" ELSE task[f][p]]
<1>2. task[f] \in [People -> Steps] /\ f \in Owners
  BY DEF Shape, Owners
<1>3. t \in [People -> Steps]
  BY <1>2 DEF Steps
<1>4. task' = [task EXCEPT ![f] = t]
  BY DEF StopStarting
<1>5. \A p \in People : t[p] = (IF task[f][p] = "todo" THEN "no" ELSE task[f][p])
  OBVIOUS
<1> HIDE DEF t
<1>6. /\ task' \in [Owners -> [People -> Steps]]
      /\ \A o \in Owners : task'[o] = IF o = f THEN t ELSE task[o]
  BY <1>3, <1>4 DEF Shape
<1>7. \A o \in Owners, p \in People : Writing(o, p)' <=> Writing(o, p)
  BY <1>5, <1>6 DEF Writing
<1>8. PeopleHold'
  BY <1>1, <1>7, WritingStands
<1>9. Stages'
  BY <1>1, <1>2, <1>5, <1>6 DEF Stages, Owners
<1>10. FilmsHold'
  BY <1>1, FilmsStand
<1> QED
  BY <1>1, <1>6, <1>8, <1>9, <1>10 DEF Shape

-----------------------------------------------------------------------------
(* The rest: fan-outs, the memories, requests, the gate and the warmer.    *)

LEMMA PersonKeeps ==
    ASSUME CrawlAssumption, CrawlInductive, NEW o \in Owners, NEW p \in People, PersonStep(o, p)
    PROVE  CrawlInductive'
<1>1. PeopleHold' /\ Stages' /\ Shape'
  BY PersonKeepsPeople
<1>2. UNCHANGED <<crawled, directed, seenMovies, crawl, reader>>
  BY DEF PersonStep, StartItem, PersonFetched, PersonLost, WriteCredits, CreditsFail,
         graph, memory, requests
<1>3. FilmsHold'
  BY <1>2, FilmsStand DEF CrawlInductive
<1> QED
  BY <1>1, <1>3 DEF CrawlInductive

LEMMA ForgetKeeps ==
    ASSUME CrawlInductive, NEW id \in Films \cup People, Forget(id) PROVE CrawlInductive'
<1> USE DEF CrawlInductive
<1>1. /\ UNCHANGED <<crawled, directed, profile, crawl, task, reader>>
      /\ seenMovies' \subseteq seenMovies
  BY DEF Forget, graph, flights, requests, memory
<1>2. \/ UNCHANGED seenPeople
      \/ /\ seenPeople' = seenPeople \ {id}
         /\ \A o \in Owners : task[o][id] \notin {"acted", "directed"}
  BY DEF Forget, memory
<1>3. PeopleHold'
  <2>1. CASE UNCHANGED seenPeople
    BY <1>1, <2>1, WritingStands DEF Writing
  <2>2. CASE seenPeople' = seenPeople \ {id} /\ \A o \in Owners : task[o][id] \notin {"acted", "directed"}
    BY <1>1, <2>2 DEF PeopleHold, PeopleWritten, OneWriterPerPerson, ClaimedFirst, Writing
  <2> QED
    BY <1>2, <2>1, <2>2
<1>4. FilmsHold'
  BY <1>1 DEF FilmsHold, FilmsWritten, ReadsAreOfWritten
<1> QED
  BY <1>1, <1>3, <1>4 DEF Shape, Stages

LEMMA FinishTimesOutKeeps ==
    ASSUME CrawlAssumption, CrawlInductive, NEW r \in Readers, FinishTimesOut(r)
    PROVE  CrawlInductive'
<1> USE DEF CrawlInductive
<1> DEFINE writing == {p \in People : task[r][p] \in {"acted", "directed"}}
<1>1. /\ UNCHANGED <<crawled, directed, seenMovies, crawl, reader>>
      /\ seenPeople' = seenPeople \ writing
      /\ task' = [task EXCEPT ![r] = NoTasks]
  BY DEF FinishTimesOut, requests
<1>2. PICK landed \in SUBSET writing :
        profile' = [p \in People |-> IF p \in landed THEN Written(p, task[r][p]) ELSE profile[p]]
  BY DEF FinishTimesOut
<1>3. \A p \in People : p \in writing <=> Writing(r, p)
  BY DEF Writing
<1>4. writing \subseteq People
  OBVIOUS
<1> HIDE DEF writing
<1>5. r \in Owners /\ NoTasks \in [People -> Steps] /\ \A p \in People : NoTasks[p] = "no"
  BY DEF Owners, NoTasks, Steps
<1>6. /\ task' \in [Owners -> [People -> Steps]]
      /\ \A o \in Owners : task'[o] = IF o = r THEN NoTasks ELSE task[o]
  BY <1>1, <1>5 DEF Shape
<1>7. /\ \A p \in People : ~Writing(r, p)'
      /\ \A o \in Owners, p \in People : o # r => (Writing(o, p)' <=> Writing(o, p))
  BY <1>5, <1>6 DEF Writing
<1>8. \A p \in People : Written(p, task[r][p]) \in {"none", "acted", "whole"}
  BY DEF Written, Shape
<1>9. /\ profile' \in [People -> {"none", "acted", "whole"}]
      /\ \A p \in People : p \notin writing => profile'[p] = profile[p]
  BY <1>2, <1>8 DEF Shape
<1>10. PeopleWritten'
  <2> SUFFICES ASSUME NEW p \in seenPeople, p \notin writing
               PROVE  profile'[p] = "whole" \/ \E o \in Owners : Writing(o, p)'
    BY <1>1 DEF PeopleWritten
  <2>1. p \in People /\ profile'[p] = profile[p] /\ ~Writing(r, p)
    BY <1>3, <1>9 DEF PeopleHold
  <2> QED
    BY <1>7, <2>1 DEF PeopleHold, PeopleWritten
<1>11. OneWriterPerPerson'
  <2>1. \A o \in Owners, p \in People : Writing(o, p)' => Writing(o, p)
    BY <1>7
  <2> QED
    BY <2>1 DEF PeopleHold, OneWriterPerPerson, Writing
<1>12. ClaimedFirst'
  <2> SUFFICES ASSUME NEW o \in Owners, NEW p \in People, Writing(o, p)'
               PROVE  p \in seenPeople \ writing
    BY <1>1 DEF ClaimedFirst
  <2>1. o # r /\ Writing(o, p)
    BY <1>7
  <2>2. ~Writing(r, p)
    BY <1>5, <2>1 DEF PeopleHold, OneWriterPerPerson, Writing
  <2> QED
    BY <1>3, <2>1, <2>2 DEF PeopleHold, ClaimedFirst
<1>13. Stages'
  <2>1. \A f \in Films : f # r /\ f \in Owners
    BY DEF CrawlAssumption, Owners
  <2> QED
    BY <1>1, <1>6, <2>1 DEF Stages
<1>14. FilmsHold'
  BY <1>1, FilmsStand
<1> QED
  BY <1>1, <1>6, <1>9, <1>10, <1>11, <1>12, <1>13, <1>14 DEF Shape, PeopleHold

LEMMA FinishCastKeeps ==
    ASSUME CrawlAssumption, CrawlInductive, NEW r \in Readers, FinishCast(r)
    PROVE  CrawlInductive'
<1> USE DEF CrawlInductive
<1> DEFINE t == [p \in People |-> IF p \in UnexpandedCast(reader[r].film) THEN "todo" ELSE "no"]
<1>1. /\ UNCHANGED <<crawled, directed, profile, seenMovies, seenPeople, crawl>>
      /\ reader[r].at = "cast" /\ At(r, "read") /\ \A p \in People : task[r][p] = "no"
      /\ task' = [task EXCEPT ![r] = t]
  BY DEF FinishCast, NoTasks, graph, memory
<1>2. t \in [People -> {"no", "todo"}] /\ r \in Owners
  BY DEF Owners
<1> HIDE DEF t
<1>3. PeopleHold' /\ task' \in [Owners -> [People -> Steps]]
  BY <1>1, <1>2, FanOutStarts
<1>4. Stages'
  <2>1. \A f \in Films : f # r /\ f \in Owners
    BY DEF CrawlAssumption, Owners
  <2> QED
    BY <1>1, <2>1 DEF Stages, Shape
<1>5. /\ reader' \in [Readers -> [at : ReaderSteps, film : Films \cup {AnyFilm}, grid : BOOLEAN]]
      /\ reader'[r].film = reader[r].film
      /\ \A q \in Readers : q # r => reader'[q] = reader[q]
  BY <1>1 DEF At, Shape, ReaderSteps
<1>6. reader[r].film \in crawled
  BY <1>1 DEF FilmsHold, ReadsAreOfWritten
<1>7. FilmsHold'
  BY <1>1, <1>5, <1>6, RequestsMove
<1> QED
  BY <1>1, <1>3, <1>4, <1>5, <1>7 DEF Shape

\* Only a request moves, and it reads only what is written.
LEMMA ReaderMoves ==
    ASSUME CrawlInductive,
           UNCHANGED <<crawled, directed, profile, seenMovies, seenPeople, crawl, task>>,
           reader' \in [Readers -> [at : ReaderSteps, film : Films \cup {AnyFilm}, grid : BOOLEAN]],
           \A r \in Readers : reader'[r].at \in {"cast", "read"} =>
               reader'[r] = reader[r] \/ reader'[r].film \in crawled
    PROVE  CrawlInductive'
<1> USE DEF CrawlInductive
<1>1. FilmsHold'
  BY RequestsMove
<1>2. PeopleHold'
  BY WritingStands DEF Writing
<1> QED
  BY <1>1, <1>2 DEF Shape, Stages

\* A request that is done, or moves on with its film.
LEMMA OneReaderMoves ==
    ASSUME CrawlInductive,
           UNCHANGED <<crawled, directed, profile, seenMovies, seenPeople, crawl, task>>,
           NEW r \in Readers,
           NEW now \in [at : ReaderSteps, film : Films \cup {AnyFilm}, grid : BOOLEAN],
           reader' = [reader EXCEPT ![r] = now],
           now.at \in {"cast", "read"} => now.film \in crawled
    PROVE  CrawlInductive'
<1>1. \A q \in Readers : reader'[q] = IF q = r THEN now ELSE reader[q]
  BY DEF CrawlInductive, Shape
<1>2. reader' \in [Readers -> [at : ReaderSteps, film : Films \cup {AnyFilm}, grid : BOOLEAN]]
  BY DEF CrawlInductive, Shape
<1> QED
  BY <1>1, <1>2, ReaderMoves

LEMMA DoneKeeps ==
    ASSUME CrawlInductive, NEW r \in Readers, Done(r),
           UNCHANGED <<crawled, directed, profile, seenMovies, seenPeople, crawl, task>>
    PROVE  CrawlInductive'
<1>1. IdleReader \in [at : ReaderSteps, film : Films \cup {AnyFilm}, grid : BOOLEAN]
      /\ IdleReader.at = "idle"
  BY DEF IdleReader, ReaderSteps
<1> QED
  BY <1>1, OneReaderMoves DEF Done

LEMMA WaitReadyKeeps ==
    ASSUME CrawlInductive, NEW r \in Readers, NEW f \in Films \cup {AnyFilm}, NEW grid \in BOOLEAN,
           WaitReady(r, f, grid),
           UNCHANGED <<crawled, directed, profile, seenMovies, seenPeople, crawl, task>>
    PROVE  CrawlInductive'
<1> DEFINE now == [at |-> IF MovieCrawled(f) THEN "read" ELSE "wait", film |-> f, grid |-> grid]
<1>1. now \in [at : ReaderSteps, film : Films \cup {AnyFilm}, grid : BOOLEAN]
  BY DEF ReaderSteps
<1>2. now.at \in {"cast", "read"} => now.film \in crawled
  BY DEF MovieCrawled
<1>3. reader' = [reader EXCEPT ![r] = now]
  BY DEF WaitReady
<1> HIDE DEF now
<1> QED
  BY <1>1, <1>2, <1>3, OneReaderMoves

LEMMA AskKeeps ==
    ASSUME CrawlAssumption, CrawlInductive, NEW r \in Readers, NEW q \in Requests, Ask(r, q[1], q[2])
    PROVE  CrawlInductive'
<1>1. q[1] \in Films /\ q[2] \in BOOLEAN
  BY DEF CrawlAssumption
<1>2. UNCHANGED <<crawled, directed, profile, seenMovies, seenPeople, crawl, task>>
  BY DEF Ask, graph, memory, flights
<1>3. CASE ~q[2]
  BY <1>1, <1>2, <1>3, WaitReadyKeeps DEF Ask
<1>4. CASE q[2]
  <2> DEFINE now == [at |-> IF MovieCrawled(q[1]) THEN "cast" ELSE "look", film |-> q[1], grid |-> q[2]]
  <2>1. now \in [at : ReaderSteps, film : Films \cup {AnyFilm}, grid : BOOLEAN]
    BY <1>1 DEF ReaderSteps
  <2>2. now.at \in {"cast", "read"} => now.film \in crawled
    BY DEF MovieCrawled
  <2>3. reader' = [reader EXCEPT ![r] = now]
    BY <1>4 DEF Ask
  <2> HIDE DEF now
  <2> QED
    BY <1>2, <2>1, <2>2, <2>3, OneReaderMoves
<1> QED
  BY <1>3, <1>4

LEMMA RequestKeeps ==
    ASSUME CrawlInductive, NEW r \in Readers,
           LookAgain(r) \/ Poll(r) \/ Leave(r) \/ RequestFails(r) \/ Answer(r) \/ OfferNext(r)
    PROVE  CrawlInductive'
<1>1. UNCHANGED <<crawled, directed, profile, seenMovies, seenPeople, crawl, task>>
  BY DEF LookAgain, Poll, Leave, RequestFails, Answer, OfferNext, graph, memory, flights
<1>2. reader[r] \in [at : ReaderSteps, film : Films \cup {AnyFilm}, grid : BOOLEAN]
  BY DEF CrawlInductive, Shape
<1>3. CASE LookAgain(r)
  BY <1>1, <1>2, <1>3, WaitReadyKeeps DEF LookAgain
<1>4. CASE Poll(r) \/ At(r, "offer")
  <2>1. PICK at \in {"read", "offer"} :
          /\ reader' = [reader EXCEPT ![r] = [reader[r] EXCEPT !.at = at]]
          /\ at = "read" => reader[r].film \in crawled
    BY <1>4 DEF Poll, At, MovieCrawled
  <2>2. /\ [reader[r] EXCEPT !.at = at] \in [at : ReaderSteps, film : Films \cup {AnyFilm}, grid : BOOLEAN]
        /\ [reader[r] EXCEPT !.at = at].at = at
        /\ [reader[r] EXCEPT !.at = at].film = reader[r].film
    BY <1>2 DEF ReaderSteps
  <2> QED
    BY <1>1, <2>1, <2>2, OneReaderMoves
<1>5. CASE Done(r)
  BY <1>1, <1>5, DoneKeeps
<1>6. CASE UNCHANGED reader
  BY <1>1, <1>6, ReaderMoves DEF CrawlInductive, Shape
<1> QED
  BY <1>3, <1>4, <1>5, <1>6 DEF Leave, RequestFails, Answer, OfferNext

\* A crawl on demand that is given up: whoever waits for it is turned away.
LEMMA GivenUpKeeps ==
    ASSUME CrawlInductive, NEW f \in Films, TurnedAway(f) \/ SeedTimesOut(f) PROVE CrawlInductive'
<1>1. UNCHANGED <<crawled, directed, profile, seenMovies, seenPeople, crawl, task>>
  BY DEF TurnedAway, SeedTimesOut, graph, memory, flights
<1>2. PICK result \in {"busy", "late"} : Tell(f, result)
  BY DEF TurnedAway, SeedTimesOut
<1> QED
  BY <1>1, <1>2, TellsReaders, ReaderMoves DEF CrawlInductive

LEMMA ExpandKeeps ==
    ASSUME CrawlInductive, NEW f \in Films, NEW l \in {"seed"} \cup Workers, Expand(f, l),
           UNCHANGED <<crawled, directed, seenMovies, seenPeople, task, profile, reader>>
    PROVE  CrawlInductive'
<1>1. Shape' /\ Stages' /\ FilmsHold'
  BY ExpandStarts DEF CrawlInductive
<1>2. PeopleHold'
  BY WritingStands DEF CrawlInductive, Writing
<1> QED
  BY <1>1, <1>2 DEF CrawlInductive

\* A step that changes none of it.
LEMMA NothingMoves ==
    ASSUME CrawlInductive,
           UNCHANGED <<crawled, directed, profile, seenMovies, seenPeople, crawl, task, reader>>
    PROVE  CrawlInductive'
BY ReaderMoves DEF CrawlInductive, Shape

LEMMA WorkerKeeps ==
    ASSUME CrawlInductive, NEW w \in Workers, WarmStep(w) \/ WarmTimesOut(w)
    PROVE  CrawlInductive'
<1>1. CASE Check(w)
  <2>1. UNCHANGED <<crawled, directed, profile, seenMovies, seenPeople, task, reader>>
    BY <1>1 DEF Check, graph, memory, requests
  <2>2. CASE Expand(worker[w].film, w)
    <3>1. CASE worker[w].film \in Films
      BY <2>1, <2>2, <3>1, ExpandKeeps
    <3>2. CASE worker[w].film \notin Films
      <4>1. crawl = [f \in Films |-> crawl[f]]
        BY DEF CrawlInductive, Shape
      <4>2. ASSUME NEW x, crawl' = [crawl EXCEPT ![worker[w].film] = x]
            PROVE  crawl' = [f \in Films |-> crawl[f]]
        BY <3>2, <4>1, <4>2
      <4>3. UNCHANGED crawl
        BY <2>2, <4>1, <4>2 DEF Expand
      <4> QED
        BY <2>1, <4>3, NothingMoves
    <3> QED
      BY <3>1, <3>2
  <2>3. CASE UNCHANGED crawl
    BY <2>1, <2>3, NothingMoves
  <2> QED
    BY <1>1, <2>2, <2>3 DEF Check
<1>2. CASE Receive(w) \/ TryTake(w) \/ Requeue(w) \/ WarmTimesOut(w)
  BY <1>2, NothingMoves
     DEF Receive, TryTake, Requeue, WarmTimesOut, graph, memory, flights, requests
<1> QED
  BY <1>1, <1>2 DEF WarmStep

LEMMA RestartKeeps ==
    ASSUME CrawlInductive, Restart PROVE CrawlInductive'
<1>1. /\ seenMovies' = {} /\ seenPeople' = {} /\ UNCHANGED <<crawled, directed, profile>>
      /\ crawl' = [f \in Films |-> NoCrawl]
      /\ task' = [o \in Owners |-> NoTasks]
      /\ reader' = [r \in Readers |-> IdleReader]
  BY DEF Restart, graph
<1>2. /\ NoCrawl \in [at : CrawlStages, leader : {"seed", "nobody"} \cup Workers]
      /\ NoCrawl.at = "no"
  BY DEF NoCrawl, CrawlStages
<1>3. IdleReader \in [at : ReaderSteps, film : Films \cup {AnyFilm}, grid : BOOLEAN]
      /\ IdleReader.at = "idle"
  BY DEF IdleReader, ReaderSteps
<1>4. NoTasks \in [People -> Steps] /\ \A p \in People : NoTasks[p] = "no"
  BY DEF NoTasks, Steps
<1>5. Shape'
  BY <1>1, <1>2, <1>3, <1>4 DEF CrawlInductive, Shape
<1>6. \A o \in Owners, p \in People : task'[o][p] = "no"
  BY <1>1, <1>4
<1>7. Stages'
  BY <1>1, <1>2, <1>6 DEF Stages, Owners
<1>8. FilmsHold'
  BY <1>1, <1>3 DEF FilmsHold, FilmsWritten, ReadsAreOfWritten
<1>9. PeopleHold'
  BY <1>1, <1>6 DEF PeopleHold, PeopleWritten, OneWriterPerPerson, ClaimedFirst, Writing
<1> QED
  BY <1>5, <1>7, <1>8, <1>9 DEF CrawlInductive

LEMMA CrawlBegins == ASSUME Init PROVE CrawlInductive
<1>1. /\ seenMovies = {} /\ seenPeople = {}
      /\ profile = [p \in People |->
                      IF \E f \in Known : p \in Range(Cast[f] \o Directors[f]) THEN "whole" ELSE "none"]
      /\ crawl = [f \in Films |-> NoCrawl]
      /\ task = [o \in Owners |-> NoTasks]
      /\ reader = [r \in Readers |-> IdleReader]
  BY DEF Init
<1>2. /\ NoCrawl \in [at : CrawlStages, leader : {"seed", "nobody"} \cup Workers]
      /\ NoCrawl.at = "no"
  BY DEF NoCrawl, CrawlStages
<1>3. IdleReader \in [at : ReaderSteps, film : Films \cup {AnyFilm}, grid : BOOLEAN]
      /\ IdleReader.at = "idle"
  BY DEF IdleReader, ReaderSteps
<1>4. NoTasks \in [People -> Steps] /\ \A p \in People : NoTasks[p] = "no"
  BY DEF NoTasks, Steps
<1>5. profile \in [People -> {"none", "acted", "whole"}]
  BY <1>1
<1>6. Shape
  BY <1>1, <1>2, <1>3, <1>4, <1>5 DEF Shape
<1>7. \A o \in Owners, p \in People : task[o][p] = "no"
  BY <1>1, <1>4
<1>8. Stages
  BY <1>1, <1>2, <1>7 DEF Stages, Owners
<1>9. FilmsHold
  BY <1>1, <1>3 DEF FilmsHold, FilmsWritten, ReadsAreOfWritten
<1>10. PeopleHold
  BY <1>1, <1>7 DEF PeopleHold, PeopleWritten, OneWriterPerPerson, ClaimedFirst, Writing
<1> QED
  BY <1>6, <1>8, <1>9, <1>10 DEF CrawlInductive

LEMMA CrawlStep ==
    ASSUME CrawlAssumption, CrawlInductive, [Next]_vars PROVE CrawlInductive'
<1>1. ASSUME NEW f \in Films,
             ExpansionStep(f) \/ MovieFails(f) \/ TakeSlot(f) \/ TurnedAway(f) \/ SeedTimesOut(f)
      PROVE  CrawlInductive'
  <2>1. CASE TakeSlot(f)
    BY <2>1, ExpandKeeps DEF TakeSlot, graph, memory, requests
  <2>2. CASE TurnedAway(f) \/ SeedTimesOut(f)
    BY <2>2, GivenUpKeeps
  <2> QED
    BY <1>1, <2>1, <2>2, ClaimKeeps, MovieFetchedKeeps, WriteCastKeeps, WriteDirectorsKeeps,
       RestOfCastKeeps, StopStartingKeeps, FinishCrawlKeeps, MovieFailsKeeps DEF ExpansionStep
<1>2. ASSUME NEW o \in Owners,
             FanOut(o) \/ \E p \in People : PersonLost(o, p) \/ CreditsFail(o, p)
      PROVE  CrawlInductive'
  <2>1. PICK p \in People : PersonStep(o, p)
    BY <1>2 DEF FanOut, PersonStep
  <2> QED
    BY <2>1, PersonKeeps
<1>3. ASSUME NEW id \in Films \cup People, Forget(id)
      PROVE  CrawlInductive'
  BY <1>3, ForgetKeeps
<1>4. ASSUME NEW r \in Readers,
             \/ \E q \in Requests : Ask(r, q[1], q[2])
             \/ RequestStep(r) \/ Leave(r) \/ RequestFails(r) \/ FinishTimesOut(r)
      PROVE  CrawlInductive'
  BY <1>4, AskKeeps, RequestKeeps, FinishCastKeeps, FinishTimesOutKeeps DEF RequestStep
<1>5. ASSUME NEW w \in Workers, WarmStep(w) \/ WarmTimesOut(w)
      PROVE  CrawlInductive'
  BY <1>5, WorkerKeeps
<1>6. CASE Restart
  BY <1>6, RestartKeeps
<1>7. CASE UNCHANGED vars
  BY <1>7, NothingMoves DEF vars, graph, memory, flights, requests
<1> QED
  BY <1>1, <1>2, <1>3, <1>4, <1>5, <1>6, <1>7 DEF Next

\* Whatever the interleaving of expansions, cast-finishers, warmers and
\* requests, and whatever fails: the facts above hold.
THEOREM CrawlAlways == ASSUME CrawlAssumption PROVE Spec => []CrawlInductive
<1>1. Init => CrawlInductive
  BY CrawlBegins
<1>2. CrawlInductive /\ [Next]_vars => CrawlInductive'
  BY CrawlStep
<1> QED
  BY <1>1, <1>2, PTL DEF Spec
-----------------------------------------------------------------------------
(* The gate and the warmer.                                                *)
(*                                                                         *)
(* Who holds a slot are two sets, of films crawled on demand and of        *)
(* workers; every slot is counted by growing or shrinking one of them.     *)

SeedSteps == {"no", "slot", "crawl"}
WarmSteps == {"idle", "clear", "backoff", "check", "crawl"}

GateTypes ==
    /\ crawled \subseteq Films /\ directed \subseteq Films /\ late \subseteq Films
    /\ mustExpand \subseteq People
    /\ seed \in [Films -> SeedSteps]
    /\ offer \in [Readers -> SUBSET Films]
    /\ worker \in [Workers -> [at : WarmSteps, film : Films]]
    /\ queue \in Seq(Films) /\ Len(queue) <= QueueSize
    /\ queued \subseteq Films

Seeding == {f \in Films : seed[f] = "crawl"}
AtWork == {w \in Workers : worker[w].at \in {"check", "crawl"}}

SlotsCounted ==
    /\ IsFiniteSet(Seeding) /\ IsFiniteSet(AtWork)
    /\ taken = Cardinality(Seeding) + Cardinality(AtWork)
    /\ taken <= Slots

\* An expansion whose context is alive is led by a holder of a slot.
LedByHolders ==
    \A f \in Films : crawl[f].at # "no" /\ f \notin late =>
        \/ crawl[f].leader = "seed" /\ seed[f] = "crawl"
        \/ crawl[f].leader \in Workers
           /\ worker[crawl[f].leader] = [at |-> "crawl", film |-> f]

GateInductive == GateTypes /\ SlotsCounted /\ LedByHolders /\ QueuedIsHeld

LEMMA FilmExists ==
    ASSUME CrawlAssumption
    PROVE  /\ AnyFilm \in Films
           /\ IdleWorker \in [at : WarmSteps, film : Films] /\ IdleWorker.at = "idle"
BY DEF CrawlAssumption, AnyFilm, IdleWorker, WarmSteps

\* Everyone credited is somebody.
LEMMA CreditedArePeople ==
    ASSUME CrawlAssumption, NEW f \in Films PROVE Credited(f) \subseteq People
<1>1. Directors[f] \in Seq(People) /\ Cast[f] \in Seq(People)
  BY DEF CrawlAssumption
<1> QED
  BY <1>1 DEF Credited, Range

\* A step of an expansion, a fan-out or a request that leaves the gate and
\* the warmer alone: expansions go on as they were led, or end.
LEMMA QuietKeeps ==
    ASSUME GateInductive, UNCHANGED <<seed, taken, late, worker, queue, queued>>,
           crawled \subseteq crawled', crawled' \subseteq Films, directed' \subseteq Films,
           mustExpand' \subseteq People, offer' \in [Readers -> SUBSET Films],
           \A f \in Films : crawl'[f].at # "no" =>
               crawl[f].at # "no" /\ crawl'[f].leader = crawl[f].leader
    PROVE  GateInductive'
<1>1. GateTypes'
  BY DEF GateInductive, GateTypes
<1>2. Seeding' = Seeding /\ AtWork' = AtWork
  BY DEF Seeding, AtWork
<1>3. SlotsCounted'
  BY <1>2 DEF GateInductive, SlotsCounted
<1>4. LedByHolders'
  BY DEF GateInductive, LedByHolders
<1>5. QueuedIsHeld'
  BY DEF GateInductive, QueuedIsHeld
<1> QED
  BY <1>1, <1>3, <1>4, <1>5 DEF GateInductive

\* The same, of a step that changes nothing of the graph but a person's
\* profile, and no expansion.
LEMMA NothingOfTheGate ==
    ASSUME GateInductive, UNCHANGED <<seed, taken, late, worker, queue, queued>>,
           UNCHANGED <<crawled, directed, mustExpand, offer, crawl>>
    PROVE  GateInductive'
<1>1. crawled' \subseteq Films /\ directed' \subseteq Films /\ mustExpand' \subseteq People
      /\ offer' \in [Readers -> SUBSET Films]
  BY DEF GateInductive, GateTypes
<1> QED
  BY <1>1, QuietKeeps

\* A stage of an expansion.
LEMMA StageIsQuiet ==
    ASSUME Shape, NEW f \in Films, NEW at \in CrawlStages, crawl[f].at # "no", Stage(f, at)
    PROVE  \A g \in Films : crawl'[g].at # "no" =>
               crawl[g].at # "no" /\ crawl'[g].leader = crawl[g].leader
BY DEF Shape, Stage

\* An expansion is over, and the slots of all who joined it come back.
LEMMA EndReturnsSlots ==
    ASSUME CrawlAssumption, Shape, GateInductive, NEW f \in Films, NEW result \in {"ok", "failed"},
           EndCrawl(f, result), result = "ok" => f \in crawled',
           crawled \subseteq crawled', crawled' \subseteq Films, directed' \subseteq Films,
           UNCHANGED <<mustExpand, offer, queue>>
    PROVE  GateInductive'
<1> DEFINE warming == {w \in Workers : worker[w] = [at |-> "crawl", film |-> f]}
<1> USE DEF GateInductive
<1>1. /\ crawl' = [crawl EXCEPT ![f] = NoCrawl]
      /\ late' = late \ {f}
      /\ seed' = IF seed[f] = "crawl" THEN [seed EXCEPT ![f] = "no"] ELSE seed
      /\ worker' = [w \in Workers |-> IF w \in warming THEN IdleWorker ELSE worker[w]]
      /\ taken' = taken - Cardinality(warming) - (IF seed[f] = "crawl" THEN 1 ELSE 0)
      /\ queued' = IF result = "failed" /\ warming # {} THEN queued \ {f} ELSE queued
  BY DEF EndCrawl
<1>2. warming \subseteq AtWork /\ \A w \in warming : worker[w].at = "crawl" /\ worker[w].film = f
  BY DEF AtWork
<1>3. \A w \in Workers : worker'[w] = IF w \in warming THEN IdleWorker ELSE worker[w]
  BY <1>1
<1>4. \A w \in Workers : w \in warming <=> worker[w] = [at |-> "crawl", film |-> f]
  OBVIOUS
<1> HIDE DEF warming
<1>5. GateTypes'
  <2>1. worker' \in [Workers -> [at : WarmSteps, film : Films]]
    BY <1>1, FilmExists DEF GateTypes
  <2>2. seed' \in [Films -> SeedSteps]
    BY <1>1 DEF GateTypes, SeedSteps
  <2>3. late' \subseteq Films /\ queued' \subseteq Films
    BY <1>1 DEF GateTypes
  <2> QED
    BY <2>1, <2>2, <2>3 DEF GateTypes
<1>6. SlotsCounted'
  <2>1. AtWork' = AtWork \ warming
    BY <1>2, <1>3, FilmExists DEF AtWork
  <2>2. Seeding' = IF seed[f] = "crawl" THEN Seeding \ {f} ELSE Seeding
    BY <1>1 DEF Seeding, GateTypes
  <2>3. AtWork \cap warming = warming
    BY <1>2
  <2>4. IsFiniteSet(AtWork \ warming) /\ IsFiniteSet(warming)
        /\ Cardinality(AtWork \ warming) = Cardinality(AtWork) - Cardinality(warming)
    <3>1. IsFiniteSet(AtWork)
      BY DEF SlotsCounted
    <3>2. IsFiniteSet(warming)
      BY <1>2, <3>1, FS_Subset
    <3> QED
      BY <2>3, <3>1, <3>2, FS_Difference
  <2>5. IsFiniteSet(Seeding')
        /\ Cardinality(Seeding') = Cardinality(Seeding) - (IF seed[f] = "crawl" THEN 1 ELSE 0)
    <3>1. CASE seed[f] = "crawl"
      <4>1. f \in Seeding /\ Seeding' = Seeding \ {f} /\ IsFiniteSet(Seeding)
        BY <2>2, <3>1 DEF SlotsCounted, Seeding
      <4>2. IsFiniteSet(Seeding \ {f}) /\ Cardinality(Seeding \ {f}) = Cardinality(Seeding) - 1
        BY <4>1, FS_RemoveElement
      <4> QED
        BY <3>1, <4>1, <4>2
    <3>2. CASE seed[f] # "crawl"
      <4>1. Cardinality(Seeding) \in Nat
        BY FS_CardinalityType DEF SlotsCounted
      <4> QED
        BY <2>2, <3>2, <4>1 DEF SlotsCounted
    <3> QED
      BY <3>1, <3>2
  <2>6. Cardinality(AtWork) \in Nat /\ Cardinality(Seeding) \in Nat /\ Cardinality(warming) \in Nat
        /\ Slots \in Nat
    BY <2>4, FS_CardinalityType DEF SlotsCounted, CrawlAssumption
  <2> DEFINE a == Cardinality(AtWork)
             s == Cardinality(Seeding)
             n == Cardinality(warming)
             one == IF seed[f] = "crawl" THEN 1 ELSE 0
  <2>7. taken = s + a /\ taken <= Slots /\ taken' = taken - n - one
        /\ one \in {0, 1} /\ a \in Nat /\ s \in Nat /\ n \in Nat /\ Slots \in Nat
    BY <1>1, <2>6 DEF SlotsCounted
  <2>8. Cardinality(AtWork') = a - n /\ Cardinality(Seeding') = s - one
    BY <2>1, <2>4, <2>5
  <2>9. IsFiniteSet(Seeding') /\ IsFiniteSet(AtWork')
    BY <2>1, <2>4, <2>5
  <2> HIDE DEF a, s, n, one
  <2>10. taken' = (s - one) + (a - n) /\ taken' <= Slots
    BY <2>7
  <2> QED
    BY <2>8, <2>9, <2>10 DEF SlotsCounted, CrawlAssumption
<1>7. LedByHolders'
  <2> SUFFICES ASSUME NEW g \in Films, crawl'[g].at # "no", g \notin late'
               PROVE  \/ crawl'[g].leader = "seed" /\ seed'[g] = "crawl"
                      \/ crawl'[g].leader \in Workers
                         /\ worker'[crawl'[g].leader] = [at |-> "crawl", film |-> g]
    BY DEF LedByHolders
  <2>1. g # f
    BY <1>1 DEF Shape, NoCrawl
  <2>2. crawl'[g] = crawl[g] /\ g \notin late /\ seed'[g] = seed[g]
    BY <1>1, <2>1 DEF Shape, GateTypes
  <2>3. CASE crawl[g].leader = "seed" /\ seed[g] = "crawl"
    BY <2>2, <2>3
  <2>4. CASE crawl[g].leader \in Workers /\ worker[crawl[g].leader] = [at |-> "crawl", film |-> g]
    <3>1. crawl[g].leader \notin warming
      BY <1>2, <2>1, <2>4
    <3> QED
      BY <1>3, <2>2, <2>4, <3>1
  <2> QED
    BY <2>2, <2>3, <2>4 DEF LedByHolders
<1>8. QueuedIsHeld'
  <2> SUFFICES ASSUME NEW g \in queued', g \notin crawled', g \notin Range(queue')
               PROVE  \E w \in Workers : worker'[w].at # "idle" /\ worker'[w].film = g
    BY DEF QueuedIsHeld
  <2>1. g \in queued /\ g \notin crawled /\ g \notin Range(queue)
    BY <1>1
  <2>2. PICK w \in Workers : worker[w].at # "idle" /\ worker[w].film = g
    BY <2>1 DEF QueuedIsHeld
  <2>3. w \notin warming
    BY <1>1, <1>2, <2>2
  <2> QED
    BY <1>3, <2>2, <2>3
<1> QED
  BY <1>5, <1>6, <1>7, <1>8

\* Expansions of other films are as they were; this one's leader, if it has
\* a new one, is the caller.
LEMMA ExpandLeads ==
    ASSUME Shape, NEW f \in Films, NEW l \in {"seed"} \cup Workers, Expand(f, l)
    PROVE  /\ \A g \in Films : g # f => crawl'[g] = crawl[g]
           /\ crawl'[f] = crawl[f] \/ crawl'[f].leader = l
BY DEF Shape, Expand

\* A slot is taken by one more holder.
LEMMA SlotTaken ==
    ASSUME CrawlAssumption, SlotsCounted, taken < Slots, taken' = taken + 1, NEW x,
           \/ x \notin Seeding /\ Seeding' = Seeding \cup {x} /\ AtWork' = AtWork
           \/ x \notin AtWork /\ AtWork' = AtWork \cup {x} /\ Seeding' = Seeding
    PROVE  SlotsCounted'
<1>1. IsFiniteSet(Seeding) /\ IsFiniteSet(AtWork) /\ taken = Cardinality(Seeding) + Cardinality(AtWork)
  BY DEF SlotsCounted
<1>2. Cardinality(Seeding) \in Nat /\ Cardinality(AtWork) \in Nat /\ Slots \in Nat
  BY <1>1, FS_CardinalityType DEF CrawlAssumption
<1>3. IsFiniteSet(Seeding') /\ IsFiniteSet(AtWork')
      /\ \/ Cardinality(Seeding') = Cardinality(Seeding) + 1 /\ Cardinality(AtWork') = Cardinality(AtWork)
         \/ Cardinality(Seeding') = Cardinality(Seeding) /\ Cardinality(AtWork') = Cardinality(AtWork) + 1
  <2>1. CASE x \notin Seeding /\ Seeding' = Seeding \cup {x} /\ AtWork' = AtWork
    BY <1>1, <2>1, FS_AddElement
  <2>2. CASE x \notin AtWork /\ AtWork' = AtWork \cup {x} /\ Seeding' = Seeding
    BY <1>1, <2>2, FS_AddElement
  <2> QED
    BY <2>1, <2>2
<1> DEFINE s == Cardinality(Seeding)
           a == Cardinality(AtWork)
           sNext == Cardinality(Seeding')
           aNext == Cardinality(AtWork')
<1>4. /\ s \in Nat /\ a \in Nat /\ Slots \in Nat /\ taken = s + a
      /\ s + a < Slots /\ taken' = (s + a) + 1
      /\ (sNext = s + 1 /\ aNext = a) \/ (sNext = s /\ aNext = a + 1)
  BY <1>1, <1>2, <1>3
<1>5. taken' = sNext + aNext /\ taken' <= Slots
  <2> HIDE DEF s, a, sNext, aNext
  <2>1. taken' = sNext + aNext
    <3>1. CASE sNext = s + 1 /\ aNext = a
      BY <1>4, <3>1
    <3>2. CASE sNext = s /\ aNext = a + 1
      BY <1>4, <3>2
    <3> QED
      BY <1>4, <3>1, <3>2
  <2>2. taken' <= Slots
    BY <1>4
  <2> QED
    BY <2>1, <2>2
<1> QED
  BY <1>3, <1>5 DEF SlotsCounted

\* A slot comes back from its holder.
LEMMA SlotReturned ==
    ASSUME CrawlAssumption, SlotsCounted, taken' = taken - 1, NEW x,
           \/ x \in Seeding /\ Seeding' = Seeding \ {x} /\ AtWork' = AtWork
           \/ x \in AtWork /\ AtWork' = AtWork \ {x} /\ Seeding' = Seeding
    PROVE  SlotsCounted'
<1>1. IsFiniteSet(Seeding) /\ IsFiniteSet(AtWork) /\ taken <= Slots
      /\ taken = Cardinality(Seeding) + Cardinality(AtWork)
  BY DEF SlotsCounted
<1>2. Cardinality(Seeding) \in Nat /\ Cardinality(AtWork) \in Nat /\ Slots \in Nat
  BY <1>1, FS_CardinalityType DEF CrawlAssumption
<1>3. IsFiniteSet(Seeding') /\ IsFiniteSet(AtWork')
      /\ \/ Cardinality(Seeding') = Cardinality(Seeding) - 1 /\ Cardinality(AtWork') = Cardinality(AtWork)
         \/ Cardinality(Seeding') = Cardinality(Seeding) /\ Cardinality(AtWork') = Cardinality(AtWork) - 1
  <2>1. CASE x \in Seeding /\ Seeding' = Seeding \ {x} /\ AtWork' = AtWork
    BY <1>1, <2>1, FS_RemoveElement
  <2>2. CASE x \in AtWork /\ AtWork' = AtWork \ {x} /\ Seeding' = Seeding
    BY <1>1, <2>2, FS_RemoveElement
  <2> QED
    BY <2>1, <2>2
<1> DEFINE s == Cardinality(Seeding)
           a == Cardinality(AtWork)
           sNext == Cardinality(Seeding')
           aNext == Cardinality(AtWork')
<1>4. /\ s \in Nat /\ a \in Nat /\ Slots \in Nat /\ taken = s + a /\ taken <= Slots
      /\ (sNext = s - 1 /\ aNext = a) \/ (sNext = s /\ aNext = a - 1)
  BY <1>1, <1>2, <1>3
<1>5. taken' = sNext + aNext /\ taken' <= Slots
  <2> HIDE DEF s, a, sNext, aNext
  <2> QED
    BY <1>4
<1> QED
  BY <1>3, <1>5 DEF SlotsCounted

\* A crawl on demand gets its slot.
LEMMA TakeSlotCounts ==
    ASSUME CrawlAssumption, Shape, GateInductive, NEW f \in Films, TakeSlot(f)
    PROVE  GateInductive'
<1> USE DEF GateInductive
<1>1. /\ seed[f] = "slot" /\ taken < Slots /\ taken' = taken + 1
      /\ seed' = [seed EXCEPT ![f] = "crawl"] /\ Expand(f, "seed")
      /\ UNCHANGED <<crawled, directed, mustExpand, late, offer, worker, queue, queued>>
  BY DEF TakeSlot, graph, memory, requests, warmer
<1>2. /\ \A g \in Films : g # f => crawl'[g] = crawl[g]
      /\ crawl'[f] = crawl[f] \/ crawl'[f].leader = "seed"
  BY <1>1, ExpandLeads
<1>3. seed' \in [Films -> SeedSteps] /\ seed'[f] = "crawl"
      /\ \A g \in Films : g # f => seed'[g] = seed[g]
  BY <1>1 DEF GateTypes, SeedSteps
<1>4. GateTypes'
  BY <1>1, <1>3 DEF GateTypes
<1>5. SlotsCounted'
  <2>1. AtWork' = AtWork /\ f \notin Seeding
    BY <1>1 DEF AtWork, Seeding
  <2>2. Seeding' = Seeding \cup {f}
    BY <1>1, <1>3 DEF Seeding
  <2> QED
    BY <1>1, <2>1, <2>2, SlotTaken
<1>6. LedByHolders'
  <2> SUFFICES ASSUME NEW g \in Films, crawl'[g].at # "no", g \notin late'
               PROVE  \/ crawl'[g].leader = "seed" /\ seed'[g] = "crawl"
                      \/ crawl'[g].leader \in Workers
                         /\ worker'[crawl'[g].leader] = [at |-> "crawl", film |-> g]
    BY DEF LedByHolders
  <2>1. CASE g = f /\ crawl'[f].leader = "seed"
    BY <1>3, <2>1
  <2>2. CASE crawl'[g] = crawl[g]
    BY <1>1, <1>3, <2>2 DEF LedByHolders
  <2> QED
    BY <1>2, <2>1, <2>2
<1>7. QueuedIsHeld'
  BY <1>1 DEF QueuedIsHeld
<1> QED
  BY <1>4, <1>5, <1>6, <1>7

\* A request's crawl is asked for, or turned away before it has a slot.
LEMMA NoSlotYet ==
    ASSUME GateInductive, NEW f \in Films, NEW st \in {"no", "slot"},
           seed[f] # "crawl", seed' = [seed EXCEPT ![f] = st],
           UNCHANGED <<crawled, directed, mustExpand, offer, late, crawl, taken, worker, queue, queued>>
    PROVE  GateInductive'
<1> USE DEF GateInductive
<1>1. seed' \in [Films -> SeedSteps] /\ \A g \in Films : seed'[g] = "crawl" <=> seed[g] = "crawl"
  BY DEF GateTypes, SeedSteps
<1>2. GateTypes'
  BY <1>1 DEF GateTypes
<1>3. Seeding' = Seeding /\ AtWork' = AtWork
  BY <1>1 DEF Seeding, AtWork
<1>4. SlotsCounted'
  BY <1>3 DEF SlotsCounted
<1>5. LedByHolders'
  BY <1>1 DEF LedByHolders
<1>6. QueuedIsHeld'
  BY DEF QueuedIsHeld
<1> QED
  BY <1>2, <1>4, <1>5, <1>6

\* The deadline of a crawl on demand: if it leads, the expansion is late.
LEMMA SeedTimesOutCounts ==
    ASSUME CrawlAssumption, Shape, GateInductive, NEW f \in Films, SeedTimesOut(f)
    PROVE  GateInductive'
<1> USE DEF GateInductive
<1>1. /\ seed[f] = "crawl" /\ taken' = taken - 1 /\ seed' = [seed EXCEPT ![f] = "no"]
      /\ late' = IF crawl[f].leader = "seed" THEN late \cup {f} ELSE late
      /\ UNCHANGED <<crawled, directed, mustExpand, crawl, offer, worker, queue, queued>>
  BY DEF SeedTimesOut, graph, memory, warmer
<1>2. seed' \in [Films -> SeedSteps] /\ seed'[f] = "no"
      /\ \A g \in Films : g # f => seed'[g] = seed[g]
  BY <1>1 DEF GateTypes, SeedSteps
<1>3. GateTypes'
  BY <1>1, <1>2 DEF GateTypes
<1>4. SlotsCounted'
  <2>1. AtWork' = AtWork /\ f \in Seeding
    BY <1>1 DEF AtWork, Seeding
  <2>2. Seeding' = Seeding \ {f}
    BY <1>1, <1>2 DEF Seeding
  <2> QED
    BY <1>1, <2>1, <2>2, SlotReturned
<1>5. LedByHolders'
  <2> SUFFICES ASSUME NEW g \in Films, crawl[g].at # "no", g \notin late'
               PROVE  \/ crawl[g].leader = "seed" /\ seed'[g] = "crawl"
                      \/ crawl[g].leader \in Workers
                         /\ worker[crawl[g].leader] = [at |-> "crawl", film |-> g]
    BY <1>1 DEF LedByHolders
  <2>1. g \notin late /\ (crawl[g].leader = "seed" => g # f)
    BY <1>1
  <2> QED
    BY <1>2, <2>1 DEF LedByHolders
<1>6. QueuedIsHeld'
  BY <1>1 DEF QueuedIsHeld
<1> QED
  BY <1>3, <1>4, <1>5, <1>6

\* One worker gets on, or is done with its film.
LEMMA OneWorkerMoves ==
    ASSUME GateTypes, NEW w \in Workers, NEW v \in [at : WarmSteps, film : Films],
           worker' = [worker EXCEPT ![w] = v]
    PROVE  /\ worker' \in [Workers -> [at : WarmSteps, film : Films]]
           /\ worker'[w] = v
           /\ \A u \in Workers : u # w => worker'[u] = worker[u]
BY DEF GateTypes

\* Who is at work when one worker moves.
LEMMA AtWorkMoves ==
    ASSUME NEW w \in Workers, \A u \in Workers : u # w => worker'[u] = worker[u]
    PROVE  /\ worker'[w].at \in {"check", "crawl"} => AtWork' = AtWork \cup {w}
           /\ worker'[w].at \notin {"check", "crawl"} => AtWork' = AtWork \ {w}
           /\ w \in AtWork <=> worker[w].at \in {"check", "crawl"}
           /\ worker[w].at \notin {"check", "crawl"} /\ worker'[w].at \notin {"check", "crawl"}
                 => AtWork' = AtWork
BY DEF AtWork

\* A worker that does not crawl leads nothing, and its moves leave the
\* leaders as they are.
LEMMA LeadersStand ==
    ASSUME GateInductive, NEW w \in Workers, worker[w].at # "crawl",
           \A u \in Workers : u # w => worker'[u] = worker[u],
           UNCHANGED <<seed, late, crawl>>
    PROVE  LedByHolders'
<1> SUFFICES ASSUME NEW f \in Films, crawl[f].at # "no", f \notin late
             PROVE  \/ crawl[f].leader = "seed" /\ seed[f] = "crawl"
                    \/ crawl[f].leader \in Workers
                       /\ worker'[crawl[f].leader] = [at |-> "crawl", film |-> f]
  BY DEF LedByHolders
<1>1. \/ crawl[f].leader = "seed" /\ seed[f] = "crawl"
      \/ crawl[f].leader \in Workers /\ worker[crawl[f].leader] = [at |-> "crawl", film |-> f]
  BY DEF GateInductive, LedByHolders
<1> QED
  BY <1>1

\* What is in a queue but its head, and with one more at its end.
LEMMA QueueMoves ==
    ASSUME NEW S, NEW s \in Seq(S), NEW x \in S
    PROVE  /\ Append(s, x) \in Seq(S) /\ Len(Append(s, x)) = Len(s) + 1
           /\ Range(Append(s, x)) = Range(s) \cup {x}
           /\ s # <<>> => /\ Head(s) \in S /\ Tail(s) \in Seq(S) /\ Len(Tail(s)) = Len(s) - 1
                          /\ Range(s) \subseteq Range(Tail(s)) \cup {Head(s)}
<1>1. Append(s, x) \in Seq(S) /\ Len(Append(s, x)) = Len(s) + 1 /\ Len(s) \in Nat
      /\ Append(s, x)[Len(s) + 1] = x /\ \A i \in 1..Len(s) : Append(s, x)[i] = s[i]
  BY AppendProperties, LenProperties
<1>2. DOMAIN Append(s, x) = 1..(Len(s) + 1) /\ DOMAIN s = 1..Len(s)
  BY <1>1, LenProperties
<1>3. 1..(Len(s) + 1) = (1..Len(s)) \cup {Len(s) + 1}
  BY <1>1
<1>4. Range(Append(s, x)) = Range(s) \cup {x}
  BY <1>1, <1>2, <1>3 DEF Range
<1>5. ASSUME s # <<>>
      PROVE  /\ Head(s) \in S /\ Tail(s) \in Seq(S) /\ Len(Tail(s)) = Len(s) - 1
             /\ Range(s) \subseteq Range(Tail(s)) \cup {Head(s)}
  <2>1. /\ Head(s) \in S /\ Tail(s) \in Seq(S) /\ Len(Tail(s)) = Len(s) - 1 /\ Head(s) = s[1]
        /\ \A i \in 1..Len(Tail(s)) : Tail(s)[i] = s[i + 1]
    BY <1>5, HeadTailProperties
  <2>2. DOMAIN Tail(s) = 1..(Len(s) - 1)
    BY <2>1, LenProperties
  <2>3. ASSUME NEW i \in 1..Len(s), i # 1
        PROVE  s[i] \in Range(Tail(s))
    <3>1. i - 1 \in 1..(Len(s) - 1) /\ (i - 1) + 1 = i
      BY <1>1, <2>3
    <3>2. Tail(s)[i - 1] = s[i]
      BY <2>1, <3>1
    <3> QED
      BY <2>2, <3>1, <3>2 DEF Range
  <2> QED
    BY <1>2, <2>1, <2>3 DEF Range
<1> QED
  BY <1>1, <1>4, <1>5

\* A film is offered: in the queue, passed over, or left.
LEMMA OfferNextKeepsHeld ==
    ASSUME CrawlAssumption, GateInductive, NEW r \in Readers, OfferNext(r)
    PROVE  GateInductive'
<1> USE DEF GateInductive
<1>1. UNCHANGED <<crawled, directed, mustExpand, crawl, late, seed, taken, worker>>
  BY DEF OfferNext, graph, memory, flights, gate
<1>2. PICK f \in offer[r] : Enqueue(r, f)
  BY DEF OfferNext
<1>3. f \in Films
  BY <1>2 DEF GateTypes
<1>4. offer' \in [Readers -> SUBSET Films]
  <2>1. \/ offer' = [offer EXCEPT ![r] = offer[r] \ {f}]
        \/ offer' = [offer EXCEPT ![r] = {}]
    BY <1>2 DEF Enqueue
  <2>2. offer \in [Readers -> SUBSET Films] /\ offer[r] \ {f} \subseteq Films
    BY DEF GateTypes
  <2>3. CASE offer' = [offer EXCEPT ![r] = offer[r] \ {f}]
    BY <2>2, <2>3
  <2>4. CASE offer' = [offer EXCEPT ![r] = {}]
    BY <2>2, <2>4
  <2> QED
    BY <2>1, <2>3, <2>4
<1>5. QueueSize \in Nat /\ queue \in Seq(Films) /\ Len(queue) \in Nat
  BY LenProperties DEF CrawlAssumption, GateTypes
<1>6. /\ queue' \in Seq(Films) /\ Len(queue') <= QueueSize /\ queued' \subseteq Films
      /\ Range(queue) \subseteq Range(queue')
      /\ queued' \subseteq queued \cup Range(queue')
  <2>1. CASE UNCHANGED <<queue, queued>>
    BY <2>1 DEF GateTypes
  <2>2. CASE Len(queue) < QueueSize /\ queue' = Append(queue, f) /\ queued' = queued \cup {f}
    <3>1. queue' \in Seq(Films) /\ Len(queue') = Len(queue) + 1 /\ Range(queue') = Range(queue) \cup {f}
      BY <1>3, <1>5, <2>2, QueueMoves
    <3> QED
      BY <1>3, <1>5, <2>2, <3>1 DEF GateTypes
  <2> QED
    BY <1>2, <2>1, <2>2 DEF Enqueue
<1>7. GateTypes'
  BY <1>1, <1>4, <1>6 DEF GateTypes
<1>8. Seeding' = Seeding /\ AtWork' = AtWork
  BY <1>1 DEF Seeding, AtWork
<1>9. SlotsCounted'
  BY <1>1, <1>8 DEF SlotsCounted
<1>10. LedByHolders'
  BY <1>1 DEF LedByHolders
<1>11. QueuedIsHeld'
  BY <1>1, <1>6 DEF QueuedIsHeld
<1> QED
  BY <1>7, <1>9, <1>10, <1>11

LEMMA ReceiveKeepsHeld ==
    ASSUME CrawlAssumption, GateInductive, NEW w \in Workers, Receive(w)
    PROVE  GateInductive'
<1> USE DEF GateInductive
<1>1. /\ worker[w].at = "idle" /\ queue # <<>> /\ queue' = Tail(queue)
      /\ UNCHANGED <<crawled, directed, mustExpand, crawl, late, seed, taken, offer, queued>>
  BY DEF Receive, graph, memory, flights, gate, requests
<1>2. /\ Head(queue) \in Films /\ Tail(queue) \in Seq(Films) /\ Len(Tail(queue)) = Len(queue) - 1
      /\ Range(queue) \subseteq Range(Tail(queue)) \cup {Head(queue)}
  BY <1>1, FilmExists, QueueMoves DEF GateTypes
<1>3. PICK at \in {"backoff", "clear"} : worker' = [worker EXCEPT ![w] = [at |-> at, film |-> Head(queue)]]
  BY DEF Receive
<1>4. [at |-> at, film |-> Head(queue)] \in [at : WarmSteps, film : Films]
  BY <1>2, <1>3 DEF WarmSteps
<1>5. /\ worker' \in [Workers -> [at : WarmSteps, film : Films]]
      /\ worker'[w] = [at |-> at, film |-> Head(queue)]
      /\ \A u \in Workers : u # w => worker'[u] = worker[u]
  BY <1>3, <1>4, OneWorkerMoves
<1>6. GateTypes'
  <2>1. Len(queue) \in Nat /\ QueueSize \in Nat /\ Len(queue) <= QueueSize
    BY LenProperties DEF GateTypes, CrawlAssumption
  <2>2. Len(queue') <= QueueSize
    BY <1>1, <1>2, <2>1
  <2> QED
    BY <1>1, <1>2, <1>5, <2>2 DEF GateTypes
<1>7. Seeding' = Seeding /\ AtWork' = AtWork
  <2>1. worker[w].at \notin {"check", "crawl"} /\ worker'[w].at \notin {"check", "crawl"}
    BY <1>1, <1>3, <1>5
  <2>2. AtWork' = AtWork
    BY <1>5, <2>1, AtWorkMoves
  <2> QED
    BY <1>1, <2>2 DEF Seeding
<1>8. SlotsCounted'
  BY <1>1, <1>7 DEF SlotsCounted
<1>9. LedByHolders'
  BY <1>1, <1>5, LeadersStand
<1>10. QueuedIsHeld'
  <2> SUFFICES ASSUME NEW f \in queued, f \notin crawled, f \notin Range(queue')
               PROVE  \E u \in Workers : worker'[u].at # "idle" /\ worker'[u].film = f
    BY <1>1 DEF QueuedIsHeld
  <2>1. CASE f \in Range(queue)
    BY <1>1, <1>2, <1>3, <1>5, <2>1
  <2>2. CASE \E u \in Workers : worker[u].at # "idle" /\ worker[u].film = f
    BY <1>1, <1>5, <2>2
  <2> QED
    BY <2>1, <2>2 DEF QueuedIsHeld
<1> QED
  BY <1>6, <1>8, <1>9, <1>10

\* A worker tries for a slot, and puts its film back when there is none.
LEMMA TryTakeCounts ==
    ASSUME CrawlAssumption, GateInductive, NEW w \in Workers, TryTake(w)
    PROVE  GateInductive'
<1> USE DEF GateInductive
<1>1. /\ worker[w].at = "clear"
      /\ \/ taken < Slots /\ Move(w, "check") /\ taken' = taken + 1
         \/ Move(w, "backoff") /\ UNCHANGED taken
      /\ UNCHANGED <<crawled, directed, mustExpand, crawl, late, seed, offer, queue, queued>>
  BY DEF TryTake, graph, memory, flights, requests
<1>2. PICK at \in {"check", "backoff"} : worker' = [worker EXCEPT ![w].at = at]
                                         /\ (at = "check" => taken < Slots /\ taken' = taken + 1)
                                         /\ (at = "backoff" => UNCHANGED taken)
  BY <1>1 DEF Move
<1>3. /\ worker' \in [Workers -> [at : WarmSteps, film : Films]]
      /\ worker'[w].at = at /\ worker'[w].film = worker[w].film
      /\ \A u \in Workers : u # w => worker'[u] = worker[u]
  BY <1>2 DEF GateTypes, WarmSteps
<1>4. GateTypes'
  BY <1>1, <1>3 DEF GateTypes
<1>5. Seeding' = Seeding /\ w \notin AtWork
  BY <1>1 DEF Seeding, AtWork
<1>6. SlotsCounted'
  <2>1. CASE at = "check"
    <3>1. AtWork' = AtWork \cup {w}
      BY <1>3, <2>1, AtWorkMoves
    <3> QED
      BY <1>2, <1>5, <2>1, <3>1, SlotTaken
  <2>2. CASE at = "backoff"
    <3>1. worker[w].at \notin {"check", "crawl"} /\ worker'[w].at \notin {"check", "crawl"}
      BY <1>1, <1>3, <2>2
    <3>2. AtWork' = AtWork
      BY <1>3, <3>1, AtWorkMoves
    <3> QED
      BY <1>2, <1>5, <2>2, <3>2 DEF SlotsCounted
  <2> QED
    BY <1>2, <2>1, <2>2
<1>7. LedByHolders'
  BY <1>1, <1>3, LeadersStand
<1>8. QueuedIsHeld'
  <2> SUFFICES ASSUME NEW f \in queued, f \notin crawled, f \notin Range(queue)
               PROVE  \E u \in Workers : worker'[u].at # "idle" /\ worker'[u].film = f
    BY <1>1 DEF QueuedIsHeld
  <2>1. PICK u \in Workers : worker[u].at # "idle" /\ worker[u].film = f
    BY DEF QueuedIsHeld
  <2>2. worker'[u].at # "idle" /\ worker'[u].film = f
    BY <1>2, <1>3, <2>1
  <2> QED
    BY <2>2
<1> QED
  BY <1>4, <1>6, <1>7, <1>8

LEMMA RequeueKeepsHeld ==
    ASSUME CrawlAssumption, GateInductive, NEW w \in Workers, Requeue(w)
    PROVE  GateInductive'
<1> USE DEF GateInductive
<1>1. /\ worker[w].at = "backoff" /\ Rest(w)
      /\ \/ Len(queue) < QueueSize /\ queue' = Append(queue, worker[w].film) /\ UNCHANGED queued
         \/ queued' = queued \ {worker[w].film} /\ UNCHANGED queue
      /\ UNCHANGED <<crawled, directed, mustExpand, crawl, late, seed, taken, offer>>
  BY DEF Requeue, graph, memory, flights, gate, requests
<1>2. /\ worker' \in [Workers -> [at : WarmSteps, film : Films]]
      /\ worker'[w].at = "idle"
      /\ \A u \in Workers : u # w => worker'[u] = worker[u]
  BY <1>1, FilmExists, OneWorkerMoves DEF Rest
<1>3. worker[w].film \in Films /\ queue \in Seq(Films) /\ Len(queue) \in Nat /\ QueueSize \in Nat
      /\ Len(queue) <= QueueSize
  BY LenProperties DEF GateTypes, CrawlAssumption
<1>4. /\ queue' \in Seq(Films) /\ Len(queue') <= QueueSize /\ queued' \subseteq queued
      /\ Range(queue) \subseteq Range(queue')
      /\ worker[w].film \in Range(queue') \/ worker[w].film \notin queued'
  <2>1. CASE UNCHANGED queue /\ queued' = queued \ {worker[w].film}
    BY <1>3, <2>1
  <2>2. CASE Len(queue) < QueueSize /\ queue' = Append(queue, worker[w].film) /\ UNCHANGED queued
    <3>1. queue' \in Seq(Films) /\ Len(queue') = Len(queue) + 1
          /\ Range(queue') = Range(queue) \cup {worker[w].film}
      BY <1>3, <2>2, QueueMoves
    <3> QED
      BY <1>3, <2>2, <3>1
  <2> QED
    BY <1>1, <2>1, <2>2
<1>5. GateTypes'
  BY <1>1, <1>2, <1>4 DEF GateTypes
<1>6. Seeding' = Seeding /\ AtWork' = AtWork
  <2>1. worker[w].at \notin {"check", "crawl"} /\ worker'[w].at \notin {"check", "crawl"}
    BY <1>1, <1>2
  <2>2. AtWork' = AtWork
    BY <1>2, <2>1, AtWorkMoves
  <2> QED
    BY <1>1, <2>2 DEF Seeding
<1>7. SlotsCounted'
  BY <1>1, <1>6 DEF SlotsCounted
<1>8. LedByHolders'
  BY <1>1, <1>2, LeadersStand
<1>9. QueuedIsHeld'
  <2> SUFFICES ASSUME NEW f \in queued', f \notin crawled, f \notin Range(queue')
               PROVE  \E u \in Workers : worker'[u].at # "idle" /\ worker'[u].film = f
    BY <1>1 DEF QueuedIsHeld
  <2>1. PICK u \in Workers : worker[u].at # "idle" /\ worker[u].film = f
    BY <1>4 DEF QueuedIsHeld
  <2>2. u # w
    BY <1>4, <2>1
  <2> QED
    BY <1>2, <2>1, <2>2
<1> QED
  BY <1>5, <1>7, <1>8, <1>9

\* A worker is done with its film, or out of time: its slot comes back, an
\* expansion it led is late, and a film neither crawled nor in the queue is
\* forgotten.
LEMMA WorkerGivesBack ==
    ASSUME CrawlAssumption, GateInductive, NEW w \in Workers,
           w \in AtWork, Rest(w), taken' = taken - 1,
           queued' \subseteq queued, worker[w].film \in crawled \/ worker[w].film \notin queued',
           late \subseteq late', late' \subseteq Films,
           crawl[worker[w].film].leader = w /\ worker[w].at = "crawl" => worker[w].film \in late',
           UNCHANGED <<crawled, directed, mustExpand, crawl, seed, offer, queue>>
    PROVE  GateInductive'
<1> USE DEF GateInductive
<1>1. /\ worker' \in [Workers -> [at : WarmSteps, film : Films]]
      /\ worker'[w].at = "idle"
      /\ \A u \in Workers : u # w => worker'[u] = worker[u]
  BY FilmExists, OneWorkerMoves DEF Rest
<1>2. GateTypes'
  BY <1>1 DEF GateTypes
<1>3. SlotsCounted'
  <2>1. AtWork' = AtWork \ {w} /\ Seeding' = Seeding
    BY <1>1, AtWorkMoves DEF Seeding
  <2> QED
    BY <2>1, SlotReturned
<1>4. LedByHolders'
  <2> SUFFICES ASSUME NEW f \in Films, crawl[f].at # "no", f \notin late'
               PROVE  \/ crawl[f].leader = "seed" /\ seed[f] = "crawl"
                      \/ crawl[f].leader \in Workers
                         /\ worker'[crawl[f].leader] = [at |-> "crawl", film |-> f]
    BY DEF LedByHolders
  <2>1. \/ crawl[f].leader = "seed" /\ seed[f] = "crawl"
        \/ crawl[f].leader \in Workers /\ worker[crawl[f].leader] = [at |-> "crawl", film |-> f]
    BY DEF LedByHolders
  <2>2. CASE crawl[f].leader \in Workers /\ worker[crawl[f].leader] = [at |-> "crawl", film |-> f]
    <3>1. crawl[f].leader # w
      BY <2>2
    <3> QED
      BY <1>1, <2>2, <3>1
  <2> QED
    BY <2>1, <2>2
<1>5. QueuedIsHeld'
  <2> SUFFICES ASSUME NEW f \in queued', f \notin crawled, f \notin Range(queue)
               PROVE  \E u \in Workers : worker'[u].at # "idle" /\ worker'[u].film = f
    BY DEF QueuedIsHeld
  <2>1. PICK u \in Workers : worker[u].at # "idle" /\ worker[u].film = f
    BY DEF QueuedIsHeld
  <2>2. u # w
    BY <2>1
  <2> QED
    BY <1>1, <2>1, <2>2
<1> QED
  BY <1>2, <1>3, <1>4, <1>5

\* A worker goes on to crawl its film, or to join whoever does.
LEMMA WarmGoesOn ==
    ASSUME CrawlAssumption, Shape, GateInductive, NEW w \in Workers,
           worker[w].at = "check", Move(w, "crawl"), Expand(worker[w].film, w),
           UNCHANGED <<crawled, directed, mustExpand, late, seed, taken, offer, queue, queued>>
    PROVE  GateInductive'
<1> USE DEF GateInductive
<1>1. /\ worker' \in [Workers -> [at : WarmSteps, film : Films]]
      /\ worker'[w] = [at |-> "crawl", film |-> worker[w].film]
      /\ worker'[w].at = "crawl" /\ worker'[w].film = worker[w].film
      /\ \A u \in Workers : u # w => worker'[u] = worker[u]
  BY DEF GateTypes, WarmSteps, Move
<1>2. worker[w].film \in Films
  BY DEF GateTypes
<1>3. GateTypes'
  BY <1>1 DEF GateTypes
<1>4. SlotsCounted'
  <2>1. AtWork' = AtWork \cup {w} /\ w \in AtWork
    BY <1>1, AtWorkMoves
  <2>2. AtWork' = AtWork /\ Seeding' = Seeding
    BY <2>1 DEF Seeding
  <2> QED
    BY <2>2 DEF SlotsCounted
<1>5. LedByHolders'
  <2> SUFFICES ASSUME NEW f \in Films, crawl'[f].at # "no", f \notin late
               PROVE  \/ crawl'[f].leader = "seed" /\ seed[f] = "crawl"
                      \/ crawl'[f].leader \in Workers
                         /\ worker'[crawl'[f].leader] = [at |-> "crawl", film |-> f]
    BY DEF LedByHolders
  <2>1. CASE crawl'[f] = crawl[f]
    <3>1. \/ crawl[f].leader = "seed" /\ seed[f] = "crawl"
          \/ crawl[f].leader \in Workers /\ worker[crawl[f].leader] = [at |-> "crawl", film |-> f]
      BY <2>1 DEF LedByHolders
    <3>2. CASE crawl[f].leader \in Workers /\ worker[crawl[f].leader] = [at |-> "crawl", film |-> f]
      <4>1. crawl[f].leader # w
        BY <3>2
      <4> QED
        BY <1>1, <2>1, <3>2, <4>1
    <3> QED
      BY <2>1, <3>1, <3>2
  <2>2. CASE f = worker[w].film /\ crawl'[f].leader = w
    BY <1>1, <2>2
  <2> QED
    BY <1>2, <2>1, <2>2, ExpandLeads
<1>6. QueuedIsHeld'
  <2> SUFFICES ASSUME NEW f \in queued, f \notin crawled, f \notin Range(queue)
               PROVE  \E u \in Workers : worker'[u].at # "idle" /\ worker'[u].film = f
    BY DEF QueuedIsHeld
  <2>1. PICK u \in Workers : worker[u].at # "idle" /\ worker[u].film = f
    BY DEF QueuedIsHeld
  <2>2. worker'[u].at # "idle" /\ worker'[u].film = f
    <3>1. CASE u = w
      BY <1>1, <2>1, <3>1
    <3>2. CASE u # w
      BY <1>1, <2>1, <3>2
    <3> QED
      BY <3>1, <3>2
  <2> QED
    BY <2>2
<1> QED
  BY <1>3, <1>4, <1>5, <1>6

LEMMA WarmCounts ==
    ASSUME CrawlAssumption, Shape, GateInductive, NEW w \in Workers, Check(w) \/ WarmTimesOut(w)
    PROVE  GateInductive'
<1> DEFINE f == worker[w].film
<1>1. f \in Films /\ late \subseteq Films
  BY DEF GateInductive, GateTypes
<1>2. CASE Check(w)
  <2>1. /\ worker[w].at = "check"
        /\ UNCHANGED <<crawled, directed, mustExpand, late, seed, offer, queue>>
        /\ \/ f \in crawled /\ Rest(w) /\ taken' = taken - 1 /\ UNCHANGED <<crawl, queued>>
           \/ Move(w, "crawl") /\ Expand(f, w) /\ UNCHANGED <<taken, queued>>
           \/ Rest(w) /\ taken' = taken - 1 /\ queued' = queued \ {f} /\ UNCHANGED crawl
    BY <1>2 DEF Check, MovieCrawled, graph, memory, requests
  <2>2. w \in AtWork
    BY <2>1 DEF AtWork
  <2>3. CASE /\ Rest(w) /\ taken' = taken - 1 /\ UNCHANGED crawl
             /\ queued' \subseteq queued /\ (f \in crawled \/ f \notin queued')
    BY <1>1, <2>1, <2>2, <2>3, WorkerGivesBack
  <2>4. CASE Move(w, "crawl") /\ Expand(f, w) /\ UNCHANGED <<taken, queued>>
    BY <2>1, <2>4, WarmGoesOn
  <2> QED
    BY <2>1, <2>3, <2>4
<1>3. CASE WarmTimesOut(w)
  <2>1. /\ worker[w].at = "crawl" /\ Rest(w) /\ taken' = taken - 1 /\ queued' = queued \ {f}
        /\ late' = IF crawl[f].leader = w THEN late \cup {f} ELSE late
        /\ UNCHANGED <<crawled, directed, mustExpand, crawl, seed, offer, queue>>
    BY <1>3 DEF WarmTimesOut, graph, memory, requests
  <2>2. w \in AtWork
    BY <2>1 DEF AtWork
  <2>3. late \subseteq late' /\ late' \subseteq Films /\ (crawl[f].leader = w => f \in late')
        /\ queued' \subseteq queued /\ f \notin queued'
    BY <1>1, <2>1
  <2> QED
    BY <2>1, <2>2, <2>3, WorkerGivesBack
<1> QED
  BY <1>2, <1>3

\* Another process starts with nothing taken, led or remembered.
Emptied ==
    /\ crawled \subseteq Films /\ directed \subseteq Films /\ mustExpand = {}
    /\ crawl = [f \in Films |-> NoCrawl] /\ late = {}
    /\ seed = [f \in Films |-> "no"] /\ taken = 0
    /\ offer = [r \in Readers |-> {}] /\ worker = [w \in Workers |-> IdleWorker]
    /\ queue = <<>> /\ queued = {}

LEMMA EmptyGate == Emptied => GateInductive
<1> SUFFICES ASSUME Emptied PROVE GateInductive
  OBVIOUS
<1> USE CrawlAssumption DEF Emptied
<1>1. Slots \in Nat /\ QueueSize \in Nat
  BY DEF CrawlAssumption
<1>2. GateTypes
  <2>1. queue \in Seq(Films) /\ Len(queue) = 0
    BY EmptySeq
  <2>2. worker \in [Workers -> [at : WarmSteps, film : Films]]
    BY FilmExists
  <2> QED
    BY <1>1, <2>1, <2>2 DEF GateTypes, SeedSteps
<1>3. Seeding = {} /\ AtWork = {}
  BY DEF Seeding, AtWork, IdleWorker
<1>4. SlotsCounted
  BY <1>1, <1>3, FS_EmptySet DEF SlotsCounted
<1>5. LedByHolders
  BY DEF LedByHolders, NoCrawl
<1>6. QueuedIsHeld
  BY DEF QueuedIsHeld
<1> QED
  BY <1>2, <1>4, <1>5, <1>6 DEF GateInductive

LEMMA RestartEmpties ==
    ASSUME CrawlAssumption, GateInductive, Restart
    PROVE  GateInductive'
<1>1. crawled' \subseteq Films /\ directed' \subseteq Films
  BY DEF GateInductive, GateTypes, Restart, graph
<1>2. Emptied'
  BY <1>1 DEF Emptied, Restart
<1>3. Emptied' => GateInductive'
  BY EmptyGate, PTL
<1> QED
  BY <1>1, <1>2, <1>3

LEMMA ForgetKeepsHeld ==
    ASSUME GateInductive, NEW id, Forget(id)
    PROVE  GateInductive'
<1> USE DEF GateInductive
<1>1. /\ queued' \subseteq queued /\ mustExpand' \subseteq mustExpand
      /\ UNCHANGED <<crawled, directed, crawl, late, seed, taken, offer, worker, queue>>
  BY DEF Forget, graph, memory, flights, gate, requests
<1>2. GateTypes'
  BY <1>1 DEF GateTypes
<1>3. Seeding' = Seeding /\ AtWork' = AtWork
  BY <1>1 DEF Seeding, AtWork
<1>4. SlotsCounted'
  BY <1>1, <1>3 DEF SlotsCounted
<1>5. LedByHolders'
  BY <1>1 DEF LedByHolders
<1>6. QueuedIsHeld'
  BY <1>1 DEF QueuedIsHeld
<1> QED
  BY <1>2, <1>4, <1>5, <1>6

\* The steps of an expansion.
LEMMA ExpansionKeepsGate ==
    ASSUME CrawlAssumption, CrawlInductive, GateInductive, NEW f \in Films,
           ExpansionStep(f) \/ MovieFails(f)
    PROVE  GateInductive'
<1> USE DEF CrawlInductive
<1>1. crawled \subseteq Films /\ directed \subseteq Films /\ mustExpand \subseteq People
      /\ offer \in [Readers -> SUBSET Films]
  BY DEF GateInductive, GateTypes
<1>2. CASE Claim(f)
  <2>1. crawl[f].at = "claim" /\ UNCHANGED <<crawled, directed, mustExpand, offer, queue>>
    BY <1>2 DEF Claim, graph
  <2>2. CASE f \in seenMovies /\ EndCrawl(f, IF f \in late THEN "failed" ELSE "ok")
    <3>1. f \in crawled
      BY <2>1, <2>2 DEF FilmsHold, FilmsWritten
    <3> QED
      BY <1>1, <2>1, <2>2, <3>1, EndReturnsSlots
  <2>3. CASE Stage(f, "fetch") /\ UNCHANGED <<late, gate, reader, worker, queued>>
    <3>1. \A g \in Films : crawl'[g].at # "no" => crawl[g].at # "no" /\ crawl'[g].leader = crawl[g].leader
      BY <2>1, <2>3, StageIsQuiet DEF CrawlStages
    <3> QED
      BY <1>1, <2>1, <2>3, <3>1, QuietKeeps DEF gate
  <2> QED
    BY <1>2, <2>2, <2>3 DEF Claim
<1>3. CASE MovieFetched(f)
  <2>1. \A g \in Films : crawl'[g].at # "no" => crawl[g].at # "no" /\ crawl'[g].leader = crawl[g].leader
    BY <1>3, StageIsQuiet DEF MovieFetched, CrawlStages
  <2>2. mustExpand' \subseteq People /\ UNCHANGED <<crawled, directed, offer>>
        /\ UNCHANGED <<seed, taken, late, worker, queue, queued>>
    BY <1>1, <1>3, CreditedArePeople DEF MovieFetched, graph, gate, requests, warmer
  <2> QED
    BY <1>1, <2>1, <2>2, QuietKeeps
<1>4. CASE WriteCast(f) \/ WriteDirectors(f) \/ RestOfCast(f)
  <2>1. PICK at \in CrawlStages : crawl[f].at # "no" /\ Stage(f, at)
    BY <1>4 DEF WriteCast, WriteDirectors, RestOfCast, StartCast, CrawlStages
  <2>2. \A g \in Films : crawl'[g].at # "no" => crawl[g].at # "no" /\ crawl'[g].leader = crawl[g].leader
    BY <2>1, StageIsQuiet
  <2>3. /\ crawled \subseteq crawled' /\ crawled' \subseteq Films /\ directed' \subseteq Films
        /\ UNCHANGED <<mustExpand, offer, seed, taken, late, worker, queue, queued>>
    BY <1>1, <1>4 DEF WriteCast, WriteDirectors, RestOfCast, graph, memory, gate, requests, warmer
  <2> QED
    BY <1>1, <2>2, <2>3, QuietKeeps
<1>5. CASE StopStarting(f)
  BY <1>5, NothingOfTheGate DEF StopStarting, graph, memory, gate, requests, warmer
<1>6. CASE FinishCrawl(f)
  <2>1. f \in crawled
    BY <1>6 DEF FinishCrawl, Stages
  <2>2. EndCrawl(f, IF f \in late THEN "failed" ELSE "ok")
        /\ UNCHANGED <<crawled, directed, mustExpand, offer, queue>>
    BY <1>6 DEF FinishCrawl, graph, memory
  <2> QED
    BY <1>1, <2>1, <2>2, EndReturnsSlots
<1>7. CASE MovieFails(f)
  <2>1. /\ EndCrawl(f, "failed") /\ UNCHANGED <<mustExpand, offer, queue>>
        /\ crawled' \in {crawled, crawled \cup {f}} /\ directed' \in {directed, directed \cup {f}}
    BY <1>7 DEF MovieFails
  <2>2. crawled \subseteq crawled' /\ crawled' \subseteq Films /\ directed' \subseteq Films
    BY <1>1, <2>1
  <2> QED
    BY <2>1, <2>2, EndReturnsSlots
<1> QED
  BY <1>2, <1>3, <1>4, <1>5, <1>6, <1>7 DEF ExpansionStep

\* The steps of a request.
LEMMA RequestKeepsGate ==
    ASSUME CrawlAssumption, CrawlInductive, GateInductive, NEW r \in Readers,
           \/ \E q \in Requests : Ask(r, q[1], q[2])
           \/ RequestStep(r) \/ Leave(r) \/ RequestFails(r) \/ FinishTimesOut(r)
    PROVE  GateInductive'
<1>1. ASSUME NEW f \in Films, NEW grid, WaitReady(r, f, grid),
             UNCHANGED <<crawled, directed, mustExpand, crawl, late, taken, offer, worker, queue, queued>>
      PROVE  GateInductive'
  <2>1. CASE UNCHANGED seed
    BY <1>1, <2>1, NothingOfTheGate
  <2>2. CASE seed[f] = "no" /\ seed' = [seed EXCEPT ![f] = "slot"]
    BY <1>1, <2>2, NoSlotYet
  <2>3. seed[f] \in SeedSteps
    BY DEF GateInductive, GateTypes
  <2> QED
    BY <1>1, <2>1, <2>2, <2>3 DEF WaitReady
<1>2. ASSUME NEW q \in Requests, Ask(r, q[1], q[2]) PROVE GateInductive'
  <2>1. q[1] \in Films
    BY <1>2 DEF CrawlAssumption
  <2>2. UNCHANGED <<crawled, directed, mustExpand, crawl, late, taken, offer, worker, queue, queued>>
        /\ (WaitReady(r, q[1], q[2]) \/ UNCHANGED seed)
    BY <1>2 DEF Ask, graph, memory, flights, warmer
  <2> QED
    BY <1>1, <2>1, <2>2, NothingOfTheGate
<1>3. CASE LookAgain(r)
  <2>1. reader[r].film \in Films
    BY FilmExists DEF CrawlInductive, Shape
  <2> QED
    BY <1>1, <1>3, <2>1 DEF LookAgain, graph, memory, flights, warmer
<1>4. CASE Answer(r)
  <2>1. UNCHANGED <<crawled, directed, mustExpand, crawl, late, seed, taken, worker, queue, queued>>
    BY <1>4 DEF Answer, graph, memory, flights, gate, warmer
  <2>2. NextHop(reader[r].film) \subseteq Films
    BY DEF NextHop, CrawlAssumption, Linked
  <2>3. PICK next \in SUBSET Films : offer' = [offer EXCEPT ![r] = next]
    BY <1>4, <2>2 DEF Answer
  <2>4. offer' \in [Readers -> SUBSET Films]
    BY <2>3 DEF GateInductive, GateTypes
  <2>5. crawled' \subseteq Films /\ directed' \subseteq Films /\ mustExpand' \subseteq People
    BY <2>1 DEF GateInductive, GateTypes
  <2> QED
    BY <2>1, <2>4, <2>5, QuietKeeps
<1>5. CASE OfferNext(r)
  BY <1>5, OfferNextKeepsHeld
<1>6. CASE FinishCast(r) \/ Poll(r) \/ Leave(r) \/ RequestFails(r) \/ FinishTimesOut(r)
  <2>1. /\ UNCHANGED <<crawled, directed, mustExpand, crawl, late, seed, taken>>
        /\ UNCHANGED <<offer, worker, queue, queued>>
    BY <1>6 DEF FinishCast, Poll, Leave, RequestFails, FinishTimesOut, graph, memory, flights,
                gate, requests, warmer
  <2> QED
    BY <2>1, NothingOfTheGate
<1> QED
  BY <1>2, <1>3, <1>4, <1>5, <1>6 DEF RequestStep

LEMMA GateStep ==
    ASSUME CrawlAssumption, CrawlInductive, GateInductive, [Next]_vars PROVE GateInductive'
<1>1. ASSUME NEW f \in Films, TakeSlot(f) \/ TurnedAway(f) \/ SeedTimesOut(f)
      PROVE  GateInductive'
  <2>1. CASE TurnedAway(f)
    BY <2>1, NoSlotYet DEF TurnedAway, graph, memory, flights, warmer
  <2> QED
    BY <1>1, <2>1, TakeSlotCounts, SeedTimesOutCounts DEF CrawlInductive
<1>2. ASSUME NEW o \in Owners,
             FanOut(o) \/ \E p \in People : PersonLost(o, p) \/ CreditsFail(o, p)
      PROVE  GateInductive'
  <2>1. PICK p \in People : PersonStep(o, p)
    BY <1>2 DEF FanOut, PersonStep
  <2>2. /\ UNCHANGED <<crawled, directed, mustExpand, crawl, late, seed, taken>>
        /\ UNCHANGED <<offer, worker, queue, queued>>
    BY <2>1 DEF PersonStep, StartItem, PersonFetched, PersonLost, WriteCredits, CreditsFail,
                graph, memory, gate, requests, warmer
  <2> QED
    BY <2>2, NothingOfTheGate
<1>3. ASSUME NEW w \in Workers, WarmStep(w) \/ WarmTimesOut(w)
      PROVE  GateInductive'
  BY <1>3, ReceiveKeepsHeld, TryTakeCounts, RequeueKeepsHeld, WarmCounts DEF WarmStep, CrawlInductive
<1>4. CASE UNCHANGED vars
  BY <1>4, NothingOfTheGate DEF vars, graph, memory, flights, gate, requests, warmer
<1> QED
  BY <1>1, <1>2, <1>3, <1>4, ExpansionKeepsGate, RequestKeepsGate, ForgetKeepsHeld, RestartEmpties
     DEF Next

\* Every slot is held, every expansion led, and every film the warmer
\* remembers is in its hands, whatever fails and whoever leaves.
LEMMA GateAlways == ASSUME CrawlAssumption PROVE Spec => []GateInductive
<1>1. Init => GateInductive
  <2>1. Init => Emptied
    BY DEF Init, Emptied, CrawlAssumption
  <2> QED
    BY <2>1, EmptyGate
<1>2. CrawlInductive /\ GateInductive /\ [Next]_vars => GateInductive'
  BY GateStep
<1> QED
  BY <1>1, <1>2, CrawlAlways, PTL DEF Spec

\* However many expansions and cast-finishers reach one person at once, one
\* of them writes them (crawler.go, processPerson and writeFilmography).
THEOREM PeopleHaveOneWriter == ASSUME CrawlAssumption PROVE Spec => []OneWriterPerPerson
<1>1. CrawlInductive => OneWriterPerPerson
  BY DEF CrawlInductive, PeopleHold
<1> QED
  BY <1>1, CrawlAlways, PTL

\* What the crawler remembers having done is in the graph in full, or the
\* goroutine that claimed it is still at it (crawler.go, the seen sets and
\* the paths on which they forget).
THEOREM RememberedIsWritten == ASSUME CrawlAssumption PROVE Spec => []SeenIsWritten
<1>1. CrawlInductive => SeenIsWritten
  BY DEF CrawlInductive, FilmsHold, PeopleHold, FilmsWritten, PeopleWritten, SeenIsWritten, Writing
<1> QED
  BY <1>1, CrawlAlways, PTL

\* A request that gets as far as reading finds its film's own cast written,
\* whichever way it was let through (server.go, waitReady and beginSeed).
THEOREM ReadersReadWritten == ASSUME CrawlAssumption PROVE Spec => []ReadsAreOfWritten
<1>1. CrawlInductive => ReadsAreOfWritten
  BY DEF CrawlInductive, FilmsHold
<1> QED
  BY <1>1, CrawlAlways, PTL

\* The state keeps its types (crawler.go, limit.go, warmer.go).
THEOREM CrawlTypes == ASSUME CrawlAssumption PROVE Spec => []TypeOK
<1>1. CrawlInductive /\ GateInductive => TypeOK
  <2> SUFFICES ASSUME CrawlInductive, GateInductive PROVE TypeOK
    OBVIOUS
  <2>1. Films \cup {AnyFilm} = Films
    BY FilmExists
  <2>2. /\ crawl \in [Films -> [at : CrawlStages, leader : {"seed", "nobody"} \cup Workers]]
        /\ task \in [Owners -> [People -> Steps]]
        /\ reader \in [Readers -> [at : ReaderSteps, film : Films, grid : BOOLEAN]]
        /\ profile \in [People -> {"none", "acted", "whole"}]
        /\ seenMovies \subseteq Films /\ seenPeople \subseteq People
    BY <2>1 DEF CrawlInductive, Shape, FilmsHold, PeopleHold
  <2>3. taken \in Nat
    BY FS_CardinalityType DEF GateInductive, SlotsCounted
  <2>4. GateTypes
    BY DEF GateInductive
  <2> QED
    BY <2>2, <2>3, <2>4 DEF TypeOK, GateTypes, CrawlStages, Steps, ReaderSteps, SeedSteps, WarmSteps
<1> QED
  BY <1>1, CrawlAlways, GateAlways, PTL

\* The gate bounds the crawls: each slot has one holder, and an expansion
\* with time left is led by one, though callers join, time out and leave
\* (limit.go, crawlGate; server.go, beginSeed; warmer.go, tryWarm).
THEOREM GateBoundsCrawls == ASSUME CrawlAssumption PROVE Spec => []CrawlsHoldSlots
<1>1. GateInductive => CrawlsHoldSlots
  BY DEF GateInductive, SlotsCounted, LedByHolders, CrawlsHoldSlots, Seeding, AtWork
<1> QED
  BY <1>1, GateAlways, PTL

\* A film the warmer remembers is in its queue, with a worker, or crawled
\* (warmer.go, enqueue, requeue and warm).
THEOREM WarmerLosesNothing == ASSUME CrawlAssumption PROVE Spec => []QueuedIsHeld
<1>1. GateInductive => QueuedIsHeld
  BY DEF GateInductive
<1> QED
  BY <1>1, GateAlways, PTL
=============================================================================

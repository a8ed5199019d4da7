------------------------------ MODULE Posters ------------------------------
(***************************************************************************)
(* One row of meta.posters per film, and everybody who writes it: the OMDb *)
(* backfill (posters.go), the TMDb fallback (tmdbposters.go), the stand-in *)
(* a reader's broken picture asks for (api/posterstandin.go), the cold     *)
(* screen's probe and the marks of readers (search.go, wants.go), the      *)
(* colour job (colourjob.go), and what a published generation does to the  *)
(* rows (store.go, runner.go).                                             *)
(*                                                                         *)
(* Each of them reads a row in one statement, asks a service, and writes   *)
(* in another; nothing is locked between the two.  Each job runs once, in  *)
(* the one process that holds the lease.                                   *)
(*                                                                         *)
(* A film has one address at OMDb and one at TMDb, named after the service *)
(* that gives it, and a picture's colour is named after its address.  A    *)
(* timestamp column is whether it is set, except fetched_at, of which the  *)
(* code asks only whether it is before the current pass (`touched`).       *)
(***************************************************************************)
EXTENDS Naturals, FiniteSets

CONSTANTS
    Films,
    LastGen,        \* bound: the generations published are 1..LastGen
    Plain,          \* Plain[g]: the films of g that are not adult titles
    Adult,          \* Adult[g]: the films of g that are
    Pool,           \* Pool[g]: the first_run table of g
    Votes,          \* Votes[g][f]
    OMDbBatch,      \* titles claimed per round of the backfill
    TMDbBatch,      \* titles claimed per round of the fallback
    MinVotes,       \* the sweep's floor
    MaxFaults,      \* bound: lookups that fail, or find the quota spent
    MaxReads,       \* bound: things a reader does that can touch a row
    MaxDeaths,      \* bound: addresses that stop answering
    NoRow

Gens == 1..LastGen

ASSUME PostersAssumption ==
    /\ LastGen \in Nat \ {0}
    /\ Plain \in [Gens -> SUBSET Films] /\ Adult \in [Gens -> SUBSET Films]
    /\ \A g \in Gens : Plain[g] \cap Adult[g] = {} /\ Pool[g] \subseteq Plain[g]
    /\ Votes \in [Gens -> [Films -> Nat]]
    /\ OMDbBatch \in Nat \ {0} /\ TMDbBatch \in Nat \ {0} /\ MinVotes \in Nat
    /\ MaxFaults \in Nat /\ MaxReads \in Nat /\ MaxDeaths \in Nat

Services == {"omdb", "tmdb"}

\* What a service can say: an address, that it has no picture, or that the
\* lookup failed.
Answers == Services \cup {"nothing", "failed", "unasked"}

Address(answer) == IF answer \in Services THEN answer ELSE "none"

Row == [url : Services \cup {"none"}, source : {"none", "tmdb"},
        status : {"ok", "missing", "dead"}, asked : BOOLEAN, wanted : BOOLEAN,
        colour : Services \cup {"none"}, votes : Nat]

ASSUME NoRowAssumption == NoRow \notin Row

VARIABLES
    rows,           \* meta.posters
    gen,            \* the generation that is live
    upkeep,         \* what a publish still owes the rows: "votes", "forget",
                    \* "done", or "lost": it will not refresh their votes
    gone,           \* <<film, service>>: addresses that answer 404 for good
    omdb,           \* the backfill: "rest", "pass", "spent"
    touched,        \* the rows written since its pass began
    failed,         \* the titles whose failure its pass has written, since their
                    \* row was made (no code keeps it; it is here for OncePerPass)
    asking,         \* the titles of its round still out with OMDb
    answers,        \* the answers of its round not yet written
    tmdb,           \* the fallback: "rest", "pass"
    page,           \* the titles of its page still to be asked
    tried,          \* the titles its pass has asked
    got,            \* its answer for a film, not yet written
    standIn,        \* the stand-in a reader waits on, not yet written
    probed,         \* the films a probe found gone, not yet marked
    marks,          \* the films a reader saw blank, not yet marked
    colouring,      \* colouring[f]: the address being averaged for f
    settled,        \* the films OMDb's answer is written for, since their row
                    \* was made (no code keeps it; it is here for NeverAgain)
    faults, reads, deaths

readers == <<standIn, probed, marks, colouring>>
backfill == <<omdb, touched, failed, asking, answers>>
fallback == <<tmdb, page, tried, got>>
bounds == <<faults, reads, deaths>>
vars == <<rows, gen, upkeep, gone, backfill, fallback, readers, settled, bounds>>

Unasked == [f \in Films |-> "unasked"]

Init ==
    /\ rows = [f \in Films |-> NoRow]
    /\ gen = 1 /\ upkeep = "done" /\ gone = {}
    /\ omdb = "rest" /\ touched = {} /\ failed = {} /\ asking = {} /\ answers = Unasked
    /\ tmdb = "rest" /\ page = {} /\ tried = {} /\ got = Unasked
    /\ standIn = Unasked /\ probed = {} /\ marks = {}
    /\ colouring = [f \in Films |-> "none"] /\ settled = {}
    /\ faults = 0 /\ reads = 0 /\ deaths = 0

Has(f) == rows[f] # NoRow
Blank(f) == Has(f) /\ rows[f].url = "none"

\* The first `limit` of `queue` in the order of a query's ORDER BY.
Pages(queue, limit, Before(_, _)) ==
    {p \in SUBSET queue :
        /\ Cardinality(p) = IF Cardinality(queue) < limit THEN Cardinality(queue) ELSE limit
        /\ \A f \in p, g \in queue \ p : ~Before(g, f)}

Fails == faults < MaxFaults /\ faults' = faults + 1

-----------------------------------------------------------------------------
(* The OMDb backfill: PosterJob.Run.                                       *)

\* Slip: a lookup that failed is not tried again.
NeverRetried == {f \in Plain[gen] : ~Has(f)}

PostersWanted ==
    {f \in Plain[gen] : ~Has(f) \/ (rows[f].status = "missing" /\ f \notin touched)}

BetterKnown(f, g) == Votes[gen][f] > Votes[gen][g]

StartBackfill ==
    /\ omdb = "rest"
    /\ PostersWanted # {} \/ \E f \in Plain[gen] : Has(f) /\ rows[f].status = "missing"
    /\ omdb' = "pass"
    /\ touched' = {} /\ failed' = {}
    /\ UNCHANGED <<settled, rows, gen, upkeep, gone, asking, answers, fallback, readers, bounds>>

\* The next round, when the last one is written; none left ends the pass.
ClaimRound ==
    /\ omdb = "pass" /\ asking = {} /\ answers = Unasked
    /\ IF PostersWanted = {}
         THEN omdb' = "rest" /\ UNCHANGED asking
         ELSE /\ asking' \in Pages(PostersWanted, OMDbBatch, BetterKnown)
              /\ UNCHANGED omdb
    /\ UNCHANGED <<settled, rows, gen, upkeep, gone, touched, failed, answers, fallback, readers,
                   bounds>>

Lookup(f, answer) ==
    /\ f \in asking
    /\ asking' = asking \ {f}
    /\ answers' = [answers EXCEPT ![f] = answer]
    /\ IF answer = "failed" THEN Fails ELSE UNCHANGED faults
    /\ UNCHANGED <<settled, rows, gen, upkeep, gone, omdb, touched, failed, fallback, readers,
                   reads, deaths>>

\* A deadline that passes, the request's own included, is taken for the pass
\* being told to stop: there is no answer and nothing is written.
LookupTimesOut(f) ==
    /\ f \in asking
    /\ Fails
    /\ asking' = asking \ {f}
    /\ UNCHANGED <<settled, rows, gen, upkeep, gone, omdb, touched, failed, answers, fallback,
                   readers, reads, deaths>>

\* The key is spent: the titles still out are drained without an answer.
QuotaSpent ==
    /\ asking # {}
    /\ Fails
    /\ omdb' = "spent"
    /\ asking' = {}
    /\ UNCHANGED <<settled, rows, gen, upkeep, gone, touched, failed, answers, fallback, readers, reads, deaths>>

\* The columns an upsert of the backfill does not name keep their value.
Upserted(f) ==
    LET url == Address(answers[f])
        status == IF answers[f] = "failed" THEN "missing" ELSE "ok"
        votes == IF f \in Plain[gen] \cup Adult[gen] THEN Votes[gen][f] ELSE 0
    IN  IF Has(f)
          THEN [rows[f] EXCEPT !.url = url, !.status = status, !.votes = votes]
          ELSE [url |-> url, source |-> "none", status |-> status, asked |-> FALSE,
                wanted |-> FALSE, colour |-> "none", votes |-> votes]

Answered == {f \in Films : answers[f] # "unasked"}

\* Slip: only an answer stamps its row.
WritesUnstamped ==
    /\ asking = {} /\ answers # Unasked
    /\ rows' = [f \in Films |-> IF f \in Answered THEN Upserted(f) ELSE rows[f]]
    /\ touched' = touched \cup {f \in Answered : answers[f] # "failed"}
    /\ settled' = settled \cup {f \in Answered : answers[f] # "failed"}
    /\ failed' = failed \cup {f \in Answered : answers[f] = "failed"}
    /\ answers' = Unasked
    /\ UNCHANGED <<gen, upkeep, gone, omdb, asking, fallback, readers, bounds>>

WritePosters ==
    /\ asking = {} /\ answers # Unasked
    /\ rows' = [f \in Films |-> IF f \in Answered THEN Upserted(f) ELSE rows[f]]
    /\ touched' = touched \cup Answered
    /\ settled' = settled \cup {f \in Answered : answers[f] # "failed"}
    /\ failed' = failed \cup {f \in Answered : answers[f] = "failed"}
    /\ answers' = Unasked
    /\ UNCHANGED <<gen, upkeep, gone, omdb, asking, fallback, readers, bounds>>

\* A statement of the pass fails: it ends, and the answers it holds are lost.
BackfillFails ==
    /\ omdb # "rest" /\ asking = {}
    /\ Fails
    /\ answers' = Unasked
    /\ omdb' = "rest"
    /\ UNCHANGED <<settled, rows, gen, upkeep, gone, touched, failed, asking, fallback, readers,
                   reads, deaths>>

PauseBackfill ==
    /\ omdb = "spent" /\ answers = Unasked
    /\ omdb' = "rest"
    /\ UNCHANGED <<settled, rows, gen, upkeep, gone, touched, failed, asking, answers, fallback,
                   readers, bounds>>

-----------------------------------------------------------------------------
(* The TMDb fallback: TMDbJob.Run.                                         *)

InQueue(f) ==
    /\ Has(f)
    /\ ~rows[f].asked
    /\ rows[f].status = "dead" \/ Blank(f)
    /\ rows[f].wanted \/ rows[f].votes >= MinVotes

TMDbQueue == {f \in Films : InQueue(f)}

\* ORDER BY wanted_at DESC NULLS LAST, votes DESC.  Which of two wanted rows
\* was wanted last is left open.
Sooner(f, g) ==
    \/ rows[f].wanted /\ ~rows[g].wanted
    \/ ~rows[f].wanted /\ ~rows[g].wanted /\ rows[f].votes > rows[g].votes

StartFallback ==
    /\ tmdb = "rest"
    /\ TMDbQueue # {}
    /\ tmdb' = "pass"
    /\ tried' = {}
    /\ UNCHANGED <<settled, rows, gen, upkeep, gone, backfill, page, got, readers, bounds>>

\* A page of nothing but titles this pass has tried ends it.
TakePage ==
    /\ tmdb = "pass" /\ page = {} /\ got = Unasked
    /\ \E p \in Pages(TMDbQueue, TMDbBatch, Sooner) :
         IF p \subseteq tried
           THEN tmdb' = "rest" /\ UNCHANGED page
           ELSE page' = p \ tried /\ UNCHANGED tmdb
    /\ UNCHANGED <<settled, rows, gen, upkeep, gone, backfill, tried, got, readers, bounds>>

\* Slip: a fault is kept for an answer.
FaultIsAnswer(f, answer) ==
    /\ f \in page /\ got = Unasked
    /\ page' = page \ {f}
    /\ tried' = tried \cup {f}
    /\ got' = [got EXCEPT ![f] = answer]
    /\ UNCHANGED <<settled, rows, gen, upkeep, gone, backfill, tmdb, readers, bounds>>

\* A fault leaves the row as it was.
AskTMDb(f, answer) ==
    /\ f \in page /\ got = Unasked
    /\ page' = page \ {f}
    /\ tried' = tried \cup {f}
    /\ IF answer = "failed"
         THEN Fails /\ UNCHANGED got
         ELSE got' = [got EXCEPT ![f] = answer] /\ UNCHANGED faults
    /\ UNCHANGED <<settled, rows, gen, upkeep, gone, backfill, tmdb, readers, reads, deaths>>

\* Slip: the stamp goes on with a picture only.
SavedUnstamped(f, answer) ==
    IF ~Has(f) THEN NoRow
    ELSE IF answer = "nothing"
           THEN [rows[f] EXCEPT !.wanted = FALSE]
           ELSE [rows[f] EXCEPT !.url = "tmdb", !.status = "ok", !.source = "tmdb",
                                !.asked = TRUE, !.wanted = FALSE]

\* saveTMDbPoster: an UPDATE, so it does nothing to a film with no row.
Saved(f, answer) ==
    IF ~Has(f) THEN NoRow
    ELSE IF answer = "nothing"
           THEN [rows[f] EXCEPT !.asked = TRUE, !.wanted = FALSE]
           ELSE [rows[f] EXCEPT !.url = "tmdb", !.status = "ok", !.source = "tmdb",
                                !.asked = TRUE, !.wanted = FALSE]

\* A found picture sets fetched_at as well.
TouchedBy(f, answer) == IF Has(f) /\ answer = "tmdb" THEN touched \cup {f} ELSE touched

SaveTMDb(f) ==
    /\ got[f] # "unasked"
    /\ rows' = [rows EXCEPT ![f] = Saved(f, got[f])]
    /\ touched' = TouchedBy(f, got[f])
    /\ got' = [got EXCEPT ![f] = "unasked"]
    /\ UNCHANGED <<settled, gen, upkeep, gone, omdb, failed, asking, answers, tmdb, page, tried,
                   readers, bounds>>

\* The answer cannot be written.
SaveFails(f) ==
    /\ got[f] # "unasked"
    /\ Fails
    /\ got' = [got EXCEPT ![f] = "unasked"]
    /\ UNCHANGED <<settled, rows, gen, upkeep, gone, backfill, tmdb, page, tried, readers, reads,
                   deaths>>

\* The page cannot be read, or a request reaches its deadline, which is taken
\* for the pass being told to stop.
FallbackStops ==
    /\ tmdb = "pass" /\ got = Unasked
    /\ Fails
    /\ tmdb' = "rest"
    /\ page' = {}
    /\ UNCHANGED <<settled, rows, gen, upkeep, gone, backfill, tried, got, readers, reads, deaths>>

-----------------------------------------------------------------------------
(* Readers.                                                                *)

Read == reads < MaxReads /\ reads' = reads + 1

\* A card's picture did not load and the card asks for another; the page it is
\* on may be older than the row.  Cards that miss the same film together share
\* one question.
AskStandIn(f, answer) ==
    /\ Read
    /\ standIn[f] = "unasked"
    /\ standIn' = [standIn EXCEPT ![f] = answer]
    /\ UNCHANGED <<settled, rows, gen, upkeep, gone, backfill, fallback, probed, marks, colouring,
                   faults, deaths>>

KeepTMDbPoster(f) ==
    /\ standIn[f] # "unasked"
    /\ rows' = [rows EXCEPT ![f] = Saved(f, standIn[f])]
    /\ touched' = TouchedBy(f, standIn[f])
    /\ standIn' = [standIn EXCEPT ![f] = "unasked"]
    /\ UNCHANGED <<settled, gen, upkeep, gone, omdb, failed, asking, answers, fallback, probed,
                   marks, colouring, bounds>>

\* The cold screen draws a film whose address has been gone for longer than
\* an edge keeps a miss.
ProbePoster(f) ==
    /\ Read
    /\ f \in Pool[gen] /\ Has(f) /\ <<f, rows[f].url>> \in gone
    /\ probed' = probed \cup {f}
    /\ UNCHANGED <<settled, rows, gen, upkeep, gone, backfill, fallback, standIn, marks, colouring,
                   faults, deaths>>

\* Slip: an address that is gone is a lookup to be made again.
MarkPosterMissing(f) ==
    /\ f \in probed
    /\ probed' = probed \ {f}
    /\ rows' = IF Has(f) /\ rows[f].status # "dead"
                 THEN [rows EXCEPT ![f].status = "missing", ![f].wanted = TRUE]
                 ELSE rows
    /\ UNCHANGED <<settled, gen, upkeep, gone, backfill, fallback, standIn, marks, colouring, bounds>>

\* Slip: it is marked, and asked of nobody.
MarkPosterDeadOnly(f) ==
    /\ f \in probed
    /\ probed' = probed \ {f}
    /\ rows' = IF Has(f) THEN [rows EXCEPT ![f].status = "dead"] ELSE rows
    /\ UNCHANGED <<settled, gen, upkeep, gone, backfill, fallback, standIn, marks, colouring, bounds>>

MarkPosterDead(f) ==
    /\ f \in probed
    /\ probed' = probed \ {f}
    /\ rows' = IF Has(f) /\ rows[f].status # "dead"
                 THEN [rows EXCEPT ![f].status = "dead", ![f].wanted = TRUE]
                 ELSE rows
    /\ UNCHANGED <<settled, gen, upkeep, gone, backfill, fallback, standIn, marks, colouring, bounds>>

\* A card is drawn without a picture.
WantPoster(f) ==
    /\ Read
    /\ f \in Plain[gen] \cup Adult[gen]
    /\ ~Has(f) \/ Blank(f)
    /\ marks' = marks \cup {f}
    /\ UNCHANGED <<settled, rows, gen, upkeep, gone, backfill, fallback, standIn, probed, colouring,
                   faults, deaths>>

\* One statement for the batch, only for rows that still have nothing to show.
MarkWanted ==
    /\ marks # {}
    /\ marks' = {}
    /\ rows' = [f \in Films |->
                 IF f \in marks /\ Has(f) /\ (rows[f].status = "dead" \/ Blank(f))
                   THEN [rows[f] EXCEPT !.wanted = TRUE] ELSE rows[f]]
    /\ UNCHANGED <<settled, gen, upkeep, gone, backfill, fallback, standIn, probed, colouring, bounds>>

-----------------------------------------------------------------------------
(* The colour job.                                                         *)

\* A page of films and their addresses, which are then fetched in turn.
TakeUncoloured(f) ==
    /\ colouring[f] = "none"
    /\ f \in Pool[gen] /\ Has(f) /\ ~Blank(f) /\ rows[f].colour = "none"
    /\ colouring' = [colouring EXCEPT ![f] = rows[f].url]
    /\ UNCHANGED <<settled, rows, gen, upkeep, gone, backfill, fallback, standIn, probed, marks, bounds>>

\* The picture is averaged and saved, unless it would not load.
SaveColour(f) ==
    /\ colouring[f] # "none"
    /\ colouring' = [colouring EXCEPT ![f] = "none"]
    /\ \/ UNCHANGED rows
       \/ /\ Has(f) /\ <<f, colouring[f]>> \notin gone
          /\ rows' = [rows EXCEPT ![f].colour = colouring[f]]
    /\ UNCHANGED <<settled, gen, upkeep, gone, backfill, fallback, standIn, probed, marks, bounds>>

-----------------------------------------------------------------------------
(* The catalog.                                                            *)

Publish ==
    /\ gen < LastGen /\ upkeep \in {"done", "lost"}
    /\ gen' = gen + 1
    /\ upkeep' = "votes"
    /\ UNCHANGED <<settled, rows, gone, backfill, fallback, readers, bounds>>

\* Slip: only what is in the queue already is brought up to date.
RefreshQueued ==
    /\ upkeep = "votes"
    /\ rows' = [f \in Films |->
                 IF f \in TMDbQueue \cap (Plain[gen] \cup Adult[gen])
                   THEN [rows[f] EXCEPT !.votes = Votes[gen][f]] ELSE rows[f]]
    /\ upkeep' = "forget"
    /\ UNCHANGED <<settled, gen, gone, backfill, fallback, readers, bounds>>

\* Only rows still waiting for TMDb, and only for films that are live.
RefreshQueueVotes ==
    /\ upkeep = "votes"
    /\ rows' = [f \in Films |->
                 IF Has(f) /\ ~rows[f].asked /\ f \in Plain[gen] \cup Adult[gen]
                   THEN [rows[f] EXCEPT !.votes = Votes[gen][f]] ELSE rows[f]]
    /\ upkeep' = "forget"
    /\ UNCHANGED <<settled, gen, gone, backfill, fallback, readers, bounds>>

ForgetUnknownPosters ==
    /\ upkeep = "forget"
    /\ rows' = [f \in Films |-> IF f \in Plain[gen] \cup Adult[gen] THEN rows[f] ELSE NoRow]
    /\ settled' = settled \cap (Plain[gen] \cup Adult[gen])
    /\ failed' = failed \cap (Plain[gen] \cup Adult[gen])
    /\ upkeep' = "done"
    /\ UNCHANGED <<gen, gone, omdb, touched, asking, answers, fallback, readers, bounds>>

\* Either statement can fail.  A publish that cannot refresh the votes is
\* reported as an import that failed, and what follows it is not done.
UpkeepFails ==
    /\ upkeep \in {"votes", "forget"}
    /\ Fails
    /\ upkeep' = IF upkeep = "votes" THEN "lost" ELSE "done"
    /\ UNCHANGED <<settled, rows, gen, gone, backfill, fallback, readers, reads, deaths>>

AddressDies(f, service) ==
    /\ deaths < MaxDeaths
    /\ deaths' = deaths + 1
    /\ <<f, service>> \notin gone
    /\ gone' = gone \cup {<<f, service>>}
    /\ UNCHANGED <<settled, rows, gen, upkeep, backfill, fallback, readers, faults, reads>>

\* The process that runs the jobs dies or loses the lease, between a publish
\* and the upkeep included, and the next one starts them afresh.
JobsRestart ==
    /\ Fails
    /\ upkeep' = IF upkeep \in {"votes", "lost"} THEN "lost" ELSE "done"
    /\ omdb' = "rest" /\ asking' = {} /\ answers' = Unasked /\ touched' = {} /\ failed' = {}
    /\ tmdb' = "rest" /\ page' = {} /\ tried' = {} /\ got' = Unasked
    /\ colouring' = [f \in Films |-> "none"]
    /\ UNCHANGED <<settled, rows, gen, gone, standIn, probed, marks, reads, deaths>>

\* The process that serves the readers dies, or cannot write what they left.
ReadersLost ==
    /\ Fails
    /\ standIn' = Unasked /\ probed' = {} /\ marks' = {}
    /\ UNCHANGED <<settled, rows, gen, upkeep, gone, backfill, fallback, colouring, reads, deaths>>

-----------------------------------------------------------------------------
Backfill ==
    \/ StartBackfill \/ ClaimRound \/ WritePosters \/ BackfillFails
    \/ PauseBackfill \/ QuotaSpent
    \/ \E f \in Films, a \in {"omdb", "nothing", "failed"} : Lookup(f, a)
    \/ \E f \in Films : LookupTimesOut(f)

Fallback ==
    \/ StartFallback \/ TakePage
    \/ \E f \in Films, a \in {"tmdb", "nothing", "failed"} : AskTMDb(f, a)
    \/ FallbackStops
    \/ \E f \in Films : SaveTMDb(f) \/ SaveFails(f)

Colours == \E f \in Films : TakeUncoloured(f) \/ SaveColour(f)

Writes == MarkWanted \/ \E f \in Films : KeepTMDbPoster(f) \/ MarkPosterDead(f)

Upkeep == RefreshQueueVotes \/ ForgetUnknownPosters

Reads ==
    \E f \in Films :
        \/ ProbePoster(f) \/ WantPoster(f)
        \/ \E a \in {"tmdb", "nothing"} : AskStandIn(f, a)

Next ==
    \/ Backfill \/ Fallback \/ Colours \/ Writes \/ Upkeep \/ Reads
    \/ Publish \/ UpkeepFails \/ JobsRestart \/ ReadersLost
    \/ \E f \in Films, s \in Services : AddressDies(f, s)

Spec == Init /\ [][Next]_vars

\* The jobs' loops run for ever beside each other, a mark is flushed within
\* two seconds, and the attempt that published goes on to the rows.  Readers,
\* new generations and deaths of addresses come or do not.
Fairness == WF_vars(Backfill) /\ WF_vars(Fallback) /\ WF_vars(Writes) /\ WF_vars(Upkeep)

FairSpec == Spec /\ Fairness
-----------------------------------------------------------------------------
(* What must hold.                                                         *)

TypeOK ==
    /\ rows \in [Films -> Row \cup {NoRow}]
    /\ gen \in Gens /\ upkeep \in {"votes", "forget", "done", "lost"}
    /\ gone \subseteq Films \X Services
    /\ omdb \in {"rest", "pass", "spent"}
    /\ touched \subseteq Films /\ failed \subseteq Films /\ asking \subseteq Films
    /\ answers \in [Films -> Answers \ {"tmdb"}]
    /\ tmdb \in {"rest", "pass"} /\ page \subseteq Films /\ tried \subseteq Films
    /\ got \in [Films -> Answers \ {"omdb", "failed"}]
    /\ standIn \in [Films -> Answers \ {"omdb", "failed"}]
    /\ probed \subseteq Films /\ marks \subseteq Films
    /\ colouring \in [Films -> Services \cup {"none"}]
    /\ settled \subseteq Films
    /\ faults \in 0..MaxFaults /\ reads \in 0..MaxReads /\ deaths \in 0..MaxDeaths

\* "A title is looked up once, ever, unless the lookup itself failed"
\* (posters.go:33): whatever the probe, the fallback, the readers and the
\* publishes have done to a row since, the backfill never claims a film whose
\* answer it has written.
NeverAgain == asking \cap settled = {}

\* A failure that is written is for tomorrow: "this run must not pick it
\* straight back up, or it would ask the same dead id until the budget ran
\* out" (posters.go:83), whoever writes the row and whatever is published
\* before the pass ends.  A lookup that times out writes nothing, and the
\* same pass does ask for that title again.
OncePerPass == asking \cap failed = {}

\* What has been written of a title's lookup is not asked for again: an answer
\* ever, a failure within the pass.
AskedOnce == NeverAgain /\ OncePerPass

\* "meta is never renamed by the daily swap, so what it learns survives every
\* future generation" (posters.go:33): nobody who writes a row replaces the
\* picture it has with none, until the film itself is withdrawn.
PictureKept ==
    [][\A f \in Films : Has(f) /\ ~Blank(f) /\ rows'[f] # NoRow => rows'[f].url # "none"]_vars

\* What a probe found gone is not forgotten: until TMDb has been asked, the
\* film is in the fallback's queue, however little known it is and whatever
\* the other writers of its row do.
DeadIsQueued == \A f \in Films : Has(f) /\ rows[f].status = "dead" /\ ~rows[f].asked => InQueue(f)

\* The vote counts the fallback's queue is ordered by are those of the live
\* generation as soon as the publish has refreshed them, the rows written by
\* lookups that were out while it happened included.
QueueVotesCurrent ==
    upkeep \in {"forget", "done"} =>
        \A f \in Plain[gen] \cup Adult[gen] :
            Has(f) /\ ~rows[f].asked => rows[f].votes = Votes[gen][f]

\* Every film of the live catalog ends up with OMDb's answer, whatever failed
\* or was lost on the way.
EveryFilmAnswered ==
    []<>(\A f \in Plain[gen] : Has(f) /\ rows[f].status # "missing")

\* A film that could be repaired does not wait for TMDb for ever.
QueueDrains == []<>(TMDbQueue = {})
=============================================================================

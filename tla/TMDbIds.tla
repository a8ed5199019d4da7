------------------------------ MODULE TMDbIds ------------------------------
(***************************************************************************)
(* The matching of IMDb titles to TMDb ids (catalog/tmdbids.go): a pass    *)
(* refills a queue from the live catalog and walks it a page at a time,    *)
(* asking TMDb about each title.  The poster fallback and the stand-in of  *)
(* a reader's broken picture record what they learn in the same table at   *)
(* any moment of a pass.  Every step below is one statement or one call.   *)
(***************************************************************************)
EXTENDS Naturals, FiniteSets

CONSTANTS
    Tconsts, Ids,
    Matchable,      \* Matchable[g]: the films of generation g to be matched
    TMDbOf,         \* TMDbOf[f]: TMDb's id for f, or "none"
    Rank,           \* Rank[f]: f's place by votes, the best known 1
    Batch,          \* titles on one page
    MaxMishaps      \* bound: calls and statements that fail, crashes

ASSUME TMDbIdsAssumption ==
    /\ Matchable \in [{1, 2} -> SUBSET Tconsts]
    /\ TMDbOf \in [Tconsts -> Ids \cup {"none"}] /\ Rank \in [Tconsts -> Nat]
    /\ "none" \notin Ids /\ "unasked" \notin Ids
    /\ Batch \in Nat \ {0} /\ MaxMishaps \in Nat

\* What is recorded of a title: nothing, TMDb's id, or that it has none.
Unasked == "unasked"
None == "none"

VARIABLES
    live,           \* the generation that is live, 1 or 2
    match,          \* meta.tmdb
    waiting,        \* meta.tmdb_queue
    pass,           \* where the job is
    item,           \* the titles of its page not yet come to
    attempted,      \* the titles it has asked about in this pass
    answer,         \* the title it is on and what TMDb said
    owed,           \* titles another job has recorded and not yet unqueued
    mishaps

idsVars == <<live, match, waiting, pass, item, attempted, answer, owed, mishaps>>

NoAnswer == [film |-> "none", id |-> "none"]

IdsInit ==
    /\ live = 1
    /\ match = [f \in Tconsts |-> Unasked]
    /\ waiting = {}
    /\ pass = "rest" /\ item = {} /\ attempted = {} /\ answer = NoAnswer
    /\ owed = {} /\ mishaps = 0

Asked(f) == match[f] # Unasked
Outstanding == {f \in Matchable[live] : ~Asked(f)}
Mishap == mishaps < MaxMishaps /\ mishaps' = mishaps + 1

\* tmdbIDBatch: the best known of the queue.
Page == {f \in waiting : Cardinality({x \in waiting : Rank[x] < Rank[f]}) < Batch}

BestKnown(films) == CHOOSE f \in films : \A x \in films : Rank[f] <= Rank[x]

\* Slip: nobody else is looked for who has the id.
Ungoverned(f, id) == match' = [match EXCEPT ![f] = id]

\* rememberTMDB's insert: the first answer stands, and a title whose id is
\* another's already is recorded as having none.
Record(f, id) ==
    match' = [match EXCEPT ![f] = IF Asked(f) THEN @
                                  ELSE IF id # None /\ \E x \in Tconsts : match[x] = id THEN None
                                  ELSE id]

-----------------------------------------------------------------------------
(* A pass: Run.                                                            *)

\* Slip: a title the last pass asked about is not asked about again.
BeginKnowing ==
    /\ pass = "rest" /\ Outstanding # {}
    /\ pass' = "clear"
    /\ UNCHANGED <<live, match, waiting, item, attempted, answer, owed, mishaps>>

\* Nothing outstanding is no pass.
Begin ==
    /\ pass = "rest" /\ Outstanding # {}
    /\ pass' = "clear" /\ attempted' = {}
    /\ UNCHANGED <<live, match, waiting, item, answer, owed, mishaps>>

\* refillTMDBQueue is two statements.
ClearMatched ==
    /\ pass = "clear"
    /\ waiting' = {f \in waiting : ~Asked(f)}
    /\ pass' = "fill"
    /\ UNCHANGED <<live, match, item, attempted, answer, owed, mishaps>>

Refill ==
    /\ pass = "fill"
    /\ waiting' = waiting \cup Outstanding
    /\ pass' = "page"
    /\ UNCHANGED <<live, match, item, attempted, answer, owed, mishaps>>

\* A page with nothing on it but what this pass has tried ends the pass.
NextPage ==
    /\ pass = "page"
    /\ item' = Page \ attempted
    /\ pass' = IF item' = {} THEN "rest" ELSE "item"
    /\ UNCHANGED <<live, match, waiting, attempted, answer, owed, mishaps>>

\* tmdbAsked: a title recorded by somebody else leaves the queue unasked,
\* or stays on it if that fails.
Take ==
    /\ pass = "item" /\ item # {}
    /\ item' = item \ {BestKnown(item)}
    /\ \/ /\ Asked(BestKnown(item))
          /\ \/ waiting' = waiting \ {BestKnown(item)} /\ UNCHANGED mishaps
             \/ Mishap /\ UNCHANGED waiting
          /\ UNCHANGED <<pass, attempted, answer>>
       \/ /\ ~Asked(BestKnown(item))
          /\ attempted' = attempted \cup {BestKnown(item)}
          /\ answer' = [film |-> BestKnown(item), id |-> None] /\ pass' = "ask"
          /\ UNCHANGED <<waiting, mishaps>>
    /\ UNCHANGED <<live, match, owed>>

EndOfPage ==
    /\ pass = "item" /\ item = {}
    /\ pass' = "page"
    /\ UNCHANGED <<live, match, waiting, item, attempted, answer, owed, mishaps>>

\* FindByIMDb: an id, none, or a fault, which leaves the title to a later pass.
Ask ==
    /\ pass = "ask"
    /\ \/ answer' = [answer EXCEPT !.id = TMDbOf[answer.film]] /\ pass' = "save" /\ UNCHANGED mishaps
       \/ Mishap /\ answer' = NoAnswer /\ pass' = "item"
    /\ UNCHANGED <<live, match, waiting, item, attempted, owed>>

Save ==
    /\ pass = "save"
    /\ \/ Record(answer.film, answer.id) /\ pass' = "unqueue" /\ UNCHANGED <<answer, mishaps>>
       \/ Mishap /\ pass' = "item" /\ answer' = NoAnswer /\ UNCHANGED match
    /\ UNCHANGED <<live, waiting, item, attempted, owed>>

Unqueue ==
    /\ pass = "unqueue"
    /\ pass' = "item" /\ answer' = NoAnswer
    /\ \/ waiting' = waiting \ {answer.film} /\ UNCHANGED mishaps
       \/ Mishap /\ UNCHANGED waiting
    /\ UNCHANGED <<live, match, item, attempted, owed>>

\* A statement whose failure ends the pass, or the process does.  What the
\* pass held in memory is gone; the tables stay.
Abandon ==
    /\ pass # "rest" /\ Mishap
    /\ pass' = "rest" /\ item' = {} /\ attempted' = {} /\ answer' = NoAnswer
    /\ UNCHANGED <<live, match, waiting, owed>>

-----------------------------------------------------------------------------
(* The others.                                                             *)

\* The fallback or a stand-in has asked about f for its picture.
RecordElsewhere(f) ==
    /\ ~Asked(f)
    /\ Record(f, TMDbOf[f])
    /\ owed' = owed \cup {f}
    /\ UNCHANGED <<live, waiting, pass, item, attempted, answer, mishaps>>

UnqueueElsewhere(f) ==
    /\ f \in owed /\ owed' = owed \ {f}
    /\ \/ waiting' = waiting \ {f} /\ UNCHANGED mishaps
       \/ Mishap /\ UNCHANGED waiting
    /\ UNCHANGED <<live, match, pass, item, attempted, answer>>

NewCatalog ==
    /\ live = 1 /\ live' = 2
    /\ UNCHANGED <<match, waiting, pass, item, attempted, answer, owed, mishaps>>

IdsWork ==
    \/ Begin \/ ClearMatched \/ Refill \/ NextPage \/ Take \/ EndOfPage
    \/ Ask \/ Save \/ Unqueue

IdsNext ==
    \/ IdsWork \/ Abandon \/ NewCatalog
    \/ \E f \in Tconsts : RecordElsewhere(f) \/ UnqueueElsewhere(f)

\* fillTMDbIDs runs passes for as long as the process does, and another
\* process takes over.
IdsSpec == IdsInit /\ [][IdsNext]_idsVars /\ WF_idsVars(IdsWork)

-----------------------------------------------------------------------------
\* What is recorded is TMDb's id for the title and belongs to it alone; a
\* title is recorded as having none only if TMDb has none, or the id is
\* another title's: a search joins on the id and must not get two films.
MatchesAreTrue ==
    \A f \in Tconsts : Asked(f) =>
        \/ match[f] = TMDbOf[f] /\ \A x \in Tconsts \ {f} : match[f] # None => match[x] # match[f]
        \/ match[f] = None /\ \E x \in Tconsts \ {f} : match[x] = TMDbOf[f]

\* Every title of the catalog comes to be matched, with faults in any pass,
\* other jobs recording and unqueueing titles, and titles that are published
\* while a pass is under way.
TitlesGetMatched == <>[](\A f \in Matchable[live] : Asked(f))
=============================================================================

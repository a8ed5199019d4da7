-------------------------------- MODULE Maps --------------------------------
(***************************************************************************)
(* What readers are served from the catalog (catalog/read.go, search.go,   *)
(* api/catalog.go, api/fallback.go).  A search, a map and the details of   *)
(* its cards are each several statements on the live tables, and nothing   *)
(* holds the tables between two of them: a generation may be published in  *)
(* the middle of a request, and a reader's next request may meet another   *)
(* generation than the last.                                               *)
(***************************************************************************)
EXTENDS Naturals, Sequences, FiniteSets

CONSTANTS
    Films, People, Readers,
    LastGen,        \* bound: generations 1..LastGen are published in turn
    Titles,         \* Titles[g]: the rows of titles
    Principals,     \* Principals[g][f]: the billed, by ordering
    Directors,      \* Directors[g][f]: the directors, by ordering
    Names,          \* Names[g]: the rows of names
    OffGrid,        \* films that are no card: documentaries, adult titles,
                    \* films that are not out
    Votes,          \* Votes[f]
    Queries,        \* [here: the films whose title matches,
                    \*  outside: the films TMDb names]
    Matched,        \* films with a row in meta.tmdb
    MaxSpine,       \* cards on one map
    SearchHits,     \* results of one search
    MaxLost         \* bound: statements and calls that fail

Gens == 1..LastGen

ASSUME MapsAssumption ==
    /\ {LastGen, MaxSpine, SearchHits} \subseteq Nat \ {0} /\ MaxLost \in Nat
    /\ Titles \in [Gens -> SUBSET Films] /\ Names \in [Gens -> SUBSET People]
    /\ Principals \in [Gens -> [Films -> Seq(People)]]
    /\ Directors \in [Gens -> [Films -> Seq(People)]]
    /\ OffGrid \subseteq Films /\ Matched \subseteq Films
    /\ Votes \in [Films -> Nat]
    /\ Queries \subseteq [here : SUBSET Films, outside : SUBSET Films]

VARIABLES
    gen,            \* the generation that is live; 0 before the first
    visit,          \* visit[r]: where a reader's request is
    lost            \* the faults so far

mapsVars == <<gen, visit, lost>>

\* hits: what the last search offered.  chips, spine: the map being built
\* or shown; spine[f] is the set of the chips f is credited to.  marks[f]:
\* whose markers the details of f's card carry.  since: the generation the
\* search, or the map's first statement, was answered from, 0 when another
\* has been published since (no code keeps it).
NoMap == [film |-> "none", chips |-> <<>>, spine |-> <<>>, marks |-> <<>>, who |-> {}]
Away == [at |-> "home", hits |-> {}, query |-> {}, since |-> 0, map |-> NoMap]

MapsInit ==
    /\ gen = 0
    /\ visit = [r \in Readers |-> Away]
    /\ lost = 0

-----------------------------------------------------------------------------
(* The statements, of the generation g that is live when each runs.        *)

\* gridFilm, and a row to join.
OnGrid(g, f) == f \in Titles[g] \ OffGrid

OneOf(credits) == {credits[i] : i \in DOMAIN credits}
Credited(g, f) == OneOf(Principals[g][f]) \cup OneOf(Directors[g][f])

\* peopleOn: directors, then the billed, each once, if the dataset names
\* them.  A chip is known by its place in the credits: the chips before it
\* are those at the places before.
PeopleOn(g, f) ==
    LET credits == Directors[g][f] \o Principals[g][f]
        First(i) == \A j \in 1..(i - 1) : credits[j] # credits[i]
    IN  [i \in {j \in DOMAIN credits : First(j) /\ credits[j] \in Names[g]} |-> credits[i]]

\* The best `limit` of a set by votes; `top` goes before them all.  Votes
\* differ, so that the order is one.
BestOf(films, limit, top) ==
    {f \in films :
        f = top \/ Cardinality({x \in films : x = top \/ Votes[x] > Votes[f]}) < limit}

IndexesOf(whose, chips) == {i \in DOMAIN chips : chips[i] \in whose}

\* spine: the films of the people on the chip row, and whose each is.
Spine(g, f, chips) ==
    LET theirs == {x \in Films : OnGrid(g, x) /\ Credited(g, x) \cap OneOf(chips) # {}}
    IN  [x \in BestOf(theirs, MaxSpine, f) |-> IndexesOf(Credited(g, x), chips)]

\* Slip: a film with nobody billed is offered.
AnyTitle(g, films) == {f \in films : OnGrid(g, f)}

\* What Search and ByTMDB ask of a film before they offer it.
Mappable(g, films) == {f \in films : OnGrid(g, f) /\ Principals[g][f] # <<>>}

-----------------------------------------------------------------------------
ReaderAt(r, at) == visit[r].at = at
Go(r, v) == visit' = [visit EXCEPT ![r] = v]
Lost == lost < MaxLost /\ lost' = lost + 1

\* ready: nothing is answered before a catalog has been published.
Ready == gen # 0

Search(r, query) ==
    /\ Ready /\ ReaderAt(r, "home")
    /\ LET hits == BestOf(Mappable(gen, query.here), SearchHits, "none")
       IN  Go(r, [Away EXCEPT !.at = IF hits = {} THEN "outside" ELSE "hits",
                              !.hits = hits, !.query = query.outside, !.since = gen])
    /\ UNCHANGED <<gen, lost>>

\* fallbackSearch: TMDb's ids, looked up here when they arrive, and the
\* first of them in TMDb's own order.  A failure of either is an empty list.
Fallback(r) ==
    /\ ReaderAt(r, "outside")
    /\ \/ /\ \E hits \in SUBSET Mappable(gen, visit[r].query \cap Matched) :
                /\ hits = Mappable(gen, visit[r].query \cap Matched) \/ Cardinality(hits) = SearchHits
                /\ Cardinality(hits) <= SearchHits
                /\ Go(r, [visit[r] EXCEPT !.at = "hits", !.hits = hits, !.query = {}, !.since = gen])
          /\ UNCHANGED lost
       \/ Lost /\ Go(r, [visit[r] EXCEPT !.at = "hits", !.query = {}])
    /\ UNCHANGED gen

\* Grid's first statement, for a hit or for the film of a link.  What the
\* reader knew of the generation goes with it.
Open(r, f) ==
    /\ Ready
    /\ ReaderAt(r, "home") \/ (ReaderAt(r, "hits") /\ f \in visit[r].hits)
    /\ IF f \in Titles[gen]
         THEN Go(r, [visit[r] EXCEPT !.at = "people", !.map = [NoMap EXCEPT !.film = f],
                                     !.since = IF ReaderAt(r, "home") THEN gen ELSE @])
         ELSE Go(r, [visit[r] EXCEPT !.at = "notfound", !.map = [NoMap EXCEPT !.film = f]])
    /\ UNCHANGED <<gen, lost>>

ReadPeople(r) ==
    /\ ReaderAt(r, "people")
    /\ LET chips == PeopleOn(gen, visit[r].map.film)
       IN  Go(r, [visit[r] EXCEPT !.at = IF DOMAIN chips = {} THEN "notfound" ELSE "spine",
                                  !.map.chips = chips])
    /\ UNCHANGED <<gen, lost>>

\* Slip: the people are read again for the spine's statement, which is then
\* indexed by the row that was read first.
ReadsPeopleAgain(r) ==
    /\ ReaderAt(r, "spine")
    /\ LET m == visit[r].map
           films == Spine(gen, m.film, PeopleOn(gen, m.film))
       IN  Go(r, [visit[r] EXCEPT !.at = "map",
                    !.map.spine = [x \in DOMAIN films |-> IndexesOf(Credited(gen, x), m.chips)]])
    /\ UNCHANGED <<gen, lost>>

ReadSpine(r) ==
    /\ ReaderAt(r, "spine")
    /\ Go(r, [visit[r] EXCEPT !.at = "map",
                              !.map.spine = Spine(gen, visit[r].map.film, visit[r].map.chips)])
    /\ UNCHANGED <<gen, lost>>

\* movieGridFilms: whose markers to draw is read first, by anchorPeople; if
\* that fails nobody's are.  Then the cards on screen.
Scroll(r) ==
    /\ ReaderAt(r, "map")
    /\ \/ /\ Go(r, [visit[r] EXCEPT !.at = "details", !.map.who = OneOf(PeopleOn(gen, visit[r].map.film))])
          /\ UNCHANGED lost
       \/ Lost /\ Go(r, [visit[r] EXCEPT !.at = "details", !.map.who = {}])
    /\ UNCHANGED gen

ReadDetails(r) ==
    /\ ReaderAt(r, "details")
    /\ \E cards \in SUBSET DOMAIN visit[r].map.spine :
        /\ cards # {}
        /\ Go(r, [visit[r] EXCEPT !.at = "map", !.map.who = {},
                    !.map.marks = [x \in (cards \cap Titles[gen]) |->
                                     Credited(gen, x) \cap visit[r].map.who]])
    /\ UNCHANGED <<gen, lost>>

\* Any statement of a request may fail, and the request with it.
Fail(r) ==
    /\ visit[r].at \in {"people", "spine", "details"}
    /\ Lost
    /\ IF ReaderAt(r, "details") THEN Go(r, [visit[r] EXCEPT !.at = "map", !.map.who = {}])
       ELSE Go(r, Away)
    /\ UNCHANGED gen

GoHome(r) ==
    /\ visit[r].at \in {"hits", "map", "notfound"}
    /\ Go(r, Away)
    /\ UNCHANGED <<gen, lost>>

\* The swap is one transaction; a generation is published behind requests.
Publish ==
    /\ gen < LastGen
    /\ gen' = gen + 1
    /\ visit' = [r \in Readers |-> [visit[r] EXCEPT !.since = 0]]
    /\ UNCHANGED lost

Step(r) ==
    \/ \E q \in Queries : Search(r, q)
    \/ Fallback(r)
    \/ \E f \in Films : Open(r, f)
    \/ ReadPeople(r) \/ ReadSpine(r) \/ Scroll(r) \/ ReadDetails(r)
    \/ Fail(r) \/ GoHome(r)

MapsNext == Publish \/ \E r \in Readers : Step(r)

MapsSpec == MapsInit /\ [][MapsNext]_mapsVars

-----------------------------------------------------------------------------
\* Every card of a map, whichever generations its parts are from, is there
\* because somebody on its chip row made it, and says who ("every film on
\* the spine is on it because somebody from the chip row made it").
CardsAreSomebodys ==
    \A r \in Readers : LET m == visit[r].map IN
        \A x \in DOMAIN m.spine : m.spine[x] # {} /\ m.spine[x] \subseteq DOMAIN m.chips

\* A film a search offers opens: for as long as its generation is live the
\* reader gets its map, never a not found, whether the film was offered by
\* title or through TMDb.  (Unless the dataset names nobody billed on it:
\* the map joins names, the search does not.)
OfferedFilmsOpen ==
    \A r \in Readers : LET f == visit[r].map.film IN
        ReaderAt(r, "notfound") /\ visit[r].since # 0 =>
            \/ f \notin visit[r].hits
            \/ Principals[gen][f] # <<>> /\ Credited(gen, f) \cap Names[gen] = {}

\* The details of a card and its place on the map are two requests with two
\* readings of the chip row, and say the same of whose film it is when no
\* generation came between: a marker for each place, or no markers at all
\* (anchorPeople: "same people the chip row was built from").
DetailsAgree ==
    \A r \in Readers : LET m == visit[r].map IN
        visit[r].since # 0 =>
            \A x \in DOMAIN m.marks : m.marks[x] \in {{}, {m.chips[i] : i \in m.spine[x]}}

\* The film that was searched for is on its own map, however many films its
\* people made, unless it is no card or a generation came between.
AnchorIsOnItsMap ==
    \A r \in Readers : LET m == visit[r].map IN
        ReaderAt(r, "map") /\ visit[r].since # 0 /\ m.film \notin OffGrid => m.film \in DOMAIN m.spine
\* What a reader has on the screen holds together: the cards and the chip row
\* always, their details and the film in the middle while one generation
\* stays live.
MapHolds == CardsAreSomebodys /\ DetailsAgree /\ AnchorIsOnItsMap
=============================================================================

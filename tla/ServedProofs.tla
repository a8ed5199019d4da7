----------------------------- MODULE ServedProofs ------------------------------
(***************************************************************************)
(* Proofs about what is read from the published catalog: maps of films     *)
(* (Maps) and share images (ShareCards). For any films, people, credits,   *)
(* readers and generations, and any faces, years, unfurlers, slots,        *)
(* changes and faults.                                                     *)
(*                                                                         *)
(* A map is drawn from statements that may each see another generation.    *)
(* Its cards stay on its own chip row whichever they saw, since a place is *)
(* only ever looked up in the row the visit was given; and while no other  *)
(* generation was published, each part is what the live one says           *)
(* (Current), which is what MapHolds and OfferedFilmsOpen need.            *)
(*                                                                         *)
(* VersionsHold is inductive with what a request knows: the version it     *)
(* recomputed is that of the film it read, and while the film has stood    *)
(* still it is the one in the address and the catalog's. What it draws is  *)
(* the film it read, its year with it, which no version tells apart.       *)
(***************************************************************************)
EXTENDS Maps, ShareCards, SequenceTheorems, WellFoundedInduction, TLAPS
-----------------------------------------------------------------------------
(* Maps of films.                                                          *)

Chips == UNION {[places -> People] : places \in SUBSET Nat}
Spines == UNION {[films -> SUBSET Nat] : films \in SUBSET Films}
Markers == UNION {[films -> SUBSET People] : films \in SUBSET Films}

MapRows == [film : Films \cup {"none"}, chips : Chips, spine : Spines, marks : Markers,
            who : SUBSET People]
Visits == [at : {"home", "outside", "hits", "people", "spine", "map", "details", "notfound"},
           hits : SUBSET Films, query : SUBSET Films, since : Nat, map : MapRows]

MapsTypes == gen \in 0..LastGen /\ visit \in [Readers -> Visits]

\* What is shown of a map, whichever generations its parts are from: there
\* are no cards before the last statement, and each is somebody's.
Shown(g, v) ==
    /\ v.at # "home" => g # 0
    /\ v.at = "home" => v.hits = {} /\ v.since = 0
    /\ v.at \in {"people", "spine", "map", "details"} => v.map.film \in Films
    /\ v.at \notin {"map", "details"} => DOMAIN v.map.spine = {} /\ DOMAIN v.map.marks = {}
    /\ \A x \in DOMAIN v.map.spine : v.map.spine[x] # {} /\ v.map.spine[x] \subseteq DOMAIN v.map.chips

\* The places a film's people have on the chip row.
Placed(g, m) == \A x \in DOMAIN m.spine : m.spine[x] = IndexesOf(Credited(g, x), m.chips)

\* While no other generation was published, what a reader has is what the
\* live one says.
Current(g, v) ==
    /\ v.since = g
    /\ \A f \in v.hits : OnGrid(g, f) /\ Principals[g][f] # <<>>
    /\ v.at \in {"people", "spine", "map", "details"} => v.map.film \in Titles[g]
    /\ v.at \in {"spine", "map", "details"} =>
          v.map.chips = PeopleOn(g, v.map.film) /\ DOMAIN v.map.chips # {}
    /\ v.at \in {"map", "details"} =>
          Placed(g, v.map) /\ (v.map.film \notin OffGrid => v.map.film \in DOMAIN v.map.spine)
    /\ v.at = "details" => v.map.who \in {{}, OneOf(v.map.chips)}
    /\ \A x \in DOMAIN v.map.marks :
          x \in DOMAIN v.map.spine /\ v.map.marks[x] \in {{}, {v.map.chips[i] : i \in v.map.spine[x]}}
    /\ v.at = "notfound" /\ v.map.film \in v.hits => Credited(g, v.map.film) \cap Names[g] = {}

Consistent(g, v) == Shown(g, v) /\ (v.since # 0 => Current(g, v))

MapsInductive == MapsTypes /\ \A r \in Readers : Consistent(gen, visit[r])

\* A sequence of people is credited to its own members.
LEMMA CreditsOf ==
    ASSUME NEW g \in Gens, NEW f \in Films
    PROVE  /\ Principals[g][f] \in Seq(People) /\ Directors[g][f] \in Seq(People)
           /\ Directors[g][f] \o Principals[g][f] \in Seq(People)
           /\ Credited(g, f) \subseteq People
           /\ OneOf(Directors[g][f] \o Principals[g][f]) = Credited(g, f)
<1> DEFINE dirs == Directors[g][f]
           billed == Principals[g][f]
<1>1. dirs \in Seq(People) /\ billed \in Seq(People)
  BY MapsAssumption
<1> HIDE DEF dirs, billed
<1>2. /\ dirs \o billed \in Seq(People) /\ Len(dirs) \in Nat /\ Len(billed) \in Nat
      /\ Len(dirs \o billed) = Len(dirs) + Len(billed)
      /\ \A i \in 1..(Len(dirs) + Len(billed)) :
            (dirs \o billed)[i] = IF i <= Len(dirs) THEN dirs[i] ELSE billed[i - Len(dirs)]
  BY <1>1, ConcatProperties, LenProperties
<1>3. /\ DOMAIN (dirs \o billed) = 1..(Len(dirs) + Len(billed))
      /\ DOMAIN dirs = 1..Len(dirs) /\ DOMAIN billed = 1..Len(billed)
  BY <1>1, <1>2, LenProperties
<1>4. OneOf(dirs \o billed) \subseteq OneOf(billed) \cup OneOf(dirs)
  <2> SUFFICES ASSUME NEW i \in 1..(Len(dirs) + Len(billed))
               PROVE  (dirs \o billed)[i] \in OneOf(billed) \cup OneOf(dirs)
    BY <1>3 DEF OneOf
  <2>1. CASE i <= Len(dirs)
    <3>1. i \in DOMAIN dirs /\ (dirs \o billed)[i] = dirs[i]
      BY <1>2, <1>3, <2>1
    <3> QED
      BY <3>1 DEF OneOf
  <2>2. CASE ~(i <= Len(dirs))
    <3>1. i - Len(dirs) \in DOMAIN billed /\ (dirs \o billed)[i] = billed[i - Len(dirs)]
      BY <1>2, <1>3, <2>2
    <3> QED
      BY <3>1 DEF OneOf
  <2> QED
    BY <2>1, <2>2
<1>5. OneOf(dirs) \subseteq OneOf(dirs \o billed)
  <2> SUFFICES ASSUME NEW i \in 1..Len(dirs)
               PROVE  dirs[i] \in OneOf(dirs \o billed)
    BY <1>3 DEF OneOf
  <2>1. i \in DOMAIN (dirs \o billed) /\ (dirs \o billed)[i] = dirs[i]
    BY <1>2, <1>3
  <2> QED
    BY <2>1 DEF OneOf
<1>6. OneOf(billed) \subseteq OneOf(dirs \o billed)
  <2> SUFFICES ASSUME NEW i \in 1..Len(billed)
               PROVE  billed[i] \in OneOf(dirs \o billed)
    BY <1>3 DEF OneOf
  <2>1. Len(dirs) + i \in DOMAIN (dirs \o billed) /\ (dirs \o billed)[Len(dirs) + i] = billed[i]
    BY <1>2, <1>3
  <2> QED
    BY <2>1 DEF OneOf
<1>7. OneOf(dirs) \subseteq People /\ OneOf(billed) \subseteq People
  BY <1>1, <1>3, ElementOfSeq DEF OneOf
<1> QED
  BY <1>1, <1>2, <1>4, <1>5, <1>6, <1>7 DEF Credited, dirs, billed

\* Of the places where a name is credited there is a first.
LEMMA FirstPlace ==
    ASSUME NEW places \in SUBSET Nat, places # {}
    PROVE  \E i \in places : \A j \in places : ~(j < i)
<1>1. \E i \in places : \A j \in places : ~(<<j, i>> \in OpToRel(<, Nat))
  BY WFMin, NatLessThanWellFounded
<1> QED
  BY <1>1 DEF OpToRel

\* The chip row has people credited on the film, and is empty only if none
\* of them is named.
LEMMA ChipRow ==
    ASSUME NEW g \in Gens, NEW f \in Films
    PROVE  /\ PeopleOn(g, f) \in Chips
           /\ OneOf(PeopleOn(g, f)) \subseteq Credited(g, f)
           /\ DOMAIN PeopleOn(g, f) = {} => Credited(g, f) \cap Names[g] = {}
<1> DEFINE credits == Directors[g][f] \o Principals[g][f]
           First(i) == \A j \in 1..(i - 1) : credits[j] # credits[i]
           named == {j \in DOMAIN credits : First(j) /\ credits[j] \in Names[g]}
<1>1. credits \in Seq(People) /\ OneOf(credits) = Credited(g, f)
  BY CreditsOf
<1>2. PeopleOn(g, f) = [i \in named |-> credits[i]]
  BY DEF PeopleOn
<1> HIDE DEF credits
<1>3. DOMAIN credits = 1..Len(credits) /\ Len(credits) \in Nat /\ DOMAIN credits \subseteq Nat
      /\ \A i \in DOMAIN credits : credits[i] \in People
  BY <1>1, LenProperties, ElementOfSeq
<1>4. named \subseteq Nat /\ named \subseteq DOMAIN credits
  BY <1>3
<1>5. [i \in named |-> credits[i]] \in [named -> People]
  BY <1>3, <1>4
<1>6. PeopleOn(g, f) \in Chips
  BY <1>2, <1>4, <1>5 DEF Chips
<1>7. OneOf(PeopleOn(g, f)) \subseteq Credited(g, f)
  BY <1>1, <1>2, <1>4 DEF OneOf
<1>8. ASSUME NEW x \in Credited(g, f) \cap Names[g]
      PROVE  named # {}
  <2> DEFINE places == {i \in DOMAIN credits : credits[i] = x}
  <2>1. places \in SUBSET Nat /\ places # {}
    BY <1>1, <1>3, <1>8 DEF OneOf
  <2>2. PICK i \in places : \A j \in places : ~(j < i)
    BY <2>1, FirstPlace
  <2>3. i \in 1..Len(credits) /\ credits[i] = x
    BY <1>3, <2>2
  <2>4. ASSUME NEW j \in 1..(i - 1)
        PROVE  credits[j] # credits[i]
    BY <1>3, <2>2, <2>3, <2>4
  <2> QED
    BY <1>3, <1>8, <2>3, <2>4
<1> QED
  BY <1>2, <1>6, <1>7, <1>8

\* The cards of a map are somebody's of the chip row, and say whose.
LEMMA CardsOfRow ==
    ASSUME NEW g \in Gens, NEW f \in Films, NEW chips \in Chips
    PROVE  /\ Spine(g, f, chips) \in Spines
           /\ \A x \in DOMAIN Spine(g, f, chips) :
                 /\ Spine(g, f, chips)[x] = IndexesOf(Credited(g, x), chips)
                 /\ Spine(g, f, chips)[x] # {} /\ Spine(g, f, chips)[x] \subseteq DOMAIN chips
           /\ OnGrid(g, f) /\ Credited(g, f) \cap OneOf(chips) # {} => f \in DOMAIN Spine(g, f, chips)
<1> DEFINE theirs == {x \in Films : OnGrid(g, x) /\ Credited(g, x) \cap OneOf(chips) # {}}
           taken == BestOf(theirs, MaxSpine, f)
<1>1. Spine(g, f, chips) = [x \in taken |-> IndexesOf(Credited(g, x), chips)]
  BY DEF Spine
<1>2. taken \subseteq theirs /\ taken \subseteq Films
  BY DEF BestOf
<1>3. f \in theirs => f \in taken
  BY DEF BestOf
<1>4. PICK places \in SUBSET Nat : chips \in [places -> People]
  BY DEF Chips
<1>5. ASSUME NEW x \in theirs
      PROVE  /\ IndexesOf(Credited(g, x), chips) # {} /\ IndexesOf(Credited(g, x), chips) \subseteq DOMAIN chips
             /\ IndexesOf(Credited(g, x), chips) \in SUBSET Nat
  BY <1>4 DEF IndexesOf, OneOf
<1> HIDE DEF taken
<1>6. Spine(g, f, chips) \in [taken -> SUBSET Nat] /\ taken \in SUBSET Films
  BY <1>1, <1>2, <1>5
<1>7. Spine(g, f, chips) \in Spines
  BY <1>6 DEF Spines
<1> QED
  BY <1>1, <1>2, <1>3, <1>5, <1>7

\* What nobody has looked for yet.
LEMMA NothingShown ==
    /\ <<>> \in Chips /\ <<>> \in Spines /\ <<>> \in Markers /\ DOMAIN <<>> = {}
    /\ \A f \in Films \cup {"none"} : [NoMap EXCEPT !.film = f] \in MapRows
    /\ Away \in Visits /\ \A g \in Nat : Consistent(g, Away)
<1>1. \A S : <<>> \in [{} -> S]
  OBVIOUS
<1>2. <<>> \in Chips /\ <<>> \in Spines /\ <<>> \in Markers /\ DOMAIN <<>> = {}
  BY <1>1 DEF Chips, Spines, Markers
<1>3. \A f \in Films \cup {"none"} : [NoMap EXCEPT !.film = f] \in MapRows
  BY <1>2 DEF NoMap, MapRows
<1>4. Away \in Visits
  BY <1>2 DEF Away, NoMap, Visits, MapRows
<1>5. \A g \in Nat : Consistent(g, Away)
  BY <1>2 DEF Away, NoMap, Consistent, Shown
<1> QED
  BY <1>2, <1>3, <1>4, <1>5

\* A reader goes on, while the generation and the others stay.
LEMMA GoKeeps ==
    ASSUME MapsInductive, NEW r \in Readers, NEW w \in Visits, Consistent(gen, w), Go(r, w), gen' = gen
    PROVE  MapsInductive'
<1>1. visit' = [visit EXCEPT ![r] = w] /\ visit \in [Readers -> Visits]
  BY DEF MapsInductive, MapsTypes, Go
<1>2. visit' \in [Readers -> Visits]
  BY <1>1
<1>3. \A s \in Readers : Consistent(gen', visit'[s])
  BY <1>1 DEF MapsInductive
<1> QED
  BY <1>2, <1>3 DEF MapsInductive, MapsTypes

\* Where a reader is, in full.
LEMMA OneVisit ==
    ASSUME MapsInductive, NEW r \in Readers
    PROVE  /\ visit[r] \in Visits /\ visit[r].map \in MapRows
           /\ Shown(gen, visit[r]) /\ (visit[r].since # 0 => Current(gen, visit[r]))
           /\ gen \in 0..LastGen /\ (gen # 0 => gen \in Gens)
<1>1. visit[r] \in Visits /\ gen \in 0..LastGen
  BY DEF MapsInductive, MapsTypes
<1>2. gen # 0 => gen \in Gens
  BY <1>1, MapsAssumption DEF Gens
<1> QED
  BY <1>1, <1>2 DEF MapsInductive, Consistent, Visits

\* What a search offers is mappable in the generation it read.
LEMMA SearchKeeps ==
    ASSUME MapsInductive, NEW r \in Readers, NEW query \in Queries, Search(r, query)
    PROVE  MapsInductive'
<1> DEFINE hits == BestOf(Mappable(gen, query.here), SearchHits, "none")
           at == IF hits = {} THEN "outside" ELSE "hits"
           w == [Away EXCEPT !.at = at, !.hits = hits, !.query = query.outside, !.since = gen]
<1>1. Go(r, w) /\ gen' = gen /\ gen # 0
  BY DEF Search, Ready
<1>2. query.here \subseteq Films /\ query.outside \subseteq Films /\ gen \in Nat
  BY MapsAssumption, OneVisit
<1>3. hits \subseteq Mappable(gen, query.here) /\ at \in {"outside", "hits"}
  BY DEF BestOf
<1>4. hits \subseteq Films /\ \A f \in hits : OnGrid(gen, f) /\ Principals[gen][f] # <<>>
  BY <1>2, <1>3 DEF Mappable
<1> HIDE DEF hits, at
<1>5. /\ w \in Visits /\ w.at = at /\ w.hits = hits /\ w.since = gen /\ w.map = NoMap
  BY <1>2, <1>3, <1>4, NothingShown DEF Away, Visits
<1> HIDE DEF w
<1>6. Shown(gen, w)
  BY <1>1, <1>3, <1>5, NothingShown DEF Shown, NoMap
<1>7. Current(gen, w)
  BY <1>3, <1>4, <1>5, NothingShown DEF Current, NoMap
<1> QED
  BY <1>1, <1>5, <1>6, <1>7, GoKeeps DEF Consistent

\* So is what the fallback offers, looked up again where its answer lands.
LEMMA FallbackKeeps ==
    ASSUME MapsInductive, NEW r \in Readers, Fallback(r)
    PROVE  MapsInductive'
<1> DEFINE v == visit[r]
<1>1. gen' = gen /\ v.at = "outside" /\ v \in Visits /\ gen # 0
      /\ Shown(gen, v) /\ (v.since # 0 => Current(gen, v)) /\ gen \in Nat
  <2>1. gen' = gen /\ v.at = "outside"
    BY DEF Fallback, ReaderAt
  <2>2. v \in Visits /\ Shown(gen, v) /\ (v.since # 0 => Current(gen, v)) /\ gen \in Nat
    BY OneVisit
  <2>3. gen # 0
    BY <2>1, <2>2 DEF Shown
  <2> QED
    BY <2>1, <2>2, <2>3
<1>2. PICK hits, since : /\ Go(r, [v EXCEPT !.at = "hits", !.hits = hits, !.query = {}, !.since = since])
                         /\ hits \subseteq Films /\ since \in Nat
                         /\ since # 0 => since = gen /\ \A f \in hits : OnGrid(gen, f) /\ Principals[gen][f] # <<>>
  <2>1. CASE \E hits \in SUBSET Mappable(gen, v.query \cap Matched) :
                 Go(r, [v EXCEPT !.at = "hits", !.hits = hits, !.query = {}, !.since = gen])
    BY <1>1, <2>1, MapsAssumption DEF Mappable
  <2>2. CASE Go(r, [v EXCEPT !.at = "hits", !.query = {}])
    <3>1. [v EXCEPT !.at = "hits", !.query = {}]
          = [v EXCEPT !.at = "hits", !.hits = v.hits, !.query = {}, !.since = v.since]
      BY <1>1 DEF Visits
    <3>2. v.hits \subseteq Films /\ v.since \in Nat
      BY <1>1 DEF Visits
    <3>3. Go(r, [v EXCEPT !.at = "hits", !.hits = v.hits, !.query = {}, !.since = v.since])
      BY <2>2, <3>1, Zenon
    <3>4. v.since # 0 => v.since = gen /\ \A f \in v.hits : OnGrid(gen, f) /\ Principals[gen][f] # <<>>
      BY <1>1, Zenon DEF Current
    <3> QED
      BY <3>2, <3>3, <3>4, Zenon
  <2> QED
    BY <2>1, <2>2 DEF Fallback
<1> DEFINE w == [v EXCEPT !.at = "hits", !.hits = hits, !.query = {}, !.since = since]
<1>3. w \in Visits /\ w.at = "hits" /\ w.hits = hits /\ w.since = since /\ w.map = v.map
  BY <1>1, <1>2 DEF Visits
<1> HIDE DEF w
<1>4. DOMAIN v.map.spine = {} /\ DOMAIN v.map.marks = {}
  BY <1>1 DEF Shown
<1>5. Shown(gen, w)
  BY <1>1, <1>3, <1>4 DEF Shown
<1>6. w.since # 0 => Current(gen, w)
  BY <1>2, <1>3, <1>4 DEF Current
<1> QED
  BY <1>1, <1>2, <1>3, <1>5, <1>6, GoKeeps DEF Consistent, w

\* A map is opened on what its first statement read, or not found.
LEMMA OpenKeeps ==
    ASSUME MapsInductive, NEW r \in Readers, NEW f \in Films, Open(r, f)
    PROVE  MapsInductive'
<1> DEFINE v == visit[r]
           m == [NoMap EXCEPT !.film = f]
<1>1. gen' = gen /\ gen # 0 /\ gen \in Nat /\ v \in Visits /\ Shown(gen, v) /\ (v.since # 0 => Current(gen, v))
  BY OneVisit DEF Open, Ready
<1>2. m \in MapRows /\ m.film = f /\ DOMAIN m.spine = {} /\ DOMAIN m.marks = {}
  BY NothingShown DEF NoMap
<1> HIDE DEF m
<1>3. v.at = "home" \/ (v.at = "hits" /\ f \in v.hits)
  BY DEF Open, ReaderAt
<1>4. CASE f \in Titles[gen]
  <2> DEFINE since == IF v.at = "home" THEN gen ELSE v.since
             w == [v EXCEPT !.at = "people", !.map = m, !.since = since]
  <2>1. Go(r, w)
    BY <1>4 DEF Open, ReaderAt, m
  <2>2. since \in Nat /\ (since # 0 => since = gen)
    BY <1>1 DEF Visits, Current
  <2>3. w \in Visits /\ w.at = "people" /\ w.map = m /\ w.since = since /\ w.hits = v.hits
    BY <1>1, <1>2, <2>2 DEF Visits
  <2>4. since # 0 => \A x \in v.hits : OnGrid(gen, x) /\ Principals[gen][x] # <<>>
    BY <1>1, <1>3 DEF Shown, Current
  <2> HIDE DEF w, since
  <2>5. Shown(gen, w)
    BY <1>1, <1>2, <2>3 DEF Shown
  <2>6. w.since # 0 => Current(gen, w)
    BY <1>2, <1>4, <2>2, <2>3, <2>4 DEF Current
  <2> QED
    BY <1>1, <2>1, <2>3, <2>5, <2>6, GoKeeps DEF Consistent
<1>5. CASE f \notin Titles[gen]
  <2> DEFINE w == [v EXCEPT !.at = "notfound", !.map = m]
  <2>1. Go(r, w)
    BY <1>5 DEF Open, ReaderAt, m
  <2>2. w \in Visits /\ w.at = "notfound" /\ w.map = m /\ w.since = v.since /\ w.hits = v.hits
    BY <1>1, <1>2 DEF Visits
  <2>3. v.since = 0
    BY <1>1, <1>3, <1>5 DEF Shown, Current, OnGrid
  <2> HIDE DEF w
  <2>4. Shown(gen, w)
    BY <1>1, <1>2, <2>2 DEF Shown
  <2> QED
    BY <1>1, <2>1, <2>2, <2>3, <2>4, GoKeeps DEF Consistent
<1> QED
  BY <1>4, <1>5

\* The chip row is the people of the film, when there are any.
LEMMA ReadPeopleKeeps ==
    ASSUME MapsInductive, NEW r \in Readers, ReadPeople(r)
    PROVE  MapsInductive'
<1> DEFINE v == visit[r]
           chips == PeopleOn(gen, v.map.film)
           at == IF DOMAIN chips = {} THEN "notfound" ELSE "spine"
           w == [v EXCEPT !.at = at, !.map.chips = chips]
<1>1. /\ Go(r, w) /\ gen' = gen /\ v.at = "people" /\ v \in Visits /\ v.map \in MapRows
      /\ Shown(gen, v) /\ (v.since # 0 => Current(gen, v)) /\ gen \in Nat /\ gen \in Gens
  BY OneVisit DEF ReadPeople, ReaderAt, Shown
<1>2. v.map.film \in Films /\ DOMAIN v.map.spine = {} /\ DOMAIN v.map.marks = {} /\ gen # 0
  BY <1>1 DEF Shown
<1>3. chips \in Chips /\ (DOMAIN chips = {} => Credited(gen, v.map.film) \cap Names[gen] = {})
  BY <1>1, <1>2, ChipRow
<1>4. at \in {"notfound", "spine"} /\ (at = "notfound" <=> DOMAIN chips = {})
  OBVIOUS
<1>5. chips = PeopleOn(gen, v.map.film)
  OBVIOUS
<1> HIDE DEF chips, at
<1>6. [v.map EXCEPT !.chips = chips] \in MapRows
  BY <1>1, <1>3 DEF MapRows
<1>7. w \in Visits /\ w.at = at /\ w.since = v.since /\ w.hits = v.hits /\ w.map = [v.map EXCEPT !.chips = chips]
  BY <1>1, <1>4, <1>6 DEF Visits
<1>8. w.map.film = v.map.film /\ w.map.chips = chips /\ w.map.spine = v.map.spine /\ w.map.marks = v.map.marks
  BY <1>1, <1>7 DEF MapRows
<1> HIDE DEF w
<1>9. Shown(gen, w)
  BY <1>1, <1>2, <1>4, <1>7, <1>8 DEF Shown
<1>10. w.since # 0 => Current(gen, w)
  BY <1>1, <1>2, <1>3, <1>4, <1>5, <1>7, <1>8 DEF Current
<1> QED
  BY <1>1, <1>7, <1>9, <1>10, GoKeeps DEF Consistent

\* The cards are placed on the row the visit has, whichever the generation.
LEMMA ReadSpineKeeps ==
    ASSUME MapsInductive, NEW r \in Readers, ReadSpine(r)
    PROVE  MapsInductive'
<1> DEFINE v == visit[r]
           film == v.map.film
           chips == v.map.chips
           spine == Spine(gen, film, chips)
           w == [v EXCEPT !.at = "map", !.map.spine = spine]
<1>1. /\ Go(r, w) /\ gen' = gen /\ v.at = "spine" /\ v \in Visits /\ v.map \in MapRows
      /\ Shown(gen, v) /\ (v.since # 0 => Current(gen, v)) /\ gen \in Nat /\ gen \in Gens
  BY OneVisit DEF ReadSpine, ReaderAt, Shown
<1>2. film \in Films /\ chips \in Chips /\ DOMAIN v.map.marks = {} /\ gen # 0
  BY <1>1 DEF Shown, MapRows
<1>3. /\ spine \in Spines
      /\ \A x \in DOMAIN spine :
            spine[x] = IndexesOf(Credited(gen, x), chips) /\ spine[x] # {} /\ spine[x] \subseteq DOMAIN chips
  BY <1>1, <1>2, CardsOfRow
<1>4. v.since # 0 /\ film \notin OffGrid => film \in DOMAIN spine
  <2> SUFFICES ASSUME v.since # 0, film \notin OffGrid
               PROVE  film \in DOMAIN spine
    OBVIOUS
  <2>1. OnGrid(gen, film) /\ chips = PeopleOn(gen, film) /\ DOMAIN chips # {}
    BY <1>1 DEF Current, OnGrid
  <2>2. OneOf(chips) # {} /\ OneOf(chips) \subseteq Credited(gen, film)
    BY <1>1, <1>2, <2>1, ChipRow DEF OneOf
  <2> QED
    BY <1>1, <1>2, <2>1, <2>2, CardsOfRow
<1> HIDE DEF spine
<1>5. [v.map EXCEPT !.spine = spine] \in MapRows
  BY <1>1, <1>3 DEF MapRows
<1>6. w \in Visits /\ w.at = "map" /\ w.since = v.since /\ w.hits = v.hits /\ w.map = [v.map EXCEPT !.spine = spine]
  BY <1>1, <1>5 DEF Visits
<1>7. w.map.film = film /\ w.map.chips = chips /\ w.map.spine = spine /\ w.map.marks = v.map.marks
  BY <1>1, <1>6 DEF MapRows
<1> HIDE DEF w, film, chips
<1>8. Shown(gen, w)
  BY <1>2, <1>3, <1>6, <1>7 DEF Shown
<1>9. w.since # 0 => Current(gen, w)
  BY <1>1, <1>2, <1>3, <1>4, <1>6, <1>7 DEF Current, Placed, film, chips
<1> QED
  BY <1>1, <1>6, <1>8, <1>9, GoKeeps DEF Consistent

\* Whose markers to draw is nobody, or everybody on the row.
LEMMA ScrollKeeps ==
    ASSUME MapsInductive, NEW r \in Readers, Scroll(r)
    PROVE  MapsInductive'
<1> DEFINE v == visit[r]
<1>1. /\ gen' = gen /\ v.at = "map" /\ v \in Visits /\ v.map \in MapRows
      /\ Shown(gen, v) /\ (v.since # 0 => Current(gen, v)) /\ gen \in Nat /\ gen \in Gens
  BY OneVisit DEF Scroll, ReaderAt, Shown
<1>2. v.map.film \in Films
  BY <1>1 DEF Shown
<1>3. PICK who \in {{}, OneOf(PeopleOn(gen, v.map.film))} :
            Go(r, [v EXCEPT !.at = "details", !.map.who = who])
  BY DEF Scroll
<1>4. who \subseteq People
  BY <1>1, <1>2, <1>3, ChipRow, CreditsOf
<1> DEFINE w == [v EXCEPT !.at = "details", !.map.who = who]
<1>5. [v.map EXCEPT !.who = who] \in MapRows
  BY <1>1, <1>4 DEF MapRows
<1>6. w \in Visits /\ w.at = "details" /\ w.since = v.since /\ w.hits = v.hits /\ w.map = [v.map EXCEPT !.who = who]
  BY <1>1, <1>5 DEF Visits
<1>7. /\ w.map.film = v.map.film /\ w.map.chips = v.map.chips /\ w.map.spine = v.map.spine
      /\ w.map.marks = v.map.marks /\ w.map.who = who
  BY <1>1, <1>6 DEF MapRows
<1> HIDE DEF w
<1>8. Shown(gen, w)
  BY <1>1, <1>6, <1>7 DEF Shown
<1>9. w.since # 0 => Current(gen, w)
  BY <1>1, <1>3, <1>6, <1>7 DEF Current, Placed
<1> QED
  BY <1>1, <1>3, <1>6, <1>8, <1>9, GoKeeps DEF Consistent, w

\* The markers of a card are for its places on the chip row.
LEMMA MarkersOfRow ==
    ASSUME NEW chips, NEW whose, NEW who \in {{}, OneOf(chips)}
    PROVE  whose \cap who \in {{}, {chips[i] : i \in IndexesOf(whose, chips)}}
<1> QED
  BY Zenon DEF OneOf, IndexesOf

\* The details are those of cards on the map.
LEMMA ReadDetailsKeeps ==
    ASSUME MapsInductive, NEW r \in Readers, ReadDetails(r)
    PROVE  MapsInductive'
<1> DEFINE v == visit[r]
<1>1. /\ gen' = gen /\ v.at = "details" /\ v \in Visits /\ v.map \in MapRows
      /\ Shown(gen, v) /\ (v.since # 0 => Current(gen, v)) /\ gen \in Nat /\ gen \in Gens
  BY OneVisit DEF ReadDetails, ReaderAt, Shown
<1>2. PICK shared \in SUBSET DOMAIN v.map.spine :
        Go(r, [v EXCEPT !.at = "map", !.map.who = {},
                        !.map.marks = [x \in (shared \cap Titles[gen]) |-> Credited(gen, x) \cap v.map.who]])
  BY DEF ReadDetails
<1> DEFINE shown == shared \cap Titles[gen]
           marks == [x \in shown |-> Credited(gen, x) \cap v.map.who]
           m == [v.map EXCEPT !.who = {}, !.marks = marks]
           w == [v EXCEPT !.at = "map", !.map = m]
<1>3. shown \subseteq DOMAIN v.map.spine /\ shown \subseteq Films /\ v.map.who \subseteq People
  <2>1. PICK films \in SUBSET Films : v.map.spine \in [films -> SUBSET Nat]
    BY <1>1 DEF MapRows, Spines
  <2> QED
    BY <1>1, <2>1 DEF MapRows
<1> HIDE DEF shown
<1>4. marks \in [shown -> SUBSET People] /\ marks \in Markers /\ DOMAIN marks = shown
  BY <1>3 DEF Markers
<1>5. ASSUME v.since # 0, NEW x \in shown
      PROVE  marks[x] \in {{}, {v.map.chips[i] : i \in v.map.spine[x]}}
  <2>1. v.map.spine[x] = IndexesOf(Credited(gen, x), v.map.chips) /\ v.map.who \in {{}, OneOf(v.map.chips)}
    BY <1>1, <1>3, <1>5 DEF Current, Placed
  <2> QED
    BY <2>1, MarkersOfRow
<1> HIDE DEF marks
<1>6. m \in MapRows /\ m.film = v.map.film /\ m.chips = v.map.chips /\ m.spine = v.map.spine /\ m.marks = marks
  BY <1>1, <1>4 DEF MapRows
<1> HIDE DEF m
<1>7. w \in Visits /\ w.at = "map" /\ w.since = v.since /\ w.hits = v.hits /\ w.map = m
  BY <1>1, <1>6 DEF Visits
<1>8. Go(r, w)
  <2>1. [v EXCEPT !.at = "map", !.map.who = {}, !.map.marks = marks] = w
    BY <1>1 DEF Visits, MapRows, m
  <2> QED
    BY <1>2, <2>1 DEF marks, shown
<1> HIDE DEF w
<1>9. Shown(gen, w)
  BY <1>1, <1>6, <1>7 DEF Shown
<1>10. w.since # 0 => Current(gen, w)
  BY <1>1, <1>3, <1>4, <1>5, <1>6, <1>7 DEF Current, Placed
<1> QED
  BY <1>1, <1>7, <1>8, <1>9, <1>10, GoKeeps DEF Consistent

\* A statement that fails ends the visit, or leaves its map without details.
LEMMA FailKeeps ==
    ASSUME MapsInductive, NEW r \in Readers, Fail(r)
    PROVE  MapsInductive'
<1> DEFINE v == visit[r]
<1>1. /\ gen' = gen /\ v \in Visits /\ v.map \in MapRows
      /\ Shown(gen, v) /\ (v.since # 0 => Current(gen, v)) /\ gen \in Nat
  BY OneVisit DEF Fail
<1>2. CASE Go(r, Away)
  BY <1>1, <1>2, NothingShown, GoKeeps
<1>3. CASE v.at = "details" /\ Go(r, [v EXCEPT !.at = "map", !.map.who = {}])
  <2> DEFINE w == [v EXCEPT !.at = "map", !.map.who = {}]
  <2>1. [v.map EXCEPT !.who = {}] \in MapRows
    BY <1>1 DEF MapRows
  <2>2. w \in Visits /\ w.at = "map" /\ w.since = v.since /\ w.hits = v.hits /\ w.map = [v.map EXCEPT !.who = {}]
    BY <1>1, <2>1 DEF Visits
  <2>3. w.map.film = v.map.film /\ w.map.chips = v.map.chips /\ w.map.spine = v.map.spine /\ w.map.marks = v.map.marks
    BY <1>1, <2>2 DEF MapRows
  <2>4. Go(r, w)
    BY <1>3
  <2> HIDE DEF w
  <2>5. Shown(gen, w)
    BY <1>1, <1>3, <2>2, <2>3 DEF Shown
  <2>6. w.since # 0 => Current(gen, w)
    BY <1>1, <1>3, <2>2, <2>3 DEF Current, Placed
  <2> QED
    BY <1>1, <2>2, <2>4, <2>5, <2>6, GoKeeps DEF Consistent
<1> QED
  BY <1>2, <1>3 DEF Fail, ReaderAt

\* A publish makes every reader's knowledge old.
LEMMA PublishKeeps ==
    ASSUME MapsInductive, Publish
    PROVE  MapsInductive'
<1>1. gen' \in 0..LastGen /\ gen' # 0
  BY MapsAssumption DEF Publish, MapsInductive, MapsTypes
<1>2. ASSUME NEW r \in Readers
      PROVE  visit'[r] \in Visits /\ Consistent(gen', visit'[r])
  <2> DEFINE v == visit[r]
             w == [v EXCEPT !.since = 0]
  <2>1. v \in Visits /\ Shown(gen, v)
    BY OneVisit
  <2>2. visit'[r] = w
    BY DEF Publish
  <2>3. w \in Visits /\ w.since = 0 /\ w.at = v.at /\ w.hits = v.hits /\ w.map = v.map
    BY <2>1 DEF Visits
  <2> HIDE DEF w
  <2>4. Shown(gen', w)
    BY <1>1, <2>1, <2>3 DEF Shown
  <2> QED
    BY <2>2, <2>3, <2>4 DEF Consistent
<1>3. visit' \in [Readers -> Visits]
  BY <1>2 DEF Publish
<1> QED
  BY <1>1, <1>2, <1>3 DEF MapsInductive, MapsTypes

\* No step breaks the invariant.
LEMMA MapsStep ==
    ASSUME MapsInductive, [MapsNext]_mapsVars
    PROVE  MapsInductive'
<1>1. CASE UNCHANGED mapsVars
  BY <1>1 DEF mapsVars, MapsInductive, MapsTypes
<1>2. ASSUME NEW r \in Readers, GoHome(r)
      PROVE  MapsInductive'
  <2>1. gen \in Nat
    BY <1>2, OneVisit
  <2> QED
    BY <1>2, <2>1, NothingShown, GoKeeps DEF GoHome
<1> QED
  BY <1>1, <1>2, SearchKeeps, FallbackKeeps, OpenKeeps, ReadPeopleKeeps, ReadSpineKeeps, ScrollKeeps,
     ReadDetailsKeeps, FailKeeps, PublishKeeps
  DEF MapsNext, Step

\* It holds before the first generation, and so always.
LEMMA MapsAlways == MapsSpec => []MapsInductive
<1>1. MapsInit => MapsInductive
  <2>1. 0 \in 0..LastGen
    BY MapsAssumption
  <2> QED
    BY <2>1, NothingShown DEF MapsInit, MapsInductive, MapsTypes
<1> QED
  BY <1>1, MapsStep, PTL DEF MapsSpec

\* What is on a screen holds together: every card is somebody's of the chip
\* row, whichever generations the two are from, and its markers and the film
\* in the middle agree with it while one generation stays live.
THEOREM MapsHoldTogether == MapsSpec => []MapHolds
<1>1. MapsInductive => MapHolds
  <2> SUFFICES ASSUME MapsInductive PROVE MapHolds
    OBVIOUS
  <2>1. CardsAreSomebodys
    BY OneVisit DEF CardsAreSomebodys, Shown
  <2>2. DetailsAgree
    BY OneVisit DEF DetailsAgree, Current
  <2>3. AnchorIsOnItsMap
    BY OneVisit DEF AnchorIsOnItsMap, Current, ReaderAt
  <2> QED
    BY <2>1, <2>2, <2>3 DEF MapHolds
<1> QED
  BY <1>1, MapsAlways, PTL

\* A film a search offered opens while its generation is live, unless the
\* dataset names nobody who is credited on it.
THEOREM OffersOpen == MapsSpec => []OfferedFilmsOpen
<1>1. MapsInductive => OfferedFilmsOpen
  BY OneVisit DEF OfferedFilmsOpen, Current, ReaderAt
<1> QED
  BY <1>1, MapsAlways, PTL

-----------------------------------------------------------------------------
(* Share images.                                                           *)

Requests ==
    [at : {"idle", "meta", "look", "slot", "draw", "put"}, asked : Faces \cup {"none"},
     v : Faces \cup {"none"}, movie : Movies \cup {Nothing}, steady : BOOLEAN]

CardsTypes ==
    /\ movie \in Movies
    /\ cards \subseteq [v : Faces, shows : Movies]
    /\ req \in [Unfurlers -> Requests]

\* What a request knows at each step.
Knows(q) ==
    /\ q.at \in {"look", "slot", "draw", "put"} => q.movie \in Movies /\ q.v = OGVersion(q.movie)
    /\ q.at = "put" => q.v \notin Bare
    /\ q.at # "idle" /\ q.steady => q.asked = OGVersion(movie)
    /\ q.at \in {"look", "slot", "draw", "put"} /\ q.steady => q.v = OGVersion(movie)

CardsInductive ==
    /\ CardsTypes
    /\ \A u \in Unfurlers : Knows(req[u])
    /\ VersionsHold

LEMMA VersionsAreFaces == \A m \in Movies : OGVersion(m) \in Faces
BY DEF Movies, OGVersion

\* A request that goes on, with the film and the table as they were.
LEMMA RequestMoves ==
    ASSUME NEW u \in Unfurlers, CardsInductive, NEW q \in Requests,
           req' = [req EXCEPT ![u] = q], Knows(q), UNCHANGED <<movie, cards, kept>>
    PROVE  CardsInductive'
<1> USE DEF CardsInductive
<1>1. CardsTypes'
  BY DEF CardsTypes
<1>2. \A w \in Unfurlers : req'[w] = IF w = u THEN q ELSE req[w]
  BY DEF CardsTypes
<1>3. \A w \in Unfurlers : Knows(req[w])'
  BY <1>2 DEF Knows
<1>4. VersionsHold'
  BY DEF VersionsHold, CardsShowTheirVersion, KeptAsNamed
<1> QED
  BY <1>1, <1>3, <1>4

\* A request that is answered, its answer perhaps kept.
LEMMA RequestEnds ==
    ASSUME NEW u \in Unfurlers, CardsInductive,
           req' = [req EXCEPT ![u] = Idle], UNCHANGED <<movie, cards>>,
           \/ UNCHANGED kept
           \/ \E shows \in Movies \cup {Generic} :
                /\ Keep(u, shows)
                /\ req[u].steady => shows = Generic \/ OGVersion(shows) = req[u].asked
    PROVE  CardsInductive'
<1> USE DEF CardsInductive
<1>1. Idle \in Requests /\ Knows(Idle)
  BY DEF Idle, Requests, Knows
<1>2. CardsTypes'
  BY <1>1 DEF CardsTypes
<1>3. \A w \in Unfurlers : req'[w] = IF w = u THEN Idle ELSE req[w]
  BY DEF CardsTypes
<1>4. \A w \in Unfurlers : Knows(req[w])'
  BY <1>1, <1>3 DEF Knows
<1>5. CardsShowTheirVersion'
  BY DEF VersionsHold, CardsShowTheirVersion
<1>6. KeptAsNamed'
  BY DEF VersionsHold, KeptAsNamed, Keep
<1> QED
  BY <1>2, <1>4, <1>5, <1>6 DEF VersionsHold

\* A card that is put down is what its version says.
LEMMA PutKeepsVersions ==
    ASSUME NEW u \in Unfurlers, CardsInductive, Put(u)
    PROVE  CardsInductive'
<1> USE DEF CardsInductive
<1>1. req[u].at = "put" /\ Knows(req[u]) /\ req[u] \in Requests
  BY DEF Put, At, CardsTypes
<1>2. req[u].movie \in Movies /\ req[u].v = OGVersion(req[u].movie) /\ req[u].v \in Faces \ Bare
  BY <1>1, VersionsAreFaces DEF Knows
<1>3. req[u].steady => OGVersion(req[u].movie) = req[u].asked
  BY <1>1, <1>2 DEF Knows
<1>4. req' = [req EXCEPT ![u] = Idle] /\ UNCHANGED movie /\ Keep(u, req[u].movie)
  BY DEF Put, Set
<1>5. Idle \in Requests /\ Knows(Idle)
  BY DEF Idle, Requests, Knows
<1>6. cards' \subseteq [v : Faces, shows : Movies] /\ CardsShowTheirVersion'
  <2>1. CASE UNCHANGED cards
    BY <2>1 DEF CardsTypes, VersionsHold, CardsShowTheirVersion
  <2>2. CASE /\ \A c \in cards : c.v # req[u].v
             /\ cards' = cards \cup {[v |-> req[u].v, shows |-> req[u].movie]}
    BY <2>2, <1>2 DEF CardsTypes, VersionsHold, CardsShowTheirVersion
  <2> QED
    BY <2>1, <2>2 DEF Put
<1>7. CardsTypes'
  BY <1>4, <1>5, <1>6 DEF CardsTypes
<1>8. \A w \in Unfurlers : Knows(req[w])'
  <2>1. \A w \in Unfurlers : req'[w] = IF w = u THEN Idle ELSE req[w]
    BY <1>4 DEF CardsTypes
  <2> QED
    BY <2>1, <1>4, <1>5 DEF Knows
<1>9. KeptAsNamed'
  BY <1>3, <1>4 DEF VersionsHold, KeptAsNamed, Keep
<1> QED
  BY <1>6, <1>7, <1>8, <1>9 DEF VersionsHold

\* No step breaks the invariant.
LEMMA CardsStep ==
    ASSUME CardsInductive, [CardsNext]_cardsVars
    PROVE  CardsInductive'
<1> USE DEF CardsInductive
<1>1. \A u \in Unfurlers : req[u] \in Requests
  BY DEF CardsTypes
<1>2. CASE Change
  <2>1. CardsTypes'
    <3>1. movie' \in Movies /\ UNCHANGED cards
      BY <1>2 DEF Change
    <3>2. req' = [u \in Unfurlers |-> [req[u] EXCEPT !.steady = FALSE]]
      BY <1>2 DEF Change
    <3>3. \A u \in Unfurlers : [req[u] EXCEPT !.steady = FALSE] \in Requests
      BY <1>1 DEF Requests
    <3> QED
      BY <3>1, <3>2, <3>3 DEF CardsTypes
  <2>2. \A u \in Unfurlers : Knows(req[u])'
    <3> SUFFICES ASSUME NEW u \in Unfurlers PROVE Knows(req[u])'
      OBVIOUS
    <3>1. req'[u] = [req[u] EXCEPT !.steady = FALSE]
      BY <1>2 DEF Change
    <3>2. /\ req'[u].at = req[u].at /\ req'[u].v = req[u].v
          /\ req'[u].movie = req[u].movie /\ ~req'[u].steady
      BY <1>1, <3>1 DEF Requests
    <3>3. Knows(req[u])
      OBVIOUS
    <3> QED
      BY <3>2, <3>3 DEF Knows
  <2>3. VersionsHold'
    BY <1>2 DEF Change, VersionsHold, CardsShowTheirVersion, KeptAsNamed
  <2> QED
    BY <2>1, <2>2, <2>3
<1>3. ASSUME NEW u \in Unfurlers, Preview(u) PROVE CardsInductive'
  <2> DEFINE q == [Idle EXCEPT !.at = "meta", !.asked = OGVersion(movie)]
  <2>1. q \in Requests /\ q.at = "meta" /\ q.asked = OGVersion(movie)
    <3>1. Idle \in Requests
      BY DEF Idle, Requests
    <3> QED
      BY <3>1, VersionsAreFaces DEF Requests, CardsTypes
  <2> HIDE DEF q
  <2>2. q \in Requests /\ Knows(q)
    BY <2>1 DEF Knows
  <2>3. req' = [req EXCEPT ![u] = q] /\ UNCHANGED <<movie, cards, kept>>
    BY <1>3 DEF Preview, Set, q
  <2> QED
    BY <2>2, <2>3, RequestMoves
<1>4. ASSUME NEW u \in Unfurlers, NEW w \in Faces, OldLink(u, w) PROVE CardsInductive'
  <2> DEFINE q == [Idle EXCEPT !.at = "meta", !.asked = w, !.steady = FALSE]
  <2>1. q \in Requests /\ q.at = "meta" /\ ~q.steady
    <3>1. Idle \in Requests
      BY DEF Idle, Requests
    <3> QED
      BY <3>1 DEF Requests
  <2> HIDE DEF q
  <2>2. q \in Requests /\ Knows(q)
    BY <2>1 DEF Knows
  <2>3. req' = [req EXCEPT ![u] = q] /\ UNCHANGED <<movie, cards, kept>>
    BY <1>4 DEF OldLink, Set, q
  <2> QED
    BY <2>2, <2>3, RequestMoves
<1>5. ASSUME NEW u \in Unfurlers, ReadMeta(u) PROVE CardsInductive'
  <2>1. CASE /\ req' = [req EXCEPT ![u] = [req[u] EXCEPT !.at = "look", !.movie = movie, !.v = OGVersion(movie)]]
             /\ UNCHANGED kept
    <3> DEFINE q == [req[u] EXCEPT !.at = "look", !.movie = movie, !.v = OGVersion(movie)]
    <3>1. /\ q \in Requests /\ q.at = "look" /\ q.movie = movie /\ q.v = OGVersion(movie)
          /\ q.asked = req[u].asked /\ q.steady = req[u].steady
      BY <1>1, VersionsAreFaces DEF Requests, CardsTypes
    <3>2. Knows(q)
      <4>1. req[u].steady => req[u].asked = OGVersion(movie)
        BY <1>5 DEF Knows, ReadMeta, At
      <4> QED
        BY <3>1, <4>1 DEF Knows, CardsTypes
    <3> HIDE DEF q
    <3> QED
      BY <1>5, <2>1, <3>1, <3>2, RequestMoves DEF ReadMeta, q
  <2>2. CASE req' = [req EXCEPT ![u] = Idle] /\ Keep(u, Generic)
    BY <1>5, <2>2, RequestEnds DEF ReadMeta
  <2> QED
    BY <1>5, <2>1, <2>2 DEF ReadMeta, Set
<1>6. ASSUME NEW u \in Unfurlers, NEW at \in {"slot", "draw"},
             req[u].at \in {"look", "slot"},
             req' = [req EXCEPT ![u] = [req[u] EXCEPT !.at = at]],
             UNCHANGED <<movie, cards, kept>>
      PROVE CardsInductive'
  <2> DEFINE q == [req[u] EXCEPT !.at = at]
  <2>1. /\ q \in Requests /\ q.at = at /\ q.movie = req[u].movie /\ q.v = req[u].v
        /\ q.asked = req[u].asked /\ q.steady = req[u].steady
    BY <1>1 DEF Requests
  <2>2. Knows(q)
    BY <1>6, <2>1 DEF Knows
  <2> HIDE DEF q
  <2> QED
    BY <1>6, <2>1, <2>2, RequestMoves DEF q
<1>7. ASSUME NEW u \in Unfurlers, Look(u) PROVE CardsInductive'
  <2>1. req[u].at = "look" /\ UNCHANGED <<movie, cards>>
    BY <1>7 DEF Look, At
  <2>2. ASSUME NEW c \in cards, c.v = req[u].v, req' = [req EXCEPT ![u] = Idle], Keep(u, c.shows)
        PROVE CardsInductive'
    <3>1. OGVersion(c.shows) = req[u].v /\ c.shows \in Movies
      BY <2>2 DEF VersionsHold, CardsShowTheirVersion, CardsTypes
    <3>2. req[u].steady => OGVersion(c.shows) = req[u].asked
      BY <2>1, <3>1 DEF Knows
    <3> QED
      BY <2>1, <2>2, <3>1, <3>2, RequestEnds
  <2>3. CASE req' = [req EXCEPT ![u] = [req[u] EXCEPT !.at = "slot"]] /\ UNCHANGED kept
    BY <2>1, <2>3, <1>6
  <2> QED
    BY <1>7, <2>2, <2>3 DEF Look, Set
<1>8. ASSUME NEW u \in Unfurlers, TakeSlot(u) PROVE CardsInductive'
  BY <1>6, <1>8 DEF TakeSlot, At, Set
<1>9. ASSUME NEW u \in Unfurlers, Busy(u) PROVE CardsInductive'
  BY <1>9, RequestEnds DEF Busy, Set
<1>10. ASSUME NEW u \in Unfurlers, Draw(u) PROVE CardsInductive'
  <2>1. req[u].at = "draw" /\ UNCHANGED <<movie, cards, kept>>
    BY <1>10 DEF Draw, At
  <2>2. CASE req' = [req EXCEPT ![u] = Idle]
    BY <2>1, <2>2, RequestEnds
  <2>3. CASE /\ req[u].movie.face \notin Bare
             /\ req' = [req EXCEPT ![u] = [req[u] EXCEPT !.at = "put"]]
    <3> DEFINE q == [req[u] EXCEPT !.at = "put"]
    <3>1. /\ q \in Requests /\ q.at = "put" /\ q.v = req[u].v /\ q.movie = req[u].movie
          /\ q.asked = req[u].asked /\ q.steady = req[u].steady
      BY <1>1 DEF Requests
    <3>2. Knows(q)
      BY <2>1, <2>3, <3>1 DEF Knows, OGVersion
    <3> HIDE DEF q
    <3> QED
      BY <2>1, <2>3, <3>1, <3>2, RequestMoves DEF q
  <2> QED
    BY <1>10, <2>2, <2>3 DEF Draw, Set
<1>11. ASSUME NEW u \in Unfurlers, Put(u) PROVE CardsInductive'
  BY <1>11, PutKeepsVersions
<1>12. CASE UNCHANGED cardsVars
  BY <1>12 DEF cardsVars, CardsTypes, Knows, VersionsHold, CardsShowTheirVersion, KeptAsNamed
<1> QED
  BY <1>2, <1>3, <1>4, <1>5, <1>7, <1>8, <1>9, <1>10, <1>11, <1>12 DEF CardsNext, Serve

\* og.go: a card in the table, and in whatever keeps it for a year, has the
\* title and the poster its version stands for, whatever the year did.
THEOREM VersionsAlwaysHold == CardsSpec => []VersionsHold
<1>1. CardsInit => CardsInductive
  BY DEF CardsInit, CardsInductive, CardsTypes, Requests, Idle, Knows, VersionsHold, CardsShowTheirVersion,
         KeptAsNamed
<1>2. CardsInductive /\ [CardsNext]_cardsVars => CardsInductive'
  BY CardsStep
<1>3. CardsInductive => VersionsHold
  BY DEF CardsInductive
<1> QED
  BY <1>1, <1>2, <1>3, PTL DEF CardsSpec
=============================================================================

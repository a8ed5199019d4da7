----------------------------- MODULE ShareCards -----------------------------
(***************************************************************************)
(* The picture a shared link unfurls to (cmd/api/og.go, and namePreview in *)
(* cmd/api/main.go).  The page names an address that carries a version;    *)
(* the address is fetched later, answered from meta.og_images or drawn,    *)
(* and kept for a year by whoever fetched it.  The title, the year and the *)
(* poster a card is drawn from may change between any two of these steps.  *)
(*                                                                         *)
(* A face is a title with a poster.  It is all that OGVersion hashes, and  *)
(* the hash is taken to tell faces apart; the card also draws the year.    *)
(***************************************************************************)
EXTENDS Naturals, FiniteSets

CONSTANTS
    Faces,          \* what the one film may be: titles with their posters
    Bare,           \* the faces without a poster
    Years,          \* the years it may be of
    Unfurlers,
    Renders,        \* cards drawn at once
    MaxChanges,     \* bound: times the film changes
    MaxBroken       \* bound: statements, fetches and waits that fail

ASSUME ShareCardsAssumption ==
    /\ Bare \subseteq Faces /\ Years \subseteq Nat /\ Renders \in Nat \ {0}
    /\ {MaxChanges, MaxBroken} \subseteq Nat

VARIABLES
    movie,          \* the film as the catalog has it
    cards,          \* meta.og_images: [v, shows], for the one film
    req,            \* req[u]: an unfurler's request
    kept,           \* [v, of, shows]: what is kept for a year under the
                    \* address v, of requests the film `of` stood still for
    slots,          \* slots taken
    changes, broken

cardsVars == <<movie, cards, req, kept, slots, changes, broken>>

Movies == [face : Faces, year : Years]
OGVersion(m) == m.face

\* The site's own card, and no film.
Generic == [face |-> "generic", year |-> 0]
Nothing == [face |-> "none", year |-> 0]

\* asked: the version in the address.  movie, v: what is read when it is
\* answered, and its version.  steady: the film has not changed since the
\* page was read (no code keeps it).
Idle == [at |-> "idle", asked |-> "none", v |-> "none", movie |-> Nothing, steady |-> TRUE]

CardsInit ==
    /\ movie \in Movies
    /\ cards = {} /\ kept = {} /\ slots = 0
    /\ req = [u \in Unfurlers |-> Idle]
    /\ changes = 0 /\ broken = 0

At(u, at) == req[u].at = at
Set(u, r) == req' = [req EXCEPT ![u] = r]
Breaks == broken < MaxBroken /\ broken' = broken + 1

\* An answer that may be kept for a year.
Keep(u, shows) ==
    kept' = IF req[u].steady
              THEN kept \cup {[v |-> req[u].asked, of |-> movie, shows |-> shows]} ELSE kept

\* namePreview: the page names the card's address, or leaves the generic
\* tags when the film could not be read in time.
Preview(u) ==
    /\ At(u, "idle")
    /\ Set(u, [Idle EXCEPT !.at = "meta", !.asked = OGVersion(movie)])
    /\ UNCHANGED <<movie, cards, kept, slots, changes, broken>>

\* An address somebody holds from before: the version in it may be any.
OldLink(u, v) ==
    /\ At(u, "idle")
    /\ Set(u, [Idle EXCEPT !.at = "meta", !.asked = v, !.steady = FALSE])
    /\ UNCHANGED <<movie, cards, kept, slots, changes, broken>>

\* ServeHTTP's reading of the film: the version is recomputed.  If it fails,
\* the answer is the generic card, and that may be cached.
ReadMeta(u) ==
    /\ At(u, "meta")
    /\ \/ /\ Set(u, [req[u] EXCEPT !.at = "look", !.movie = movie, !.v = OGVersion(movie)])
          /\ UNCHANGED <<kept, broken>>
       \/ Breaks /\ Set(u, Idle) /\ Keep(u, Generic)
    /\ UNCHANGED <<movie, cards, slots, changes>>

Look(u) ==
    /\ At(u, "look")
    /\ \/ \E c \in cards : c.v = req[u].v /\ Set(u, Idle) /\ Keep(u, c.shows) /\ UNCHANGED broken
       \/ /\ ~\E c \in cards : c.v = req[u].v
          /\ Set(u, [req[u] EXCEPT !.at = "slot"])
          /\ UNCHANGED <<kept, broken>>
       \/ Breaks /\ Set(u, [req[u] EXCEPT !.at = "slot"]) /\ UNCHANGED kept
    /\ UNCHANGED <<movie, cards, slots, changes>>

TakeSlot(u) ==
    /\ At(u, "slot") /\ slots < Renders
    /\ slots' = slots + 1
    /\ Set(u, [req[u] EXCEPT !.at = "draw"])
    /\ UNCHANGED <<movie, cards, kept, changes, broken>>

\* Busy: the generic card, not to be kept.
Busy(u) ==
    /\ At(u, "slot") /\ Breaks
    /\ Set(u, Idle)
    /\ UNCHANGED <<movie, cards, kept, slots, changes>>

\* fetchPoster and render: the title, the year and the poster that were
\* read.  A card without its picture is answered and not put down.
Draw(u) ==
    /\ At(u, "draw")
    /\ \/ /\ req[u].movie.face \notin Bare /\ Set(u, [req[u] EXCEPT !.at = "put"])
          /\ UNCHANGED <<slots, broken>>
       \/ req[u].movie.face \in Bare /\ Set(u, Idle) /\ slots' = slots - 1 /\ UNCHANGED broken
       \/ req[u].movie.face \notin Bare /\ Breaks /\ Set(u, Idle) /\ slots' = slots - 1
    /\ UNCHANGED <<movie, cards, kept, changes>>

\* Slip: it is put down under the version the film has by now.
PutUnderNow(u) ==
    /\ At(u, "put")
    /\ cards' = IF \E c \in cards : c.v = OGVersion(movie) THEN cards
                ELSE cards \cup {[v |-> OGVersion(movie), shows |-> req[u].movie]}
    /\ Keep(u, req[u].movie) /\ Set(u, Idle) /\ slots' = slots - 1
    /\ UNCHANGED <<movie, changes, broken>>

\* PutOGImage, and the answer: whoever was first under the version stays.
Put(u) ==
    /\ At(u, "put")
    /\ \/ /\ cards' = IF \E c \in cards : c.v = req[u].v THEN cards
                      ELSE cards \cup {[v |-> req[u].v, shows |-> req[u].movie]}
          /\ UNCHANGED broken
       \/ Breaks /\ UNCHANGED cards
    /\ Keep(u, req[u].movie) /\ Set(u, Idle) /\ slots' = slots - 1
    /\ UNCHANGED <<movie, changes>>

\* A generation gives the film another title or year, a job another poster.
Change ==
    /\ changes < MaxChanges /\ changes' = changes + 1
    /\ movie' \in Movies \ {movie}
    /\ req' = [u \in Unfurlers |-> [req[u] EXCEPT !.steady = FALSE]]
    /\ UNCHANGED <<cards, kept, slots, broken>>

Serve(u) == ReadMeta(u) \/ Look(u) \/ Draw(u) \/ Put(u)

CardsNext ==
    \/ Change
    \/ \E u \in Unfurlers :
        \/ Preview(u) \/ Serve(u) \/ TakeSlot(u) \/ Busy(u)
        \/ \E v \in Faces : OldLink(u, v)

CardsSpec == CardsInit /\ [][CardsNext]_cardsVars

-----------------------------------------------------------------------------
\* A card in the table was drawn from the title and the poster its version
\* stands for, though the film may have changed while it was drawn and two
\* requests may have drawn it at once; one without its picture never gets in.
CardsShowTheirVersion ==
    /\ \A c \in cards : OGVersion(c.shows) = c.v /\ c.v \notin Bare
    /\ \A c, d \in cards : c.v = d.v => c = d

\* What is kept for a year under the address a page named has the title and
\* the poster the page had, when the film stood still in between; the
\* generic card is the one exception, kept when the film could not be read.
KeptAsNamed == \A k \in kept : k.shows = Generic \/ OGVersion(k.shows) = k.v

\* A version says which title and poster are on a card, in the table and in
\* the caches.  Of the year it says nothing.
VersionsHold == CardsShowTheirVersion /\ KeptAsNamed

\* The stamp "changes whenever the picture would" (read.go): what is kept
\* for a year of a film that stood still is the picture of that film as it
\* is, the year on it included.
KeptShowsTheFilm == \A k \in kept : k.shows \in {k.of, Generic}
=============================================================================

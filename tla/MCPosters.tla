----------------------------- MODULE MCPosters -----------------------------
(* Instances of Posters for TLC.                                           *)
EXTENDS Posters, TLC

CONSTANTS f, g

\* Two histories of the catalog.  Generations 1..4 have one film, which gains
\* votes, is flagged as an adult title, is withdrawn, and comes back; in 5
\* and 6 there are two, and they change places.
OneFilm == 1..4
Listed == <<{f}, {}, {}, {f}, {f, g}, {f, g}>>
Flagged == <<{}, {f}, {}, {}, {}, {}>>
Screened == <<{f}, {}, {}, {f}, {}, {}>>
Known ==
    << f :> 1 @@ g :> 0, f :> 3 @@ g :> 0, f :> 0 @@ g :> 0, f :> 3 @@ g :> 0,
       f :> 1 @@ g :> 2, f :> 3 @@ g :> 2 >>

\* Everything that can happen at once is too much: with two films, readers do
\* one thing and no address dies.
HistoryInit ==
    /\ rows = [x \in Films |-> NoRow]
    /\ upkeep = "done"
    /\ omdb = "rest" /\ touched = {} /\ failed = {} /\ asking = {} /\ answers = Unasked
    /\ tmdb = "rest" /\ page = {} /\ tried = {} /\ got = Unasked
    /\ standIn = Unasked /\ probed = {} /\ marks = {}
    /\ colouring = [x \in Films |-> "none"] /\ settled = {}
    /\ faults = 0
    /\ \/ gen = 1 /\ reads = 0 /\ deaths = 0 /\ gone = {g} \X Services
       \/ gen = 5 /\ reads = 1 /\ deaths = MaxDeaths /\ gone = {}

\* A history ends with its last generation, and nobody asks about a film that
\* is not in it.
HistoryNext == Next /\ (gen \in OneFilm => gen' \in OneFilm /\ standIn'[g] = "unasked")

HistorySpec == HistoryInit /\ [][HistoryNext]_vars /\ Fairness
=============================================================================

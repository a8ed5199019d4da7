------------------------------ MODULE MCParts ------------------------------
(***************************************************************************)
(* Six small machines that share no step, side by side in one instance for *)
(* TLC: what readers are served, the cards of shared links, the Telegram   *)
(* board, the matching of TMDb ids, the buffer of wanted marks and the     *)
(* picture probe.  `part` is chosen at the start; that machine runs and    *)
(* the others stay where they began, so the states are the sum of theirs.  *)
(* The properties are the machines' own.                                   *)
(***************************************************************************)
EXTENDS Maps, ShareCards, Board, TMDbIds, WantedMarks, Pictures, TLC

CONSTANTS f1, f2, f3, d, f4, p, q, n, u, a, t

VARIABLE part

\* The second generation bills f3 with somebody the dataset does not name,
\* gives f1 and f2 to other people, and names another one.
EveryTitle == <<Films, Films>>
Named == <<{p, q}, {p, q, n}>>
Billed == <<f1 :> <<p, q>> @@ f2 :> <<q>> @@ f3 :> <<>> @@ d :> <<p>> @@ f4 :> <<q>>,
            f1 :> <<q>> @@ f2 :> <<n>> @@ f3 :> <<u>> @@ d :> <<p>> @@ f4 :> <<q>> >>
DirectedBy == <<f1 :> <<p>> @@ f2 :> <<>> @@ f3 :> <<>> @@ d :> <<>> @@ f4 :> <<>>,
                f1 :> <<n>> @@ f2 :> <<>> @@ f3 :> <<>> @@ d :> <<>> @@ f4 :> <<>> >>
VotesCast == f1 :> 1 @@ f2 :> 3 @@ f3 :> 2 @@ d :> 4 @@ f4 :> 5
Searches == {[here |-> {f1, f2}, outside |-> {}], [here |-> {}, outside |-> {f2, f3, d}]}

\* f1 and f3 resolve to one id; f2 has none, and the last is published later.
ToBeMatched == <<{f1, f2}, {f2, f3}>>
Resolved == f1 :> t @@ f2 :> "none" @@ f3 :> t
ByVotes == f1 :> 1 @@ f2 :> 2 @@ f3 :> 3

-----------------------------------------------------------------------------
Init ==
    /\ part \in {"maps", "cards", "board", "ids", "marks", "pictures"}
    /\ MapsInit /\ CardsInit /\ BoardInit /\ IdsInit /\ MarksInit /\ PicturesInit
    /\ movie = [face |-> a, year |-> 1]

vars == <<part, mapsVars, cardsVars, boardVars, idsVars, markVars, pictureVars>>

\* The machine called `name` is the one that runs.
Only(name) ==
    /\ part = name
    /\ UNCHANGED part
    /\ IF name = "maps" THEN TRUE ELSE UNCHANGED mapsVars
    /\ IF name = "cards" THEN TRUE ELSE UNCHANGED cardsVars
    /\ IF name = "board" THEN TRUE ELSE UNCHANGED boardVars
    /\ IF name = "ids" THEN TRUE ELSE UNCHANGED idsVars
    /\ IF name = "marks" THEN TRUE ELSE UNCHANGED markVars
    /\ IF name = "pictures" THEN TRUE ELSE UNCHANGED pictureVars

Next ==
    \/ Only("maps") /\ MapsNext
    \/ Only("cards") /\ CardsNext
    \/ Only("board") /\ BoardNext
    \/ Only("ids") /\ IdsNext
    \/ Only("marks") /\ MarksNext
    \/ Only("pictures") /\ PicturesNext

\* Each machine's own fairness, while it is the one that runs.
Fairness ==
    /\ WF_boardVars(Only("board") /\ BoardWork) /\ WF_boardVars(Only("board") /\ Tick)
    /\ WF_idsVars(Only("ids") /\ IdsWork)
    /\ \A v \in Visits : WF_pictureVars(Only("pictures") /\ Probe(v))
    /\ \A f \in Pool : WF_pictureVars(Only("pictures") /\ MarkPosterDead(f))
    /\ SF_pictureVars(Only("pictures") /\ PicturesTick)

Spec == Init /\ [][Next]_vars /\ Fairness

-----------------------------------------------------------------------------
\* Every title of the live catalog comes to be matched, where passes run.
TitlesAreMatched == part = "ids" => TitlesGetMatched
=============================================================================

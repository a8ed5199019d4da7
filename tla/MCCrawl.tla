------------------------------ MODULE MCCrawl ------------------------------
(* Instances of Crawl for TLC.                                             *)
EXTENDS Crawl, TLC

CONSTANTS f1, f2, p, q

\* f1 is in the graph; q, who is in it, leads on to f2, which p directed.
TheDirectors == f1 :> <<>> @@ f2 :> <<p>>
TheCast == f1 :> <<q>> @@ f2 :> <<q>>
TheFilms == p :> {f2} @@ q :> {f1, f2}

\* A reader opens f1, and then f2 in either way.
Asked == {<<f1, FALSE>>, <<f2, FALSE>>, <<f2, TRUE>>}
=============================================================================

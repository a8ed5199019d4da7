----------------------------- MODULE MCImporter -----------------------------
(* Instances of Importer for TLC.                                          *)
EXTENDS Importer, TLC

Interchangeable == Permutations(Importers)

\* A film leaves and a film arrives with every generation.
Rolling ==
    [f \in Files |-> [s \in Stamps |-> IF s = 1 THEN {"a", "b"} ELSE {"b", "c"}]]

\* The same, but nobody has rated "b" any more in the second generation: its
\* ratings share no film with the titles of the first.
Rerated == [Rolling EXCEPT ![TitleRatings][2] = {"c"}]

Films == {"a", "b", "c"}

\* Everything that can go wrong at once is too much.  Either the host has
\* settled, or it moves and the bounds on the rest are used up.
TroubledInit ==
    /\ Fresh
    /\ \/ /\ upstream = [f \in Files |-> MaxStamp]
          /\ faults = 0 /\ crashes = 0 /\ drops = 0
       \/ /\ upstream = [f \in Files |-> 1]
          /\ faults = MaxFaults /\ crashes = MaxCrashes /\ drops = MaxDrops

TroubledSpec == TroubledInit /\ [][Next]_vars /\ Fairness
=============================================================================

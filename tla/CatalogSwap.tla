---------------------------- MODULE CatalogSwap ----------------------------
(***************************************************************************)
(* What the importer promises the readers of the catalog, with every step  *)
(* of how it does so left out.                                             *)
(*                                                                         *)
(* The live schema and the meta.generation row that describes it change    *)
(* together, in one step, and only ever to a set of five files every one   *)
(* of which is newer than the set it replaces.                             *)
(***************************************************************************)
EXTENDS Naturals

CONSTANTS Datasets,     \* the files a catalog is built from
          LastStamp     \* the newest Last-Modified the host ever serves

VARIABLES serving,      \* serving[f]: the stamp the live rows of f came from
          described     \* described[f]: the stamp meta.generation gives f

\* 0 is "no stamp": nothing has been published yet.
Set == [Datasets -> 0..LastStamp]

Nothing == [f \in Datasets |-> 0]

Newer(next, was) == \A f \in Datasets : next[f] > was[f]

SwapInit ==
    /\ serving = Nothing
    /\ described = Nothing

Swap(next) ==
    /\ Newer(next, described)
    /\ serving' = next
    /\ described' = next

SwapNext == \E next \in Set : Swap(next)

SwapSpec == SwapInit /\ [][SwapNext]_<<serving, described>>
=============================================================================

------------------------------ MODULE MCLease -------------------------------
(* Instances of Lease for TLC.                                             *)
EXTENDS Lease

\* Two loops with a channel each: the poster loop wakes at a publish only, the
\* colour loop at a publish and at a picture that was found.
Apart == {"posters", "colours"}

\* The two loops that share a channel.
Sharing == {"posters", "tmdb_ids"}
=============================================================================

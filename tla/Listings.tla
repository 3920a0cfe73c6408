-------------------------------- MODULE Listings --------------------------------
(* What a sort may return of the members of a set.                               *)
EXTENDS Naturals, SequencesExt

\* Each member once, and none before one that should come first.
SortedListings(S, Before(_, _)) ==
  {s \in SetToSeqs(S) : \A i, j \in DOMAIN s : i < j => ~Before(s[j], s[i])}
================================================================================

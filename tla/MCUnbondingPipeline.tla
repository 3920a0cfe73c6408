-------------------------- MODULE MCUnbondingPipeline --------------------------
(* Small instances of UnbondingPipeline for TLC.                               *)
EXTENDS UnbondingPipeline, TLC

CONSTANTS k1, k2, k3, new1, new2, failed1

MCKeys == {k1, k2, k3}

\* The committee and its quorum change at height 10.
MCParams ==
  << [from |-> 2,  keys |-> {k1, k2},     quorum |-> 1],
     [from |-> 10, keys |-> {k1, k2, k3}, quorum |-> 2] >>

\* Scripts of both committees, with a lock time of 5.
OldScript == [keys |-> {k1, k2},     quorum |-> 1, lock |-> 5]
NewScript == [keys |-> {k1, k2, k3}, quorum |-> 2, lock |-> 5]

OneNew    == {new1}
TwoNew    == {new1, new2}
OneFailed == {failed1}

\* Two good documents, one staked under each committee.
GoodDocs   == {1, 2}
GoodHeight == 1 :> 10 @@ 2 :> 9
GoodLock   == 1 :> 5 @@ 2 :> 5
GoodOutput == 1 :> NewScript @@ 2 :> OldScript

OneDocs   == {1}
OneHeight == 1 :> 10
OneLock   == 1 :> 5
OneOutput == 1 :> NewScript

\* Document 2 is good, though its lock time is 2^16 too large and is cut when read.
\* Of the others, the unbonding input of 1 names a transaction of another height, so
\* of another committee, that of 3 one that is not in chain; 4 was built with another
\* lock time, 5 lacks an output or an input that is indexed, and 6 does not decode.
PoisonDocs   == {1, 2, 3, 4, 5, 6}
PoisonHeight == 1 :> 9 @@ 2 :> 10 @@ 3 :> 0 @@ 4 :> 10 @@ 5 :> 0 @@ 6 :> 0
PoisonOutput == [d \in PoisonDocs |-> NewScript]
PoisonLock   == [d \in PoisonDocs |-> IF d = 2 THEN 65541 ELSE IF d = 4 THEN 65536 ELSE 5]
================================================================================

---------------------------- MODULE SigningContract ----------------------------
(* What signUnbondingTransaction promises the pipeline: every covenant signer  *)
(* is asked once and answers or fails; only when all have, the call returns    *)
(* exactly a quorum of valid signatures, or an error if there are fewer.       *)
EXTENDS Naturals, FiniteSets

CONSTANTS Keys, Quorum

VARIABLES reply, outcome

vars == <<reply, outcome>>

Valid   == {k \in Keys : reply[k] = "signed"}
Replies == {"error", "forged", "signed"}

Init == reply = [k \in Keys |-> "none"] /\ outcome = [err |-> FALSE, keys |-> {}]

Answer(k) ==
  /\ reply[k] = "none"
  /\ \E r \in Replies : reply' = [reply EXCEPT ![k] = r]
  /\ UNCHANGED outcome

Return ==
  /\ \A k \in Keys : reply[k] # "none"
  /\ outcome = [err |-> FALSE, keys |-> {}]
  /\ \/ Cardinality(Valid) < Quorum /\ outcome' = [err |-> TRUE, keys |-> {}]
     \/ \E Q \in SUBSET Valid :
          Cardinality(Q) = Quorum /\ outcome' = [err |-> FALSE, keys |-> Q]
  /\ UNCHANGED reply

Next == Return \/ \E k \in Keys : Answer(k)

Spec == Init /\ [][Next]_vars
================================================================================

----------------------------- MODULE InMemoryStore -----------------------------
(* InMemoryUnbondingStore: a Go map, which has no order, with a counter in     *)
(* each entry.  One mutex makes every method one step.                         *)
EXTENDS UnbondingStates, Listings, Sequences

CONSTANT Txs

VARIABLES
  mapping,   \* hash -> [counter, state]
  reply      \* what the last method returned

vars == <<mapping, reply>>

NoReply == [err |-> FALSE, list |-> <<>>]
Error   == [err |-> TRUE, list |-> <<>>]

Hashes == DOMAIN mapping

Init == mapping = <<>> /\ reply = NoReply

\* Mutant: the entries still waiting are counted, not all entries.
NextCounterWaiting == Cardinality({t \in Hashes : mapping[t].state = Inserted}) + 1

NextCounter == Cardinality(Hashes) + 1

\* Mutant: an entry that exists is overwritten.
NeverExists(t) == FALSE

Exists(t) == t \in Hashes

Put(t, entry) ==
  mapping' = [h \in Hashes \cup {t} |-> IF h = t THEN entry ELSE mapping[h]]

AddTxWithSignature(t) ==
  IF Exists(t)
  THEN reply' = Error /\ UNCHANGED mapping
  ELSE Put(t, [counter |-> NextCounter, state |-> Inserted]) /\ reply' = NoReply

\* Mutant: the last one first.
LaterFirst(t, u) == mapping[t].counter > mapping[u].counter

\* res[i].Counter < res[j].Counter
Before(t, u) == mapping[t].counter < mapping[u].counter

\* Range over the map in any order, then sort.
Get(s) ==
  /\ \E list \in SortedListings({t \in Hashes : mapping[t].state = s}, Before) :
       reply' = [err |-> FALSE, list |-> list]
  /\ UNCHANGED mapping

Set(t, s) ==
  IF t \in Hashes
  THEN Put(t, [mapping[t] EXCEPT !.state = s]) /\ reply' = NoReply
  ELSE reply' = Error /\ UNCHANGED mapping

Next ==
  \/ \E t \in Txs : AddTxWithSignature(t) \/ \E s \in States \ {Inserted} : Set(t, s)
  \/ \E s \in Pending : Get(s)

Spec == Init /\ [][Next]_vars
--------------------------------------------------------------------------------
\* The counters number the entries without gap or repetition, whatever states
\* the entries moved to between two additions: the sort has one result.
CountersNumberEntries ==
  {mapping[t].counter : t \in Hashes} = 1..Cardinality(Hashes)

\* The store keeps the interface contract: results are returned in the order
\* they were added (expected_interfaces.go:123), nothing is added twice, and no
\* call forgets a transaction or its state.
Contract == INSTANCE UnbondingStore WITH
              added <- CHOOSE list \in SortedListings(Hashes, Before) : TRUE,
              state <- [t \in Txs |-> IF t \in Hashes THEN mapping[t].state ELSE Absent]

ContractSpec == Contract!Spec
================================================================================

----------------------------- MODULE UnbondingStore -----------------------------
(* The UnbondingStore interface (expected_interfaces.go): what any store       *)
(* promises the pipeline.  A listing returns the transactions of one state in  *)
(* the order they were added to the store.                                     *)
EXTENDS UnbondingStates, Listings, Sequences

CONSTANT Txs

VARIABLES
  added,   \* transactions in the order they were added
  state,   \* the state of each
  reply    \* what the last call returned

vars == <<added, state, reply>>

NoReply == [err |-> FALSE, list |-> <<>>]
Error   == [err |-> TRUE, list |-> <<>>]

Known == {t \in Txs : state[t] # Absent}

Init ==
  /\ added = <<>>
  /\ state = [t \in Txs |-> Absent]
  /\ reply = NoReply

\* A transaction is added once.
AddTxWithSignature(t) ==
  IF t \in Known
  THEN reply' = Error /\ UNCHANGED <<added, state>>
  ELSE /\ added' = Append(added, t)
       /\ state' = [state EXCEPT ![t] = Inserted]
       /\ reply' = NoReply

Precedes(t, u) ==
  \E i, j \in 1..Len(added) : i < j /\ added[i] = t /\ added[j] = u

\* The three getters.
Get(s) ==
  /\ \E list \in SortedListings({t \in Known : state[t] = s}, Precedes) :
       reply' = [err |-> FALSE, list |-> list]
  /\ UNCHANGED <<added, state>>

\* The four setters.
Set(t, s) ==
  IF t \in Known
  THEN state' = [state EXCEPT ![t] = s] /\ reply' = NoReply /\ UNCHANGED added
  ELSE reply' = Error /\ UNCHANGED <<added, state>>

Next ==
  \/ \E t \in Txs : AddTxWithSignature(t) \/ \E s \in States \ {Inserted} : Set(t, s)
  \/ \E s \in Pending : Get(s)

Spec == Init /\ [][Next]_vars
================================================================================

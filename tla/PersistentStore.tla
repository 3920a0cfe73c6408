---------------------------- MODULE PersistentStore ----------------------------
(* PersistentUnbondingStorage over the MongoDB collection (dbclient.go).  The  *)
(* driver of the process that adds a document makes its _id: the second, a     *)
(* value of the process, a counter of the process.  Lists are sorted by _id.   *)
EXTENDS UnbondingStates, Listings, Sequences

CONSTANTS
  Writers,   \* processes that add documents, the natural numbers in their _id's
  MaxTime,   \* bound on the clock, in seconds
  MaxDocs    \* bound on the documents each process adds, none past the counter's wrap

Ids  == [second : 0..MaxTime, process : Writers, counter : 1..MaxDocs]
NoId == [second |-> 0, process |-> 0, counter |-> 0]

VARIABLES
  clock,
  counter,   \* documents each process has named, from the random number it starts at
  held,      \* the _id of the insertion each process is waiting for
  docs,      \* the collection: _id -> state
  order,     \* history: _id's in the order the collection took them
  reply      \* what the last call returned

vars == <<clock, counter, held, docs, order, reply>>

NoReply == [err |-> FALSE, list |-> <<>>]

Init ==
  /\ clock = 0
  /\ counter = [w \in Writers |-> 0]
  /\ held = [w \in Writers |-> NoId]
  /\ docs = <<>>
  /\ order = <<>>
  /\ reply = NoReply

Tick ==
  /\ clock < MaxTime
  /\ clock' = clock + 1
  /\ UNCHANGED <<counter, held, docs, order, reply>>

\* InsertOne fills in the _id before it calls the server.
NewId(w) ==
  /\ held[w] = NoId
  /\ counter[w] < MaxDocs
  /\ counter' = [counter EXCEPT ![w] = @ + 1]
  /\ held' = [held EXCEPT ![w] = [second |-> clock, process |-> w, counter |-> counter[w] + 1]]
  /\ UNCHANGED <<clock, docs, order, reply>>

\* SaveUnbondingDocument: the server takes the document; no index refuses it.
SaveUnbondingDocument(w) ==
  /\ held[w] # NoId
  /\ docs' = [id \in DOMAIN docs \cup {held[w]} |->
                IF id = held[w] THEN Inserted ELSE docs[id]]
  /\ order' = Append(order, held[w])
  /\ held' = [held EXCEPT ![w] = NoId]
  /\ reply' = NoReply
  /\ UNCHANGED <<clock, counter>>

\* Mutant: descending _id.
IdAfter(a, b) ==
  \/ a.second > b.second
  \/ a.second = b.second /\ a.process > b.process
  \/ a.second = b.second /\ a.process = b.process /\ a.counter > b.counter

\* Ascending _id.
IdBefore(a, b) ==
  \/ a.second < b.second
  \/ a.second = b.second /\ a.process < b.process
  \/ a.second = b.second /\ a.process = b.process /\ a.counter < b.counter

\* findUnbondingDocumentsWithState: filter on the state, sort by _id.
FindUnbondingDocumentsWithState(s) ==
  /\ \E list \in SortedListings({id \in DOMAIN docs : docs[id] = s}, IdBefore) :
       reply' = [err |-> FALSE, list |-> list]
  /\ UNCHANGED <<clock, counter, held, docs, order>>

\* updateUnbondingDocumentState: the document with this _id, in any state.
UpdateUnbondingDocumentState(id, s) ==
  /\ docs' = [docs EXCEPT ![id] = s]
  /\ reply' = NoReply
  /\ UNCHANGED <<clock, counter, held, order>>

Next ==
  \/ Tick
  \/ \E w \in Writers : NewId(w) \/ SaveUnbondingDocument(w)
  \/ \E s \in Pending : FindUnbondingDocumentsWithState(s)
  \/ \E id \in DOMAIN docs, s \in States \ {Inserted} : UpdateUnbondingDocumentState(id, s)

Spec == Init /\ [][Next]_vars
--------------------------------------------------------------------------------
Position(id) == CHOOSE i \in 1..Len(order) : order[i] = id

\* "Results should be returned in the order they were added to the store"
\* (expected_interfaces.go:123).
ListedInOrderAdded ==
  \A i, j \in 1..Len(reply.list) : i < j => Position(reply.list[i]) < Position(reply.list[j])

\* With one process adding documents the collection keeps the interface contract:
\* its _id's grow with every document it names, and it waits for each insertion.
Contract == INSTANCE UnbondingStore WITH
              Txs <- Ids,
              added <- order,
              state <- [id \in Ids |-> IF id \in DOMAIN docs THEN docs[id] ELSE Absent]

ContractSpec == Contract!Spec
================================================================================

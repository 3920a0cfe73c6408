--------------------------------- MODULE Stores ---------------------------------
(* The two implementations of UnbondingStore under the same calls of one       *)
(* process: the in-memory store the tests of the pipeline use, and the         *)
(* collection the commands use.                                                *)
EXTENDS UnbondingStates, Naturals, Sequences, FiniteSets

CONSTANTS Txs, Writer, MaxTime

ASSUME StoresAssumption == IsFiniteSet(Txs) /\ Writer \in Nat /\ MaxTime \in Nat

VARIABLES
  mapping, memoryReply,
  clock, counter, held, docs, order, collectionReply,
  idOf   \* the _id each transaction has in the collection

Memory == INSTANCE InMemoryStore WITH reply <- memoryReply
Collection == INSTANCE PersistentStore WITH
                Writers <- {Writer}, MaxDocs <- Cardinality(Txs), reply <- collectionReply

memory     == <<mapping, memoryReply>>
collection == <<clock, counter, held, docs, order, collectionReply>>
vars       == <<memory, collection, idOf>>

Init == Memory!Init /\ Collection!Init /\ idOf = <<>>

\* Only the collection has a clock, and names a document before it is there.
Tick  == Collection!Tick /\ UNCHANGED <<memory, idOf>>
NewId == Collection!NewId(Writer) /\ UNCHANGED <<memory, idOf>>

AddTxWithSignature(t) ==
  /\ t \notin DOMAIN idOf
  /\ Memory!AddTxWithSignature(t)
  /\ Collection!SaveUnbondingDocument(Writer)
  /\ idOf' = [u \in DOMAIN idOf \cup {t} |-> IF u = t THEN held[Writer] ELSE idOf[u]]

\* Where the stores differ: a transaction added again gets a new _id in the
\* collection, and an update of an _id it does not hold is no error there.  Only
\* the in-memory store, which refuses both, is asked.
Refused(t) ==
  /\ \/ t \in DOMAIN idOf /\ Memory!AddTxWithSignature(t)
     \/ t \notin DOMAIN idOf /\ \E s \in Terminal : Memory!Set(t, s)
  /\ UNCHANGED <<collection, idOf>>

Get(s) ==
  /\ Memory!Get(s)
  /\ Collection!FindUnbondingDocumentsWithState(s)
  /\ UNCHANGED idOf

Set(t, s) ==
  /\ t \in DOMAIN idOf
  /\ Memory!Set(t, s)
  /\ Collection!UpdateUnbondingDocumentState(idOf[t], s)
  /\ UNCHANGED idOf

Next ==
  \/ Tick \/ NewId
  \/ \E t \in Txs : AddTxWithSignature(t) \/ Refused(t)
  \/ \E s \in Pending : Get(s)
  \/ \E t \in Txs, s \in States \ {Inserted} : Set(t, s)

Spec == Init /\ [][Next]_vars
--------------------------------------------------------------------------------
\* The counters number the entries without gap or repetition, whatever states
\* the entries moved to between two additions: the sort has one result.
CountersNumberEntries == Memory!CountersNumberEntries

\* The in-memory store keeps the interface contract: results are returned in the
\* order they were added (expected_interfaces.go:123), nothing is added twice,
\* and no call forgets a transaction or its state.
MemoryContract == Memory!ContractSpec

\* With one process adding documents the collection keeps it too: its _id's grow
\* with every document it names, and it waits for each insertion.
CollectionContract == Collection!ContractSpec

\* What the tests see of the in-memory store is what the commands see of the
\* collection: every call that both take is answered alike.
StoresAgree ==
  ~memoryReply.err =>
    LET list == memoryReply.list
    IN  collectionReply = [err |-> FALSE, list |-> [i \in 1..Len(list) |-> idOf[list[i]]]]
================================================================================

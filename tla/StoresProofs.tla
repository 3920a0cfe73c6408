------------------------------ MODULE StoresProofs ------------------------------
(* The two stores, for any number of transactions and any calls: what the       *)
(* counters and the _id's number, that each store keeps the contract of the      *)
(* interface, and that they answer alike.                                        *)
EXTENDS Stores, FiniteLemmas, SequenceTheorems

Hashes == Memory!Hashes

\* The store counts as this module does.
LEMMA CountsAgree ==
  ASSUME NEW S
  PROVE  Memory!Cardinality(S) = Cardinality(S)
BY Zenon DEF Memory!Cardinality, Cardinality

\* The counters as this module counts them.
Numbered == {mapping[t].counter : t \in Hashes} = 1..Cardinality(Hashes)

\* A map of finitely many entries, which the counters number one by one.
IInv ==
  /\ IsFiniteSet(Hashes)
  /\ Numbered
  /\ \A t \in Hashes : mapping[t] = [counter |-> mapping[t].counter, state |-> mapping[t].state]

\* The entries of a finite map can be counted.
LEMMA EntriesCount == IInv => Cardinality(Hashes) \in Nat
  BY FS_CardinalityType DEF IInv

\* An empty map has no counters.
LEMMA InitIInv == Memory!Init => IInv
<1> SUFFICES ASSUME Memory!Init PROVE IInv
  OBVIOUS
<1>1. Hashes = {}
  BY DEF Memory!Init, Hashes, Memory!Hashes
<1>2. IsFiniteSet({}) /\ Cardinality({}) = 0
  BY FS_EmptySet
<1> QED
  BY <1>1, <1>2 DEF IInv, Numbered

\* An entry that is put where there was one changes the state, never the counter.
LEMMA SetIInv ==
  ASSUME IInv, NEW t, NEW s, Memory!Set(t, s)
  PROVE  IInv'
<1>1. CASE t \notin Hashes
  BY <1>1 DEF Memory!Set, IInv, Numbered, Hashes, Memory!Hashes
<1>2. CASE t \in Hashes
  <2> DEFINE entry == [mapping[t] EXCEPT !.state = s]
  <2>1. mapping' = [h \in Hashes \cup {t} |-> IF h = t THEN entry ELSE mapping[h]]
    BY <1>2 DEF Memory!Set, Memory!Put, Hashes
  <2>2. mapping[t] = [counter |-> mapping[t].counter, state |-> mapping[t].state]
    BY <1>2 DEF IInv
  <2>3. entry = [counter |-> mapping[t].counter, state |-> s]
    BY <2>2
  <2>4. Hashes' = Hashes
    BY <1>2, <2>1 DEF Hashes, Memory!Hashes
  <2>5. \A h \in Hashes : mapping'[h].counter = mapping[h].counter
    BY <1>2, <2>1, <2>3
  <2>6. \A h \in Hashes : mapping'[h] = [counter |-> mapping'[h].counter, state |-> mapping'[h].state]
    BY <1>2, <2>1, <2>3 DEF IInv
  <2>7. {mapping'[h].counter : h \in Hashes} = {mapping[h].counter : h \in Hashes}
    BY <2>5
  <2> QED
    BY <2>4, <2>6, <2>7 DEF IInv, Numbered
<1> QED
  BY <1>1, <1>2

\* A new entry takes the next number.
LEMMA AddIInv ==
  ASSUME IInv, NEW t, Memory!AddTxWithSignature(t)
  PROVE  IInv'
<1>1. CASE Memory!Exists(t)
  BY <1>1 DEF Memory!AddTxWithSignature, IInv, Numbered, Hashes, Memory!Hashes
<1>2. CASE ~Memory!Exists(t)
  <2> DEFINE n     == Cardinality(Hashes)
             entry == [counter |-> n + 1, state |-> Memory!Inserted]
  <2>1. mapping' = [h \in Hashes \cup {t} |-> IF h = t THEN entry ELSE mapping[h]]
    BY <1>2, CountsAgree
       DEF Memory!AddTxWithSignature, Memory!Put, Memory!NextCounter, Memory!Exists, Hashes
  <2>2. Hashes' = Hashes \cup {t} /\ t \notin Hashes
    BY <1>2, <2>1 DEF Hashes, Memory!Hashes, Memory!Exists
  <2>3. IsFiniteSet(Hashes') /\ Cardinality(Hashes') = n + 1 /\ n \in Nat
    BY <2>2, EntriesCount, FS_AddElement DEF IInv
  <2>4. mapping'[t].counter = n + 1 /\ \A h \in Hashes : mapping'[h] = mapping[h]
    BY <2>1, <2>2
  <2>5. {mapping'[h].counter : h \in Hashes'} = {mapping[h].counter : h \in Hashes} \cup {n + 1}
    BY <2>2, <2>4
  <2>6. {mapping[h].counter : h \in Hashes} = 1..n
    BY DEF IInv, Numbered
  <2>7. (1..n) \cup {n + 1} = 1..(n + 1)
    BY <2>3
  <2>8. \A h \in Hashes' : mapping'[h] = [counter |-> mapping'[h].counter, state |-> mapping'[h].state]
    BY <2>1, <2>2 DEF IInv
  <2> QED
    BY <2>3, <2>5, <2>6, <2>7, <2>8 DEF IInv, Numbered
<1> QED
  BY <1>1, <1>2

\* Every call keeps the counters, those only the collection takes included.
LEMMA NextIInv == IInv /\ [Next]_vars => IInv'
<1> SUFFICES ASSUME IInv, [Next]_vars PROVE IInv'
  OBVIOUS
<1>1. ASSUME UNCHANGED mapping PROVE IInv'
  BY <1>1 DEF IInv, Numbered, Hashes, Memory!Hashes
<1>2. CASE Tick \/ NewId \/ UNCHANGED vars
  BY <1>1, <1>2 DEF Tick, NewId, vars, memory
<1>3. ASSUME NEW s, Get(s) PROVE IInv'
  BY <1>1, <1>3 DEF Get, Memory!Get
<1>4. ASSUME NEW t, AddTxWithSignature(t) \/ Refused(t) PROVE IInv'
  BY <1>4, AddIInv, SetIInv DEF AddTxWithSignature, Refused
<1>5. ASSUME NEW t, NEW s, Set(t, s) PROVE IInv'
  BY <1>5, SetIInv DEF Set
<1> QED
  BY <1>2, <1>3, <1>4, <1>5 DEF Next

\* The counters number the entries without gap or repetition, after any calls.
THEOREM CountersAreNumbers == Spec => []CountersNumberEntries
<1>1. Init => IInv
  BY InitIInv DEF Init
<1>2. IInv => CountersNumberEntries
  BY CountsAgree DEF IInv, Numbered, Hashes, CountersNumberEntries,
                     Memory!CountersNumberEntries
<1> QED
  BY <1>1, <1>2, NextIInv, PTL DEF Spec
--------------------------------------------------------------------------------
(* The instances have the operators and values of this module.                   *)

LEMMA SameSequences ==
  ASSUME NEW S
  PROVE  /\ Memory!SetToSeqs(S) = SetToSeqs(S)
         /\ Memory!Contract!SetToSeqs(S) = SetToSeqs(S)
         /\ Collection!SetToSeqs(S) = SetToSeqs(S)
         /\ Collection!Contract!SetToSeqs(S) = SetToSeqs(S)
<1>1. Memory!SetToSeqs(S) = SetToSeqs(S)
  BY Zenon DEF Memory!SetToSeqs, SetToSeqs, Memory!Cardinality, Cardinality
<1>2. Memory!Contract!SetToSeqs(S) = SetToSeqs(S)
  BY Zenon DEF Memory!Contract!SetToSeqs, SetToSeqs, Memory!Contract!Cardinality, Cardinality
<1>3. Collection!SetToSeqs(S) = SetToSeqs(S)
  BY Zenon DEF Collection!SetToSeqs, SetToSeqs, Collection!Cardinality, Cardinality
<1>4. Collection!Contract!SetToSeqs(S) = SetToSeqs(S)
  BY Zenon DEF Collection!Contract!SetToSeqs, SetToSeqs, Collection!Contract!Cardinality,
               Cardinality
<1> QED
  BY <1>1, <1>2, <1>3, <1>4

LEMMA SameStates ==
  /\ Memory!States = States /\ Memory!Pending = Pending /\ Memory!Terminal = Terminal
  /\ Memory!Inserted = Inserted /\ Memory!Absent = Absent
  /\ Memory!Contract!States = States /\ Memory!Contract!Pending = Pending
  /\ Memory!Contract!Inserted = Inserted /\ Memory!Contract!Absent = Absent
  /\ Collection!States = States /\ Collection!Inserted = Inserted /\ Collection!Absent = Absent
  /\ Collection!Contract!States = States /\ Collection!Contract!Pending = Pending
  /\ Collection!Contract!Inserted = Inserted /\ Collection!Contract!Absent = Absent
  /\ Absent \notin States /\ Inserted \in States /\ Pending \subseteq States /\ Terminal \subseteq States
  /\ Inserted \notin Terminal
BY DEF Absent, Inserted, Send, InputAlreadySpent, Failed, FailedToGetCovenantSignatures,
       Pending, Terminal, States,
       Memory!Absent, Memory!Inserted, Memory!Send, Memory!InputAlreadySpent, Memory!Failed,
       Memory!FailedToGetCovenantSignatures, Memory!Pending, Memory!Terminal, Memory!States,
       Memory!Contract!Absent, Memory!Contract!Inserted, Memory!Contract!Send,
       Memory!Contract!InputAlreadySpent, Memory!Contract!Failed,
       Memory!Contract!FailedToGetCovenantSignatures, Memory!Contract!Pending,
       Memory!Contract!Terminal, Memory!Contract!States,
       Collection!Absent, Collection!Inserted, Collection!Send, Collection!InputAlreadySpent,
       Collection!Failed, Collection!FailedToGetCovenantSignatures, Collection!Pending,
       Collection!Terminal, Collection!States,
       Collection!Contract!Absent, Collection!Contract!Inserted, Collection!Contract!Send,
       Collection!Contract!InputAlreadySpent, Collection!Contract!Failed,
       Collection!Contract!FailedToGetCovenantSignatures, Collection!Contract!Pending,
       Collection!Contract!Terminal, Collection!Contract!States
--------------------------------------------------------------------------------
(* The in-memory store keeps the contract.                                       *)

\* Entries are of transactions, in a state a document may have.
EInv == Hashes \subseteq Txs /\ \A t \in Hashes : mapping[t].state \in States

\* The transactions in the order of their counters.
Added == CHOOSE list \in Memory!SortedListings(Hashes, Memory!Before) : TRUE

\* No two entries have the same counter.
LEMMA CountersDiffer ==
  ASSUME IInv
  PROVE  \A t, u \in Hashes : mapping[t].counter = mapping[u].counter => t = u
<1> DEFINE f == [t \in Hashes |-> mapping[t].counter]
           n == Cardinality(Hashes)
<1>1. n \in Nat /\ IsFiniteSet(Hashes) /\ {mapping[t].counter : t \in Hashes} = 1..n
  BY EntriesCount DEF IInv, Numbered
<1>2. IsFiniteSet(1..n) /\ Cardinality(1..n) = n
  BY <1>1, FS_Interval
<1>3. f \in Surjection(Hashes, 1..n)
  <2>1. f \in [Hashes -> 1..n] /\ \A i \in 1..n : \E t \in Hashes : f[t] = i
    BY <1>1
  <2> HIDE DEF f
  <2> QED
    BY <2>1, Fun_IsSurj
<1>4. f \in Injection(Hashes, 1..n)
  <2> HIDE DEF f
  <2> QED
    BY <1>1, <1>2, <1>3, FS_SurjSameCardinalityImpliesInj
<1>5. \A t, u \in Hashes : f[t] = f[u] => t = u
  BY <1>4 DEF Injection, IsInjective
<1> QED
  BY <1>5

\* The counter of an entry is its place in the order.
LEMMA AddedInOrder ==
  ASSUME IInv
  PROVE  /\ Added \in Seq(Hashes) /\ Len(Added) = Cardinality(Hashes)
         /\ Cardinality(Hashes) \in Nat
         /\ \A i \in 1..Len(Added) : mapping[Added[i]].counter = i
         /\ \A t \in Hashes : mapping[t].counter \in 1..Len(Added)
                              /\ Added[mapping[t].counter] = t
<1> DEFINE n    == Cardinality(Hashes)
           e    == [i \in 1..n |-> CHOOSE t \in Hashes : mapping[t].counter = i]
           R    == {p \in Hashes \X Hashes : Memory!Before(p[1], p[2])}
<1>1. n \in Nat /\ IsFiniteSet(Hashes) /\ {mapping[t].counter : t \in Hashes} = 1..n
  BY EntriesCount DEF IInv, Numbered
<1>2. \A t, u \in Hashes : mapping[t].counter = mapping[u].counter => t = u
  BY CountersDiffer
<1>3. \A i \in 1..n : e[i] \in Hashes /\ mapping[e[i]].counter = i
  <2> SUFFICES ASSUME NEW i \in 1..n PROVE e[i] \in Hashes /\ mapping[e[i]].counter = i
    OBVIOUS
  <2>1. \E t \in Hashes : mapping[t].counter = i
    BY <1>1
  <2> QED
    BY <2>1
<1>4. e \in Seq(Hashes) /\ Len(e) = n
  <2>1. e \in [1..n -> Hashes]
    BY <1>3
  <2> HIDE DEF e
  <2> QED
    BY <1>1, <2>1
<1>5. \A t \in Hashes : mapping[t].counter \in 1..n /\ e[mapping[t].counter] = t
  BY <1>1, <1>2, <1>3
<1> HIDE DEF e
<1>6. e \in SetToSeqs(Hashes)
  <2>1. \A i, j \in 1..Len(e) : e[i] = e[j] => i = j
    BY <1>3, <1>4
  <2>2. \A t \in Hashes : \E i \in 1..Len(e) : e[i] = t
    BY <1>4, <1>5
  <2> QED
    BY <1>4, <2>1, <2>2, ListingIs
<1>7. \A i, j \in 1..n : i < j => ~Memory!Before(e[j], e[i])
  BY <1>1, <1>3 DEF Memory!Before
<1>8. e \in Memory!SortedListings(Hashes, Memory!Before)
  BY <1>4, <1>6, <1>7, SameSequences DEF Memory!SortedListings
<1>9. Added \in Memory!SortedListings(Hashes, Memory!Before)
  BY <1>8 DEF Added
<1>10. Added \in SetToSeqs(Hashes) /\ \A i, j \in DOMAIN Added : i < j => ~Memory!Before(Added[j], Added[i])
  BY <1>9, SameSequences DEF Memory!SortedListings
<1>11. /\ DOMAIN Added = 1..Len(Added) /\ Len(Added) = n
       /\ \A i \in 1..Len(Added) : Added[i] \in Hashes
  BY <1>1, <1>10, ListingHasAll
<1>12. \A x, y \in Hashes : x # y => <<x, y>> \in R \/ <<y, x>> \in R
  BY <1>1, <1>2 DEF Memory!Before
<1>13. /\ \A i, j \in 1..Len(Added) : i < j => <<Added[j], Added[i]>> \notin R
       /\ \A i, j \in 1..Len(e) : i < j => <<e[j], e[i]>> \notin R
  BY <1>4, <1>7, <1>10, <1>11
<1> HIDE DEF R
<1>14. Added = e
  BY <1>1, <1>6, <1>10, <1>12, <1>13, OneSortedListing
<1> QED
  BY <1>1, <1>3, <1>4, <1>5, <1>14

\* So it is after a step.
LEMMA AddedInOrderNext ==
  ASSUME IInv'
  PROVE  (/\ Added \in Seq(Hashes) /\ Len(Added) = Cardinality(Hashes)
          /\ Cardinality(Hashes) \in Nat
          /\ \A i \in 1..Len(Added) : mapping[Added[i]].counter = i
          /\ \A t \in Hashes : mapping[t].counter \in 1..Len(Added)
                               /\ Added[mapping[t].counter] = t)'
BY AddedInOrder, PTL

\* Two orders by the same counters are the same.
LEMMA SameOrder ==
  ASSUME IInv', NEW s \in Seq(Hashes'), Len(s) = Cardinality(Hashes'),
         \A i \in 1..Len(s) : mapping'[s[i]].counter = i
  PROVE  Added' = s
<1>1. /\ Added' \in Seq(Hashes') /\ Len(Added') = Len(s)
      /\ \A t \in Hashes' : Added'[mapping'[t].counter] = t
  BY AddedInOrderNext
<1>2. \A i \in 1..Len(s) : s[i] \in Hashes'
  BY ElementOfSeq
<1>3. \A i \in 1..Len(s) : Added'[i] = s[i]
  BY <1>1, <1>2
<1> QED
  BY <1>1, <1>3, SeqEqual

\* The states of the contract.
StateOf == [t \in Txs |-> IF t \in Hashes THEN mapping[t].state ELSE Absent]

\* What the contract calls known has an entry.
LEMMA KnownHashes ==
  ASSUME EInv
  PROVE  {t \in Txs : StateOf[t] # Absent} = Hashes
BY SameStates DEF EInv, StateOf

\* The contract over the entries and their order.
LEMMA ContractAdd ==
  ASSUME NEW t,
         IF t \in {u \in Txs : StateOf[u] # Absent}
         THEN memoryReply' = [err |-> TRUE, list |-> <<>>] /\ UNCHANGED <<Added, StateOf>>
         ELSE /\ Added' = Append(Added, t)
              /\ StateOf' = [StateOf EXCEPT ![t] = Inserted]
              /\ memoryReply' = [err |-> FALSE, list |-> <<>>]
  PROVE  Memory!Contract!AddTxWithSignature(t)
BY SameStates, Zenon
   DEF Memory!Contract!AddTxWithSignature, Memory!Contract!Known, Memory!Contract!Error,
       Memory!Contract!NoReply, StateOf, Added, Hashes

LEMMA ContractSet ==
  ASSUME NEW t, NEW s,
         IF t \in {u \in Txs : StateOf[u] # Absent}
         THEN /\ StateOf' = [StateOf EXCEPT ![t] = s]
              /\ memoryReply' = [err |-> FALSE, list |-> <<>>] /\ UNCHANGED Added
         ELSE memoryReply' = [err |-> TRUE, list |-> <<>>] /\ UNCHANGED <<Added, StateOf>>
  PROVE  Memory!Contract!Set(t, s)
BY SameStates, Zenon
   DEF Memory!Contract!Set, Memory!Contract!Known, Memory!Contract!Error,
       Memory!Contract!NoReply, StateOf, Added, Hashes

LEMMA ContractGet ==
  ASSUME EInv, NEW s, s \in States, NEW list \in SetToSeqs({t \in Hashes : mapping[t].state = s}),
         \A i, j \in DOMAIN list : i < j =>
           ~\E a, b \in 1..Len(Added) : a < b /\ Added[a] = list[j] /\ Added[b] = list[i],
         memoryReply' = [err |-> FALSE, list |-> list], UNCHANGED <<Added, StateOf>>
  PROVE  Memory!Contract!Get(s)
<1> DEFINE S == {t \in Memory!Contract!Known : StateOf[t] = s}
<1>1. Memory!Contract!Known = Hashes
  BY KnownHashes, SameStates, Zenon DEF Memory!Contract!Known, StateOf, Hashes
<1>2. S = {t \in Hashes : mapping[t].state = s}
  BY <1>1 DEF EInv, StateOf
<1>3. \A i, j \in DOMAIN list : i < j => ~Memory!Contract!Precedes(list[j], list[i])
  BY DEF Memory!Contract!Precedes, Added, Hashes
<1>4. list \in Memory!Contract!SortedListings(S, Memory!Contract!Precedes)
  BY <1>2, <1>3, SameSequences DEF Memory!Contract!SortedListings
<1>5. \E l \in Memory!Contract!SortedListings(S, Memory!Contract!Precedes) :
        memoryReply' = [err |-> FALSE, list |-> l]
  BY <1>4
<1>6. \E l \in Memory!Contract!SortedListings(
               {t \in Memory!Contract!Known :
                  [u \in Txs |-> IF u \in Memory!Hashes THEN mapping[u].state ELSE Memory!Absent][t] = s},
               Memory!Contract!Precedes) :
        memoryReply' = [err |-> FALSE, list |-> l]
  <2> DEFINE f == [u \in Txs |-> IF u \in Memory!Hashes THEN mapping[u].state ELSE Memory!Absent]
             T == {t \in Memory!Contract!Known : f[t] = s}
  <2>1. StateOf = f
    BY SameStates, Zenon DEF StateOf, Hashes
  <2>2. S = T
    <3> HIDE DEF f
    <3> QED
      BY <2>1
  <2>3. \E l \in Memory!Contract!SortedListings(T, Memory!Contract!Precedes) :
          memoryReply' = [err |-> FALSE, list |-> l]
    <3> HIDE DEF S, T
    <3> QED
      BY <1>5, <2>2, Zenon
  <2> QED
    BY <2>3
<1>7. UNCHANGED <<CHOOSE l \in Memory!SortedListings(Memory!Hashes, Memory!Before) : TRUE,
                  [u \in Txs |-> IF u \in Memory!Hashes THEN mapping[u].state ELSE Memory!Absent]>>
  BY SameStates, Zenon DEF StateOf, Added, Hashes
<1> QED
  BY <1>6, <1>7, Zenon DEF Memory!Contract!Get

\* An addition of the memory store is one of the contract.
LEMMA MemoryAdds ==
  ASSUME IInv, EInv, NEW t \in Txs, Memory!AddTxWithSignature(t)
  PROVE  Memory!Contract!AddTxWithSignature(t) /\ EInv'
<1>1. CASE t \in Hashes
  <2>1. memoryReply' = [err |-> TRUE, list |-> <<>>] /\ UNCHANGED mapping
    BY <1>1 DEF Memory!AddTxWithSignature, Memory!Exists, Memory!Error, Hashes
  <2>2. UNCHANGED <<Added, StateOf>> /\ EInv'
    BY <2>1 DEF Added, StateOf, EInv, Hashes, Memory!Hashes, Memory!SortedListings, Memory!Before
  <2> QED
    BY <1>1, <2>1, <2>2, KnownHashes, ContractAdd
<1>2. CASE t \notin Hashes
  <2> DEFINE n     == Cardinality(Hashes)
             entry == [counter |-> n + 1, state |-> Inserted]
             s     == Append(Added, t)
  <2>1. /\ mapping' = [h \in Hashes \cup {t} |-> IF h = t THEN entry ELSE mapping[h]]
        /\ memoryReply' = [err |-> FALSE, list |-> <<>>]
    BY <1>2, CountsAgree, SameStates
       DEF Memory!AddTxWithSignature, Memory!Put, Memory!NextCounter, Memory!Exists,
           Memory!NoReply, Hashes
  <2>2. Hashes' = Hashes \cup {t}
    BY <2>1 DEF Hashes, Memory!Hashes
  <2>3. IInv'
    BY AddIInv
  <2>4. /\ n \in Nat /\ Cardinality(Hashes') = n + 1
        /\ Added \in Seq(Hashes) /\ Len(Added) = n
        /\ \A i \in 1..Len(Added) : mapping[Added[i]].counter = i
    BY <1>2, <2>2, AddedInOrder, FS_AddElement DEF IInv
  <2>5. Added \in Seq(Hashes')
    BY <2>2, <2>4, SeqMonotonic
  <2>6. /\ s \in Seq(Hashes') /\ Len(s) = n + 1 /\ s[n + 1] = t
        /\ \A i \in 1..n : s[i] = Added[i]
    BY <2>2, <2>4, <2>5, AppendProperties
  <2>7. \A i \in 1..n : Added[i] \in Hashes
    BY <2>4, ElementOfSeq
  <2>8. \A i \in 1..(n + 1) : mapping'[s[i]].counter = i
    <3>1. ASSUME NEW i \in 1..n PROVE mapping'[s[i]].counter = i
      BY <1>2, <2>1, <2>4, <2>6, <2>7
    <3>2. mapping'[s[n + 1]].counter = n + 1
      BY <2>1, <2>6
    <3> QED
      BY <2>4, <3>1, <3>2
  <2> HIDE DEF s, n
  <2>9. Added' = s
    BY <2>3, <2>4, <2>6, <2>8, SameOrder
  <2>10. StateOf' = [StateOf EXCEPT ![t] = Inserted]
    BY <2>1, <2>2 DEF StateOf
  <2>11. EInv'
    BY <2>1, <2>2, SameStates DEF EInv
  <2> QED
    BY <1>2, <2>1, <2>9, <2>10, <2>11, KnownHashes, ContractAdd DEF s
<1> QED
  BY <1>1, <1>2

\* An update is one of the contract.
LEMMA MemorySets ==
  ASSUME IInv, EInv, NEW t \in Txs, NEW s \in States, Memory!Set(t, s)
  PROVE  Memory!Contract!Set(t, s) /\ EInv'
<1>1. CASE t \notin Hashes
  <2>1. memoryReply' = [err |-> TRUE, list |-> <<>>] /\ UNCHANGED mapping
    BY <1>1 DEF Memory!Set, Memory!Error, Hashes
  <2>2. UNCHANGED <<Added, StateOf>> /\ EInv'
    BY <2>1 DEF Added, StateOf, EInv, Hashes, Memory!Hashes, Memory!SortedListings, Memory!Before
  <2> QED
    BY <1>1, <2>1, <2>2, KnownHashes, ContractSet
<1>2. CASE t \in Hashes
  <2>1. /\ mapping' = [h \in Hashes \cup {t} |-> IF h = t THEN [mapping[t] EXCEPT !.state = s] ELSE mapping[h]]
        /\ memoryReply' = [err |-> FALSE, list |-> <<>>]
    BY <1>2 DEF Memory!Set, Memory!Put, Memory!NoReply, Hashes
  <2>2. Hashes' = Hashes /\ Hashes \cup {t} = Hashes
    BY <1>2, <2>1 DEF Hashes, Memory!Hashes
  <2>3. IInv'
    BY SetIInv
  <2>4. mapping[t] = [counter |-> mapping[t].counter, state |-> mapping[t].state]
    BY <1>2 DEF IInv
  <2>5. [mapping[t] EXCEPT !.state = s] = [counter |-> mapping[t].counter, state |-> s]
    BY <2>4
  <2>6. \A h \in Hashes : /\ mapping'[h].counter = mapping[h].counter
                          /\ mapping'[h].state = IF h = t THEN s ELSE mapping[h].state
    BY <2>1, <2>2, <2>5
  <2>7. /\ Added \in Seq(Hashes) /\ Len(Added) = Cardinality(Hashes)
        /\ \A i \in 1..Len(Added) : mapping[Added[i]].counter = i
    BY AddedInOrder
  <2>8. \A i \in 1..Len(Added) : mapping'[Added[i]].counter = i
    BY <2>6, <2>7, ElementOfSeq
  <2>9. Added' = Added
    BY <2>2, <2>3, <2>7, <2>8, SameOrder
  <2>10. StateOf' = [StateOf EXCEPT ![t] = s]
    BY <2>2, <2>6, <1>2 DEF StateOf
  <2>11. EInv'
    BY <2>2, <2>6 DEF EInv
  <2> QED
    BY <1>2, <2>1, <2>9, <2>10, <2>11, KnownHashes, ContractSet
<1> QED
  BY <1>1, <1>2

\* A listing sorted by the counters is one in the order of the additions.
LEMMA MemoryGets ==
  ASSUME IInv, EInv, NEW s \in States, Memory!Get(s)
  PROVE  Memory!Contract!Get(s) /\ EInv'
<1> DEFINE S == {t \in Hashes : mapping[t].state = s}
<1>1. PICK list \in Memory!SortedListings(S, Memory!Before) :
        memoryReply' = [err |-> FALSE, list |-> list]
  BY DEF Memory!Get, Hashes
<1>2. UNCHANGED mapping
  BY DEF Memory!Get
<1>3. UNCHANGED <<Added, StateOf>> /\ EInv'
  BY <1>2 DEF Added, StateOf, EInv, Hashes, Memory!Hashes, Memory!SortedListings, Memory!Before
<1>4. /\ list \in SetToSeqs(S)
      /\ \A i, j \in DOMAIN list : i < j => ~Memory!Before(list[j], list[i])
  BY <1>1, SameSequences DEF Memory!SortedListings
<1>5. \A i \in 1..Len(Added) : mapping[Added[i]].counter = i
  BY AddedInOrder
<1>6. \A i, j \in DOMAIN list : i < j =>
        ~\E a, b \in 1..Len(Added) : a < b /\ Added[a] = list[j] /\ Added[b] = list[i]
  <2> SUFFICES ASSUME NEW i \in DOMAIN list, NEW j \in DOMAIN list, i < j,
                      NEW a \in 1..Len(Added), NEW b \in 1..Len(Added), a < b,
                      Added[a] = list[j], Added[b] = list[i]
               PROVE  FALSE
    OBVIOUS
  <2>1. mapping[list[j]].counter = a /\ mapping[list[i]].counter = b
    BY <1>5
  <2> QED
    BY <1>4, <2>1 DEF Memory!Before
<1> QED
  BY <1>1, <1>3, <1>4, <1>6, ContractGet

\* What only the collection does is no step of the contract.
LEMMA MemoryRests ==
  ASSUME EInv, UNCHANGED memory
  PROVE  EInv' /\ UNCHANGED Memory!Contract!vars
<1>1. UNCHANGED <<mapping, memoryReply>>
  BY DEF memory
<1>2. UNCHANGED <<Added, StateOf>> /\ EInv'
  BY <1>1 DEF Added, StateOf, EInv, Hashes, Memory!Hashes, Memory!SortedListings, Memory!Before
<1> QED
  BY <1>1, <1>2, SameStates, Zenon DEF Memory!Contract!vars, Added, StateOf, Hashes

\* Every step of the stores is a step of the contract in memory, or none.
LEMMA NextEInv ==
  ASSUME IInv, EInv, [Next]_vars
  PROVE  EInv' /\ [Memory!Contract!Next]_Memory!Contract!vars
<1>1. CASE Tick \/ NewId \/ UNCHANGED vars
  BY <1>1, MemoryRests DEF Tick, NewId, vars
<1>2. ASSUME NEW t \in Txs, Memory!AddTxWithSignature(t)
      PROVE  EInv' /\ Memory!Contract!Next
  BY <1>2, MemoryAdds DEF Memory!Contract!Next
<1>3. ASSUME NEW t \in Txs, NEW s \in States \ {Inserted}, Memory!Set(t, s)
      PROVE  EInv' /\ Memory!Contract!Next
  BY <1>3, MemorySets, SameStates DEF Memory!Contract!Next
<1>4. ASSUME NEW s \in Pending, Memory!Get(s)
      PROVE  EInv' /\ Memory!Contract!Next
  BY <1>4, MemoryGets, SameStates DEF Memory!Contract!Next
<1>5. ASSUME NEW t \in Txs, AddTxWithSignature(t) \/ Refused(t)
      PROVE  EInv' /\ Memory!Contract!Next
  BY <1>2, <1>3, <1>5, SameStates DEF AddTxWithSignature, Refused
<1>6. ASSUME NEW s \in Pending, Get(s) PROVE EInv' /\ Memory!Contract!Next
  BY <1>4, <1>6 DEF Get
<1>7. ASSUME NEW t \in Txs, NEW s \in States \ {Inserted}, Set(t, s)
      PROVE  EInv' /\ Memory!Contract!Next
  BY <1>3, <1>7 DEF Set
<1> QED
  BY <1>1, <1>5, <1>6, <1>7 DEF Next

\* The in-memory store keeps the contract of the interface.
THEOREM MemoryKeepsContract == Spec => MemoryContract
<1>1. Init => IInv /\ EInv /\ Memory!Contract!Init
  <2> SUFFICES ASSUME Init PROVE IInv /\ EInv /\ Memory!Contract!Init
    OBVIOUS
  <2>1. IInv /\ Hashes = {} /\ memoryReply = [err |-> FALSE, list |-> <<>>]
    BY InitIInv DEF Init, Memory!Init, Hashes, Memory!Hashes, Memory!NoReply
  <2>2. Added = <<>>
    <3>1. Added \in Seq(Hashes) /\ Len(Added) = Cardinality(Hashes)
      BY <2>1, AddedInOrder
    <3>2. Cardinality(Hashes) = 0
      BY <2>1, FS_EmptySet
    <3> QED
      BY <3>1, <3>2, EmptySeq
  <2>3. EInv /\ StateOf = [t \in Txs |-> Absent]
    BY <2>1 DEF EInv, StateOf
  <2> QED
    BY <2>1, <2>2, <2>3, SameStates, Zenon
       DEF Memory!Contract!Init, Memory!Contract!NoReply, Added, StateOf, Hashes
<1> QED
  BY <1>1, NextIInv, NextEInv, PTL DEF Spec, MemoryContract, Memory!ContractSpec, Memory!Contract!Spec
--------------------------------------------------------------------------------
(* The collection keeps the contract.                                            *)

Ids       == Collection!Ids
Earlier(a, b) == Collection!IdBefore(a, b)
Waiting   == held[Writer] # Collection!NoId

\* Two _id's of the process differ in the second or the counter, and so are ordered.
LEMMA IdsOrdered ==
  ASSUME NEW a \in Ids, NEW b \in Ids
  PROVE  /\ a # b => Earlier(a, b) \/ Earlier(b, a)
         /\ ~(Earlier(a, b) /\ Earlier(b, a)) /\ ~Earlier(a, a)
         /\ a # Collection!NoId
<1>1. /\ a.second \in Int /\ b.second \in Int /\ a.counter \in Nat \ {0} /\ b.counter \in Nat \ {0}
      /\ a.process = Writer /\ b.process = Writer
      /\ a = [second |-> a.second, process |-> a.process, counter |-> a.counter]
      /\ b = [second |-> b.second, process |-> b.process, counter |-> b.counter]
  BY DEF Ids, Collection!Ids
<1>2. a.counter # Collection!NoId.counter
  BY <1>1 DEF Collection!NoId
<1> QED
  BY <1>1, <1>2, StoresAssumption DEF Earlier, Collection!IdBefore

\* What is named and not there yet comes after all that is there, and so does all
\* that will be named; the order of the _id's is that of the insertions.
CInv ==
  /\ clock \in 0..MaxTime
  /\ counter \in [{Writer} -> 0..Cardinality(Txs)]
  /\ held \in [{Writer} -> Ids \cup {Collection!NoId}]
  /\ Waiting => held[Writer].second =< clock /\ held[Writer].counter = counter[Writer]
  /\ DOMAIN docs \subseteq Ids /\ \A id \in DOMAIN docs : docs[id] \in States
  /\ docs = [id \in DOMAIN docs |-> docs[id]]
  /\ \A id \in DOMAIN docs :
       /\ id.second =< clock /\ id.counter =< counter[Writer]
       /\ Waiting => Earlier(id, held[Writer])
  /\ order \in Seq(DOMAIN docs)
  /\ \A id \in DOMAIN docs : \E i \in 1..Len(order) : order[i] = id
  /\ \A i, j \in 1..Len(order) : i < j => Earlier(order[i], order[j])

\* The states of the contract.
DocStateOf == [id \in Ids |-> IF id \in DOMAIN docs THEN docs[id] ELSE Absent]

LEMMA KnownDocs ==
  ASSUME CInv
  PROVE  Collection!Contract!Known = DOMAIN docs
<1>1. \A id \in Ids : DocStateOf[id] # Absent <=> id \in DOMAIN docs
  BY SameStates DEF CInv, DocStateOf
<1>2. Collection!Contract!Known = {id \in Ids : DocStateOf[id] # Absent}
  BY SameStates, Zenon DEF Collection!Contract!Known, DocStateOf, Ids
<1> QED
  BY <1>1, <1>2 DEF CInv

\* An empty collection.
LEMMA InitCInv == Collection!Init => CInv /\ Collection!Contract!Init
<1> SUFFICES ASSUME Collection!Init PROVE CInv /\ Collection!Contract!Init
  OBVIOUS
<1>1. /\ clock = 0 /\ docs = <<>> /\ order = <<>>
      /\ counter = [w \in {Writer} |-> 0] /\ held = [w \in {Writer} |-> Collection!NoId]
      /\ collectionReply = [err |-> FALSE, list |-> <<>>]
  BY DEF Collection!Init, Collection!NoReply
<1>2. DOMAIN docs = {} /\ ~Waiting /\ Len(order) = 0 /\ docs = [id \in DOMAIN docs |-> docs[id]]
  BY <1>1 DEF Waiting
<1>3. Cardinality(Txs) \in Nat
  BY StoresAssumption, FS_CardinalityType
<1>4. CInv
  BY <1>1, <1>2, <1>3, StoresAssumption DEF CInv
<1>5. DocStateOf = [id \in Ids |-> Absent]
  BY <1>2 DEF DocStateOf
<1> QED
  BY <1>1, <1>4, <1>5, SameStates, Zenon
     DEF Collection!Contract!Init, Collection!Contract!NoReply, DocStateOf, Ids

\* Time passes.
LEMMA TickCInv ==
  ASSUME CInv, Collection!Tick
  PROVE  CInv'
<1>1. /\ clock' = clock + 1 /\ clock < MaxTime /\ MaxTime \in Nat
      /\ UNCHANGED <<counter, held, docs, order>>
  BY StoresAssumption DEF Collection!Tick
<1>2. \A id \in DOMAIN docs : id.second =< clock + 1
  BY <1>1 DEF CInv, Ids, Collection!Ids
<1>3. Waiting => held[Writer].second =< clock + 1
  BY <1>1 DEF CInv, Waiting, Ids, Collection!Ids
<1>4. clock + 1 \in 0..MaxTime /\ Waiting' = Waiting
  BY <1>1 DEF CInv, Waiting
<1> QED
  BY <1>1, <1>2, <1>3, <1>4 DEF CInv

\* A new _id comes after all there are.
LEMMA NameCInv ==
  ASSUME CInv, Collection!NewId(Writer)
  PROVE  CInv'
<1> DEFINE c  == counter[Writer] + 1
           id == [second |-> clock, process |-> Writer, counter |-> c]
           N  == Cardinality(Txs)
<1>1. /\ ~Waiting /\ counter[Writer] < N
      /\ counter' = [counter EXCEPT ![Writer] = c]
      /\ held' = [held EXCEPT ![Writer] = id]
      /\ UNCHANGED <<clock, docs, order>>
  BY DEF Collection!NewId, Waiting
<1>2. N \in Nat /\ clock \in 0..MaxTime /\ counter[Writer] \in 0..N
  BY StoresAssumption, FS_CardinalityType DEF CInv
<1>3. c \in 1..N /\ id \in Ids
  BY <1>1, <1>2 DEF Ids, Collection!Ids
<1>4. counter'[Writer] = c /\ held'[Writer] = id /\ id.second = clock /\ id.counter = c
  BY <1>1 DEF CInv
<1>5. /\ counter' \in [{Writer} -> 0..N] /\ held' \in [{Writer} -> Ids \cup {Collection!NoId}]
  BY <1>1, <1>2, <1>3 DEF CInv
<1>6. \A d \in DOMAIN docs : Earlier(d, id) /\ d.counter =< c
  <2> SUFFICES ASSUME NEW d \in DOMAIN docs PROVE Earlier(d, id) /\ d.counter =< c
    OBVIOUS
  <2>1. d.second =< clock /\ d.counter =< counter[Writer] /\ d \in Ids
    BY DEF CInv
  <2>2. d.second \in Int /\ d.counter \in Int /\ d.process = Writer
    BY <2>1 DEF Ids, Collection!Ids
  <2> QED
    BY <1>2, <2>1, <2>2 DEF Earlier, Collection!IdBefore
<1> HIDE DEF id, c
<1> QED
  BY <1>1, <1>4, <1>5, <1>6 DEF CInv, Waiting

\* The document that was named takes its place at the end.
LEMMA SaveCInv ==
  ASSUME CInv, Collection!SaveUnbondingDocument(Writer)
  PROVE  /\ CInv' /\ Collection!Contract!Next
         /\ held[Writer] \in Ids /\ held[Writer] \notin DOMAIN docs
         /\ docs' = [d \in DOMAIN docs \cup {held[Writer]} |->
                       IF d = held[Writer] THEN Inserted ELSE docs[d]]
         /\ order' = Append(order, held[Writer])
         /\ collectionReply' = [err |-> FALSE, list |-> <<>>]
<1> DEFINE id == held[Writer]
           D  == DOMAIN docs \cup {id}
<1>1. /\ Waiting /\ docs' = [d \in D |-> IF d = id THEN Inserted ELSE docs[d]]
      /\ order' = Append(order, id) /\ held' = [held EXCEPT ![Writer] = Collection!NoId]
      /\ collectionReply' = [err |-> FALSE, list |-> <<>>]
      /\ UNCHANGED <<clock, counter>>
  BY SameStates DEF Collection!SaveUnbondingDocument, Collection!NoReply, Waiting
<1>2. /\ id \in Ids /\ id.second =< clock /\ id.counter = counter[Writer]
      /\ \A d \in DOMAIN docs : Earlier(d, id)
  BY <1>1 DEF CInv, Waiting
<1>3. id \notin DOMAIN docs
  BY <1>2, IdsOrdered
<1>4. /\ held'[Writer] = Collection!NoId /\ ~Waiting'
      /\ held' \in [{Writer} -> Ids \cup {Collection!NoId}]
  BY <1>1 DEF CInv, Waiting
<1>5. DOMAIN docs' = D
  BY <1>1
<1>6. order \in Seq(D)
  BY SeqMonotonic DEF CInv
<1>7. /\ order' \in Seq(D) /\ Len(order') = Len(order) + 1 /\ order'[Len(order) + 1] = id
      /\ \A i \in 1..Len(order) : order'[i] = order[i] /\ order[i] \in DOMAIN docs
      /\ Len(order) \in Nat
  BY <1>1, <1>6, AppendProperties, ElementOfSeq, LenProperties DEF CInv
<1>8. \A i, j \in 1..Len(order') : i < j => Earlier(order'[i], order'[j])
  <2> SUFFICES ASSUME NEW i \in 1..Len(order'), NEW j \in 1..Len(order'), i < j
               PROVE  Earlier(order'[i], order'[j])
    OBVIOUS
  <2>1. i \in 1..Len(order)
    BY <1>7
  <2>2. CASE j \in 1..Len(order)
    BY <1>7, <2>1, <2>2 DEF CInv
  <2>3. CASE j = Len(order) + 1
    BY <1>2, <1>7, <2>1, <2>3
  <2> QED
    BY <1>7, <2>2, <2>3
<1>9. \A d \in D : \E i \in 1..Len(order') : order'[i] = d
  <2> SUFFICES ASSUME NEW d \in D PROVE \E i \in 1..Len(order') : order'[i] = d
    OBVIOUS
  <2>1. CASE d = id
    BY <1>7, <2>1
  <2>2. CASE d \in DOMAIN docs
    <3>1. PICK i \in 1..Len(order) : order[i] = d
      BY <2>2 DEF CInv
    <3> QED
      BY <1>7, <3>1
  <2> QED
    BY <2>1, <2>2
<1>10. \A d \in D : d.second =< clock /\ d.counter =< counter[Writer] /\ d \in Ids
  <2>1. id.counter =< counter[Writer]
    BY <1>2 DEF Ids, Collection!Ids
  <2> QED
    BY <1>2, <2>1 DEF CInv
<1>11. \A d \in D : docs'[d] \in States
  BY <1>1, SameStates DEF CInv
<1>12. docs' = [d \in D |-> docs'[d]]
  BY <1>1
<1>13. DocStateOf' = [DocStateOf EXCEPT ![id] = Inserted]
  BY <1>1, <1>2, <1>5 DEF DocStateOf
<1> HIDE DEF id, D
<1>14. CInv'
  BY <1>1, <1>4, <1>5, <1>7, <1>8, <1>9, <1>10, <1>11, <1>12 DEF CInv
<1>15. Collection!Contract!Next
  <2> SUFFICES ASSUME NEW x \in Ids, x = id PROVE Collection!Contract!AddTxWithSignature(x)
    BY <1>2 DEF Collection!Contract!Next, Ids
  <2>1. id \notin Collection!Contract!Known
    BY <1>3, KnownDocs
  <2>2. /\ order' = Append(order, id) /\ collectionReply' = [err |-> FALSE, list |-> <<>>]
        /\ DocStateOf' = [DocStateOf EXCEPT ![id] = Inserted]
    BY <1>1, <1>13
  <2> QED
    BY <2>1, <2>2, SameStates, Zenon
       DEF Collection!Contract!AddTxWithSignature, Collection!Contract!NoReply, DocStateOf, Ids
<1> QED
  BY <1>1, <1>2, <1>3, <1>14, <1>15 DEF id, D

\* An update changes the state of one document.
LEMMA UpdateCInv ==
  ASSUME CInv, NEW id \in DOMAIN docs, NEW s \in States,
         Collection!UpdateUnbondingDocumentState(id, s)
  PROVE  CInv' /\ Collection!Contract!Set(id, s)
<1>1. /\ docs' = [docs EXCEPT ![id] = s] /\ collectionReply' = [err |-> FALSE, list |-> <<>>]
      /\ UNCHANGED <<clock, counter, held, order>>
  BY DEF Collection!UpdateUnbondingDocumentState, Collection!NoReply
<1>2. DOMAIN docs' = DOMAIN docs /\ \A d \in DOMAIN docs : docs'[d] = IF d = id THEN s ELSE docs[d]
  BY <1>1 DEF CInv
<1>3. docs' = [d \in DOMAIN docs |-> docs'[d]]
  BY <1>1
<1>4. CInv'
  BY <1>1, <1>2, <1>3 DEF CInv, Waiting
<1>5. DocStateOf' = [DocStateOf EXCEPT ![id] = s]
  BY <1>2 DEF DocStateOf, CInv
<1>6. id \in Collection!Contract!Known
  BY KnownDocs
<1> QED
  BY <1>1, <1>4, <1>5, <1>6, SameStates, Zenon
     DEF Collection!Contract!Set, Collection!Contract!NoReply, DocStateOf, Ids

\* A list sorted by _id is one in the order of the insertions.
LEMMA FindCInv ==
  ASSUME CInv, NEW s \in States, Collection!FindUnbondingDocumentsWithState(s)
  PROVE  CInv' /\ Collection!Contract!Get(s)
<1> DEFINE S == {id \in DOMAIN docs : docs[id] = s}
           T == {id \in Collection!Contract!Known : DocStateOf[id] = s}
<1>1. PICK list \in Collection!SortedListings(S, Collection!IdBefore) :
        collectionReply' = [err |-> FALSE, list |-> list]
  BY DEF Collection!FindUnbondingDocumentsWithState
<1>2. UNCHANGED <<clock, counter, held, docs, order>>
  BY DEF Collection!FindUnbondingDocumentsWithState
<1>3. CInv'
  BY <1>2 DEF CInv, Waiting
<1>4. /\ list \in SetToSeqs(S)
      /\ \A i, j \in DOMAIN list : i < j => ~Earlier(list[j], list[i])
  BY <1>1, SameSequences DEF Collection!SortedListings, Earlier
<1>5. S = T
  BY KnownDocs DEF CInv, DocStateOf
<1>6. \A i, j \in DOMAIN list : i < j => ~Collection!Contract!Precedes(list[j], list[i])
  BY <1>4 DEF CInv, Collection!Contract!Precedes
<1>7. list \in Collection!Contract!SortedListings(T, Collection!Contract!Precedes)
  BY <1>4, <1>5, <1>6, SameSequences DEF Collection!Contract!SortedListings
<1>8. \E l \in Collection!Contract!SortedListings(
               {id \in Collection!Contract!Known :
                  [d \in Ids |-> IF d \in DOMAIN docs THEN docs[d] ELSE Collection!Absent][id] = s},
               Collection!Contract!Precedes) :
        collectionReply' = [err |-> FALSE, list |-> l]
  <2> DEFINE f == [d \in Ids |-> IF d \in DOMAIN docs THEN docs[d] ELSE Collection!Absent]
             U == {id \in Collection!Contract!Known : f[id] = s}
  <2>1. DocStateOf = f
    BY SameStates, Zenon DEF DocStateOf
  <2>2. T = U
    <3> HIDE DEF f
    <3> QED
      BY <2>1
  <2>3. \E l \in Collection!Contract!SortedListings(U, Collection!Contract!Precedes) :
          collectionReply' = [err |-> FALSE, list |-> l]
    <3> HIDE DEF T, U
    <3> QED
      BY <1>1, <1>7, <2>2, Zenon
  <2> QED
    BY <2>3
<1>9. UNCHANGED <<order, [d \in Ids |-> IF d \in DOMAIN docs THEN docs[d] ELSE Collection!Absent]>>
  BY <1>2
<1> QED
  BY <1>3, <1>8, <1>9, Zenon DEF Collection!Contract!Get, Ids

\* What only the in-memory store does is no step of the contract.
LEMMA CollectionRests ==
  ASSUME CInv, UNCHANGED collection
  PROVE  CInv' /\ UNCHANGED Collection!Contract!vars
<1>1. UNCHANGED <<clock, counter, held, docs, order, collectionReply>>
  BY DEF collection
<1> QED
  BY <1>1 DEF CInv, Waiting, Collection!Contract!vars

LEMMA TickAndNameRest ==
  ASSUME CInv, Collection!Tick \/ Collection!NewId(Writer)
  PROVE  CInv' /\ UNCHANGED Collection!Contract!vars
<1>1. UNCHANGED <<docs, order, collectionReply>>
  BY DEF Collection!Tick, Collection!NewId
<1> QED
  BY <1>1, TickCInv, NameCInv DEF Collection!Contract!vars

\* The steps of this module as the collection sees them.
LEMMA CollectionSteps ==
  ASSUME CInv, [Next]_vars, DOMAIN idOf \subseteq Txs,
         \A t \in DOMAIN idOf : idOf[t] \in DOMAIN docs
  PROVE  CInv' /\ [Collection!Contract!Next]_Collection!Contract!vars
<1>1. CASE Tick \/ NewId
  BY <1>1, TickAndNameRest DEF Tick, NewId
<1>2. CASE UNCHANGED vars
  BY <1>2, CollectionRests DEF vars
<1>3. ASSUME NEW t \in Txs, AddTxWithSignature(t)
      PROVE  CInv' /\ Collection!Contract!Next
  BY <1>3, SaveCInv DEF AddTxWithSignature
<1>4. ASSUME NEW t \in Txs, Refused(t)
      PROVE  CInv' /\ [Collection!Contract!Next]_Collection!Contract!vars
  BY <1>4, CollectionRests DEF Refused
<1>5. ASSUME NEW s \in Pending, Get(s)
      PROVE  CInv' /\ Collection!Contract!Next
  <2>1. CInv' /\ Collection!Contract!Get(s)
    BY <1>5, FindCInv, SameStates DEF Get
  <2> QED
    BY <2>1, SameStates DEF Collection!Contract!Next
<1>6. ASSUME NEW t \in Txs, NEW s \in States \ {Inserted}, Set(t, s)
      PROVE  CInv' /\ Collection!Contract!Next
  <2>1. idOf[t] \in DOMAIN docs /\ idOf[t] \in Ids
    BY <1>6 DEF Set, CInv
  <2>2. CInv' /\ Collection!Contract!Set(idOf[t], s)
    BY <1>6, <2>1, UpdateCInv DEF Set
  <2> QED
    BY <2>1, <2>2, SameStates DEF Collection!Contract!Next, Ids
<1> QED
  BY <1>1, <1>2, <1>3, <1>4, <1>5, <1>6 DEF Next
--------------------------------------------------------------------------------
(* The stores agree.                                                             *)

\* The entry with the counter i is the i-th document, in the same state.
PInv ==
  /\ DOMAIN idOf = Hashes /\ Len(order) = Cardinality(Hashes)
  /\ \A t \in Hashes : /\ idOf[t] \in DOMAIN docs
                       /\ mapping[t].counter \in 1..Len(order)
                       /\ order[mapping[t].counter] = idOf[t]
                       /\ docs[idOf[t]] = mapping[t].state

\* A step keeps the two stores in line.
LEMMA NextPInv ==
  ASSUME IInv, EInv, CInv, PInv, [Next]_vars
  PROVE  PInv'
<1>1. ASSUME UNCHANGED <<mapping, docs, order, idOf>> PROVE PInv'
  BY <1>1 DEF PInv, Hashes, Memory!Hashes
<1>2. CASE Tick \/ NewId \/ UNCHANGED vars
  BY <1>1, <1>2 DEF Tick, NewId, Collection!Tick, Collection!NewId, vars, memory, collection
<1>3. ASSUME NEW s \in Pending, Get(s) PROVE PInv'
  BY <1>1, <1>3 DEF Get, Memory!Get, Collection!FindUnbondingDocumentsWithState
<1>4. ASSUME NEW t \in Txs, Refused(t) PROVE PInv'
  <2>1. UNCHANGED <<docs, order, idOf>>
    BY <1>4 DEF Refused, collection
  <2>2. UNCHANGED mapping
    BY <1>4 DEF Refused, PInv, Memory!AddTxWithSignature, Memory!Exists, Memory!Set, Hashes
  <2> QED
    BY <1>1, <2>1, <2>2
<1>5. ASSUME NEW t \in Txs, AddTxWithSignature(t) PROVE PInv'
  <2> DEFINE n     == Cardinality(Hashes)
             id    == held[Writer]
             entry == [counter |-> n + 1, state |-> Inserted]
  <2>1. t \notin Hashes
    BY <1>5 DEF AddTxWithSignature, PInv
  <2>2. mapping' = [h \in Hashes \cup {t} |-> IF h = t THEN entry ELSE mapping[h]]
    BY <1>5, <2>1, CountsAgree, SameStates
       DEF AddTxWithSignature, Memory!AddTxWithSignature, Memory!Put, Memory!NextCounter,
           Memory!Exists, Hashes
  <2>3. /\ id \notin DOMAIN docs /\ order' = Append(order, id)
        /\ docs' = [d \in DOMAIN docs \cup {id} |-> IF d = id THEN Inserted ELSE docs[d]]
    BY <1>5, SaveCInv DEF AddTxWithSignature
  <2>4. idOf' = [u \in Hashes \cup {t} |-> IF u = t THEN id ELSE idOf[u]]
    BY <1>5 DEF AddTxWithSignature, PInv
  <2>5. Hashes' = Hashes \cup {t} /\ DOMAIN idOf' = Hashes'
    BY <2>2, <2>4 DEF Hashes, Memory!Hashes
  <2>6. n \in Nat /\ Cardinality(Hashes') = n + 1 /\ Len(order) = n
    BY <2>1, <2>5, EntriesCount, FS_AddElement DEF IInv, PInv
  <2>7. order \in Seq(DOMAIN docs \cup {id})
    BY SeqMonotonic DEF CInv
  <2>8. /\ Len(order') = n + 1 /\ order'[n + 1] = id
        /\ \A i \in 1..n : order'[i] = order[i]
    BY <2>3, <2>6, <2>7, AppendProperties
  <2> HIDE DEF n, id
  <2>9. \A h \in Hashes' : /\ idOf'[h] \in DOMAIN docs'
                           /\ mapping'[h].counter \in 1..Len(order')
                           /\ order'[mapping'[h].counter] = idOf'[h]
                           /\ docs'[idOf'[h]] = mapping'[h].state
    <3> SUFFICES ASSUME NEW h \in Hashes'
                 PROVE  /\ idOf'[h] \in DOMAIN docs'
                        /\ mapping'[h].counter \in 1..Len(order')
                        /\ order'[mapping'[h].counter] = idOf'[h]
                        /\ docs'[idOf'[h]] = mapping'[h].state
      OBVIOUS
    <3>1. CASE h = t
      BY <2>2, <2>3, <2>4, <2>5, <2>6, <2>8, <3>1
    <3>2. CASE h # t
      <4>1. h \in Hashes /\ mapping'[h] = mapping[h] /\ idOf'[h] = idOf[h]
        BY <2>2, <2>4, <2>5, <3>2
      <4>2. /\ idOf[h] \in DOMAIN docs /\ mapping[h].counter \in 1..n
            /\ order[mapping[h].counter] = idOf[h] /\ docs[idOf[h]] = mapping[h].state
        BY <2>6, <4>1 DEF PInv
      <4>3. idOf[h] \in DOMAIN docs' /\ docs'[idOf[h]] = docs[idOf[h]]
        BY <2>3, <4>2
      <4> QED
        BY <2>6, <2>8, <4>1, <4>2, <4>3
    <3> QED
      BY <3>1, <3>2
  <2> QED
    BY <2>5, <2>6, <2>8, <2>9 DEF PInv
<1>6. ASSUME NEW t \in Txs, NEW s \in States \ {Inserted}, Set(t, s) PROVE PInv'
  <2>1. t \in Hashes /\ Memory!Set(t, s) /\ UNCHANGED idOf
        /\ docs' = [docs EXCEPT ![idOf[t]] = s] /\ UNCHANGED order
    BY <1>6 DEF Set, PInv, Collection!UpdateUnbondingDocumentState
  <2>2. mapping' = [h \in Hashes \cup {t} |-> IF h = t THEN [mapping[t] EXCEPT !.state = s] ELSE mapping[h]]
    BY <2>1 DEF Memory!Set, Memory!Put, Hashes
  <2>3. Hashes' = Hashes /\ Hashes \cup {t} = Hashes
    BY <2>1, <2>2 DEF Hashes, Memory!Hashes
  <2>4. [mapping[t] EXCEPT !.state = s] = [counter |-> mapping[t].counter, state |-> s]
    <3>1. mapping[t] = [counter |-> mapping[t].counter, state |-> mapping[t].state]
      BY <2>1 DEF IInv
    <3> QED
      BY <3>1
  <2>5. \A h \in Hashes : /\ mapping'[h].counter = mapping[h].counter
                          /\ mapping'[h].state = IF h = t THEN s ELSE mapping[h].state
    BY <2>2, <2>3, <2>4
  <2>6. \A h \in Hashes : idOf[h] = idOf[t] => h = t
    <3> SUFFICES ASSUME NEW h \in Hashes, idOf[h] = idOf[t] PROVE h = t
      OBVIOUS
    <3> DEFINE a == mapping[h].counter
               b == mapping[t].counter
    <3>1. a \in 1..Len(order) /\ b \in 1..Len(order) /\ order[a] = order[b]
      BY <2>1 DEF PInv
    <3>2. order[a] \in Ids
      BY <3>1, ElementOfSeq DEF CInv
    <3> HIDE DEF a, b
    <3>3. ~(a < b) /\ ~(b < a)
      BY <3>1, <3>2, IdsOrdered DEF CInv
    <3>4. a = b
      BY <3>1, <3>3
    <3> QED
      BY <2>1, <3>4, CountersDiffer DEF a, b
  <2>7. DOMAIN docs' = DOMAIN docs /\ \A d \in DOMAIN docs : docs'[d] = IF d = idOf[t] THEN s ELSE docs[d]
    BY <2>1 DEF CInv
  <2> QED
    BY <2>1, <2>3, <2>5, <2>6, <2>7 DEF PInv
<1> QED
  BY <1>2, <1>3, <1>4, <1>5, <1>6 DEF Next

\* One call of both getters returns one list.
LEMMA GetsAgree ==
  ASSUME IInv, EInv, CInv, PInv, NEW s, Get(s)
  PROVE  StoresAgree'
<1> DEFINE M == {t \in Hashes : mapping[t].state = s}
           C == {id \in DOMAIN docs : docs[id] = s}
           R == {p \in C \X C : Earlier(p[1], p[2])}
<1>1. PICK m \in Memory!SortedListings(M, Memory!Before) :
        memoryReply' = [err |-> FALSE, list |-> m]
  BY DEF Get, Memory!Get, Hashes
<1>2. PICK c \in Collection!SortedListings(C, Collection!IdBefore) :
        collectionReply' = [err |-> FALSE, list |-> c]
  BY DEF Get, Collection!FindUnbondingDocumentsWithState
<1>3. /\ m \in SetToSeqs(M)
      /\ \A i, j \in DOMAIN m : i < j => ~Memory!Before(m[j], m[i])
  BY <1>1, SameSequences DEF Memory!SortedListings
<1>4. /\ c \in SetToSeqs(C)
      /\ \A i, j \in DOMAIN c : i < j => ~Earlier(c[j], c[i])
  BY <1>2, SameSequences DEF Collection!SortedListings, Earlier
<1>5. IsFiniteSet(M)
  BY FS_Subset DEF IInv
<1>6. /\ m \in Seq(M) /\ Len(m) \in Nat /\ DOMAIN m = 1..Len(m)
      /\ \A i, j \in 1..Len(m) : m[i] = m[j] => i = j
      /\ \A t \in M : \E i \in 1..Len(m) : m[i] = t
      /\ \A i \in 1..Len(m) : m[i] \in M
  <2>1. /\ m \in Seq(M) /\ DOMAIN m = 1..Len(m)
        /\ \A i, j \in 1..Len(m) : m[i] = m[j] => i = j
        /\ \A t \in M : \E i \in 1..Len(m) : m[i] = t
    BY <1>3, <1>5, ListingHasAll
  <2> QED
    BY <2>1, ElementOfSeq, LenProperties
<1> DEFINE d == [i \in 1..Len(m) |-> idOf[m[i]]]
<1>7. \A t \in M : /\ idOf[t] \in C /\ mapping[t].counter \in 1..Len(order)
                   /\ order[mapping[t].counter] = idOf[t]
  BY DEF PInv
<1>8. \A i, j \in 1..Len(order) : i < j => Earlier(order[i], order[j]) /\ order[i] \in Ids /\ order[j] \in Ids
  BY ElementOfSeq DEF CInv
<1>9. \A i, j \in 1..Len(m) : i < j => Earlier(d[i], d[j]) /\ d[i] \in Ids /\ d[j] \in Ids
  <2> SUFFICES ASSUME NEW i \in 1..Len(m), NEW j \in 1..Len(m), i < j
               PROVE  Earlier(d[i], d[j]) /\ d[i] \in Ids /\ d[j] \in Ids
    OBVIOUS
  <2> DEFINE a == mapping[m[i]].counter
             b == mapping[m[j]].counter
  <2>1. /\ a \in 1..Len(order) /\ b \in 1..Len(order)
        /\ order[a] = d[i] /\ order[b] = d[j]
    BY <1>6, <1>7
  <2>2. ~(b < a)
    BY <1>3, <1>6 DEF Memory!Before
  <2>3. a # b
    <3>1. m[i] \in Hashes /\ m[j] \in Hashes /\ m[i] # m[j]
      BY <1>6
    <3> QED
      BY <3>1, CountersDiffer
  <2> HIDE DEF a, b, d
  <2>4. a < b
    BY <2>1, <2>2, <2>3
  <2> QED
    BY <1>8, <2>1, <2>4
<1>10. d \in Seq(C) /\ Len(d) = Len(m)
  <2>1. \A i \in 1..Len(m) : idOf[m[i]] \in C
    BY <1>6, <1>7
  <2>2. d \in [1..Len(m) -> C]
    BY <2>1
  <2> HIDE DEF d
  <2> QED
    BY <1>6, <2>2
<1>11. \A i, j \in 1..Len(d) : d[i] = d[j] => i = j
  <2> SUFFICES ASSUME NEW i \in 1..Len(m), NEW j \in 1..Len(m), d[i] = d[j], i # j
               PROVE  FALSE
    BY <1>10
  <2> HIDE DEF d
  <2>1. i < j \/ j < i
    BY <1>6
  <2>2. CASE i < j
    BY <1>9, <2>2, IdsOrdered
  <2>3. CASE j < i
    BY <1>9, <2>3, IdsOrdered
  <2> QED
    BY <2>1, <2>2, <2>3
<1>12. \A id \in C : \E i \in 1..Len(d) : d[i] = id
  <2> SUFFICES ASSUME NEW id \in C PROVE \E i \in 1..Len(d) : d[i] = id
    OBVIOUS
  <2>1. PICK k \in 1..Len(order) : order[k] = id
    BY DEF CInv
  <2>2. PICK t \in Hashes : mapping[t].counter = k
    BY <2>1 DEF IInv, Numbered, PInv
  <2>3. idOf[t] = id /\ mapping[t].state = s
    BY <2>1, <2>2 DEF PInv
  <2>4. PICK i \in 1..Len(m) : m[i] = t
    BY <1>6, <2>3
  <2> QED
    BY <1>10, <2>3, <2>4
<1> HIDE DEF d
<1>13. d \in SetToSeqs(C) /\ IsFiniteSet(C)
  BY <1>10, <1>11, <1>12, ListingIs
<1>14. \A x, y \in C : x # y => <<x, y>> \in R \/ <<y, x>> \in R
  <2>1. C \subseteq Ids
    BY DEF CInv
  <2> QED
    BY <2>1, IdsOrdered
<1>15. /\ \A i, j \in 1..Len(c) : i < j => <<c[j], c[i]>> \notin R
       /\ \A i, j \in 1..Len(d) : i < j => <<d[j], d[i]>> \notin R
  <2>1. DOMAIN c = 1..Len(c)
    BY <1>4, <1>13, ListingHasAll
  <2>2. \A i, j \in 1..Len(d) : i < j => ~Earlier(d[j], d[i])
    BY <1>9, <1>10, IdsOrdered
  <2> QED
    BY <1>4, <2>1, <2>2
<1> HIDE DEF R, C
<1>16. c = d
  BY <1>4, <1>13, <1>14, <1>15, OneSortedListing
<1>17. UNCHANGED idOf
  BY DEF Get
<1>18. memoryReply' = [err |-> FALSE, list |-> m]
  BY <1>1
<1> QED
  BY <1>1, <1>2, <1>16, <1>17, <1>18 DEF StoresAgree, d

\* So every call is answered alike.
LEMMA NextAgree ==
  ASSUME IInv, EInv, CInv, PInv, StoresAgree, [Next]_vars
  PROVE  StoresAgree'
<1>1. ASSUME UNCHANGED <<memoryReply, collectionReply, idOf>> PROVE StoresAgree'
  BY <1>1 DEF StoresAgree
<1>2. ASSUME memoryReply' = [err |-> FALSE, list |-> <<>>],
             collectionReply' = [err |-> FALSE, list |-> <<>>]
      PROVE  StoresAgree'
  <2>1. [i \in 1..Len(<<>>) |-> idOf'[<<>>[i]]] = <<>>
    BY EmptySeq
  <2> QED
    BY <1>2, <2>1 DEF StoresAgree
<1>3. CASE Tick \/ NewId \/ UNCHANGED vars
  BY <1>1, <1>3 DEF Tick, NewId, Collection!Tick, Collection!NewId, vars, memory, collection
<1>4. ASSUME NEW t \in Txs, AddTxWithSignature(t) PROVE StoresAgree'
  <2>1. memoryReply' = [err |-> FALSE, list |-> <<>>]
    BY <1>4 DEF AddTxWithSignature, PInv, Memory!AddTxWithSignature, Memory!Exists,
                Memory!NoReply, Hashes
  <2>2. collectionReply' = [err |-> FALSE, list |-> <<>>]
    BY <1>4, SaveCInv DEF AddTxWithSignature
  <2> QED
    BY <1>2, <2>1, <2>2
<1>5. ASSUME NEW t \in Txs, Refused(t) PROVE StoresAgree'
  <2>1. memoryReply' = [err |-> TRUE, list |-> <<>>]
    <3>1. CASE t \in Hashes
      <4>1. Memory!AddTxWithSignature(t)
        BY <1>5, <3>1 DEF Refused, PInv
      <4> QED
        BY <3>1, <4>1 DEF Memory!AddTxWithSignature, Memory!Exists, Memory!Error, Hashes
    <3>2. CASE t \notin Hashes
      <4>1. PICK s \in Terminal : Memory!Set(t, s)
        BY <1>5, <3>2 DEF Refused, PInv
      <4> QED
        BY <3>2, <4>1 DEF Memory!Set, Memory!Error, Hashes
    <3> QED
      BY <3>1, <3>2
  <2> QED
    BY <2>1 DEF StoresAgree
<1>6. ASSUME NEW t \in Txs, NEW s \in States, Set(t, s) PROVE StoresAgree'
  <2>1. memoryReply' = [err |-> FALSE, list |-> <<>>]
    BY <1>6 DEF Set, PInv, Memory!Set, Memory!NoReply, Hashes
  <2>2. collectionReply' = [err |-> FALSE, list |-> <<>>]
    BY <1>6 DEF Set, Collection!UpdateUnbondingDocumentState, Collection!NoReply
  <2> QED
    BY <1>2, <2>1, <2>2
<1> QED
  BY <1>3, <1>4, <1>5, <1>6, GetsAgree DEF Next
--------------------------------------------------------------------------------
AInv == IInv /\ EInv /\ CInv /\ PInv /\ StoresAgree

\* The stores stay in line, and the collection keeps its contract.
LEMMA InitAInv == Init => AInv /\ Collection!Contract!Init
<1> SUFFICES ASSUME Init PROVE AInv /\ Collection!Contract!Init
  OBVIOUS
<1>1. /\ IInv /\ Hashes = {} /\ memoryReply = [err |-> FALSE, list |-> <<>>]
      /\ CInv /\ Collection!Contract!Init
      /\ order = <<>> /\ collectionReply = [err |-> FALSE, list |-> <<>>] /\ idOf = <<>>
  BY InitIInv, InitCInv
     DEF Init, Memory!Init, Memory!NoReply, Hashes, Memory!Hashes, Collection!Init,
         Collection!NoReply
<1>2. EInv
  BY <1>1 DEF EInv
<1>3. PInv
  <2>1. DOMAIN idOf = {} /\ Len(order) = 0 /\ Cardinality(Hashes) = 0
    BY <1>1, FS_EmptySet
  <2> QED
    BY <1>1, <2>1 DEF PInv
<1>4. StoresAgree
  <2>1. [i \in 1..Len(<<>>) |-> idOf[<<>>[i]]] = <<>>
    BY EmptySeq
  <2> QED
    BY <1>1, <2>1 DEF StoresAgree
<1> QED
  BY <1>1, <1>2, <1>3, <1>4 DEF AInv

LEMMA NextAInv ==
  ASSUME AInv, [Next]_vars
  PROVE  AInv' /\ [Collection!Contract!Next]_Collection!Contract!vars
<1>1. DOMAIN idOf \subseteq Txs /\ \A t \in DOMAIN idOf : idOf[t] \in DOMAIN docs
  BY DEF AInv, EInv, PInv
<1>2. IInv' /\ EInv' /\ PInv' /\ StoresAgree'
  BY NextIInv, NextEInv, NextPInv, NextAgree DEF AInv
<1>3. CInv' /\ [Collection!Contract!Next]_Collection!Contract!vars
  BY <1>1, CollectionSteps DEF AInv
<1> QED
  BY <1>2, <1>3 DEF AInv

\* With one process adding documents, the collection keeps the contract of the
\* interface: its lists are in the order the documents were added.
THEOREM CollectionKeepsContract == Spec => CollectionContract
  BY InitAInv, NextAInv, PTL
     DEF Spec, CollectionContract, Collection!ContractSpec, Collection!Contract!Spec

\* What the in-memory store answers without an error, the collection answers.
THEOREM StoresAlwaysAgree == Spec => []StoresAgree
<1>1. AInv => StoresAgree
  BY DEF AInv
<1> QED
  BY <1>1, InitAInv, NextAInv, PTL DEF Spec
================================================================================

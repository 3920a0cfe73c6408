--------------------------- MODULE CoinSelectionProofs ---------------------------
(* For any wallet, target and fee, and however often the author resumes the      *)
(* closure: no output is an input twice, the fee is right, and what was refused   *)
(* no choice of inputs pays at the price of the largest ones.                    *)
EXTENDS CoinSelection, FiniteLemmas, FunctionTheorems, SequenceTheorems

Distinct(s) == \A i, j \in 1..Len(s) : s[i] = s[j] => i = j
Members(s)  == {s[i] : i \in 1..Len(s)}

\* A sequence without repetition has as many members as it is long.
LEMMA DistinctCount ==
  ASSUME NEW S, NEW s \in Seq(S), Distinct(s)
  PROVE  IsFiniteSet(Members(s)) /\ Cardinality(Members(s)) = Len(s)
<1> DEFINE f == [i \in 1..Len(s) |-> s[i]]
<1>1. Len(s) \in Nat
  BY LenProperties
<1>2. /\ f \in [1..Len(s) -> Members(s)]
      /\ \A i, j \in 1..Len(s) : f[i] = f[j] => i = j
      /\ \A x \in Members(s) : \E i \in 1..Len(s) : f[i] = x
  BY DEF Members, Distinct
<1>3. f \in Bijection(1..Len(s), Members(s))
  BY <1>2, Fun_IsBij
<1>4. ExistsBijection(1..Len(s), Members(s))
  BY <1>3 DEF ExistsBijection
<1>5. IsFiniteSet(1..Len(s)) /\ Cardinality(1..Len(s)) = Len(s)
  BY <1>1, FS_Interval
<1> QED
  BY <1>4, <1>5, FS_Bijection
--------------------------------------------------------------------------------
\* What was taken and what is left have no output twice, nor one in common.
IInv ==
  /\ currentInputs \in Seq(Utxos) /\ utxos \in Seq(Utxos)
  /\ Distinct(currentInputs) /\ Distinct(utxos)
  /\ \A i \in 1..Len(currentInputs), j \in 1..Len(utxos) : currentInputs[i] # utxos[j]
  /\ pc = "list" => currentInputs = <<>>

\* Nothing is listed or taken before the call.
LEMMA InitIInv == Init => IInv
<1> SUFFICES ASSUME Init PROVE IInv
  OBVIOUS
<1>1. currentInputs = <<>> /\ utxos = <<>>
  BY DEF Init
<1>2. <<>> \in Seq(Utxos) /\ Len(<<>>) = 0
  BY EmptySeq
<1> QED
  BY <1>1, <1>2 DEF IInv, Distinct

\* The listing has each usable output once.
LEMMA CreateIInv ==
  ASSUME IInv, CreateTransaction
  PROVE  IInv'
<1>1. PICK s \in Orders(Usable) : utxos' = s
  BY DEF CreateTransaction
<1>2. Usable \in SUBSET Utxos
  BY DEF Usable
<1>3. IsFiniteSet(Usable) /\ Cardinality(Usable) \in Nat
  BY <1>2, UtxosAssumption, FS_Subset, FS_CardinalityType
<1>4. s \in [1..Cardinality(Usable) -> Usable] /\ \A i, j \in DOMAIN s : s[i] = s[j] => i = j
  BY DEF Orders
<1>5. s \in [1..Cardinality(Usable) -> Utxos]
  BY <1>2, <1>4
<1>6. s \in Seq(Utxos)
  BY <1>3, <1>5, SeqDef
<1>7. DOMAIN s = 1..Len(s)
  BY <1>6, LenProperties
<1>8. Distinct(s)
  BY <1>4, <1>7 DEF Distinct
<1>9. currentInputs = <<>> /\ currentInputs' = <<>> /\ pc' # "list"
  BY DEF CreateTransaction, IInv
<1>10. <<>> \in Seq(Utxos) /\ Len(<<>>) = 0
  BY EmptySeq
<1> QED
  BY <1>1, <1>6, <1>8, <1>9, <1>10 DEF IInv, Distinct

\* A turn of the loop moves the first output left to the inputs.
LEMMA TakeIInv ==
  ASSUME IInv, TakeCredit
  PROVE  IInv'
<1>1. /\ pc' = pc /\ pc = "fetch" /\ utxos # <<>> /\ utxos' = Tail(utxos)
      /\ currentInputs' = Append(currentInputs, Head(utxos))
  BY DEF TakeCredit
<1>2. /\ utxos \in Seq(Utxos) /\ currentInputs \in Seq(Utxos)
      /\ Len(utxos) \in Nat \ {0} /\ Len(currentInputs) \in Nat
  BY <1>1, EmptySeq, LenProperties DEF IInv
<1>3. Head(utxos) = utxos[1] /\ Head(utxos) \in Utxos
  BY <1>1, <1>2, HeadTailProperties
<1>4. /\ utxos' \in Seq(Utxos) /\ Len(utxos') = Len(utxos) - 1
      /\ \A i \in 1..Len(utxos') : utxos'[i] = utxos[i + 1]
  BY <1>1, <1>2, HeadTailProperties
<1>5. /\ currentInputs' \in Seq(Utxos) /\ Len(currentInputs') = Len(currentInputs) + 1
      /\ \A i \in 1..Len(currentInputs) : currentInputs'[i] = currentInputs[i]
      /\ currentInputs'[Len(currentInputs) + 1] = utxos[1]
  BY <1>1, <1>2, <1>3, AppendProperties
<1>6. Distinct(utxos')
  BY <1>2, <1>4 DEF IInv, Distinct
<1>7. Distinct(currentInputs')
  BY <1>2, <1>5 DEF IInv, Distinct
<1>8. \A i \in 1..Len(currentInputs'), j \in 1..Len(utxos') : currentInputs'[i] # utxos'[j]
  BY <1>2, <1>4, <1>5 DEF IInv, Distinct
<1> QED
  BY <1>1, <1>4, <1>5, <1>6, <1>7, <1>8 DEF IInv

\* Nothing else touches the two lists.
LEMMA NextIInv == IInv /\ [Next]_vars => IInv'
<1> SUFFICES ASSUME IInv, [Next]_vars PROVE IInv'
  OBVIOUS
<1>1. ASSUME UNCHANGED <<utxos, currentInputs>>, pc' = "list" => pc = "list"
      PROVE  IInv'
  BY <1>1 DEF IInv, Distinct
<1>2. CASE Insufficient \/ FetchAgain \/ Author \/ SignRawTransaction
  BY <1>1, <1>2 DEF Insufficient, FetchAgain, ClosureKeeps, Author, SignRawTransaction
<1>3. CASE Returned \/ UNCHANGED vars \/ \E u \in Utxos : SpendElsewhere(u)
  BY <1>1, <1>3 DEF Returned, vars, SpendElsewhere
<1> QED
  BY <1>2, <1>3, CreateIInv, TakeIInv DEF Next

\* No output that was listed is taken twice or lost, whoever spends meanwhile.
THEOREM NoInputTwice == Spec => []EachInputOnce
<1>1. IInv => EachInputOnce
  <2> SUFFICES ASSUME IInv
               PROVE  /\ Len(currentInputs) = Cardinality(Inputs)
                      /\ Len(currentInputs) + Len(utxos) = Cardinality(Listed)
    BY DEF EachInputOnce
  <2>1. /\ Inputs = Members(currentInputs) /\ Listed = Inputs \cup Members(utxos)
        /\ Inputs \cap Members(utxos) = {}
    BY DEF Inputs, Listed, Members, IInv
  <2>2. /\ IsFiniteSet(Inputs) /\ Cardinality(Inputs) = Len(currentInputs)
        /\ IsFiniteSet(Members(utxos)) /\ Cardinality(Members(utxos)) = Len(utxos)
    BY <2>1, DistinctCount DEF IInv
  <2>3. Cardinality(Inputs \cap Members(utxos)) = 0
    BY <2>1, FS_EmptySet
  <2>4. Cardinality(Listed)
          = Cardinality(Inputs) + Cardinality(Members(utxos))
            - Cardinality(Inputs \cap Members(utxos))
    BY <2>1, <2>2, FS_Union
  <2>5. Len(currentInputs) \in Nat /\ Len(utxos) \in Nat
    BY LenProperties DEF IInv
  <2> QED
    BY <2>2, <2>3, <2>4, <2>5
<1> QED
  BY <1>1, InitIInv, NextIInv, PTL DEF Spec
--------------------------------------------------------------------------------
(* The money.                                                                    *)

First(k) == {currentInputs[i] : i \in 1..k}

\* The largest outputs are taken first.
Descending ==
  /\ \A i, j \in 1..Len(utxos) : i < j => amount[utxos[i]] >= amount[utxos[j]]
  /\ \A i, j \in 1..Len(currentInputs) :
       i < j => amount[currentInputs[i]] >= amount[currentInputs[j]]
  /\ \A i \in 1..Len(currentInputs), j \in 1..Len(utxos) :
       amount[currentInputs[i]] >= amount[utxos[j]]

\* What CountInputs and Estimate are of other inputs s, whose kinds are K.
CountIn(s, K, n) == [k \in Kinds |-> Cardinality({i \in 1..n : K[s[i]] = k})]

EstimateOf(s, K, n) ==
  IF Fee[CountIn(s, K, n)] > FirstEstimate THEN Fee[CountIn(s, K, n)] ELSE FirstEstimate

\* None of the earlier selections covered what was estimated for them, and the
\* author asks for no more than the estimate of what it has.
TooLittleSoFar ==
  /\ \A k \in 0..Len(currentInputs) - 1 :
       SumOf(amount, First(k)) < target + EstimateOf(currentInputs, kind, k)
  /\ targetFee \in Nat
  /\ targetFee =< EstimateOf(currentInputs, kind, Len(currentInputs))

Authored ==
  LET rest == currentTotal - target - Fee[CountIn(currentInputs, kind, Len(currentInputs))]
  IN  /\ rest >= 0
      /\ change = IF rest >= Dust THEN rest ELSE 0

MInv ==
  /\ amount \in [Utxos -> Nat] /\ kind \in [Utxos -> Kinds] /\ target \in Nat
  /\ currentTotal = SumOf(amount, Inputs)
  /\ Descending /\ TooLittleSoFar
  /\ pc = "sign" => Authored
  /\ pc = "insufficient" => utxos = <<>> /\ currentTotal < Wanted

\* Inputs, and the first few of them, are a finite set of outputs.
LEMMA InputsFinite ==
  ASSUME IInv, NEW k \in 0..Len(currentInputs)
  PROVE  /\ Inputs = First(Len(currentInputs))
         /\ First(k) \subseteq Inputs /\ Inputs \subseteq Utxos
         /\ IsFiniteSet(Inputs) /\ Cardinality(Inputs) = Len(currentInputs)
         /\ IsFiniteSet(First(k)) /\ Cardinality(First(k)) = k
<1>1. currentInputs \in Seq(Utxos) /\ Distinct(currentInputs) /\ Len(currentInputs) \in Nat
  BY LenProperties DEF IInv
<1>2. Inputs = Members(currentInputs) /\ Inputs = First(Len(currentInputs))
  BY DEF Inputs, Members, First
<1>3. First(k) \subseteq Inputs /\ Inputs \subseteq Utxos
  BY <1>1, ElementOfSeq DEF First, Inputs
<1> DEFINE s == [i \in 1..k |-> currentInputs[i]]
<1>4. k \in Nat /\ 1..k \subseteq 1..Len(currentInputs)
  BY <1>1
<1>5. s \in [1..k -> Utxos]
  BY <1>1, <1>4, ElementOfSeq
<1>6. s \in Seq(Utxos) /\ Len(s) = k
  BY <1>4, <1>5, SeqDef, LenProperties
<1>7. Distinct(s) /\ Members(s) = First(k)
  BY <1>1, <1>4, <1>6 DEF Distinct, Members, First
<1> HIDE DEF s
<1> QED
  BY <1>1, <1>2, <1>3, <1>6, <1>7, DistinctCount

\* Of the inputs there are, they are the same.
LEMMA EstimateIs ==
  ASSUME NEW n
  PROVE  /\ FeeFor(n) = Fee[CountIn(currentInputs, kind, n)]
         /\ Estimate(n) = EstimateOf(currentInputs, kind, n)
BY DEF FeeFor, CountInputs, CountIn, Estimate, EstimateOf

\* The author's first fee is that of some number of inputs.
LEMMA FirstEstimateType == FirstEstimate \in Nat
<1>1. Cardinality(Utxos) \in Nat /\ Cardinality(Utxos) # 0
  BY UtxosAssumption, FS_CardinalityType, FS_EmptySet
<1>2. [k \in Kinds |-> IF k = "p2wpkh" THEN 1 ELSE 0] \in Counts
  BY <1>1 DEF Counts
<1> QED
  BY <1>2, FeeAssumption DEF FirstEstimate

\* More inputs do not lower a fee or an estimate.
LEMMA FeeGrows ==
  ASSUME NEW s \in Seq(Utxos), Distinct(s), NEW K \in [Utxos -> Kinds],
         NEW n \in 0..Len(s), NEW m \in 0..n
  PROVE  /\ Fee[CountIn(s, K, n)] \in Nat
         /\ EstimateOf(s, K, m) \in Nat /\ EstimateOf(s, K, n) \in Nat
         /\ EstimateOf(s, K, m) =< EstimateOf(s, K, n)
         /\ Fee[CountIn(s, K, n)] =< EstimateOf(s, K, n)
         /\ FirstEstimate =< EstimateOf(s, K, n)
<1> DEFINE Of(i, k) == {x \in 1..i : K[s[x]] = k}
<1>1. Len(s) \in Nat /\ m \in Nat /\ n \in Nat /\ m =< n /\ n =< Len(s)
  BY LenProperties
<1>2. Len(s) =< Cardinality(Utxos) /\ Cardinality(Utxos) \in Nat
  <2>1. Cardinality(Members(s)) = Len(s)
    BY DistinctCount
  <2>2. Members(s) \subseteq Utxos
    BY ElementOfSeq DEF Members
  <2> QED
    BY <2>1, <2>2, UtxosAssumption, FS_Subset, FS_CardinalityType
<1>3. ASSUME NEW i \in 0..n, NEW k \in Kinds
      PROVE  /\ IsFiniteSet(Of(i, k)) /\ Cardinality(Of(i, k)) \in Nat
             /\ Cardinality(Of(i, k)) =< i
  <2>1. i \in Nat
    BY <1>1
  <2>2. IsFiniteSet(1..i) /\ Cardinality(1..i) = i
    BY <2>1, FS_Interval
  <2>3. Of(i, k) \subseteq 1..i
    OBVIOUS
  <2> QED
    BY <2>2, <2>3, FS_Subset, FS_CardinalityType
<1>4. ASSUME NEW i \in 0..n
      PROVE  CountIn(s, K, i) \in Counts
  <2>1. ASSUME NEW k \in Kinds
        PROVE  Cardinality(Of(i, k)) \in 0..Cardinality(Utxos)
    <3>1. Cardinality(Of(i, k)) \in Nat /\ Cardinality(Of(i, k)) =< i
      BY <1>3
    <3> QED
      BY <1>1, <1>2, <3>1
  <2>2. CountIn(s, K, i) = [k \in Kinds |-> Cardinality(Of(i, k))]
    BY DEF CountIn
  <2> QED
    BY <2>1, <2>2 DEF Counts
<1>5. ASSUME NEW k \in Kinds PROVE CountIn(s, K, m)[k] =< CountIn(s, K, n)[k]
  <2>1. Of(m, k) \subseteq Of(n, k)
    BY <1>1
  <2>2. IsFiniteSet(Of(n, k))
    BY <1>1, <1>3
  <2>3. Cardinality(Of(m, k)) =< Cardinality(Of(n, k))
    BY <2>1, <2>2, FS_Subset
  <2> QED
    BY <2>3 DEF CountIn
<1>6. CountIn(s, K, m) \in Counts /\ CountIn(s, K, n) \in Counts
  BY <1>1, <1>4
<1>7. /\ Fee[CountIn(s, K, m)] \in Nat /\ Fee[CountIn(s, K, n)] \in Nat
      /\ Fee[CountIn(s, K, m)] =< Fee[CountIn(s, K, n)]
  BY <1>5, <1>6, FeeAssumption
<1> QED
  BY <1>7, FirstEstimateType DEF EstimateOf

\* Before the call the closure has taken nothing.
LEMMA InitMInv == Init => MInv
<1> SUFFICES ASSUME Init PROVE MInv
  OBVIOUS
<1>1. /\ currentInputs = <<>> /\ utxos = <<>> /\ currentTotal = 0 /\ pc = "list"
      /\ targetFee = FirstEstimate /\ amount \in [Utxos -> Amounts] /\ target \in Targets
      /\ kind \in [Utxos -> Kinds]
  BY DEF Init
<1>2. Len(<<>>) = 0
  BY EmptySeq
<1>3. Inputs = {}
  BY <1>1, <1>2 DEF Inputs
<1>4. SumOf(amount, Inputs) = 0
  BY <1>3, FS_EmptySet, SumRecursion
<1>5. amount \in [Utxos -> Nat] /\ target \in Nat
  BY <1>1, AmountsAssumption
<1>6. Descending
  BY <1>1, <1>2 DEF Descending
<1>7. TooLittleSoFar
  <2>1. /\ currentInputs \in Seq(Utxos) /\ Distinct(currentInputs)
        /\ kind \in [Utxos -> Kinds] /\ Len(currentInputs) = 0
    BY <1>1, <1>2, InitIInv DEF IInv
  <2>2. 0 \in 0..Len(currentInputs) /\ 0 \in 0..0
    BY <2>1
  <2>3. FirstEstimate =< EstimateOf(currentInputs, kind, 0)
    BY <2>1, <2>2, FeeGrows
  <2> QED
    BY <1>1, <2>1, <2>3, FirstEstimateType DEF TooLittleSoFar
<1> QED
  BY <1>1, <1>4, <1>5, <1>6, <1>7 DEF MInv

\* The listing is sorted.
LEMMA CreateMInv ==
  ASSUME IInv, MInv, CreateTransaction
  PROVE  MInv'
<1>1. PICK s \in Orders(Usable) :
        /\ \A i, j \in DOMAIN s : i < j => SortsBefore(s[i], s[j])
        /\ utxos' = s
  BY DEF CreateTransaction
<1>2. IsFiniteSet(Usable) /\ Cardinality(Usable) \in Nat
  BY UtxosAssumption, FS_Subset, FS_CardinalityType DEF Usable
<1>3. s \in [1..Cardinality(Usable) -> Usable]
  BY DEF Orders
<1>4. Len(s) = Cardinality(Usable) /\ DOMAIN s = 1..Len(s)
  BY <1>2, <1>3, SeqDef, LenProperties
<1>5. /\ currentInputs = <<>> /\ currentInputs' = <<>> /\ Len(<<>>) = 0
      /\ UNCHANGED <<amount, kind, target, currentTotal, targetFee>>
      /\ pc' \in {"no utxo", "fetch"}
  BY EmptySeq DEF CreateTransaction, IInv, wallet
<1>6. Descending'
  <2>1. \A i, j \in 1..Len(s) : i < j => amount[s[i]] >= amount[s[j]]
    BY <1>1, <1>4 DEF SortsBefore
  <2>2. Len(currentInputs') = 0 /\ amount' = amount /\ utxos' = s
    BY <1>1, <1>5
  <2>3. 1..Len(currentInputs') = {}
    BY <2>2
  <2> QED
    BY <2>1, <2>2, <2>3 DEF Descending
<1>7. TooLittleSoFar'
  BY <1>5 DEF MInv, TooLittleSoFar, First
<1>8. (currentTotal = SumOf(amount, Inputs))'
  BY <1>5 DEF MInv, Inputs
<1> QED
  BY <1>5, <1>6, <1>7, <1>8 DEF MInv

\* A turn of the loop adds what the largest output left is worth, because what
\* there was is too little for the fee of as many inputs.
LEMMA TakeMInv ==
  ASSUME IInv, MInv, TakeCredit
  PROVE  MInv'
<1> DEFINE n == Len(currentInputs)
           u == Head(utxos)
<1>1. /\ pc' = pc /\ pc = "fetch" /\ utxos # <<>> /\ utxos' = Tail(utxos)
      /\ currentInputs' = Append(currentInputs, u)
      /\ currentTotal' = currentTotal + amount[u] /\ currentTotal < Wanted
      /\ UNCHANGED <<amount, kind, target, targetFee>>
  BY DEF TakeCredit, wallet
<1>2. /\ utxos \in Seq(Utxos) /\ currentInputs \in Seq(Utxos)
      /\ Len(utxos) \in Nat \ {0} /\ n \in Nat
  BY <1>1, EmptySeq, LenProperties DEF IInv
<1>3. u = utxos[1] /\ u \in Utxos
  BY <1>1, <1>2, HeadTailProperties
<1>4. /\ Len(utxos') = Len(utxos) - 1
      /\ \A i \in 1..Len(utxos') : utxos'[i] = utxos[i + 1]
  BY <1>1, <1>2, HeadTailProperties
<1>5. /\ Len(currentInputs') = n + 1
      /\ \A i \in 1..n : currentInputs'[i] = currentInputs[i]
      /\ currentInputs'[n + 1] = u
  BY <1>1, <1>2, <1>3, AppendProperties
<1>6. /\ amount \in [Utxos -> Nat] /\ target \in Nat /\ currentTotal = SumOf(amount, Inputs)
      /\ Descending /\ TooLittleSoFar /\ kind \in [Utxos -> Kinds]
  BY DEF MInv
<1>7. \A k \in 0..n : First(k)' = First(k)
  BY <1>2, <1>5 DEF First
<1>8. IsFiniteSet(Inputs) /\ Inputs = First(n) /\ Inputs \subseteq Utxos
  BY <1>2, InputsFinite
<1>9. Inputs' = Inputs \cup {u}
  BY <1>2, <1>5 DEF Inputs
<1>10. u \notin Inputs
  BY <1>2, <1>3 DEF IInv, Inputs
<1>11. \A x \in Inputs \cup {u} : amount[x] \in Int
  BY <1>3, <1>6, <1>8
<1>12. currentTotal' = SumOf(amount, Inputs)'
  <2>1. SumOf(amount, Inputs \cup {u}) = SumOf(amount, Inputs) + amount[u]
    BY <1>8, <1>10, <1>11, SumAdd
  <2> QED
    BY <1>1, <1>6, <1>9, <2>1
<1>13. Descending'
  <2>1. ASSUME NEW i \in 1..Len(utxos'), NEW j \in 1..Len(utxos'), i < j
        PROVE  amount[utxos'[i]] >= amount[utxos'[j]]
    <3>1. i + 1 \in 1..Len(utxos) /\ j + 1 \in 1..Len(utxos) /\ i + 1 < j + 1
      BY <1>2, <1>4, <2>1
    <3>2. amount[utxos[i + 1]] >= amount[utxos[j + 1]]
      BY <1>6, <3>1 DEF Descending
    <3> QED
      BY <1>4, <3>2
  <2>2. ASSUME NEW i \in 1..Len(currentInputs'), NEW j \in 1..Len(currentInputs'), i < j
        PROVE  amount[currentInputs'[i]] >= amount[currentInputs'[j]]
    <3>1. i \in 1..n /\ (j \in 1..n \/ j = n + 1) /\ 1 \in 1..Len(utxos)
      BY <1>2, <1>5, <2>2
    <3>2. amount[currentInputs[i]] >= amount[u]
      BY <1>3, <1>6, <3>1 DEF Descending
    <3>3. j \in 1..n => amount[currentInputs[i]] >= amount[currentInputs[j]]
      BY <1>6, <2>2, <3>1 DEF Descending
    <3> QED
      BY <1>5, <3>1, <3>2, <3>3
  <2>3. ASSUME NEW i \in 1..Len(currentInputs'), NEW j \in 1..Len(utxos')
        PROVE  amount[currentInputs'[i]] >= amount[utxos'[j]]
    <3>1. /\ j + 1 \in 1..Len(utxos) /\ 1 \in 1..Len(utxos) /\ 1 < j + 1
          /\ i \in 1..n \/ i = n + 1
      BY <1>2, <1>4, <1>5
    <3>2. amount[u] >= amount[utxos[j + 1]]
      BY <1>3, <1>6, <3>1 DEF Descending
    <3>3. i \in 1..n => amount[currentInputs[i]] >= amount[utxos[j + 1]]
      BY <1>6, <3>1 DEF Descending
    <3> QED
      BY <1>4, <1>5, <3>1, <3>2, <3>3
  <2> QED
    BY <1>1, <2>1, <2>2, <2>3 DEF Descending
<1>14. TooLittleSoFar'
  <2> DEFINE E(k)    == EstimateOf(currentInputs, kind, k)
             Then(k) == EstimateOf(currentInputs', kind', k)
  <2>1. targetFee \in Nat /\ targetFee =< E(n) /\ E(n) \in Nat
    <3>1. Distinct(currentInputs) /\ n \in 0..Len(currentInputs) /\ n \in 0..n
      BY <1>2 DEF IInv
    <3>2. E(n) \in Nat
      BY <1>2, <1>6, <3>1, FeeGrows
    <3> QED
      BY <1>6, <3>2 DEF TooLittleSoFar
  <2>2. SumOf(amount, First(n)) < target + E(n)
    <3>1. currentTotal \in Int
      BY <1>6, <1>8, <1>11, SumType
    <3> QED
      BY <1>1, <1>6, <1>8, <2>1, <3>1 DEF Wanted
  <2>3. \A k \in 0..n : SumOf(amount, First(k)) < target + E(k)
    BY <1>2, <1>6, <2>2 DEF TooLittleSoFar
  <2>4. ASSUME NEW k \in 0..n PROVE Then(k) = E(k)
    <3>1. \A x \in 1..k : currentInputs'[x] = currentInputs[x]
      BY <1>2, <1>5
    <3>2. CountIn(currentInputs', kind', k) = CountIn(currentInputs, kind, k)
      BY <1>1, <3>1 DEF CountIn
    <3> QED
      BY <3>2 DEF EstimateOf
  <2>5. Then(n) =< Then(n + 1) /\ Then(n + 1) \in Nat
    <3>1. currentInputs' \in Seq(Utxos) /\ Distinct(currentInputs') /\ kind' \in [Utxos -> Kinds]
      BY <1>1, <1>6, TakeIInv DEF IInv
    <3>2. n + 1 \in 0..Len(currentInputs') /\ n \in 0..(n + 1)
      BY <1>2, <1>5
    <3> QED
      BY <3>1, <3>2, FeeGrows
  <2>6. targetFee' \in Nat /\ targetFee' =< Then(n + 1)
    <3>1. Then(n) = E(n)
      BY <1>2, <2>4
    <3> HIDE DEF E, Then
    <3> QED
      BY <1>1, <2>1, <2>5, <3>1
  <2>7. \A k \in 0..n : SumOf(amount', First(k)') < target' + Then(k)
    BY <1>1, <1>7, <2>3, <2>4
  <2> QED
    BY <1>2, <1>5, <2>6, <2>7 DEF TooLittleSoFar
<1> QED
  BY <1>1, <1>6, <1>12, <1>13, <1>14 DEF MInv

\* The author raises its estimate to the fee of the inputs there are.
LEMMA AgainMInv ==
  ASSUME IInv, MInv, FetchAgain
  PROVE  MInv'
<1>1. /\ UNCHANGED <<amount, kind, target, currentTotal, currentInputs, utxos>>
      /\ targetFee' = FeeFor(Len(currentInputs)) /\ pc' = pc /\ pc = "fetch"
  BY DEF FetchAgain, ClosureKeeps, wallet
<1>2. Len(currentInputs) \in Nat
  BY LenProperties DEF IInv
<1>3. TooLittleSoFar'
  <2> DEFINE n == Len(currentInputs)
  <2>1. /\ Fee[CountIn(currentInputs, kind, n)] \in Nat
        /\ Fee[CountIn(currentInputs, kind, n)] =< EstimateOf(currentInputs, kind, n)
    BY <1>2, FeeGrows DEF IInv, MInv
  <2>2. targetFee' = Fee[CountIn(currentInputs, kind, n)]
    BY <1>1, EstimateIs
  <2> QED
    BY <1>1, <2>1, <2>2 DEF MInv, TooLittleSoFar, First
<1>4. Descending' /\ (currentTotal = SumOf(amount, Inputs))'
  BY <1>1 DEF MInv, Descending, Inputs
<1> QED
  BY <1>1, <1>3, <1>4 DEF MInv

\* The author is done.
LEMMA AuthorMInv ==
  ASSUME IInv, MInv, Author
  PROVE  MInv'
<1>1. /\ UNCHANGED <<amount, kind, target, currentTotal, currentInputs, utxos, targetFee>>
      /\ pc' = "sign"
      /\ currentTotal - target >= FeeFor(Len(currentInputs))
      /\ change' = IF currentTotal - target - FeeFor(Len(currentInputs)) >= Dust
                   THEN currentTotal - target - FeeFor(Len(currentInputs)) ELSE 0
  BY DEF Author, wallet
<1>2. Len(currentInputs) \in Nat
  BY LenProperties DEF IInv
<1>3. FeeFor(Len(currentInputs)) \in Nat /\ target \in Nat
  <2> DEFINE n == Len(currentInputs)
  <2>1. /\ currentInputs \in Seq(Utxos) /\ Distinct(currentInputs)
        /\ n \in 0..Len(currentInputs) /\ n \in 0..n
    BY <1>2 DEF IInv
  <2>2. kind \in [Utxos -> Kinds] /\ target \in Nat
    BY DEF MInv
  <2>3. Fee[CountIn(currentInputs, kind, n)] \in Nat
    BY <2>1, <2>2, FeeGrows
  <2> QED
    BY <2>2, <2>3, EstimateIs
<1>4. currentTotal \in Int
  <2>1. /\ IsFiniteSet(Inputs) /\ Inputs \subseteq Utxos
        /\ amount \in [Utxos -> Nat] /\ currentTotal = SumOf(amount, Inputs)
    BY <1>2, InputsFinite DEF MInv
  <2> QED
    BY <2>1, SumType
<1>5. Authored'
  BY <1>1, <1>3, <1>4, EstimateIs DEF Authored
<1>6. Descending' /\ (currentTotal = SumOf(amount, Inputs))' /\ TooLittleSoFar'
  BY <1>1 DEF MInv, Descending, Inputs, TooLittleSoFar, First
<1> QED
  BY <1>1, <1>5, <1>6 DEF MInv

\* Nothing else touches the money.
LEMMA NextMInv == IInv /\ MInv /\ [Next]_vars => MInv'
<1> SUFFICES ASSUME IInv, MInv, [Next]_vars PROVE MInv'
  OBVIOUS
<1>1. ASSUME UNCHANGED <<amount, kind, target, currentTotal, currentInputs, utxos, targetFee,
                         change>>,
             pc' = "sign" => pc = "sign",
             pc' = "insufficient" =>
               pc = "insufficient" \/ (utxos = <<>> /\ currentTotal < Wanted)
      PROVE  MInv'
  BY <1>1 DEF MInv, Descending, TooLittleSoFar, Authored, Inputs, First, Wanted
<1>2. CASE Insufficient
  BY <1>1, <1>2 DEF Insufficient, wallet
<1>3. CASE SignRawTransaction
  BY <1>1, <1>3 DEF SignRawTransaction, wallet
<1>4. CASE Returned \/ UNCHANGED vars \/ \E u \in Utxos : SpendElsewhere(u)
  BY <1>1, <1>4 DEF Returned, vars, SpendElsewhere, wallet
<1> QED
  BY <1>2, <1>3, <1>4, CreateMInv, TakeMInv, AgainMInv, AuthorMInv DEF Next

\* Both halves of the invariant hold throughout.
LEMMA Invariance == Spec => [](IInv /\ MInv)
  BY InitIInv, NextIInv, InitMInv, NextMInv, PTL DEF Spec
--------------------------------------------------------------------------------
\* What the author returns pays the outputs and a fee that is right for its
\* inputs.
THEOREM TheFeeIsRight == Spec => []PaysTheRightFee
<1>1. IInv /\ MInv => PaysTheRightFee
  <2> SUFFICES ASSUME IInv, MInv, pc = "sign"
               PROVE  LET fee == AmountOf(Inputs) - target - change IN
                      /\ AmountOf(Inputs) >= target + change
                      /\ fee \in FeeFor(Len(currentInputs))
                                .. FeeFor(Len(currentInputs)) + Dust
    BY DEF PaysTheRightFee
  <2>1. Len(currentInputs) \in Nat
    BY LenProperties DEF IInv
  <2>2. /\ IsFiniteSet(Inputs) /\ Inputs \subseteq Utxos
        /\ amount \in [Utxos -> Nat] /\ currentTotal = SumOf(amount, Inputs)
        /\ target \in Nat /\ Authored /\ kind \in [Utxos -> Kinds]
    BY <2>1, InputsFinite DEF MInv
  <2>3. AmountOf(Inputs) = currentTotal
    BY <2>2, Zenon DEF AmountOf, SumOf
  <2>4. currentTotal \in Int
    BY <2>2, SumType
  <2> DEFINE fee == FeeFor(Len(currentInputs))
  <2>5. fee \in Nat /\ Dust \in Nat
    <3> DEFINE n == Len(currentInputs)
    <3>1. /\ currentInputs \in Seq(Utxos) /\ Distinct(currentInputs)
          /\ n \in 0..Len(currentInputs) /\ n \in 0..n
      BY <2>1 DEF IInv
    <3>2. Fee[CountIn(currentInputs, kind, n)] \in Nat
      BY <2>2, <3>1, FeeGrows
    <3> QED
      BY <3>2, EstimateIs, FeeAssumption
  <2>6. /\ currentTotal - target - fee >= 0
        /\ change = IF currentTotal - target - fee >= Dust
                    THEN currentTotal - target - fee ELSE 0
    BY <2>2, EstimateIs DEF Authored
  <2> HIDE DEF fee
  <2>7. /\ currentTotal >= target + change
        /\ currentTotal - target - change \in fee .. fee + Dust
    BY <2>2, <2>4, <2>5, <2>6
  <2> QED
    BY <2>3, <2>7 DEF fee
<1> QED
  BY <1>1, Invariance, PTL

\* No choice of as many inputs is worth more than the first ones.
LEMMA LargestFirst ==
  ASSUME IInv, MInv, NEW S \in SUBSET Inputs, NEW k \in 0..Len(currentInputs) - 1,
         Cardinality(S) = k
  PROVE  SumOf(amount, S) =< SumOf(amount, First(k))
<1> DEFINE P == First(k)
           C == S \cap P
           a == amount[currentInputs[k + 1]]
<1>1. currentInputs \in Seq(Utxos) /\ Len(currentInputs) \in Nat /\ k \in 0..Len(currentInputs)
  BY LenProperties DEF IInv
<1>2. /\ IsFiniteSet(Inputs) /\ Inputs \subseteq Utxos /\ amount \in [Utxos -> Nat]
      /\ IsFiniteSet(P) /\ Cardinality(P) = k /\ P \subseteq Inputs
  BY <1>1, InputsFinite DEF MInv
<1>3. /\ IsFiniteSet(S) /\ IsFiniteSet(C) /\ IsFiniteSet(S \ P) /\ IsFiniteSet(P \ S)
  BY <1>2, FS_Subset
<1>4. \A x \in Inputs : amount[x] \in Int
  BY <1>2
<1>5. a \in Int
  <2>1. k + 1 \in 1..Len(currentInputs)
    BY <1>1
  <2> QED
    BY <1>1, <1>2, <2>1, ElementOfSeq
<1>6. Cardinality(S \ P) = k - Cardinality(C) /\ Cardinality(P \ S) = k - Cardinality(C)
  <2>1. P \cap S = C
    OBVIOUS
  <2>2. /\ Cardinality(S \ P) = Cardinality(S) - Cardinality(S \cap P)
        /\ Cardinality(P \ S) = Cardinality(P) - Cardinality(P \cap S)
    BY <1>2, <1>3, FS_Difference
  <2> QED
    BY <1>2, <2>1, <2>2
<1>7. \A x \in S \ P : amount[x] =< a
  <2> SUFFICES ASSUME NEW x \in S \ P PROVE amount[x] =< a
    OBVIOUS
  <2>1. PICK i \in 1..Len(currentInputs) : x = currentInputs[i]
    BY DEF Inputs
  <2>2. ~(i \in 1..k)
    BY <2>1 DEF First
  <2>3. i >= k + 1
    BY <1>1, <2>2
  <2>4. CASE i = k + 1
    BY <1>5, <2>1, <2>4
  <2>5. CASE i # k + 1
    <3>1. k + 1 \in 1..Len(currentInputs) /\ k + 1 < i
      BY <1>1, <2>1, <2>3, <2>5
    <3>2. Descending
      BY DEF MInv
    <3> QED
      BY <2>1, <3>1, <3>2 DEF Descending
  <2> QED
    BY <2>4, <2>5
<1>8. \A x \in P \ S : a =< amount[x]
  <2> SUFFICES ASSUME NEW x \in P \ S PROVE a =< amount[x]
    OBVIOUS
  <2>1. PICK i \in 1..k : x = currentInputs[i]
    BY DEF First
  <2>2. i \in 1..Len(currentInputs) /\ k + 1 \in 1..Len(currentInputs) /\ i < k + 1
    BY <1>1, <2>1
  <2>3. Descending
    BY DEF MInv
  <2> QED
    BY <2>1, <2>2, <2>3 DEF Descending
<1> DEFINE c == Cardinality(S \ P)
<1>9. SumOf(amount, S \ P) =< a * c
  BY <1>3, <1>4, <1>5, <1>7, SumAtMost
<1>10. a * c =< SumOf(amount, P \ S)
  <2>1. a * Cardinality(P \ S) =< SumOf(amount, P \ S)
    BY <1>2, <1>3, <1>4, <1>5, <1>8, SumAtLeast
  <2> QED
    BY <1>6, <2>1
<1>11. SumOf(amount, S) = SumOf(amount, C) + SumOf(amount, S \ P)
  <2>1. C \cup (S \ P) = S /\ C \cap (S \ P) = {}
    OBVIOUS
  <2>2. SumOf(amount, C \cup (S \ P)) = SumOf(amount, C) + SumOf(amount, S \ P)
    BY <1>3, <1>4, <2>1, SumUnion
  <2> QED
    BY <2>1, <2>2, Zenon
<1>12. SumOf(amount, P) = SumOf(amount, C) + SumOf(amount, P \ S)
  <2>1. C \cup (P \ S) = P /\ C \cap (P \ S) = {}
    OBVIOUS
  <2>2. SumOf(amount, C \cup (P \ S)) = SumOf(amount, C) + SumOf(amount, P \ S)
    BY <1>2, <1>3, <1>4, <2>1, SumUnion
  <2> QED
    BY <2>1, <2>2, Zenon
<1>13. a * c \in Int
  BY <1>3, <1>5, FS_CardinalityType
<1>14. /\ SumOf(amount, C) \in Int /\ SumOf(amount, S \ P) \in Int
       /\ SumOf(amount, P \ S) \in Int
  BY <1>2, <1>3, <1>4, SumType
<1> DEFINE sum(T) == SumOf(amount, T)
<1>15. sum(S) =< sum(P)
  <2> DEFINE s == sum(C)
             t == sum(S \ P)
             r == sum(P \ S)
             b == a * c
  <2>1. /\ sum(S) = s + t /\ sum(P) = s + r /\ t =< b /\ b =< r
        /\ s \in Int /\ t \in Int /\ r \in Int /\ b \in Int
    BY <1>9, <1>10, <1>11, <1>12, <1>13, <1>14, Zenon
  <2> HIDE DEF s, t, r, b, sum
  <2> QED
    BY <2>1
<1> QED
  BY <1>15

\* A caller is refused only what no choice of inputs is worth at the price of as
\* many largest ones.
THEOREM RefusedOnlyIfLargestFail == Spec => []RefusesOnlyWhatLargestCannotPay
<1>1. IInv /\ MInv => RefusesOnlyWhatLargestCannotPay
  <2> SUFFICES ASSUME IInv, MInv, pc = "insufficient", NEW S \in SUBSET Listed
               PROVE  AmountOf(S) < target + Estimate(Cardinality(S))
    BY DEF RefusesOnlyWhatLargestCannotPay
  <2> DEFINE n == Len(currentInputs)
  <2>1. n \in Nat
    BY LenProperties DEF IInv
  <2>2. /\ utxos = <<>> /\ currentTotal < Wanted /\ target \in Nat
        /\ kind \in [Utxos -> Kinds] /\ TooLittleSoFar
    BY DEF MInv
  <2>3. S \in SUBSET Inputs
    BY <2>2, EmptySeq DEF Listed
  <2>4. IsFiniteSet(Inputs) /\ Cardinality(Inputs) = n /\ Inputs \subseteq Utxos
    BY <2>1, InputsFinite
  <2>5. IsFiniteSet(S) /\ Cardinality(S) \in 0..n
    BY <2>1, <2>3, <2>4, FS_Subset, FS_CardinalityType
  <2>6. AmountOf(S) = SumOf(amount, S)
    BY Zenon DEF AmountOf, SumOf
  <2>7. \A x \in Inputs : amount[x] \in Int
    BY <2>4 DEF MInv
  <2>8. CASE Cardinality(S) = n
    <3>1. S = Inputs
      BY <2>3, <2>4, <2>8, FS_Subset
    <3>2. targetFee \in Nat /\ targetFee =< Estimate(n)
      BY <2>2, EstimateIs DEF TooLittleSoFar
    <3>3. Estimate(n) \in Nat
      BY <2>1, <2>2, FeeGrows, EstimateIs DEF IInv
    <3>4. currentTotal = SumOf(amount, Inputs) /\ currentTotal \in Int
      BY <2>4, <2>7, SumType DEF MInv
    <3>5. AmountOf(S) = currentTotal
      BY <2>6, <3>1, <3>4, Zenon
    <3> QED
      BY <2>2, <2>8, <3>2, <3>3, <3>4, <3>5 DEF Wanted
  <2>9. CASE Cardinality(S) # n
    <3> DEFINE k == Cardinality(S)
    <3>1. k \in 0..n - 1 /\ k \in 0..n /\ k \in Nat
      BY <2>1, <2>5, <2>9
    <3>2. SumOf(amount, S) =< SumOf(amount, First(k))
      BY <2>3, <3>1, LargestFirst
    <3>3. SumOf(amount, First(k)) < target + Estimate(k)
      BY <2>2, <3>1, EstimateIs DEF TooLittleSoFar
    <3>4. IsFiniteSet(First(k)) /\ First(k) \subseteq Inputs
      BY <3>1, InputsFinite
    <3>5. SumOf(amount, S) \in Int /\ SumOf(amount, First(k)) \in Int /\ Estimate(k) \in Nat
      BY <2>2, <2>3, <2>5, <2>7, <3>1, <3>4, SumType, FeeGrows, EstimateIs DEF IInv
    <3> QED
      BY <2>2, <2>6, <3>2, <3>3, <3>5
  <2> QED
    BY <2>8, <2>9
<1> QED
  BY <1>1, Invariance, PTL
================================================================================

----------------------------- MODULE TimestampProofs -----------------------------
(* What the timestamp command prints, for any fees, files, funding transaction   *)
(* and number of runs.                                                           *)
EXTENDS Timestamp, FiniteLemmas, SequenceTheorems

Outs == Seq([script : Addresses \cup Contents, value : Int])

Txs == [source : Nat, index : Nat, fee : Int, outs : Outs, path : Paths \cup {""},
        fileHash : Contents \cup {""}]

Typed == txs \in Seq(Txs) /\ content \in [Paths -> Contents \cup {NoFile}]

\* A printed transaction takes an output of an earlier one and pays what its fee
\* leaves to the same script.
Printing(tx, i) ==
  /\ tx.source \in 1..(i - 1)
  /\ tx.index \in 1..Len(txs[tx.source].outs)
  /\ tx.outs = <<Output(Spends(tx).script, Spends(tx).value - tx.fee), Output(tx.fileHash, 0)>>
  /\ Spends(tx).value >= tx.fee

IInv == Typed /\ \A i \in Printed : Printing(txs[i], i)

\* The index that is not zero is that of an output of the address.
LEMMA IndexIsOfAddress ==
  ASSUME NEW outs \in Outs, NEW address,
         OutputIndexForPkScript(address, outs) # 0
  PROVE  LET index == OutputIndexForPkScript(address, outs)
         IN  index \in 1..Len(outs) /\ outs[index].script = address
<1> DEFINE I == {i \in 1..Len(outs) : outs[i].script = address}
           first == CHOOSE x \in I : \A y \in I : x =< y
<1>1. OutputIndexForPkScript(address, outs) = IF I # {} THEN first ELSE 0
  BY DEF OutputIndexForPkScript, SelectInSeq, Min
<1>2. I # {} /\ OutputIndexForPkScript(address, outs) = first
  BY <1>1
<1>3. Len(outs) \in Nat
  BY LenProperties DEF Outs
<1>4. first \in I
  BY <1>2, <1>3, LeastNumber
<1> QED
  BY <1>2, <1>4

\* A funding transaction is typed, and nothing is printed yet.
LEMMA InitIInv == Init => IInv
<1> SUFFICES ASSUME Init PROVE IInv
  OBVIOUS
<1>1. PICK outs \in Fundings : txs = <<FundingTx(outs)>>
  BY DEF Init
<1>2. outs \in Outs
  <2>1. [script : Addresses, value : Nat] \subseteq [script : Addresses \cup Contents, value : Int]
    OBVIOUS
  <2> QED
    BY <2>1, SeqMonotonic, TimestampAssumption DEF Outs
<1>3. FundingTx(outs) \in Txs
  BY <1>2 DEF FundingTx, Txs
<1>4. txs \in Seq(Txs) /\ Len(txs) = 1
  BY <1>1, <1>3
<1>5. content \in [Paths -> Contents \cup {NoFile}]
  BY DEF Init
<1> QED
  BY <1>4, <1>5 DEF IInv, Typed, Printed

\* A run appends one transaction that is as it should be, and changes no other.
LEMMA CreateIInv ==
  ASSUME IInv, NEW source \in 1..Len(txs), NEW path \in Paths, NEW address \in Addresses,
         NEW fee \in Fees, CreateTimestampTx(source, path, address, fee)
  PROVE  IInv'
<1> DEFINE outs  == txs[source].outs
           index == OutputIndexForPkScript(address, outs)
           tx    == [source |-> source, index |-> index, fee |-> fee,
                     outs |-> <<Output(address, Change(ValueIn(outs, index), fee)),
                                Output(HashFromFile(path), 0)>>,
                     path |-> path, fileHash |-> HashFromFile(path)]
<1>1. /\ index # 0 /\ ~FeeNotCovered(ValueIn(outs, index), fee)
      /\ txs' = Append(txs, tx) /\ UNCHANGED content
  BY DEF CreateTimestampTx
<1>2. txs \in Seq(Txs) /\ Len(txs) \in Nat /\ content[path] \in Contents
  BY LenProperties DEF IInv, Typed, CreateTimestampTx
<1>3. txs[source] \in Txs
  BY <1>2, ElementOfSeq
<1>4. outs \in Outs
  BY <1>3 DEF Txs
<1>5. index \in 1..Len(outs) /\ outs[index].script = address
  BY <1>1, <1>4, IndexIsOfAddress
<1>6. outs[index] \in [script : Addresses \cup Contents, value : Int]
  BY <1>4, <1>5, ElementOfSeq DEF Outs
<1> DEFINE value == outs[index].value
<1>7. value \in Int /\ fee \in Int /\ value >= fee
  BY <1>1, <1>6, TimestampAssumption DEF FeeNotCovered, ValueIn
<1>8. /\ tx.source = source /\ tx.index = index /\ tx.fee = fee /\ tx.fileHash = content[path]
      /\ tx.outs = <<Output(address, value - fee), Output(content[path], 0)>>
  BY DEF Change, ValueIn, HashFromFile
<1>9. tx \in Txs
  <2>1. /\ Output(address, value - fee) \in [script : Addresses \cup Contents, value : Int]
        /\ Output(content[path], 0) \in [script : Addresses \cup Contents, value : Int]
    BY <1>2, <1>7 DEF Output
  <2>2. tx.outs \in Outs
    BY <1>8, <2>1 DEF Outs
  <2>3. Len(outs) \in Nat
    BY <1>4, LenProperties DEF Outs
  <2>4. source \in Nat /\ index \in Nat
    BY <1>2, <1>5, <2>3
  <2> QED
    BY <1>2, <1>7, <2>2, <2>4 DEF Txs, HashFromFile
<1> HIDE DEF tx
<1>10. /\ txs' \in Seq(Txs) /\ Len(txs') = Len(txs) + 1
       /\ \A i \in 1..Len(txs) : txs'[i] = txs[i]
       /\ txs'[Len(txs) + 1] = tx
  BY <1>1, <1>2, <1>9, AppendProperties
<1>11. ASSUME NEW i \in Printed' PROVE Printing(txs[i], i)'
  <2>1. CASE i \in Printed
    <3>1. txs'[i] = txs[i] /\ Printing(txs[i], i) /\ i \in 1..Len(txs)
      BY <2>1, <1>2, <1>10 DEF IInv, Printed
    <3>2. txs[i].source \in 1..Len(txs) /\ txs'[txs[i].source] = txs[txs[i].source]
      BY <3>1, <1>2, <1>10 DEF Printing
    <3> QED
      BY <3>1, <3>2, <1>1 DEF Printing, Spends
  <2>2. CASE i = Len(txs) + 1
    <3>1. txs'[i] = tx /\ txs'[source] = txs[source]
      BY <2>2, <1>10
    <3>2. source \in 1..(i - 1)
      BY <2>2, <1>2
    <3> QED
      BY <3>1, <3>2, <1>1, <1>2, <1>5, <1>7, <1>8 DEF Printing, Spends
  <2> QED
    BY <2>1, <2>2, <1>2, <1>10 DEF Printed
<1> QED
  BY <1>1, <1>2, <1>10, <1>11 DEF IInv, Typed

\* Nothing else touches what is printed.
THEOREM NextIInv == IInv /\ [Next]_vars => IInv'
<1> SUFFICES ASSUME IInv, [Next]_vars PROVE IInv'
  OBVIOUS
<1>1. ASSUME NEW path \in Paths, NEW c \in Contents \cup {NoFile}, ChangeFile(path, c)
      PROVE  IInv'
  BY <1>1 DEF ChangeFile, IInv, Typed, Printed, Printing, Spends
<1>2. ASSUME NEW i \in 1..Len(txs), Mine(i) PROVE IInv'
  BY <1>2 DEF Mine, IInv, Typed, Printed, Printing, Spends
<1>3. CASE UNCHANGED vars
  BY <1>3 DEF vars, IInv, Typed, Printed, Printing, Spends
<1> QED
  BY <1>1, <1>2, <1>3, CreateIInv DEF Next

\* The invariant holds after any runs.
THEOREM Invariance == Spec => []IInv
  BY InitIInv, NextIInv, PTL DEF Spec
--------------------------------------------------------------------------------
\* A transaction printed for the wallet's address takes an output of that address,
\* and pays no more than it holds exactly if the fee is not negative.
THEOREM EveryPrintedCanBeMined == Spec => []PrintedCanBeMined
<1>1. IInv => PrintedCanBeMined
  <2> SUFFICES ASSUME IInv, NEW i \in Printed, txs[i].outs[1].script = "ours"
               PROVE  Sound(txs[i]) <=> txs[i].fee >= 0
    BY DEF PrintedCanBeMined
  <2> DEFINE tx == txs[i]
  <2>1. Printing(tx, i)
    BY DEF IInv
  <2>2. txs \in Seq(Txs) /\ Len(txs) \in Nat /\ i \in 1..Len(txs)
    BY LenProperties DEF IInv, Typed, Printed
  <2>3. tx \in Txs /\ txs[tx.source] \in Txs
    BY <2>1, <2>2, ElementOfSeq DEF Printing
  <2>4. tx.fee \in Int /\ txs[tx.source].outs \in Outs
    BY <2>3 DEF Txs
  <2>5. Spends(tx).value \in Int
    <3>1. Spends(tx) \in [script : Addresses \cup Contents, value : Int]
      BY <2>1, <2>4, ElementOfSeq DEF Printing, Spends, Outs
    <3> QED
      BY <3>1
  <2>6. /\ tx.outs[1] = Output(Spends(tx).script, Spends(tx).value - tx.fee)
        /\ tx.outs[2] = Output(tx.fileHash, 0)
    BY <2>1 DEF Printing
  <2> HIDE DEF tx
  <2>7. /\ tx.outs[1].script = Spends(tx).script
        /\ tx.outs[1].value = Spends(tx).value - tx.fee /\ tx.outs[2].value = 0
    BY <2>6 DEF Output
  <2>8. tx.outs[1].script = "ours" /\ Spends(tx).value >= tx.fee
    BY <2>1 DEF tx, Printing
  <2>9. Sound(tx) <=> tx.fee >= 0
    BY <2>4, <2>5, <2>7, <2>8 DEF Sound
  <2> QED
    BY <2>9 DEF tx
<1> QED
  BY <1>1, Invariance, PTL

--------------------------------------------------------------------------------
(* The money of the address.                                                     *)

\* What is mined takes what is mined, and the funding transaction takes nothing.
MinedInv ==
  /\ mined \subseteq 1..Len(txs) /\ 1 \in mined
  /\ txs[1].source = 0
  /\ \A i \in mined \cap Printed : txs[i].source \in mined
  /\ burnt \in Int

MInv == MinedInv /\ OnlyFeesLeaveTheAddress

\* A transaction is typed.
LEMMA TxType ==
  ASSUME Typed, NEW i \in 1..Len(txs)
  PROVE  txs[i] \in Txs /\ txs[i].outs \in Outs /\ Len(txs[i].outs) \in Nat
<1>1. txs[i] \in Txs
  BY ElementOfSeq DEF Typed
<1>2. txs[i].outs \in Outs
  BY <1>1 DEF Txs
<1> QED
  BY <1>1, <1>2, LenProperties DEF Outs

\* The outputs of some transactions are finitely many, and each is worth an
\* integer.
LEMMA OutputsFinite ==
  ASSUME Typed, NEW I \in SUBSET (1..Len(txs))
  PROVE  /\ IsFiniteSet(OutputsOf(I)) /\ OutputsOf(I) \subseteq OutputsOf(1..Len(txs))
         /\ \A o \in OutputsOf(I) : Worth[o] \in Int
<1> DEFINE P == {J \in SUBSET (1..Len(txs)) : IsFiniteSet(OutputsOf(J))}
<1>1. ASSUME NEW J \in SUBSET (1..Len(txs)), \A i \in J : J \ {i} \in P
      PROVE  J \in P
  <2>1. CASE J = {}
    <3>1. OutputsOf(J) = {}
      BY <2>1 DEF OutputsOf
    <3> QED
      BY <3>1, FS_EmptySet
  <2>2. CASE J # {}
    <3>1. PICK i \in J : TRUE
      BY <2>2
    <3>2. OutputsOf(J) = OutputsOf(J \ {i}) \cup ({i} \X (1..Len(txs[i].outs)))
      BY DEF OutputsOf
    <3> DEFINE n == Len(txs[i].outs)
               A == OutputsOf(J \ {i})
               B == {i} \X (1..n)
    <3>3. n \in Int /\ 1 \in Int
      BY TxType
    <3>7. IsFiniteSet({i}) /\ IsFiniteSet(1..n)
      <4> HIDE DEF n
      <4> QED
        BY <3>3, FS_Interval, FS_Singleton
    <3>4. IsFiniteSet(B)
      BY <3>7, FS_Product
    <3>5. IsFiniteSet(A)
      BY <1>1
    <3>6. IsFiniteSet(A \cup B)
      <4> HIDE DEF A, B
      <4> QED
        BY <3>4, <3>5, FS_Union
    <3> QED
      BY <3>2, <3>6
  <2> QED
    BY <2>1, <2>2
<1> HIDE DEF P
<1>2. IsFiniteSet(1..Len(txs))
  BY LenProperties, FS_Interval DEF Typed
<1>3. \A J \in SUBSET (1..Len(txs)) : J \in P
  BY <1>1, <1>2, FiniteInduction
<1>4. OutputsOf(I) \subseteq OutputsOf(1..Len(txs))
  BY DEF OutputsOf
<1>5. ASSUME NEW o \in OutputsOf(I) PROVE Worth[o] \in Int
  <2>1. o[1] \in 1..Len(txs) /\ o[2] \in 1..Len(txs[o[1]].outs)
    BY DEF OutputsOf
  <2>2. txs[o[1]].outs[o[2]] \in [script : Addresses \cup Contents, value : Int]
    BY <2>1, TxType, ElementOfSeq DEF Outs
  <2>3. Worth[o] = txs[o[1]].outs[o[2]].value
    BY <1>4 DEF Worth
  <2> QED
    BY <2>2, <2>3
<1> QED
  BY <1>3, <1>4, <1>5 DEF P

\* The value of a set of outputs is a sum.
LEMMA TotalIsSum ==
  ASSUME NEW f, NEW S
  PROVE  Total(f, S) = SumOf(f, S)
BY Zenon DEF Total, SumOf

\* The address starts with what the funding transaction pays it.
LEMMA InitMInv == Init => MInv
<1> SUFFICES ASSUME Init PROVE MInv
  OBVIOUS
<1>1. Typed
  BY InitIInv DEF IInv
<1>2. PICK outs \in Fundings : txs = <<FundingTx(outs)>>
  BY DEF Init
<1>3. Len(txs) = 1 /\ txs[1].source = 0 /\ mined = {1} /\ burnt = 0
  BY <1>2 DEF Init, FundingTx
<1>4. MinedInv
  BY <1>3 DEF MinedInv, Printed
<1>5. Unspent = Owned({1})
  <2>1. \A o \in Owned({1}) : o[1] = 1
    BY DEF Owned, OutputsOf
  <2> QED
    BY <1>3, <2>1 DEF Unspent, Spent
<1>6. Total(Worth, Owned({1})) \in Int
  <2>1. /\ IsFiniteSet(OutputsOf({1})) /\ \A o \in OutputsOf({1}) : Worth[o] \in Int
        /\ Owned({1}) \subseteq OutputsOf({1})
    BY <1>1, <1>3, OutputsFinite DEF Owned
  <2>2. IsFiniteSet(Owned({1}))
    BY <2>1, FS_Subset
  <2>3. SumOf(Worth, Owned({1})) \in Int
    BY <2>1, <2>2, SumType
  <2> QED
    BY <2>3, TotalIsSum
<1> QED
  BY <1>3, <1>4, <1>5, <1>6 DEF MInv, OnlyFeesLeaveTheAddress

\* A printed transaction that is not mined moves no money.
LEMMA CreateMInv ==
  ASSUME IInv, MInv, NEW source \in 1..Len(txs), NEW path \in Paths,
         NEW address \in Addresses, NEW fee \in Fees,
         CreateTimestampTx(source, path, address, fee)
  PROVE  MInv'
<1>1. Typed /\ Typed' /\ Len(txs) \in Nat
  BY CreateIInv, LenProperties DEF IInv, Typed
<1>2. /\ Len(txs') = Len(txs) + 1 /\ \A i \in 1..Len(txs) : txs'[i] = txs[i]
      /\ mined' = mined /\ burnt' = burnt
  <2>1. PICK tx : txs' = Append(txs, tx)
    BY DEF CreateTimestampTx
  <2> QED
    BY <1>1, <2>1 DEF CreateTimestampTx, Typed
<1>3. mined \subseteq 1..Len(txs) /\ 1 \in mined /\ {1} \subseteq 1..Len(txs)
  BY DEF MInv, MinedInv
<1>4. MinedInv'
  BY <1>1, <1>2, <1>3 DEF MInv, MinedInv, Printed
<1>5. \A I \in SUBSET (1..Len(txs)) :
        OutputsOf(I)' = OutputsOf(I) /\ Owned(I)' = Owned(I)
  <2>1. \A I \in SUBSET (1..Len(txs)) : OutputsOf(I)' = OutputsOf(I)
    BY <1>2 DEF OutputsOf
  <2>2. \A I \in SUBSET (1..Len(txs)) : \A o \in OutputsOf(I) : txs'[o[1]] = txs[o[1]]
    BY <1>2 DEF OutputsOf
  <2> QED
    BY <2>1, <2>2 DEF Owned
<1>6. \A s, j : Spent(s, j)' <=> Spent(s, j)
  BY <1>2, <1>3 DEF Spent
<1>7. Unspent' = Unspent
  BY <1>2, <1>3, <1>5, <1>6 DEF Unspent
<1>8. ASSUME NEW S, S \subseteq OutputsOf(1..Len(txs))
      PROVE  SumOf(Worth', S) = SumOf(Worth, S)
  <2>1. IsFiniteSet(S)
    BY <1>1, <1>8, OutputsFinite, FS_Subset
  <2>2. \A o \in S : Worth'[o] = Worth[o]
    <3> SUFFICES ASSUME NEW o \in S PROVE Worth'[o] = Worth[o]
      OBVIOUS
    <3>1. o \in OutputsOf(1..Len(txs)) /\ o[1] \in 1..Len(txs)
      BY <1>8 DEF OutputsOf
    <3>2. o \in OutputsOf(1..Len(txs))'
      BY <1>1, <1>2, <3>1 DEF OutputsOf
    <3> QED
      BY <1>2, <3>1, <3>2 DEF Worth
  <2> HIDE DEF Worth
  <2> QED
    BY <2>1, <2>2, SumCongruence
<1>9. Unspent \subseteq OutputsOf(1..Len(txs)) /\ Owned({1}) \subseteq OutputsOf(1..Len(txs))
  BY <1>3 DEF Unspent, Owned, OutputsOf
<1>10. SumOf(Worth', Unspent') = SumOf(Worth, Unspent)
  BY <1>7, <1>8, <1>9
<1>11. SumOf(Worth', Owned({1})') = SumOf(Worth, Owned({1}))
  BY <1>3, <1>5, <1>8, <1>9
<1>12. OnlyFeesLeaveTheAddress'
  <2>1. SumOf(Worth, Unspent) + burnt = SumOf(Worth, Owned({1}))
    BY TotalIsSum DEF MInv, OnlyFeesLeaveTheAddress
  <2>2. Total(Worth', Unspent') = SumOf(Worth', Unspent') /\ Total(Worth', Owned({1})') = SumOf(Worth', Owned({1})')
    BY TotalIsSum
  <2> QED
    BY <1>2, <1>10, <1>11, <2>1, <2>2 DEF OnlyFeesLeaveTheAddress
<1> QED
  BY <1>4, <1>12 DEF MInv

\* What is mined takes one unspent output of the address and leaves it another,
\* worth the fee less.
LEMMA MineMInv ==
  ASSUME IInv, MInv, NEW i \in 1..Len(txs), Mine(i)
  PROVE  MInv'
<1> DEFINE tx   == txs[i]
           old  == <<tx.source, tx.index>>
           new  == <<i, 1>>
           v    == Spends(tx).value
           rest == Unspent \ {old}
<1>1. /\ i \notin mined /\ tx.source \in mined /\ ~Spent(tx.source, tx.index) /\ Sound(tx)
      /\ mined' = mined \cup {i} /\ burnt' = burnt + tx.fee /\ txs' = txs
  BY DEF Mine
<1>2. Typed /\ Len(txs) \in Nat
  BY LenProperties DEF IInv, Typed
<1>3. /\ mined \subseteq 1..Len(txs) /\ 1 \in mined /\ txs[1].source = 0 /\ burnt \in Int
      /\ \A k \in mined \cap Printed : txs[k].source \in mined
  BY DEF MInv, MinedInv
<1>4. i \in Printed /\ Printing(tx, i)
  BY <1>1, <1>2, <1>3 DEF IInv, Printed
<1>5. /\ tx.source \in 1..(i - 1) /\ tx.source \in 1..Len(txs)
      /\ tx.index \in 1..Len(txs[tx.source].outs)
      /\ tx.outs = <<Output(Spends(tx).script, v - tx.fee), Output(tx.fileHash, 0)>>
  BY <1>2, <1>4 DEF Printing
<1>6. tx \in Txs /\ tx.fee \in Int /\ tx.fileHash \in Contents \cup {""}
  <2>1. tx \in Txs
    BY <1>2, TxType
  <2> QED
    BY <2>1 DEF Txs
<1>7. Spends(tx).script = "ours" /\ v \in Int
  <2>1. Spends(tx) \in [script : Addresses \cup Contents, value : Int]
    BY <1>2, <1>5, TxType, ElementOfSeq DEF Spends, Outs
  <2> QED
    BY <1>1, <2>1 DEF Sound
<1>8. MinedInv'
  <2>1. burnt + tx.fee \in Int
    <3> DEFINE fee == tx.fee
    <3>1. fee \in Int /\ burnt \in Int
      BY <1>3, <1>6
    <3> HIDE DEF fee
    <3>2. burnt + fee \in Int
      BY <3>1
    <3> QED
      BY <3>2 DEF fee
  <2>2. mined \cup {i} \subseteq 1..Len(txs) /\ 1 \in mined \cup {i}
    BY <1>3
  <2>3. \A k \in (mined \cup {i}) \cap Printed : txs[k].source \in mined \cup {i}
    BY <1>1, <1>3
  <2> HIDE DEF tx
  <2> QED
    BY <1>1, <1>3, <2>1, <2>2, <2>3 DEF MinedInv, Printed
<1>9. old \in Unspent /\ Worth[old] = v
  <2>1. old \in OutputsOf(mined) /\ old \in OutputsOf(1..Len(txs))
    BY <1>1, <1>5 DEF OutputsOf
  <2>2. txs[old[1]].outs[old[2]] = Spends(tx)
    BY DEF Spends
  <2> QED
    BY <1>1, <1>7, <2>1, <2>2 DEF Unspent, Owned, Worth
<1>10. /\ Len(tx.outs) = 2 /\ tx.outs[1] = Output("ours", v - tx.fee)
       /\ tx.outs[2].script # "ours"
  <2>1. tx.outs = <<Output("ours", v - tx.fee), Output(tx.fileHash, 0)>>
    BY <1>5, <1>7
  <2>2. tx.fileHash # "ours"
    BY <1>6, TimestampAssumption DEF Addresses
  <2>3. Output(tx.fileHash, 0).script = tx.fileHash
    BY DEF Output
  <2> HIDE DEF tx
  <2> QED
    BY <2>1, <2>2, <2>3
<1>11. \A s, j : Spent(s, j)' <=> Spent(s, j) \/ <<s, j>> = old
  BY <1>1 DEF Spent
<1>12. \A j : ~Spent(i, j)'
  <2>1. i # tx.source
    BY <1>5
  <2>2. ASSUME NEW k \in mined, txs[k].source = i PROVE FALSE
    <3>1. k # 1
      BY <1>3, <2>2
    <3>2. k \in Printed
      BY <1>2, <1>3, <2>2, <3>1 DEF Printed
    <3> QED
      BY <1>1, <1>3, <2>2, <3>2
  <2>3. \A j : ~Spent(i, j)
    BY <2>2 DEF Spent
  <2>4. \A j : <<i, j>> # old
    BY <2>1
  <2> QED
    BY <1>11, <2>3, <2>4
<1>13. Owned(mined)' = Owned(mined) \cup {new}
  <2>1. OutputsOf(mined)' = OutputsOf(mined) \cup {<<i, 1>>, <<i, 2>>}
    <3>1. 1..Len(tx.outs) = {1, 2}
      BY <1>10
    <3>2. {i} \X (1..Len(txs[i].outs)) = {<<i, 1>>, <<i, 2>>}
      BY <3>1
    <3>3. OutputsOf(mined)' = OutputsOf(mined) \cup ({i} \X (1..Len(txs[i].outs)))
      BY <1>1 DEF OutputsOf
    <3> QED
      BY <3>2, <3>3
  <2>2. tx.outs[1].script = "ours" /\ tx.outs[2].script # "ours"
    BY <1>10 DEF Output
  <2>3. txs[new[1]].outs[new[2]] = tx.outs[1] /\ txs[i].outs[2] = tx.outs[2]
    OBVIOUS
  <2>4. \A o \in {<<i, 1>>, <<i, 2>>} : txs[o[1]].outs[o[2]].script = "ours" <=> o = new
    BY <2>2, <2>3
  <2> QED
    BY <1>1, <2>1, <2>4 DEF Owned
<1>14. Unspent' = rest \cup {new}
  <2>1. \A o \in Owned(mined) : o = <<o[1], o[2]>>
    BY DEF Owned, OutputsOf
  <2>2. \A o \in Owned(mined) : Spent(o[1], o[2])' <=> Spent(o[1], o[2]) \/ o = old
    BY <1>11, <2>1
  <2> QED
    BY <1>12, <1>13, <2>2 DEF Unspent
<1>15. /\ new \notin rest /\ Worth[new] = v - tx.fee
       /\ new \in OutputsOf(1..Len(txs)) /\ Unspent \subseteq OutputsOf(1..Len(txs))
  <2>1. new \in OutputsOf(1..Len(txs))
    BY <1>10 DEF OutputsOf
  <2>2. \A o \in Unspent : o[1] \in mined
    BY DEF Unspent, Owned, OutputsOf
  <2>3. Unspent \subseteq OutputsOf(1..Len(txs))
    BY <1>3 DEF Unspent, Owned, OutputsOf
  <2>4. Worth[new] = v - tx.fee
    BY <1>10, <2>1 DEF Worth, Output
  <2> QED
    BY <1>1, <2>1, <2>2, <2>3, <2>4
<1>16. /\ IsFiniteSet(Unspent) /\ IsFiniteSet(rest) /\ Worth' = Worth
       /\ \A o \in Unspent \cup {new} : Worth[o] \in Int
  <2>1. /\ IsFiniteSet(OutputsOf(1..Len(txs)))
        /\ \A o \in OutputsOf(1..Len(txs)) : Worth[o] \in Int
    BY <1>2, OutputsFinite
  <2>2. Worth' = Worth
    BY <1>1 DEF Worth, OutputsOf
  <2> QED
    BY <1>15, <2>1, <2>2, FS_Subset
<1> HIDE DEF old, new, rest, v, tx
<1>17. SumOf(Worth, Unspent) = Worth[old] + SumOf(Worth, rest)
  BY <1>9, <1>16, SumRemove DEF rest
<1>18. SumOf(Worth, rest \cup {new}) = SumOf(Worth, rest) + Worth[new]
  <2>1. \A o \in rest \cup {new} : Worth[o] \in Int
    BY <1>16 DEF rest
  <2> QED
    BY <1>15, <1>16, <2>1, SumAdd
<1>19. SumOf(Worth, rest) \in Int
  BY <1>16, SumType DEF rest
<1>20. SumOf(Worth, Unspent) + burnt = SumOf(Worth, Owned({1}))
  BY TotalIsSum DEF MInv, OnlyFeesLeaveTheAddress
<1>21. OnlyFeesLeaveTheAddress'
  <2>1. /\ Total(Worth', Unspent') = SumOf(Worth', Unspent')
        /\ Total(Worth', Owned({1})') = SumOf(Worth', Owned({1})')
    BY TotalIsSum
  <2>2. Owned({1})' = Owned({1})
    BY <1>1 DEF Owned, OutputsOf
  <2>3. Total(Worth', Unspent') = SumOf(Worth, rest) + Worth[new]
    BY <1>14, <1>16, <1>18, <2>1
  <2>4. Total(Worth', Owned({1})') = SumOf(Worth, Unspent) + burnt
    BY <1>16, <1>20, <2>1, <2>2
  <2> DEFINE a == SumOf(Worth, rest)
  <2>5. /\ Total(Worth', Unspent') = a + (v - tx.fee)
        /\ Total(Worth', Owned({1})') = v + a + burnt
        /\ burnt' = burnt + tx.fee /\ a \in Int /\ v \in Int /\ tx.fee \in Int /\ burnt \in Int
    BY <1>1, <1>3, <1>6, <1>7, <1>9, <1>15, <1>17, <1>19, <2>3, <2>4 DEF tx
  <2> HIDE DEF a
  <2>6. Total(Worth', Unspent') + burnt' = Total(Worth', Owned({1})')
    BY <2>5
  <2> QED
    BY <2>6 DEF OnlyFeesLeaveTheAddress
<1> QED
  BY <1>8, <1>21 DEF MInv

\* The address loses the fees of what was mined, and nothing else.
THEOREM OnlyFeesLeave == Spec => []OnlyFeesLeaveTheAddress
<1>1. IInv /\ MInv /\ [Next]_vars => MInv'
  <2> SUFFICES ASSUME IInv, MInv, [Next]_vars PROVE MInv'
    OBVIOUS
  <2>1. ASSUME UNCHANGED <<txs, mined, burnt>> PROVE MInv'
    <3>1. Worth' = Worth /\ Unspent' = Unspent /\ Owned({1})' = Owned({1})
      BY <2>1 DEF Unspent, Owned, OutputsOf, Worth, Spent
    <3> QED
      BY <2>1, <3>1 DEF MInv, MinedInv, Printed, OnlyFeesLeaveTheAddress
  <2>2. ASSUME NEW path \in Paths, NEW c \in Contents \cup {NoFile}, ChangeFile(path, c)
        PROVE  MInv'
    BY <2>1, <2>2 DEF ChangeFile
  <2>3. CASE UNCHANGED vars
    BY <2>1, <2>3 DEF vars
  <2> QED
    BY <2>2, <2>3, CreateMInv, MineMInv DEF Next
<1>2. MInv => OnlyFeesLeaveTheAddress
  BY DEF MInv
<1> QED
  BY <1>1, <1>2, InitMInv, Invariance, PTL DEF Spec
================================================================================

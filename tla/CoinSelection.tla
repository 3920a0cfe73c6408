------------------------------ MODULE CoinSelection ------------------------------
(* BtcClient.CreateAndSignTx (internal/btcclient/client.go): the wallet's       *)
(* outputs are listed once and taken largest first by a closure the btcwallet   *)
(* author resumes each time its fee estimate grows; meanwhile another user of   *)
(* the wallet may spend what was listed.                                        *)
EXTENDS Naturals, Sequences, FiniteSets, FiniteSetsExt, SequencesExt

CONSTANTS
  Utxos,     \* outputs of the wallet
  Amounts,   \* amounts they may have
  Targets,   \* sums of the outputs a caller may ask for
  Kinds,     \* script types the author tells apart: how much an input weighs
  Fee,       \* the author's fee, by how many inputs there are of each kind
  Dust       \* a change below this is left to the fee

ASSUME UtxosAssumption == IsFiniteSet(Utxos) /\ Utxos # {}

Counts == [Kinds -> 0..Cardinality(Utxos)]

\* An input that is added makes no transaction smaller.
ASSUME FeeAssumption ==
  /\ "p2wpkh" \in Kinds /\ Dust \in Nat
  /\ Fee \in [Counts -> Nat]
  /\ \A m, n \in Counts : (\A k \in Kinds : m[k] <= n[k]) => Fee[m] <= Fee[n]

\* No output holds less than nothing, nor does a caller ask for less.
ASSUME AmountsAssumption == Amounts \subseteq Nat /\ Targets \subseteq Nat

VARIABLES
  amount, kind, spendable,   \* what ListUnspent reports of each output
  target,              \* the sum of the outputs asked for
  spent,               \* outputs somebody else spent meanwhile
  pc,
  utxos,               \* the closure's list of outputs not taken yet
  currentTotal,        \* the closure's running total
  currentInputs,       \* the closure's inputs
  targetFee,           \* the author's estimate
  change               \* the change of the transaction authored

vars == <<amount, kind, spendable, target, spent, pc, utxos, currentTotal, currentInputs,
          targetFee, change>>

wallet == <<amount, kind, spendable, target>>

Orders(S) == {s \in [1..Cardinality(S) -> S] : \A i, j \in DOMAIN s : s[i] = s[j] => i = j}

\* EstimateVirtualSize(0, 0, 1, 0, ...): the author begins as if with one P2WPKH
\* input, whatever the wallet holds.
FirstEstimate == Fee[[k \in Kinds |-> IF k = "p2wpkh" THEN 1 ELSE 0]]

\* The author counts the scripts of the first n inputs by their kind.
CountInputs(n) ==
  [k \in Kinds |-> Cardinality({i \in 1..n : kind[currentInputs[i]] = k})]

\* Its fee for them.
FeeFor(n) == Fee[CountInputs(n)]

Init ==
  /\ amount \in [Utxos -> Amounts] /\ kind \in [Utxos -> Kinds]
  /\ spendable \in SUBSET Utxos /\ target \in Targets
  /\ spent = {}
  /\ pc = "list"
  /\ utxos = <<>> /\ currentTotal = 0 /\ currentInputs = <<>>
  /\ targetFee = FirstEstimate /\ change = 0

\* Somebody else's transaction takes an output.
SpendElsewhere(u) ==
  /\ u \notin spent
  /\ spent' = spent \cup {u}
  /\ UNCHANGED <<wallet, pc, utxos, currentTotal, currentInputs, targetFee, change>>

\* resultsToUtxos(results, true)
Usable == {u \in Utxos \ spent : u \in spendable}

\* Mutant: smallest first.
SortsSmallest(j, k) == amount[j] <= amount[k]

\* sort.Reverse(byAmount(utxos)); the sort is not stable.
SortsBefore(j, k) == amount[j] >= amount[k]

\* ListUnspent, the filter, the sort; there must be something to spend.
CreateTransaction ==
  /\ pc = "list"
  /\ pc' = IF Usable = {} THEN "no utxo" ELSE "fetch"
  /\ \E s \in Orders(Usable) :
       /\ \A i, j \in DOMAIN s : i < j => SortsBefore(s[i], s[j])
       /\ utxos' = s
  /\ UNCHANGED <<wallet, spent, currentTotal, currentInputs, targetFee, change>>

Wanted == target + targetFee

\* One turn of the closure's loop.
TakeCredit ==
  /\ pc = "fetch" /\ currentTotal < Wanted /\ utxos # <<>>
  /\ currentTotal' = currentTotal + amount[Head(utxos)]
  /\ currentInputs' = Append(currentInputs, Head(utxos))
  /\ utxos' = Tail(utxos)
  /\ UNCHANGED <<wallet, spent, pc, targetFee, change>>

\* Mutants: a closure that forgets its total, or its place in the list, between
\* calls.
ForgetsTotal   == currentTotal' = 0 /\ UNCHANGED <<utxos, currentInputs>>
ForgetsPlace   == /\ utxos' = currentInputs \o utxos
                  /\ UNCHANGED <<currentTotal, currentInputs>>

\* currentTotal, currentInputs and utxos outlive a call of the closure.
ClosureKeeps == UNCHANGED <<currentTotal, currentInputs, utxos>>

\* What the closure returned is less than the author asked for.
Insufficient ==
  /\ pc = "fetch" /\ utxos = <<>> /\ currentTotal < Wanted
  /\ pc' = "insufficient"
  /\ UNCHANGED <<wallet, spent, utxos, currentTotal, currentInputs, targetFee, change>>

\* It covers the estimate but not the fee of these inputs: the author asks again.
FetchAgain ==
  /\ pc = "fetch" /\ currentTotal >= Wanted
  /\ currentTotal - target < FeeFor(Len(currentInputs))
  /\ targetFee' = FeeFor(Len(currentInputs))
  /\ ClosureKeeps
  /\ UNCHANGED <<wallet, spent, pc, change>>

Author ==
  LET rest == currentTotal - target - FeeFor(Len(currentInputs)) IN
  /\ pc = "fetch" /\ currentTotal >= Wanted
  /\ currentTotal - target >= FeeFor(Len(currentInputs))
  /\ change' = IF rest >= Dust THEN rest ELSE 0
  /\ pc' = "sign"
  /\ UNCHANGED <<wallet, spent, utxos, currentTotal, currentInputs, targetFee>>

Inputs == {currentInputs[i] : i \in 1..Len(currentInputs)}

\* signrawtransactionwithwallet signs only inputs that are still there.
Signed == Inputs \cap spent = {}

SignRawTransaction ==
  /\ pc = "sign"
  /\ pc' = IF Signed THEN "ok" ELSE "not signed"
  /\ UNCHANGED <<wallet, spent, utxos, currentTotal, currentInputs, targetFee, change>>

\* The call returned its transaction or an error.
Returned == pc \in {"no utxo", "insufficient", "not signed", "ok"} /\ UNCHANGED vars

Next ==
  \/ CreateTransaction \/ TakeCredit \/ Insufficient \/ FetchAgain \/ Author
  \/ SignRawTransaction \/ Returned
  \/ \E u \in Utxos : SpendElsewhere(u)

Spec == Init /\ [][Next]_vars
--------------------------------------------------------------------------------
AmountOf(S) == MapThenSumSet(LAMBDA u : amount[u], S)
Listed      == Inputs \cup {utxos[i] : i \in 1..Len(utxos)}

\* However often the author resumed the closure, no output is an input twice, and
\* none that was listed is lost.
EachInputOnce ==
  pc \in {"fetch", "sign"} =>
    /\ Len(currentInputs) = Cardinality(Inputs)
    /\ Len(currentInputs) + Len(utxos) = Cardinality(Listed)

\* What the inputs are really worth pays the outputs, the change and a fee that is
\* right for their kinds: never less, and more only by a change that is dust.
PaysTheRightFee ==
  pc = "sign" =>
    LET fee == AmountOf(Inputs) - target - change IN
    /\ AmountOf(Inputs) >= target + change
    /\ fee \in FeeFor(Len(currentInputs)) .. FeeFor(Len(currentInputs)) + Dust

\* What the author asks for, at least, once it has n inputs.
Estimate(n) == IF FeeFor(n) > FirstEstimate THEN FeeFor(n) ELSE FirstEstimate

\* "Largest inputs first": a caller is told that funds are missing only if no
\* choice of the listed outputs, of any number n, is worth the target and what
\* the author asks for the n largest.  If a choice would have paid, its inputs are
\* of cheaper kinds than as many largest ones, or it pays less than the first estimate.
RefusesOnlyWhatLargestCannotPay ==
  pc = "insufficient" =>
    \A S \in SUBSET Listed : AmountOf(S) < target + Estimate(Cardinality(S))
================================================================================

------------------------------- MODULE WitnessGen -------------------------------
(* CreateUnbondingTxWitness: the signatures a quorum of covenant members sent, *)
(* in order of arrival, become the stack the covenant script consumes.  A      *)
(* public key is a nonzero integer: its absolute value stands for the x-only   *)
(* bytes and its sign for the parity a compressed encoding adds.  A signature  *)
(* is the x-only key it verifies for.                                          *)
EXTENDS Integers, Sequences, FiniteSets

XOnly(k) == IF k < 0 THEN -k ELSE k
NoSig    == 0

\* Mutant: keys compared with their parity byte.
CompressedBefore(j, k) ==
  IF (j < 0) = (k < 0) THEN XOnly(j) > XOnly(k) ELSE j < 0

\* bytes.Compare(keyIBytes, keyJBytes) == 1 on x-only keys: larger keys first.
SortsBefore(j, k) == XOnly(j) > XOnly(k)

\* sort.SliceStable: the place of an element is one more than how many go before
\* it, those that compare as equal in the order they had.
Stable(infos, Before(_, _)) ==
  LET GoesBefore(i, j) == \/ Before(infos[i], infos[j])
                          \/ ~Before(infos[j], infos[i]) /\ i < j
      Place(j) == 1 + Cardinality({i \in 1..Len(infos) : GoesBefore(i, j)})
  IN  [p \in 1..Len(infos) |-> infos[CHOOSE j \in 1..Len(infos) : Place(j) = p]]

SortPubKeysForWitness(infos) == Stable(infos, SortsBefore)

\* Mutant: the loop stops one key short.
SlotsShort(sorted, signatureOf) ==
  [i \in 1..Len(sorted) |->
     IF i < Len(sorted) /\ XOnly(sorted[i]) \in DOMAIN signatureOf
     THEN signatureOf[XOnly(sorted[i])] ELSE NoSig]

\* One slot for each key, nil where no signature was received.
Slots(sorted, signatureOf) ==
  [i \in 1..Len(sorted) |->
     IF XOnly(sorted[i]) \in DOMAIN signatureOf THEN signatureOf[XOnly(sorted[i])] ELSE NoSig]

\* The map from x-only key to signature: the last pair of a key wins.
ReceivedSignatures(pairs) ==
  [x \in {XOnly(pairs[i].key) : i \in 1..Len(pairs)} |->
     LET last == CHOOSE i \in 1..Len(pairs) :
                   /\ XOnly(pairs[i].key) = x
                   /\ \A j \in (i + 1)..Len(pairs) : XOnly(pairs[j].key) # x
     IN  pairs[last].sig]

CreateWitnessSignaturesForPubKeys(keys, pairs) ==
  Slots(SortPubKeysForWitness(keys), ReceivedSignatures(pairs))
--------------------------------------------------------------------------------
(* The covenant script of btcstaking, outside this repository.                 *)

Ascends(j, k) == XOnly(j) < XOnly(k)

\* <k1> OP_CHECKSIG <k2> OP_CHECKSIGADD ... <quorum> OP_NUMEQUAL over the keys in
\* ascending order: each key takes the top of the stack, an empty element counts
\* nothing, a signature that does not verify fails the script, and so does a
\* stack that is too short or not used up.
ScriptAccepts(keys, n, stack) ==
  LET ascending == Stable(keys, Ascends)
      taken(i)  == stack[Len(stack) + 1 - i]
  IN  /\ Len(stack) = Len(keys)
      /\ \A i \in 1..Len(keys) : taken(i) \in {NoSig, XOnly(ascending[i])}
      /\ Cardinality({i \in 1..Len(keys) : taken(i) # NoSig}) = n
================================================================================

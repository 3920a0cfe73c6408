---------------------------- MODULE CovenantSigning ----------------------------
(* One call of signUnbondingTransaction: a goroutine per covenant key asks a   *)
(* remote signer, verifies the answer, counts it and puts the result on a      *)
(* buffered channel; the caller takes exactly one result per key.              *)
EXTENDS Naturals, Sequences, FiniteSets

CONSTANTS
  Keys,    \* params.CovenantPublicKeys
  Quorum   \* params.CovenantQuorum

ASSUME CommitteeAssumption ==
  IsFiniteSet(Keys) /\ Quorum \in Nat \ {0} /\ Quorum <= Cardinality(Keys)

VARIABLES
  signers,     \* RemoteSigner.pkToUrlMap; whoever made the signer wrote it
  worker,      \* where the goroutine of each key is
  reply,       \* what each signer answered
  counted,     \* the metric each goroutine incremented
  chan,        \* resultChan
  received,    \* results taken from it
  signatures,  \* valid signatures in order of arrival
  outcome      \* what the call returned

vars == <<worker, reply, counted, chan, received, signatures, outcome>>

Pending == [done |-> FALSE, err |-> FALSE, sigs |-> <<>>]
Workers == {"unstarted", "requesting", "verifying", "sending", "done"}
Replies == {"error", "forged", "signed"}
Results == [key : Keys, ok : BOOLEAN]

\* Mutant: a channel with room for a quorum of results.
QuorumCapacity == Quorum

\* make(chan *SignResult, len(params.CovenantPublicKeys))
Capacity == Cardinality(Keys)

Init ==
  /\ worker = [k \in Keys |-> "unstarted"]
  /\ reply = [k \in Keys |-> "none"]
  /\ counted = [k \in Keys |-> "none"]
  /\ chan = <<>> /\ received = 0 /\ signatures = <<>>
  /\ outcome = Pending

\* go up.requestSigFromCovenant(...): goroutines run while the loop still spawns.
Spawn(k) ==
  /\ worker[k] = "unstarted"
  /\ worker' = [worker EXCEPT ![k] = "requesting"]
  /\ UNCHANGED <<reply, counted, chan, received, signatures, outcome>>

\* Mutant: a failed request is not counted.
FailureUncounted(k, r) == UNCHANGED counted

CountFailure(k, r) ==
  counted' = IF r = "error" THEN [counted EXCEPT ![k] = "failed"] ELSE counted

\* Mutant: a request that fails is made again.
RetryOnError(r) == IF r = "error" THEN "requesting" ELSE "verifying"

AfterRequest(r) == IF r = "error" THEN "sending" ELSE "verifying"

\* RemoteSigner.SignUnbondingTransaction: no URL, no connection, a refusal and
\* the request timeout are errors; what is returned is attributed to the key asked.
Request(k) ==
  /\ worker[k] = "requesting"
  /\ \E r \in IF k \in DOMAIN signers THEN Replies ELSE {"error"} :
       /\ reply' = [reply EXCEPT ![k] = r]
       /\ CountFailure(k, r)
       /\ worker' = [worker EXCEPT ![k] = AfterRequest(r)]
  /\ UNCHANGED <<chan, received, signatures, outcome>>

\* VerifyTransactionSigWithOutput.
Verifies(k) == reply[k] = "signed"

Verify(k) ==
  /\ worker[k] = "verifying"
  /\ counted' = [counted EXCEPT ![k] = IF Verifies(k) THEN "success" ELSE "failed"]
  /\ worker' = [worker EXCEPT ![k] = "sending"]
  /\ UNCHANGED <<reply, chan, received, signatures, outcome>>

\* resultChan <- &res, the last thing the goroutine does.
Put(k) ==
  /\ worker[k] = "sending"
  /\ Len(chan) < Capacity
  /\ chan' = Append(chan, [key |-> k, ok |-> counted[k] = "success"])
  /\ worker' = [worker EXCEPT ![k] = "done"]
  /\ UNCHANGED <<reply, counted, received, signatures, outcome>>

\* Mutant: the loop ends as soon as it has a quorum.
EnoughResultsEarly == Len(signatures) >= Quorum \/ received = Cardinality(Keys)

\* for i := 0; i < len(params.CovenantPublicKeys); i++
EnoughResults == received = Cardinality(Keys)

\* Mutants: a failed result is appended too, a nil that is no key, and nothing
\* beyond a quorum is kept.
KeptNil(res) == Append(signatures, IF res.ok THEN res.key ELSE 0)
KeptUntilQuorum(res) ==
  IF res.ok /\ Len(signatures) < Quorum THEN Append(signatures, res.key) ELSE signatures

\* A result with an error is skipped.
Kept(res) == IF res.ok THEN Append(signatures, res.key) ELSE signatures

Receive ==
  /\ \A k \in Keys : worker[k] # "unstarted"
  /\ ~outcome.done /\ ~EnoughResults
  /\ chan # <<>>
  /\ chan' = Tail(chan)
  /\ received' = received + 1
  /\ signatures' = Kept(Head(chan))
  /\ UNCHANGED <<worker, reply, counted, outcome>>

\* Mutant: an exact quorum is refused.
TooFewStrict == Len(signatures) <= Quorum

TooFew == Len(signatures) < Quorum

\* Mutant: all signatures are returned.
ReturnedAll == signatures

\* signatures[:params.CovenantQuorum]
Returned == SubSeq(signatures, 1, Quorum)

Return ==
  /\ EnoughResults /\ ~outcome.done
  /\ outcome' = [done |-> TRUE, err |-> TooFew, sigs |-> IF TooFew THEN <<>> ELSE Returned]
  /\ UNCHANGED <<worker, reply, counted, chan, received, signatures>>

Goroutine(k) == Request(k) \/ Verify(k) \/ Put(k)
Caller       == Receive \/ Return \/ \E k \in Keys : Spawn(k)

\* The call is over once it returned and its goroutines ended.
Terminated == outcome.done /\ (\A k \in Keys : worker[k] = "done") /\ UNCHANGED vars

Next == Caller \/ Terminated \/ \E k \in Keys : Goroutine(k)

\* The scheduler runs every goroutine; a request answers or times out.
Fairness == WF_vars(Caller) /\ \A k \in Keys : WF_vars(Goroutine(k))

Spec == Init /\ [][Next]_vars /\ Fairness
--------------------------------------------------------------------------------
Keyed(s) == {s[i] : i \in 1..Len(s)}

TypeOK ==
  /\ worker \in [Keys -> Workers]
  /\ reply \in [Keys -> Replies \cup {"none"}]
  /\ counted \in [Keys -> {"none", "success", "failed"}]
  /\ chan \in Seq(Results) /\ signatures \in Seq(Keys) /\ received \in Nat
  /\ outcome \in [done : BOOLEAN, err : BOOLEAN, sigs : Seq(Keys)]

\* No goroutine ever waits to put its result: there is room for one per key, and
\* the caller may still be starting goroutines.
PutNeverBlocks ==
  \A k \in Keys : worker[k] = "sending" => Len(chan) < Capacity

\* Every valid signature that was counted is either on its way to the caller or
\* held by it, once; nothing else is.
NoSignatureLost ==
  LET onChannel == {i \in 1..Len(chan) : chan[i].ok}
      counting  == {k \in Keys : counted[k] = "success" /\ worker[k] = "sending"}
  IN  /\ Cardinality({k \in Keys : counted[k] = "success"})
           = Len(signatures) + Cardinality(onChannel) + Cardinality(counting)
      /\ Cardinality(Keyed(signatures)) = Len(signatures)

\* What is returned is a quorum of distinct keys whose signers really signed,
\* never more and never fewer (OP_NUMEQUAL).
ReturnsExactQuorum ==
  outcome.done /\ ~outcome.err =>
    /\ Len(outcome.sigs) = Quorum
    /\ Cardinality(Keyed(outcome.sigs)) = Quorum
    /\ \A k \in Keyed(outcome.sigs) : reply[k] = "signed"

\* An error is returned only when fewer than a quorum signed, however late the
\* last of them answered.
ErrorMeansTooFew ==
  outcome.err => Cardinality({k \in Keys : reply[k] = "signed"}) < Quorum

\* When the call returns, its goroutines have ended, nothing is left on the
\* channel and every request was counted once, as what it was.
NothingLeftBehind ==
  outcome.done =>
    /\ chan = <<>>
    /\ \A k \in Keys :
         /\ worker[k] = "done"
         /\ counted[k] = IF reply[k] = "signed" THEN "success" ELSE "failed"

Contract == INSTANCE SigningContract WITH
              outcome <- [err |-> outcome.err, keys |-> Keyed(outcome.sigs)]

ContractSpec == Contract!Spec
================================================================================

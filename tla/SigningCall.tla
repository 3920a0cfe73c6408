------------------------------ MODULE SigningCall ------------------------------
(* From the configuration file to the covenant part of a witness: the command  *)
(* reads its signers, asks them for the signatures of one transaction, and     *)
(* builds the witness from what the call returned.                             *)
EXTENDS CovenantSigning, WitnessGen, SequencesExt

CONSTANTS OperatorFiles, DumpKey, RunKey

\* Nobody holds the default keys, which the processes made up.
ASSUME DefaultKeysAssumption == DumpKey \notin Keys /\ RunKey \notin Keys

\* A public key has x-only bytes, and no two members of a committee share them:
\* btcstaking builds no script of a list that repeats a key, and the pipeline
\* builds the script (CreateUnbondingPathSpendInfo) before it asks for signatures.
ASSUME KeysAssumption ==
  /\ Keys \subseteq Int \ {NoSig}
  /\ \A j, k \in Keys : XOnly(j) = XOnly(k) => j = k

ASSUME OperatorFilesAssumption ==
  \A settings \in OperatorFiles :
    "urls" \in DOMAIN settings => Len(settings.urls) \in Nat

VARIABLES
  file, dump, startup,   \* Configuration's
  built                  \* the committee as the parameters list it, the witness of it

Config == INSTANCE Configuration

callVars == <<vars, signers, file, dump, startup, built>>

NotBuilt == [committee |-> <<>>, witness |-> <<>>]

CallInit == Init /\ Config!Init /\ built = NotBuilt

Configure == Config!Next /\ UNCHANGED <<vars, built>>

Sign == startup = "ok" /\ Next /\ UNCHANGED <<signers, file, dump, startup, built>>

\* A verified signature is the x-only key it verifies for.
PubKeySigPairs(keys) ==
  [i \in 1..Len(keys) |-> [key |-> keys[i], sig |-> XOnly(keys[i])]]

\* CreateUnbondingTxWitness; the parameters may list the keys in any order.
CreateUnbondingTxWitness ==
  /\ outcome.done /\ ~outcome.err /\ built = NotBuilt
  /\ \E committee \in SetToSeqs(Keys) :
       built' = [committee |-> committee,
                 witness |-> CreateWitnessSignaturesForPubKeys(
                               committee, PubKeySigPairs(outcome.sigs))]
  /\ UNCHANGED <<vars, signers, file, dump, startup>>

\* The command did not start.
Over == startup \in {"error", "panic"} /\ UNCHANGED callVars

CallNext == Configure \/ Sign \/ CreateUnbondingTxWitness \/ Over

CallFairness ==
  /\ WF_vars(startup = "ok" /\ Caller)
  /\ \A k \in Keys : WF_vars(startup = "ok" /\ Goroutine(k))

CallSpec == CallInit /\ [][CallNext]_callVars /\ CallFairness
--------------------------------------------------------------------------------
\* The host that the last URL of the key names.
Names(urls, k, host) ==
  \E i \in 1..Len(urls) :
    /\ urls[i].user = k /\ Config!Host(urls[i]) = host
    /\ \A j \in 1..Len(urls) : urls[j].user = k => j <= i

\* A quorum was returned only if one file of the operator names every key of it,
\* the same parity included, at the host that was asked: no dump, finished or cut
\* short before or after the operator's edit, and no default stands in for it.
SignedWhereConfigured ==
  outcome.done /\ ~outcome.err =>
    \E settings \in OperatorFiles :
      /\ "urls" \in DOMAIN settings
      /\ \A k \in Keyed(outcome.sigs) : Names(settings.urls, k, signers[k])

\* Whatever the order of the parameters file and of the answers, the witness
\* satisfies the script: the descending sort here, the ascending one there and
\* the nil slots fit together.
WitnessSatisfiesScript ==
  built # NotBuilt => ScriptAccepts(built.committee, Quorum, built.witness)

\* So it is for every committee and every quorum: whoever answered, in whatever
\* order, and however a committee they all belong to is listed, their signatures
\* make a witness for a script that asks for that many.
WitnessOfAnyCommittee ==
  outcome.done /\ built = NotBuilt =>
    \A committee \in {C \in SUBSET Keys : C # {} /\ Keyed(signatures) \subseteq C} :
      \A listed \in SetToSeqs(committee) :
        ScriptAccepts(listed, Len(signatures),
                      CreateWitnessSignaturesForPubKeys(listed, PubKeySigPairs(signatures)))

\* A call that is made always returns: a signer that is slow or down delays it
\* by its request's timeout, no more.
Returns == startup = "ok" ~> outcome.done
================================================================================

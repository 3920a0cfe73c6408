--------------------------- MODULE UnbondingLifecycle ---------------------------
(* What the two unbonding commands promise about one document, without runs,   *)
(* queues, signers or failures: a document is written INSERTED once, its       *)
(* unbonding transaction reaches the network only while the document is still  *)
(* pending, SEND is written only after the network took that transaction,      *)
(* INPUT_ALREADY_SPENT only after the staking output was spent, and neither is *)
(* ever overwritten.  UnbondingPipeline implements it.                         *)
EXTENDS UnbondingStates

CONSTANT Docs

VARIABLES
  status,     \* the state field of each document
  accepted,   \* documents whose unbonding transaction the network took
  gone,       \* documents whose staking output another transaction spends
  spent       \* documents whose staking output has been spent, now or before

vars == <<status, accepted, gone, spent>>

Init ==
  /\ status = [d \in Docs |-> Absent]
  /\ accepted = {}
  /\ gone = {}
  /\ spent = {}

\* UnbondingStore.AddTxWithSignature: the staking API writes the document.
AddTx(d) ==
  /\ status[d] = Absent
  /\ status' = [status EXCEPT ![d] = Inserted]
  /\ UNCHANGED <<accepted, gone, spent>>

Accept(d) ==
  /\ status[d] \in Pending
  /\ d \notin gone
  /\ accepted' = accepted \cup {d}
  /\ spent' = spent \cup {d}
  /\ UNCHANGED <<status, gone>>

SpendElsewhere(d) ==
  /\ gone' = gone \cup {d}
  /\ spent' = spent \cup {d}
  /\ UNCHANGED <<status, accepted>>

\* The network drops the other transaction.
Release(d) ==
  /\ gone' = gone \ {d}
  /\ UNCHANGED <<status, accepted, spent>>

\* SetUnbondingTransactionProcessed.
SetProcessed(d) ==
  /\ status[d] \in Pending
  /\ d \in accepted
  /\ status' = [status EXCEPT ![d] = Send]
  /\ UNCHANGED <<accepted, gone, spent>>

\* SetUnbondingTransactionInputAlreadySpent.
SetAlreadySpent(d) ==
  /\ status[d] \in Pending
  /\ d \in spent
  /\ status' = [status EXCEPT ![d] = InputAlreadySpent]
  /\ UNCHANGED <<accepted, gone, spent>>

\* SetUnbondingTransactionProcessingFailed and ...FailedToGetCovenantSignatures.
SetFailed(d) ==
  /\ status[d] \in Pending
  /\ \E s \in {Failed, FailedToGetCovenantSignatures} :
       status' = [status EXCEPT ![d] = s]
  /\ UNCHANGED <<accepted, gone, spent>>

Next ==
  \E d \in Docs :
    \/ AddTx(d) \/ Accept(d) \/ SpendElsewhere(d) \/ Release(d)
    \/ SetProcessed(d) \/ SetAlreadySpent(d) \/ SetFailed(d)

Spec == Init /\ [][Next]_vars
================================================================================

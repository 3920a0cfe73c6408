---------------------------- MODULE UnbondingPipeline ----------------------------
(* The two commands of the unbonding pipeline                                  *)
(* (internal/services/unbonding_pipeline.go) over one document collection and  *)
(* one bitcoin node.  Every remote call is a step of its own: a run works on   *)
(* the list it fetched and on what it last read, while other runs, the staking *)
(* API and the network go on.  A call that fails, a reply that is lost and a   *)
(* process that dies are faults; MaxFaults bounds their number.                *)
EXTENDS UnbondingStates, Naturals, FiniteSets

CONSTANTS
  Docs,          \* documents, named by their _id: ascending _id is list order
  NewRuns,       \* processes of "unbond"              (ProcessNewTransactions)
  FailedRuns,    \* processes of "process-failed-tx"   (ProcessFailedTransactions)
  Keys,          \* covenant public keys
  Params,        \* global parameters: version -> [from, keys, quorum]
  Height,        \* inclusion height of what each unbonding input spends, 0: not in chain
  Output,        \* what each stored staking output's script was built from
  StoredLock,    \* StakingTimelock of each document, 64 bits wide
  Malformed,     \* documents documentToData cannot decode
  OutOfRange,    \* documents without the staking output, or any unbonding input
  Unacceptable,  \* documents whose unbonding transaction no node relays
  MaxFaults

Procs    == NewRuns \cup FailedRuns
NoDoc    == 0
Scripts  == [keys : SUBSET Keys, quorum : Nat, lock : Nat]
NoScript == [keys |-> {}, quorum |-> 0, lock |-> 0]

ASSUME DocsAssumption == Docs \subseteq Nat \ {NoDoc}

\* A collection and a committee have finitely many members.
ASSUME FiniteAssumption == IsFiniteSet(Docs) /\ IsFiniteSet(Keys)

ASSUME RunsAssumption == NewRuns \cap FailedRuns = {}

\* What parsing the global parameters file guarantees: versions start at
\* different heights and every committee can reach its quorum.
ASSUME ParamsAssumption ==
  /\ \A v \in DOMAIN Params :
       /\ Params[v] \in [from : Nat, keys : SUBSET Keys, quorum : Nat \ {0}]
       /\ Params[v].quorum <= Cardinality(Params[v].keys)
  /\ \A v, w \in DOMAIN Params : Params[v].from = Params[w].from => v = w

ASSUME DataAssumption ==
  /\ Height \in [Docs -> Nat]
  /\ Output \in [Docs -> Scripts]
  /\ StoredLock \in [Docs -> Nat]
  /\ MaxFaults \in Nat

VARIABLES
  status,    \* UnbondingDocument.State of each document
  utxo,      \* the staking output of each document, as the node sees it
  accepted,  \* history: documents whose unbonding transaction the node took
  run,       \* the state of each process
  faults     \* faults so far

vars == <<status, utxo, accepted, run, faults>>

\* "unspent": never spent; "freed": what had spent it is gone again.
Utxos    == {"unspent", "mempool", "block", "other", "freed"}
PCs      == {"idle", "fetch", "next", "sign", "check", "send", "mark"}
Outcomes == {"none"} \cup (States \ {Inserted})
Results  == {"none", "ok", "error", "critical", "panic", "crash"}

Runs == [pc : PCs, queue : Pending, todo : SUBSET Docs, batch : SUBSET Docs,
         doc : Docs \cup {NoDoc}, params : Scripts, sigs : SUBSET Keys,
         outcome : Outcomes, result : Results]

\* The first list each command fetches.
FirstQueue(p) ==
  IF p \in NewRuns THEN Inserted ELSE FailedToGetCovenantSignatures

\* A record that holds no document.
Fresh(pc, queue, result) ==
  [pc |-> pc, queue |-> queue, todo |-> {}, batch |-> {}, doc |-> NoDoc,
   params |-> NoScript, sigs |-> {}, outcome |-> "none", result |-> result]

Idle(p, result) == Fresh("idle", FirstQueue(p), result)

Exit(p, result) == run' = [run EXCEPT ![p] = Idle(p, result)]

Fault == faults < MaxFaults /\ faults' = faults + 1

Init ==
  /\ status = [d \in Docs |-> Absent]
  /\ utxo = [d \in Docs |-> "unspent"]
  /\ accepted = {}
  /\ run = [p \in Procs |-> Idle(p, "none")]
  /\ faults = 0
--------------------------------------------------------------------------------
(* The staking API and the network.                                            *)

\* SaveUnbondingDocument: documents are written in state INSERTED only.
SaveUnbondingDocument(d) ==
  /\ status[d] = Absent
  /\ status' = [status EXCEPT ![d] = Inserted]
  /\ UNCHANGED <<utxo, accepted, run, faults>>

\* Another transaction takes the staking output: the staker withdrew it, or
\* somebody replaced the unbonding transaction before it was mined.
SpendElsewhere(d) ==
  /\ Height[d] > 0
  /\ utxo[d] \in {"unspent", "freed", "mempool"}
  /\ utxo' = [utxo EXCEPT ![d] = "other"]
  /\ UNCHANGED <<status, accepted, run, faults>>

Mine(d) ==
  /\ utxo[d] = "mempool"
  /\ utxo' = [utxo EXCEPT ![d] = "block"]
  /\ UNCHANGED <<status, accepted, run, faults>>

\* The node drops the transaction that spends the output.
Evict(d) ==
  /\ Fault
  /\ utxo[d] \in {"mempool", "other"}
  /\ utxo' = [utxo EXCEPT ![d] = "freed"]
  /\ UNCHANGED <<status, accepted, run>>

\* A reorganisation returns the unbonding transaction to the mempool.
Reorganise(d) ==
  /\ Fault
  /\ utxo[d] = "block"
  /\ utxo' = [utxo EXCEPT ![d] = "mempool"]
  /\ UNCHANGED <<status, accepted, run>>
--------------------------------------------------------------------------------
(* Fetching a list.                                                            *)

Start(p) ==
  /\ run[p].pc = "idle"
  /\ run' = [run EXCEPT ![p] = Fresh("fetch", FirstQueue(p), "none")]
  /\ UNCHANGED <<status, utxo, accepted, faults>>

\* Mutants: a find without its filter, and one for every pending state.
ListedUnfiltered(s) == {d \in Docs : status[d] # Absent}
ListedPending(s)    == {d \in Docs : status[d] \in Pending}

\* findUnbondingDocumentsWithState: the filter on the state field.
Listed(s) == {d \in Docs : status[d] = s}

\* transformDocuments: the list is usable only if every document decodes.
Fetch(p) ==
  LET list == Listed(run[p].queue) IN
  /\ run[p].pc = "fetch"
  /\ list \cap Malformed = {}
  /\ run' = [run EXCEPT ![p].pc = "next", ![p].todo = list, ![p].batch = list]
  /\ UNCHANGED <<status, utxo, accepted, faults>>

FetchMalformed(p) ==
  /\ run[p].pc = "fetch"
  /\ Listed(run[p].queue) \cap Malformed # {}
  /\ Exit(p, "error")
  /\ UNCHANGED <<status, utxo, accepted, faults>>

FetchFails(p) ==
  /\ Fault
  /\ run[p].pc = "fetch"
  /\ Exit(p, "error")
  /\ UNCHANGED <<status, utxo, accepted>>

\* Mutant: the list of failed sends is never reached.
LastQueueShort(p) == TRUE

\* Mutant: the loop over the two lists starts over instead of ending.
LastQueueLoops(p) == run[p].queue = Inserted

LastQueue(p) == run[p].queue # FailedToGetCovenantSignatures

\* ProcessFailedTransactions fetches its second list after the first is done.
NextQueue(p) ==
  /\ run[p].pc = "next" /\ run[p].todo = {}
  /\ ~LastQueue(p)
  /\ run' = [run EXCEPT ![p] = Fresh("fetch", Failed, "none")]
  /\ UNCHANGED <<status, utxo, accepted, faults>>

Finish(p) ==
  /\ run[p].pc = "next" /\ run[p].todo = {}
  /\ LastQueue(p)
  /\ Exit(p, "ok")
  /\ UNCHANGED <<status, utxo, accepted, faults>>
--------------------------------------------------------------------------------
(* One iteration of processUnbondingTransactions.                              *)

\* The iteration begins with the oldest document of the list.
Takes(p, d) ==
  /\ run[p].pc = "next"
  /\ d \in run[p].todo
  /\ \A e \in run[p].todo : d <= e

\* ParamsByHeight: the last version active at a height, none below the first.
ParamsByHeight(h) ==
  {v \in DOMAIN Params :
     /\ Params[v].from <= h
     /\ \A w \in DOMAIN Params : Params[w].from <= h => Params[w].from <= Params[v].from}

\* documentToData: uint16(d.StakingTimelock).
DecodedLock(d) == StoredLock[d] % 65536

\* The staking script: the committee and quorum are the parameters', the lock time
\* is the document's.
Rebuilt(v, d) ==
  [keys |-> Params[v].keys, quorum |-> Params[v].quorum, lock |-> DecodedLock(d)]

\* Mutant: the rebuilt output is compared by its value only.
SameValueOnly(c, d) == TRUE

\* outputsAreEqual: committee, quorum and lock time are part of the script.
OutputsAreEqual(c, d) == c = Output[d]

\* TxByHash answers only for a transaction that is in the chain.  It is asked for
\* the one the unbonding input names: nothing compares that with the document's
\* staking transaction, whose output is rebuilt.
TxByHash(d) == {h \in {Height[d]} : h > 0}

\* The outputs rebuilt from the parameters at the staking transaction's height:
\* one, or none if a lookup fails.
Recovered(d) == {Rebuilt(v, d) : v \in UNION {ParamsByHeight(h) : h \in TxByHash(d)}}

Lookup(p, d) ==
  /\ Takes(p, d) /\ d \notin OutOfRange
  /\ \E c \in Recovered(d) :
       /\ OutputsAreEqual(c, d)
       /\ run' = [run EXCEPT ![p].pc = "sign", ![p].doc = d, ![p].params = c,
                             ![p].todo = @ \ {d}]
  /\ UNCHANGED <<status, utxo, accepted, faults>>

\* Transaction not in chain, no parameters for its height, or a staking output that
\* differs from the one rebuilt (or cannot be rebuilt): ErrCriticalError.
LookupBadData(p, d) ==
  /\ Takes(p, d) /\ d \notin OutOfRange
  /\ \A c \in Recovered(d) : ~OutputsAreEqual(c, d)
  /\ Exit(p, "critical")
  /\ UNCHANGED <<status, utxo, accepted, faults>>

\* StakingOutput() indexes the staking transaction's outputs, and line 298 the
\* unbonding inputs, before any check.
LookupPanics(p, d) ==
  /\ Takes(p, d) /\ d \in OutOfRange
  /\ Exit(p, "panic")
  /\ UNCHANGED <<status, utxo, accepted, faults>>

\* The node does not answer TxByHash, or the staking transaction is out of the
\* chain while it reorganises.
LookupFails(p, d) ==
  /\ Fault
  /\ Takes(p, d) /\ d \notin OutOfRange
  /\ Exit(p, "critical")
  /\ UNCHANGED <<status, utxo, accepted>>

\* Mutant: every signature that arrived is returned.
SignaturesUntruncated(c) == {Q \in SUBSET c.keys : Cardinality(Q) >= c.quorum}

\* signUnbondingTransaction returns the first quorum of the valid signatures:
\* any quorum of the committee can arrive first (CovenantSigning details it).
Signatures(c) == {Q \in SUBSET c.keys : Cardinality(Q) = c.quorum}

Sign(p) ==
  /\ run[p].pc = "sign"
  /\ \E Q \in Signatures(run[p].params) :
       run' = [run EXCEPT ![p].pc = "check", ![p].sigs = Q]
  /\ UNCHANGED <<status, utxo, accepted, faults>>

\* Mutant: a document without a quorum is skipped, not recorded.
SkipNoQuorum(p) == run' = [run EXCEPT ![p].pc = "next", ![p].doc = NoDoc,
                                      ![p].params = NoScript]

RecordNoQuorum(p) ==
  run' = [run EXCEPT ![p].pc = "mark",
                     ![p].outcome = FailedToGetCovenantSignatures]

\* Too few signers answered with a valid signature.
SignShort(p) ==
  /\ Fault
  /\ run[p].pc = "sign"
  /\ RecordNoQuorum(p)
  /\ UNCHANGED <<status, utxo, accepted>>

\* Nothing spends the output now.
Free(d) == utxo[d] \in {"unspent", "freed"}

\* CheckTxOutSpendable, mempool included.
CheckTxOutSpendable(p) ==
  /\ run[p].pc = "check"
  /\ run' = [run EXCEPT
       ![p].pc = IF Free(run[p].doc) THEN "send" ELSE "mark",
       ![p].outcome = IF Free(run[p].doc) THEN "none" ELSE InputAlreadySpent]
  /\ UNCHANGED <<status, utxo, accepted, faults>>

\* Mutant: no answer is taken for "not spendable".
TreatAsSpent(p) == run' = [run EXCEPT ![p].pc = "mark",
                                      ![p].outcome = InputAlreadySpent]

SendAnyway(p) == run' = [run EXCEPT ![p].pc = "send"]

\* The node does not answer: the code sends anyway.
CheckFails(p) ==
  /\ Fault
  /\ run[p].pc = "check"
  /\ SendAnyway(p)
  /\ UNCHANGED <<status, utxo, accepted>>

\* The node takes a transaction whose input is free, and again one it holds.
Accepts(d) ==
  \/ Free(d) /\ d \notin Unacceptable
  \/ utxo[d] = "mempool"

Take(d) ==
  /\ utxo' = [utxo EXCEPT ![d] = "mempool"]
  /\ accepted' = accepted \cup {d}

\* Mutant: the branches after SendTx are swapped.
StateAfterSendSwapped(ok) == IF ok THEN Failed ELSE Send

StateAfterSend(ok) == IF ok THEN Send ELSE Failed

Reports(p, ok) ==
  run' = [run EXCEPT ![p].pc = "mark", ![p].outcome = StateAfterSend(ok)]

SendTx(p) ==
  LET d == run[p].doc IN
  /\ run[p].pc = "send"
  /\ IF Accepts(d) THEN Take(d) ELSE UNCHANGED <<utxo, accepted>>
  /\ Reports(p, Accepts(d))
  /\ UNCHANGED <<status, faults>>

\* The call fails on the way there or on the way back.
SendTxFails(p) ==
  LET d == run[p].doc IN
  /\ Fault
  /\ run[p].pc = "send"
  /\ \E reached \in BOOLEAN :
       IF reached /\ Accepts(d) THEN Take(d) ELSE UNCHANGED <<utxo, accepted>>
  /\ Reports(p, FALSE)
  /\ UNCHANGED status

\* Mutants: the setter writes the in-memory store's spelling, or puts a document
\* that failed back to be picked up as new.
WrittenLowerCase(s)  == IF s = Send THEN "send" ELSE s
WrittenAsInserted(s) == IF s = Failed THEN Inserted ELSE s

\* The four setters: the state field the update writes for an outcome.
Written(s) == s

\* updateUnbondingDocumentState: by _id, whatever state the document is in.
UpdateState(p) ==
  status' = [status EXCEPT ![run[p].doc] = Written(run[p].outcome)]

Mark(p) ==
  /\ run[p].pc = "mark"
  /\ UpdateState(p)
  /\ run' = [run EXCEPT ![p].pc = "next", ![p].doc = NoDoc, ![p].sigs = {},
                        ![p].params = NoScript, ![p].outcome = "none"]
  /\ UNCHANGED <<utxo, accepted, faults>>

\* The update fails, before or after the database applied it.
MarkFails(p) ==
  /\ Fault
  /\ run[p].pc = "mark"
  /\ UpdateState(p) \/ UNCHANGED status
  /\ Exit(p, "critical")
  /\ UNCHANGED <<utxo, accepted>>

\* The process dies; the next run starts from the collection.
Crash(p) ==
  /\ Fault
  /\ run[p].pc # "idle"
  /\ Exit(p, "crash")
  /\ UNCHANGED <<status, utxo, accepted>>
--------------------------------------------------------------------------------
\* What a live process does when every call it makes is answered.
Step(p) ==
  \/ Fetch(p) \/ FetchMalformed(p) \/ NextQueue(p) \/ Finish(p)
  \/ \E d \in Docs : Lookup(p, d) \/ LookupBadData(p, d) \/ LookupPanics(p, d)
  \/ Sign(p) \/ CheckTxOutSpendable(p) \/ SendTx(p) \/ Mark(p)

Fails(p) ==
  \/ FetchFails(p) \/ SignShort(p) \/ CheckFails(p) \/ SendTxFails(p)
  \/ MarkFails(p) \/ Crash(p)
  \/ \E d \in Docs : LookupFails(p, d)

Environment ==
  \E d \in Docs :
    \/ SaveUnbondingDocument(d) \/ SpendElsewhere(d)
    \/ Mine(d) \/ Evict(d) \/ Reorganise(d)

Next == Environment \/ \E p \in Procs : Start(p) \/ Step(p) \/ Fails(p)

Spec == Init /\ [][Next]_vars

\* A process that runs is scheduled, and its remote calls return.
Progress == \A p \in Procs : WF_vars(Step(p))

\* The operator runs both commands again and again.
Operated == \A p \in Procs : WF_vars(Start(p))

OperatedSpec == Spec /\ Progress /\ Operated
--------------------------------------------------------------------------------
(* Properties.                                                                 *)

TypeOK ==
  /\ status \in [Docs -> States \cup {Absent}]
  /\ utxo \in [Docs -> Utxos]
  /\ accepted \subseteq Docs
  /\ run \in [Procs -> Runs]
  /\ faults \in Nat

\* The documents a run still has to handle, the one in its hands included.
Outstanding(p) == run[p].todo \cup ({run[p].doc} \ {NoDoc})

\* At most one process runs each command; the two commands may overlap.
Exclusive ==
  \A p, q \in Procs : (p \in NewRuns <=> q \in NewRuns) => p = q

\* A run writes by _id over a list it fetched long ago, and nothing compares the
\* old state (dbclient.go:119).  Still, when each command has one process, every
\* document a run has not handled yet is in the state its list was fetched for.
Ownership ==
  \A p \in Procs : \A d \in Outstanding(p) : status[d] = run[p].queue

\* A document is SEND only if the node took its unbonding transaction: a lost
\* reply or a crash after SendTx leaves it FAILED or pending, never the reverse.
SendMeansAccepted ==
  \A d \in Docs : status[d] = Send => d \in accepted

\* A document is INPUT_ALREADY_SPENT only if its staking output has been spent, by
\* its own unbonding transaction or by another: no answer from the node is not
\* taken for "spent". (What spent it may be dropped again: nothing looks back.)
AlreadySpentMeansSpent ==
  \A d \in Docs : status[d] = InputAlreadySpent => utxo[d] # "unspent"

\* What reaches SendTx carries exactly a quorum of signatures (OP_NUMEQUAL
\* refuses more as it refuses fewer) of the committee the staking output was
\* built from, of the versions there are.
SubmitsOnlyQuorumSigned ==
  \A p \in Procs : run[p].pc = "send" =>
    /\ run[p].sigs \subseteq Output[run[p].doc].keys
    /\ Cardinality(run[p].sigs) = Output[run[p].doc].quorum

\* A new run moves on only from a document it has taken off the new list, so a
\* run that ends without an error leaves none of its list INSERTED.
HandledLeaveQueue ==
  \A p \in NewRuns : \A d \in run[p].batch \ Outstanding(p) :
    status[d] # Inserted

\* Bad data: what the pipeline answers with a critical error, a panic or, for a
\* list, an error.
Bad(d) ==
  \/ d \in Malformed \cup OutOfRange
  \/ \A c \in Recovered(d) : c # Output[d]

\* A document with bad data is never signed for, sent or moved: it stays where
\* the staking API wrote it (unbonding_pipeline.go:27, "without changing status
\* of any unbonding transaction").
BadDataNeverMoves ==
  \A d \in Docs : Bad(d) =>
    /\ status[d] \in {Absent, Inserted}
    /\ d \notin accepted

\* "We stop processing pipeline and return immediately" (line 27): no document
\* listed after one with bad data is ever worked on by that run.
NothingPassesBadData ==
  \A p \in Procs : run[p].doc # NoDoc =>
    \A d \in run[p].batch : Bad(d) => run[p].doc < d

\* SEND and INPUT_ALREADY_SPENT are final, through retries, crashes and the
\* other command's writes.
TerminalStable ==
  [][\A d \in Docs : status[d] \in Terminal => status'[d] = status[d]]_vars

\* No run puts a document back on the list of new ones, even when several
\* processes of one command work on it.
NeverReinserted ==
  [][\A d \in Docs : status[d] \notin {Absent, Inserted} =>
       status'[d] \notin {Absent, Inserted}]_vars

\* The pipeline implements the lifecycle of each document.
Lifecycle == INSTANCE UnbondingLifecycle WITH
               gone <- {d \in Docs : utxo[d] = "other"},
               spent <- {d \in Docs : utxo[d] # "unspent"}

LifecycleSpec == Lifecycle!Spec

\* Every run ends: no list grows while it is worked on, and the second list of
\* process-failed-tx is fetched once.
RunsTerminate ==
  \A p \in Procs : run[p].pc # "idle" ~> run[p].pc = "idle"

\* If both commands are run again and again and faults stop, a document that is
\* good and behind no bad one ends SEND or INPUT_ALREADY_SPENT and stays so,
\* whatever failed on the way and however runs overlapped.
GoodDocumentsSettle ==
  \A d \in Docs :
    (d \notin Unacceptable /\ Malformed = {} /\ \A e \in Docs : e <= d => ~Bad(e))
      => (status[d] = Inserted ~> [](status[d] \in Terminal))

\* "ErrCriticalError is returned only when there is some programming error in our
\* code, or we allowed some invalid data into database" (lines 25-26).
CriticalOnlyForBadData ==
  \A p \in Procs : run[p].result = "critical" =>
    \E d \in Docs : status[d] # Absent /\ Bad(d)
================================================================================

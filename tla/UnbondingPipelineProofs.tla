------------------------ MODULE UnbondingPipelineProofs ------------------------
(* Proofs about UnbondingPipeline for every set of documents, processes, keys  *)
(* and parameters, and every number of faults.                                 *)
EXTENDS UnbondingPipeline, FiniteLemmas, TLAPS

\* What each program point says of the process's own record.
Busy == {"sign", "check", "send", "mark"}

RunShape(r) ==
  /\ r.doc # NoDoc <=> r.pc \in Busy
  /\ r.doc \notin r.todo
  /\ r.pc \in {"idle", "fetch"} => r.todo = {}
  /\ r.pc = "mark" => r.outcome \in States \ {Inserted}
  /\ r.pc \in {"sign", "check", "send"} => r.params = Output[r.doc]

Shape ==
  \A p \in Procs :
    /\ RunShape(run[p])
    /\ p \in NewRuns <=> run[p].queue = Inserted

Shaped == TypeOK /\ Shape

USE DEF Procs, NoDoc

\* The state field tells the five states, and no document at all, apart.
LEMMA StatesDistinct ==
  /\ Inserted # Send /\ Inserted # InputAlreadySpent /\ Inserted # Failed
  /\ Inserted # FailedToGetCovenantSignatures /\ Inserted # Absent
  /\ Send # InputAlreadySpent /\ Send # Failed
  /\ Send # FailedToGetCovenantSignatures /\ Send # Absent
  /\ InputAlreadySpent # Failed
  /\ InputAlreadySpent # FailedToGetCovenantSignatures
  /\ InputAlreadySpent # Absent /\ Failed # FailedToGetCovenantSignatures
  /\ Failed # Absent /\ FailedToGetCovenantSignatures # Absent
BY DEF Inserted, Send, InputAlreadySpent, Failed, FailedToGetCovenantSignatures, Absent

\* A process that is not running has a well formed record.
LEMMA IdleShape ==
  ASSUME NEW p \in Procs, NEW result \in Results
  PROVE  /\ Idle(p, result) \in Runs
         /\ RunShape(Idle(p, result))
         /\ p \in NewRuns <=> Idle(p, result).queue = Inserted
BY RunsAssumption, StatesDistinct
   DEF Idle, Fresh, Runs, RunShape, Busy, FirstQueue, PCs, Pending, Outcomes, NoScript,
       Scripts

\* A process about to fetch a list has a well formed record.
LEMMA FetchShape ==
  ASSUME NEW q \in Pending
  PROVE  LET r == Fresh("fetch", q, "none")
         IN  r \in Runs /\ RunShape(r) /\ r.queue = q
<1>1. NoScript \in Scripts
  BY DEF NoScript, Scripts
<1>2. Fresh("fetch", q, "none") \in Runs
  BY <1>1 DEF Fresh, Runs, PCs, Outcomes, Results
<1>3. RunShape(Fresh("fetch", q, "none"))
  BY DEF Fresh, RunShape, Busy
<1> QED
  BY <1>2, <1>3 DEF Fresh

\* A step that rewrites one process's record keeps the invariant of all of them.
LEMMA OneRunChanges ==
  ASSUME Shaped, NEW p \in Procs, NEW r \in Runs,
         run' = [run EXCEPT ![p] = r],
         RunShape(r), p \in NewRuns <=> r.queue = Inserted,
         status' \in [Docs -> States \cup {Absent}], utxo' \in [Docs -> Utxos],
         accepted' \subseteq Docs, faults' \in Nat
  PROVE  Shaped'
<1>1. run' \in [Procs -> Runs]
  BY DEF Shaped, TypeOK
<1>2. TypeOK'
  BY <1>1 DEF TypeOK
<1>3. ASSUME NEW q \in Procs
      PROVE  RunShape(run[q])' /\ (q \in NewRuns <=> run'[q].queue = Inserted)
  <2>1. run'[q] = IF q = p THEN r ELSE run[q]
    BY DEF Shaped, TypeOK
  <2> QED
    BY <2>1 DEF Shaped, Shape, RunShape
<1> QED
  BY <1>2, <1>3 DEF Shaped, Shape

\* The shape holds before anything ran.
LEMMA InitShaped == Init => Shaped
<1> SUFFICES ASSUME Init PROVE Shaped
  OBVIOUS
<1>1. \A p \in Procs : Idle(p, "none") \in Runs /\ RunShape(Idle(p, "none"))
                      /\ (p \in NewRuns <=> Idle(p, "none").queue = Inserted)
  BY IdleShape DEF Results
<1>2. TypeOK
  BY <1>1, DataAssumption DEF Init, TypeOK, States, Utxos
<1>3. Shape
  BY <1>1 DEF Init, Shape
<1> QED
  BY <1>2, <1>3 DEF Shaped

\* Leaving a run, for whatever reason, is the case of most actions.
LEMMA ExitShaped ==
  ASSUME Shaped, NEW p \in Procs, NEW result \in Results, Exit(p, result),
         status' \in [Docs -> States \cup {Absent}], utxo' = utxo,
         accepted' = accepted, faults' \in Nat
  PROVE  Shaped'
<1>1. /\ Idle(p, result) \in Runs /\ RunShape(Idle(p, result))
      /\ p \in NewRuns <=> Idle(p, result).queue = Inserted
  BY IdleShape
<1>2. utxo' \in [Docs -> Utxos] /\ accepted' \subseteq Docs
  BY DEF Shaped, TypeOK
<1> QED
  BY <1>1, <1>2, OneRunChanges DEF Exit

\* The staking API and the network keep the shape: they touch no run.
LEMMA EnvironmentShaped == Shaped /\ Environment => Shaped'
<1> SUFFICES ASSUME Shaped, NEW d \in Docs,
                    SaveUnbondingDocument(d) \/ SpendElsewhere(d) \/ Mine(d)
                      \/ Evict(d) \/ Reorganise(d)
             PROVE  Shaped'
  BY DEF Environment
<1>1. TypeOK'
  BY DEF Shaped, TypeOK, SaveUnbondingDocument, SpendElsewhere, Mine, Evict, Reorganise, Fault,
         Utxos, States, Pending
<1>2. run' = run
  BY DEF SaveUnbondingDocument, SpendElsewhere, Mine, Evict, Reorganise
<1> QED
  BY <1>1, <1>2 DEF Shaped, Shape, RunShape

\* A step of a process rewrites its own record with one of the right shape.
LEMMA ProcessShaped ==
  ASSUME Shaped, NEW p \in Procs, Start(p) \/ Step(p) \/ Fails(p)
  PROVE  Shaped'
<1> USE StatesDistinct DEF Shaped, TypeOK
<1>r. run[p] \in Runs /\ RunShape(run[p]) /\ (p \in NewRuns <=> run[p].queue = Inserted)
  BY DEF Shape
<1>f. Fault \/ UNCHANGED faults => faults' \in Nat
  BY DEF Fault
<1>i. \A result \in Results :
        /\ Idle(p, result) \in Runs /\ RunShape(Idle(p, result))
        /\ p \in NewRuns <=> Idle(p, result).queue = Inserted
  BY IdleShape
<1>1. CASE Start(p)
  <2> DEFINE r == Fresh("fetch", FirstQueue(p), "none")
  <2>1. FirstQueue(p) \in Pending /\ (p \in NewRuns <=> FirstQueue(p) = Inserted)
    BY DEF FirstQueue, Pending
  <2>2. r \in Runs /\ RunShape(r) /\ (p \in NewRuns <=> r.queue = Inserted)
    BY <2>1, FetchShape
  <2> QED
    BY <1>1, <1>f, <2>2, OneRunChanges DEF Start
<1>2. CASE Fetch(p)
  <2> DEFINE list == Listed(run[p].queue)
             r    == [run[p] EXCEPT !.pc = "next", !.todo = list, !.batch = list]
  <2>1. r \in Runs /\ RunShape(r) /\ (p \in NewRuns <=> r.queue = Inserted)
    BY <1>r, <1>2, DocsAssumption DEF Fetch, Runs, RunShape, Busy, PCs, Listed
  <2>2. run' = [run EXCEPT ![p] = r]
    BY <1>2 DEF Fetch
  <2> QED
    BY <1>2, <1>f, <2>1, <2>2, OneRunChanges DEF Fetch
<1>3. CASE NextQueue(p)
  <2> DEFINE r == Fresh("fetch", Failed, "none")
  <2>1. Failed \in Pending
    BY DEF Pending
  <2>2. r \in Runs /\ RunShape(r) /\ r.queue = Failed
    BY <2>1, FetchShape
  <2>3. p \notin NewRuns
    BY <1>r, <1>3 DEF NextQueue, LastQueue
  <2> QED
    BY <1>3, <1>f, <2>2, <2>3, OneRunChanges DEF NextQueue
<1>4. ASSUME NEW d \in Docs, Lookup(p, d)
      PROVE  Shaped'
  <2>1. PICK c \in Recovered(d) :
          /\ OutputsAreEqual(c, d)
          /\ run' = [run EXCEPT ![p].pc = "sign", ![p].doc = d, ![p].params = c,
                                ![p].todo = @ \ {d}]
    BY <1>4 DEF Lookup
  <2> DEFINE r == [run[p] EXCEPT !.pc = "sign", !.doc = d, !.params = c,
                                 !.todo = run[p].todo \ {d}]
  <2>2. c \in Scripts /\ c = Output[d] /\ d # NoDoc
    BY <2>1, DataAssumption, DocsAssumption DEF OutputsAreEqual
  <2>3. r \in Runs /\ RunShape(r) /\ (p \in NewRuns <=> r.queue = Inserted)
    BY <1>r, <2>2 DEF Runs, RunShape, Busy, PCs
  <2>4. run' = [run EXCEPT ![p] = r]
    BY <2>1
  <2> QED
    BY <1>4, <1>f, <2>3, <2>4, OneRunChanges DEF Lookup
<1>5. CASE Sign(p)
  <2>1. PICK Q \in Signatures(run[p].params) :
          run' = [run EXCEPT ![p].pc = "check", ![p].sigs = Q]
    BY <1>5 DEF Sign
  <2> DEFINE r == [run[p] EXCEPT !.pc = "check", !.sigs = Q]
  <2>2. Q \subseteq Keys
    BY <1>r DEF Signatures, Runs, Scripts
  <2>3. r \in Runs /\ RunShape(r) /\ (p \in NewRuns <=> r.queue = Inserted)
    BY <1>r, <1>5, <2>2 DEF Sign, Runs, RunShape, Busy, PCs
  <2>4. run' = [run EXCEPT ![p] = r]
    BY <2>1
  <2> QED
    BY <1>5, <1>f, <2>3, <2>4, OneRunChanges DEF Sign
<1>6. CASE SignShort(p)
  <2> DEFINE r == [run[p] EXCEPT !.pc = "mark", !.outcome = FailedToGetCovenantSignatures]
  <2>1. r \in Runs /\ RunShape(r) /\ (p \in NewRuns <=> r.queue = Inserted)
    BY <1>r, <1>6
    DEF SignShort, Runs, RunShape, Busy, PCs, Outcomes, States, Pending, Terminal
  <2>2. run' = [run EXCEPT ![p] = r]
    BY <1>6 DEF SignShort, RecordNoQuorum
  <2> QED
    BY <1>6, <1>f, <2>1, <2>2, OneRunChanges DEF SignShort
<1>7. CASE CheckTxOutSpendable(p)
  <2> DEFINE free == Free(run[p].doc)
             r == [run[p] EXCEPT !.pc = IF free THEN "send" ELSE "mark",
                     !.outcome = IF free THEN "none" ELSE InputAlreadySpent]
  <2>1. r \in Runs /\ RunShape(r) /\ (p \in NewRuns <=> r.queue = Inserted)
    BY <1>r, <1>7
    DEF CheckTxOutSpendable, Runs, RunShape, Busy, PCs, Outcomes, States, Pending, Terminal
  <2>2. run' = [run EXCEPT ![p] = r]
    BY <1>7 DEF CheckTxOutSpendable
  <2>3. UNCHANGED <<status, utxo, accepted, faults>>
    BY <1>7 DEF CheckTxOutSpendable
  <2> QED
    BY <2>1, <2>2, <2>3, OneRunChanges
<1>8. CASE CheckFails(p)
  <2> DEFINE r == [run[p] EXCEPT !.pc = "send"]
  <2>1. r \in Runs /\ RunShape(r) /\ (p \in NewRuns <=> r.queue = Inserted)
    BY <1>r, <1>8 DEF CheckFails, Runs, RunShape, Busy, PCs
  <2>2. run' = [run EXCEPT ![p] = r]
    BY <1>8 DEF CheckFails, SendAnyway
  <2> QED
    BY <1>8, <1>f, <2>1, <2>2, OneRunChanges DEF CheckFails
<1>9. CASE SendTx(p) \/ SendTxFails(p)
  <2>1. PICK ok \in BOOLEAN : Reports(p, ok)
    BY <1>9 DEF SendTx, SendTxFails, Accepts
  <2> DEFINE r == [run[p] EXCEPT !.pc = "mark", !.outcome = StateAfterSend(ok)]
  <2>s. run[p].pc = "send" /\ StateAfterSend(ok) \in States \ {Inserted}
    BY <1>9 DEF SendTx, SendTxFails, StateAfterSend, States, Pending, Terminal
  <2>t. r \in Runs
    BY <1>r, <2>s DEF Runs, PCs, Outcomes
  <2>2. r \in Runs /\ RunShape(r) /\ (p \in NewRuns <=> r.queue = Inserted)
    BY <1>r, <2>s, <2>t DEF RunShape, Busy, Runs
  <2>3. run' = [run EXCEPT ![p] = r]
    BY <2>1 DEF Reports
  <2>4. run[p].doc \in Docs
    BY <1>r, <1>9 DEF SendTx, SendTxFails, RunShape, Busy, Runs
  <2>5. utxo' \in [Docs -> Utxos] /\ accepted' \subseteq Docs /\ status' = status
    BY <1>9, <2>4 DEF SendTx, SendTxFails, Take, Utxos
  <2> QED
    BY <1>9, <1>f, <2>2, <2>3, <2>5, OneRunChanges DEF SendTx, SendTxFails
<1>s. ASSUME run[p].pc = "mark", UpdateState(p)
      PROVE  status' \in [Docs -> States \cup {Absent}]
  BY <1>r, <1>s DEF UpdateState, Written, RunShape
<1>10. CASE Mark(p)
  <2> DEFINE r == [run[p] EXCEPT !.pc = "next", !.doc = NoDoc, !.sigs = {},
                                 !.params = NoScript, !.outcome = "none"]
  <2>1. r \in Runs /\ RunShape(r) /\ (p \in NewRuns <=> r.queue = Inserted)
    BY <1>r, <1>10
    DEF Mark, Runs, RunShape, Busy, PCs, Outcomes, NoScript, Scripts
  <2>2. run' = [run EXCEPT ![p] = r]
    BY <1>10 DEF Mark
  <2> QED
    BY <1>10, <1>f, <1>s, <2>1, <2>2, OneRunChanges DEF Mark
<1>11. CASE MarkFails(p)
  BY <1>11, <1>f, <1>s, ExitShaped DEF MarkFails, Results
<1>12. CASE FetchMalformed(p) \/ Finish(p) \/ FetchFails(p) \/ Crash(p)
  BY <1>12, <1>f, ExitShaped DEF FetchMalformed, Finish, FetchFails, Crash, Results
<1>13. ASSUME NEW d \in Docs, LookupBadData(p, d) \/ LookupPanics(p, d) \/ LookupFails(p, d)
       PROVE  Shaped'
  BY <1>13, <1>f, ExitShaped DEF LookupBadData, LookupPanics, LookupFails, Results
<1> QED
  BY <1>1, <1>2, <1>3, <1>4, <1>5, <1>6, <1>7, <1>8, <1>9, <1>10, <1>11, <1>12, <1>13
  DEF Step, Fails

\* Every step keeps the shape.
LEMMA StepShaped == Shaped /\ [Next]_vars => Shaped'
<1>1. Shaped /\ UNCHANGED vars => Shaped'
  BY DEF vars, Shaped, TypeOK, Shape, RunShape
<1> QED
  BY <1>1, EnvironmentShaped, ProcessShaped DEF Next

\* At every program point a process holds a document exactly when it works on
\* one, off its list, with the parameters that document's output was built from.
THEOREM ShapeInvariant == Spec => []Shaped
BY InitShaped, StepShaped, PTL DEF Spec

\* The type invariant: whatever the list a run fetched and whatever failed since,
\* the state field is one of the five the model package declares.
THEOREM TypeCorrect == Spec => []TypeOK
<1>1. Shaped => TypeOK
  BY DEF Shaped
<1> QED
  BY <1>1, ShapeInvariant, PTL
--------------------------------------------------------------------------------
(* What a settled document says of the bitcoin node.                           *)

Spent(d) == utxo[d] # "unspent"

\* The strengthening of SendMeansAccepted and AlreadySpentMeansSpent: the node
\* holds only what it accepted, and a process about to write an outcome has
\* evidence for it that no later step takes back.
Evidence ==
  /\ \A d \in Docs : utxo[d] \in {"mempool", "block"} => d \in accepted
  /\ \A p \in Procs : run[p].pc = "mark" =>
       /\ run[p].outcome = Send => run[p].doc \in accepted
       /\ run[p].outcome = InputAlreadySpent => Spent(run[p].doc)
  /\ SendMeansAccepted
  /\ AlreadySpentMeansSpent

\* A step of a process leaves the records of the others alone.
LEMMA OtherRunsUnchanged ==
  ASSUME Shaped, NEW p \in Procs, Start(p) \/ Step(p) \/ Fails(p),
         NEW q \in Procs, q # p
  PROVE  run'[q] = run[q]
<1> USE DEF Shaped, TypeOK, Exit
<1>1. CASE Start(p) \/ Fetch(p) \/ FetchMalformed(p) \/ FetchFails(p)
  BY <1>1 DEF Start, Fetch, FetchMalformed, FetchFails
<1>2. CASE NextQueue(p) \/ Finish(p) \/ Crash(p)
  BY <1>2 DEF NextQueue, Finish, Crash
<1>3. ASSUME NEW d \in Docs,
             Lookup(p, d) \/ LookupBadData(p, d) \/ LookupPanics(p, d) \/ LookupFails(p, d)
      PROVE  run'[q] = run[q]
  BY <1>3 DEF Lookup, LookupBadData, LookupPanics, LookupFails
<1>4. CASE Sign(p) \/ SignShort(p)
  BY <1>4 DEF Sign, SignShort, RecordNoQuorum
<1>5. CASE CheckTxOutSpendable(p) \/ CheckFails(p)
  BY <1>5 DEF CheckTxOutSpendable, CheckFails, SendAnyway
<1>6. CASE SendTx(p) \/ SendTxFails(p)
  BY <1>6 DEF SendTx, SendTxFails, Reports
<1>7. CASE Mark(p) \/ MarkFails(p)
  BY <1>7 DEF Mark, MarkFails
<1> QED
  BY <1>1, <1>2, <1>3, <1>4, <1>5, <1>6, <1>7 DEF Step, Fails

\* The program point a process leaves, for the steps that write the shared state.
LEMMA SharedWrites ==
  ASSUME NEW p \in Procs, Start(p) \/ Step(p) \/ Fails(p)
  PROVE  /\ UNCHANGED status \/ ((Mark(p) \/ MarkFails(p)) /\ UpdateState(p))
         /\ UNCHANGED <<utxo, accepted>> \/ SendTx(p) \/ SendTxFails(p)
<1>1. CASE Start(p) \/ Fetch(p) \/ FetchMalformed(p) \/ FetchFails(p) \/ NextQueue(p)
           \/ Finish(p) \/ Crash(p)
  BY <1>1 DEF Start, Fetch, FetchMalformed, FetchFails, NextQueue, Finish, Crash
<1>2. ASSUME NEW d \in Docs,
             Lookup(p, d) \/ LookupBadData(p, d) \/ LookupPanics(p, d) \/ LookupFails(p, d)
      PROVE  UNCHANGED <<status, utxo, accepted>>
  BY <1>2 DEF Lookup, LookupBadData, LookupPanics, LookupFails
<1>3. CASE Sign(p) \/ SignShort(p) \/ CheckTxOutSpendable(p) \/ CheckFails(p)
  BY <1>3 DEF Sign, SignShort, CheckTxOutSpendable, CheckFails
<1>4. CASE SendTx(p) \/ SendTxFails(p)
  BY <1>4 DEF SendTx, SendTxFails
<1>5. CASE Mark(p) \/ MarkFails(p)
  BY <1>5 DEF Mark, MarkFails
<1> QED
  BY <1>1, <1>2, <1>3, <1>4, <1>5 DEF Step, Fails

\* Nothing takes evidence back.
LEMMA SpentIsStable ==
  ASSUME Shaped, Next, NEW d \in Docs
  PROVE  /\ d \in accepted => d \in accepted'
         /\ utxo[d] # "unspent" => utxo'[d] # "unspent"
<1>1. CASE Environment
  BY <1>1
  DEF Environment, SaveUnbondingDocument, SpendElsewhere, Mine, Evict, Reorganise,
      Shaped, TypeOK
<1>2. ASSUME NEW p \in Procs, SendTx(p) \/ SendTxFails(p)
      PROVE  /\ d \in accepted => d \in accepted'
             /\ utxo[d] # "unspent" => utxo'[d] # "unspent"
  BY <1>2 DEF SendTx, SendTxFails, Take, Shaped, TypeOK
<1> QED
  BY <1>1, <1>2, SharedWrites DEF Next

\* Nothing is claimed before anything ran.
LEMMA InitEvidence == Init => Evidence
BY StatesDistinct
DEF Init, Evidence, Idle, Fresh, SendMeansAccepted, AlreadySpentMeansSpent

\* Which step takes a process to which program point.
LEMMA NextPoint ==
  ASSUME Shaped, NEW p \in Procs, Start(p) \/ Step(p) \/ Fails(p)
  PROVE  \/ run'[p].pc \in {"idle", "fetch"} /\ run'[p].doc = NoDoc /\ run'[p].todo = {}
         \/ run'[p].pc = "next" /\ (Fetch(p) \/ Mark(p))
         \/ run'[p].pc = "sign" /\ \E d \in Docs : Lookup(p, d)
         \/ run'[p].pc = "check" /\ Sign(p)
         \/ run'[p].pc = "send" /\ (CheckTxOutSpendable(p) \/ CheckFails(p))
         \/ run'[p].pc = "mark" /\ (\/ SignShort(p) \/ CheckTxOutSpendable(p)
                                    \/ SendTx(p) \/ SendTxFails(p))
<1> USE DEF Shaped, TypeOK
<1>e. ASSUME NEW result, Exit(p, result)
      PROVE  run'[p].pc = "idle" /\ run'[p].doc = NoDoc /\ run'[p].todo = {}
  BY <1>e DEF Exit, Idle, Fresh
<1>1. CASE Start(p) \/ NextQueue(p)
  <2>1. CASE Start(p)
    <3>1. run'[p] = Fresh("fetch", FirstQueue(p), "none")
      BY <2>1 DEF Start
    <3> QED
      BY <3>1 DEF Fresh
  <2>2. CASE NextQueue(p)
    <3>1. run'[p] = Fresh("fetch", Failed, "none")
      BY <2>2 DEF NextQueue
    <3> QED
      BY <3>1 DEF Fresh
  <2> QED
    BY <1>1, <2>1, <2>2
<1>2. CASE FetchMalformed(p) \/ FetchFails(p) \/ Finish(p) \/ Crash(p) \/ MarkFails(p)
  BY <1>2, <1>e DEF FetchMalformed, FetchFails, Finish, Crash, MarkFails
<1>3. ASSUME NEW d \in Docs, LookupBadData(p, d) \/ LookupPanics(p, d) \/ LookupFails(p, d)
      PROVE  run'[p].pc = "idle" /\ run'[p].doc = NoDoc /\ run'[p].todo = {}
  BY <1>3, <1>e DEF LookupBadData, LookupPanics, LookupFails
<1>4. CASE Fetch(p)
  BY <1>4 DEF Fetch
<1>5. CASE Mark(p)
  <2>1. run'[p].pc = "next"
    BY <1>5 DEF Mark
  <2> QED
    BY <1>5, <2>1
<1>6. ASSUME NEW d \in Docs, Lookup(p, d)
      PROVE  run'[p].pc = "sign"
  BY <1>6 DEF Lookup
<1>7. CASE Sign(p)
  <2>1. PICK Q : run' = [run EXCEPT ![p].pc = "check", ![p].sigs = Q]
    BY <1>7 DEF Sign
  <2> QED
    BY <1>7, <2>1
<1>8. CASE CheckTxOutSpendable(p)
  BY <1>8 DEF CheckTxOutSpendable
<1>9. CASE CheckFails(p)
  BY <1>9 DEF CheckFails, SendAnyway
<1>10. CASE SignShort(p)
  BY <1>10 DEF SignShort, RecordNoQuorum
<1>11. CASE SendTx(p) \/ SendTxFails(p)
  <2>1. PICK ok : Reports(p, ok)
    BY <1>11 DEF SendTx, SendTxFails
  <2>2. run'[p].pc = "mark"
    BY <2>1 DEF Reports
  <2> QED
    BY <1>11, <2>2
<1> QED
  BY <1>1, <1>2, <1>3, <1>4, <1>5, <1>6, <1>7, <1>8, <1>9, <1>10, <1>11 DEF Step, Fails

\* Whoever is about to write SEND or INPUT_ALREADY_SPENT has seen the reason.
LEMMA MarkHasEvidence ==
  ASSUME Shaped, Evidence, NEW p \in Procs, Start(p) \/ Step(p) \/ Fails(p),
         run'[p].pc = "mark"
  PROVE  /\ run'[p].outcome = Send => run'[p].doc \in accepted'
         /\ run'[p].outcome = InputAlreadySpent => Spent(run[p].doc)' /\ run'[p].doc = run[p].doc
<1> USE StatesDistinct DEF Shaped, TypeOK
<1>r. run[p] \in Runs /\ RunShape(run[p])
  BY DEF Shape
<1>1. CASE SignShort(p)
  BY <1>1 DEF SignShort, RecordNoQuorum
<1>2. CASE CheckTxOutSpendable(p)
  <2>1. run[p].doc \in Docs
    BY <1>r, <1>2 DEF CheckTxOutSpendable, RunShape, Busy, Runs
  <2>2. /\ run'[p].doc = run[p].doc /\ run'[p].outcome # Send
        /\ utxo[run[p].doc] # "unspent"
    BY <1>2 DEF CheckTxOutSpendable, Free
  <2>3. Spent(run[p].doc)
    BY <2>2 DEF Spent
  <2>4. UNCHANGED <<utxo, accepted>>
    BY <1>2 DEF CheckTxOutSpendable
  <2> QED
    BY <2>2, <2>3, <2>4 DEF Spent
<1>3. CASE SendTx(p) \/ SendTxFails(p)
  <2>1. PICK ok \in BOOLEAN : Reports(p, ok) /\ (ok => SendTx(p) /\ Accepts(run[p].doc))
    BY <1>3 DEF SendTx, SendTxFails, Accepts
  <2>2. run'[p].doc = run[p].doc /\ run'[p].outcome = StateAfterSend(ok)
    BY <2>1 DEF Reports
  <2> QED
    BY <2>1, <2>2 DEF SendTx, Take, StateAfterSend
<1> QED
  BY <1>1, <1>2, <1>3, NextPoint

\* Every step keeps what was written, and what is about to be, backed by the node.
LEMMA StepEvidence == Shaped /\ Shaped' /\ Evidence /\ [Next]_vars => Evidence'
<1> SUFFICES ASSUME Shaped, Shaped', Evidence, Next
             PROVE  Evidence'
  BY DEF vars, Evidence, Spent, SendMeansAccepted, AlreadySpentMeansSpent
<1> USE DEF Spent
<1>1. ASSUME NEW d \in Docs, utxo'[d] \in {"mempool", "block"}
      PROVE  d \in accepted'
  <2>1. CASE Environment
    BY <1>1, <2>1
    DEF Environment, SaveUnbondingDocument, SpendElsewhere, Mine, Evict, Reorganise,
        Evidence, Shaped, TypeOK
  <2>2. ASSUME NEW p \in Procs, SendTx(p) \/ SendTxFails(p)
        PROVE  d \in accepted'
    BY <1>1, <2>2 DEF SendTx, SendTxFails, Take, Evidence, Shaped, TypeOK
  <2> QED
    BY <1>1, <2>1, <2>2, SharedWrites DEF Next, Evidence
<1>2. ASSUME NEW p \in Procs, run'[p].pc = "mark"
      PROVE  /\ run'[p].outcome = Send => run'[p].doc \in accepted'
             /\ run'[p].outcome = InputAlreadySpent => Spent(run[p].doc)'
                                                     /\ run'[p].doc = run[p].doc
  <2>1. CASE run'[p] = run[p]
    <3>1. run[p].doc \in Docs
      BY <1>2, <2>1 DEF Shaped, Shape, RunShape, Busy, TypeOK, Runs
    <3> QED
      BY <1>2, <2>1, <3>1, SpentIsStable DEF Evidence
  <2>2. CASE Start(p) \/ Step(p) \/ Fails(p)
    <3> HIDE DEF Spent
    <3> QED
      BY <1>2, <2>2, MarkHasEvidence
  <2> QED
    BY <2>1, <2>2, OtherRunsUnchanged
    DEF Next, Environment, SaveUnbondingDocument, SpendElsewhere, Mine, Evict, Reorganise
<1>3. ASSUME NEW d \in Docs
      PROVE  /\ status'[d] = Send => d \in accepted'
             /\ status'[d] = InputAlreadySpent => Spent(d)'
  <2>1. CASE status'[d] \in {status[d], Inserted}
    BY <2>1, SpentIsStable, StatesDistinct
    DEF Evidence, SendMeansAccepted, AlreadySpentMeansSpent
  <2>2. ASSUME NEW p \in Procs, Mark(p) \/ MarkFails(p), UpdateState(p)
        PROVE  /\ status'[d] = Send => d \in accepted'
               /\ status'[d] = InputAlreadySpent => Spent(d)'
    <3>1. run[p].pc = "mark"
      BY <2>2 DEF Mark, MarkFails
    <3>2. status'[d] = IF d = run[p].doc THEN run[p].outcome ELSE status[d]
      BY <2>2 DEF UpdateState, Written, Shaped, TypeOK
    <3> QED
      BY <2>1, <3>1, <3>2, SpentIsStable DEF Evidence
  <2>3. CASE Environment
    BY <2>1, <2>3
    DEF Environment, SaveUnbondingDocument, SpendElsewhere, Mine, Evict, Reorganise, Shaped, TypeOK
  <2> QED
    BY <2>1, <2>2, <2>3, SharedWrites DEF Next
<1>4. SendMeansAccepted' /\ AlreadySpentMeansSpent'
  BY <1>3 DEF SendMeansAccepted, AlreadySpentMeansSpent
<1> HIDE DEF Spent
<1> QED
  BY <1>1, <1>2, <1>4 DEF Evidence

\* What the state field says, or a process is about to write to it, is backed by
\* what the node did, for any number of processes per command.
THEOREM EvidenceInvariant == Spec => []Evidence
BY InitEvidence, StepEvidence, ShapeInvariant, PTL DEF Spec

\* SEND is never written for a transaction the node did not take, however many
\* processes, crashes and lost replies.
THEOREM SendIsTruthful == Spec => []SendMeansAccepted
<1>1. Evidence => SendMeansAccepted
  BY DEF Evidence
<1> QED
  BY <1>1, EvidenceInvariant, PTL

\* INPUT_ALREADY_SPENT is never written for a staking output that is still free
\* and was never spent.
THEOREM AlreadySpentIsTruthful == Spec => []AlreadySpentMeansSpent
<1>1. Evidence => AlreadySpentMeansSpent
  BY DEF Evidence
<1> QED
  BY <1>1, EvidenceInvariant, PTL
--------------------------------------------------------------------------------
(* What is submitted is signed by a quorum.                                    *)

QuorumSigned(r) ==
  /\ r.sigs \subseteq Output[r.doc].keys
  /\ Cardinality(r.sigs) = Output[r.doc].quorum

Signed == \A p \in Procs : run[p].pc \in {"check", "send"} => QuorumSigned(run[p])

\* A process keeps exactly a quorum of signatures from signing to submission.
LEMMA StepSigned == Shaped /\ Signed /\ [Next]_vars => Signed'
<1> SUFFICES ASSUME Shaped, Signed, [Next]_vars,
                    NEW p \in Procs, run'[p].pc \in {"check", "send"}
             PROVE  QuorumSigned(run'[p])
  BY DEF Signed, QuorumSigned
<1>r. run[p] \in Runs /\ RunShape(run[p])
  BY DEF Shaped, TypeOK, Shape
<1>1. CASE run'[p] = run[p]
  BY <1>1 DEF Signed
<1>2. CASE Start(p) \/ Step(p) \/ Fails(p)
  <2>1. CASE Sign(p)
    <3>1. PICK Q \in Signatures(run[p].params) :
            run' = [run EXCEPT ![p].pc = "check", ![p].sigs = Q]
      BY <2>1 DEF Sign
    <3>2. run'[p].doc = run[p].doc /\ run'[p].sigs = Q
      BY <3>1 DEF Shaped, TypeOK
    <3>3. run[p].params = Output[run[p].doc]
      BY <1>r, <2>1 DEF Sign, RunShape
    <3> QED
      BY <3>2, <3>3 DEF Signatures, QuorumSigned
  <2>2. CASE CheckTxOutSpendable(p) \/ CheckFails(p)
    <3>1. run'[p].doc = run[p].doc /\ run'[p].sigs = run[p].sigs /\ run[p].pc = "check"
      <4>1. CASE CheckTxOutSpendable(p)
        BY <4>1 DEF CheckTxOutSpendable, Shaped, TypeOK
      <4>2. CASE CheckFails(p)
        BY <4>2 DEF CheckFails, SendAnyway, Shaped, TypeOK
      <4> QED
        BY <2>2, <4>1, <4>2
    <3> QED
      BY <3>1 DEF Signed, QuorumSigned
  <2> QED
    BY <1>2, <2>1, <2>2, NextPoint
<1> QED
  BY <1>1, <1>2, OtherRunsUnchanged
  DEF Next, Environment, SaveUnbondingDocument, SpendElsewhere, Mine, Evict, Reorganise, vars

\* Exactly a quorum of the committee the staking output was built from signs what
\* is submitted, for every history of the global parameters.
THEOREM SubmissionIsQuorumSigned == Spec => []SubmitsOnlyQuorumSigned
<1>1. Init => Signed
  BY DEF Init, Signed, Idle, Fresh
<1>2. Signed => SubmitsOnlyQuorumSigned
  BY DEF Signed, QuorumSigned, SubmitsOnlyQuorumSigned
<1> QED
  BY <1>1, <1>2, StepSigned, ShapeInvariant, PTL DEF Spec
--------------------------------------------------------------------------------
(* The documents a run holds are its own, as long as no two runs share them.    *)

\* No two processes have the document still to handle.
Alone(d) == \A p, q \in Procs : d \in Outstanding(p) \cap Outstanding(q) => p = q

Unshared == \A d \in Docs : Alone(d)

\* Ownership of one document.
Owned(d) == \A p \in Procs : d \in Outstanding(p) => status[d] = run[p].queue

\* A run has documents of the collection to handle.
LEMMA OwnershipIsOwned == Shaped => (Ownership <=> \A d \in Docs : Owned(d))
<1>1. Shaped => \A p \in Procs : Outstanding(p) \subseteq Docs
  BY DEF Outstanding, Shaped, TypeOK, Runs
<1> QED
  BY <1>1 DEF Ownership, Owned

\* One process per command is enough for that: its documents were listed for
\* another state than those of the other command.
LEMMA ExclusiveUnshared == Exclusive /\ Shaped /\ Ownership => Unshared
<1> SUFFICES ASSUME Exclusive, Shaped, Ownership,
                    NEW p \in Procs, NEW q \in Procs, p # q,
                    NEW d \in Outstanding(p)
             PROVE  d \notin Outstanding(q)
  BY DEF Unshared, Alone
<1>1. run[p].queue # run[q].queue
  BY DEF Exclusive, Shaped, Shape
<1> QED
  BY <1>1 DEF Ownership

\* What a step leaves a process to do, and the list it comes from.
LEMMA OutstandingShrinks ==
  ASSUME Shaped, Shaped', NEW p \in Procs, Start(p) \/ Step(p) \/ Fails(p)
  PROVE  \/ Outstanding(p)' = {}
         \/ /\ run'[p].queue = run[p].queue
            /\ Outstanding(p)' \subseteq Outstanding(p)
            /\ run[p].pc = "mark" => run[p].doc \notin Outstanding(p)'
         \/ /\ run'[p].queue = run[p].queue
            /\ UNCHANGED status
            /\ Outstanding(p)' = Listed(run[p].queue)
<1> USE DEF Shaped, TypeOK
<1>r. run[p] \in Runs /\ RunShape(run[p])
  BY DEF Shape
<1>1. CASE run'[p].pc \in {"idle", "fetch"} /\ run'[p].doc = NoDoc /\ run'[p].todo = {}
  BY <1>1 DEF Outstanding
<1>2. CASE Fetch(p)
  <2>1. /\ run'[p].todo = Listed(run[p].queue) /\ run'[p].doc = run[p].doc
        /\ run'[p].queue = run[p].queue /\ UNCHANGED status
    BY <1>2 DEF Fetch
  <2>2. run[p].doc = NoDoc
    BY <1>r, <1>2 DEF Fetch, RunShape, Busy
  <2> QED
    BY <2>1, <2>2 DEF Outstanding
<1>3. CASE Mark(p)
  <2>1. /\ run'[p].todo = run[p].todo /\ run'[p].doc = NoDoc
        /\ run'[p].queue = run[p].queue
    BY <1>3 DEF Mark
  <2> QED
    BY <1>r, <2>1 DEF Outstanding, RunShape
<1>4. ASSUME NEW d \in Docs, Lookup(p, d)
      PROVE  /\ run'[p].queue = run[p].queue /\ run[p].pc # "mark"
             /\ Outstanding(p)' \subseteq Outstanding(p)
  <2>1. PICK c : run' = [run EXCEPT ![p].pc = "sign", ![p].doc = d, ![p].params = c,
                                    ![p].todo = @ \ {d}]
    BY <1>4 DEF Lookup
  <2>2. run'[p].todo = run[p].todo \ {d} /\ run'[p].doc = d /\ run'[p].queue = run[p].queue
    BY <2>1
  <2>3. d \in run[p].todo /\ run[p].pc # "mark"
    BY <1>4 DEF Lookup, Takes
  <2> QED
    BY <2>2, <2>3 DEF Outstanding
<1> DEFINE Same == /\ run'[p].todo = run[p].todo /\ run'[p].doc = run[p].doc
                   /\ run'[p].queue = run[p].queue /\ run[p].pc # "mark"
<1>5. CASE Sign(p)
  <2>1. PICK Q : run' = [run EXCEPT ![p].pc = "check", ![p].sigs = Q]
    BY <1>5 DEF Sign
  <2>2. Same
    BY <1>5, <2>1 DEF Sign
  <2> QED
    BY <2>2 DEF Outstanding
<1>6. CASE CheckTxOutSpendable(p)
  <2>1. Same
    BY <1>6 DEF CheckTxOutSpendable
  <2> QED
    BY <2>1 DEF Outstanding
<1>7. CASE CheckFails(p)
  <2>1. Same
    BY <1>7 DEF CheckFails, SendAnyway
  <2> QED
    BY <2>1 DEF Outstanding
<1>8. CASE SignShort(p)
  <2>1. Same
    BY <1>8 DEF SignShort, RecordNoQuorum
  <2> QED
    BY <2>1 DEF Outstanding
<1>9. CASE SendTx(p) \/ SendTxFails(p)
  <2>1. PICK ok : Reports(p, ok)
    BY <1>9 DEF SendTx, SendTxFails
  <2>2. run[p].pc # "mark"
    BY <1>9 DEF SendTx, SendTxFails
  <2>3. Same
    BY <2>1, <2>2 DEF Reports
  <2> QED
    BY <2>3 DEF Outstanding
<1> QED
  BY <1>1, <1>2, <1>3, <1>4, <1>5, <1>6, <1>7, <1>8, <1>9, NextPoint

\* Which documents a process step can move, and to what.
LEMMA StatusMoves ==
  ASSUME Shaped, NEW p \in Procs, Start(p) \/ Step(p) \/ Fails(p), NEW d \in Docs,
         status'[d] # status[d]
  PROVE  /\ run[p].pc = "mark" /\ d = run[p].doc /\ d \in Outstanding(p)
         /\ status'[d] = run[p].outcome /\ UNCHANGED <<utxo, accepted>>
<1>1. (Mark(p) \/ MarkFails(p)) /\ UpdateState(p)
  BY SharedWrites
<1>2. run[p].pc = "mark" /\ UNCHANGED <<utxo, accepted>>
  BY <1>1 DEF Mark, MarkFails
<1>3. d = run[p].doc /\ status'[d] = run[p].outcome
  BY <1>1 DEF UpdateState, Written, Shaped, TypeOK
<1>4. d # NoDoc
  BY DocsAssumption
<1> QED
  BY <1>2, <1>3, <1>4 DEF Outstanding

\* No step takes a document from under the only run that holds it.
LEMMA StepOwned ==
  ASSUME NEW d \in Docs, Alone(d), Shaped, Shaped', Owned(d), [Next]_vars
  PROVE  Owned(d)'
<1> SUFFICES ASSUME NEW q \in Procs, d \in Outstanding(q)'
             PROVE  status'[d] = run'[q].queue
  BY DEF Owned
<1>1. CASE UNCHANGED vars
  BY <1>1 DEF vars, Owned, Outstanding
<1>2. CASE Environment
  <2>1. run' = run
    BY <1>2 DEF Environment, SaveUnbondingDocument, SpendElsewhere, Mine, Evict, Reorganise
  <2>2. status[d] = run[q].queue
    BY <2>1 DEF Owned, Outstanding
  <2>3. status[d] # Absent
    BY <2>2, StatesDistinct DEF Shaped, TypeOK, Runs, Pending
  <2> QED
    BY <1>2, <2>1, <2>2, <2>3
    DEF Environment, SaveUnbondingDocument, SpendElsewhere, Mine, Evict, Reorganise, Shaped, TypeOK
<1>3. ASSUME NEW p \in Procs, Start(p) \/ Step(p) \/ Fails(p)
      PROVE  status'[d] = run'[q].queue
  <2>1. CASE p = q
    <3>1. CASE /\ run'[p].queue = run[p].queue /\ UNCHANGED status
               /\ Outstanding(p)' = Listed(run[p].queue)
      BY <2>1, <3>1 DEF Listed
    <3>2. CASE /\ run'[p].queue = run[p].queue
               /\ Outstanding(p)' \subseteq Outstanding(p)
               /\ run[p].pc = "mark" => run[p].doc \notin Outstanding(p)'
      BY <1>3, <2>1, <3>2, StatusMoves DEF Owned
    <3> QED
      BY <1>3, <2>1, <3>1, <3>2, OutstandingShrinks
  <2>2. CASE p # q
    <3>1. run'[q] = run[q]
      BY <1>3, <2>2, OtherRunsUnchanged
    <3>2. d \in Outstanding(q) /\ d \notin Outstanding(p)
      BY <2>2, <3>1 DEF Alone, Outstanding
    <3> QED
      BY <1>3, <3>1, <3>2, StatusMoves DEF Owned
  <2> QED
    BY <2>1, <2>2
<1> QED
  BY <1>1, <1>2, <1>3 DEF Next

\* No run holds a document at first.
LEMMA InitOwned == Init => Ownership /\ \A d \in Docs : Owned(d)
BY DEF Init, Idle, Fresh, Ownership, Owned, Outstanding

\* A document that no two runs ever hold at once is, while a run holds it, in the
\* state it was listed for, whatever happens to the other documents.
THEOREM OwnedUnlessShared == \A d \in Docs : Spec /\ []Alone(d) => []Owned(d)
<1> SUFFICES ASSUME NEW d \in Docs PROVE Spec /\ []Alone(d) => []Owned(d)
  OBVIOUS
<1>1. Alone(d) /\ Shaped /\ Shaped' /\ Owned(d) /\ [Next]_vars => Owned(d)'
  BY StepOwned
<1>2. Init => Owned(d)
  BY InitOwned
<1> QED
  BY <1>1, <1>2, ShapeInvariant, PTL DEF Spec

\* What a step may do to a settled document that its only run owns.
LEMMA SettledStays ==
  ASSUME NEW d \in Docs, Shaped, Owned(d), [Next]_vars, status[d] \in Terminal
  PROVE  status'[d] = status[d]
<1>1. status[d] \notin Pending \cup {Absent}
  BY StatesDistinct DEF Terminal, Pending
<1>2. ASSUME NEW p \in Procs, Start(p) \/ Step(p) \/ Fails(p), status'[d] # status[d]
      PROVE  FALSE
  <2>1. status[d] = run[p].queue
    BY <1>2, StatusMoves DEF Owned
  <2> QED
    BY <1>1, <1>2, <2>1 DEF Shaped, TypeOK, Runs
<1>3. CASE Environment
  BY <1>1, <1>3
  DEF Environment, SaveUnbondingDocument, SpendElsewhere, Mine, Evict, Reorganise, Shaped, TypeOK
<1> QED
  BY <1>2, <1>3 DEF Next, vars

\* SEND and INPUT_ALREADY_SPENT are final for every document that no two runs ever
\* hold at once, however many processes run and whatever they share besides.
THEOREM SettledUnlessShared ==
  \A d \in Docs : Spec /\ []Alone(d) =>
    [][status[d] \in Terminal => status'[d] = status[d]]_vars
<1> SUFFICES ASSUME NEW d \in Docs
             PROVE  Spec /\ []Alone(d) =>
                      [][status[d] \in Terminal => status'[d] = status[d]]_vars
  OBVIOUS
<1>1. Shaped /\ Owned(d) /\ [Next]_vars
        => [status[d] \in Terminal => status'[d] = status[d]]_vars
  BY SettledStays
<1>2. Spec /\ []Alone(d) => []Owned(d)
  BY OwnedUnlessShared
<1> QED
  BY <1>1, <1>2, ShapeInvariant, PTL DEF Spec

\* With one process per command, every document a run still has to handle is in
\* the state its list was fetched for: the writes by _id alone are safe.
THEOREM OwnershipHolds == Exclusive => (Spec => []Ownership)
<1> SUFFICES ASSUME Exclusive PROVE Spec => []Ownership
  OBVIOUS
<1>1. Shaped /\ Shaped' /\ Ownership /\ [Next]_vars => Ownership'
  <2> SUFFICES ASSUME Shaped, Shaped', Ownership, [Next]_vars PROVE Ownership'
    OBVIOUS
  <2>1. Unshared /\ \A d \in Docs : Owned(d)
    BY ExclusiveUnshared, OwnershipIsOwned
  <2>2. \A d \in Docs : Owned(d)'
    BY <2>1, StepOwned DEF Unshared
  <2> QED
    BY <2>2 DEF Ownership, Owned, Outstanding, Shaped, TypeOK, Runs
<1> QED
  BY <1>1, InitOwned, ShapeInvariant, PTL DEF Spec

\* SEND and INPUT_ALREADY_SPENT are final when each command has one process.
THEOREM SettledIsFinal == Exclusive => (Spec => TerminalStable)
<1> SUFFICES ASSUME Exclusive PROVE Spec => TerminalStable
  OBVIOUS
<1>1. Shaped /\ Ownership /\ [Next]_vars
        => [\A d \in Docs : status[d] \in Terminal => status'[d] = status[d]]_vars
  BY SettledStays, OwnershipIsOwned
<1> QED
  BY <1>1, OwnershipHolds, ShapeInvariant, PTL DEF Spec, TerminalStable
--------------------------------------------------------------------------------
(* What holds however many processes each command has.                         *)

\* A process writes one of the four outcomes, so no step makes a document new.
THEOREM FailuresAreNotNew == Spec => NeverReinserted
<1>1. ASSUME Shaped, [Next]_vars, NEW d \in Docs, status[d] \notin {Absent, Inserted}
      PROVE  status'[d] \notin {Absent, Inserted}
  <2>1. ASSUME NEW p \in Procs, Start(p) \/ Step(p) \/ Fails(p), status'[d] # status[d]
        PROVE  status'[d] \notin {Absent, Inserted}
    <3>1. run[p].pc = "mark" /\ status'[d] = run[p].outcome
      BY <1>1, <2>1, StatusMoves
    <3>2. run[p].outcome \in States \ {Inserted}
      BY <1>1, <3>1 DEF Shaped, Shape, RunShape
    <3> QED
      BY <3>1, <3>2, StatesDistinct DEF States, Pending, Terminal
  <2>2. CASE Environment
    BY <1>1, <2>2
    DEF Environment, SaveUnbondingDocument, SpendElsewhere, Mine, Evict, Reorganise, Shaped, TypeOK
  <2> QED
    BY <1>1, <2>1, <2>2 DEF Next, vars
<1>2. Shaped /\ [Next]_vars
        => [\A d \in Docs : status[d] \notin {Absent, Inserted} =>
              status'[d] \notin {Absent, Inserted}]_vars
  BY <1>1
<1> QED
  BY <1>2, ShapeInvariant, PTL DEF Spec, NeverReinserted

\* Documents with bad data are never listed as decodable, looked up with success,
\* or held: the strengthening of BadDataNeverMoves.
Untouched ==
  /\ BadDataNeverMoves
  /\ \A p \in Procs : run[p].doc # NoDoc => ~Bad(run[p].doc)
  /\ \A p \in Procs : run[p].todo \cap Malformed = {}

\* What is looked up with success is good, and the oldest document of the list.
LEMMA LookupIsGood ==
  ASSUME Shaped, Untouched, NEW p \in Procs, NEW d \in Docs, Lookup(p, d)
  PROVE  /\ ~Bad(d) /\ d \in run[p].todo /\ \A e \in run[p].todo : d <= e
         /\ run'[p].doc = d /\ run'[p].todo = run[p].todo \ {d}
         /\ run'[p].batch = run[p].batch
<1> USE DEF Shaped, TypeOK
<1>1. PICK c \in Recovered(d) :
        /\ OutputsAreEqual(c, d)
        /\ run' = [run EXCEPT ![p].pc = "sign", ![p].doc = d, ![p].params = c,
                              ![p].todo = @ \ {d}]
  BY DEF Lookup
<1>2. run'[p].doc = d /\ run'[p].todo = run[p].todo \ {d} /\ run'[p].batch = run[p].batch
  BY <1>1
<1>3. d \in run[p].todo /\ (\A e \in run[p].todo : d <= e) /\ d \notin OutOfRange
  BY DEF Lookup, Takes
<1>4. d \notin Malformed
  BY <1>3 DEF Untouched
<1>5. ~Bad(d)
  BY <1>1, <1>3, <1>4 DEF Bad, OutputsAreEqual
<1> QED
  BY <1>2, <1>3, <1>5

\* What a process takes up and what remains on its list.
LEMMA WorkMoves ==
  ASSUME Shaped, NEW p \in Procs, Start(p) \/ Step(p) \/ Fails(p), Untouched
  PROVE  /\ run'[p].doc \in {NoDoc, run[p].doc} \/ ~Bad(run'[p].doc)
         /\ run'[p].todo \cap Malformed = {}
<1> USE DEF Shaped, TypeOK
<1>1. CASE run'[p].doc = NoDoc /\ run'[p].todo = {}
  BY <1>1
<1>2. CASE Fetch(p)
  BY <1>2 DEF Fetch
<1>3. ASSUME NEW d \in Docs, Lookup(p, d)
      PROVE  run'[p].doc = d /\ ~Bad(d) /\ run'[p].todo \cap Malformed = {}
  BY <1>3, LookupIsGood DEF Untouched
<1>4. CASE Sign(p)
  <2>1. run'[p].doc = run[p].doc /\ run'[p].todo = run[p].todo
    BY <1>4 DEF Sign
  <2> QED
    BY <2>1 DEF Untouched
<1>5. CASE SignShort(p) \/ CheckTxOutSpendable(p) \/ CheckFails(p)
  <2>s. CASE SignShort(p)
    BY <2>s DEF SignShort, RecordNoQuorum, Untouched
  <2>c. CASE CheckTxOutSpendable(p)
    BY <2>c DEF CheckTxOutSpendable, Untouched
  <2>1. CASE CheckFails(p)
    BY <2>1 DEF CheckFails, SendAnyway, Untouched
  <2> QED
    BY <1>5, <2>s, <2>c, <2>1
<1>6. CASE SendTx(p) \/ SendTxFails(p)
  <2>1. PICK ok \in BOOLEAN : Reports(p, ok)
    BY <1>6 DEF SendTx, SendTxFails, Accepts
  <2>2. run'[p].doc = run[p].doc /\ run'[p].todo = run[p].todo
    BY <2>1 DEF Reports
  <2> QED
    BY <2>2 DEF Untouched
<1>7. CASE Mark(p)
  <2>1. run'[p].doc = NoDoc /\ run'[p].todo = run[p].todo
    BY <1>7 DEF Mark
  <2> QED
    BY <2>1 DEF Untouched
<1> QED
  BY <1>1, <1>2, <1>3, <1>4, <1>5, <1>6, <1>7, NextPoint

\* Every step leaves bad documents where they are.
LEMMA StepUntouched == Shaped /\ Untouched /\ [Next]_vars => Untouched'
<1> SUFFICES ASSUME Shaped, Untouched, [Next]_vars PROVE Untouched'
  OBVIOUS
<1>1. CASE UNCHANGED vars
  BY <1>1 DEF vars, Untouched, BadDataNeverMoves, Bad
<1>2. CASE Environment
  <2>1. run' = run /\ accepted' = accepted
    BY <1>2 DEF Environment, SaveUnbondingDocument, SpendElsewhere, Mine, Evict, Reorganise
  <2>2. ASSUME NEW d \in Docs, status'[d] # status[d]
        PROVE  status'[d] = Inserted
    BY <1>2, <2>2
    DEF Environment, SaveUnbondingDocument, SpendElsewhere, Mine, Evict, Reorganise, Shaped, TypeOK
  <2> QED
    BY <2>1, <2>2 DEF Untouched, BadDataNeverMoves, Bad
<1>3. ASSUME NEW p \in Procs, Start(p) \/ Step(p) \/ Fails(p)
      PROVE  Untouched'
  <2>1. ASSUME NEW d \in Docs, Bad(d)
        PROVE  status'[d] \in {Absent, Inserted} /\ d \notin accepted'
    <3>1. run[p].doc # d
      BY <2>1, DocsAssumption DEF Untouched
    <3>2. status'[d] = status[d]
      BY <1>3, <3>1, StatusMoves
    <3>3. CASE SendTx(p) \/ SendTxFails(p)
      BY <2>1, <3>1, <3>2, <3>3 DEF SendTx, SendTxFails, Take, Untouched, BadDataNeverMoves
    <3> QED
      BY <1>3, <2>1, <3>2, <3>3, SharedWrites DEF Untouched, BadDataNeverMoves
  <2>2. ASSUME NEW q \in Procs
        PROVE  /\ run'[q].doc # NoDoc => ~Bad(run'[q].doc)
               /\ run'[q].todo \cap Malformed = {}
    <3>1. CASE q = p
      BY <1>3, <3>1, WorkMoves DEF Untouched
    <3>2. CASE q # p
      BY <1>3, <3>2, OtherRunsUnchanged DEF Untouched
    <3> QED
      BY <3>1, <3>2
  <2> QED
    BY <2>1, <2>2 DEF Untouched, BadDataNeverMoves, Bad
<1> QED
  BY <1>1, <1>2, <1>3 DEF Next

\* Every behaviour keeps bad documents where they are, and off every process.
LEMMA UntouchedInvariant == Spec => []Untouched
<1>1. Init => Untouched
  BY DEF Init, Idle, Fresh, Untouched, BadDataNeverMoves
<1> QED
  BY <1>1, StepUntouched, ShapeInvariant, PTL DEF Spec

\* No document with bad data is signed for, submitted or moved, whatever else is on
\* the lists and however many processes read them.
THEOREM BadDataStays == Spec => []BadDataNeverMoves
<1>1. Untouched => BadDataNeverMoves
  BY DEF Untouched
<1> QED
  BY <1>1, UntouchedInvariant, PTL

\* The strengthening of NothingPassesBadData: what a run has taken off its list is
\* good, and what is left is younger than the document in its hands.
InOrder(r) ==
  /\ \A d \in r.batch \ r.todo : ~Bad(d)
  /\ r.doc # NoDoc => \A e \in r.todo : r.doc < e

\* A step of a process keeps its list in order.
LEMMA ProcessInOrder ==
  ASSUME Shaped, Untouched, NEW p \in Procs, Start(p) \/ Step(p) \/ Fails(p),
         InOrder(run[p])
  PROVE  InOrder(run'[p])
<1> USE DEF Shaped, TypeOK
<1> DEFINE Same == /\ run'[p].batch = run[p].batch /\ run'[p].todo = run[p].todo
                   /\ run'[p].doc \in {NoDoc, run[p].doc}
<1>s. Same => InOrder(run'[p])
  BY DEF InOrder
<1>1. CASE Start(p) \/ NextQueue(p)
  BY <1>1 DEF Start, NextQueue, Fresh, InOrder
<1>2. CASE FetchMalformed(p) \/ FetchFails(p) \/ Finish(p) \/ Crash(p) \/ MarkFails(p)
  BY <1>2 DEF FetchMalformed, FetchFails, Finish, Crash, MarkFails, Exit, Idle, Fresh, InOrder
<1>3. ASSUME NEW d \in Docs, LookupBadData(p, d) \/ LookupPanics(p, d) \/ LookupFails(p, d)
      PROVE  InOrder(run'[p])
  BY <1>3 DEF LookupBadData, LookupPanics, LookupFails, Exit, Idle, Fresh, InOrder
<1>4. CASE Fetch(p)
  <2>1. run[p].doc = NoDoc
    BY <1>4 DEF Shape, RunShape, Busy, Fetch
  <2>2. run'[p].batch = run'[p].todo /\ run'[p].doc = run[p].doc
    BY <1>4 DEF Fetch
  <2> QED
    BY <2>1, <2>2 DEF InOrder
<1>5. ASSUME NEW d \in Docs, Lookup(p, d)
      PROVE  InOrder(run'[p])
  <2>1. /\ ~Bad(d) /\ run'[p].doc = d /\ run'[p].todo = run[p].todo \ {d}
        /\ run'[p].batch = run[p].batch /\ \A e \in run[p].todo : d <= e
    BY <1>5, LookupIsGood
  <2>2. run[p].todo \subseteq Nat /\ d \in Nat
    BY DocsAssumption DEF Runs
  <2>3. ASSUME NEW e \in run[p].todo \ {d}
        PROVE  d < e
    BY <2>1, <2>2
  <2> QED
    BY <2>1, <2>3 DEF InOrder
<1>6. CASE Sign(p) \/ SignShort(p)
  <2>1. CASE Sign(p)
    <3>1. PICK Q : run' = [run EXCEPT ![p].pc = "check", ![p].sigs = Q]
      BY <2>1 DEF Sign
    <3>2. Same
      BY <3>1
    <3> QED
      BY <3>2, <1>s
  <2>2. CASE SignShort(p)
    <3>1. Same
      BY <2>2 DEF SignShort, RecordNoQuorum
    <3> QED
      BY <3>1, <1>s
  <2> QED
    BY <1>6, <2>1, <2>2
<1>7. CASE CheckTxOutSpendable(p) \/ CheckFails(p)
  <2>1. CASE CheckTxOutSpendable(p)
    <3>1. Same
      BY <2>1 DEF CheckTxOutSpendable
    <3> QED
      BY <3>1, <1>s
  <2>2. CASE CheckFails(p)
    <3>1. Same
      BY <2>2 DEF CheckFails, SendAnyway
    <3> QED
      BY <3>1, <1>s
  <2> QED
    BY <1>7, <2>1, <2>2
<1>8. CASE SendTx(p) \/ SendTxFails(p)
  <2>1. PICK ok : Reports(p, ok)
    BY <1>8 DEF SendTx, SendTxFails
  <2>2. Same
    BY <2>1 DEF Reports
  <2> QED
    BY <2>2, <1>s
<1>9. CASE Mark(p)
  <2>1. Same
    BY <1>9 DEF Mark
  <2> QED
    BY <2>1, <1>s
<1> QED
  BY <1>1, <1>2, <1>3, <1>4, <1>5, <1>6, <1>7, <1>8, <1>9 DEF Step, Fails

\* "We stop processing": no document listed after one with bad data is ever worked
\* on, for every collection and every number of processes.
THEOREM NothingPasses == Spec => []NothingPassesBadData
<1> DEFINE Ordered == \A p \in Procs : InOrder(run[p])
<1>1. Init => Ordered
  BY DEF Init, Idle, Fresh, InOrder
<1>2. Shaped /\ Untouched /\ Ordered /\ [Next]_vars => Ordered'
  <2> SUFFICES ASSUME Shaped, Untouched, Ordered, [Next]_vars, NEW q \in Procs
               PROVE  InOrder(run'[q])
    BY DEF InOrder, Bad
  <2>1. CASE run'[q] = run[q]
    BY <2>1
  <2>2. CASE Start(q) \/ Step(q) \/ Fails(q)
    BY <2>2, ProcessInOrder
  <2>3. CASE Environment \/ UNCHANGED vars
    BY <2>1, <2>3
    DEF Environment, SaveUnbondingDocument, SpendElsewhere, Mine, Evict, Reorganise, vars
  <2> QED
    BY <2>1, <2>2, <2>3, OtherRunsUnchanged DEF Next
<1>3. Ordered => NothingPassesBadData
  BY DEF InOrder, NothingPassesBadData
<1> QED
  BY <1>1, <1>2, <1>3, UntouchedInvariant, ShapeInvariant, PTL DEF Spec

\* How a step changes what a process fetched and what it has left to do.
LEMMA BatchMoves ==
  ASSUME Shaped, NEW p \in Procs, Start(p) \/ Step(p) \/ Fails(p)
  PROVE  \/ run'[p].batch = {}
         \/ /\ run'[p].batch = Listed(run[p].queue) /\ UNCHANGED status
            /\ run'[p].batch \subseteq Outstanding(p)'
         \/ run'[p].batch = run[p].batch /\ Outstanding(p) \subseteq Outstanding(p)'
         \/ /\ run'[p].batch = run[p].batch /\ Mark(p)
            /\ Outstanding(p) \subseteq Outstanding(p)' \cup {run[p].doc}
<1> USE DEF Shaped, TypeOK
<1>r. run[p] \in Runs /\ RunShape(run[p])
  BY DEF Shape
<1>1. CASE Start(p) \/ NextQueue(p)
  BY <1>1 DEF Start, NextQueue, Fresh
<1>2. CASE FetchMalformed(p) \/ FetchFails(p) \/ Finish(p) \/ Crash(p) \/ MarkFails(p)
  BY <1>2 DEF FetchMalformed, FetchFails, Finish, Crash, MarkFails, Exit, Idle, Fresh
<1>3. ASSUME NEW d \in Docs, LookupBadData(p, d) \/ LookupPanics(p, d) \/ LookupFails(p, d)
      PROVE  run'[p].batch = {}
  BY <1>3 DEF LookupBadData, LookupPanics, LookupFails, Exit, Idle, Fresh
<1>4. CASE Fetch(p)
  BY <1>4 DEF Fetch, Outstanding
<1>5. ASSUME NEW d \in Docs, Lookup(p, d)
      PROVE  run'[p].batch = run[p].batch /\ Outstanding(p) \subseteq Outstanding(p)'
  <2>1. PICK c : run' = [run EXCEPT ![p].pc = "sign", ![p].doc = d, ![p].params = c,
                                    ![p].todo = @ \ {d}]
    BY <1>5 DEF Lookup
  <2>2. run[p].doc = NoDoc
    BY <1>r, <1>5 DEF Lookup, Takes, RunShape, Busy
  <2>3. d # NoDoc
    BY DocsAssumption
  <2> QED
    BY <2>1, <2>2, <2>3 DEF Outstanding
<1>6. CASE Sign(p) \/ SignShort(p)
  <2>1. CASE Sign(p)
    <3>1. PICK Q : run' = [run EXCEPT ![p].pc = "check", ![p].sigs = Q]
      BY <2>1 DEF Sign
    <3> QED
      BY <3>1 DEF Outstanding
  <2>2. CASE SignShort(p)
    BY <2>2 DEF SignShort, RecordNoQuorum, Outstanding
  <2> QED
    BY <1>6, <2>1, <2>2
<1>7. CASE CheckTxOutSpendable(p) \/ CheckFails(p)
  <2>1. CASE CheckTxOutSpendable(p)
    BY <2>1 DEF CheckTxOutSpendable, Outstanding
  <2>2. CASE CheckFails(p)
    BY <2>2 DEF CheckFails, SendAnyway, Outstanding
  <2> QED
    BY <1>7, <2>1, <2>2
<1>8. CASE SendTx(p) \/ SendTxFails(p)
  <2>1. PICK ok \in BOOLEAN : Reports(p, ok)
    BY <1>8 DEF SendTx, SendTxFails, Accepts
  <2> QED
    BY <2>1 DEF Reports, Outstanding
<1>9. CASE Mark(p)
  BY <1>9 DEF Mark, Outstanding
<1> QED
  BY <1>1, <1>2, <1>3, <1>4, <1>5, <1>6, <1>7, <1>8, <1>9 DEF Step, Fails

\* The strengthening of HandledLeaveQueue: what was listed is in the collection, so
\* the staking API cannot write it as new.
Handled ==
  /\ HandledLeaveQueue
  /\ \A p \in Procs : \A d \in run[p].batch : d \in Docs /\ status[d] # Absent

\* Every step takes what a run has handled off the list of new documents.
LEMMA StepHandled == Shaped /\ Handled /\ [Next]_vars => Handled'
<1> SUFFICES ASSUME Shaped, Handled, [Next]_vars PROVE Handled'
  OBVIOUS
<1>1. CASE UNCHANGED vars
  BY <1>1 DEF vars, Handled, HandledLeaveQueue, Outstanding
<1>2. CASE Environment
  <2>1. run' = run
    BY <1>2 DEF Environment, SaveUnbondingDocument, SpendElsewhere, Mine, Evict, Reorganise
  <2>2. \A d \in Docs : status[d] # Absent => status'[d] = status[d]
    BY <1>2
    DEF Environment, SaveUnbondingDocument, SpendElsewhere, Mine, Evict, Reorganise, Shaped, TypeOK
  <2> QED
    BY <2>1, <2>2 DEF Handled, HandledLeaveQueue, Outstanding
<1>3. ASSUME NEW p \in Procs, Start(p) \/ Step(p) \/ Fails(p)
      PROVE  Handled'
  <2>1. ASSUME NEW d \in Docs
        PROVE  /\ status'[d] = status[d] \/ status'[d] \in States \ {Inserted}
               /\ Mark(p) /\ d = run[p].doc => status'[d] # Inserted
    <3>1. run[p].pc = "mark" => run[p].outcome \in States \ {Inserted}
      BY DEF Shaped, Shape, RunShape
    <3>2. Mark(p) /\ d = run[p].doc => status'[d] = run[p].outcome /\ run[p].pc = "mark"
      BY DEF Mark, UpdateState, Written, Shaped, TypeOK
    <3> QED
      BY <1>3, <3>1, <3>2, StatusMoves
  <2>2. ASSUME NEW q \in Procs, NEW d \in run'[q].batch
        PROVE  /\ d \in Docs /\ status'[d] # Absent
               /\ q \in NewRuns /\ d \notin Outstanding(q)' => status'[d] # Inserted
    <3>1. CASE q # p
      <4>1. run'[q] = run[q]
        BY <1>3, <3>1, OtherRunsUnchanged
      <4> QED
        BY <2>1, <2>2, <4>1, StatesDistinct
        DEF Handled, HandledLeaveQueue, Outstanding, States, Pending, Terminal
    <3>2. CASE q = p
      <4>1. CASE run'[p].batch = Listed(run[p].queue) /\ UNCHANGED status
                 /\ run'[p].batch \subseteq Outstanding(p)'
        <5>1. run[p].queue # Absent
          BY StatesDistinct DEF Shaped, TypeOK, Runs, Pending
        <5> QED
          BY <2>2, <3>2, <4>1, <5>1 DEF Listed, Outstanding
      <4>2. CASE /\ run'[p].batch = run[p].batch
                 /\ \/ Outstanding(p) \subseteq Outstanding(p)'
                    \/ Mark(p) /\ Outstanding(p) \subseteq Outstanding(p)' \cup {run[p].doc}
        <5>1. d \in Docs /\ status[d] # Absent
          BY <2>2, <3>2, <4>2 DEF Handled
        <5>2. status'[d] # Absent
          BY <2>1, <5>1, StatesDistinct DEF States, Pending, Terminal
        <5>3. ASSUME p \in NewRuns, d \notin Outstanding(p)'
              PROVE  status'[d] # Inserted
          <6>1. CASE d \in Outstanding(p)
            BY <2>1, <4>2, <5>1, <5>3, <6>1
          <6>2. CASE d \notin Outstanding(p)
            BY <2>1, <2>2, <3>2, <4>2, <5>1, <5>3, <6>2 DEF Handled, HandledLeaveQueue
          <6> QED
            BY <6>1, <6>2
        <5> QED
          BY <3>2, <5>1, <5>2, <5>3 DEF Outstanding
      <4> QED
        BY <1>3, <2>2, <3>2, <4>1, <4>2, BatchMoves
    <3> QED
      BY <3>1, <3>2
  <2>3. \A q \in NewRuns : \A d \in (run[q].batch \ Outstanding(q))' : status'[d] # Inserted
    BY <2>2
  <2> QED
    BY <2>2, <2>3 DEF Handled, HandledLeaveQueue
<1> QED
  BY <1>1, <1>2, <1>3 DEF Next

\* A new run never moves on from a document that is still on the list of new ones,
\* whatever other processes of its command do.
THEOREM HandledDocumentsLeaveQueue == Spec => []HandledLeaveQueue
<1>1. Init => Handled
  BY DEF Init, Idle, Fresh, Handled, HandledLeaveQueue
<1>2. Handled => HandledLeaveQueue
  BY DEF Handled
<1> QED
  BY <1>1, <1>2, StepHandled, ShapeInvariant, PTL DEF Spec
--------------------------------------------------------------------------------
(* The pipeline implements the lifecycle.                                      *)

Gone == {d \in Docs : utxo[d] = "other"}

EverSpent == {d \in Docs : utxo[d] # "unspent"}

\* The abstract specification names the same states.
LEMMA SameStates ==
  /\ Lifecycle!Inserted = Inserted /\ Lifecycle!Send = Send /\ Lifecycle!Failed = Failed
  /\ Lifecycle!InputAlreadySpent = InputAlreadySpent /\ Lifecycle!Absent = Absent
  /\ Lifecycle!FailedToGetCovenantSignatures = FailedToGetCovenantSignatures
  /\ Lifecycle!Pending = Pending
BY DEF Lifecycle!Inserted, Inserted, Lifecycle!Send, Send, Lifecycle!Failed, Failed,
       Lifecycle!InputAlreadySpent, InputAlreadySpent, Lifecycle!Absent, Absent,
       Lifecycle!FailedToGetCovenantSignatures, FailedToGetCovenantSignatures,
       Lifecycle!Pending, Pending

\* Each action of the lifecycle is one of its steps.
LEMMA LifecycleActions ==
  ASSUME NEW d \in Docs,
         \/ Lifecycle!AddTx(d) \/ Lifecycle!Accept(d)
         \/ Lifecycle!SpendElsewhere(d) \/ Lifecycle!Release(d)
         \/ Lifecycle!SetProcessed(d) \/ Lifecycle!SetAlreadySpent(d)
         \/ Lifecycle!SetFailed(d)
  PROVE  Lifecycle!Next
BY DEF Lifecycle!Next

\* Initial states map to initial states.
LEMMA InitImplements == Init => Lifecycle!Init
BY SameStates DEF Init, Lifecycle!Init

\* Steps of the staking API and of the network map to the lifecycle's, or stutter.
LEMMA EnvironmentImplements ==
  ASSUME Shaped, Environment
  PROVE  [Lifecycle!Next]_(Lifecycle!vars)
<1> USE DEF Shaped, TypeOK, Lifecycle!vars
<1>1. PICK d \in Docs : SaveUnbondingDocument(d) \/ SpendElsewhere(d) \/ Mine(d)
                      \/ Evict(d) \/ Reorganise(d)
  BY DEF Environment
<1>2. CASE SaveUnbondingDocument(d)
  <2>1. Lifecycle!AddTx(d)
    BY <1>2, SameStates DEF SaveUnbondingDocument, Lifecycle!AddTx
  <2> QED
    BY <2>1, LifecycleActions
<1>3. CASE SpendElsewhere(d)
  <2>1. Gone' = Gone \cup {d} /\ EverSpent' = EverSpent \cup {d}
    BY <1>3 DEF SpendElsewhere, Gone, EverSpent
  <2>2. Lifecycle!SpendElsewhere(d)
    BY <1>3, <2>1 DEF SpendElsewhere, Gone, EverSpent, Lifecycle!SpendElsewhere
  <2> QED
    BY <2>2, LifecycleActions
<1>4. CASE Mine(d) \/ Reorganise(d)
  <2>1. Gone' = Gone /\ EverSpent' = EverSpent /\ UNCHANGED <<status, accepted>>
    BY <1>4 DEF Mine, Reorganise, Gone, EverSpent
  <2> QED
    BY <2>1 DEF Gone, EverSpent
<1>5. CASE Evict(d)
  <2>1. Gone' = Gone \ {d} /\ EverSpent' = EverSpent /\ UNCHANGED <<status, accepted>>
    BY <1>5 DEF Evict, Gone, EverSpent
  <2>2. Lifecycle!Release(d)
    BY <2>1 DEF Gone, EverSpent, Lifecycle!Release
  <2> QED
    BY <2>2, LifecycleActions
<1> QED
  BY <1>1, <1>2, <1>3, <1>4, <1>5

\* A submission is made for a document that is still pending, so the node takes
\* nothing for a document that has settled.
LEMMA SubmissionImplements ==
  ASSUME Shaped, Ownership, NEW p \in Procs, SendTx(p) \/ SendTxFails(p)
  PROVE  [Lifecycle!Next]_(Lifecycle!vars)
<1> USE DEF Shaped, TypeOK
<1>1. UNCHANGED status /\ run[p].pc = "send"
  BY DEF SendTx, SendTxFails
<1>2. PICK d \in Docs : d = run[p].doc /\ d \in Outstanding(p)
  BY <1>1, DocsAssumption DEF Shape, RunShape, Busy, Runs, Outstanding
<1>3. status[d] \in Pending
  BY <1>2 DEF Ownership, Runs
<1>4. CASE UNCHANGED <<utxo, accepted>>
  BY <1>1, <1>4 DEF Lifecycle!vars
<1>5. CASE Accepts(d) /\ Take(d)
  <2>1. Gone' = Gone /\ d \notin Gone
    BY <1>5 DEF Accepts, Free, Take, Gone
  <2>2. EverSpent' = EverSpent \cup {d}
    BY <1>5 DEF Take, EverSpent
  <2>3. Lifecycle!Accept(d)
    BY <1>1, <1>3, <1>5, <2>1, <2>2, SameStates
    DEF Take, Gone, EverSpent, Lifecycle!Accept
  <2> QED
    BY <2>3, LifecycleActions
<1> QED
  BY <1>2, <1>4, <1>5 DEF SendTx, SendTxFails

\* An update maps to the setter of the state it writes.
LEMMA WriteImplements ==
  ASSUME Shaped, Evidence, Ownership, NEW p \in Procs, Mark(p) \/ MarkFails(p)
  PROVE  [Lifecycle!Next]_(Lifecycle!vars)
<1> USE DEF Shaped, TypeOK
<1> DEFINE d == run[p].doc
<1>1. /\ UNCHANGED <<utxo, accepted>> /\ run[p].pc = "mark"
      /\ Gone' = Gone /\ EverSpent' = EverSpent
  BY DEF Mark, MarkFails, Gone, EverSpent
<1>2. d \in Docs /\ d \in Outstanding(p)
  BY <1>1, DocsAssumption DEF Shape, RunShape, Busy, Runs, Outstanding
<1>3. status[d] \in Pending
  BY <1>2 DEF Ownership, Runs
<1>4. CASE UNCHANGED status
  BY <1>1, <1>4 DEF Lifecycle!vars, Gone, EverSpent
<1>5. CASE UpdateState(p)
  <2>1. status' = [status EXCEPT ![d] = run[p].outcome]
    BY <1>5 DEF UpdateState, Written
  <2>2. run[p].outcome \in {Send, InputAlreadySpent, Failed, FailedToGetCovenantSignatures}
    BY <1>1 DEF Shape, RunShape, States, Pending, Terminal
  <2>3. CASE run[p].outcome = Send
    <3>1. Lifecycle!SetProcessed(d)
      BY <1>1, <1>3, <2>1, <2>3, SameStates
      DEF Evidence, Gone, EverSpent, Lifecycle!SetProcessed
    <3> QED
      BY <1>2, <3>1, LifecycleActions
  <2>4. CASE run[p].outcome = InputAlreadySpent
    <3>1. d \in EverSpent
      BY <1>1, <1>2, <2>4 DEF Evidence, Spent, EverSpent
    <3>2. Lifecycle!SetAlreadySpent(d)
      BY <1>1, <1>3, <2>1, <2>4, <3>1, SameStates
      DEF Gone, EverSpent, Lifecycle!SetAlreadySpent
    <3> QED
      BY <1>2, <3>2 DEF Lifecycle!Next
  <2>5. CASE run[p].outcome \in {Failed, FailedToGetCovenantSignatures}
    <3>1. Lifecycle!SetFailed(d)
      BY <1>1, <1>3, <2>1, <2>5, SameStates
      DEF Gone, EverSpent, Lifecycle!SetFailed
    <3> QED
      BY <1>2, <3>1, LifecycleActions
  <2> QED
    BY <2>2, <2>3, <2>4, <2>5
<1> QED
  BY <1>4, <1>5 DEF Mark, MarkFails

\* Every step of the pipeline maps to one of the lifecycle, or stutters.
LEMMA StepImplements ==
  Shaped /\ Evidence /\ Ownership /\ [Next]_vars => [Lifecycle!Next]_(Lifecycle!vars)
<1> SUFFICES ASSUME Shaped, Evidence, Ownership, [Next]_vars
             PROVE  [Lifecycle!Next]_(Lifecycle!vars)
  OBVIOUS
<1>1. CASE UNCHANGED <<status, utxo, accepted>>
  BY <1>1 DEF Lifecycle!vars
<1>2. CASE Environment
  BY <1>2, EnvironmentImplements
<1>3. ASSUME NEW p \in Procs, Start(p) \/ Step(p) \/ Fails(p)
      PROVE  [Lifecycle!Next]_(Lifecycle!vars)
  <2>1. \/ UNCHANGED <<status, utxo, accepted>>
        \/ Mark(p) \/ MarkFails(p) \/ SendTx(p) \/ SendTxFails(p)
    BY <1>3, SharedWrites
  <2> QED
    BY <1>1, <2>1, SubmissionImplements, WriteImplements
<1> QED
  BY <1>1, <1>2, <1>3 DEF Next, vars

\* As long as no two runs hold one document, every behaviour of the pipeline,
\* crashes, lost replies and overlapping runs included, is one of the lifecycle.
THEOREM UnsharedImplementsLifecycle == Spec /\ []Unshared => LifecycleSpec
<1>1. Shaped /\ Shaped' /\ Unshared /\ Ownership /\ [Next]_vars => Ownership'
  <2> SUFFICES ASSUME Shaped, Shaped', Unshared, Ownership, [Next]_vars PROVE Ownership'
    OBVIOUS
  <2>1. \A d \in Docs : Owned(d)
    BY OwnershipIsOwned
  <2>2. \A d \in Docs : Owned(d)'
    BY <2>1, StepOwned DEF Unshared
  <2> QED
    BY <2>2 DEF Ownership, Owned, Outstanding, Shaped, TypeOK, Runs
<1>2. Spec /\ []Unshared => []Ownership
  BY <1>1, InitOwned, ShapeInvariant, PTL DEF Spec
<1> QED
  BY <1>2, InitImplements, StepImplements, EvidenceInvariant, ShapeInvariant, PTL
  DEF Spec, LifecycleSpec, Lifecycle!Spec

\* One process per command is enough for that.
THEOREM PipelineImplementsLifecycle == Exclusive => (Spec => LifecycleSpec)
<1> SUFFICES ASSUME Exclusive PROVE Spec => LifecycleSpec
  OBVIOUS
<1>1. Spec => []Ownership
  BY OwnershipHolds
<1>2. Shaped /\ Ownership => Unshared
  BY ExclusiveUnshared
<1> QED
  BY <1>1, <1>2, ShapeInvariant, UnsharedImplementsLifecycle, PTL
--------------------------------------------------------------------------------
(* A run has only so many steps, and always one it can take.                   *)

\* A list costs a fetch, five steps for each document on it, and one to leave it.
PerList == 5 * Cardinality(Docs) + 2

\* The steps a run can still take.
WorkLeft(r) ==
  IF r.pc = "idle" THEN 0
  ELSE (IF r.queue = FailedToGetCovenantSignatures THEN PerList ELSE 0)
       + (IF r.pc = "fetch" THEN PerList
          ELSE 5 * Cardinality(r.todo) + (CASE r.pc = "next"  -> 1
                                            [] r.pc = "sign"  -> 5
                                            [] r.pc = "check" -> 4
                                            [] r.pc = "send"  -> 3
                                            [] r.pc = "mark"  -> 2))

\* Whatever the other processes do, a run only ever gets shorter: its lists do not
\* grow while it works on them, no document is taken up twice and no list is fetched
\* twice.
RunsGetShorter ==
  [][\A p \in Procs : run[p].pc # "idle" /\ run'[p] # run[p] =>
       WorkLeft(run'[p]) < WorkLeft(run[p])]_vars

\* There is a number of documents on a list.
LEMMA ListCount ==
  ASSUME NEW T \in SUBSET Docs
  PROVE  /\ IsFiniteSet(T) /\ Cardinality(T) \in Nat /\ Cardinality(Docs) \in Nat
         /\ Cardinality(T) <= Cardinality(Docs)
         /\ \A d \in T : Cardinality(T \ {d}) = Cardinality(T) - 1
<1>1. IsFiniteSet(T) /\ Cardinality(T) \in Nat /\ Cardinality(Docs) \in Nat
      /\ Cardinality(T) <= Cardinality(Docs)
  BY FiniteAssumption, FS_Subset, FS_CardinalityType
<1>2. \A d \in T : Cardinality(T \ {d}) = Cardinality(T) - 1
  BY <1>1, FS_RemoveElement
<1> QED
  BY <1>1, <1>2

\* A run that is under way has a step left, and no more than two lists' worth.
LEMMA WorkBounds ==
  ASSUME Shaped, NEW p \in Procs, run[p].pc # "idle"
  PROVE  WorkLeft(run[p]) \in 1..(2 * PerList)
<1>1. run[p].pc \in PCs /\ run[p].todo \subseteq Docs
  BY DEF Shaped, TypeOK, Runs
<1>2. /\ Cardinality(run[p].todo) \in Nat /\ Cardinality(Docs) \in Nat
      /\ Cardinality(run[p].todo) <= Cardinality(Docs)
  BY <1>1, ListCount
<1>3. run[p].pc \in Busy => Cardinality(run[p].todo) + 1 <= Cardinality(Docs)
  <2> SUFFICES ASSUME run[p].pc \in Busy
               PROVE  Cardinality(run[p].todo) + 1 <= Cardinality(Docs)
    OBVIOUS
  <2>1. run[p].doc \in Docs /\ run[p].doc \notin run[p].todo
    BY DEF Shaped, Shape, RunShape, TypeOK, Runs
  <2>2. run[p].todo \subseteq Docs \ {run[p].doc} /\ IsFiniteSet(Docs \ {run[p].doc})
    BY <1>1, <2>1, FiniteAssumption, FS_RemoveElement
  <2>3. Cardinality(Docs \ {run[p].doc}) = Cardinality(Docs) - 1
    BY <2>1, ListCount
  <2>4. Cardinality(run[p].todo) <= Cardinality(Docs) - 1
    BY <2>2, <2>3, FS_Subset
  <2> QED
    BY <1>2, <2>4
<1> QED
  BY <1>1, <1>2, <1>3 DEF WorkLeft, PerList, PCs, Busy

\* A step of a process costs it at least one.
LEMMA StepShortens ==
  ASSUME Shaped, NEW p \in Procs, Step(p) \/ Fails(p)
  PROVE  run[p].pc # "idle" /\ WorkLeft(run'[p]) < WorkLeft(run[p])
<1> DEFINE n == Cardinality(run[p].todo)
<1>r. run[p] \in Runs /\ RunShape(run[p]) /\ run \in [Procs -> Runs]
  BY DEF Shaped, TypeOK, Shape
<1>n. run[p].todo \subseteq Docs /\ n \in Nat /\ Cardinality(Docs) \in Nat
  BY <1>r, ListCount DEF Runs
<1>e. ASSUME NEW result, Exit(p, result), run[p].pc # "idle"
      PROVE  WorkLeft(run'[p]) < WorkLeft(run[p])
  <2>1. run'[p].pc = "idle"
    BY <1>r, <1>e DEF Exit, Idle, Fresh
  <2>2. WorkLeft(run[p]) \in 1..(2 * PerList)
    BY <1>e, WorkBounds
  <2>3. 2 * PerList \in Nat
    BY <1>n DEF PerList
  <2>4. WorkLeft(run'[p]) = 0
    BY <2>1 DEF WorkLeft
  <2> QED
    BY <2>2, <2>3, <2>4
<1>1. CASE Fetch(p)
  <2> DEFINE list == Listed(run[p].queue)
  <2>1. /\ run[p].pc = "fetch" /\ run'[p].pc = "next" /\ run'[p].todo = list
        /\ run'[p].queue = run[p].queue
    BY <1>1, <1>r DEF Fetch
  <2>2. Cardinality(list) \in Nat /\ Cardinality(list) <= Cardinality(Docs)
    BY ListCount DEF Listed
  <2> QED
    BY <1>n, <2>1, <2>2 DEF WorkLeft, PerList
<1>2. CASE NextQueue(p)
  <2>1. run'[p] = Fresh("fetch", Failed, "none") /\ run[p].pc = "next"
    BY <1>2, <1>r DEF NextQueue
  <2>2. run[p].queue = FailedToGetCovenantSignatures
    BY <1>2 DEF NextQueue, LastQueue
  <2>3. run'[p].pc = "fetch" /\ run'[p].queue # FailedToGetCovenantSignatures
    BY <2>1, StatesDistinct DEF Fresh
  <2> QED
    BY <1>n, <2>1, <2>2, <2>3 DEF WorkLeft, PerList
<1>3. ASSUME NEW d \in Docs, Lookup(p, d)
      PROVE  run[p].pc # "idle" /\ WorkLeft(run'[p]) < WorkLeft(run[p])
  <2>1. PICK c : run' = [run EXCEPT ![p].pc = "sign", ![p].doc = d, ![p].params = c,
                                    ![p].todo = @ \ {d}]
    BY <1>3 DEF Lookup
  <2>2. run[p].pc = "next" /\ d \in run[p].todo
    BY <1>3 DEF Lookup, Takes
  <2>3. /\ run'[p].pc = "sign" /\ run'[p].todo = run[p].todo \ {d}
        /\ run'[p].queue = run[p].queue
    BY <1>r, <2>1
  <2>4. Cardinality(run'[p].todo) = n - 1
    BY <1>n, <2>2, <2>3, ListCount
  <2> HIDE DEF n
  <2>5. n = Cardinality(run[p].todo)
    BY DEF n
  <2> QED
    BY <1>n, <2>2, <2>3, <2>4, <2>5 DEF WorkLeft, PerList
<1> DEFINE Same == run'[p].todo = run[p].todo /\ run'[p].queue = run[p].queue
<1>4. CASE Sign(p)
  <2>1. PICK Q : run' = [run EXCEPT ![p].pc = "check", ![p].sigs = Q]
    BY <1>4 DEF Sign
  <2>2. run[p].pc = "sign" /\ run'[p].pc = "check" /\ Same
    BY <1>4, <1>r, <2>1 DEF Sign
  <2> QED
    BY <1>n, <2>2 DEF WorkLeft, PerList
<1>5. CASE SignShort(p)
  <2>1. run[p].pc = "sign" /\ run'[p].pc = "mark" /\ Same
    BY <1>5, <1>r DEF SignShort, RecordNoQuorum
  <2> QED
    BY <1>n, <2>1 DEF WorkLeft, PerList
<1>6. CASE CheckTxOutSpendable(p) \/ CheckFails(p)
  <2>1. run[p].pc = "check" /\ run'[p].pc \in {"send", "mark"} /\ Same
    <3>1. CASE CheckTxOutSpendable(p)
      BY <1>r, <3>1 DEF CheckTxOutSpendable
    <3>2. CASE CheckFails(p)
      BY <1>r, <3>2 DEF CheckFails, SendAnyway
    <3> QED
      BY <1>6, <3>1, <3>2
  <2> QED
    BY <1>n, <2>1 DEF WorkLeft, PerList
<1>7. CASE SendTx(p) \/ SendTxFails(p)
  <2>1. PICK ok : Reports(p, ok)
    BY <1>7 DEF SendTx, SendTxFails
  <2>2. run[p].pc = "send" /\ run'[p].pc = "mark" /\ Same
    BY <1>7, <1>r, <2>1 DEF SendTx, SendTxFails, Reports
  <2> QED
    BY <1>n, <2>2 DEF WorkLeft, PerList
<1>8. CASE Mark(p)
  <2>1. run[p].pc = "mark" /\ run'[p].pc = "next" /\ Same
    BY <1>8, <1>r DEF Mark
  <2> QED
    BY <1>n, <2>1 DEF WorkLeft, PerList
<1>9. CASE \/ FetchMalformed(p) \/ FetchFails(p) \/ Finish(p) \/ MarkFails(p) \/ Crash(p)
  BY <1>9, <1>e DEF FetchMalformed, FetchFails, Finish, MarkFails, Crash
<1>10. ASSUME NEW d \in Docs, LookupBadData(p, d) \/ LookupPanics(p, d) \/ LookupFails(p, d)
       PROVE  run[p].pc # "idle" /\ WorkLeft(run'[p]) < WorkLeft(run[p])
  BY <1>10, <1>e DEF LookupBadData, LookupPanics, LookupFails, Takes
<1> QED
  BY <1>1, <1>2, <1>3, <1>4, <1>5, <1>6, <1>7, <1>8, <1>9, <1>10 DEF Step, Fails

\* A run of any list takes a bounded number of steps: at most twice PerList, of which
\* every one, faults included, uses up at least one.
THEOREM RunsAreFinite == Spec => RunsGetShorter
<1>1. ASSUME Shaped, [Next]_vars, NEW p \in Procs, run[p].pc # "idle", run'[p] # run[p]
      PROVE  WorkLeft(run'[p]) < WorkLeft(run[p])
  <2>1. CASE Start(p)
    BY <1>1, <2>1 DEF Start
  <2>2. CASE Step(p) \/ Fails(p)
    BY <1>1, <2>2, StepShortens
  <2>3. ASSUME NEW q \in Procs, q # p, Start(q) \/ Step(q) \/ Fails(q)
        PROVE  FALSE
    BY <1>1, <2>3, OtherRunsUnchanged
  <2>4. CASE Environment
    BY <1>1, <2>4
    DEF Environment, SaveUnbondingDocument, SpendElsewhere, Mine, Evict, Reorganise
  <2> QED
    BY <1>1, <2>1, <2>2, <2>3, <2>4 DEF Next, vars
<1>2. Shaped /\ [Next]_vars =>
        [\A p \in Procs : run[p].pc # "idle" /\ run'[p] # run[p] =>
           WorkLeft(run'[p]) < WorkLeft(run[p])]_vars
  BY <1>1
<1> QED
  BY <1>2, ShapeInvariant, PTL DEF Spec, RunsGetShorter

\* What a run is signing for was rebuilt from the parameters.
Rebuilding ==
  \A p \in Procs : run[p].pc = "sign" =>
    \E v \in DOMAIN Params : run[p].params = Rebuilt(v, run[p].doc)

\* A committee that reaches a number has that many members to choose.
LEMMA QuorumExists ==
  ASSUME NEW S, IsFiniteSet(S), NEW q \in Nat, q <= Cardinality(S)
  PROVE  \E Q \in SUBSET S : Cardinality(Q) = q
<1> DEFINE n == Cardinality(S)
           P == {T \in SUBSET S : q <= Cardinality(T) => \E Q \in SUBSET T : Cardinality(Q) = q}
<1>1. ASSUME NEW T \in SUBSET S, \A x \in T : T \ {x} \in P
      PROVE  T \in P
  <2> SUFFICES ASSUME q <= Cardinality(T) PROVE \E Q \in SUBSET T : Cardinality(Q) = q
    OBVIOUS
  <2>1. IsFiniteSet(T) /\ Cardinality(T) \in Nat
    BY FS_Subset, FS_CardinalityType
  <2>2. CASE Cardinality(T) = q
    BY <2>2
  <2>3. CASE Cardinality(T) # q
    <3>1. Cardinality(T) > q
      BY <2>1, <2>3
    <3>2. PICK x \in T : TRUE
      <4>1. T # {}
        BY <3>1, FS_EmptySet
      <4> QED
        BY <4>1
    <3>3. Cardinality(T \ {x}) = Cardinality(T) - 1
      BY <2>1, <3>2, FS_RemoveElement
    <3>4. q <= Cardinality(T \ {x})
      BY <2>1, <3>1, <3>3
    <3>5. PICK Q \in SUBSET (T \ {x}) : Cardinality(Q) = q
      BY <1>1, <3>2, <3>4
    <3> QED
      BY <3>5
  <2> QED
    BY <2>2, <2>3
<1>2. \A T \in SUBSET S : T \in P
  <2> HIDE DEF P
  <2> QED
    BY <1>1, FiniteInduction
<1>3. S \in P
  BY <1>2
<1> QED
  BY <1>3

\* The committee of every version of the parameters can reach its quorum.
LEMMA CommitteesReach ==
  ASSUME NEW v \in DOMAIN Params, NEW d
  PROVE  Signatures(Rebuilt(v, d)) # {}
<1>1. /\ Params[v].keys \subseteq Keys /\ Params[v].quorum \in Nat
      /\ Params[v].quorum <= Cardinality(Params[v].keys)
  BY ParamsAssumption
<1>2. IsFiniteSet(Params[v].keys)
  BY <1>1, FiniteAssumption, FS_Subset
<1>3. \E Q \in SUBSET Params[v].keys : Cardinality(Q) = Params[v].quorum
  BY <1>1, <1>2, QuorumExists
<1> QED
  BY <1>3 DEF Signatures, Rebuilt

\* Only a lookup that found such parameters begins to sign.
LEMMA StepRebuilding == Shaped /\ Rebuilding /\ [Next]_vars => Rebuilding'
<1> SUFFICES ASSUME Shaped, Rebuilding, [Next]_vars,
                    NEW p \in Procs, run'[p].pc = "sign"
             PROVE  \E v \in DOMAIN Params : run'[p].params = Rebuilt(v, run'[p].doc)
  BY DEF Rebuilding, Rebuilt, DecodedLock
<1>1. CASE run'[p] = run[p]
  BY <1>1 DEF Rebuilding
<1>2. CASE Start(p) \/ Step(p) \/ Fails(p)
  <2>1. PICK d \in Docs : Lookup(p, d)
    BY <1>2, NextPoint
  <2>2. PICK c \in Recovered(d) :
          run' = [run EXCEPT ![p].pc = "sign", ![p].doc = d, ![p].params = c,
                             ![p].todo = @ \ {d}]
    BY <2>1 DEF Lookup
  <2>3. run'[p].params = c /\ run'[p].doc = d
    BY <2>2 DEF Shaped, TypeOK, Runs
  <2>4. \E v \in DOMAIN Params : c = Rebuilt(v, d)
    BY DEF Recovered, ParamsByHeight
  <2> QED
    BY <2>3, <2>4
<1> QED
  BY <1>1, <1>2, OtherRunsUnchanged
  DEF Next, Environment, SaveUnbondingDocument, SpendElsewhere, Mine, Evict, Reorganise, vars

\* What a run needs to take its next step without a fault: at the head of its loop,
\* that it is done or a document is the oldest of its list (what the lookup of that
\* finds only decides which step it is); when signing, that some quorum can answer.
GetsOn(p) ==
  \/ run[p].pc \in {"fetch", "check", "send", "mark"}
  \/ run[p].pc = "next" /\ run[p].todo = {}
  \/ \E d \in Docs : Takes(p, d)
  \/ run[p].pc = "sign" /\ Signatures(run[p].params) # {}

\* No run ever waits for another, for the staking API or for the network: as long as
\* its calls are answered it has a step to take.
THEOREM RunsAreNeverStuck == Spec => [](\A p \in Procs : run[p].pc # "idle" => GetsOn(p))
<1>1. Init => Rebuilding
  BY DEF Init, Rebuilding, Idle, Fresh
<1>2. Shaped /\ Rebuilding => \A p \in Procs : run[p].pc # "idle" => GetsOn(p)
  <2> SUFFICES ASSUME Shaped, Rebuilding, NEW p \in Procs, run[p].pc # "idle"
               PROVE  GetsOn(p)
    OBVIOUS
  <2>1. run[p].pc \in PCs /\ run[p].todo \subseteq Docs
    BY DEF Shaped, TypeOK, Runs
  <2>2. CASE run[p].pc = "next" /\ run[p].todo # {}
    <3>1. run[p].todo \in SUBSET Nat
      BY <2>1, DocsAssumption
    <3>2. PICK d \in run[p].todo : \A e \in run[p].todo : d <= e
      BY <2>2, <3>1, LeastNumber
    <3> QED
      BY <2>1, <2>2, <3>2 DEF GetsOn, Takes
  <2>3. CASE run[p].pc = "sign"
    <3>1. PICK v \in DOMAIN Params : run[p].params = Rebuilt(v, run[p].doc)
      BY <2>3 DEF Rebuilding
    <3> QED
      BY <2>3, <3>1, CommitteesReach DEF GetsOn
  <2> QED
    BY <2>1, <2>2, <2>3 DEF GetsOn, PCs
<1> QED
  BY <1>1, <1>2, StepRebuilding, ShapeInvariant, PTL DEF Spec
================================================================================

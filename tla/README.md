# Verification of cli-tools

TLA+ models of the phase-1 command line tools: the unbonding pipeline (`run-unbonding-pipeline`,
`process-failed-transactions`) with its configuration, and the commands that make transactions for the
wallet, the staker and the timestamp of a file. TLC checks the models on small instances; TLAPS proves
every safety property they check, and the refinements, for every instance.

## The system

| Part | State it keeps | Operations | Talks to |
|---|---|---|---|
| Unbonding pipeline, `internal/services/unbonding_pipeline.go` | the list fetched at the start of a run, the document in hand | `ProcessNewTransactions`, `ProcessFailedTransactions`: look up, rebuild, sign, build the witness, check, send, record | store, node, signers, parameters |
| Covenant signing, same file and `remote_signer.go` | a channel of results per call | one goroutine per covenant key: request, verify, count, deliver | covenant signers over HTTP |
| Witness, `witness_gen.go` | none | sort the keys, one slot per key | `btcstaking` scripts |
| Persistent store, `persistent_store.go`, `db/dbclient.go` | the MongoDB collection `unbonding_queue`, shared with the staking API | add, list by state, set state | MongoDB |
| In-memory store, `in_mem_store.go` | a map with counters under a mutex | the same interface | |
| Bitcoin node, `btcclient_sender.go`, `btcclient/client.go` | the node's chain and mempool | `TxByHash`, `CheckTxOutSpendable`, `SendTx` | bitcoind |
| Wallet, `btcclient/client.go` | the closure that hands out inputs | `CreateAndSignTx` | bitcoind, btcwallet |
| Global parameters, `global_params.go` | the parsed file | `ParamsByHeight` | |
| Staker commands, `cmd/create*.go` | none: each prints the next transaction | create staking, unbonding, withdrawal | the staker's wallet |
| Timestamp command, `cmd/timestampFileCmd.go` | none: the hex of one run is the input of the next | hash the file, spend an output of the address, pay the change to it | the staker's wallet |
| Configuration, `config/`, `cmd/dumpDefaultCfgCmd.go` | the file at `--config` | dump the defaults, read the file over the defaults, map keys to signers | the pipeline commands |
| Metrics push, logging, test harness | | | |

What is hard. Both pipeline commands are short-lived processes an operator or a timer starts. They
share the collection with the staking API and with each other, and nothing locks it: a run reads a
list once and later writes each document by `_id`, whatever its state is by then. A remote call may
fail before or after it took effect, and a process may die between sending a transaction and recording
it. One document with bad data stops a run. Inside a call, signers answer in any order and the covenant
script counts the signatures exactly. The configuration file is written by a dump and by an operator,
with nothing between the dump's look and its write.

What makes each part right:

* pipeline: the state field never claims more than the node did; settled documents stay settled; what is
  handled leaves the list; bad data moves nothing; good documents settle in the end;
* signing: exactly a quorum of verified signatures, none lost, no goroutine stuck or left behind;
* witness: the stack satisfies the script for every committee and order of arrival;
* stores: listings in the order added, nothing forgotten;
* wallet: each input once, the fee right for their kinds, a refusal only when the largest outputs cannot pay;
* staker: locks and fees survive the conversions, what spends an output pays something on, withdrawals are
  valid when the lock ends;
* timestamp: only the fees leave the address, and what is printed can be mined;
* configuration: the hosts that are asked are those the operator named for these keys.

## Modules

| Module | Models |
|---|---|
| `UnbondingStates` | the states of a document (`db/model/unbonding.go`) and `Absent` |
| `UnbondingLifecycle` | abstract: what the two commands promise about a document |
| `UnbondingPipeline` | the two commands, the collection, the node, the staking API |
| `SigningContract` | abstract: what one signing call promises |
| `CovenantSigning` | the goroutines and the channel of `signUnbondingTransaction` |
| `WitnessGen` | the witness, and the covenant script that consumes it |
| `RemoteSigners` | from URLs to the map in which a key's signer is looked up |
| `Configuration` | the configuration file, dumped, edited and read at the start |
| `SigningCall` | composes the four above: from the file to the witness |
| `UnbondingStore` | abstract: the store interface |
| `InMemoryStore`, `PersistentStore` | the two stores |
| `Stores` | composes the two stores: the same calls made to both |
| `CoinSelection` | `CreateAndSignTx`: listing, input closure, fee loop, signing |
| `StakerCommands` | staking, unbonding and withdrawal commands and the chain they reach |
| `Timestamp` | the timestamp command, run on its own results, and the chain they reach |
| `Listings` | what a sort may return |
| `FiniteLemmas` | about finite sets, sums over them and sorted listings, for the proofs |
| `MC...` | constants of the instances TLC checks |
| `...Proofs` | the theorems about the module named |

`UnbondingPipeline` uses two components by their contracts: a signing call is one step that yields
any quorum of the committee or too few (`Sign`, `SignShort`), as `CovenantSigning` implements it; a
listing is the set of documents in a state, handled in ascending order, as the stores return it.

**UnbondingPipeline.** `status` is the state field of each document, a document is the rank of its
`_id`. `utxo` is the staking output as the node sees it: unspent, spent by the unbonding transaction in
the mempool or in a block, spent by another transaction, or freed again by an eviction. `accepted` is a
history variable: the documents whose transaction the node ever took. `run` holds one record per
process: program counter, the list being worked on (`queue`), what is left of it (`todo`) and all of it
(`batch`), the document in hand, its parameters, signatures and the outcome about to be written. Each
action is one remote call with the code up to the next: `Fetch` (find and decode), `Lookup` (TxByHash,
parameters, rebuilt output), `Sign`, `CheckTxOutSpendable`, `SendTx`, `Mark` (the update). Actions
ending in `Fails`, `Crash`, and what the node does to a transaction it already took (`Evict`,
`Reorganise`), are faults; `MaxFaults` bounds them. A failed `SendTx` or update may have taken effect. A
staking script is represented by what it is built from, the committee's keys, the quorum and the lock
time, so that comparing the rebuilt output with the stored one compares these; the lock time of a
document has 64 bits and is cut to 16 when it is read (`DecodedLock`). The code looks up the transaction that the
unbonding input names (line 298) and rebuilds the output of the one stored beside it; nothing compares the
two. `Height` is that of the first, `Output` is of the second: a document in which they differ is stopped if the
heights have different committees, and is otherwise one whose transaction a node may refuse (`Unacceptable`).

**CovenantSigning.** One variable per thing shared: where each goroutine is, what its signer said, what
it counted, the channel, what the caller has. The caller takes one result per key, in any order of
arrival. **WitnessGen** represents a public key by a nonzero integer whose sign is the parity byte and
whose absolute value is the x-only key, and models the stable sort, the map and the slots; `ScriptAccepts` is
the `OP_CHECKSIG OP_CHECKSIGADD ... OP_NUMEQUAL` script.

**Configuration.** `file` holds the settings that the file at `--config` sets, so that reading it is an
overlay on the defaults, and whether it parses at all. A dump is three steps (look, open and empty,
write) that may stop half way; the operator replaces the file at any time. `Start` reads the file once and has
the outcomes of the code: an error, a panic for a network nobody knows, or the map of **RemoteSigners**,
in which a key listed twice has its last URL and the other parity is another key. **SigningCall**
puts the call behind that start: a goroutine whose key is not in the map gets an error
(`Request` of `CovenantSigning` reads `signers`), and `CreateUnbondingTxWitness` takes what the call
returned, in every order in which the parameters may list the committee.

**PersistentStore** models how an `_id` is made (second, process value, counter) because the listing order
depends on it. **Stores** makes each call to both stores in one step, keeps which `_id` each
transaction got (`idOf`), and compares the answers. Where the two differ on purpose, a transaction added
twice and an update of an unknown one, only the in-memory store is asked (`Refused`).

**CoinSelection** has one step per turn of the closure's loop and the author's loop around it, while
another user of the wallet spends. The wallet lists outputs of any script type, and the author's fee depends on how
many inputs there are of each: `Fee` is any function of these numbers that an added input does not lower. The
first estimate is, as in the library, for one P2WPKH input. **StakerCommands** has an action per command; a guard is the check
that would have returned an error; signing may fail after the response was prepared, which then is
printed unsigned. A staking amount of 0 is accepted, as `parseBtcAmount` does, and such an output may be funded.
**Timestamp** keeps every transaction whose hex is known: a run takes any of them as its source, so that chains
and forks arise, while files change and the chain takes some of them. A SHA-256 is named by the content it is of.

## Runs

| Run | Question | Bounds, and why they are enough |
|---|---|---|
| `pipeline_exclusive` | one process per command: safety, stability, refinement of the lifecycle | 2 documents staked under 2 committees, one never accepted by a node, 3 faults: a fault in each command and one more, both lists of the retry command in use |
| `pipeline_overlap` | two processes of one command beside one of the other: what still holds, that runs end, that good documents settle | 1 document, since processes interfere only on the same document; 2 new and 1 retrying process, 2 faults; the safety part is proved for any number of each |
| `pipeline_bad_data` | bad data before and after a good document | 6 documents in this order: built with another committee than that of the height found, good although its lock time loses 2^16 when read, not in chain, a lock time that becomes 0 when read, an output or input out of range, undecodable |
| `pipeline_critical` | finding 1 | 1 good document, 1 fault |
| `signing_call` | every configuration file, then all orders of requests, answers and deliveries, then the witness; refinement of the contract | 4 keys of both parities whose orders with and without the parity byte differ, quorum 2: fewer, exactly and more than a quorum answer; 7 operator files: all keys, three, two with a repetition, a wrong parity and the default key, three that do not start, one without signers |
| `default_signer` | finding 3 | dumped files only, whole and cut short |
| `stores` | both stores implement the interface and answer alike | 3 transactions, so that a listing can skip one in the middle; one writer, 2 seconds |
| `persistent_two` | finding 2 | 2 processes, a document each |
| `coin_selection` | all wallets and targets | 4 outputs of 3 amounts and 3 kinds, some worth less than their fee, one kind below the first estimate; 4 targets: paid at once, after another estimate, only by cheaper inputs than the largest, never |
| `staker_commands` | flags on both sides of every bound | a 2-bit time lock, times -1..4, amounts -1, 0 and 2, fees -1..3, 4 commands, 5 blocks |
| `timestamp` | chains and forks of timestamps | 3 runs on one file of 2 contents, or missing; fees -1..3 around outputs of 1 and 2; the address paid second, twice, or not at all |
| `timestamp_hash` | finding 4 | 2 files, 2 runs |

Each property has a mutant in `PROJECT.json`: a plausible bug in a named definition under which
TLC finds the property violated. `WitnessOfAnyCommittee` widens `WitnessSatisfiesScript`: in every state in
which the call has returned, whatever number of signatures it holds must make a valid witness for
every committee they all belong to.

**What a refusal of the wallet means.** `RefusesOnlyWhatLargestCannotPay`: no n outputs are worth the target and what
the author asks for the n largest. It does not mean that no choice of inputs would pay: with inputs of mixed
kinds cheaper ones than the largest might, and so might one P2TR input, whose fee is below the first
estimate. Nothing in the repository promises more than "largest inputs first".

**Four findings.** (1) `ErrCriticalError` is documented for programming errors and invalid data only,
but a node that does not answer `TxByHash` once gives it too (`unbonding_pipeline.go:307`). The run stops
at a good document; nothing is written, the next run takes it up. (2) The interface asks for listings
in the order added; the database sorts by `_id`, which two adding processes (or a driver whose process
value is smaller, in the same second) make in another order (`dbclient.go:82`). (3) The default signer URL
is `http://<key>@` followed by a host that already begins with `http://` (`config/remote_signer.go:21`).
It parses, but the host is then `http:`, so that a command started on a dumped file asks nobody, in a format
other than the one documented on line 25. (4) The help of the timestamp command calls the file hash "the sha256
of the input file path" (`timestampFileCmd.go:40-41`); it is that of the content (line 184), so one path may have two
hashes and two paths one.

**Without one process per command.** `TerminalStable` and `Ownership` are checked under `Exclusive`: the
code has no lock, so this is a rule for the deployment. What is proved needs less: a document is safe from a
write over its settled state if no two runs ever have it to handle at once. `pipeline_overlap` shows what is
left when it is broken: states stay truthful and nothing becomes new again, but a slow process may write
FAILED over SEND. Its `GoodDocumentsSettle` shows that the next retry repairs it.

**Fairness.** `Progress`: a process that runs gets on; no fairness on faults or on the environment. Requests to
signers end by the timeout of the HTTP client. The calls of MongoDB and of bitcoind's RPC have no timeout in the
code: that they return, with an answer or an error, is an assumption. `Operated`: both commands are started again and again, which is how
they are deployed, not something the code does; only `GoodDocumentsSettle` needs it. `CallFairness`: once
the command has started, its caller and its goroutines are scheduled, and a request ends by its
timeout; nothing is assumed of the operator or of the dump.

**Deadlock** is checked except in `default_signer`, which stops when the command has started, and in
`staker_commands`, which stops when the chain and the staker have reached their bounds.

## Proofs

The theorems hold for every value of the constants that satisfies the named assumptions of the module.

| Module | Theorems | Properties | Assumes |
|---|---|---|---|
| `UnbondingPipelineProofs` | `TypeCorrect` | `TypeOK` | documents are positive numbers, the two commands have different processes, parameter versions start at different heights and have committees that reach their quorum |
| | `SendIsTruthful`, `AlreadySpentIsTruthful` | `SendMeansAccepted`, `AlreadySpentMeansSpent` | |
| | `SubmissionIsQuorumSigned` | `SubmitsOnlyQuorumSigned` | |
| | `BadDataStays`, `NothingPasses` | `BadDataNeverMoves`, `NothingPassesBadData` | |
| | `FailuresAreNotNew`, `HandledDocumentsLeaveQueue` | `NeverReinserted`, `HandledLeaveQueue` | |
| | `OwnershipHolds`, `SettledIsFinal` | `Ownership`, `TerminalStable` | and `Exclusive` |
| | `PipelineImplementsLifecycle` | `LifecycleSpec` | and `Exclusive` |
| | `SettledUnlessShared`, `UnsharedImplementsLifecycle` | `TerminalStable` of one document, `LifecycleSpec` | and no two runs ever have that document, or any, to handle at once |
| | `RunsAreFinite`, `RunsAreNeverStuck` | (no run; see *Termination*) | and finitely many documents and covenant keys |
| `CovenantSigningProofs` | `SigningTypeCorrect`, `PutsNeverBlock` | `TypeOK`, `PutNeverBlocks` | a finite committee that reaches its quorum |
| | `EverySignatureHasOnePlace`, `NothingIsLeftBehind` | `NoSignatureLost`, `NothingLeftBehind` | |
| | `QuorumIsExact`, `ErrorsAreRight` | `ReturnsExactQuorum`, `ErrorMeansTooFew` | |
| | `SigningImplementsContract` | `ContractSpec` | |
| | `CallsAreFinite`, `CallsAreNeverStuck` | (no run; see *Termination*) | |
| `SigningCallProofs` | `CallIsSafe`, `CallImplementsContract`, `CallComesToAnEnd` | all of the above, inside the command | also: nobody in the committee holds a default key |
| | `QuorumIsConfigured` | `SignedWhereConfigured` | |
| | `QuorumSpends`, `AnyCommitteeSpends` | `WitnessSatisfiesScript`, `WitnessOfAnyCommittee` | also: no two keys of the committee have the same x-only bytes, since `btcstaking` refuses such a list when the spend path is built, before any signer is asked |
| `StakerCommandsProofs` | `OutputsAreLocked`, `SpendingPays`, `FeesAccountForTheRest`, `WithdrawalsWaitTheirLock` | `EveryOutputLocked`, `SpendingPaysSomething`, `OnlyFeesAreLost`, `MinedExactlyWhenLockEnds` | flags are integers, locks have some width |
| `TimestampProofs` | `EveryPrintedCanBeMined` | `PrintedCanBeMined` | values are natural, fees integers, no hash is an address |
| | `OnlyFeesLeave` | `OnlyFeesLeaveTheAddress` | |
| `StoresProofs` | `CountersAreNumbers` | `CountersNumberEntries` | finitely many transactions, one process that adds |
| | `MemoryKeepsContract`, `CollectionKeepsContract` | `MemoryContract`, `CollectionContract` | |
| | `StoresAlwaysAgree` | `StoresAgree` | |
| `CoinSelectionProofs` | `NoInputTwice` | `EachInputOnce` | a finite wallet that is not empty, amounts and targets natural, fees that no added input lowers |
| | `TheFeeIsRight`, `RefusedOnlyIfLargestFail` | `PaysTheRightFee`, `RefusesOnlyWhatLargestCannotPay` | |

**Pipeline.** The argument is layered. `Shaped` (types, and what each program point says of the process's
own record: a document is in hand exactly from lookup to update, it is off the list, its parameters are
those of its output) is inductive alone and everything rests on it. `Evidence` strengthens the two
truthfulness properties: what the mempool or a block holds was accepted, and a process about to write SEND
or INPUT_ALREADY_SPENT has already seen the reason, which nothing takes back: an output that was spent
is never "unspent" again, only "freed". `Signed` carries the quorum from signing to submission.
`Untouched` adds to `BadDataNeverMoves` that no process holds a bad document or lists an undecodable one;
`Ordered` adds for `NothingPassesBadData` that what a run has taken off its list is older than what
is left and good. `Handled` adds that what was listed is in the collection. `Ownership` is proved one
document at a time: as long as no two runs have the document to handle (`Alone`), a write moves only the
writer's own document (`StatusMoves`) and a run's document stays in the state it was listed for (`StepOwned`).
Under `Exclusive` two processes hold documents listed for different states, so `Ownership` itself gives `Alone`
for all of them (`ExclusiveUnshared`). Stability and the refinement are step properties that follow from
`Shaped`, `Evidence` and `Ownership`.

**Signing.** `IInv` has a part per place a result can be: `Local` says what each goroutine knows at its
point, `OnChannel` that each result on the channel is of a goroutine that has ended, once, `AtCaller` the
same of what was received. `Balance` is the conservation law that makes the others useful: ended goroutines are as
many as the results received and on the channel. With it, a caller that has received one per key knows
that all have ended, which gives the exact quorum, the empty channel and the absence of a late success.
`Returning` ties the outcome to this. The refinement maps a request to an answer and the return to the return.

**From the file to the call.** `CInv` says where things come from: `Written`, whatever is in the file is
an operator's file or part of a dump; `Read`, the map of a started command is that of its settings;
`Asked`, a key whose signer signed is in the map. Since default keys are in no committee, a signer's key
comes from an operator's file, at its last URL; that the helper from the library finds the last one is
proved from its definition.

**The witness.** The script takes the slots from the top of the stack, so the descending order in which the
slots are filled has to be the mirror of the ascending order of the script. A stable sort is modelled by
ranks: the place of a key is one more than how many go before it. With distinct x-only keys the places of the two
orders add up to the length and one (`PlacesMirror`), no two keys share a place, and every place is taken
(`PlacesTaken`, from the cardinality of an injection), hence `SortsMirror`. The map of received signatures has
the key of each signature (`MapOfSignatures`), so the filled slots are as many as the keys that signed, by the
bijection of `FilledSlots`, and `IInv` says that these are as many as the signatures. That is proved for any
committee the signers all belong to, in any order; the theorem about the script of the covenant is the instance
of a returned quorum.

**Termination.** `RunsTerminate` and `Returns` are checked by TLC; theorems prove all of them but the
scheduling. A run: `WorkLeft` is a measure on the record of a process, what its lists still cost, five steps a
document. `RunsAreFinite`: every step of a run, faults included, lowers it, and no step of anybody else touches
it, so a run has at most `2 * PerList` steps. It rests on `Shaped` (the document in hand is off the list, so a
list is shorter than the collection by then). `RunsAreNeverStuck`: a run that is under way has a step of `Step`
whose guard holds. It is never at a list that has documents and no oldest one (`LeastNumber`), nor at a
committee in which no quorum exists: the invariant `Rebuilding` says that what is signed for was rebuilt from a
version of the parameters, and parsing them checked that its committee reaches the quorum (`QuorumExists`). A
call: `CallLeft` sums what each goroutine still does and adds what the caller still receives (`CallsAreFinite`);
`CallsAreNeverStuck` follows from `Balance` and `PutNeverBlocks`, since a caller that waits on an empty channel
when all goroutines have ended has received from every one.

**Stores.** `CountersNumberEntries` is inductive with the finiteness of the map. A listing is a sorted sequence
of a set; with a strict total order there is only one (`OneSortedListing`), and that carries both refinements:
`Added` is the one listing by counter, which an added transaction extends at its end (`AddedInOrder`), and
`CInv` says that `order` lists the `_id`s of what was inserted, ascending, that what is named and not yet there
comes after all of it, and that the clock and the counter lie beyond all of these. This is where one adding
process is needed; run `persistent_two` shows the contract fail with two. `PInv` pairs the stores: the entry
with the counter i is the i-th document in order, in the same state, so equal listings follow.

**Wallet and timestamp.** The sums are of the library's fold over finite sets; `FiniteLemmas` derives from its
definition what is needed of them: a place taken out, one added, a disjoint union, in any order. `MInv` of the
wallet: the total is the sum of what was taken; what was taken is no smaller than what is left (`Descending`); no
earlier selection covered what the author asks for its inputs (`TooLittleSoFar`, by `FeeGrows`: their fee or the
first estimate, whichever is more). When the wallet is used up, any k outputs sum to
at most the k largest (`LargestFirst`, by exchange), and those did not cover what is asked for them: for k short
of all by `TooLittleSoFar`, for all of them because the estimate is never of more inputs than there are. Inputs without a repetition (`NoInputTwice`) are what makes a sum over a sequence one over a
set. `MInv` of the timestamp says that what is mined spends what is mined, once, so that mining
one more moves its value from what is unspent to what is burnt as its fee.

**The others.** Staker: `Numbers`, `Printed` (each transaction fits the output it spends and pays at least one unit
on), `Chained` (what is in the chain is locked, and an empty stake is not spent) and the `Balance` of what was paid,
burnt and is still there. Timestamp: `Printing` says of each printed
transaction what its source holds at the index it takes.

**Induction.** The library's induction rules take a predicate as a parameter, which the provers cannot instantiate.
`FiniteInduction` states induction over finite sets of a set P instead ("if P has every subset whose smaller subsets it
has, it has every subset") and is proved from the well-foundedness of the numbers; each use gives P as a set of subsets.

**Only model-checked.** Liveness: `RunsTerminate`, `GoodDocumentsSettle` and `Returns`. Fairness and what it implies
speak of ENABLED, which is beyond the prover; what of `RunsTerminate` and `Returns` is not, is proved above.

## Not modelled

* A staking transaction leaves the chain only as a failed lookup; the output it made does not go with it.
* Writes to the database that arrive after the process that sent them died.
* An error while the witness is built (`unbonding_pipeline.go:400`): the staker's signature was decoded
  and the slots are never empty, so the library has no reason to refuse.
* A transaction marked SEND that the node later evicts is never sent again: the model has the
  eviction, and `SEND` means accepted once, not mined. Nothing in the repository promises more.
* Two documents that name one unbonding transaction: the index that forbids it belongs to the staking API.
* The file after the start, since it is read once; a URL without a user part; an empty list of URLs set in
  the file, whose merge with the default is the library's; addresses and credentials of the database
  and the node, whose `Validate` methods have no caller outside the tests.
* Steps of the clock, and of the `_id` counter its random start and its wrap: the model counts from 0 up. An
  insertion that fails in the store run (the pipeline has the failures of its own calls).
* Dust rules of relaying nodes: an output of nothing is left to the wallet and the miners.
* Keys, tags and networks that do not parse in the staker commands: no transaction comes of them.
* `ListOutputs`, the metrics push and logging, which change no state; the test harness and mocks.

## Plan

Done: (1) pipeline, lifecycle, signing, witness and stores; (2) wallet and staker commands; (3)
timestamps, the widths of a document's fields, the configuration and the map of signers, the composition of
configuration, call and witness, that of the two stores, evictions and reorganisations of the unbonding
transaction; (4) the proofs of their safety properties and refinements, sums, sorts and the witness
included, and the safety half of what ends a run and a call.

What could follow: lemmas about the outputs the pipeline rebuilds for a height (`ParamsByHeight` has at most
one version, so a document's lookup has one outcome), and a reorganisation that takes the staking transaction
with it.

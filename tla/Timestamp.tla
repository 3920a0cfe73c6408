-------------------------------- MODULE Timestamp --------------------------------
(* create-timestamp-transaction (timestampFileCmd.go): each run turns the hex of *)
(* a transaction that pays an address into one that carries the hash of a file   *)
(* and pays the change to the same address, to be the source of the next.  The   *)
(* wallet that signs and the chain are outside the repository.                   *)
EXTENDS Integers, Sequences, FiniteSetsExt, SequencesExt

CONSTANTS
  Fees,       \* --fee-in-tx
  Paths,      \* the command is given one of these
  Contents,   \* what a file may hold: its SHA-256, too, which no two share
  Fundings,   \* outputs of the transaction that first paid the address
  MaxRuns     \* bound on the runs of the command

\* The wallet's address, one of somebody else, one that is not P2WPKH.
Addresses == {"ours", "other", "taproot"}

Output(script, value) == [script |-> script, value |-> value]

ASSUME TimestampAssumption ==
  /\ Fees \subseteq Int /\ Contents \cap Addresses = {} /\ MaxRuns \in Nat
  /\ \A outs \in Fundings : outs \in Seq([script : Addresses, value : Nat])

VARIABLES
  content,   \* of the file at a path
  txs,       \* transactions whose hex is known, the funding transaction first
  mined,     \* those in the chain
  burnt      \* history: the fees given for what was mined

vars == <<content, txs, mined, burnt>>

NoFile == "no file"

FundingTx(outs) ==
  [source |-> 0, index |-> 0, outs |-> outs, fee |-> 0, path |-> "", fileHash |-> ""]

Init ==
  /\ content \in [Paths -> Contents \cup {NoFile}]
  /\ \E outs \in Fundings : txs = <<FundingTx(outs)>>
  /\ mined = {1} /\ burnt = 0

\* A file is written, or removed.
ChangeFile(path, c) ==
  /\ content' = [content EXCEPT ![path] = c]
  /\ UNCHANGED <<txs, mined, burnt>>

\* hashFromFile: the SHA-256 of what is read there.
HashFromFile(path) == content[path]

\* Zero when there is none.
OutputIndexForPkScript(pkScript, outs) ==
  SelectInSeq(outs, LAMBDA out : out.script = pkScript)

\* Mutant: the value of the first output.
ValueOfFirst(outs, index) == outs[1].value

ValueIn(outs, index) == outs[index].value

FeeNotCovered(value, fee) == value < fee

\* PayToAddrScript and IsPayToWitnessPubKeyHash
IsP2WPKH(address) == address # "taproot"

\* Mutant: the change keeps the fee.
ChangeOfAll(value, fee) == value

Change(value, fee) == value - fee

CreateTimestampTx(source, path, address, fee) ==
  LET outs  == txs[source].outs
      index == OutputIndexForPkScript(address, outs)
      value == ValueIn(outs, index)
  IN  /\ Len(txs) <= MaxRuns
      /\ content[path] # NoFile
      /\ IsP2WPKH(address)
      /\ index # 0
      /\ ~FeeNotCovered(value, fee)
      /\ txs' = Append(txs,
           [source |-> source, index |-> index, fee |-> fee,
            outs |-> <<Output(address, Change(value, fee)),
                       Output(HashFromFile(path), 0)>>,
            path |-> path, fileHash |-> HashFromFile(path)])
      /\ UNCHANGED <<content, mined, burnt>>
--------------------------------------------------------------------------------
(* The wallet signs for its own address, and the chain takes what spends an      *)
(* unspent output and creates no value.  A miner may still refuse dust.          *)

Spent(source, index) ==
  \E i \in mined : txs[i].source = source /\ txs[i].index = index

Spends(tx) == txs[tx.source].outs[tx.index]

Sound(tx) ==
  /\ Spends(tx).script = "ours"
  /\ tx.outs[1].value >= 0
  /\ tx.outs[1].value + tx.outs[2].value <= Spends(tx).value

Mine(i) ==
  /\ i \notin mined
  /\ txs[i].source \in mined /\ ~Spent(txs[i].source, txs[i].index)
  /\ Sound(txs[i])
  /\ mined' = mined \cup {i}
  /\ burnt' = burnt + txs[i].fee
  /\ UNCHANGED <<content, txs>>

Next ==
  \/ \E path \in Paths, c \in Contents \cup {NoFile} : ChangeFile(path, c)
  \/ \E source \in 1..Len(txs), path \in Paths, address \in Addresses, fee \in Fees :
       CreateTimestampTx(source, path, address, fee)
  \/ \E i \in 1..Len(txs) : Mine(i)

Spec == Init /\ [][Next]_vars
--------------------------------------------------------------------------------
Printed == 2..Len(txs)

\* Outputs of the address, as <<transaction, index>>, and what they hold.
OutputsOf(I) == UNION {{i} \X (1..Len(txs[i].outs)) : i \in I}
Owned(I)     == {o \in OutputsOf(I) : txs[o[1]].outs[o[2]].script = "ours"}
Worth        == [o \in OutputsOf(1..Len(txs)) |-> txs[o[1]].outs[o[2]].value]
Total(f, S)  == MapThenSumSet(LAMBDA o : f[o], S)
Unspent      == {o \in Owned(mined) : ~Spent(o[1], o[2])}

\* Along every chain of timestamps, forks that lost included, the address loses
\* the fees that were given for what was mined, and nothing else.
OnlyFeesLeaveTheAddress == Total(Worth, Unspent) + burnt = Total(Worth, Owned({1}))

\* What is printed for the wallet's address can be mined until its input is spent:
\* the output taken is one of the address, with the value the change was computed
\* from.  A negative --fee-in-tx is accepted, and nothing it prints can be.
PrintedCanBeMined ==
  \A i \in Printed :
    txs[i].outs[1].script = "ours" => (Sound(txs[i]) <=> txs[i].fee >= 0)

\* "the file hash being the sha256 of the input file path" (the command's help):
\* two timestamps carry the same hash exactly if they were given the same path.
HashIsOfPath ==
  \A i, j \in Printed :
    txs[i].path = txs[j].path <=> txs[i].fileHash = txs[j].fileHash
================================================================================

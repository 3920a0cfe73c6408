------------------------------ MODULE StakerCommands ------------------------------
(* The staker's side (cmd/): create-phase1-staking-tx, ...-unbonding-request and *)
(* ...-withdaw-request turn flags and the hex of earlier transactions into the   *)
(* next transaction.  The bitcoin chain those transactions reach, the wallet     *)
(* that holds the staker's key and the covenant are outside the repository.      *)
EXTENDS Integers

CONSTANTS
  Amounts, Fees, Times,   \* int64 values the flags are given
  MaxUint16,              \* the largest relative time lock
  MaxHeight,              \* bound on the chain
  MaxCommands             \* bound on the commands the staker runs

ASSUME FlagsAssumption ==
  Amounts \cup Fees \cup Times \subseteq Int /\ MaxUint16 \in Nat /\ MaxHeight \in Nat

\* An output: the transaction it is of, what it holds, how long its owner waits.
Nothing == [of |-> "none", value |-> 0, lock |-> 0]

NoTx == [from |-> Nothing, value |-> 0, fee |-> 0, lock |-> 0, sequence |-> 0,
         leaf |-> 0, signed |-> FALSE]

VARIABLES
  stakingTx,     \* the output of the staking transaction last printed
  unbondingTx,   \* the unbonding transaction last printed
  withdrawTx,    \* the withdrawal last printed
  staked,        \* the funded staking transaction's output, and where it was mined
  unbonded,      \* the unbonding output in the chain, likewise
  gone,          \* outputs spent in the chain
  paid,          \* what the staker was paid back
  burnt,         \* history: the fees of what was mined
  height,
  commands       \* commands run so far

vars  == <<stakingTx, unbondingTx, withdrawTx, staked, unbonded, gone, paid, burnt, height, commands>>
chain == <<staked, unbonded, gone, paid, burnt, height>>

NotYet   == -1
Missing == [output |-> Nothing, born |-> NotYet]

Init ==
  /\ stakingTx = Nothing /\ unbondingTx = NoTx /\ withdrawTx = NoTx
  /\ staked = Missing /\ unbonded = Missing
  /\ gone = {} /\ paid = 0 /\ burnt = 0 /\ height = 0 /\ commands = 0

Run == commands < MaxCommands /\ commands' = commands + 1

\* Mutant: no upper bound.
PositiveTimeLock(t) == t > 0

\* parseTimeLock
ParsesTimeLock(t) == t > 0 /\ t <= MaxUint16

Uint16(t) == t % (MaxUint16 + 1)

\* parseBtcAmount
ParsesAmount(a) == a >= 0

\* The staking output commits to its value and its time lock; the data output
\* repeats the time lock for later commands.
CreateStakingTx(amount, time) ==
  /\ Run
  /\ ParsesAmount(amount) /\ ParsesTimeLock(time)
  /\ stakingTx' = [of |-> "staked", value |-> amount, lock |-> Uint16(time)]
  /\ UNCHANGED <<unbondingTx, withdrawTx, chain>>

\* Mutant: a fee of the whole output passes.
TooHighOnlyAbove(fee, value) == fee > value

\* "unbonding fee is too high", "withdraw fee is too high"
TooHigh(fee, value) == fee >= value

\* A response is printed whether or not the wallet could be reached and held the
\* staker's key, under either parity: it is signed only if so.
WalletAnswers == BOOLEAN

CreateUnbondingTx(time, fee) ==
  LET value == staked.output.value IN
  /\ Run
  /\ staked # Missing
  /\ ParsesTimeLock(time) /\ ParsesAmount(fee)
  /\ ~TooHigh(fee, value)
  /\ \E signed \in WalletAnswers :
       unbondingTx' = [NoTx EXCEPT !.from = staked.output, !.value = value - fee,
                                   !.fee = fee, !.lock = Uint16(time), !.signed = signed]
  /\ UNCHANGED <<stakingTx, withdrawTx, chain>>

\* Mutant: the staking time in the withdrawal of an unbonding output.
SequenceOfStaking(lock) == staked.output.lock

\* wTx.TxIn[0].Sequence = uint32(lock)
SequenceFor(lock) == lock

\* Mutant: the fee is only reported.
WholeValue(value, fee) == value

AfterFee(value, fee) == value - fee

\* The withdrawal of an output, over the leaf with this lock.
Withdrawal(from, fee, lock, signed) ==
  [NoTx EXCEPT !.from = from, !.value = AfterFee(from.value, fee), !.fee = fee,
               !.sequence = SequenceFor(lock), !.leaf = lock, !.signed = signed]

\* --unbonding-tx-hex is empty: the lock is the staking transaction's own.
WithdrawStaking(fee) ==
  /\ Run
  /\ staked # Missing
  /\ ParsesAmount(fee) /\ ~TooHigh(fee, staked.output.value)
  /\ \E signed \in WalletAnswers :
       withdrawTx' = Withdrawal(staked.output, fee, staked.output.lock, signed)
  /\ UNCHANGED <<stakingTx, unbondingTx, chain>>

\* The output of an unbonding transaction. Its lock is only in its script's hash.
OutputOf(tx) == [of |-> "unbonded", value |-> tx.value, lock |-> tx.lock]

\* With --unbonding-tx-hex the lock is the flag's: nothing compares the output
\* rebuilt from it with the one that is spent.
WithdrawUnbonding(time, fee) ==
  /\ Run
  /\ unbondingTx # NoTx
  /\ ParsesAmount(fee) /\ ParsesTimeLock(time)
  /\ ~TooHigh(fee, unbondingTx.value)
  /\ \E signed \in WalletAnswers :
       withdrawTx' = Withdrawal(OutputOf(unbondingTx), fee, Uint16(time), signed)
  /\ UNCHANGED <<stakingTx, unbondingTx, chain>>
--------------------------------------------------------------------------------
(* The chain.                                                                  *)

\* The staker's wallet funds the staking transaction, an empty one too: commands
\* parse no other.
Fund ==
  /\ staked = Missing /\ stakingTx # Nothing
  /\ staked' = [output |-> stakingTx, born |-> NotYet]
  /\ UNCHANGED <<stakingTx, unbondingTx, withdrawTx, unbonded, gone, paid, burnt,
                 height, commands>>

Stake ==
  /\ staked # Missing /\ staked.born = NotYet
  /\ staked' = [staked EXCEPT !.born = height]
  /\ UNCHANGED <<stakingTx, unbondingTx, withdrawTx, unbonded, gone, paid, burnt,
                 height, commands>>

\* The covenant signs and the unbonding pipeline sends.
Unbond ==
  /\ unbondingTx.signed /\ staked.born # NotYet /\ "staked" \notin gone
  /\ unbonded' = [output |-> OutputOf(unbondingTx), born |-> height]
  /\ gone' = gone \cup {"staked"}
  /\ burnt' = burnt + unbondingTx.fee
  /\ UNCHANGED <<stakingTx, unbondingTx, withdrawTx, staked, paid, height, commands>>

Mined(which) == IF which = "staked" THEN staked ELSE unbonded

\* A withdrawal is mined if it spends an output that is there, reveals the leaf
\* this output commits to, and its sequence satisfies the leaf and the wait.
Valid(tx, which) ==
  LET output == Mined(which).output IN
  /\ tx.signed
  /\ Mined(which).born # NotYet /\ which \notin gone /\ tx.from = output
  /\ tx.leaf = output.lock
  /\ tx.sequence >= tx.leaf
  /\ height >= Mined(which).born + tx.sequence
  /\ tx.value <= output.value

Withdraw(which) ==
  /\ Valid(withdrawTx, which)
  /\ gone' = gone \cup {which}
  /\ paid' = paid + withdrawTx.value
  /\ burnt' = burnt + withdrawTx.fee
  /\ UNCHANGED <<stakingTx, unbondingTx, withdrawTx, staked, unbonded, height, commands>>

MineBlock ==
  /\ height < MaxHeight
  /\ height' = height + 1
  /\ UNCHANGED <<stakingTx, unbondingTx, withdrawTx, staked, unbonded, gone, paid, burnt,
                 commands>>
--------------------------------------------------------------------------------
Next ==
  \/ \E a \in Amounts, t \in Times : CreateStakingTx(a, t)
  \/ \E t \in Times, f \in Fees : CreateUnbondingTx(t, f) \/ WithdrawUnbonding(t, f)
  \/ \E f \in Fees : WithdrawStaking(f)
  \/ Fund \/ Stake \/ Unbond \/ MineBlock
  \/ \E which \in {"staked", "unbonded"} : Withdraw(which)

Spec == Init /\ [][Next]_vars
--------------------------------------------------------------------------------
\* No flag value makes an output that anybody may take at once: what is parsed is
\* not zero in 16 bits, in the output or in the data later commands read.
EveryOutputLocked ==
  \A m \in {staked, unbonded} \ {Missing} : m.output.lock \in 1..MaxUint16

\* A transaction that spends an output pays on some of it and no more than it holds,
\* whatever fees the flags give along the way back.  --staking-amount 0 is accepted:
\* then no command makes anything that spends the stake.
SpendingPaysSomething ==
  /\ \A tx \in {unbondingTx, withdrawTx} \ {NoTx} : tx.value \in 1..tx.from.value
  /\ staked.output.value = 0 => gone = {}

\* A signed withdrawal made with the lock of the output it spends is mined as soon
\* as the lock has passed since that output was mined, and never before: from the
\* staking and from the unbonding transaction, whichever is in the chain.
MinedExactlyWhenLockEnds ==
  \A which \in {"staked", "unbonded"} \ gone :
    LET m == Mined(which) IN
      m.born # NotYet /\ withdrawTx.signed /\ withdrawTx.from = m.output
        /\ withdrawTx.leaf = m.output.lock
      => (Valid(withdrawTx, which) <=> height >= m.born + m.output.lock)

\* Whichever way the stake comes back, what is missing from it is the fees the
\* staker gave, and it comes back once.
OnlyFeesAreLost ==
  LET there == {m \in {staked, unbonded} \ {Missing} : m.output.of \notin gone} IN
  paid + burnt + (IF staked \in there THEN staked.output.value ELSE 0)
               + (IF unbonded \in there THEN unbonded.output.value ELSE 0)
    = staked.output.value
================================================================================

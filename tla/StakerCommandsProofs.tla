-------------------------- MODULE StakerCommandsProofs --------------------------
(* What the staker's flags can do to the stake, for any amounts, fees, times    *)
(* and any number of commands.                                                  *)
EXTENDS StakerCommands, TLAPS

\* The outputs of one transaction, worth at least so much, that are locked.
Outputs(of, least) ==
  [of : {of}, value : {v \in Int : v >= least}, lock : 1..MaxUint16]

Spendable == Outputs("staked", 0) \cup Outputs("unbonded", 1)

Txs == [from : Spendable, value : Int, fee : Nat, lock : Nat, sequence : Nat,
        leaf : Nat, signed : BOOLEAN]

InChain(of, least) == [output : Outputs(of, least), born : Nat \cup {NotYet}]

Numbers ==
  /\ paid \in Int /\ burnt \in Int /\ height \in Nat
  /\ gone \in SUBSET {"staked", "unbonded"}

\* Each printed transaction fits the output it spends.
Printed ==
  /\ stakingTx = Nothing \/ stakingTx \in Outputs("staked", 0)
  /\ unbondingTx = NoTx \/
       /\ staked # Missing /\ unbondingTx \in Txs /\ unbondingTx.from = staked.output
       /\ unbondingTx.value >= 1 /\ unbondingTx.lock \in 1..MaxUint16
       /\ unbondingTx.value + unbondingTx.fee = staked.output.value
  /\ withdrawTx = NoTx \/
       /\ withdrawTx \in Txs /\ withdrawTx.sequence = withdrawTx.leaf
       /\ withdrawTx.value = withdrawTx.from.value - withdrawTx.fee
       /\ withdrawTx.value >= 1

\* What is in the chain, and what can be spent there only later.
Chained ==
  /\ staked = Missing \/ staked \in InChain("staked", 0)
  /\ unbonded = Missing \/ (unbonded \in InChain("unbonded", 1) /\ "staked" \in gone)
  /\ staked.born = NotYet => gone = {} /\ unbonded = Missing
  /\ "unbonded" \in gone => unbonded # Missing
  /\ staked.output.value = 0 => gone = {}

StakedThere   == IF staked # Missing /\ "staked" \notin gone THEN staked.output.value ELSE 0
UnbondedThere == IF unbonded # Missing /\ "unbonded" \notin gone THEN unbonded.output.value ELSE 0

Balance == paid + burnt + StakedThere + UnbondedThere = staked.output.value

IInv == Numbers /\ Printed /\ Chained /\ Balance

\* The conversion to 16 bits keeps a time lock that was parsed.
LEMMA TimeLockKept ==
  ASSUME NEW t \in Times, ParsesTimeLock(t)
  PROVE  Uint16(t) = t /\ t \in 1..MaxUint16
BY FlagsAssumption DEF ParsesTimeLock, Uint16

\* Before the first command nothing is owed.
LEMMA InitIInv == Init => IInv
<1> SUFFICES ASSUME Init PROVE IInv
  OBVIOUS
<1>1. Numbers /\ Printed /\ Chained
  <2>1. Numbers
    BY DEF Init, Numbers
  <2>2. Printed
    BY Zenon DEF Init, Printed
  <2>3. Chained
    <3>1. gone = {} /\ staked = Missing /\ unbonded = Missing
      BY Zenon DEF Init
    <3> QED
      BY <3>1 DEF Chained
  <2> QED
    BY <2>1, <2>2, <2>3
<1>2. Missing.output.value = 0
  BY DEF Missing, Nothing
<1>3. Balance
  BY <1>2 DEF Init, Balance, StakedThere, UnbondedThere
<1> QED
  BY <1>1, <1>3 DEF IInv

\* A command prints; the chain is as before.
LEMMA CommandIInv ==
  ASSUME IInv, UNCHANGED chain, Printed'
  PROVE  IInv'
BY DEF IInv, Numbers, Chained, Balance, StakedThere, UnbondedThere, chain

\* The staking command prints a locked output.
LEMMA CreateStakingIInv ==
  ASSUME IInv, NEW a \in Amounts, NEW t \in Times, CreateStakingTx(a, t)
  PROVE  IInv'
<1>1. stakingTx' \in Outputs("staked", 0)
  BY TimeLockKept, FlagsAssumption DEF CreateStakingTx, ParsesAmount, Outputs
<1>2. UNCHANGED <<unbondingTx, withdrawTx, chain>>
  BY DEF CreateStakingTx
<1>3. Printed'
  BY <1>1, <1>2 DEF IInv, Printed, chain
<1> QED
  BY <1>2, <1>3, CommandIInv

\* The unbonding command keeps of the stake what the fee leaves, more than zero.
LEMMA CreateUnbondingIInv ==
  ASSUME IInv, NEW t \in Times, NEW f \in Fees, CreateUnbondingTx(t, f)
  PROVE  IInv'
<1>1. staked # Missing /\ staked \in InChain("staked", 0) /\ f \in Nat /\ f < staked.output.value
  BY FlagsAssumption DEF CreateUnbondingTx, ParsesAmount, TooHigh, IInv, Chained, InChain, Outputs
<1>2. PICK signed \in BOOLEAN :
        unbondingTx' = [NoTx EXCEPT !.from = staked.output, !.value = staked.output.value - f,
                                    !.fee = f, !.lock = Uint16(t), !.signed = signed]
  BY DEF CreateUnbondingTx, WalletAnswers
<1>3. unbondingTx' = [from |-> staked.output, value |-> staked.output.value - f, fee |-> f,
                      lock |-> Uint16(t), sequence |-> 0, leaf |-> 0, signed |-> signed]
  BY <1>2 DEF NoTx
<1>4. Uint16(t) = t /\ t \in 1..MaxUint16
  BY TimeLockKept DEF CreateUnbondingTx
<1>5. UNCHANGED <<stakingTx, withdrawTx, chain>>
  BY DEF CreateUnbondingTx
<1>6. staked.output \in Outputs("staked", 0) /\ staked.output.value \in Int
  BY <1>1 DEF InChain, Outputs
<1>7. unbondingTx' \in Txs
  BY <1>1, <1>3, <1>4, <1>6, FlagsAssumption DEF Txs, Spendable
<1>8. Printed'
  BY <1>1, <1>3, <1>4, <1>5, <1>6, <1>7 DEF IInv, Printed, chain
<1> QED
  BY <1>5, <1>8, CommandIInv

\* A withdrawal carries the lock of its leaf as its sequence, and pays the rest.
LEMMA WithdrawalShape ==
  ASSUME NEW from \in Spendable, NEW f \in Nat, NEW lock \in Nat, NEW signed \in BOOLEAN,
         ~TooHigh(f, from.value)
  PROVE  LET tx == Withdrawal(from, f, lock, signed)
         IN  /\ tx \in Txs /\ tx.sequence = tx.leaf
             /\ tx.value = tx.from.value - tx.fee /\ tx.value >= 1
<1>1. Withdrawal(from, f, lock, signed)
        = [from |-> from, value |-> from.value - f, fee |-> f, lock |-> 0,
           sequence |-> lock, leaf |-> lock, signed |-> signed]
  <2>1. Withdrawal(from, f, lock, signed)
          = [NoTx EXCEPT !.from = from, !.value = from.value - f, !.fee = f,
                         !.sequence = lock, !.leaf = lock, !.signed = signed]
    BY DEF Withdrawal, AfterFee, SequenceFor
  <2>2. NoTx = [from |-> Nothing, value |-> 0, fee |-> 0, lock |-> 0, sequence |-> 0,
                leaf |-> 0, signed |-> FALSE]
    BY DEF NoTx
  <2> QED
    BY <2>1, <2>2
<1>2. from.value \in Int
  BY DEF Spendable, Outputs
<1> QED
  BY <1>1, <1>2 DEF Txs, TooHigh

\* Either withdrawal command prints such a one.
LEMMA WithdrawCommandIInv ==
  ASSUME IInv,
         NEW from \in Spendable, NEW f \in Nat, NEW lock \in Nat, NEW signed \in BOOLEAN,
         ~TooHigh(f, from.value), withdrawTx' = Withdrawal(from, f, lock, signed),
         UNCHANGED <<stakingTx, unbondingTx, chain>>
  PROVE  IInv'
<1>1. Printed'
  BY WithdrawalShape DEF IInv, Printed, chain
<1> QED
  BY <1>1, CommandIInv

\* The withdrawal of the staking output spends it under its own lock.
LEMMA WithdrawStakingIInv ==
  ASSUME IInv, NEW f \in Fees, WithdrawStaking(f)
  PROVE  IInv'
<1>1. staked \in InChain("staked", 0) /\ f \in Nat /\ ~TooHigh(f, staked.output.value)
  BY FlagsAssumption DEF WithdrawStaking, ParsesAmount, IInv, Chained
<1>2. staked.output \in Spendable /\ staked.output.lock \in Nat
  BY <1>1, FlagsAssumption DEF InChain, Outputs, Spendable
<1>3. PICK signed \in BOOLEAN :
        withdrawTx' = Withdrawal(staked.output, f, staked.output.lock, signed)
  BY DEF WithdrawStaking, WalletAnswers
<1>4. UNCHANGED <<stakingTx, unbondingTx, chain>>
  BY DEF WithdrawStaking
<1> QED
  BY <1>1, <1>2, <1>3, <1>4, WithdrawCommandIInv

\* That of the unbonding output spends it under the lock of the flag.
LEMMA WithdrawUnbondingIInv ==
  ASSUME IInv, NEW t \in Times, NEW f \in Fees, WithdrawUnbonding(t, f)
  PROVE  IInv'
<1>1. /\ unbondingTx \in Txs /\ unbondingTx.value >= 1 /\ unbondingTx.lock \in 1..MaxUint16
      /\ f \in Nat /\ ~TooHigh(f, unbondingTx.value)
  BY FlagsAssumption DEF WithdrawUnbonding, ParsesAmount, IInv, Printed
<1>2. OutputOf(unbondingTx) \in Spendable /\ OutputOf(unbondingTx).value = unbondingTx.value
  BY <1>1 DEF OutputOf, Txs, Outputs, Spendable
<1>3. Uint16(t) \in Nat
  BY TimeLockKept, FlagsAssumption DEF WithdrawUnbonding
<1>4. PICK signed \in BOOLEAN :
        withdrawTx' = Withdrawal(OutputOf(unbondingTx), f, Uint16(t), signed)
  BY DEF WithdrawUnbonding, WalletAnswers
<1>5. UNCHANGED <<stakingTx, unbondingTx, chain>>
  BY DEF WithdrawUnbonding
<1> QED
  BY <1>1, <1>2, <1>3, <1>4, <1>5, WithdrawCommandIInv

\* Funding a staking transaction leaves nothing else owed.
LEMMA FundIInv ==
  ASSUME IInv, Fund
  PROVE  IInv'
<1>1. staked = Missing /\ stakingTx # Nothing /\ staked' = [output |-> stakingTx, born |-> NotYet]
  BY DEF Fund
<1>2. UNCHANGED <<stakingTx, unbondingTx, withdrawTx, unbonded, gone, paid, burnt, height>>
  BY DEF Fund
<1>3. stakingTx \in Outputs("staked", 0) /\ stakingTx.value \in Int
  BY <1>1 DEF IInv, Printed, Outputs
<1>4. staked' \in InChain("staked", 0) /\ staked'.born = NotYet /\ staked'.output = stakingTx
  BY <1>1, <1>3 DEF InChain
<1>5. Missing.born = NotYet /\ Missing.output.value = 0 /\ Missing.output.of = "none"
  BY DEF Missing, Nothing
<1>6. gone = {} /\ unbonded = Missing
  BY <1>1, <1>5 DEF IInv, Chained
<1>7. staked' # Missing
  BY <1>3, <1>4, <1>5 DEF Outputs
<1>8. Numbers' /\ Chained'
  BY <1>2, <1>4, <1>6 DEF IInv, Numbers, Chained
<1>9. Printed'
  BY <1>1, <1>2 DEF IInv, Printed
<1>10. paid + burnt = 0
  BY <1>1, <1>5, <1>6 DEF IInv, Numbers, Balance, StakedThere, UnbondedThere
<1>11. Balance'
  BY <1>2, <1>3, <1>4, <1>6, <1>7, <1>10
     DEF IInv, Numbers, Balance, StakedThere, UnbondedThere
<1> QED
  BY <1>8, <1>9, <1>11 DEF IInv

\* Mining the staking transaction changes only where it is.
LEMMA StakeIInv ==
  ASSUME IInv, Stake
  PROVE  IInv'
<1>1. staked \in InChain("staked", 0) /\ staked # Missing /\ staked.born = NotYet
  BY DEF Stake, IInv, Chained
<1>2. staked' = [staked EXCEPT !.born = height] /\ height \in Nat
  BY DEF Stake, IInv, Numbers
<1>3. UNCHANGED <<stakingTx, unbondingTx, withdrawTx, unbonded, gone, paid, burnt, height>>
  BY DEF Stake
<1>4. /\ staked' \in InChain("staked", 0) /\ staked'.output = staked.output
      /\ staked'.born = height /\ height # NotYet
  BY <1>1, <1>2 DEF InChain, NotYet
<1>5. staked' # Missing
  BY <1>4 DEF Missing
<1>6. Numbers' /\ Printed' /\ Chained' /\ Balance'
  BY <1>1, <1>3, <1>4, <1>5
     DEF IInv, Numbers, Printed, Chained, Balance, StakedThere, UnbondedThere
<1> QED
  BY <1>6 DEF IInv

\* Unbonding moves the stake, less its fee, to the unbonding output.
LEMMA UnbondIInv ==
  ASSUME IInv, Unbond
  PROVE  IInv'
<1>1. unbondingTx # NoTx
  BY DEF Unbond, NoTx
<1>2. /\ unbondingTx \in Txs /\ unbondingTx.value >= 1 /\ unbondingTx.lock \in 1..MaxUint16
      /\ unbondingTx.value + unbondingTx.fee = staked.output.value
  BY <1>1 DEF IInv, Printed
<1>3. unbondingTx.value \in Int /\ unbondingTx.fee \in Nat
  BY <1>2 DEF Txs
<1>4. staked # Missing /\ staked.born # NotYet /\ "staked" \notin gone
  BY <1>1 DEF Unbond, IInv, Printed
<1>5. unbonded = Missing /\ "unbonded" \notin gone
  BY <1>4 DEF IInv, Chained
<1>6. unbonded' = [output |-> OutputOf(unbondingTx), born |-> height] /\ height \in Nat
  BY DEF Unbond, IInv, Numbers
<1>7. /\ unbonded' \in InChain("unbonded", 1) /\ unbonded'.output.value = unbondingTx.value
      /\ unbonded'.born = height
  BY <1>2, <1>3, <1>6 DEF InChain, Outputs, OutputOf
<1>8. unbonded' # Missing
  BY <1>6, <1>7 DEF Missing, NotYet
<1>9. /\ gone' = gone \cup {"staked"} /\ burnt' = burnt + unbondingTx.fee
      /\ UNCHANGED <<stakingTx, unbondingTx, withdrawTx, staked, paid, height>>
  BY DEF Unbond
<1>10. Numbers' /\ Printed' /\ Chained'
  <2>1. staked.output.value # 0
    BY <1>2, <1>3
  <2>2. Numbers' /\ Printed'
    BY <1>3, <1>6, <1>9 DEF IInv, Numbers, Printed
  <2> QED
    BY <1>4, <1>5, <1>7, <1>8, <1>9, <2>1, <2>2 DEF IInv, Numbers, Chained, NotYet
<1>11. Balance'
  BY <1>2, <1>3, <1>4, <1>5, <1>7, <1>8, <1>9
     DEF IInv, Numbers, Balance, StakedThere, UnbondedThere
<1> QED
  BY <1>10, <1>11 DEF IInv

\* A withdrawal is paid, with its fee, the whole output it takes.
LEMMA WithdrawIInv ==
  ASSUME IInv, NEW which \in {"staked", "unbonded"}, Withdraw(which)
  PROVE  IInv'
<1>1. /\ withdrawTx.signed /\ Mined(which).born # NotYet /\ which \notin gone
      /\ withdrawTx.from = Mined(which).output
  BY DEF Withdraw, Valid
<1>2. withdrawTx # NoTx
  BY <1>1 DEF NoTx
<1>3. /\ withdrawTx.value \in Int /\ withdrawTx.fee \in Nat
      /\ withdrawTx.value = Mined(which).output.value - withdrawTx.fee
      /\ Mined(which).output.value \in Int
  BY <1>1, <1>2 DEF IInv, Printed, Txs, Spendable, Outputs
<1>4. Mined(which) # Missing
  BY <1>1 DEF Missing
<1>5. /\ gone' = gone \cup {which} /\ paid' = paid + withdrawTx.value
      /\ burnt' = burnt + withdrawTx.fee
      /\ UNCHANGED <<stakingTx, unbondingTx, withdrawTx, staked, unbonded, height>>
  BY DEF Withdraw
<1>6. staked.born # NotYet
  BY <1>1, <1>4 DEF IInv, Chained, Mined
<1>7. Numbers' /\ Printed' /\ Chained'
  <2>1. staked.output.value # 0
    BY <1>1, <1>2, <1>3, <1>4 DEF IInv, Printed, Txs, Chained, Mined
  <2>2. Numbers' /\ Printed'
    BY <1>3, <1>5 DEF IInv, Numbers, Printed
  <2> QED
    BY <1>4, <1>5, <1>6, <2>1, <2>2 DEF IInv, Chained, Mined
<1>8. Balance'
  <2>1. CASE which = "staked"
    BY <2>1, <1>1, <1>3, <1>4, <1>5
       DEF IInv, Numbers, Chained, Balance, StakedThere, UnbondedThere, Mined, InChain, Outputs
  <2>2. CASE which = "unbonded"
    BY <2>2, <1>1, <1>3, <1>4, <1>5
       DEF IInv, Numbers, Chained, Balance, StakedThere, UnbondedThere, Mined, InChain, Outputs
  <2> QED
    BY <2>1, <2>2
<1> QED
  BY <1>7, <1>8 DEF IInv

\* Every command and every change of the chain keeps the invariant.
THEOREM NextIInv == IInv /\ [Next]_vars => IInv'
<1> SUFFICES ASSUME IInv, [Next]_vars PROVE IInv'
  OBVIOUS
<1>1. CASE MineBlock
  BY <1>1 DEF MineBlock, IInv, Numbers, Printed, Chained, Balance, StakedThere, UnbondedThere
<1>2. CASE UNCHANGED vars
  BY <1>2 DEF vars, IInv, Numbers, Printed, Chained, Balance, StakedThere, UnbondedThere
<1> QED
  BY <1>1, <1>2, CreateStakingIInv, CreateUnbondingIInv, WithdrawStakingIInv,
     WithdrawUnbondingIInv, FundIInv, StakeIInv, UnbondIInv, WithdrawIInv DEF Next

\* The invariant holds after any commands and blocks.
THEOREM Invariance == Spec => []IInv
  BY InitIInv, NextIInv, PTL DEF Spec
--------------------------------------------------------------------------------
\* No flag value locks an output for no time.
THEOREM OutputsAreLocked == Spec => []EveryOutputLocked
<1>1. IInv => EveryOutputLocked
  BY DEF IInv, Chained, EveryOutputLocked, InChain, Outputs
<1> QED
  BY <1>1, Invariance, PTL

\* No fee takes the whole of an output: what spends one pays on, and an empty stake
\* stays where it is.
THEOREM SpendingPays == Spec => []SpendingPaysSomething
<1>1. IInv => SpendingPaysSomething
  <2> SUFFICES ASSUME IInv, NEW tx \in {unbondingTx, withdrawTx} \ {NoTx}
               PROVE  tx.value \in 1..tx.from.value
    BY DEF IInv, Chained, SpendingPaysSomething
  <2>1. /\ tx \in Txs /\ tx.value >= 1
        /\ tx.value = tx.from.value - tx.fee \/ tx.value + tx.fee = tx.from.value
    BY DEF IInv, Printed
  <2>2. tx.value \in Int /\ tx.fee \in Nat /\ tx.from.value \in Int
    BY <2>1 DEF Txs, Spendable, Outputs
  <2> QED
    BY <2>1, <2>2
<1> QED
  BY <1>1, Invariance, PTL

\* The stake comes back once, less the fees of what was mined.
THEOREM FeesAccountForTheRest == Spec => []OnlyFeesAreLost
<1>1. IInv => OnlyFeesAreLost
  <2> SUFFICES ASSUME IInv PROVE OnlyFeesAreLost
    OBVIOUS
  <2>1. staked # Missing => staked.output.of = "staked"
    BY DEF IInv, Chained, InChain, Outputs
  <2>2. unbonded # Missing => unbonded.output.of = "unbonded"
    BY DEF IInv, Chained, InChain, Outputs
  <2> QED
    BY <2>1, <2>2 DEF IInv, Balance, StakedThere, UnbondedThere, OnlyFeesAreLost
<1> QED
  BY <1>1, Invariance, PTL

\* A withdrawal over the right leaf is valid from the end of the lock, not before.
THEOREM WithdrawalsWaitTheirLock == Spec => []MinedExactlyWhenLockEnds
<1>1. IInv => MinedExactlyWhenLockEnds
  <2> SUFFICES ASSUME IInv, NEW which \in {"staked", "unbonded"} \ gone,
                      Mined(which).born # NotYet, withdrawTx.signed,
                      withdrawTx.from = Mined(which).output,
                      withdrawTx.leaf = Mined(which).output.lock
               PROVE  Valid(withdrawTx, which)
                      <=> height >= Mined(which).born + Mined(which).output.lock
    BY DEF MinedExactlyWhenLockEnds
  <2>1. withdrawTx # NoTx
    BY DEF NoTx
  <2>2. /\ withdrawTx.sequence = withdrawTx.leaf /\ withdrawTx.leaf \in Nat
        /\ withdrawTx.value = Mined(which).output.value - withdrawTx.fee
        /\ withdrawTx.fee \in Nat /\ Mined(which).output.value \in Int
    BY <2>1 DEF IInv, Printed, Txs, Spendable, Outputs
  <2> QED
    BY <2>2 DEF Valid
<1> QED
  BY <1>1, Invariance, PTL
================================================================================

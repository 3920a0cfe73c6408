------------------------- MODULE CovenantSigningProofs -------------------------
(* The safety of one signing call, for any committee and quorum.               *)
EXTENDS CovenantSigning, FiniteLemmas, FiniteSetTheorems, FunctionTheorems, SequenceTheorems,
        TLAPS

Distinct(s) == \A i, j \in 1..Len(s) : s[i] = s[j] => i = j

\* A sequence without repetition has as many elements as members.
LEMMA DistinctCount ==
  ASSUME NEW S, NEW s \in Seq(S), Distinct(s)
  PROVE  IsFiniteSet(Keyed(s)) /\ Cardinality(Keyed(s)) = Len(s)
<1> DEFINE f == [i \in 1..Len(s) |-> s[i]]
<1>1. Len(s) \in Nat
  BY LenProperties
<1>2. f \in Bijection(1..Len(s), Keyed(s))
  <2>1. f \in [1..Len(s) -> Keyed(s)]
    BY DEF Keyed
  <2>2. \A i, j \in 1..Len(s) : f[i] = f[j] => i = j
    BY DEF Distinct
  <2>3. \A x \in Keyed(s) : \E i \in 1..Len(s) : f[i] = x
    BY DEF Keyed
  <2> QED
    BY <2>1, <2>2, <2>3, Fun_IsBij
<1>3. ExistsBijection(1..Len(s), Keyed(s))
  BY <1>2 DEF ExistsBijection
<1>4. IsFiniteSet(1..Len(s)) /\ Cardinality(1..Len(s)) = Len(s)
  BY <1>1, FS_Interval
<1> QED
  BY <1>3, <1>4, FS_Bijection
--------------------------------------------------------------------------------
(* The inductive invariant.                                                    *)

Done == {k \in Keys : worker[k] = "done"}

\* What each goroutine has done so far.
Local ==
  \A k \in Keys :
    /\ worker[k] \in {"unstarted", "requesting"} => reply[k] = "none" /\ counted[k] = "none"
    /\ worker[k] = "verifying" => reply[k] \in {"forged", "signed"} /\ counted[k] = "none"
    /\ worker[k] \in {"sending", "done"} =>
         /\ reply[k] # "none"
         /\ counted[k] = IF reply[k] = "signed" THEN "success" ELSE "failed"

\* The channel holds what goroutines that ended put there, once each.
OnChannel ==
  /\ \A i \in 1..Len(chan) :
       worker[chan[i].key] = "done" /\ (chan[i].ok <=> counted[chan[i].key] = "success")
  /\ \A i, j \in 1..Len(chan) : chan[i].key = chan[j].key => i = j

\* The caller holds what it took, and nothing counted as a success is elsewhere.
AtCaller ==
  /\ Distinct(signatures)
  /\ \A i \in 1..Len(signatures) :
       /\ worker[signatures[i]] = "done" /\ counted[signatures[i]] = "success"
       /\ \A j \in 1..Len(chan) : chan[j].key # signatures[i]
  /\ \A k \in Keys :
       worker[k] = "done" /\ counted[k] = "success" =>
         k \in Keyed(signatures) \/ \E j \in 1..Len(chan) : chan[j].key = k

\* Every goroutine that ended is received or waits on the channel.
Balance == received + Len(chan) = Cardinality(Done)

Returning ==
  IF outcome.done
  THEN /\ received = Cardinality(Keys)
       /\ outcome.err <=> TooFew
       /\ outcome.sigs = IF TooFew THEN <<>> ELSE Returned
  ELSE outcome = Pending

IInv == TypeOK /\ Local /\ OnChannel /\ AtCaller /\ Balance /\ Returning

\* There is a number of keys.
LEMMA KeysCount == Cardinality(Keys) \in Nat
  BY CommitteeAssumption, FS_CardinalityType

\* The goroutines that ended can be counted, and all did when as many as keys did.
LEMMA DoneCount ==
  /\ IsFiniteSet(Done) /\ Cardinality(Done) \in Nat
  /\ Cardinality(Done) <= Cardinality(Keys)
  /\ Cardinality(Done) = Cardinality(Keys) => Done = Keys
<1>1. Done \in SUBSET Keys
  BY DEF Done
<1> QED
  BY <1>1, CommitteeAssumption, FS_Subset, FS_CardinalityType

\* When the call begins, the invariant holds.
THEOREM InitIInv == Init => IInv
<1> SUFFICES ASSUME Init PROVE IInv
  OBVIOUS
<1> USE DEF Init
<1>1. <<>> \in Seq(Results) /\ <<>> \in Seq(Keys) /\ Len(<<>>) = 0
  BY EmptySeq
<1>2. TypeOK
  BY <1>1 DEF TypeOK, Workers, Pending
<1>3. Local
  BY DEF Local
<1>4. OnChannel /\ AtCaller
  BY <1>1 DEF OnChannel, AtCaller, Distinct
<1>5. Balance
  <2>1. Done = {}
    BY DEF Done
  <2> QED
    BY <2>1, <1>1, FS_EmptySet DEF Balance
<1>6. Returning
  BY DEF Returning, Pending
<1> QED
  BY <1>2, <1>3, <1>4, <1>5, <1>6 DEF IInv

\* Until it puts its result, a goroutine only changes what is its own.
LEMMA GoroutineIInv ==
  ASSUME IInv, NEW k \in Keys, Spawn(k) \/ Request(k) \/ Verify(k)
  PROVE  IInv'
<1> USE DEF IInv
<1>1. /\ worker[k] \in {"unstarted", "requesting", "verifying"}
      /\ worker' = [worker EXCEPT ![k] = worker'[k]]
      /\ worker'[k] \in {"requesting", "verifying", "sending"}
  BY DEF TypeOK, Spawn, Request, Verify, AfterRequest
<1>2. /\ reply' = [reply EXCEPT ![k] = reply'[k]]
      /\ reply'[k] \in Replies \cup {"none"}
  BY DEF TypeOK, Spawn, Request, Verify, Replies
<1>3. /\ counted' = [counted EXCEPT ![k] = counted'[k]]
      /\ counted'[k] \in {"none", "success", "failed"}
  BY DEF TypeOK, Spawn, Request, Verify, CountFailure
<1>4. UNCHANGED <<chan, received, signatures, outcome>>
  BY DEF Spawn, Request, Verify
<1>5. TypeOK'
  <2>1. worker' \in [Keys -> Workers]
    BY <1>1 DEF TypeOK, Workers
  <2>2. reply' \in [Keys -> Replies \cup {"none"}]
    BY <1>2 DEF TypeOK
  <2>3. counted' \in [Keys -> {"none", "success", "failed"}]
    BY <1>3 DEF TypeOK
  <2> QED
    BY <2>1, <2>2, <2>3, <1>4 DEF TypeOK
<1>6. Local'
  <2> SUFFICES ASSUME NEW l \in Keys PROVE Local!(l)'
    BY DEF Local
  <2>1. CASE l # k
    BY <2>1, <1>1, <1>2, <1>3 DEF Local, TypeOK
  <2>2. CASE l = k /\ Spawn(k)
    BY <2>2 DEF Local, TypeOK, Spawn
  <2>3. CASE l = k /\ Request(k)
    BY <2>3 DEF Local, TypeOK, Request, CountFailure, AfterRequest, Replies
  <2>4. CASE l = k /\ Verify(k)
    BY <2>4 DEF Local, TypeOK, Verify, Verifies
  <2> QED
    BY <2>1, <2>2, <2>3, <2>4
<1>7. \A l \in Keys : worker[l] = "done" =>
        worker'[l] = "done" /\ counted'[l] = counted[l]
  BY <1>1, <1>3 DEF TypeOK
<1>8. \A l \in Keys : worker'[l] = "done" => worker[l] = "done"
  BY <1>1 DEF TypeOK
<1>9. Done' = Done
  BY <1>7, <1>8 DEF Done
<1>10. \A i \in 1..Len(chan) : chan[i].key \in Keys
  <2> SUFFICES ASSUME NEW i \in 1..Len(chan) PROVE chan[i] \in Results
    BY DEF Results
  <2> QED
    BY ElementOfSeq DEF TypeOK
<1>11. \A i \in 1..Len(signatures) : signatures[i] \in Keys
  BY ElementOfSeq DEF TypeOK
<1>12. OnChannel'
  BY <1>4, <1>7, <1>10 DEF OnChannel
<1>13. AtCaller'
  BY <1>4, <1>7, <1>8, <1>11 DEF AtCaller, Distinct, Keyed
<1>14. Balance' /\ Returning'
  BY <1>4, <1>9 DEF Balance, Returning, TooFew, Returned
<1> QED
  BY <1>5, <1>6, <1>12, <1>13, <1>14

\* A put moves a goroutine to those that ended and its result to the channel.
LEMMA PutIInv ==
  ASSUME IInv, NEW k \in Keys, Put(k)
  PROVE  IInv'
<1> USE DEF IInv, Put
<1> DEFINE res == [key |-> k, ok |-> counted[k] = "success"]
<1>1. res \in Results
  BY DEF Results
<1>2. /\ chan' \in Seq(Results) /\ Len(chan') = Len(chan) + 1
      /\ \A i \in 1..Len(chan) : chan'[i] = chan[i]
      /\ chan'[Len(chan) + 1] = res
      /\ Len(chan) \in Nat
  BY <1>1, AppendProperties, LenProperties DEF TypeOK
<1>3. \A i \in 1..Len(chan) : chan[i].key \in Keys /\ chan[i].key # k
  <2> SUFFICES ASSUME NEW i \in 1..Len(chan) PROVE chan[i].key \in Keys /\ chan[i].key # k
    OBVIOUS
  <2>1. chan[i] \in Results
    BY ElementOfSeq DEF TypeOK
  <2> QED
    BY <2>1 DEF Results, OnChannel
<1>4. worker[k] = "sending" /\ worker' = [worker EXCEPT ![k] = "done"]
  OBVIOUS
<1>5. TypeOK'
  BY <1>2, <1>4 DEF TypeOK, Workers
<1>6. Local'
  BY <1>4 DEF Local, TypeOK
<1>7. OnChannel'
  <2>1. \A i \in 1..Len(chan') :
          worker'[chan'[i].key] = "done" /\ (chan'[i].ok <=> counted'[chan'[i].key] = "success")
    <3> SUFFICES ASSUME NEW i \in 1..Len(chan')
                 PROVE  worker'[chan'[i].key] = "done"
                        /\ (chan'[i].ok <=> counted'[chan'[i].key] = "success")
      OBVIOUS
    <3>1. CASE i \in 1..Len(chan)
      BY <3>1, <1>2, <1>3, <1>4 DEF OnChannel, TypeOK
    <3>2. CASE i = Len(chan) + 1
      <4>1. chan'[i] = res
        BY <3>2, <1>2
      <4>2. res.key = k /\ (res.ok <=> counted[k] = "success")
        BY Zenon
      <4>3. worker'[k] = "done" /\ counted' = counted
        BY <1>4 DEF TypeOK
      <4> HIDE DEF res
      <4> QED
        BY <4>1, <4>2, <4>3
    <3> QED
      BY <3>1, <3>2, <1>2
  <2>2. \A i, j \in 1..Len(chan') : chan'[i].key = chan'[j].key => i = j
    BY <1>2, <1>3 DEF OnChannel
  <2> QED
    BY <2>1, <2>2 DEF OnChannel
<1>8. AtCaller'
  <2>1. Distinct(signatures)'
    BY DEF AtCaller, Distinct
  <2>2. \A i \in 1..Len(signatures) : signatures[i] \in Keys /\ signatures[i] # k
    BY <1>4, ElementOfSeq DEF TypeOK, AtCaller
  <2>3. \A i \in 1..Len(signatures) :
          /\ worker'[signatures[i]] = "done" /\ counted'[signatures[i]] = "success"
          /\ \A j \in 1..Len(chan') : chan'[j].key # signatures[i]
    BY <2>2, <1>2, <1>4 DEF AtCaller, TypeOK
  <2>4. ASSUME NEW l \in Keys, worker'[l] = "done", counted'[l] = "success"
        PROVE  l \in Keyed(signatures') \/ \E j \in 1..Len(chan') : chan'[j].key = l
    <3>1. CASE l = k
      BY <3>1, <1>2
    <3>2. CASE l # k
      <4>1. worker[l] = "done" /\ counted[l] = "success"
        BY <2>4, <3>2 DEF TypeOK
      <4>2. l \in Keyed(signatures) \/ \E j \in 1..Len(chan) : chan[j].key = l
        BY <4>1 DEF AtCaller
      <4>3. \A j \in 1..Len(chan) : j \in 1..Len(chan') /\ chan'[j].key = chan[j].key
        BY <1>2
      <4> QED
        BY <4>2, <4>3
    <3> QED
      BY <3>1, <3>2
  <2> QED
    BY <2>1, <2>3, <2>4 DEF AtCaller
<1>9. Balance'
  <2>1. Done' = Done \cup {k} /\ k \notin Done
    BY <1>4 DEF Done, TypeOK
  <2>2. Cardinality(Done') = Cardinality(Done) + 1
    BY <2>1, DoneCount, FS_AddElement
  <2> QED
    BY <2>2, <1>2, DoneCount DEF Balance, TypeOK
<1>10. Returning'
  BY DEF Returning, TooFew, Returned
<1> QED
  BY <1>5, <1>6, <1>7, <1>8, <1>9, <1>10

\* A receive moves the first result of the channel to the caller.
LEMMA ReceiveIInv ==
  ASSUME IInv, Receive
  PROVE  IInv'
<1> USE DEF IInv, Receive
<1> DEFINE res == Head(chan)
<1>1. /\ chan \in Seq(Results) /\ chan # <<>> /\ Len(chan) \in Nat /\ Len(chan) >= 1
      /\ res = chan[1] /\ res \in Results
  BY HeadTailProperties, EmptySeq, LenProperties DEF TypeOK
<1>2. /\ chan' \in Seq(Results) /\ Len(chan') = Len(chan) - 1
      /\ \A i \in 1..Len(chan') : chan'[i] = chan[i + 1]
  BY <1>1, HeadTailProperties
<1>3. \A i \in 1..Len(chan) : chan[i].key \in Keys
  <2> SUFFICES ASSUME NEW i \in 1..Len(chan) PROVE chan[i] \in Results
    BY DEF Results
  <2> QED
    BY <1>1, ElementOfSeq
<1>4. /\ res.key \in Keys /\ worker[res.key] = "done"
      /\ res.ok <=> counted[res.key] = "success"
  <2>1. 1 \in 1..Len(chan)
    BY <1>1
  <2> QED
    BY <2>1, <1>1, <1>3 DEF OnChannel
<1> HIDE DEF res
<1>5. IF res.ok
      THEN /\ signatures' \in Seq(Keys) /\ Len(signatures') = Len(signatures) + 1
           /\ \A i \in 1..Len(signatures) : signatures'[i] = signatures[i]
           /\ signatures'[Len(signatures) + 1] = res.key
      ELSE signatures' = signatures
  <2>1. CASE res.ok
    <3>1. signatures' = Append(signatures, res.key)
      BY <2>1 DEF Kept, res
    <3>2. signatures \in Seq(Keys) /\ res.key \in Keys
      BY <1>4 DEF TypeOK
    <3>3. /\ Append(signatures, res.key) \in Seq(Keys)
          /\ Len(Append(signatures, res.key)) = Len(signatures) + 1
          /\ \A i \in 1..Len(signatures) : Append(signatures, res.key)[i] = signatures[i]
          /\ Append(signatures, res.key)[Len(signatures) + 1] = res.key
      BY <3>2, AppendProperties
    <3> QED
      BY <3>1, <3>3, <2>1, Zenon
  <2>2. CASE ~res.ok
    BY <2>2 DEF Kept, res
  <2> QED
    BY <2>1, <2>2
<1>6. UNCHANGED <<worker, reply, counted, outcome>> /\ received' = received + 1
  OBVIOUS
<1>7. Len(signatures) \in Nat /\ \A i \in 1..Len(signatures) : signatures[i] \in Keys
  BY LenProperties, ElementOfSeq DEF TypeOK
<1> HIDE DEF Receive
<1>8. TypeOK'
  <2>1. signatures' \in Seq(Keys)
    BY <1>5 DEF TypeOK
  <2> QED
    BY <2>1, <1>2, <1>6 DEF TypeOK
<1>9. Local'
  BY <1>6 DEF Local
<1>10. OnChannel'
  <2>1. \A i \in 1..Len(chan') : i + 1 \in 1..Len(chan) /\ chan'[i] = chan[i + 1]
    BY <1>1, <1>2
  <2>2. OnChannel
    OBVIOUS
  <2> HIDE DEF IInv
  <2>3. \A i \in 1..Len(chan') :
          worker[chan'[i].key] = "done" /\ (chan'[i].ok <=> counted[chan'[i].key] = "success")
    BY <2>1, <2>2 DEF OnChannel
  <2>4. ASSUME NEW i \in 1..Len(chan'), NEW j \in 1..Len(chan'), chan'[i].key = chan'[j].key
        PROVE  i = j
    <3>1. chan[i + 1].key = chan[j + 1].key /\ i + 1 \in 1..Len(chan) /\ j + 1 \in 1..Len(chan)
      BY <2>1, <2>4
    <3>2. i + 1 = j + 1
      BY <3>1, <2>2 DEF OnChannel
    <3> QED
      BY <3>2
  <2> QED
    BY <2>3, <2>4, <1>6 DEF OnChannel
<1>11. \A i \in 1..Len(signatures) : signatures[i] # res.key
  <2>1. \A i \in 1..Len(signatures) : \A j \in 1..Len(chan) : chan[j].key # signatures[i]
    BY DEF AtCaller
  <2>2. 1 \in 1..Len(chan) /\ res = chan[1]
    BY <1>1
  <2> HIDE DEF IInv
  <2> QED
    BY <2>1, <2>2
<1>12. \A j \in 1..Len(chan') : chan'[j].key # res.key
  <2>1. \A i, j \in 1..Len(chan) : chan[i].key = chan[j].key => i = j
    BY DEF OnChannel
  <2> HIDE DEF IInv
  <2> QED
    BY <2>1, <1>1, <1>2
<1>13. AtCaller'
  <2>1. Distinct(signatures)'
    BY <1>5, <1>7, <1>11 DEF AtCaller, Distinct
  <2>2. \A i \in 1..Len(signatures) : \A j \in 1..Len(chan') : chan'[j].key # signatures[i]
    <3>1. \A i \in 1..Len(signatures) : \A j \in 1..Len(chan) : chan[j].key # signatures[i]
      BY DEF AtCaller
    <3>2. \A j \in 1..Len(chan') : j + 1 \in 1..Len(chan) /\ chan'[j] = chan[j + 1]
      BY <1>1, <1>2
    <3> HIDE DEF IInv
    <3> QED
      BY <3>1, <3>2
  <2>3. \A i \in 1..Len(signatures') :
          /\ worker'[signatures'[i]] = "done" /\ counted'[signatures'[i]] = "success"
          /\ \A j \in 1..Len(chan') : chan'[j].key # signatures'[i]
    <3> SUFFICES ASSUME NEW i \in 1..Len(signatures')
                 PROVE  /\ worker[signatures'[i]] = "done" /\ counted[signatures'[i]] = "success"
                        /\ \A j \in 1..Len(chan') : chan'[j].key # signatures'[i]
      BY <1>6
    <3>1. CASE i \in 1..Len(signatures)
      <4>1. signatures'[i] = signatures[i]
        BY <3>1, <1>5
      <4> QED
        BY <4>1, <3>1, <2>2 DEF AtCaller
    <3>2. CASE i \notin 1..Len(signatures)
      <4>1. res.ok /\ signatures'[i] = res.key
        BY <3>2, <1>5, <1>7
      <4> QED
        BY <4>1, <1>4, <1>12
    <3> QED
      BY <3>1, <3>2
  <2>4. ASSUME NEW k \in Keys, worker'[k] = "done", counted'[k] = "success"
        PROVE  k \in Keyed(signatures') \/ \E j \in 1..Len(chan') : chan'[j].key = k
    <3>1. k \in Keyed(signatures) \/ \E j \in 1..Len(chan) : chan[j].key = k
      BY <2>4, <1>6 DEF AtCaller
    <3>2. CASE k \in Keyed(signatures)
      BY <3>2, <1>5, <1>7 DEF Keyed
    <3>3. ASSUME NEW j \in 1..Len(chan), chan[j].key = k, j # 1
          PROVE  \E i \in 1..Len(chan') : chan'[i].key = k
      <4>1. j - 1 \in 1..Len(chan') /\ chan'[j - 1] = chan[j]
        BY <3>3, <1>1, <1>2
      <4> QED
        BY <4>1, <3>3
    <3>4. CASE k = res.key
      <4>1. res.ok
        BY <3>4, <2>4, <1>4, <1>6
      <4>2. Len(signatures) + 1 \in 1..Len(signatures') /\ signatures'[Len(signatures) + 1] = k
        BY <4>1, <3>4, <1>5, <1>7
      <4> QED
        BY <4>2 DEF Keyed
    <3> QED
      BY <3>1, <3>2, <3>3, <3>4, <1>1
  <2> QED
    BY <2>1, <2>3, <2>4 DEF AtCaller
<1>14. Balance'
  <2>1. Done' = Done
    BY <1>6 DEF Done
  <2> QED
    BY <2>1, <1>1, <1>2, <1>6, DoneCount DEF Balance, TypeOK
<1>15. Returning'
  <2>1. ~outcome.done
    BY DEF Receive
  <2> QED
    BY <2>1, <1>6 DEF Returning
<1> QED
  BY <1>8, <1>9, <1>10, <1>13, <1>14, <1>15

\* A return writes the outcome the results allow.
LEMMA ReturnIInv ==
  ASSUME IInv, Return
  PROVE  IInv'
<1> USE DEF IInv, Return
<1>1. Len(signatures) \in Nat /\ \A i \in 1..Len(signatures) : signatures[i] \in Keys
  BY LenProperties, ElementOfSeq DEF TypeOK
<1>2. ~TooFew => Returned \in Seq(Keys)
  <2> SUFFICES ASSUME ~TooFew PROVE Returned \in Seq(Keys)
    OBVIOUS
  <2>1. \A i \in 1..Quorum : signatures[i] \in Keys
    BY <1>1, CommitteeAssumption DEF TooFew
  <2> QED
    BY <2>1, CommitteeAssumption, SubSeqProperties DEF Returned
<1>3. TooFew \in BOOLEAN
  BY DEF TooFew
<1>4. outcome' = [done |-> TRUE, err |-> TooFew, sigs |-> IF TooFew THEN <<>> ELSE Returned]
  OBVIOUS
<1>5. UNCHANGED <<worker, reply, counted, chan, received, signatures>>
  OBVIOUS
<1>6. TypeOK'
  <2>1. (IF TooFew THEN <<>> ELSE Returned) \in Seq(Keys)
    BY <1>2, EmptySeq
  <2>2. outcome' \in [done : BOOLEAN, err : BOOLEAN, sigs : Seq(Keys)]
    BY <2>1, <1>3, <1>4
  <2> QED
    BY <2>2, <1>5 DEF TypeOK
<1>7. Local' /\ OnChannel' /\ AtCaller' /\ Balance'
  BY <1>5 DEF Local, OnChannel, AtCaller, Balance, Done, Distinct
<1>8. Returning'
  <2>1. TooFew' = TooFew /\ Returned' = Returned
    BY <1>5 DEF TooFew, Returned
  <2>2. received' = Cardinality(Keys)
    BY <1>5 DEF EnoughResults
  <2>3. outcome'.done /\ (outcome'.err <=> TooFew)
    BY <1>4, <1>3
  <2>4. outcome'.sigs = IF TooFew THEN <<>> ELSE Returned
    BY <1>4
  <2> QED
    BY <2>1, <2>2, <2>3, <2>4, <1>5 DEF Returning
<1> QED
  BY <1>6, <1>7, <1>8

\* Every step of the call, and every change elsewhere, keeps the invariant.
THEOREM NextIInv == IInv /\ [Next]_vars => IInv'
<1> SUFFICES ASSUME IInv, [Next]_vars PROVE IInv'
  OBVIOUS
<1>1. ASSUME NEW k \in Keys, Spawn(k) \/ Request(k) \/ Verify(k) PROVE IInv'
  BY <1>1, GoroutineIInv
<1>2. ASSUME NEW k \in Keys, Put(k) PROVE IInv'
  BY <1>2, PutIInv
<1>3. CASE Receive
  BY <1>3, ReceiveIInv
<1>4. CASE Return
  BY <1>4, ReturnIInv
<1>5. CASE UNCHANGED vars
  BY <1>5 DEF vars, IInv, TypeOK, Local, OnChannel, AtCaller, Balance, Done, Returning,
              Distinct, TooFew, Returned
<1> QED
  BY <1>1, <1>2, <1>3, <1>4, <1>5 DEF Next, Caller, Goroutine, Terminated

\* The invariant holds as long as the call runs.
THEOREM Invariance == Spec => []IInv
  BY InitIInv, NextIInv, PTL DEF Spec
--------------------------------------------------------------------------------
(* What the invariant says of the call.                                        *)

\* TypeOK, from the invariant.
LEMMA InvTypeOK == IInv => TypeOK
BY DEF IInv

\* Every variable stays in its type.
THEOREM SigningTypeCorrect == Spec => []TypeOK
  BY InvTypeOK, Invariance, PTL

\* When as many results were received as there are keys, all goroutines ended.
LEMMA AllReceived ==
  ASSUME IInv, received = Cardinality(Keys)
  PROVE  chan = <<>> /\ \A k \in Keys : worker[k] = "done"
<1>1. Len(chan) \in Nat /\ received + Len(chan) = Cardinality(Done)
  BY LenProperties DEF IInv, Balance, TypeOK
<1>2. Len(chan) = 0 /\ Done = Keys
  BY <1>1, DoneCount, KeysCount
<1>3. chan = <<>>
  BY <1>2, EmptySeq DEF IInv, TypeOK
<1> QED
  BY <1>2, <1>3 DEF Done

\* PutNeverBlocks, from the invariant.
LEMMA InvPutNeverBlocks == IInv => PutNeverBlocks
<1> SUFFICES ASSUME IInv, NEW k \in Keys, worker[k] = "sending"
             PROVE  Len(chan) < Capacity
  BY DEF PutNeverBlocks
<1>1. Done # Keys
  BY DEF Done
<1>2. Cardinality(Done) < Cardinality(Keys)
  BY <1>1, DoneCount, KeysCount
<1>3. Len(chan) \in Nat /\ received \in Nat /\ received + Len(chan) = Cardinality(Done)
  BY LenProperties DEF IInv, Balance, TypeOK
<1> QED
  BY <1>2, <1>3, DoneCount, KeysCount DEF Capacity

\* The channel has room for every goroutine that is about to put its result.
THEOREM PutsNeverBlock == Spec => []PutNeverBlocks
  BY InvPutNeverBlocks, Invariance, PTL

\* NothingLeftBehind, from the invariant.
LEMMA InvNothingLeftBehind == IInv => NothingLeftBehind
<1> SUFFICES ASSUME IInv, outcome.done
             PROVE  /\ chan = <<>>
                    /\ \A k \in Keys :
                         /\ worker[k] = "done"
                         /\ counted[k] = IF reply[k] = "signed" THEN "success" ELSE "failed"
  BY DEF NothingLeftBehind
<1>1. chan = <<>> /\ \A k \in Keys : worker[k] = "done"
  BY AllReceived DEF IInv, Returning
<1> QED
  BY <1>1 DEF IInv, Local

\* Once the call returned, nothing it started goes on.
THEOREM NothingIsLeftBehind == Spec => []NothingLeftBehind
  BY InvNothingLeftBehind, Invariance, PTL

\* The keys that were counted as a success and received are those held.
LEMMA HeldAreSigned ==
  ASSUME IInv
  PROVE  /\ \A k \in Keyed(signatures) : k \in Keys /\ reply[k] = "signed"
         /\ IsFiniteSet(Keyed(signatures)) /\ Cardinality(Keyed(signatures)) = Len(signatures)
<1>1. signatures \in Seq(Keys) /\ Distinct(signatures)
  BY DEF IInv, TypeOK, AtCaller
<1>2. IsFiniteSet(Keyed(signatures)) /\ Cardinality(Keyed(signatures)) = Len(signatures)
  BY <1>1, DistinctCount
<1>3. ASSUME NEW i \in 1..Len(signatures)
      PROVE  signatures[i] \in Keys /\ reply[signatures[i]] = "signed"
  <2>1. signatures[i] \in Keys
    BY <1>1, ElementOfSeq
  <2>2. worker[signatures[i]] = "done" /\ counted[signatures[i]] = "success"
    BY DEF IInv, AtCaller
  <2> QED
    BY <2>1, <2>2 DEF IInv, Local
<1> QED
  BY <1>2, <1>3 DEF Keyed

\* When all results were received, the keys held are exactly those that signed.
LEMMA HeldAreAllSigned ==
  ASSUME IInv, received = Cardinality(Keys)
  PROVE  Keyed(signatures) = {k \in Keys : reply[k] = "signed"}
<1>1. ASSUME NEW k \in Keys, reply[k] = "signed" PROVE k \in Keyed(signatures)
  <2>1. chan = <<>> /\ worker[k] = "done"
    BY AllReceived
  <2>2. counted[k] = "success"
    BY <2>1, <1>1 DEF IInv, Local
  <2>3. ~ \E j \in 1..Len(chan) : chan[j].key = k
    BY <2>1, EmptySeq
  <2> QED
    BY <2>1, <2>2, <2>3 DEF IInv, AtCaller
<1> QED
  BY <1>1, HeldAreSigned

\* The first signatures, as many as a quorum, are of distinct keys.
LEMMA ReturnedIsQuorum ==
  ASSUME IInv, ~TooFew
  PROVE  /\ Returned \in Seq(Keys) /\ Len(Returned) = Quorum
         /\ IsFiniteSet(Keyed(Returned)) /\ Cardinality(Keyed(Returned)) = Quorum
         /\ Keyed(Returned) \subseteq Keyed(signatures)
<1>1. /\ signatures \in Seq(Keys) /\ Distinct(signatures) /\ Len(signatures) \in Nat
      /\ Quorum \in Nat \ {0} /\ Quorum <= Len(signatures)
  BY CommitteeAssumption, LenProperties DEF IInv, TypeOK, AtCaller, TooFew
<1>2. \A i \in 1..Quorum : signatures[i] \in Keys
  BY <1>1, ElementOfSeq
<1>3. /\ Returned \in Seq(Keys) /\ Len(Returned) = Quorum
      /\ \A i \in 1..Quorum : Returned[i] = signatures[i]
  <2>1. /\ Returned \in Seq(Keys)
        /\ Len(Returned) = IF 1 <= Quorum THEN Quorum - 1 + 1 ELSE 0
        /\ \A i \in 1..(Quorum - 1 + 1) : Returned[i] = signatures[1 + i - 1]
    BY <1>1, <1>2, SubSeqProperties DEF Returned
  <2> QED
    BY <2>1, <1>1
<1>4. Distinct(Returned)
  BY <1>1, <1>3 DEF Distinct
<1>5. Keyed(Returned) \subseteq Keyed(signatures)
  BY <1>1, <1>3 DEF Keyed
<1> QED
  BY <1>3, <1>4, <1>5, DistinctCount

\* ReturnsExactQuorum, from the invariant.
LEMMA InvReturnsExactQuorum == IInv => ReturnsExactQuorum
<1> SUFFICES ASSUME IInv, outcome.done, ~outcome.err
             PROVE  /\ Len(outcome.sigs) = Quorum
                    /\ Cardinality(Keyed(outcome.sigs)) = Quorum
                    /\ \A k \in Keyed(outcome.sigs) : reply[k] = "signed"
  BY DEF ReturnsExactQuorum
<1>1. ~TooFew /\ outcome.sigs = Returned
  BY DEF IInv, Returning
<1> QED
  BY <1>1, ReturnedIsQuorum, HeldAreSigned

\* A call that succeeds returns exactly a quorum of keys whose signers signed.
THEOREM QuorumIsExact == Spec => []ReturnsExactQuorum
  BY InvReturnsExactQuorum, Invariance, PTL

\* ErrorMeansTooFew, from the invariant.
LEMMA InvErrorMeansTooFew == IInv => ErrorMeansTooFew
<1> SUFFICES ASSUME IInv, outcome.err
             PROVE  Cardinality({k \in Keys : reply[k] = "signed"}) < Quorum
  BY DEF ErrorMeansTooFew
<1>1. received = Cardinality(Keys) /\ TooFew
  BY DEF IInv, Returning, Pending
<1> QED
  BY <1>1, HeldAreSigned, HeldAreAllSigned DEF TooFew

\* A call that fails had too few signers, counting those that answered last.
THEOREM ErrorsAreRight == Spec => []ErrorMeansTooFew
  BY InvErrorMeansTooFew, Invariance, PTL

\* NoSignatureLost, from the invariant.
LEMMA InvNoSignatureLost == IInv => NoSignatureLost
<1> SUFFICES ASSUME IInv PROVE NoSignatureLost
  OBVIOUS
<1> DEFINE success   == {k \in Keys : counted[k] = "success"}
           onChannel == {i \in 1..Len(chan) : chan[i].ok}
           counting  == {k \in Keys : counted[k] = "success" /\ worker[k] = "sending"}
           waiting   == {chan[i].key : i \in onChannel}
           held      == Keyed(signatures)
<1>1. /\ IsFiniteSet(held) /\ Cardinality(held) = Len(signatures)
      /\ Len(signatures) \in Nat
  BY HeldAreSigned, LenProperties DEF IInv, TypeOK
<1>2. /\ \A i \in onChannel : /\ chan[i].key \in Keys
                              /\ worker[chan[i].key] = "done"
                              /\ counted[chan[i].key] = "success"
  <2> SUFFICES ASSUME NEW i \in onChannel
               PROVE  chan[i].key \in Keys /\ worker[chan[i].key] = "done"
                      /\ counted[chan[i].key] = "success"
    OBVIOUS
  <2>1. chan[i] \in Results
    BY ElementOfSeq DEF IInv, TypeOK
  <2> QED
    BY <2>1 DEF Results, IInv, OnChannel
<1>3. IsFiniteSet(waiting) /\ Cardinality(waiting) = Cardinality(onChannel)
      /\ Cardinality(onChannel) \in Nat
  <2> DEFINE f == [i \in onChannel |-> chan[i].key]
  <2>1. f \in [onChannel -> waiting]
    OBVIOUS
  <2>2. \A i, j \in onChannel : f[i] = f[j] => i = j
    BY DEF IInv, OnChannel
  <2>3. \A k \in waiting : \E i \in onChannel : f[i] = k
    OBVIOUS
  <2>4. f \in Bijection(onChannel, waiting)
    BY <2>1, <2>2, <2>3, Fun_IsBij
  <2>5. ExistsBijection(onChannel, waiting)
    BY <2>4 DEF ExistsBijection
  <2>6. Len(chan) \in Nat
    BY LenProperties DEF IInv, TypeOK
  <2>7. IsFiniteSet(1..Len(chan)) /\ onChannel \in SUBSET (1..Len(chan))
    BY <2>6, FS_Interval
  <2>8. IsFiniteSet(onChannel)
    BY <2>7, FS_Subset
  <2> QED
    BY <2>5, <2>8, FS_Bijection, FS_CardinalityType
<1>4. IsFiniteSet(counting) /\ Cardinality(counting) \in Nat
  <2>1. counting \in SUBSET Keys
    OBVIOUS
  <2> QED
    BY <2>1, CommitteeAssumption, FS_Subset, FS_CardinalityType
<1>5. success = (held \cup waiting) \cup counting
  <2>1. success \subseteq (held \cup waiting) \cup counting
    <3> SUFFICES ASSUME NEW k \in Keys, counted[k] = "success"
                 PROVE  k \in held \/ k \in waiting \/ worker[k] = "sending"
      OBVIOUS
    <3>1. worker[k] \in {"sending", "done"}
      BY DEF IInv, TypeOK, Workers, Local
    <3>2. worker[k] = "done" => k \in held \/ \E j \in 1..Len(chan) : chan[j].key = k
      BY DEF IInv, AtCaller
    <3>3. \A j \in 1..Len(chan) : chan[j].key = k => chan[j].ok
      BY DEF IInv, OnChannel
    <3> QED
      BY <3>1, <3>2, <3>3
  <2>2. held \subseteq success
    BY HeldAreSigned DEF IInv, AtCaller, Keyed
  <2>3. waiting \subseteq success
    BY <1>2
  <2> QED
    BY <2>1, <2>2, <2>3
<1>6. held \cap waiting = {} /\ (held \cup waiting) \cap counting = {}
  <2>1. \A k \in held : worker[k] = "done" /\ k \notin waiting
    BY DEF IInv, AtCaller, Keyed
  <2>2. \A k \in waiting : worker[k] = "done"
    BY <1>2
  <2> QED
    BY <2>1, <2>2
<1> HIDE DEF success, onChannel, counting, waiting, held
<1>7. /\ IsFiniteSet(held \cup waiting)
      /\ Cardinality(held \cup waiting) = Len(signatures) + Cardinality(onChannel)
  <2>1. Cardinality(held \cap waiting) = 0
    BY <1>6, FS_EmptySet
  <2>2. /\ IsFiniteSet(held \cup waiting)
        /\ Cardinality(held \cup waiting)
             = Cardinality(held) + Cardinality(waiting) - Cardinality(held \cap waiting)
    BY <1>1, <1>3, FS_Union
  <2> QED
    BY <1>1, <1>3, <2>1, <2>2
<1>8. Cardinality(success) = Len(signatures) + Cardinality(onChannel) + Cardinality(counting)
  <2>1. Cardinality((held \cup waiting) \cap counting) = 0
    BY <1>6, FS_EmptySet
  <2>2. Cardinality((held \cup waiting) \cup counting)
          = Cardinality(held \cup waiting) + Cardinality(counting)
            - Cardinality((held \cup waiting) \cap counting)
    BY <1>4, <1>7, FS_Union
  <2> QED
    BY <1>1, <1>3, <1>4, <1>5, <1>7, <2>1, <2>2
<1> QED
  BY <1>1, <1>8 DEF NoSignatureLost, success, onChannel, counting, held

\* Each success is held by the caller, or on the channel, or about to be put there.
THEOREM EverySignatureHasOnePlace == Spec => []NoSignatureLost
  BY InvNoSignatureLost, Invariance, PTL
--------------------------------------------------------------------------------
(* The call implements its contract: a request is an answer of the contract,   *)
(* the return is its return, everything else is invisible.                     *)

\* The contract counts as the call does.
LEMMA CountsAgree ==
  ASSUME NEW S
  PROVE  Contract!Cardinality(S) = Cardinality(S)
BY Zenon DEF Contract!Cardinality, Cardinality

\* Nobody is keyed by an empty sequence.
LEMMA NoneKeyed == Keyed(<<>>) = {}
  BY EmptySeq DEF Keyed

\* The step that returns is allowed by the contract.
LEMMA ReturnIsContracted ==
  ASSUME IInv, Return
  PROVE  Contract!Return
<1>1. /\ received = Cardinality(Keys) /\ outcome = Pending
      /\ outcome' = [done |-> TRUE, err |-> TooFew, sigs |-> IF TooFew THEN <<>> ELSE Returned]
      /\ reply' = reply
  BY DEF Return, EnoughResults, IInv, Returning
<1>2. \A k \in Keys : reply[k] # "none"
  BY <1>1, AllReceived DEF IInv, Local
<1>3. /\ Keyed(signatures) = {k \in Keys : reply[k] = "signed"}
      /\ Cardinality(Keyed(signatures)) = Len(signatures)
  BY <1>1, HeldAreSigned, HeldAreAllSigned
<1>4. outcome.err = FALSE /\ Keyed(outcome.sigs) = {}
  BY <1>1, NoneKeyed DEF Pending
<1>5. /\ [err |-> outcome.err, keys |-> Keyed(outcome.sigs)] = [err |-> FALSE, keys |-> {}]
      /\ \A k \in Keys : reply[k] # "none"
      /\ UNCHANGED reply
  BY <1>1, <1>2, <1>4
<1>6. CASE TooFew
  <2>1. [err |-> outcome.err, keys |-> Keyed(outcome.sigs)]' = [err |-> TRUE, keys |-> {}]
    <3>1. outcome'.err = TRUE /\ outcome'.sigs = <<>>
      BY <1>1, <1>6
    <3> QED
      BY <3>1, NoneKeyed DEF Keyed
  <2>2. Cardinality(Contract!Valid) < Quorum
    BY <1>3, <1>6 DEF TooFew, Contract!Valid
  <2> QED
    BY <1>5, <2>1, <2>2, CountsAgree DEF Contract!Return
<1>7. CASE ~TooFew
  <2>1. [err |-> outcome.err, keys |-> Keyed(outcome.sigs)]'
          = [err |-> FALSE, keys |-> Keyed(Returned)]
    <3>1. outcome'.err = FALSE /\ outcome'.sigs = Returned
      BY <1>1, <1>7
    <3>2. Keyed(outcome'.sigs) = Keyed(Returned)
      BY <3>1
    <3> QED
      BY <3>1, <3>2 DEF Keyed
  <2>2. Keyed(Returned) \in SUBSET Contract!Valid
    BY <1>3, <1>7, ReturnedIsQuorum DEF Contract!Valid
  <2>3. Cardinality(Keyed(Returned)) = Quorum
    BY <1>7, ReturnedIsQuorum
  <2> QED
    BY <1>5, <2>1, <2>2, <2>3, CountsAgree DEF Contract!Return
<1> QED
  BY <1>6, <1>7

\* A call begins as its contract does.
LEMMA ContractBegins == Init => Contract!Init
<1> SUFFICES ASSUME Init PROVE Contract!Init
  OBVIOUS
<1>1. outcome.err = FALSE /\ outcome.sigs = <<>>
  BY DEF Init, Pending
<1> QED
  BY <1>1, NoneKeyed DEF Init, Contract!Init

\* A step of the call is a step of the contract or none.
LEMMA ContractStep == IInv /\ [Next]_vars => [Contract!Next]_Contract!vars
<1> SUFFICES ASSUME IInv, [Next]_vars
             PROVE  Contract!Next \/ UNCHANGED Contract!vars
  OBVIOUS
<1>1. ASSUME NEW k \in Keys, Request(k) PROVE Contract!Answer(k)
  <2>1. reply[k] = "none" /\ outcome' = outcome
    BY <1>1 DEF Request, IInv, Local
  <2>2. \E r \in Replies : reply' = [reply EXCEPT ![k] = r]
    BY <1>1 DEF Request, Replies
  <2> QED
    BY <2>1, <2>2 DEF Contract!Answer, Contract!Replies, Replies, Keyed
<1>2. CASE Return
  BY <1>2, ReturnIsContracted DEF Contract!Next
<1>3. ASSUME UNCHANGED <<reply, outcome>> PROVE UNCHANGED Contract!vars
  BY <1>3 DEF Contract!vars, Keyed
<1>4. CASE \E k \in Keys : Spawn(k) \/ Verify(k) \/ Put(k)
  BY <1>3, <1>4 DEF Spawn, Verify, Put
<1>5. CASE Receive \/ UNCHANGED vars
  BY <1>3, <1>5 DEF Receive, vars
<1> QED
  BY <1>1, <1>2, <1>4, <1>5 DEF Contract!Next, Next, Caller, Goroutine, Terminated

\* Every call is one the contract of the pipeline allows.
THEOREM SigningImplementsContract == Spec => ContractSpec
  BY ContractBegins, ContractStep, Invariance, PTL DEF Spec, ContractSpec, Contract!Spec
--------------------------------------------------------------------------------
(* A call has only so many steps, and always one it can take.                  *)

\* What a goroutine still does: it is started, asks, verifies and puts its result.
StepsFrom(place) ==
  CASE place = "unstarted"  -> 4
    [] place = "requesting" -> 3
    [] place = "verifying"  -> 2
    [] place = "sending"    -> 1
    [] place = "done"       -> 0

ToDo == [k \in Keys |-> StepsFrom(worker[k])]

\* What the goroutines and the caller, who receives from each and returns, still do.
CallLeft ==
  SumOf(ToDo, Keys) + (Cardinality(Keys) - received) + (IF outcome.done THEN 0 ELSE 1)

\* Each step of the call brings it nearer to its end.
CallsGetShorter == [][CallLeft' < CallLeft /\ CallLeft \in Nat]_vars

\* There is a number of steps left, for each goroutine and for all of them.
LEMMA ToDoCounts ==
  ASSUME TypeOK
  PROVE  /\ ToDo \in [Keys -> 0..4] /\ \A k \in Keys : ToDo[k] \in Int
         /\ SumOf(ToDo, Keys) \in Nat
<1>1. ToDo \in [Keys -> 0..4] /\ \A k \in Keys : ToDo[k] \in 0..4
  BY DEF TypeOK, Workers, ToDo, StepsFrom
<1>2. SumOf(ToDo, Keys) >= 0 * Cardinality(Keys) /\ SumOf(ToDo, Keys) \in Int
  BY <1>1, CommitteeAssumption, SumType, SumAtLeast
<1> QED
  BY <1>1, <1>2, KeysCount

\* The caller has not received more than there are keys.
LEMMA ReceivedCount == IInv => received \in 0..Cardinality(Keys)
<1>1. IInv => /\ received \in Nat /\ Len(chan) \in Nat
              /\ received + Len(chan) = Cardinality(Done)
  BY LenProperties DEF IInv, TypeOK, Balance
<1> QED
  BY <1>1, DoneCount, KeysCount

\* Both parts of what is left are natural numbers.
Counted == SumOf(ToDo, Keys) \in Nat /\ received \in 0..Cardinality(Keys)

\* Counted, from the invariant.
LEMMA InvCounted == IInv => Counted
  BY ToDoCounts, ReceivedCount, InvTypeOK DEF Counted

\* A goroutine that takes one of its steps has one less to take, and the others
\* have as many as before.
LEMMA GoroutineShortens ==
  ASSUME TypeOK, TypeOK', NEW k \in Keys, NEW place \in Workers,
         worker' = [worker EXCEPT ![k] = place], StepsFrom(place) < StepsFrom(worker[k])
  PROVE  SumOf(ToDo', Keys) < SumOf(ToDo, Keys)
<1>1. /\ IsFiniteSet(Keys) /\ IsFiniteSet(Keys \ {k})
      /\ \A j \in Keys : ToDo[j] \in Int /\ ToDo'[j] \in Int
  BY CommitteeAssumption, FS_Subset, ToDoCounts DEF TypeOK, Workers, ToDo, StepsFrom
<1>2. SumOf(ToDo, Keys) = ToDo[k] + SumOf(ToDo, Keys \ {k})
  BY <1>1, SumRemove
<1>3. SumOf(ToDo', Keys) = ToDo'[k] + SumOf(ToDo', Keys \ {k})
  BY <1>1, SumRemove
<1>4. SumOf(ToDo', Keys \ {k}) = SumOf(ToDo, Keys \ {k})
  <2>1. \A j \in Keys \ {k} : ToDo'[j] = ToDo[j]
    BY DEF TypeOK, ToDo
  <2> QED
    BY <1>1, <2>1, SumCongruence
<1>5. ToDo'[k] < ToDo[k]
  BY DEF TypeOK, ToDo
<1>6. SumOf(ToDo, Keys \ {k}) \in Int
  BY <1>1, SumType
<1> DEFINE rest == SumOf(ToDo, Keys \ {k})
           all  == SumOf(ToDo, Keys)
           left == SumOf(ToDo', Keys)
<1>7. all = ToDo[k] + rest /\ left = ToDo'[k] + rest /\ rest \in Int
  BY <1>2, <1>3, <1>4, <1>6, Zenon
<1> HIDE DEF rest, all, left
<1>8. left < all
  BY <1>1, <1>5, <1>7
<1> QED
  BY <1>8 DEF all, left

\* Every step of the call leaves less to do.
LEMMA StepShortens ==
  ASSUME IInv, IInv', Counted, Counted', Next, vars' # vars
  PROVE  CallLeft' < CallLeft /\ CallLeft \in Nat
<1> DEFINE all  == SumOf(ToDo, Keys)
           left == SumOf(ToDo', Keys)
<1>t. TypeOK /\ TypeOK'
  BY DEF IInv
<1>1. /\ all \in Nat /\ left \in Nat /\ Cardinality(Keys) \in Nat
      /\ received \in 0..Cardinality(Keys) /\ received' \in 0..Cardinality(Keys)
  BY KeysCount DEF Counted
<1>2. CallLeft = all + (Cardinality(Keys) - received) + (IF outcome.done THEN 0 ELSE 1)
  BY DEF CallLeft
<1>3. CallLeft' = left + (Cardinality(Keys) - received') + (IF outcome'.done THEN 0 ELSE 1)
  BY DEF CallLeft
<1> HIDE DEF all, left
<1>4. ASSUME NEW k \in Keys, Spawn(k) \/ Goroutine(k)
      PROVE  left < all /\ UNCHANGED <<received, outcome>>
  <2>1. UNCHANGED <<received, outcome>>
    BY <1>4 DEF Spawn, Goroutine, Request, Verify, Put
  <2>2. PICK place \in Workers : /\ worker' = [worker EXCEPT ![k] = place]
                                 /\ StepsFrom(place) < StepsFrom(worker[k])
    <3>1. CASE Spawn(k)
      BY <3>1 DEF Spawn, Workers, StepsFrom
    <3>2. CASE Request(k)
      <4>1. PICK r : worker' = [worker EXCEPT ![k] = AfterRequest(r)]
        BY <3>2 DEF Request
      <4>2. worker[k] = "requesting"
        BY <3>2 DEF Request
      <4>3. AfterRequest(r) \in {"sending", "verifying"}
        BY DEF AfterRequest
      <4>4. AfterRequest(r) \in Workers /\ StepsFrom(AfterRequest(r)) < StepsFrom(worker[k])
        BY <4>2, <4>3 DEF Workers, StepsFrom
      <4> QED
        BY <4>1, <4>4
    <3>3. CASE Verify(k)
      BY <3>3 DEF Verify, Workers, StepsFrom
    <3>4. CASE Put(k)
      BY <3>4 DEF Put, Workers, StepsFrom
    <3> QED
      BY <1>4, <3>1, <3>2, <3>3, <3>4 DEF Goroutine
  <2> QED
    BY <1>t, <2>1, <2>2, GoroutineShortens DEF all, left
<1>5. CASE Receive
  <2>1. worker' = worker /\ outcome' = outcome /\ received' = received + 1
    BY <1>5 DEF Receive
  <2>2. left = all
    BY <2>1 DEF left, all, ToDo
  <2> QED
    BY <1>1, <1>2, <1>3, <2>1, <2>2
<1>6. CASE Return
  <2>1. worker' = worker /\ received' = received /\ ~outcome.done /\ outcome'.done
    BY <1>6 DEF Return
  <2>2. left = all
    BY <2>1 DEF left, all, ToDo
  <2> QED
    BY <1>1, <1>2, <1>3, <2>1, <2>2
<1>7. CASE \E k \in Keys : Spawn(k) \/ Goroutine(k)
  BY <1>1, <1>2, <1>3, <1>4, <1>7
<1> QED
  BY <1>5, <1>6, <1>7 DEF Next, Caller, Terminated

\* A call takes a bounded number of steps, whoever answers and in whatever order:
\* nothing is asked, verified or received twice.
THEOREM CallsAreFinite == Spec => CallsGetShorter
<1>1. IInv /\ IInv' /\ Counted /\ Counted' /\ [Next]_vars
        => [CallLeft' < CallLeft /\ CallLeft \in Nat]_vars
  BY StepShortens
<1> QED
  BY <1>1, InvCounted, Invariance, PTL DEF Spec, CallsGetShorter

\* What a call that has not returned can do next: return, start a goroutine, receive
\* a result, or let a goroutine ask, verify or put its result without waiting.
CallGetsOn ==
  \/ EnoughResults
  \/ \E k \in Keys : worker[k] \in {"unstarted", "requesting", "verifying"}
  \/ \E k \in Keys : worker[k] = "sending" /\ Len(chan) < Capacity
  \/ (\A k \in Keys : worker[k] # "unstarted") /\ ~EnoughResults /\ chan # <<>>

\* The caller never waits for a result that nobody will send, nor a goroutine for
\* room that nobody will make.
LEMMA InvCallGetsOn == IInv => (~outcome.done => CallGetsOn)
<1> SUFFICES ASSUME IInv, ~CallGetsOn PROVE FALSE
  OBVIOUS
<1>1. \A k \in Keys : worker[k] \in {"sending", "done"}
  BY DEF CallGetsOn, IInv, TypeOK, Workers
<1>2. \A k \in Keys : worker[k] # "sending"
  BY InvPutNeverBlocks DEF CallGetsOn, PutNeverBlocks
<1>3. Done = Keys
  BY <1>1, <1>2 DEF Done
<1>4. chan = <<>>
  BY <1>1 DEF CallGetsOn
<1>5. received + 0 = Cardinality(Keys)
  BY <1>3, <1>4, EmptySeq DEF IInv, Balance
<1> QED
  BY <1>5, ReceivedCount, KeysCount DEF CallGetsOn, EnoughResults

\* No call is ever stuck before it returns.
THEOREM CallsAreNeverStuck == Spec => [](~outcome.done => CallGetsOn)
  BY InvCallGetsOn, Invariance, PTL
================================================================================

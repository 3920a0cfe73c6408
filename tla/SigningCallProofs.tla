--------------------------- MODULE SigningCallProofs ---------------------------
(* The call inside the command that configures its signers and builds a        *)
(* witness of what it returns: what holds of any call holds of this one, and   *)
(* the keys that sign are those the operator configured.                       *)
EXTENDS SigningCall, CovenantSigningProofs, FiniteLemmas, FunctionTheorems, SequenceTheorems

\* Every step of the command is a step of the call, or leaves the call alone.
LEMMA CallSteps ==
  ASSUME [CallNext]_callVars
  PROVE  [Next]_vars
<1>1. Configure \/ CreateUnbondingTxWitness \/ Over => UNCHANGED vars
  BY DEF Configure, CreateUnbondingTxWitness, Over, callVars
<1>2. Sign => Next
  BY DEF Sign
<1>3. UNCHANGED callVars => UNCHANGED vars
  BY DEF callVars
<1> QED
  BY <1>1, <1>2, <1>3 DEF CallNext

\* However the signers were configured, the call keeps its invariant.
THEOREM CallInvariance == CallSpec => []IInv
<1>1. CallInit => Init
  BY DEF CallInit
<1>2. IInv /\ [CallNext]_callVars => IInv'
  BY CallSteps, NextIInv
<1> QED
  BY <1>1, <1>2, InitIInv, PTL DEF CallSpec

\* What is proved of any call holds of the command's.
THEOREM CallIsSafe ==
  CallSpec => [](/\ TypeOK /\ PutNeverBlocks /\ NoSignatureLost
                 /\ ReturnsExactQuorum /\ ErrorMeansTooFew /\ NothingLeftBehind)
<1>1. IInv => /\ TypeOK /\ PutNeverBlocks /\ NoSignatureLost
              /\ ReturnsExactQuorum /\ ErrorMeansTooFew /\ NothingLeftBehind
  BY InvTypeOK, InvPutNeverBlocks, InvNoSignatureLost, InvReturnsExactQuorum,
     InvErrorMeansTooFew, InvNothingLeftBehind
<1> QED
  BY <1>1, CallInvariance, PTL

\* The call of the command implements the contract, too.
THEOREM CallImplementsContract == CallSpec => ContractSpec
<1>1. CallInit => Contract!Init
  BY ContractBegins DEF CallInit
<1>2. IInv /\ [CallNext]_callVars => [Contract!Next]_Contract!vars
  BY CallSteps, ContractStep
<1> QED
  BY <1>1, <1>2, CallInvariance, PTL DEF CallSpec, ContractSpec, Contract!Spec
\* Nor can anything outside it lengthen the call of the command or hold it up.
THEOREM CallComesToAnEnd == CallSpec => CallsGetShorter /\ [](~outcome.done => CallGetsOn)
<1>1. IInv /\ IInv' /\ Counted /\ Counted' /\ [CallNext]_callVars
        => [CallLeft' < CallLeft /\ CallLeft \in Nat]_vars
  BY CallSteps, StepShortens
<1>2. IInv => (~outcome.done => CallGetsOn)
  BY InvCallGetsOn
<1> QED
  BY <1>1, <1>2, InvCounted, CallInvariance, PTL DEF CallSpec, CallsGetShorter
--------------------------------------------------------------------------------
(* Where the signers come from.                                                *)

Ran(settings) == Config!Overlay(settings, Config!DefaultConfig(RunKey))

\* The URLs in the file are those of an operator or of a dump.
Written ==
  \/ file.settings \in OperatorFiles
  \/ "urls" \in DOMAIN file.settings => file.settings.urls = Config!DefaultUrls(DumpKey)

\* A command that started asks those of the file, or its own default.
Read == startup = "ok" => signers = Config!PubKeyToUrlMap(Ran(file.settings).urls)

\* Only a configured signer answers with a signature, to a command that started.
Asked == \A k \in Keys : reply[k] = "signed" => startup = "ok" /\ k \in DOMAIN signers

CInv == Written /\ Read /\ Asked

\* A file of the default settings, or of the first of them, has no other URLs.
LEMMA DumpsAreDefaults ==
  ASSUME NEW n \in 0..2
  PROVE  LET settings == [s \in {Config!Settings[i] : i \in 1..n} |->
                            Config!DefaultConfig(DumpKey)[s]]
         IN  "urls" \in DOMAIN settings => settings["urls"] = Config!DefaultUrls(DumpKey)
BY DEF Config!DefaultConfig

\* A step of the configuration keeps it.
LEMMA ConfigureCInv ==
  ASSUME CInv, Configure
  PROVE  CInv'
<1>1. startup = "none" /\ reply' = reply /\ Config!Next
  BY DEF Configure, Config!Next, vars
<1>2. \A k \in Keys : reply[k] # "signed"
  BY <1>1 DEF CInv, Asked
<1>3. Asked'
  BY <1>1, <1>2 DEF Asked
<1>4. CASE Config!Stat
  BY <1>1, <1>3, <1>4 DEF Config!Stat, CInv, Written, Read
<1>5. CASE Config!Create
  <2>1. file'.settings = <<>> /\ startup' = "none"
    BY <1>1, <1>5 DEF Config!Create, Config!File
  <2>2. "urls" \notin DOMAIN <<>>
    OBVIOUS
  <2> QED
    BY <1>3, <2>1, <2>2 DEF CInv, Written, Read
<1>6. CASE Config!Write
  <2>1. file'.settings = Config!DefaultConfig(DumpKey) /\ startup' = "none"
    BY <1>1, <1>6 DEF Config!Write, Config!File
  <2>2. file'.settings.urls = Config!DefaultUrls(DumpKey)
    BY <2>1 DEF Config!DefaultConfig
  <2> QED
    BY <1>3, <2>1, <2>2 DEF CInv, Written, Read
<1>7. ASSUME NEW n \in 0..2, NEW toml \in BOOLEAN, Config!Interrupted(n, toml)
      PROVE  CInv'
  <2>1. /\ file'.settings = [s \in {Config!Settings[i] : i \in 1..n} |->
                               Config!DefaultConfig(DumpKey)[s]]
        /\ startup' = "none"
    BY <1>1, <1>7 DEF Config!Interrupted, Config!File
  <2> QED
    BY <1>3, <2>1, DumpsAreDefaults DEF CInv, Written, Read
<1>8. ASSUME NEW settings \in OperatorFiles, Config!Edit(settings)
      PROVE  CInv'
  <2>1. file'.settings = settings /\ startup' = "none"
    BY <1>1, <1>8 DEF Config!Edit, Config!File
  <2> QED
    BY <1>3, <2>1 DEF CInv, Written, Read
<1>9. CASE Config!Start
  <2>1. file' = file
    BY <1>9 DEF Config!Start
  <2>2. startup' = "ok" => signers' = Config!PubKeyToUrlMap(Ran(file.settings).urls)
    BY <1>9 DEF Config!Start, Config!StartFails, Config!StartWith, Ran
  <2> QED
    BY <1>3, <2>1, <2>2 DEF CInv, Written, Read
<1> QED
  BY <1>1, <1>4, <1>5, <1>6, <1>7, <1>8, <1>9 DEF Config!Next

\* A step of the call keeps it: the answer of a key without a URL is an error.
LEMMA SignCInv ==
  ASSUME IInv, CInv, Sign
  PROVE  CInv'
<1>1. UNCHANGED <<signers, file, startup>> /\ startup = "ok" /\ Next
  BY DEF Sign
<1>2. Written' /\ Read'
  BY <1>1 DEF CInv, Written, Read, Ran
<1>3. Asked'
  <2>1. ASSUME NEW k \in Keys, Request(k) PROVE Asked'
    <3>1. PICK r \in IF k \in DOMAIN signers THEN Replies ELSE {"error"} :
            reply' = [reply EXCEPT ![k] = r]
      BY <2>1 DEF Request
    <3>2. r = "signed" => k \in DOMAIN signers
      BY <3>1
    <3>3. reply \in [Keys -> Replies \cup {"none"}]
      BY DEF IInv, TypeOK
    <3> QED
      BY <1>1, <3>1, <3>2, <3>3 DEF CInv, Asked
  <2>2. CASE UNCHANGED reply
    BY <1>1, <2>2 DEF CInv, Asked
  <2> QED
    BY <1>1, <2>1, <2>2 DEF Next, Caller, Goroutine, Terminated, Receive, Return,
                            Spawn, Verify, Put, vars
<1> QED
  BY <1>2, <1>3 DEF CInv

\* The keys that sign are configured, as long as the command runs.
THEOREM CallCInv == CallSpec => []CInv
<1>1. CallInit => CInv
  <2> SUFFICES ASSUME CallInit PROVE CInv
    OBVIOUS
  <2>1. file.settings = <<>> /\ startup = "none"
    BY DEF CallInit, Config!Init, Config!NoFile, Config!File
  <2>2. \A k \in Keys : reply[k] = "none"
    BY DEF CallInit, Init
  <2>3. "urls" \notin DOMAIN <<>>
    OBVIOUS
  <2> QED
    BY <2>1, <2>2, <2>3 DEF CInv, Written, Read, Asked
<1>2. IInv /\ CInv /\ [CallNext]_callVars => CInv'
  <2> SUFFICES ASSUME IInv, CInv, [CallNext]_callVars PROVE CInv'
    OBVIOUS
  <2>1. ASSUME UNCHANGED <<signers, file, startup, reply>> PROVE CInv'
    BY <2>1 DEF CInv, Written, Read, Asked, Ran
  <2>2. CASE CreateUnbondingTxWitness \/ Over \/ UNCHANGED callVars
    BY <2>1, <2>2 DEF CreateUnbondingTxWitness, Over, callVars, vars
  <2> QED
    BY <2>2, ConfigureCInv, SignCInv DEF CallNext
<1> QED
  BY <1>1, <1>2, CallInvariance, PTL DEF CallSpec
--------------------------------------------------------------------------------
(* What the map of the signer holds for a key.                                 *)

\* A set of positions that is not empty has a last one.
LEMMA LastOfPositions ==
  ASSUME NEW n \in Nat, NEW I \in SUBSET (1..n), I # {}
  PROVE  \E i \in I : \A j \in I : i >= j
<1> DEFINE T == {n - i : i \in I}
<1>1. T \subseteq Nat /\ T # {}
  <2>1. \A i \in I : i \in 1..n
    OBVIOUS
  <2>2. \A i \in I : n - i \in Nat
    BY <2>1
  <2>3. PICK i \in I : TRUE
    OBVIOUS
  <2>4. n - i \in T
    BY <2>3
  <2> QED
    BY <2>2, <2>4
<1>2. PICK x \in T : \A y \in T : x =< y
  BY <1>1, LeastNumber
<1>3. PICK i \in I : x = n - i
  OBVIOUS
<1>4. ASSUME NEW j \in I PROVE i >= j
  <2>1. n - j \in T /\ n - i =< n - j
    BY <1>2, <1>3
  <2> QED
    BY <2>1
<1> QED
  BY <1>4

\* UrlOf finds the last URL of a key that has one.
LEMMA UrlOfIsLast ==
  ASSUME NEW urls, Len(urls) \in Nat,
         NEW k, \E i \in 1..Len(urls) : urls[i].user = k
  PROVE  Names(urls, k, Config!Host(Config!UrlOf(urls, k)))
<1> DEFINE I == {i \in 1..Len(urls) : urls[i].user = k}
           last == CHOOSE x \in I : \A y \in I : x >= y
<1>1. I \in SUBSET (1..Len(urls)) /\ I # {}
  OBVIOUS
<1>2. last \in I /\ \A j \in I : last >= j
  BY <1>1, LastOfPositions
<1>3. Config!UrlOf(urls, k) = urls[last]
  BY <1>1 DEF Config!UrlOf, Config!SelectLastInSeq, Config!Max
<1>4. /\ last \in 1..Len(urls) /\ urls[last].user = k
      /\ \A j \in 1..Len(urls) : urls[j].user = k => j <= last
  BY <1>2
<1> QED
  BY <1>3, <1>4 DEF Names

\* The map has the last host the URLs name for each key in it.
LEMMA MapNames ==
  ASSUME NEW urls, Len(urls) \in Nat, NEW k \in DOMAIN Config!PubKeyToUrlMap(urls)
  PROVE  Names(urls, k, Config!PubKeyToUrlMap(urls)[k])
<1>1. \E i \in 1..Len(urls) : urls[i].user = k
  BY DEF Config!PubKeyToUrlMap
<1>2. Config!PubKeyToUrlMap(urls)[k] = Config!Host(Config!UrlOf(urls, k))
  BY DEF Config!PubKeyToUrlMap
<1> QED
  BY <1>1, <1>2, UrlOfIsLast

\* The default URLs name the default key alone.
LEMMA DefaultsNameOne ==
  ASSUME NEW key
  PROVE  DOMAIN Config!PubKeyToUrlMap(Config!DefaultUrls(key)) = {key}
<1>1. Len(Config!DefaultUrls(key)) = 1 /\ Config!DefaultUrls(key)[1].user = key
  BY DEF Config!DefaultUrls, Config!Url
<1> QED
  BY <1>1 DEF Config!PubKeyToUrlMap

\* A key that signed is one of an operator's file, at the host that was asked.
LEMMA SignerIsConfigured ==
  ASSUME CInv, NEW k \in Keys, reply[k] = "signed"
  PROVE  /\ file.settings \in OperatorFiles /\ "urls" \in DOMAIN file.settings
         /\ Names(file.settings.urls, k, signers[k])
<1> DEFINE urls == Ran(file.settings).urls
<1>1. signers = Config!PubKeyToUrlMap(urls) /\ k \in DOMAIN signers
  BY DEF CInv, Read, Asked
<1>2. "urls" \in DOMAIN file.settings /\ urls = file.settings.urls
  <2>1. CASE "urls" \in DOMAIN file.settings
    BY <2>1 DEF Ran, Config!Overlay
  <2>2. CASE "urls" \notin DOMAIN file.settings
    <3>1. urls = Config!DefaultUrls(RunKey)
      BY <2>2 DEF Ran, Config!Overlay, Config!DefaultConfig
    <3> QED
      BY <1>1, <3>1, DefaultsNameOne, DefaultKeysAssumption
  <2> QED
    BY <2>1, <2>2
<1>3. file.settings \in OperatorFiles
  <2>1. urls # Config!DefaultUrls(DumpKey)
    BY <1>1, DefaultsNameOne, DefaultKeysAssumption
  <2> QED
    BY <1>2, <2>1 DEF CInv, Written
<1>4. Len(urls) \in Nat
  BY <1>2, <1>3, OperatorFilesAssumption
<1> HIDE DEF urls
<1>5. Names(urls, k, signers[k])
  BY <1>1, <1>4, MapNames
<1> QED
  BY <1>2, <1>3, <1>5

\* A quorum was returned only if the operator's file names every key of it at the
\* host that was asked, whatever dumps ran before or beside the edit.
THEOREM QuorumIsConfigured == CallSpec => []SignedWhereConfigured
<1>1. IInv /\ CInv => SignedWhereConfigured
  <2> SUFFICES ASSUME IInv, CInv, outcome.done, ~outcome.err
               PROVE  \E settings \in OperatorFiles :
                        /\ "urls" \in DOMAIN settings
                        /\ \A k \in Keyed(outcome.sigs) : Names(settings.urls, k, signers[k])
    BY DEF SignedWhereConfigured
  <2>1. ~TooFew /\ outcome.sigs = Returned
    BY DEF IInv, Returning
  <2>2. /\ Len(outcome.sigs) = Quorum
        /\ \A k \in Keyed(outcome.sigs) : k \in Keys /\ reply[k] = "signed"
    BY <2>1, ReturnedIsQuorum, HeldAreSigned
  <2>3. \A k \in Keyed(outcome.sigs) :
          /\ file.settings \in OperatorFiles /\ "urls" \in DOMAIN file.settings
          /\ Names(file.settings.urls, k, signers[k])
    BY <2>2, SignerIsConfigured
  <2>4. outcome.sigs[1] \in Keyed(outcome.sigs)
    BY <2>2, CommitteeAssumption DEF Keyed
  <2> QED
    BY <2>3, <2>4
<1> QED
  BY <1>1, CallInvariance, CallCInv, PTL
--------------------------------------------------------------------------------
(* The two sorts of a committee mirror each other.                             *)

\* A list of keys of which no two share their x-only bytes.
IsCommittee(s) ==
  /\ s \in Seq(Keys)
  /\ \A i, j \in 1..Len(s) : XOnly(s[i]) = XOnly(s[j]) => i = j

Below(s, j) == {i \in 1..Len(s) : XOnly(s[i]) < XOnly(s[j])}
Above(s, j) == {i \in 1..Len(s) : XOnly(s[i]) > XOnly(s[j])}

\* X-only bytes compare as numbers do.
LEMMA XOnlyIsNumber == \A k \in Keys : XOnly(k) \in Nat \ {NoSig}
  BY KeysAssumption DEF XOnly, NoSig

LEMMA CommitteeKeys ==
  ASSUME NEW s, IsCommittee(s)
  PROVE  /\ Len(s) \in Nat /\ \A i \in 1..Len(s) : s[i] \in Keys /\ XOnly(s[i]) \in Nat \ {NoSig}
         /\ \A j \in 1..Len(s) : /\ IsFiniteSet(Below(s, j)) /\ IsFiniteSet(Above(s, j))
                                 /\ Cardinality(Below(s, j)) \in Nat
                                 /\ Cardinality(Above(s, j)) \in Nat
<1>1. Len(s) \in Nat /\ \A i \in 1..Len(s) : s[i] \in Keys /\ XOnly(s[i]) \in Nat \ {NoSig}
  BY XOnlyIsNumber, ElementOfSeq, LenProperties DEF IsCommittee
<1>2. IsFiniteSet(1..Len(s))
  BY <1>1, FS_Interval
<1>3. \A j \in 1..Len(s) : Below(s, j) \subseteq 1..Len(s) /\ Above(s, j) \subseteq 1..Len(s)
  BY DEF Below, Above
<1> QED
  BY <1>1, <1>2, <1>3, FS_Subset, FS_CardinalityType

\* Every other key is below a key or above it.
LEMMA PlacesMirror ==
  ASSUME NEW s, IsCommittee(s), NEW j \in 1..Len(s)
  PROVE  Cardinality(Below(s, j)) + Cardinality(Above(s, j)) + 1 = Len(s)
<1> DEFINE n == Len(s)
           B == Below(s, j)
           A == Above(s, j)
<1>1. n \in Nat
  BY CommitteeKeys
<1>2. IsFiniteSet(B) /\ IsFiniteSet(A) /\ Cardinality(B) \in Nat /\ Cardinality(A) \in Nat
  BY CommitteeKeys
<1>3. B \cup A = (1..n) \ {j} /\ B \cap A = {}
  BY CommitteeKeys DEF Below, Above, IsCommittee
<1> HIDE DEF n, A, B
<1>4. IsFiniteSet(1..n) /\ Cardinality(1..n) = n
  BY <1>1, FS_Interval
<1>5. Cardinality((1..n) \ {j}) = n - 1
  BY <1>4, FS_RemoveElement DEF n
<1>6. Cardinality(B \cup A) = Cardinality(B) + Cardinality(A) - Cardinality(B \cap A)
  BY <1>2, FS_Union
<1>7. Cardinality(B \cap A) = 0
  BY <1>3, FS_EmptySet
<1>8. n - 1 = Cardinality(B) + Cardinality(A) - 0
  BY <1>3, <1>5, <1>6, <1>7, Zenon
<1> QED
  BY <1>1, <1>2, <1>8 DEF n, A, B

\* The larger of two keys has more of them below it.
LEMMA PlacesDiffer ==
  ASSUME NEW s, IsCommittee(s), NEW j \in 1..Len(s), NEW k \in 1..Len(s),
         Cardinality(Below(s, j)) = Cardinality(Below(s, k))
  PROVE  j = k
<1>1. ASSUME NEW a \in 1..Len(s), NEW b \in 1..Len(s), XOnly(s[a]) < XOnly(s[b])
      PROVE  Cardinality(Below(s, a)) # Cardinality(Below(s, b))
  <2>1. Below(s, a) \subseteq Below(s, b) /\ a \in Below(s, b) /\ a \notin Below(s, a)
    BY <1>1, CommitteeKeys DEF Below
  <2>2. Below(s, a) # Below(s, b)
    BY <2>1
  <2> QED
    BY <2>1, <2>2, CommitteeKeys, FS_Subset
<1>2. ~(XOnly(s[j]) < XOnly(s[k])) /\ ~(XOnly(s[k]) < XOnly(s[j]))
  BY <1>1
<1>3. XOnly(s[j]) = XOnly(s[k])
  BY <1>2, CommitteeKeys
<1> QED
  BY <1>3 DEF IsCommittee

\* Every place is taken.
LEMMA PlacesTaken ==
  ASSUME NEW s, IsCommittee(s), NEW p \in 1..Len(s)
  PROVE  \E j \in 1..Len(s) : 1 + Cardinality(Below(s, j)) = p
<1> DEFINE n == Len(s)
           f == [j \in 1..n |-> 1 + Cardinality(Below(s, j))]
<1>1. n \in Nat /\ IsFiniteSet(1..n)
  BY CommitteeKeys, FS_Interval
<1>2. ASSUME NEW j \in 1..n PROVE f[j] \in 1..n
  <2>1. /\ Cardinality(Below(s, j)) \in Nat /\ Cardinality(Above(s, j)) \in Nat
        /\ Cardinality(Below(s, j)) + Cardinality(Above(s, j)) + 1 = n
    BY PlacesMirror, CommitteeKeys
  <2> QED
    BY <1>1, <2>1
<1>3. ASSUME NEW j \in 1..n, NEW k \in 1..n, f[j] = f[k] PROVE j = k
  <2>1. Cardinality(Below(s, j)) \in Nat /\ Cardinality(Below(s, k)) \in Nat
    BY CommitteeKeys
  <2> QED
    BY <1>3, <2>1, PlacesDiffer
<1>4. f \in [1..n -> 1..n]
  BY <1>2
<1> HIDE DEF f
<1>5. f \in Injection(1..n, 1..n)
  BY <1>3, <1>4, Fun_IsInj
<1>6. f \in Surjection(1..n, 1..n)
  BY <1>1, <1>5, FS_Injection
<1>7. \E j \in 1..n : f[j] = p
  BY <1>6 DEF Surjection
<1> QED
  BY <1>7 DEF f

\* What the stable sort puts at a place has as many keys before it.
LEMMA AscendingPlaces ==
  ASSUME NEW s, IsCommittee(s), NEW p \in 1..Len(s)
  PROVE  \E j \in 1..Len(s) : /\ Stable(s, Ascends)[p] = s[j]
                              /\ 1 + Cardinality(Below(s, j)) = p
<1> DEFINE Before(j) == {i \in 1..Len(s) : \/ Ascends(s[i], s[j])
                                           \/ ~Ascends(s[j], s[i]) /\ i < j}
           last == CHOOSE j \in 1..Len(s) : 1 + Cardinality(Before(j)) = p
<1>1. \A j \in 1..Len(s) : Before(j) = Below(s, j)
  BY CommitteeKeys DEF Ascends, Below, IsCommittee
<1>2. Stable(s, Ascends)[p] = s[last]
  BY DEF Stable
<1> HIDE DEF Before
<1>3. \E j \in 1..Len(s) : 1 + Cardinality(Before(j)) = p
  BY <1>1, PlacesTaken
<1>4. last \in 1..Len(s) /\ 1 + Cardinality(Before(last)) = p
  BY <1>3
<1> QED
  BY <1>1, <1>2, <1>4

LEMMA DescendingPlaces ==
  ASSUME NEW s, IsCommittee(s), NEW p \in 1..Len(s)
  PROVE  \E j \in 1..Len(s) : /\ SortPubKeysForWitness(s)[p] = s[j]
                              /\ 1 + Cardinality(Above(s, j)) = p
<1> DEFINE Before(j) == {i \in 1..Len(s) : \/ SortsBefore(s[i], s[j])
                                           \/ ~SortsBefore(s[j], s[i]) /\ i < j}
           last == CHOOSE j \in 1..Len(s) : 1 + Cardinality(Before(j)) = p
<1>1. \A j \in 1..Len(s) : Before(j) = Above(s, j)
  BY CommitteeKeys DEF SortsBefore, Above, IsCommittee
<1>2. SortPubKeysForWitness(s)[p] = s[last]
  BY DEF Stable, SortPubKeysForWitness
<1> HIDE DEF Before
<1>3. \E j \in 1..Len(s) : 1 + Cardinality(Before(j)) = p
  <2>1. Len(s) \in Nat
    BY CommitteeKeys
  <2>2. PICK j \in 1..Len(s) : 1 + Cardinality(Below(s, j)) = Len(s) + 1 - p
    BY <2>1, PlacesTaken
  <2>3. Cardinality(Below(s, j)) + Cardinality(Above(s, j)) + 1 = Len(s)
    BY PlacesMirror
  <2>4. Cardinality(Below(s, j)) \in Nat /\ Cardinality(Above(s, j)) \in Nat
    BY CommitteeKeys
  <2>5. 1 + Cardinality(Above(s, j)) = p
    BY <2>1, <2>2, <2>3, <2>4
  <2> QED
    BY <1>1, <2>5
<1>4. last \in 1..Len(s) /\ 1 + Cardinality(Before(last)) = p
  BY <1>3
<1> QED
  BY <1>1, <1>2, <1>4

\* So the script, which takes the stack from its top, meets the keys in its order.
LEMMA SortsMirror ==
  ASSUME NEW s, IsCommittee(s), NEW p \in 1..Len(s)
  PROVE  SortPubKeysForWitness(s)[Len(s) + 1 - p] = Stable(s, Ascends)[p]
<1>1. Len(s) \in Nat /\ Len(s) + 1 - p \in 1..Len(s)
  BY CommitteeKeys
<1>2. PICK j \in 1..Len(s) : /\ Stable(s, Ascends)[p] = s[j]
                             /\ 1 + Cardinality(Below(s, j)) = p
  BY AscendingPlaces
<1>3. PICK k \in 1..Len(s) : /\ SortPubKeysForWitness(s)[Len(s) + 1 - p] = s[k]
                             /\ 1 + Cardinality(Above(s, k)) = Len(s) + 1 - p
  BY <1>1, DescendingPlaces
<1>4. /\ Cardinality(Below(s, k)) + Cardinality(Above(s, k)) + 1 = Len(s)
      /\ Cardinality(Below(s, j)) \in Nat /\ Cardinality(Below(s, k)) \in Nat
      /\ Cardinality(Above(s, k)) \in Nat
  BY PlacesMirror, CommitteeKeys
<1>5. Cardinality(Below(s, j)) = Cardinality(Below(s, k))
  BY <1>1, <1>2, <1>3, <1>4
<1>6. j = k
  BY <1>5, PlacesDiffer
<1> QED
  BY <1>2, <1>3, <1>6

\* The ascending sort lists every key once.
LEMMA AscendingIsListing ==
  ASSUME NEW s, IsCommittee(s)
  PROVE  /\ \A p \in 1..Len(s) : \E j \in 1..Len(s) : Stable(s, Ascends)[p] = s[j]
         /\ \A j \in 1..Len(s) : \E p \in 1..Len(s) : Stable(s, Ascends)[p] = s[j]
         /\ \A p, q \in 1..Len(s) : Stable(s, Ascends)[p] = Stable(s, Ascends)[q] => p = q
<1>1. \A p \in 1..Len(s) : \E j \in 1..Len(s) : /\ Stable(s, Ascends)[p] = s[j]
                                                /\ 1 + Cardinality(Below(s, j)) = p
  BY AscendingPlaces
<1>2. ASSUME NEW j \in 1..Len(s)
      PROVE  \E p \in 1..Len(s) : Stable(s, Ascends)[p] = s[j]
  <2> DEFINE p == 1 + Cardinality(Below(s, j))
  <2>1. p \in 1..Len(s)
    BY PlacesMirror, CommitteeKeys
  <2>2. PICK k \in 1..Len(s) : Stable(s, Ascends)[p] = s[k] /\ 1 + Cardinality(Below(s, k)) = p
    BY <1>1, <2>1
  <2>3. Cardinality(Below(s, j)) \in Nat /\ Cardinality(Below(s, k)) \in Nat
    BY CommitteeKeys
  <2>4. j = k
    BY <2>2, <2>3, PlacesDiffer
  <2> QED
    BY <2>1, <2>2, <2>4
<1>3. ASSUME NEW p \in 1..Len(s), NEW q \in 1..Len(s), Stable(s, Ascends)[p] = Stable(s, Ascends)[q]
      PROVE  p = q
  <2>1. PICK j \in 1..Len(s) : Stable(s, Ascends)[p] = s[j] /\ 1 + Cardinality(Below(s, j)) = p
    BY <1>1
  <2>2. PICK k \in 1..Len(s) : Stable(s, Ascends)[q] = s[k] /\ 1 + Cardinality(Below(s, k)) = q
    BY <1>1
  <2>3. j = k
    BY <1>3, <2>1, <2>2 DEF IsCommittee
  <2> QED
    BY <2>1, <2>2, <2>3
<1> QED
  BY <1>1, <1>2, <1>3
--------------------------------------------------------------------------------
(* The witness.                                                                *)

\* The map of received signatures has that of every key that signed.
LEMMA MapOfSignatures ==
  ASSUME NEW sigs \in Seq(Keys)
  PROVE  LET sigByKey == ReceivedSignatures(PubKeySigPairs(sigs))
         IN  /\ DOMAIN sigByKey = {XOnly(k) : k \in Keyed(sigs)}
             /\ \A x \in DOMAIN sigByKey : sigByKey[x] = x
<1> DEFINE pairs == PubKeySigPairs(sigs)
           X     == {XOnly(pairs[i].key) : i \in 1..Len(pairs)}
<1>1. /\ Len(sigs) \in Nat /\ Len(pairs) = Len(sigs)
      /\ \A i \in 1..Len(sigs) : pairs[i].key = sigs[i] /\ pairs[i].sig = XOnly(sigs[i])
  BY LenProperties DEF PubKeySigPairs
<1> HIDE DEF pairs
<1>2. DOMAIN ReceivedSignatures(pairs) = {XOnly(k) : k \in Keyed(sigs)}
  <2>1. DOMAIN ReceivedSignatures(pairs) = X
    BY DEF ReceivedSignatures
  <2>2. X = {XOnly(k) : k \in Keyed(sigs)}
    BY <1>1 DEF Keyed
  <2> QED
    BY <2>1, <2>2
<1>3. ASSUME NEW x \in X PROVE ReceivedSignatures(pairs)[x] = x
  <2> DEFINE I    == {i \in 1..Len(pairs) : XOnly(pairs[i].key) = x}
             last == CHOOSE i \in 1..Len(pairs) :
                       /\ XOnly(pairs[i].key) = x
                       /\ \A j \in (i + 1)..Len(pairs) : XOnly(pairs[j].key) # x
  <2>1. PICK i \in I : \A j \in I : i >= j
    <3>1. I \in SUBSET (1..Len(pairs)) /\ I # {}
      BY <1>3
    <3> QED
      BY <1>1, <3>1, LastOfPositions
  <2>2. \A j \in (i + 1)..Len(pairs) : XOnly(pairs[j].key) # x
    BY <1>1, <2>1
  <2>3. last \in 1..Len(pairs) /\ XOnly(pairs[last].key) = x
    BY <2>1, <2>2
  <2>4. ReceivedSignatures(pairs)[x] = pairs[last].sig
    BY <1>3 DEF ReceivedSignatures
  <2> HIDE DEF last
  <2> QED
    BY <1>1, <2>3, <2>4
<1> QED
  BY <1>2, <1>3 DEF ReceivedSignatures, pairs

\* As many slots are filled as there are signatures.
LEMMA FilledSlots ==
  ASSUME NEW s, IsCommittee(s), NEW F \in SUBSET Keys, F \subseteq {s[i] : i \in 1..Len(s)}
  PROVE  Cardinality({p \in 1..Len(s) : Stable(s, Ascends)[p] \in F}) = Cardinality(F)
<1> DEFINE T == {p \in 1..Len(s) : Stable(s, Ascends)[p] \in F}
           f == [p \in T |-> Stable(s, Ascends)[p]]
<1>1. IsFiniteSet(T)
  <2>1. Len(s) \in Nat
    BY CommitteeKeys
  <2>2. IsFiniteSet(1..Len(s)) /\ T \subseteq 1..Len(s)
    BY <2>1, FS_Interval
  <2> QED
    BY <2>2, FS_Subset
<1>2. f \in [T -> F]
  OBVIOUS
<1>3. \A p, q \in T : f[p] = f[q] => p = q
  BY AscendingIsListing
<1>4. \A k \in F : \E p \in T : f[p] = k
  <2> SUFFICES ASSUME NEW k \in F PROVE \E p \in T : f[p] = k
    OBVIOUS
  <2>1. PICK j \in 1..Len(s) : s[j] = k
    OBVIOUS
  <2>2. PICK p \in 1..Len(s) : Stable(s, Ascends)[p] = s[j]
    BY AscendingIsListing
  <2> QED
    BY <2>1, <2>2
<1> HIDE DEF f
<1>5. f \in Bijection(T, F)
  BY <1>2, <1>3, <1>4, Fun_IsBij
<1>6. ExistsBijection(T, F)
  BY <1>5 DEF ExistsBijection
<1> QED
  BY <1>1, <1>6, FS_Bijection

\* The signatures of some keys of a committee make a witness for a script that
\* asks for that many.
LEMMA WitnessFits ==
  ASSUME NEW C \in SUBSET Keys, NEW s \in SetToSeqs(C),
         NEW sigs \in Seq(Keys), Keyed(sigs) \subseteq C, Cardinality(Keyed(sigs)) = Len(sigs)
  PROVE  ScriptAccepts(s, Len(sigs), CreateWitnessSignaturesForPubKeys(s, PubKeySigPairs(sigs)))
<1> DEFINE n == Len(s)
           ascending == Stable(s, Ascends)
           sorted    == SortPubKeysForWitness(s)
           sigByKey  == ReceivedSignatures(PubKeySigPairs(sigs))
           stack     == CreateWitnessSignaturesForPubKeys(s, PubKeySigPairs(sigs))
           taken(i)  == stack[Len(stack) + 1 - i]
<1>1. IsCommittee(s) /\ {s[i] : i \in 1..n} = C
  <2>1. IsFiniteSet(C)
    BY CommitteeAssumption, FS_Subset
  <2>2. /\ s \in Seq(C)
        /\ \A i, j \in 1..n : s[i] = s[j] => i = j
        /\ \A k \in C : \E i \in 1..n : s[i] = k
    BY <2>1, ListingHasAll
  <2>3. \A i \in 1..n : s[i] \in C
    BY <2>2, ElementOfSeq
  <2>4. s \in Seq(Keys)
    BY <2>2, SeqMonotonic
  <2>5. \A i, j \in 1..n : XOnly(s[i]) = XOnly(s[j]) => i = j
    BY <2>2, <2>3, KeysAssumption
  <2>6. {s[i] : i \in 1..n} = C
    BY <2>2, <2>3
  <2> QED
    BY <2>4, <2>5, <2>6 DEF IsCommittee
<1>2. n \in Nat /\ Len(sorted) = n
  BY <1>1, CommitteeKeys, LenProperties DEF SortPubKeysForWitness, Stable
<1>3. /\ DOMAIN sigByKey = {XOnly(k) : k \in Keyed(sigs)}
      /\ \A x \in DOMAIN sigByKey : sigByKey[x] = x
  BY MapOfSignatures
<1>4. /\ Len(stack) = n
      /\ \A i \in 1..n : stack[i] = IF XOnly(sorted[i]) \in DOMAIN sigByKey
                                    THEN sigByKey[XOnly(sorted[i])] ELSE NoSig
  BY <1>2 DEF CreateWitnessSignaturesForPubKeys, Slots
<1>5. \A p \in 1..n : sorted[n + 1 - p] = ascending[p] /\ ascending[p] \in C
  BY <1>1, SortsMirror, AscendingIsListing
<1> HIDE DEF ascending, sorted, sigByKey, stack
<1>6. \A i \in 1..n : /\ taken(i) \in {NoSig, XOnly(ascending[i])}
                      /\ taken(i) # NoSig <=> ascending[i] \in Keyed(sigs)
  <2> SUFFICES ASSUME NEW i \in 1..n
               PROVE  /\ taken(i) \in {NoSig, XOnly(ascending[i])}
                      /\ taken(i) # NoSig <=> ascending[i] \in Keyed(sigs)
    OBVIOUS
  <2>1. n + 1 - i \in 1..n
    BY <1>2
  <2>2. taken(i) = IF XOnly(ascending[i]) \in DOMAIN sigByKey
                   THEN XOnly(ascending[i]) ELSE NoSig
    BY <1>3, <1>4, <1>5, <2>1
  <2>3. ascending[i] \in Keys /\ XOnly(ascending[i]) # NoSig
    BY <1>5, XOnlyIsNumber
  <2>4. XOnly(ascending[i]) \in DOMAIN sigByKey <=> ascending[i] \in Keyed(sigs)
    BY <1>3, <2>3, KeysAssumption
  <2> QED
    BY <2>2, <2>3, <2>4
<1>7. Cardinality({i \in 1..n : taken(i) # NoSig}) = Len(sigs)
  <2>1. {i \in 1..n : taken(i) # NoSig} = {i \in 1..n : ascending[i] \in Keyed(sigs)}
    BY <1>6
  <2>2. Cardinality({i \in 1..n : ascending[i] \in Keyed(sigs)}) = Cardinality(Keyed(sigs))
    BY <1>1, FilledSlots DEF ascending
  <2> QED
    BY <2>1, <2>2
<1> QED
  BY <1>4, <1>6, <1>7 DEF ScriptAccepts, ascending, stack

\* Whoever signed, every committee they all belong to can spend with what was
\* collected, if its script asks for that many.
THEOREM AnyCommitteeSpends == CallSpec => []WitnessOfAnyCommittee
<1>1. IInv => WitnessOfAnyCommittee
  <2> SUFFICES ASSUME IInv, NEW C \in SUBSET Keys, Keyed(signatures) \subseteq C,
                      NEW s \in SetToSeqs(C)
               PROVE  ScriptAccepts(s, Len(signatures),
                        CreateWitnessSignaturesForPubKeys(s, PubKeySigPairs(signatures)))
    BY DEF WitnessOfAnyCommittee
  <2>1. signatures \in Seq(Keys) /\ Cardinality(Keyed(signatures)) = Len(signatures)
    BY InvTypeOK, InvNoSignatureLost DEF TypeOK, NoSignatureLost
  <2> QED
    BY <2>1, WitnessFits
<1> QED
  BY <1>1, CallInvariance, PTL

\* The witness that is built satisfies the script of the committee, however the
\* parameters list it and in whatever order the signatures came.
THEOREM QuorumSpends == CallSpec => []WitnessSatisfiesScript
<1>1. CallInit => WitnessSatisfiesScript
  BY DEF CallInit, WitnessSatisfiesScript
<1>2. IInv /\ WitnessSatisfiesScript /\ [CallNext]_callVars => WitnessSatisfiesScript'
  <2> SUFFICES ASSUME IInv, WitnessSatisfiesScript, [CallNext]_callVars
               PROVE  WitnessSatisfiesScript'
    OBVIOUS
  <2>1. CASE UNCHANGED built
    BY <2>1 DEF WitnessSatisfiesScript
  <2>2. CASE CreateUnbondingTxWitness
    <3>1. PICK committee \in SetToSeqs(Keys) :
            built' = [committee |-> committee,
                      witness |-> CreateWitnessSignaturesForPubKeys(
                                    committee, PubKeySigPairs(outcome.sigs))]
      BY <2>2 DEF CreateUnbondingTxWitness
    <3>2. /\ outcome.sigs \in Seq(Keys) /\ Keyed(outcome.sigs) \subseteq Keys
          /\ Len(outcome.sigs) = Quorum /\ Cardinality(Keyed(outcome.sigs)) = Quorum
      <4>1. outcome.done /\ ~outcome.err
        BY <2>2 DEF CreateUnbondingTxWitness
      <4>2. outcome.sigs \in Seq(Keys)
        BY InvTypeOK DEF TypeOK
      <4>3. Keyed(outcome.sigs) \subseteq Keys
        BY <4>2, ElementOfSeq DEF Keyed
      <4> QED
        BY <4>1, <4>2, <4>3, InvReturnsExactQuorum DEF ReturnsExactQuorum
    <3>3. ScriptAccepts(committee, Quorum, CreateWitnessSignaturesForPubKeys(
                          committee, PubKeySigPairs(outcome.sigs)))
      BY <3>2, WitnessFits
    <3>4. ScriptAccepts(built'.committee, Quorum, built'.witness)
      BY <3>1, <3>3
    <3> QED
      BY <3>4 DEF WitnessSatisfiesScript
  <2> QED
    BY <2>1, <2>2 DEF CallNext, callVars, Configure, Sign, Over
<1> QED
  BY <1>1, <1>2, CallInvariance, PTL DEF CallSpec
================================================================================

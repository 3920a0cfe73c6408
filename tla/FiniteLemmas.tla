------------------------------ MODULE FiniteLemmas ------------------------------
(* Induction over finite sets, and what it gives of sums over them and of lists *)
(* of their members.                                                            *)
EXTENDS Integers, FiniteSets, FiniteSetsExt, SequencesExt, FiniteSetTheorems,
        FunctionTheorems, WellFoundedInduction, TLAPS

SumOf(f, S) == MapThenSumSet(LAMBDA x : f[x], S)

\* A set of numbers that is not empty has a least one.
LEMMA LeastNumber ==
  ASSUME NEW N \in SUBSET Nat, N # {}
  PROVE  \E m \in N : \A n \in N : m =< n
<1>1. PICK m \in N : \A n \in N : ~(<<n, m>> \in OpToRel(<, Nat))
  BY NatLessThanWellFounded, WFMin, Zenon
<1>2. \A n \in N : ~(n < m)
  BY <1>1 DEF OpToRel
<1> QED
  BY <1>2

\* A set holds every finite set if it holds each one whose smaller sets it holds.
LEMMA FiniteInduction ==
  ASSUME NEW U, IsFiniteSet(U), NEW P,
         \A T \in SUBSET U : (\A x \in T : T \ {x} \in P) => T \in P
  PROVE  \A T \in SUBSET U : T \in P
<1> DEFINE Bad == {T \in SUBSET U : T \notin P}
           N   == {Cardinality(T) : T \in Bad}
<1> SUFFICES ASSUME Bad # {} PROVE FALSE
  OBVIOUS
<1>1. \A T \in SUBSET U : IsFiniteSet(T) /\ Cardinality(T) \in Nat
  BY FS_Subset, FS_CardinalityType
<1>2. N \in SUBSET Nat /\ N # {}
  BY <1>1
<1>3. PICK m \in N : \A n \in N : m =< n
  BY <1>2, LeastNumber
<1>4. PICK T \in Bad : m = Cardinality(T)
  BY <1>3
<1>5. PICK x \in T : T \ {x} \notin P
  BY <1>4
<1>6. T \ {x} \in SUBSET U
  BY <1>4
<1>7. Cardinality(T \ {x}) = Cardinality(T) - 1 /\ Cardinality(T) \in Nat
  BY <1>1, <1>4, <1>5, FS_RemoveElement
<1>8. Cardinality(T \ {x}) \in N
  BY <1>5, <1>6
<1> HIDE DEF N
<1>9. m =< Cardinality(T \ {x})
  BY <1>3, <1>8
<1> QED
  BY <1>4, <1>7, <1>9
--------------------------------------------------------------------------------
(* The recursive function by which a sum is defined.                            *)

Pick(s)       == CHOOSE x \in s : TRUE
Turn(f, g, s) == IF s = {} THEN 0 ELSE f[Pick(s)] + g[s \ {Pick(s)}]
Sums(f, g, T) == g = [s \in SUBSET T |-> Turn(f, g, s)]
Iter(f, T)    == CHOOSE g : Sums(f, g, T)

\* Two such functions agree where both are defined.
LEMMA SumsAgree ==
  ASSUME NEW f, NEW S, IsFiniteSet(S), NEW T, S \subseteq T, NEW R, S \subseteq R,
         NEW g, Sums(f, g, T), NEW h, Sums(f, h, R)
  PROVE  g[S] = h[S]
<1> DEFINE P == {s \in SUBSET S : g[s] = h[s]}
<1>1. ASSUME NEW s \in SUBSET S, \A x \in s : s \ {x} \in P
      PROVE  s \in P
  <2>1. g[s] = Turn(f, g, s) /\ h[s] = Turn(f, h, s)
    BY DEF Sums
  <2>2. s # {} => Pick(s) \in s
    BY DEF Pick
  <2>3. s # {} => g[s \ {Pick(s)}] = h[s \ {Pick(s)}]
    BY <1>1, <2>2
  <2> QED
    BY <2>1, <2>3 DEF Turn
<1> HIDE DEF P
<1>2. \A s \in SUBSET S : s \in P
  BY <1>1, FiniteInduction
<1> QED
  BY <1>2 DEF P

\* Every finite set has one.
LEMMA SumsExist ==
  ASSUME NEW f, NEW S, IsFiniteSet(S)
  PROVE  Sums(f, Iter(f, S), S)
<1> DEFINE P == {T \in SUBSET S : Sums(f, Iter(f, T), T)}
<1>1. ASSUME NEW T \in SUBSET S, \A x \in T : T \ {x} \in P
      PROVE  T \in P
  <2> DEFINE missed(s) == CHOOSE x \in T : x \notin s
             W(s)      == Iter(f, T \ {missed(s)})
             h         == [s \in SUBSET T |-> IF s = T THEN Turn(f, W(T \ {Pick(T)}), T) ELSE W(s)[s]]
  <2>1. IsFiniteSet(T)
    BY FS_Subset
  <2>2. \A s \in SUBSET T : s # T => missed(s) \in T /\ s \subseteq T \ {missed(s)}
    OBVIOUS
  <2>3. \A s \in SUBSET T : s # T => Sums(f, W(s), T \ {missed(s)})
    BY <1>1, <2>2
  <2>4. \A s \in SUBSET T, r \in SUBSET T :
          s # T /\ r \subseteq s => W(s)[r] = W(r)[r]
    <3> SUFFICES ASSUME NEW s \in SUBSET T, NEW r \in SUBSET T, s # T, r \subseteq s
                 PROVE  W(s)[r] = W(r)[r]
      OBVIOUS
    <3>1. r # T /\ IsFiniteSet(r)
      BY <2>1, FS_Subset
    <3>2. r \subseteq T \ {missed(s)} /\ r \subseteq T \ {missed(r)}
      BY <2>2, <3>1
    <3>3. Sums(f, W(s), T \ {missed(s)}) /\ Sums(f, W(r), T \ {missed(r)})
      BY <2>3, <3>1
    <3> HIDE DEF W, missed
    <3> QED
      BY <3>1, <3>2, <3>3, SumsAgree
  <2>5. ASSUME NEW s \in SUBSET T PROVE h[s] = Turn(f, h, s)
    <3>1. s # {} => Pick(s) \in s
      BY DEF Pick
    <3>2. CASE s = {}
      <4>1. CASE T = {}
        BY <3>2, <4>1 DEF Turn
      <4>2. CASE T # {}
        <5>1. s \in SUBSET (T \ {missed(s)}) /\ Sums(f, W(s), T \ {missed(s)})
          BY <2>2, <2>3, <3>2, <4>2
        <5>2. h[s] = W(s)[s]
          BY <3>2, <4>2
        <5> HIDE DEF W, missed, h
        <5>3. W(s)[s] = Turn(f, W(s), s)
          BY <5>1 DEF Sums
        <5> QED
          BY <5>2, <5>3, <3>2 DEF Turn
      <4> QED
        BY <4>1, <4>2
    <3>3. CASE s # {} /\ s # T
      <4>1. h[s] = W(s)[s]
        BY <3>3
      <4>5. W(s)[s] = Turn(f, W(s), s)
        <5>1. s \in SUBSET (T \ {missed(s)}) /\ Sums(f, W(s), T \ {missed(s)})
          BY <2>2, <2>3, <3>3
        <5> HIDE DEF W, missed, h
        <5> QED
          BY <5>1 DEF Sums
      <4>2. s \ {Pick(s)} # T /\ s \ {Pick(s)} \in SUBSET T
        BY <3>1, <3>3
      <4>3. h[s \ {Pick(s)}] = W(s \ {Pick(s)})[s \ {Pick(s)}]
        BY <4>2
      <4>4. W(s)[s \ {Pick(s)}] = W(s \ {Pick(s)})[s \ {Pick(s)}]
        BY <2>4, <3>3, <4>2
      <4> HIDE DEF h, W
      <4> QED
        BY <4>1, <4>3, <4>4, <4>5, <3>3 DEF Turn
    <3>4. CASE s # {} /\ s = T
      <4> DEFINE r == T \ {Pick(T)}
      <4>1. h[T] = f[Pick(T)] + W(r)[r]
        BY <3>4 DEF Turn
      <4>2. r # T /\ r \in SUBSET T
        BY <3>1, <3>4
      <4>3. h[r] = W(r)[r]
        BY <4>2
      <4> HIDE DEF h, W
      <4> QED
        BY <4>1, <4>3, <3>4 DEF Turn
    <3> QED
      BY <3>2, <3>3, <3>4
  <2>6. Sums(f, h, T)
    <3>1. h = [s \in SUBSET T |-> h[s]]
      OBVIOUS
    <3> HIDE DEF h
    <3> QED
      BY <3>1, <2>5 DEF Sums
  <2> HIDE DEF h
  <2>7. Sums(f, Iter(f, T), T)
    BY <2>6 DEF Iter
  <2> QED
    BY <2>7
<1> HIDE DEF P
<1>2. \A T \in SUBSET S : T \in P
  BY <1>1, FiniteInduction
<1> QED
  BY <1>2 DEF P

\* The sum is a value of it.
LEMMA SumIsIter ==
  ASSUME NEW f, NEW S
  PROVE  SumOf(f, S) = Iter(f, S)[S]
BY Zenon DEF SumOf, MapThenSumSet, MapThenFoldSet, Iter, Sums, Turn, Pick
--------------------------------------------------------------------------------
(* What the rest may use of sums.                                               *)

\* A sum of nothing is 0; another one is the value at one of its places and the
\* sum over the others.
LEMMA SumRecursion ==
  ASSUME NEW f, NEW S, IsFiniteSet(S)
  PROVE  /\ S = {} => SumOf(f, S) = 0
         /\ S # {} => /\ Pick(S) \in S
                     /\ SumOf(f, S) = f[Pick(S)] + SumOf(f, S \ {Pick(S)})
<1> DEFINE R == S \ {Pick(S)}
<1>1. IsFiniteSet(R)
  BY FS_Subset
<1>2. Sums(f, Iter(f, S), S) /\ Sums(f, Iter(f, R), R)
  BY <1>1, SumsExist
<1>3. Iter(f, S)[R] = Iter(f, R)[R]
  <2> DEFINE g == Iter(f, S)
             h == Iter(f, R)
  <2>1. R \subseteq S /\ Sums(f, g, S) /\ Sums(f, h, R)
    BY <1>2
  <2> HIDE DEF g, h, R
  <2>2. g[R] = h[R]
    BY <1>1, <2>1, SumsAgree
  <2> QED
    BY <2>2 DEF g, h
<1>4. Iter(f, S)[S] = Turn(f, Iter(f, S), S)
  BY <1>2 DEF Sums
<1>5. S # {} => Pick(S) \in S
  BY DEF Pick
<1> QED
  BY <1>3, <1>4, <1>5, SumIsIter DEF Turn

\* A sum of integers is one.
LEMMA SumType ==
  ASSUME NEW f, NEW S, IsFiniteSet(S), \A x \in S : f[x] \in Int
  PROVE  SumOf(f, S) \in Int
<1> DEFINE P == {T \in SUBSET S : SumOf(f, T) \in Int}
<1>1. ASSUME NEW T \in SUBSET S, \A x \in T : T \ {x} \in P
      PROVE  T \in P
  <2>1. IsFiniteSet(T)
    BY FS_Subset
  <2>2. /\ T = {} => SumOf(f, T) = 0
        /\ T # {} => /\ Pick(T) \in T
                    /\ SumOf(f, T) = f[Pick(T)] + SumOf(f, T \ {Pick(T)})
    BY <2>1, SumRecursion
  <2>3. T # {} => f[Pick(T)] \in Int /\ SumOf(f, T \ {Pick(T)}) \in Int
    BY <1>1, <2>2
  <2> QED
    BY <2>2, <2>3
<1> HIDE DEF P
<1>2. \A T \in SUBSET S : T \in P
  BY <1>1, FiniteInduction
<1> QED
  BY <1>2 DEF P

\* The order of the summands does not matter: any place may be taken out first.
LEMMA SumRemove ==
  ASSUME NEW f, NEW S, IsFiniteSet(S), \A x \in S : f[x] \in Int
  PROVE  \A x \in S : SumOf(f, S) = f[x] + SumOf(f, S \ {x})
<1> DEFINE P == {T \in SUBSET S : \A x \in T : SumOf(f, T) = f[x] + SumOf(f, T \ {x})}
<1>1. ASSUME NEW T \in SUBSET S, \A x \in T : T \ {x} \in P
      PROVE  T \in P
  <2> SUFFICES ASSUME NEW x \in T PROVE SumOf(f, T) = f[x] + SumOf(f, T \ {x})
    OBVIOUS
  <2> DEFINE p == Pick(T)
  <2>1. IsFiniteSet(T)
    BY FS_Subset
  <2>2. p \in T /\ SumOf(f, T) = f[p] + SumOf(f, T \ {p})
    BY <2>1, SumRecursion
  <2> HIDE DEF p
  <2>3. CASE x = p
    BY <2>2, <2>3
  <2>4. CASE x # p
    <3>1. x \in T \ {p} /\ p \in T \ {x}
      BY <2>2, <2>4
    <3>2. SumOf(f, T \ {p}) = f[x] + SumOf(f, (T \ {p}) \ {x})
      BY <1>1, <2>2, <3>1
    <3>3. SumOf(f, T \ {x}) = f[p] + SumOf(f, (T \ {x}) \ {p})
      BY <1>1, <3>1
    <3>4. (T \ {p}) \ {x} = (T \ {x}) \ {p}
      OBVIOUS
    <3>5. IsFiniteSet((T \ {p}) \ {x})
      BY <2>1, FS_Subset
    <3>6. SumOf(f, (T \ {p}) \ {x}) \in Int /\ f[x] \in Int /\ f[p] \in Int
      BY <2>2, <3>5, SumType
    <3>7. SumOf(f, T \ {p}) = f[x] + SumOf(f, (T \ {x}) \ {p})
      BY <3>2, <3>4, Zenon
    <3>8. SumOf(f, (T \ {x}) \ {p}) \in Int
      BY <3>4, <3>6, Zenon
    <3> DEFINE a == SumOf(f, T)
               b == SumOf(f, T \ {p})
               c == SumOf(f, T \ {x})
               d == SumOf(f, (T \ {x}) \ {p})
    <3>9. a = f[p] + b /\ b = f[x] + d /\ c = f[p] + d /\ d \in Int
      BY <2>2, <3>3, <3>7, <3>8, Zenon
    <3> HIDE DEF a, b, c, d
    <3>10. a = f[x] + c
      BY <3>6, <3>9
    <3> QED
      BY <3>10 DEF a, c
  <2> QED
    BY <2>3, <2>4
<1> HIDE DEF P
<1>2. \A T \in SUBSET S : T \in P
  BY <1>1, FiniteInduction
<1> QED
  BY <1>2 DEF P

\* One more place adds its value.
LEMMA SumAdd ==
  ASSUME NEW f, NEW S, IsFiniteSet(S), NEW x, x \notin S,
         \A y \in S \cup {x} : f[y] \in Int
  PROVE  SumOf(f, S \cup {x}) = SumOf(f, S) + f[x]
<1>1. IsFiniteSet(S \cup {x})
  BY FS_AddElement
<1>2. SumOf(f, S \cup {x}) = f[x] + SumOf(f, (S \cup {x}) \ {x})
  BY <1>1, SumRemove
<1>3. (S \cup {x}) \ {x} = S
  OBVIOUS
<1>4. SumOf(f, S) \in Int
  BY SumType
<1>5. SumOf(f, S \cup {x}) = f[x] + SumOf(f, S)
  BY <1>2, <1>3, Zenon
<1> QED
  BY <1>4, <1>5

\* Functions that agree on a set have the same sum over it.
LEMMA SumCongruence ==
  ASSUME NEW f, NEW g, NEW S, IsFiniteSet(S), \A x \in S : f[x] = g[x]
  PROVE  SumOf(f, S) = SumOf(g, S)
<1> DEFINE P == {T \in SUBSET S : SumOf(f, T) = SumOf(g, T)}
<1>1. ASSUME NEW T \in SUBSET S, \A x \in T : T \ {x} \in P
      PROVE  T \in P
  <2>1. IsFiniteSet(T)
    BY FS_Subset
  <2>2. /\ T = {} => SumOf(f, T) = 0 /\ SumOf(g, T) = 0
        /\ T # {} => /\ Pick(T) \in T
                    /\ SumOf(f, T) = f[Pick(T)] + SumOf(f, T \ {Pick(T)})
                    /\ SumOf(g, T) = g[Pick(T)] + SumOf(g, T \ {Pick(T)})
    BY <2>1, SumRecursion
  <2>3. T # {} => /\ f[Pick(T)] = g[Pick(T)]
                  /\ SumOf(f, T \ {Pick(T)}) = SumOf(g, T \ {Pick(T)})
    BY <1>1, <2>2
  <2> QED
    BY <2>2, <2>3
<1> HIDE DEF P
<1>2. \A T \in SUBSET S : T \in P
  BY <1>1, FiniteInduction
<1> QED
  BY <1>2 DEF P

\* A sum over two sets without a common member is the sum of the sums.
LEMMA SumUnion ==
  ASSUME NEW f, NEW A, NEW B, IsFiniteSet(A), IsFiniteSet(B), A \cap B = {},
         \A x \in A \cup B : f[x] \in Int
  PROVE  SumOf(f, A \cup B) = SumOf(f, A) + SumOf(f, B)
<1> DEFINE P == {T \in SUBSET B : SumOf(f, A \cup T) = SumOf(f, A) + SumOf(f, T)}
<1>0. SumOf(f, A) \in Int
  BY SumType
<1>1. ASSUME NEW T \in SUBSET B, \A x \in T : T \ {x} \in P
      PROVE  T \in P
  <2>1. IsFiniteSet(T) /\ IsFiniteSet(A \cup T)
    BY FS_Subset, FS_Union
  <2>2. CASE T = {}
    <3>1. SumOf(f, T) = 0 /\ A \cup T = A
      BY <2>1, <2>2, SumRecursion
    <3>2. SumOf(f, A \cup T) = SumOf(f, A)
      BY <3>1, Zenon
    <3>3. SumOf(f, A \cup T) = SumOf(f, A) + SumOf(f, T)
      BY <1>0, <3>1, <3>2
    <3> QED
      BY <3>3
  <2>3. CASE T # {}
    <3>1. PICK x \in T : TRUE
      BY <2>3
    <3>2. SumOf(f, A \cup T) = f[x] + SumOf(f, (A \cup T) \ {x})
      BY <2>1, SumRemove
    <3>3. SumOf(f, T) = f[x] + SumOf(f, T \ {x})
      BY <2>1, SumRemove
    <3>4. (A \cup T) \ {x} = A \cup (T \ {x})
      OBVIOUS
    <3>5. SumOf(f, A \cup (T \ {x})) = SumOf(f, A) + SumOf(f, T \ {x})
      BY <1>1
    <3>6. IsFiniteSet(T \ {x})
      BY <2>1, FS_Subset
    <3>7. SumOf(f, T \ {x}) \in Int /\ f[x] \in Int
      BY <3>6, SumType
    <3>8. SumOf(f, A \cup T) = f[x] + SumOf(f, A \cup (T \ {x}))
      BY <3>2, <3>4, Zenon
    <3> DEFINE a == SumOf(f, A \cup T)
               b == SumOf(f, A \cup (T \ {x}))
               c == SumOf(f, T)
               d == SumOf(f, T \ {x})
               e == SumOf(f, A)
    <3>9. a = f[x] + b /\ b = e + d /\ c = f[x] + d /\ d \in Int /\ e \in Int
      BY <1>0, <3>3, <3>5, <3>7, <3>8, Zenon
    <3> HIDE DEF a, b, c, d, e
    <3>10. a = e + c
      BY <3>7, <3>9
    <3>11. SumOf(f, A \cup T) = SumOf(f, A) + SumOf(f, T)
      BY <3>10 DEF a, c, e
    <3> QED
      BY <3>11
  <2> QED
    BY <2>2, <2>3
<1> HIDE DEF P
<1>2. \A T \in SUBSET B : T \in P
  BY <1>1, FiniteInduction
<1> QED
  BY <1>2 DEF P

\* A sum is at least the number of places times what each of them is at least.
LEMMA SumAtLeast ==
  ASSUME NEW f, NEW S, IsFiniteSet(S), NEW a \in Int,
         \A x \in S : f[x] \in Int /\ a =< f[x]
  PROVE  a * Cardinality(S) =< SumOf(f, S)
<1> DEFINE Bounded(T) == a * Cardinality(T) =< SumOf(f, T)
           P == {T \in SUBSET S : Bounded(T)}
<1>1. ASSUME NEW T \in SUBSET S, \A x \in T : T \ {x} \in P
      PROVE  T \in P
  <2>1. IsFiniteSet(T)
    BY FS_Subset
  <2>2. CASE T = {}
    <3>1. SumOf(f, T) = 0 /\ Cardinality(T) = 0
      BY <2>1, <2>2, SumRecursion, FS_EmptySet
    <3> QED
      BY <3>1
  <2>3. CASE T # {}
    <3>1. PICK x \in T : TRUE
      BY <2>3
    <3>2. SumOf(f, T) = f[x] + SumOf(f, T \ {x})
      BY <2>1, SumRemove
    <3>3. Bounded(T \ {x})
      BY <1>1
    <3>4. /\ IsFiniteSet(T \ {x})
          /\ Cardinality(T \ {x}) = Cardinality(T) - 1 /\ Cardinality(T) \in Nat
      BY <2>1, FS_RemoveElement, FS_CardinalityType
    <3>5. SumOf(f, T \ {x}) \in Int
      BY <3>4, SumType
    <3>6. a * (Cardinality(T) - 1) = a * Cardinality(T) - a
      BY <3>4
    <3> QED
      BY <3>2, <3>3, <3>4, <3>5, <3>6
  <2> QED
    BY <2>2, <2>3
<1> HIDE DEF P
<1>2. \A T \in SUBSET S : T \in P
  BY <1>1, FiniteInduction
<1> QED
  BY <1>2 DEF P

\* And at most the number of places times what each of them is at most.
LEMMA SumAtMost ==
  ASSUME NEW f, NEW S, IsFiniteSet(S), NEW a \in Int,
         \A x \in S : f[x] \in Int /\ f[x] =< a
  PROVE  SumOf(f, S) =< a * Cardinality(S)
<1> DEFINE Bounded(T) == SumOf(f, T) =< a * Cardinality(T)
           P == {T \in SUBSET S : Bounded(T)}
<1>1. ASSUME NEW T \in SUBSET S, \A x \in T : T \ {x} \in P
      PROVE  T \in P
  <2>1. IsFiniteSet(T)
    BY FS_Subset
  <2>2. CASE T = {}
    <3>1. SumOf(f, T) = 0 /\ Cardinality(T) = 0
      BY <2>1, <2>2, SumRecursion, FS_EmptySet
    <3> QED
      BY <3>1
  <2>3. CASE T # {}
    <3>1. PICK x \in T : TRUE
      BY <2>3
    <3>2. SumOf(f, T) = f[x] + SumOf(f, T \ {x})
      BY <2>1, SumRemove
    <3>3. Bounded(T \ {x})
      BY <1>1
    <3>4. /\ IsFiniteSet(T \ {x})
          /\ Cardinality(T \ {x}) = Cardinality(T) - 1 /\ Cardinality(T) \in Nat
      BY <2>1, FS_RemoveElement, FS_CardinalityType
    <3>5. SumOf(f, T \ {x}) \in Int
      BY <3>4, SumType
    <3>6. a * (Cardinality(T) - 1) = a * Cardinality(T) - a
      BY <3>4
    <3> QED
      BY <3>2, <3>3, <3>4, <3>5, <3>6
  <2> QED
    BY <2>2, <2>3
<1> HIDE DEF P
<1>2. \A T \in SUBSET S : T \in P
  BY <1>1, FiniteInduction
<1> QED
  BY <1>2 DEF P
--------------------------------------------------------------------------------
(* Lists of the members of a set, each of them once.                            *)

\* Such a list is as long as the set has members, and has all of them.
LEMMA ListingHasAll ==
  ASSUME NEW S, IsFiniteSet(S), NEW s \in SetToSeqs(S)
  PROVE  /\ Cardinality(S) \in Nat
         /\ s \in [1..Cardinality(S) -> S] /\ s \in Seq(S)
         /\ Len(s) = Cardinality(S) /\ DOMAIN s = 1..Len(s)
         /\ \A i, j \in 1..Len(s) : s[i] = s[j] => i = j
         /\ \A x \in S : \E i \in 1..Len(s) : s[i] = x
<1> DEFINE n == Cardinality(S)
<1>1. n \in Nat
  BY FS_CardinalityType
<1>2. s \in [1..n -> S] /\ \A i, j \in 1..n : i # j => s[i] # s[j]
  BY DEF SetToSeqs
<1>3. IsFiniteSet(1..n) /\ Cardinality(1..n) = n
  BY <1>1, FS_Interval
<1>4. s \in Injection(1..n, S)
  BY <1>2, Fun_IsInj
<1>5. s \in Surjection(1..n, S)
  BY <1>3, <1>4, FS_Injection
<1>6. \A x \in S : \E i \in 1..n : s[i] = x
  BY <1>5 DEF Surjection
<1>7. s \in Seq(S) /\ Len(s) = n /\ DOMAIN s = 1..n
  BY <1>1, <1>2
<1> QED
  BY <1>1, <1>2, <1>6, <1>7

\* A sequence that has each member of a set once is a list of it.
LEMMA ListingIs ==
  ASSUME NEW S, NEW s \in Seq(S),
         \A i, j \in 1..Len(s) : s[i] = s[j] => i = j,
         \A x \in S : \E i \in 1..Len(s) : s[i] = x
  PROVE  s \in SetToSeqs(S) /\ IsFiniteSet(S) /\ Cardinality(S) = Len(s)
<1> DEFINE n == Len(s)
<1>1. n \in Nat /\ s \in [1..n -> S]
  OBVIOUS
<1>2. s \in Bijection(1..n, S)
  BY <1>1, Fun_IsBij
<1>3. ExistsBijection(1..n, S)
  BY <1>2 DEF ExistsBijection
<1>4. IsFiniteSet(1..n) /\ Cardinality(1..n) = n
  BY <1>1, FS_Interval
<1>5. IsFiniteSet(S) /\ Cardinality(S) = n
  BY <1>3, <1>4, FS_Bijection
<1> QED
  BY <1>1, <1>5 DEF SetToSeqs

\* Two sorted lists of one set are the same, if any two members have an order.
LEMMA OneSortedListing ==
  ASSUME NEW S, IsFiniteSet(S), NEW R,
         \A x, y \in S : x # y => <<x, y>> \in R \/ <<y, x>> \in R,
         NEW s \in SetToSeqs(S), \A i, j \in 1..Len(s) : i < j => <<s[j], s[i]>> \notin R,
         NEW r \in SetToSeqs(S), \A i, j \in 1..Len(r) : i < j => <<r[j], r[i]>> \notin R
  PROVE  s = r
<1> DEFINE n == Cardinality(S)
           D == {i \in 1..n : s[i] # r[i]}
<1>1. /\ n \in Nat /\ s \in [1..n -> S] /\ r \in [1..n -> S]
      /\ Len(s) = n /\ Len(r) = n
  BY ListingHasAll
<1>2. /\ \A i, j \in 1..n : s[i] = s[j] => i = j
      /\ \A i, j \in 1..n : r[i] = r[j] => i = j
      /\ \A x \in S : \E i \in 1..n : s[i] = x
      /\ \A x \in S : \E i \in 1..n : r[i] = x
  <2> HIDE DEF n
  <2>1. /\ \A i, j \in 1..Len(s) : s[i] = s[j] => i = j
        /\ \A x \in S : \E i \in 1..Len(s) : s[i] = x
    BY ListingHasAll
  <2>2. /\ \A i, j \in 1..Len(r) : r[i] = r[j] => i = j
        /\ \A x \in S : \E i \in 1..Len(r) : r[i] = x
    BY ListingHasAll
  <2> QED
    BY <1>1, <2>1, <2>2
<1>3. /\ \A i, j \in 1..n : i < j => <<s[j], s[i]>> \notin R
      /\ \A i, j \in 1..n : i < j => <<r[j], r[i]>> \notin R
  BY <1>1
<1> HIDE DEF n
<1>4. ASSUME D # {} PROVE FALSE
  <2>1. D \in SUBSET Nat
    BY <1>1
  <2>2. PICK i \in D : \A k \in D : i =< k
    BY <1>4, <2>1, LeastNumber
  <2>3. i \in 1..n /\ s[i] \in S /\ r[i] \in S /\ s[i] # r[i]
    BY <1>1
  <2>4. PICK j \in 1..n : r[j] = s[i]
    BY <1>2, <2>3
  <2>5. PICK k \in 1..n : s[k] = r[i]
    BY <1>2, <2>3
  <2>6. \A m \in 1..n : m < i => s[m] = r[m]
    BY <1>1, <2>2
  <2>7. i < j
    <3>1. j < i => s[j] = s[i]
      BY <2>4, <2>6
    <3>2. j # i
      BY <2>3, <2>4
    <3> QED
      BY <1>1, <1>2, <2>3, <3>1, <3>2
  <2>8. i < k
    <3>1. k < i => r[k] = r[i]
      BY <2>5, <2>6
    <3>2. k # i
      BY <2>3, <2>5
    <3> QED
      BY <1>1, <1>2, <2>3, <3>1, <3>2
  <2>9. <<s[i], r[i]>> \notin R
    BY <1>3, <2>3, <2>4, <2>7
  <2>10. <<r[i], s[i]>> \notin R
    BY <1>3, <2>3, <2>5, <2>8
  <2> QED
    BY <2>3, <2>9, <2>10
<1> QED
  BY <1>1, <1>4
================================================================================

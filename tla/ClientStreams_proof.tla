------------------------- MODULE ClientStreams_proof -------------------------
(***************************************************************************)
(* Proofs about the client's streams that are no WebSocket: the messages   *)
(* of NdJsonStream are the lines of its input, whatever chunks it comes    *)
(* in; and HttpStream leaves no connection behind.                         *)
(***************************************************************************)
EXTENDS MCClientStreams, FiniteSetTheorems, SequenceTheorems, WellFoundedInduction, TLAPS

(* Induction, for a set of numbers. *)
LEMMA NatMin ==
    ASSUME NEW G \in SUBSET Nat, 0 \in G, \A n \in G : n + 1 \in G
    PROVE  \A n \in Nat : n \in G
<1> DEFINE T == Nat \ G
<1>1. ASSUME T # {} PROVE FALSE
  <2>1. IsWellFoundedOn(OpToRel(<, Nat), Nat)
    BY NatLessThanWellFounded
  <2>2. PICK x \in T : \A y \in T : <<y, x>> \notin OpToRel(<, Nat)
    BY <1>1, <2>1, WFMin
  <2>3. x - 1 \in G /\ x - 1 + 1 = x
    <3>1. x \in Nat /\ x # 0
      BY <2>2
    <3>2. <<x - 1, x>> \in OpToRel(<, Nat)
      BY <3>1 DEF OpToRel
    <3>3. x - 1 \in Nat /\ x - 1 + 1 = x
      BY <3>1
    <3> QED BY <2>2, <3>2, <3>3
  <2> QED BY <2>2, <2>3
<1> QED BY <1>1

(* A set of numbers that is not empty has a least one. *)
LEMMA LeastOne ==
    ASSUME NEW S \in SUBSET Nat, S # {}
    PROVE  \E k \in S : \A m \in S : k <= m
<1>1. IsWellFoundedOn(OpToRel(<, Nat), Nat)
  BY NatLessThanWellFounded
<1>2. PICK k \in S : \A m \in S : <<m, k>> \notin OpToRel(<, Nat)
  BY <1>1, WFMin
<1>3. \A m \in S : m \in Nat
  OBVIOUS
<1>4. ASSUME NEW m \in S, m < k PROVE FALSE
  BY <1>2, <1>3, <1>4 DEF OpToRel
<1>5. \A m \in S : k <= m
  BY <1>3, <1>4
<1> QED BY <1>5

LEMMA MaxIs ==
    ASSUME NEW S \in SUBSET Nat, NEW k \in S, \A m \in S : m <= k
    PROVE  Lines!Max(S) = k
<1>1. \A m \in S : m \in Nat
  OBVIOUS
<1>2. \A x \in S : (\A y \in S : x >= y) <=> x = k
  BY <1>1
<1> QED BY <1>2, Zenon DEF Lines!Max

LEMMA MinIs ==
    ASSUME NEW S \in SUBSET Nat, NEW k \in S, \A m \in S : k <= m
    PROVE  Lines!Min(S) = k
<1>1. \A m \in S : m \in Nat
  OBVIOUS
<1>2. \A x \in S : (\A y \in S : x <= y) <=> x = k
  BY <1>1
<1> QED BY <1>2, Zenon DEF Lines!Min

-----------------------------------------------------------------------------
(* The i-th of a set of numbers.                                           *)

Below(S, k) == {m \in S : m < k}

LEMMA BelowHas ==
    ASSUME NEW S \in SUBSET Nat, NEW k \in Nat
    PROVE  /\ \A m \in S : m \in Below(S, k) <=> m < k
           /\ Below(S, k) \in SUBSET S
<1>1. \A m \in S : m \in Nat
  OBVIOUS
<1> QED BY <1>1, Zenon DEF Below

(* The numbers are counted here as in NdJsonStream. *)
LEMMA CardinalityIs ==
    ASSUME NEW S
    PROVE  Lines!Cardinality(S) = Cardinality(S)
BY DEF Lines!Cardinality, Cardinality

LEMMA BelowIs ==
    ASSUME NEW S \in SUBSET Nat, IsFiniteSet(S), NEW k
    PROVE  /\ IsFiniteSet(Below(S, k)) /\ Cardinality(Below(S, k)) \in Nat
           /\ Cardinality(Below(S, k)) <= Cardinality(S) /\ Cardinality(S) \in Nat
           /\ Below(S, k) \subseteq S
<1>1. Below(S, k) \in SUBSET S
  BY Zenon DEF Below
<1> QED BY <1>1, FS_Subset, FS_CardinalityType

(* The numbers below the next one are one more. *)
LEMMA BelowNext ==
    ASSUME NEW S \in SUBSET Nat, IsFiniteSet(S), NEW k \in S, NEW n \in S, k < n,
           \A m \in S : k < m => n <= m
    PROVE  Cardinality(Below(S, n)) = Cardinality(Below(S, k)) + 1
<1>0. (\A m \in S : m \in Nat) /\ k \in Nat /\ n \in Nat
  OBVIOUS
<1>1. Below(S, n) = Below(S, k) \cup {k} /\ k \notin Below(S, k)
  <2>1. /\ \A m \in S : m \in Below(S, k) <=> m < k
        /\ \A m \in S : m \in Below(S, n) <=> m < n
        /\ Below(S, k) \in SUBSET S /\ Below(S, n) \in SUBSET S
    BY <1>0, BelowHas
  <2>2. \A m \in S : m < n <=> m < k \/ m = k
    BY <1>0
  <2>3. ~(k < k)
    BY <1>0
  <2> QED BY <2>1, <2>2, <2>3, Zenon
<1>2. IsFiniteSet(Below(S, k))
  BY BelowIs
<1> QED BY <1>1, <1>2, FS_AddElement

LEMMA BelowMore ==
    ASSUME NEW S \in SUBSET Nat, IsFiniteSet(S), NEW k \in S, NEW n \in S, k < n
    PROVE  Cardinality(Below(S, k)) < Cardinality(Below(S, n))
<1>0. (\A m \in S : m \in Nat) /\ k \in Nat /\ n \in Nat
  OBVIOUS
<1>1. Below(S, k) \in SUBSET Below(S, n) /\ k \in Below(S, n) /\ k \notin Below(S, k)
  <2>1. /\ \A m \in S : m \in Below(S, k) <=> m < k
        /\ \A m \in S : m \in Below(S, n) <=> m < n
        /\ Below(S, k) \in SUBSET S /\ Below(S, n) \in SUBSET S
    BY <1>0, BelowHas
  <2>2. \A m \in S : m < k => m < n
    BY <1>0
  <2>3. ~(k < k)
    BY <1>0
  <2> QED BY <2>1, <2>2, <2>3, Zenon
<1>2. /\ IsFiniteSet(Below(S, n)) /\ Cardinality(Below(S, n)) \in Nat
      /\ Cardinality(Below(S, k)) \in Nat
  BY BelowIs
<1>3. /\ Cardinality(Below(S, k)) <= Cardinality(Below(S, n))
      /\ Cardinality(Below(S, n)) = Cardinality(Below(S, k)) => Below(S, n) = Below(S, k)
  BY <1>1, <1>2, FS_Subset
<1> QED BY <1>1, <1>2, <1>3

(* There is one with i - 1 of them below it, for each i.                   *)
LEMMA OneOfEach ==
    ASSUME NEW S \in SUBSET Nat, IsFiniteSet(S)
    PROVE  \A i \in 1 .. Cardinality(S) : \E k \in S : Cardinality(Below(S, k)) = i - 1
<1> DEFINE N == Cardinality(S)
           G == {i \in Nat : i < N => \E k \in S : Cardinality(Below(S, k)) = i}
<1>0. \A m \in S : m \in Nat
  OBVIOUS
<1>1. N \in Nat
  BY FS_CardinalityType
<1>2. 0 \in G
  <2>1. CASE N = 0
    BY <2>1
  <2>2. CASE N # 0
    <3>1. S # {}
      BY <2>2, FS_EmptySet
    <3>2. PICK k \in S : \A m \in S : k <= m
      BY <3>1, LeastOne
    <3>3. Below(S, k) = {}
      <4>1. k \in Nat /\ \A m \in S : ~(m < k)
        BY <1>0, <3>2
      <4> QED BY <4>1, BelowHas
    <3> QED BY <3>3, FS_EmptySet
  <2> QED BY <2>1, <2>2
<1>3. ASSUME NEW i \in G, i + 1 < N PROVE \E k \in S : Cardinality(Below(S, k)) = i + 1
  <2>0. i \in Nat /\ i < N
    BY <1>1, <1>3
  <2>1. PICK k \in S : Cardinality(Below(S, k)) = i
    BY <2>0
  <2> DEFINE T == {m \in S : k < m}
  <2>2. T # {}
    <3>1. ASSUME T = {} PROVE FALSE
      <4>1. S = Below(S, k) \cup {k} /\ k \notin Below(S, k)
        <5>1. k \in Nat /\ \A m \in S : ~(k < m)
          BY <1>0, <3>1
        <5>2. \A m \in S : m < k \/ m = k
          BY <1>0, <5>1
        <5>3. ~(k < k)
          BY <5>1
        <5>4. /\ \A m \in S : m \in Below(S, k) <=> m < k
              /\ Below(S, k) \in SUBSET S
          BY <5>1, BelowHas
        <5> QED BY <5>2, <5>3, <5>4, Zenon
      <4>2. Cardinality(S) = i + 1
        <5>1. IsFiniteSet(Below(S, k))
          BY BelowIs
        <5> QED BY <2>1, <4>1, <5>1, FS_AddElement
      <4> QED BY <1>3, <2>0, <4>2
    <3> QED BY <3>1
  <2>3. PICK n \in T : \A m \in T : n <= m
    <3>1. T \in SUBSET Nat
      OBVIOUS
    <3> HIDE DEF T
    <3> QED BY <2>2, <3>1, LeastOne
  <2>4. n \in S /\ k < n /\ \A m \in S : k < m => n <= m
    BY <2>3
  <2> QED BY <2>1, <2>4, BelowNext
<1>4. \A i \in G : i + 1 \in G
  BY <1>3
<1>5. G \in SUBSET Nat
  OBVIOUS
<1>6. \A i \in Nat : i \in G
  <2> HIDE DEF G
  <2> QED BY <1>2, <1>4, <1>5, NatMin
<1>7. ASSUME NEW i \in 1 .. N PROVE \E k \in S : Cardinality(Below(S, k)) = i - 1
  BY <1>1, <1>6
<1> QED BY <1>7

LEMMA NthIs ==
    ASSUME NEW S \in SUBSET Nat, IsFiniteSet(S), NEW i \in Nat, NEW k \in S,
           Cardinality(Below(S, k)) = i - 1
    PROVE  Lines!Nth(S, i) = k
<1>1. ASSUME NEW n \in S, Cardinality(Below(S, n)) = i - 1 PROVE n = k
  <2>1. ~(n < k) /\ ~(k < n)
    BY <1>1, BelowMore, BelowIs
  <2> QED BY <2>1
<1>2. \A n \in S : Cardinality(Below(S, n)) = i - 1 <=> n = k
  BY <1>1
<1>3. \A n \in S : Lines!Cardinality({m \in S : m < n}) = i - 1 <=> n = k
  BY <1>2, CardinalityIs, Zenon DEF Below
<1> QED BY <1>3, Zenon DEF Lines!Nth

LEMMA NthExists ==
    ASSUME NEW S \in SUBSET Nat, IsFiniteSet(S), NEW i \in 1 .. Cardinality(S)
    PROVE  Lines!Nth(S, i) \in S /\ Cardinality(Below(S, Lines!Nth(S, i))) = i - 1
<1>1. PICK k \in S : Cardinality(Below(S, k)) = i - 1
  BY OneOfEach
<1>2. i \in Nat
  BY FS_CardinalityType
<1> QED BY <1>1, <1>2, NthIs

(* What is above the others comes after them. *)
LEMMA NthOfMore ==
    ASSUME NEW S \in SUBSET Nat, IsFiniteSet(S), NEW T \in SUBSET Nat, IsFiniteSet(T),
           \A m \in S, n \in T : m < n
    PROVE  /\ IsFiniteSet(S \cup T) /\ Cardinality(S) <= Cardinality(S \cup T)
           /\ Cardinality(S) \in Nat /\ Cardinality(S \cup T) \in Nat
           /\ \A i \in 1 .. Cardinality(S) : Lines!Nth(S \cup T, i) = Lines!Nth(S, i)
<1>1. IsFiniteSet(S \cup T)
  BY FS_Union
<1>2. /\ Cardinality(S) <= Cardinality(S \cup T)
      /\ Cardinality(S) \in Nat /\ Cardinality(S \cup T) \in Nat
  BY <1>1, FS_Subset, FS_CardinalityType
<1>3. ASSUME NEW i \in 1 .. Cardinality(S) PROVE Lines!Nth(S \cup T, i) = Lines!Nth(S, i)
  <2> DEFINE k == Lines!Nth(S, i)  U == S \cup T
  <2>1. k \in S /\ Cardinality(Below(S, k)) = i - 1
    BY NthExists
  <2>2. Below(U, k) = Below(S, k)
    <3>1. k \in Nat /\ \A m \in U : m \in Nat
      BY <2>1
    <3>2. \A m \in T : ~(m < k)
      BY <2>1, <3>1
    <3> HIDE DEF k
    <3> QED BY <3>1, <3>2 DEF Below
  <2>3. i \in Nat /\ k \in U /\ U \in SUBSET Nat /\ Cardinality(Below(U, k)) = i - 1
    BY <1>2, <2>1, <2>2
  <2>4. IsFiniteSet(U)
    BY <1>1
  <2> HIDE DEF k, U
  <2>5. Lines!Nth(U, i) = k
    BY <2>3, <2>4, NthIs
  <2> QED BY <2>5 DEF U, k
<1> QED BY <1>1, <1>2, <1>3

LEMMA NthOfOneMore ==
    ASSUME NEW S \in SUBSET Nat, IsFiniteSet(S), NEW n \in Nat, \A m \in S : m < n
    PROVE  /\ Cardinality(S \cup {n}) = Cardinality(S) + 1 /\ Cardinality(S) \in Nat
           /\ \A i \in 1 .. Cardinality(S) : Lines!Nth(S \cup {n}, i) = Lines!Nth(S, i)
           /\ Lines!Nth(S \cup {n}, Cardinality(S) + 1) = n
<1> DEFINE U == S \cup {n}
<1>0. (\A m \in S : m \in Nat) /\ ~(n < n)
  OBVIOUS
<1>1. n \notin S /\ U \in SUBSET Nat /\ n \in U /\ Below(U, n) = S
  BY <1>0 DEF Below
<1>2. IsFiniteSet(U) /\ Cardinality(U) = Cardinality(S) + 1 /\ Cardinality(S) \in Nat
  BY <1>1, FS_AddElement, FS_CardinalityType
<1>3. \A i \in 1 .. Cardinality(S) : Lines!Nth(U, i) = Lines!Nth(S, i)
  <2>1. IsFiniteSet({n}) /\ {n} \in SUBSET Nat
    BY FS_Singleton
  <2> QED BY <2>1, NthOfMore
<1>4. Lines!Nth(U, Cardinality(S) + 1) = n
  <2>1. Cardinality(Below(U, n)) = (Cardinality(S) + 1) - 1 /\ Cardinality(S) + 1 \in Nat
    BY <1>1, <1>2
  <2> HIDE DEF U
  <2> QED BY <1>1, <1>2, <2>1, NthIs
<1> QED BY <1>2, <1>3, <1>4

-----------------------------------------------------------------------------
(* The lines of the bytes.                                                 *)

LEMMA FunctionIsSeq ==
    ASSUME NEW S, NEW n \in Nat, NEW f \in [1 .. n -> S]
    PROVE  f \in Seq(S) /\ Len(f) = n
OBVIOUS

(* A set of numbers with a bound has a greatest one. *)
LEMMA GreatestOne ==
    ASSUME NEW S \in SUBSET Nat, S # {}, NEW n \in Nat, \A m \in S : m <= n
    PROVE  Lines!Max(S) \in S /\ \A m \in S : m <= Lines!Max(S)
<1> DEFINE U == {b \in Nat : \A m \in S : m <= b}
<1>0. \A m \in S : m \in Nat
  OBVIOUS
<1>1. U \in SUBSET Nat /\ n \in U
  BY <1>0
<1>2. PICK b \in U : \A c \in U : b <= c
  <2> HIDE DEF U
  <2> QED BY <1>1, LeastOne
<1>3. b \in Nat /\ \A m \in S : m <= b
  BY <1>2
<1>4. b \in S
  <2>1. ASSUME b \notin S PROVE FALSE
    <3>1. PICK m \in S : TRUE
      OBVIOUS
    <3>2. b # 0
      BY <1>0, <1>3, <2>1, <3>1
    <3>3. b - 1 \in Nat /\ \A x \in S : x <= b - 1
      BY <1>0, <1>3, <2>1, <3>2
    <3>4. b - 1 \in U
      BY <3>3
    <3> QED BY <1>2, <1>3, <3>3, <3>4
  <2> QED BY <2>1
<1>5. Lines!Max(S) = b
  BY <1>3, <1>4, MaxIs
<1> QED BY <1>3, <1>4, <1>5

Bytes == Lines!Bytes

LEMMA NewlinesAre ==
    ASSUME NEW u \in Seq(Bytes)
    PROVE  /\ \A i \in 1 .. Len(u) : i \in Lines!Newlines(u) <=> u[i] = "LF"
           /\ Lines!Newlines(u) \in SUBSET (1 .. Len(u))
           /\ Lines!Newlines(u) \in SUBSET Nat
           /\ IsFiniteSet(Lines!Newlines(u))
<1>1. /\ \A i \in 1 .. Len(u) : i \in Lines!Newlines(u) <=> u[i] = "LF"
      /\ Lines!Newlines(u) \in SUBSET (1 .. Len(u))
  BY Zenon DEF Lines!Newlines
<1>2. Len(u) \in Nat
  BY LenProperties
<1>3. IsFiniteSet(1 .. Len(u))
  BY <1>2, FS_Interval
<1> QED BY <1>1, <1>2, <1>3, FS_Subset

(* What is before a position. *)
Ends(u, i) == {0} \cup {j \in Lines!Newlines(u) : j < i}

LEMMA EndsAre ==
    ASSUME NEW u \in Seq(Bytes), NEW i \in 1 .. Len(u) + 1
    PROVE  /\ Ends(u, i) \in SUBSET Nat /\ 0 \in Ends(u, i)
           /\ \A j \in Nat : j \in Ends(u, i) <=> j = 0 \/ (j \in 1 .. Len(u) /\ j < i /\ u[j] = "LF")
           /\ Lines!Max(Ends(u, i)) \in 0 .. i - 1
<1>0. Len(u) \in Nat
  BY LenProperties
<1>1. \A j \in Lines!Newlines(u) : j \in Nat
  BY NewlinesAre
<1>2. \A j : j \in Ends(u, i) <=> j = 0 \/ (j \in Lines!Newlines(u) /\ j < i)
  BY Zenon DEF Ends
<1>3. Ends(u, i) \in SUBSET Nat /\ 0 \in Ends(u, i)
  BY <1>1, <1>2
<1>4. \A j \in Nat : j \in Ends(u, i) <=> j = 0 \/ (j \in 1 .. Len(u) /\ j < i /\ u[j] = "LF")
  <2>1. \A j \in Nat : j \in Lines!Newlines(u) <=> j \in 1 .. Len(u) /\ u[j] = "LF"
    BY <1>0, NewlinesAre
  <2> QED BY <1>2, <2>1, Zenon
<1>5. \A j \in Ends(u, i) : j <= i - 1
  BY <1>0, <1>3, <1>4
<1>6. i - 1 \in Nat
  BY <1>0
<1>7. Lines!Max(Ends(u, i)) \in Ends(u, i)
  BY <1>3, <1>5, <1>6, GreatestOne, Zenon
<1>8. Lines!Max(Ends(u, i)) \in Nat
  BY <1>3, <1>7
<1>9. Lines!Max(Ends(u, i)) <= i - 1
  BY <1>5, <1>7
<1> QED BY <1>3, <1>4, <1>6, <1>8, <1>9

LEMMA PartIs ==
    ASSUME NEW u \in Seq(Bytes), NEW a \in 1 .. Len(u) + 1, NEW n \in a - 1 .. Len(u)
    PROVE  /\ SubSeq(u, a, n) \in Seq(Bytes) /\ Len(SubSeq(u, a, n)) = n - a + 1
           /\ \A i \in 1 .. n - a + 1 : SubSeq(u, a, n)[i] = u[a + i - 1]
<1>1. Len(u) \in Nat /\ \A i \in a .. n : u[i] \in Bytes
  BY LenProperties, ElementOfSeq
<1>2. a \in Int /\ n \in Int /\ (a > n => n - a + 1 = 0)
  BY <1>1
<1>3. /\ SubSeq(u, a, n) \in Seq(Bytes)
      /\ Len(SubSeq(u, a, n)) = IF a <= n THEN n - a + 1 ELSE 0
      /\ \A i \in 1 .. n - a + 1 : SubSeq(u, a, n)[i] = u[a + i - 1]
  BY <1>1, <1>2, SubSeqProperties
<1> QED BY <1>1, <1>2, <1>3

(* A line is what follows the newline before it. *)
LEMMA EndingIs ==
    ASSUME NEW u \in Seq(Bytes), NEW k \in 0 .. Len(u), NEW n \in k .. Len(u),
           k = 0 \/ u[k] = "LF", \A i \in k + 1 .. n : u[i] # "LF"
    PROVE  Lines!LineEndingAt(u, n + 1) = SubSeq(u, k + 1, n)
<1>0. Len(u) \in Nat
  BY LenProperties
<1>1. n + 1 \in 1 .. Len(u) + 1 /\ k \in Nat /\ n \in Nat
  BY <1>0
<1>2. /\ Ends(u, n + 1) \in SUBSET Nat /\ 0 \in Ends(u, n + 1)
      /\ \A j \in Nat : j \in Ends(u, n + 1) <=>
             j = 0 \/ (j \in 1 .. Len(u) /\ j < n + 1 /\ u[j] = "LF")
  BY <1>1, EndsAre
<1>3. k \in Ends(u, n + 1)
  BY <1>0, <1>1, <1>2
<1>4. \A j \in Ends(u, n + 1) : j <= k
  BY <1>0, <1>1, <1>2
<1>5. Lines!Max(Ends(u, n + 1)) = k
  BY <1>2, <1>3, <1>4, MaxIs, Zenon
<1>6. Lines!LineEndingAt(u, n + 1) = SubSeq(u, k + 1, (n + 1) - 1)
  BY <1>5, Zenon DEF Lines!LineEndingAt, Ends
<1>7. (n + 1) - 1 = n
  BY <1>1
<1> QED BY <1>6, <1>7

(* A line ends where it does, whatever follows it. *)
LEMMA EndingStays ==
    ASSUME NEW u \in Seq(Bytes), NEW n \in 0 .. Len(u), NEW i \in 1 .. n + 1
    PROVE  /\ Lines!LineEndingAt(u, i) = Lines!LineEndingAt(SubSeq(u, 1, n), i)
           /\ Lines!LineEndingAt(u, i) \in Seq(Bytes)
<1> DEFINE s == SubSeq(u, 1, n)
           k == Lines!Max(Ends(u, i))
<1>0. Len(u) \in Nat /\ n \in Nat /\ i \in 1 .. Len(u) + 1
  BY LenProperties
<1>1. s \in Seq(Bytes) /\ Len(s) = n /\ \A j \in 1 .. n : s[j] = u[j]
  <2>1. 1 \in 1 .. Len(u) + 1 /\ n \in 1 - 1 .. Len(u) /\ n - 1 + 1 = n
    BY <1>0
  <2>2. /\ s \in Seq(Bytes) /\ Len(s) = n - 1 + 1
        /\ \A j \in 1 .. n - 1 + 1 : s[j] = u[1 + j - 1]
    BY <2>1, PartIs
  <2>3. \A j \in 1 .. n : 1 + j - 1 = j
    BY <1>0
  <2> HIDE DEF s
  <2> QED BY <2>1, <2>2, <2>3
<1>2. Ends(s, i) = Ends(u, i)
  <2>1. /\ Ends(u, i) \in SUBSET Nat
        /\ \A j \in Nat : j \in Ends(u, i) <=> j = 0 \/ (j \in 1 .. Len(u) /\ j < i /\ u[j] = "LF")
    BY <1>0, EndsAre
  <2>2. /\ Ends(s, i) \in SUBSET Nat
        /\ \A j \in Nat : j \in Ends(s, i) <=> j = 0 \/ (j \in 1 .. n /\ j < i /\ s[j] = "LF")
    <3>1. i \in 1 .. Len(s) + 1
      BY <1>1
    <3> HIDE DEF s
    <3> QED BY <1>1, <3>1, EndsAre
  <2>3. \A j \in Nat : j < i => (j \in 1 .. n <=> j \in 1 .. Len(u))
    BY <1>0
  <2>4. \A j \in Nat : j \in Ends(s, i) <=> j \in Ends(u, i)
    <3> HIDE DEF s
    <3> QED BY <1>1, <2>1, <2>2, <2>3
  <2> HIDE DEF s
  <2> QED BY <2>1, <2>2, <2>4
<1>3. k \in 0 .. i - 1
  BY <1>0, EndsAre
<1>4. Lines!LineEndingAt(u, i) = SubSeq(u, k + 1, i - 1)
  BY Zenon DEF Lines!LineEndingAt, Ends
<1>5. Lines!LineEndingAt(s, i) = SubSeq(s, k + 1, i - 1)
  <2> HIDE DEF s
  <2> QED BY <1>2, Zenon DEF Lines!LineEndingAt, Ends
<1> HIDE DEF k, s
<1>6. /\ k + 1 \in 1 .. Len(u) + 1 /\ i - 1 \in (k + 1) - 1 .. Len(u)
      /\ k + 1 \in 1 .. Len(s) + 1 /\ i - 1 \in (k + 1) - 1 .. Len(s)
  BY <1>0, <1>1, <1>3
<1>7. /\ SubSeq(u, k + 1, i - 1) \in Seq(Bytes)
      /\ Len(SubSeq(u, k + 1, i - 1)) = (i - 1) - (k + 1) + 1
      /\ \A j \in 1 .. (i - 1) - (k + 1) + 1 : SubSeq(u, k + 1, i - 1)[j] = u[k + 1 + j - 1]
  BY <1>6, PartIs
<1>8. /\ SubSeq(s, k + 1, i - 1) \in Seq(Bytes)
      /\ Len(SubSeq(s, k + 1, i - 1)) = (i - 1) - (k + 1) + 1
      /\ \A j \in 1 .. (i - 1) - (k + 1) + 1 : SubSeq(s, k + 1, i - 1)[j] = s[k + 1 + j - 1]
  BY <1>1, <1>6, PartIs
<1>9. \A j \in 1 .. (i - 1) - (k + 1) + 1 : s[k + 1 + j - 1] = u[k + 1 + j - 1]
  BY <1>0, <1>1, <1>3
<1>10. SubSeq(u, k + 1, i - 1) = SubSeq(s, k + 1, i - 1)
  BY <1>7, <1>8, <1>9, SeqEqual
<1> QED BY <1>4, <1>5, <1>7, <1>10 DEF s

(* What is before a position, as a sequence of its own. *)
Before(u, n) == SubSeq(u, 1, n)

LEMMA BeforeIs ==
    ASSUME NEW u \in Seq(Bytes), NEW n \in 0 .. Len(u)
    PROVE  /\ Before(u, n) \in Seq(Bytes) /\ Len(Before(u, n)) = n
           /\ \A j \in 1 .. n : Before(u, n)[j] = u[j]
<1>0. Len(u) \in Nat /\ n \in Nat
  BY LenProperties
<1>1. 1 \in 1 .. Len(u) + 1 /\ n \in 1 - 1 .. Len(u) /\ n - 1 + 1 = n
  BY <1>0
<1>2. /\ Before(u, n) \in Seq(Bytes) /\ Len(Before(u, n)) = n - 1 + 1
      /\ \A j \in 1 .. n - 1 + 1 : Before(u, n)[j] = u[1 + j - 1]
  BY <1>1, PartIs, Zenon DEF Before
<1>3. \A j \in 1 .. n : 1 + j - 1 = j
  BY <1>0
<1> QED BY <1>1, <1>2, <1>3

LEMMA BeforeOfBefore ==
    ASSUME NEW u \in Seq(Bytes), NEW n \in 0 .. Len(u), NEW k \in 0 .. n
    PROVE  Before(Before(u, n), k) = Before(u, k)
<1>0. Len(u) \in Nat /\ n \in Nat /\ k \in Nat /\ k \in 0 .. Len(u)
  BY LenProperties
<1>1. /\ Before(u, n) \in Seq(Bytes) /\ Len(Before(u, n)) = n
      /\ \A j \in 1 .. n : Before(u, n)[j] = u[j]
  BY BeforeIs
<1>2. /\ Before(u, k) \in Seq(Bytes) /\ Len(Before(u, k)) = k
      /\ \A j \in 1 .. k : Before(u, k)[j] = u[j]
  BY <1>0, BeforeIs
<1>3. k \in 0 .. Len(Before(u, n))
  BY <1>1
<1>4. /\ Before(Before(u, n), k) \in Seq(Bytes) /\ Len(Before(Before(u, n), k)) = k
      /\ \A j \in 1 .. k : Before(Before(u, n), k)[j] = Before(u, n)[j]
  BY <1>1, <1>3, BeforeIs
<1>5. \A j \in 1 .. k : Before(Before(u, n), k)[j] = Before(u, k)[j]
  BY <1>0, <1>1, <1>2, <1>4
<1> QED BY <1>2, <1>4, <1>5, SeqEqual

LEMMA NewlinesBefore ==
    ASSUME NEW u \in Seq(Bytes), NEW n \in 0 .. Len(u)
    PROVE  \A i \in Nat : i \in Lines!Newlines(Before(u, n)) <=> i \in Lines!Newlines(u) /\ i <= n
<1>0. Len(u) \in Nat /\ n \in Nat
  BY LenProperties
<1>1. /\ Before(u, n) \in Seq(Bytes) /\ Len(Before(u, n)) = n
      /\ \A j \in 1 .. n : Before(u, n)[j] = u[j]
  BY BeforeIs
<1>2. \A i \in Nat : i \in Lines!Newlines(u) <=> i \in 1 .. Len(u) /\ u[i] = "LF"
  BY <1>0, NewlinesAre
<1>3. \A i \in Nat : i \in Lines!Newlines(Before(u, n)) <=> i \in 1 .. n /\ Before(u, n)[i] = "LF"
  BY <1>0, <1>1, NewlinesAre
<1> QED BY <1>0, <1>1, <1>2, <1>3

LEMMA LinesAre ==
    ASSUME NEW u \in Seq(Bytes)
    PROVE  /\ Lines!LinesOf(u) \in Seq(Seq(Bytes))
           /\ Len(Lines!LinesOf(u)) = Cardinality(Lines!Newlines(u))
           /\ Cardinality(Lines!Newlines(u)) \in Nat
           /\ \A i \in 1 .. Cardinality(Lines!Newlines(u)) :
                 /\ Lines!Nth(Lines!Newlines(u), i) \in 1 .. Len(u)
                 /\ Lines!LinesOf(u)[i] = Lines!LineEndingAt(u, Lines!Nth(Lines!Newlines(u), i))
<1> DEFINE M == Lines!Newlines(u)
           N == Cardinality(M)
           L == Lines!LinesOf(u)
<1>1. IsFiniteSet(M) /\ M \in SUBSET Nat /\ M \in SUBSET (1 .. Len(u)) /\ N \in Nat
  BY NewlinesAre, FS_CardinalityType
<1>2. L = [i \in 1 .. N |-> Lines!LineEndingAt(u, Lines!Nth(M, i))]
  BY CardinalityIs, Zenon DEF Lines!LinesOf
<1> HIDE DEF M, N, L
<1>3. \A i \in 1 .. N : Lines!Nth(M, i) \in 1 .. Len(u)
  <2>1. \A i \in 1 .. N : Lines!Nth(M, i) \in M
    BY <1>1, NthExists DEF N
  <2> QED BY <1>1, <2>1
<1>4. \A i \in 1 .. N : Lines!LineEndingAt(u, Lines!Nth(M, i)) \in Seq(Bytes)
  <2>1. TAKE i \in 1 .. N
  <2>2. Len(u) \in Nat
    BY LenProperties
  <2>3. Len(u) \in 0 .. Len(u) /\ Lines!Nth(M, i) \in 1 .. Len(u) + 1
    BY <1>3, <2>2
  <2> QED BY <2>3, EndingStays
<1>5. L \in [1 .. N -> Seq(Bytes)]
  BY <1>2, <1>4
<1>6. L \in Seq(Seq(Bytes)) /\ Len(L) = N
  BY <1>1, <1>5, FunctionIsSeq
<1> QED BY <1>1, <1>2, <1>3, <1>6 DEF M, N, L

(* What comes later changes no line of before. *)
LEMMA LinesStay ==
    ASSUME NEW u \in Seq(Bytes), NEW n \in 0 .. Len(u)
    PROVE  /\ Len(Lines!LinesOf(Before(u, n))) <= Len(Lines!LinesOf(u))
           /\ Len(Lines!LinesOf(Before(u, n))) \in Nat /\ Len(Lines!LinesOf(u)) \in Nat
           /\ \A i \in 1 .. Len(Lines!LinesOf(Before(u, n))) :
                 Lines!LinesOf(u)[i] = Lines!LinesOf(Before(u, n))[i]
<1> DEFINE s == Before(u, n)
           S == Lines!Newlines(s)
           M == Lines!Newlines(u)
           T == M \ S
<1>0. Len(u) \in Nat /\ n \in Nat /\ s \in Seq(Bytes) /\ Len(s) = n
  BY BeforeIs, LenProperties
<1>1. /\ IsFiniteSet(M) /\ M \in SUBSET Nat /\ IsFiniteSet(S) /\ S \in SUBSET Nat
      /\ S \in SUBSET (1 .. n)
  <2> HIDE DEF s
  <2> QED BY <1>0, NewlinesAre
<1>2. \A i \in Nat : i \in S <=> i \in M /\ i <= n
  BY NewlinesBefore
<1> HIDE DEF S, M
<1>3. M = S \cup T /\ IsFiniteSet(T) /\ T \in SUBSET Nat
  <2>1. S \in SUBSET M
    BY <1>1, <1>2
  <2>2. T \in SUBSET M
    OBVIOUS
  <2>3. IsFiniteSet(T)
    BY <1>1, <2>2, FS_Subset
  <2> QED BY <1>1, <2>1, <2>2, <2>3
<1>4. \A m \in S, x \in T : m < x
  <2>1. TAKE m \in S, x \in T
  <2>2. m \in Nat /\ x \in Nat /\ m <= n /\ ~(x <= n)
    BY <1>1, <1>2, <1>3
  <2> QED BY <1>0, <2>2
<1>5. /\ Cardinality(S) <= Cardinality(S \cup T)
      /\ Cardinality(S) \in Nat /\ Cardinality(S \cup T) \in Nat
      /\ \A i \in 1 .. Cardinality(S) : Lines!Nth(S \cup T, i) = Lines!Nth(S, i)
  <2> HIDE DEF T
  <2> QED BY <1>1, <1>3, <1>4, NthOfMore
<1>6. /\ Cardinality(S) <= Cardinality(M)
      /\ \A i \in 1 .. Cardinality(S) : Lines!Nth(M, i) = Lines!Nth(S, i)
  BY <1>3, <1>5
<1>7. /\ Len(Lines!LinesOf(s)) = Cardinality(S) /\ Cardinality(S) \in Nat
      /\ \A i \in 1 .. Cardinality(S) :
            /\ Lines!Nth(S, i) \in 1 .. n
            /\ Lines!LinesOf(s)[i] = Lines!LineEndingAt(s, Lines!Nth(S, i))
  <2> HIDE DEF s
  <2> QED BY <1>0, LinesAre DEF S
<1>8. /\ Len(Lines!LinesOf(u)) = Cardinality(M) /\ Cardinality(M) \in Nat
      /\ \A i \in 1 .. Cardinality(M) :
            Lines!LinesOf(u)[i] = Lines!LineEndingAt(u, Lines!Nth(M, i))
  BY LinesAre DEF M
<1>9. \A i \in 1 .. n : Lines!LineEndingAt(u, i) = Lines!LineEndingAt(s, i)
  <2>1. TAKE i \in 1 .. n
  <2>2. i \in 1 .. n + 1
    BY <1>0
  <2> QED BY <2>2, EndingStays DEF Before
<1>10. \A i \in 1 .. Cardinality(S) : Lines!LinesOf(u)[i] = Lines!LinesOf(s)[i]
  <2>1. TAKE i \in 1 .. Cardinality(S)
  <2>2. i \in 1 .. Cardinality(M)
    BY <1>6, <1>7, <1>8
  <2> QED BY <1>6, <1>7, <1>8, <1>9, <2>2
<1> QED BY <1>6, <1>7, <1>8, <1>10

(* No newline, no line. *)
LEMMA NoMoreLines ==
    ASSUME NEW u \in Seq(Bytes), NEW n \in 0 .. Len(u), NEW k \in 0 .. n,
           \A i \in k + 1 .. n : u[i] # "LF"
    PROVE  Lines!LinesOf(Before(u, n)) = Lines!LinesOf(Before(u, k))
<1> DEFINE s == Before(u, n)
<1>0. /\ Len(u) \in Nat /\ n \in Nat /\ k \in Nat /\ k \in 0 .. Len(u)
      /\ s \in Seq(Bytes) /\ Len(s) = n /\ \A j \in 1 .. n : s[j] = u[j]
  BY BeforeIs, LenProperties
<1>1. Before(s, k) = Before(u, k)
  BY BeforeOfBefore
<1>2. \A i \in Nat : i \in Lines!Newlines(Before(u, k)) <=> i \in Lines!Newlines(s)
  <2> HIDE DEF s
  <2>1. k \in 0 .. Len(s)
    BY <1>0
  <2>2. \A i \in Nat : i \in Lines!Newlines(Before(s, k)) <=> i \in Lines!Newlines(s) /\ i <= k
    BY <1>0, <2>1, NewlinesBefore
  <2>3. \A i \in Lines!Newlines(s) : i <= k
    BY <1>0, NewlinesAre
  <2> QED BY <1>1, <2>2, <2>3
<1>3. Lines!Newlines(Before(u, k)) = Lines!Newlines(s)
  <2>1. Before(u, k) \in Seq(Bytes)
    BY <1>0, BeforeIs
  <2>2. Lines!Newlines(Before(u, k)) \in SUBSET Nat /\ Lines!Newlines(s) \in SUBSET Nat
    <3> HIDE DEF s
    <3> QED BY <1>0, <2>1, NewlinesAre
  <2> HIDE DEF s
  <2> QED BY <1>2, <2>2
<1> HIDE DEF s
<1>4. /\ Lines!LinesOf(s) \in Seq(Seq(Bytes))
      /\ Lines!LinesOf(Before(u, k)) \in Seq(Seq(Bytes))
      /\ Len(Lines!LinesOf(s)) = Len(Lines!LinesOf(Before(u, k)))
  <2>1. Before(u, k) \in Seq(Bytes)
    BY <1>0, BeforeIs
  <2> QED BY <1>0, <1>3, <2>1, LinesAre
<1>5. \A i \in 1 .. Len(Lines!LinesOf(Before(u, k))) :
          Lines!LinesOf(s)[i] = Lines!LinesOf(Before(u, k))[i]
  <2>1. k \in 0 .. Len(s)
    BY <1>0
  <2> QED BY <1>0, <1>1, <2>1, LinesStay
<1>6. Lines!LinesOf(s) = Lines!LinesOf(Before(u, k))
  BY <1>4, <1>5, SeqEqual
<1> QED BY <1>6 DEF s

(* A newline is the end of a line more: of what is behind the last one.    *)
LEMMA OneMoreLine ==
    ASSUME NEW u \in Seq(Bytes), NEW k \in 0 .. Len(u), NEW n \in k .. Len(u), n + 1 <= Len(u),
           k = 0 \/ u[k] = "LF", \A i \in k + 1 .. n : u[i] # "LF", u[n + 1] = "LF"
    PROVE  Lines!LinesOf(Before(u, n + 1)) = Append(Lines!LinesOf(Before(u, k)), SubSeq(u, k + 1, n))
<1> DEFINE s == Before(u, n + 1)
           b == Before(u, k)
           S == Lines!Newlines(b)
           M == Lines!Newlines(s)
           line == SubSeq(u, k + 1, n)
<1>0. Len(u) \in Nat /\ n \in Nat /\ k \in Nat /\ n + 1 \in 0 .. Len(u) /\ k <= n
  BY LenProperties
<1>1. /\ s \in Seq(Bytes) /\ Len(s) = n + 1 /\ \A j \in 1 .. n + 1 : s[j] = u[j]
      /\ b \in Seq(Bytes) /\ Len(b) = k
  BY <1>0, BeforeIs
<1>2. /\ IsFiniteSet(M) /\ M \in SUBSET Nat /\ IsFiniteSet(S) /\ S \in SUBSET Nat
      /\ M \in SUBSET (1 .. n + 1) /\ \A i \in 1 .. n + 1 : i \in M <=> s[i] = "LF"
      /\ S \in SUBSET (1 .. k)
  <2> HIDE DEF s, b
  <2> QED BY <1>1, NewlinesAre
<1>3. \A i \in Nat : i \in S <=> i \in M /\ i <= k
  <2>1. b = Before(s, k) /\ k \in 0 .. Len(s)
    BY <1>0, <1>1, BeforeOfBefore
  <2> HIDE DEF s, b
  <2> QED BY <1>1, <2>1, NewlinesBefore
<1>4. M = S \cup {n + 1} /\ \A m \in S : m < n + 1
  <2> HIDE DEF s, b, S, M
  <2>1. n + 1 \in M /\ \A i \in M : i <= k \/ i = n + 1
    BY <1>0, <1>1, <1>2
  <2>2. \A i \in Nat : i \in M <=> i \in S \/ i = n + 1
    BY <1>0, <1>3, <2>1
  <2>3. n + 1 \in Nat
    BY <1>0
  <2>4. \A m \in S : m < n + 1
    BY <1>0, <1>2
  <2>5. M = S \cup {n + 1}
    BY <1>2, <2>2, <2>3
  <2> QED BY <2>4, <2>5
<1>5. /\ Cardinality(M) = Cardinality(S) + 1 /\ Cardinality(S) \in Nat
      /\ Lines!Nth(M, Cardinality(S) + 1) = n + 1
  <2> HIDE DEF s, b, S, M
  <2>1. n + 1 \in Nat
    BY <1>0
  <2> QED BY <1>2, <1>4, <2>1, NthOfOneMore
<1>6. /\ Lines!LinesOf(s) \in Seq(Seq(Bytes)) /\ Len(Lines!LinesOf(s)) = Cardinality(S) + 1
      /\ Lines!LinesOf(s)[Cardinality(S) + 1] = Lines!LineEndingAt(s, n + 1)
      /\ Lines!LinesOf(b) \in Seq(Seq(Bytes)) /\ Len(Lines!LinesOf(b)) = Cardinality(S)
  <2> HIDE DEF s, b
  <2>1. Cardinality(S) + 1 \in 1 .. Cardinality(M)
    BY <1>5
  <2> QED BY <1>1, <1>5, <2>1, LinesAre
<1>7. Lines!LineEndingAt(s, n + 1) = line
  <2>1. Lines!LineEndingAt(u, n + 1) = line
    BY <1>0, EndingIs
  <2>2. n + 1 \in 1 .. (n + 1) + 1
    BY <1>0
  <2>3. Lines!LineEndingAt(u, n + 1) = Lines!LineEndingAt(s, n + 1)
    BY <1>0, <2>2, EndingStays DEF Before
  <2> QED BY <2>1, <2>3
<1>8. \A i \in 1 .. Cardinality(S) : Lines!LinesOf(s)[i] = Lines!LinesOf(b)[i]
  <2>1. b = Before(s, k) /\ k \in 0 .. Len(s)
    BY <1>0, <1>1, BeforeOfBefore
  <2> HIDE DEF s, b, S, M
  <2>2. \A i \in 1 .. Len(Lines!LinesOf(Before(s, k))) :
            Lines!LinesOf(s)[i] = Lines!LinesOf(Before(s, k))[i]
    BY <1>1, <2>1, LinesStay
  <2> QED BY <1>6, <2>1, <2>2
<1>9. line \in Seq(Bytes)
  <2>1. k + 1 \in 1 .. Len(u) + 1 /\ n \in (k + 1) - 1 .. Len(u)
    BY <1>0
  <2> QED BY <2>1, PartIs
<1> HIDE DEF s, b, S, M, line
<1>10. Lines!LinesOf(s) = Append(Lines!LinesOf(b), line)
  <2>1. /\ Append(Lines!LinesOf(b), line) \in Seq(Seq(Bytes))
        /\ Len(Append(Lines!LinesOf(b), line)) = Cardinality(S) + 1
        /\ \A i \in 1 .. Cardinality(S) : Append(Lines!LinesOf(b), line)[i] = Lines!LinesOf(b)[i]
        /\ Append(Lines!LinesOf(b), line)[Cardinality(S) + 1] = line
    BY <1>6, <1>9, AppendProperties
  <2>2. \A i \in 1 .. Cardinality(S) + 1 :
            Lines!LinesOf(s)[i] = Append(Lines!LinesOf(b), line)[i]
    BY <1>5, <1>6, <1>7, <1>8, <2>1
  <2> QED BY <1>6, <2>1, <2>2, SeqEqual
<1> QED BY <1>10 DEF s, b, line

-----------------------------------------------------------------------------
(* What the lines are: messages, blank or bad.                             *)

LEMMA LeastIs ==
    ASSUME NEW S \in SUBSET Nat, S # {}
    PROVE  Lines!Min(S) \in S /\ \A m \in S : Lines!Min(S) <= m
<1>1. PICK k \in S : \A m \in S : k <= m
  BY LeastOne
<1>2. Lines!Min(S) = k
  BY <1>1, MinIs
<1> QED BY <1>1, <1>2

(* The bytes of a line that are not space. *)
Ink(line) == {i \in 1 .. Len(line) : line[i] # "CR"}

LEMMA InkIs ==
    ASSUME NEW l \in Seq(Bytes)
    PROVE  /\ \A i \in 1 .. Len(l) : i \in Ink(l) <=> l[i] # "CR"
           /\ Ink(l) \in SUBSET (1 .. Len(l)) /\ Ink(l) \in SUBSET Nat
           /\ Ink(l) # {} => /\ Lines!Min(Ink(l)) \in 1 .. Len(l)
                             /\ Lines!Max(Ink(l)) \in 1 .. Len(l)
                             /\ Lines!Min(Ink(l)) <= Lines!Max(Ink(l))
<1>0. Len(l) \in Nat
  BY LenProperties
<1>1. /\ \A i \in 1 .. Len(l) : i \in Ink(l) <=> l[i] # "CR"
      /\ Ink(l) \in SUBSET (1 .. Len(l))
  BY Zenon DEF Ink
<1>2. Ink(l) \in SUBSET Nat
  BY <1>0, <1>1
<1>3. ASSUME Ink(l) # {}
      PROVE  /\ Lines!Min(Ink(l)) \in 1 .. Len(l) /\ Lines!Max(Ink(l)) \in 1 .. Len(l)
             /\ Lines!Min(Ink(l)) <= Lines!Max(Ink(l))
  <2>1. \A m \in Ink(l) : m <= Len(l)
    BY <1>0, <1>1
  <2>2. Lines!Max(Ink(l)) \in Ink(l)
    BY <1>0, <1>2, <1>3, <2>1, GreatestOne
  <2>3. Lines!Min(Ink(l)) \in Ink(l) /\ \A m \in Ink(l) : Lines!Min(Ink(l)) <= m
    BY <1>2, <1>3, LeastIs
  <2> QED BY <1>1, <2>2, <2>3
<1> QED BY <1>1, <1>2, <1>3

LEMMA TrimIs ==
    ASSUME NEW l
    PROVE  /\ Ink(l) = {} => Lines!Trim(l) = <<>>
           /\ Ink(l) # {} => Lines!Trim(l) = SubSeq(l, Lines!Min(Ink(l)), Lines!Max(Ink(l)))
BY Zenon DEF Lines!Trim, Ink

LEMMA TrimType ==
    ASSUME NEW l \in Seq(Bytes)
    PROVE  Lines!Trim(l) \in Seq(Bytes)
<1>1. CASE Ink(l) = {}
  BY <1>1, TrimIs, EmptySeq
<1>2. CASE Ink(l) # {}
  <2> DEFINE a == Lines!Min(Ink(l))
             n == Lines!Max(Ink(l))
  <2>1. Len(l) \in Nat /\ a \in 1 .. Len(l) /\ n \in 1 .. Len(l) /\ a <= n
    BY <1>2, InkIs, LenProperties
  <2>2. Lines!Trim(l) = SubSeq(l, a, n)
    BY <1>2, TrimIs
  <2> HIDE DEF a, n
  <2>3. a \in 1 .. Len(l) + 1 /\ n \in a - 1 .. Len(l)
    BY <2>1
  <2> QED BY <2>2, <2>3, PartIs
<1> QED BY <1>1, <1>2

(* A line without the carriage return of its end, if it has one. *)
LEMMA StripIs ==
    ASSUME NEW l \in Seq(Bytes)
    PROVE  /\ Lines!StripCarriageReturn(l) \in Seq(Bytes)
           /\ \/ Lines!StripCarriageReturn(l) = l
              \/ /\ Len(l) > 0 /\ l[Len(l)] = "CR"
                 /\ Lines!StripCarriageReturn(l) = Before(l, Len(l) - 1)
           /\ Lines!TooLong(l) <=> Len(Lines!StripCarriageReturn(l)) > MaxMessageBytes
<1>0. Len(l) \in Nat /\ (l # <<>> => Len(l) > 0)
  BY LenProperties, EmptySeq
<1>1. CASE l # <<>> /\ Lines!Last(l) = "CR"
  <2>1. Lines!StripCarriageReturn(l) = Before(l, Len(l) - 1)
    BY <1>1, Zenon DEF Lines!StripCarriageReturn, Lines!Front, Before
  <2>2. l[Len(l)] = "CR"
    BY <1>1, Zenon DEF Lines!Last
  <2>3. Len(l) - 1 \in 0 .. Len(l)
    BY <1>0, <1>1
  <2>4. Before(l, Len(l) - 1) \in Seq(Bytes) /\ Len(Before(l, Len(l) - 1)) = Len(l) - 1
    BY <2>3, BeforeIs
  <2>5. Lines!TooLong(l) <=> Len(l) - 1 > MaxMessageBytes
    BY <1>1 DEF Lines!TooLong
  <2> QED BY <1>0, <1>1, <2>1, <2>2, <2>4, <2>5
<1>2. CASE ~(l # <<>> /\ Lines!Last(l) = "CR")
  <2>1. Lines!StripCarriageReturn(l) = l
    BY <1>2, Zenon DEF Lines!StripCarriageReturn
  <2>2. Lines!TooLong(l) <=> Len(l) - 0 > MaxMessageBytes
    BY <1>2 DEF Lines!TooLong
  <2>3. Len(l) - 0 = Len(l)
    BY <1>0
  <2> QED BY <2>1, <2>2, <2>3
<1> QED BY <1>1, <1>2

(* It makes no difference to what the line says. *)
LEMMA StripSays ==
    ASSUME NEW l \in Seq(Bytes)
    PROVE  /\ Lines!Trim(Lines!StripCarriageReturn(l)) = Lines!Trim(l)
           /\ Lines!IsBlank(Lines!StripCarriageReturn(l)) <=> Lines!IsBlank(l)
           /\ Lines!IsMessage(Lines!StripCarriageReturn(l)) <=> Lines!IsMessage(l)
<1> DEFINE s == Lines!StripCarriageReturn(l)
<1>1. Lines!Trim(s) = Lines!Trim(l)
  <2>1. CASE s = l
    BY <2>1
  <2>2. CASE Len(l) > 0 /\ l[Len(l)] = "CR" /\ s = Before(l, Len(l) - 1)
    <3> DEFINE n == Len(l) - 1
    <3>0. Len(l) \in Nat /\ n \in 0 .. Len(l) /\ Len(l) = n + 1
      BY <2>2, LenProperties
    <3>1. s \in Seq(Bytes) /\ Len(s) = n /\ \A j \in 1 .. n : s[j] = l[j]
      <4>1. s = Before(l, n)
        BY <2>2
      <4> HIDE DEF s, n
      <4> QED BY <3>0, <4>1, BeforeIs
    <3> HIDE DEF s, n
    <3>2. Ink(s) = Ink(l)
      <4>1. /\ \A i \in 1 .. Len(l) : i \in Ink(l) <=> l[i] # "CR"
            /\ Ink(l) \in SUBSET (1 .. Len(l)) /\ Ink(l) \in SUBSET Nat
        BY InkIs
      <4>2. /\ \A i \in 1 .. n : i \in Ink(s) <=> s[i] # "CR"
            /\ Ink(s) \in SUBSET (1 .. n) /\ Ink(s) \in SUBSET Nat
        BY <3>1, InkIs
      <4>3. \A i \in Nat : i \in 1 .. Len(l) <=> i \in 1 .. n \/ i = Len(l)
        BY <3>0
      <4>4. Len(l) \notin 1 .. n
        BY <3>0
      <4>5. \A i \in Nat : i \in Ink(s) <=> i \in Ink(l)
        BY <2>2, <3>1, <4>1, <4>2, <4>3, <4>4
      <4> QED BY <4>1, <4>2, <4>5
    <3>3. CASE Ink(l) = {}
      BY <3>2, <3>3, TrimIs
    <3>4. CASE Ink(l) # {}
      <4> DEFINE a == Lines!Min(Ink(l))
                 b == Lines!Max(Ink(l))
      <4>1. a \in 1 .. n /\ b \in 1 .. n /\ a <= b
        BY <3>1, <3>2, <3>4, InkIs
      <4>2. Lines!Trim(l) = SubSeq(l, a, b) /\ Lines!Trim(s) = SubSeq(s, a, b)
        BY <3>2, <3>4, TrimIs
      <4> HIDE DEF a, b
      <4>3. /\ a \in 1 .. Len(l) + 1 /\ b \in a - 1 .. Len(l)
            /\ a \in 1 .. Len(s) + 1 /\ b \in a - 1 .. Len(s)
        BY <3>0, <3>1, <4>1
      <4>4. /\ SubSeq(l, a, b) \in Seq(Bytes) /\ Len(SubSeq(l, a, b)) = b - a + 1
            /\ \A i \in 1 .. b - a + 1 : SubSeq(l, a, b)[i] = l[a + i - 1]
        BY <4>3, PartIs
      <4>5. /\ SubSeq(s, a, b) \in Seq(Bytes) /\ Len(SubSeq(s, a, b)) = b - a + 1
            /\ \A i \in 1 .. b - a + 1 : SubSeq(s, a, b)[i] = s[a + i - 1]
        BY <3>1, <4>3, PartIs
      <4>6. \A i \in 1 .. b - a + 1 : s[a + i - 1] = l[a + i - 1]
        BY <3>0, <3>1, <4>1
      <4>7. SubSeq(l, a, b) = SubSeq(s, a, b)
        BY <4>4, <4>5, <4>6, SeqEqual
      <4> QED BY <4>2, <4>7
    <3> QED BY <3>3, <3>4
  <2> QED BY <2>1, <2>2, StripIs
<1>2. Lines!IsBlank(s) <=> Lines!IsBlank(l)
  BY <1>1, Zenon DEF Lines!IsBlank
<1>3. Lines!IsMessage(s) <=> Lines!IsMessage(l)
  BY <1>1, <1>2, Zenon DEF Lines!IsMessage
<1> QED BY <1>1, <1>2, <1>3

IsBad(l) == ~Lines!IsBlank(l) /\ ~Lines!IsMessage(l)

LEMMA OnesAre ==
    ASSUME NEW S, NEW ls \in Seq(S)
    PROVE  /\ \A i \in 1 .. Len(ls) : i \in Lines!GoodOnes(ls) <=> Lines!IsMessage(ls[i])
           /\ \A i \in 1 .. Len(ls) : i \in Lines!BadOnes(ls) <=> IsBad(ls[i])
           /\ Lines!GoodOnes(ls) \in SUBSET (1 .. Len(ls)) /\ Lines!GoodOnes(ls) \in SUBSET Nat
           /\ Lines!BadOnes(ls) \in SUBSET (1 .. Len(ls)) /\ Lines!BadOnes(ls) \in SUBSET Nat
           /\ IsFiniteSet(Lines!GoodOnes(ls)) /\ IsFiniteSet(Lines!BadOnes(ls))
<1>0. Len(ls) \in Nat
  BY LenProperties
<1>1. /\ \A i \in 1 .. Len(ls) : i \in Lines!GoodOnes(ls) <=> Lines!IsMessage(ls[i])
      /\ \A i \in 1 .. Len(ls) : i \in Lines!BadOnes(ls) <=> IsBad(ls[i])
      /\ Lines!GoodOnes(ls) \in SUBSET (1 .. Len(ls))
      /\ Lines!BadOnes(ls) \in SUBSET (1 .. Len(ls))
  BY Zenon DEF Lines!GoodOnes, Lines!BadOnes, IsBad
<1>2. Lines!GoodOnes(ls) \in SUBSET Nat /\ Lines!BadOnes(ls) \in SUBSET Nat
  BY <1>0, <1>1
<1>3. IsFiniteSet(1 .. Len(ls))
  BY <1>0, FS_Interval
<1>4. IsFiniteSet(Lines!GoodOnes(ls)) /\ IsFiniteSet(Lines!BadOnes(ls))
  BY <1>1, <1>3, FS_Subset
<1> QED BY <1>1, <1>2, <1>4

(* Of one line more there is one number more, or none. *)
LEMMA OnesOfOneMore ==
    ASSUME NEW S, NEW ls \in Seq(S), NEW l \in S
    PROVE  /\ Lines!GoodOnes(Append(ls, l)) =
                  IF Lines!IsMessage(l) THEN Lines!GoodOnes(ls) \cup {Len(ls) + 1}
                  ELSE Lines!GoodOnes(ls)
           /\ Lines!BadOnes(Append(ls, l)) =
                  IF IsBad(l) THEN Lines!BadOnes(ls) \cup {Len(ls) + 1} ELSE Lines!BadOnes(ls)
<1> DEFINE more == Append(ls, l)
           n == Len(ls)
<1>1. /\ n \in Nat /\ more \in Seq(S) /\ Len(more) = n + 1 /\ more[n + 1] = l
      /\ \A i \in 1 .. n : more[i] = ls[i]
  BY AppendProperties, LenProperties
<1> HIDE DEF more
<1>2. /\ \A i \in 1 .. n + 1 : i \in Lines!GoodOnes(more) <=> Lines!IsMessage(more[i])
      /\ \A i \in 1 .. n + 1 : i \in Lines!BadOnes(more) <=> IsBad(more[i])
      /\ Lines!GoodOnes(more) \in SUBSET (1 .. n + 1)
      /\ Lines!BadOnes(more) \in SUBSET (1 .. n + 1)
  BY <1>1, OnesAre
<1>3. /\ \A i \in 1 .. n : i \in Lines!GoodOnes(ls) <=> Lines!IsMessage(ls[i])
      /\ \A i \in 1 .. n : i \in Lines!BadOnes(ls) <=> IsBad(ls[i])
      /\ Lines!GoodOnes(ls) \in SUBSET (1 .. n) /\ Lines!BadOnes(ls) \in SUBSET (1 .. n)
  BY OnesAre
<1> HIDE DEF n
<1>4. /\ \A i \in 1 .. n + 1 : i \in 1 .. n \/ i = n + 1
      /\ \A i \in 1 .. n : i \in 1 .. n + 1
      /\ n + 1 \in 1 .. n + 1 /\ n + 1 \notin 1 .. n
  BY <1>1
<1>5. Lines!GoodOnes(more) = IF Lines!IsMessage(l) THEN Lines!GoodOnes(ls) \cup {n + 1}
                             ELSE Lines!GoodOnes(ls)
  <2>1. \A i \in 1 .. n : i \in Lines!GoodOnes(more) <=> i \in Lines!GoodOnes(ls)
    BY <1>1, <1>2, <1>3, <1>4
  <2>2. n + 1 \in Lines!GoodOnes(more) <=> Lines!IsMessage(l)
    BY <1>1, <1>2, <1>4
  <2>3. n + 1 \notin Lines!GoodOnes(ls)
    BY <1>3, <1>4
  <2> QED BY <1>2, <1>3, <1>4, <2>1, <2>2, <2>3, Zenon
<1>6. Lines!BadOnes(more) = IF IsBad(l) THEN Lines!BadOnes(ls) \cup {n + 1} ELSE Lines!BadOnes(ls)
  <2>1. \A i \in 1 .. n : i \in Lines!BadOnes(more) <=> i \in Lines!BadOnes(ls)
    BY <1>1, <1>2, <1>3, <1>4
  <2>2. n + 1 \in Lines!BadOnes(more) <=> IsBad(l)
    BY <1>1, <1>2, <1>4
  <2>3. n + 1 \notin Lines!BadOnes(ls)
    BY <1>3, <1>4
  <2> QED BY <1>2, <1>3, <1>4, <2>1, <2>2, <2>3, Zenon
<1> QED BY <1>5, <1>6 DEF n, more

LEMMA MessagesAre ==
    ASSUME NEW ls \in Seq(Seq(Bytes))
    PROVE  /\ Lines!MessagesOf(ls) \in Seq(Seq(Bytes))
           /\ Len(Lines!MessagesOf(ls)) = Cardinality(Lines!GoodOnes(ls))
           /\ Cardinality(Lines!GoodOnes(ls)) \in Nat
           /\ \A i \in 1 .. Cardinality(Lines!GoodOnes(ls)) :
                 /\ Lines!Nth(Lines!GoodOnes(ls), i) \in 1 .. Len(ls)
                 /\ Lines!MessagesOf(ls)[i] = Lines!Trim(ls[Lines!Nth(Lines!GoodOnes(ls), i)])
<1> DEFINE M == Lines!GoodOnes(ls)
           N == Cardinality(M)
           L == Lines!MessagesOf(ls)
<1>1. IsFiniteSet(M) /\ M \in SUBSET Nat /\ M \in SUBSET (1 .. Len(ls)) /\ N \in Nat
  BY OnesAre, FS_CardinalityType
<1>2. L = [i \in 1 .. N |-> Lines!Trim(ls[Lines!Nth(M, i)])]
  BY CardinalityIs, Zenon DEF Lines!MessagesOf
<1> HIDE DEF M, N, L
<1>3. \A i \in 1 .. N : Lines!Nth(M, i) \in 1 .. Len(ls)
  <2>1. \A i \in 1 .. N : Lines!Nth(M, i) \in M
    BY <1>1, NthExists DEF N
  <2> QED BY <1>1, <2>1
<1>4. \A i \in 1 .. N : Lines!Trim(ls[Lines!Nth(M, i)]) \in Seq(Bytes)
  <2>1. TAKE i \in 1 .. N
  <2>2. ls[Lines!Nth(M, i)] \in Seq(Bytes)
    BY <1>3, ElementOfSeq
  <2> QED BY <2>2, TrimType
<1>5. L \in [1 .. N -> Seq(Bytes)]
  BY <1>2, <1>4
<1>6. L \in Seq(Seq(Bytes)) /\ Len(L) = N
  BY <1>1, <1>5, FunctionIsSeq
<1> QED BY <1>1, <1>2, <1>3, <1>6 DEF M, N, L

(* One line more is one message more, without the space around it, or it   *)
(* is none.                                                                *)
LEMMA OneMoreMessage ==
    ASSUME NEW ls \in Seq(Seq(Bytes)), NEW l \in Seq(Bytes)
    PROVE  Lines!MessagesOf(Append(ls, l)) =
               IF Lines!IsMessage(l) THEN Append(Lines!MessagesOf(ls), Lines!Trim(l))
               ELSE Lines!MessagesOf(ls)
<1> DEFINE more == Append(ls, l)
           n == Len(ls)
           S == Lines!GoodOnes(ls)
           M == Lines!GoodOnes(more)
           K == Cardinality(S)
<1>1. /\ n \in Nat /\ more \in Seq(Seq(Bytes)) /\ Len(more) = n + 1 /\ more[n + 1] = l
      /\ \A i \in 1 .. n : more[i] = ls[i]
  BY AppendProperties, LenProperties
<1>2. /\ IsFiniteSet(S) /\ S \in SUBSET Nat /\ S \in SUBSET (1 .. n)
      /\ M = IF Lines!IsMessage(l) THEN S \cup {n + 1} ELSE S
  BY OnesAre, OnesOfOneMore
<1>3. /\ Lines!MessagesOf(ls) \in Seq(Seq(Bytes)) /\ Len(Lines!MessagesOf(ls)) = K /\ K \in Nat
      /\ \A i \in 1 .. K : /\ Lines!Nth(S, i) \in 1 .. n
                           /\ Lines!MessagesOf(ls)[i] = Lines!Trim(ls[Lines!Nth(S, i)])
  BY MessagesAre
<1>4. /\ Lines!MessagesOf(more) \in Seq(Seq(Bytes))
      /\ Len(Lines!MessagesOf(more)) = Cardinality(M)
      /\ \A i \in 1 .. Cardinality(M) :
            Lines!MessagesOf(more)[i] = Lines!Trim(more[Lines!Nth(M, i)])
  <2> HIDE DEF more
  <2> QED BY <1>1, MessagesAre
<1> HIDE DEF more, n, S, M, K
<1>5. CASE ~Lines!IsMessage(l)
  <2>1. M = S
    BY <1>2, <1>5
  <2>2. \A i \in 1 .. K : Lines!MessagesOf(more)[i] = Lines!MessagesOf(ls)[i]
    BY <1>1, <1>3, <1>4, <2>1 DEF K
  <2>3. Len(Lines!MessagesOf(more)) = Len(Lines!MessagesOf(ls))
    BY <1>3, <1>4, <2>1 DEF K
  <2>4. Lines!MessagesOf(more) = Lines!MessagesOf(ls)
    BY <1>3, <1>4, <2>2, <2>3, SeqEqual
  <2> QED BY <1>5, <2>4 DEF more
<1>6. CASE Lines!IsMessage(l)
  <2>1. M = S \cup {n + 1} /\ \A m \in S : m < n + 1
    BY <1>1, <1>2, <1>6
  <2>2. /\ Cardinality(M) = K + 1 /\ Lines!Nth(M, K + 1) = n + 1
        /\ \A i \in 1 .. K : Lines!Nth(M, i) = Lines!Nth(S, i)
    <3>1. n + 1 \in Nat
      BY <1>1
    <3>2. /\ Cardinality(S \cup {n + 1}) = Cardinality(S) + 1
          /\ \A i \in 1 .. Cardinality(S) : Lines!Nth(S \cup {n + 1}, i) = Lines!Nth(S, i)
          /\ Lines!Nth(S \cup {n + 1}, Cardinality(S) + 1) = n + 1
      BY <1>2, <2>1, <3>1, NthOfOneMore
    <3> QED BY <2>1, <3>2 DEF K
  <2>3. Lines!Trim(l) \in Seq(Bytes)
    BY TrimType
  <2>4. /\ Append(Lines!MessagesOf(ls), Lines!Trim(l)) \in Seq(Seq(Bytes))
        /\ Len(Append(Lines!MessagesOf(ls), Lines!Trim(l))) = K + 1
        /\ \A i \in 1 .. K : Append(Lines!MessagesOf(ls), Lines!Trim(l))[i] = Lines!MessagesOf(ls)[i]
        /\ Append(Lines!MessagesOf(ls), Lines!Trim(l))[K + 1] = Lines!Trim(l)
    BY <1>3, <2>3, AppendProperties
  <2>5. ASSUME NEW i \in 1 .. K
        PROVE  Lines!MessagesOf(more)[i] = Append(Lines!MessagesOf(ls), Lines!Trim(l))[i]
    <3>1. i \in 1 .. Cardinality(M)
      BY <1>3, <2>2
    <3>2. Lines!MessagesOf(more)[i] = Lines!Trim(more[Lines!Nth(S, i)])
      BY <1>4, <2>2, <3>1
    <3>3. more[Lines!Nth(S, i)] = ls[Lines!Nth(S, i)]
      BY <1>1, <1>3
    <3> QED BY <1>3, <2>4, <3>2, <3>3
  <2>6. Lines!MessagesOf(more)[K + 1] = Append(Lines!MessagesOf(ls), Lines!Trim(l))[K + 1]
    <3>1. K + 1 \in 1 .. Cardinality(M)
      BY <1>3, <2>2
    <3> QED BY <1>1, <1>4, <2>2, <2>4, <3>1
  <2>7. \A i \in 1 .. K + 1 :
            Lines!MessagesOf(more)[i] = Append(Lines!MessagesOf(ls), Lines!Trim(l))[i]
    BY <1>3, <2>5, <2>6
  <2>8. Lines!MessagesOf(more) = Append(Lines!MessagesOf(ls), Lines!Trim(l))
    BY <1>4, <2>2, <2>4, <2>7, SeqEqual
  <2> QED BY <1>6, <2>8 DEF more
<1> QED BY <1>5, <1>6

LEMMA OneMoreBad ==
    ASSUME NEW ls \in Seq(Seq(Bytes)), NEW l \in Seq(Bytes)
    PROVE  /\ Cardinality(Lines!BadOnes(ls)) \in Nat
           /\ Cardinality(Lines!BadOnes(Append(ls, l))) =
                  Cardinality(Lines!BadOnes(ls)) + (IF IsBad(l) THEN 1 ELSE 0)
<1>1. /\ IsFiniteSet(Lines!BadOnes(ls)) /\ Lines!BadOnes(ls) \in SUBSET (1 .. Len(ls))
      /\ Cardinality(Lines!BadOnes(ls)) \in Nat
  BY OnesAre, FS_CardinalityType
<1>2. Lines!BadOnes(Append(ls, l)) =
          IF IsBad(l) THEN Lines!BadOnes(ls) \cup {Len(ls) + 1} ELSE Lines!BadOnes(ls)
  BY OnesOfOneMore
<1>3. Len(ls) + 1 \notin Lines!BadOnes(ls)
  BY <1>1, LenProperties
<1>4. Cardinality(Lines!BadOnes(ls) \cup {Len(ls) + 1}) = Cardinality(Lines!BadOnes(ls)) + 1
  BY <1>1, <1>3, FS_AddElement
<1> QED BY <1>1, <1>2, <1>4

LEMMA AnswersOfOneMore ==
    ASSUME NEW S, NEW ws \in Seq(S), NEW w \in S
    PROVE  /\ Cardinality(Lines!Answers(ws)) \in Nat
           /\ Cardinality(Lines!Answers(Append(ws, w))) =
                  Cardinality(Lines!Answers(ws)) + (IF w = "answer" THEN 1 ELSE 0)
<1> DEFINE more == Append(ws, w)
           n == Len(ws)
<1>1. /\ n \in Nat /\ Len(more) = n + 1 /\ more[n + 1] = w
      /\ \A i \in 1 .. n : more[i] = ws[i]
  BY AppendProperties, LenProperties
<1> HIDE DEF more
<1>2. /\ \A i \in 1 .. n + 1 : i \in Lines!Answers(more) <=> more[i] = "answer"
      /\ Lines!Answers(more) \in SUBSET (1 .. n + 1)
  BY <1>1, Zenon DEF Lines!Answers
<1>3. /\ \A i \in 1 .. n : i \in Lines!Answers(ws) <=> ws[i] = "answer"
      /\ Lines!Answers(ws) \in SUBSET (1 .. n)
  BY Zenon DEF Lines!Answers
<1> HIDE DEF n
<1>4. /\ \A i \in 1 .. n + 1 : i \in 1 .. n \/ i = n + 1
      /\ \A i \in 1 .. n : i \in 1 .. n + 1
      /\ n + 1 \in 1 .. n + 1 /\ n + 1 \notin 1 .. n
  BY <1>1
<1>5. Lines!Answers(more) = IF w = "answer" THEN Lines!Answers(ws) \cup {n + 1}
                            ELSE Lines!Answers(ws)
  <2>1. \A i \in 1 .. n : i \in Lines!Answers(more) <=> i \in Lines!Answers(ws)
    BY <1>1, <1>2, <1>3, <1>4
  <2>2. n + 1 \in Lines!Answers(more) <=> w = "answer"
    BY <1>1, <1>2, <1>4
  <2>3. n + 1 \notin Lines!Answers(ws)
    BY <1>3, <1>4
  <2> QED BY <1>2, <1>3, <1>4, <2>1, <2>2, <2>3, Zenon
<1>6. IsFiniteSet(Lines!Answers(ws)) /\ Cardinality(Lines!Answers(ws)) \in Nat
  <2>1. IsFiniteSet(1 .. n)
    BY <1>1, FS_Interval
  <2> QED BY <1>3, <2>1, FS_Subset, FS_CardinalityType
<1>7. Cardinality(Lines!Answers(ws) \cup {n + 1}) = Cardinality(Lines!Answers(ws)) + 1
  <2>1. n + 1 \notin Lines!Answers(ws)
    BY <1>3, <1>4
  <2> QED BY <1>6, <2>1, FS_AddElement
<1> QED BY <1>5, <1>6, <1>7 DEF more

(* The lines that are not too long, and those before one that is.          *)
Fits(ls) == \A i \in 1 .. Len(ls) : ~Lines!TooLong(ls[i])

LEMMA AllAllowed ==
    ASSUME NEW ls \in Seq(Seq(Bytes)), Fits(ls)
    PROVE  Lines!Allowed(ls) = ls
<1> DEFINE T == {i \in 1 .. Len(ls) : Len(Lines!StripCarriageReturn(ls[i])) > MaxMessageBytes}
<1>1. \A i \in 1 .. Len(ls) : ~(Len(Lines!StripCarriageReturn(ls[i])) > MaxMessageBytes)
  <2>1. TAKE i \in 1 .. Len(ls)
  <2>2. ls[i] \in Seq(Bytes)
    BY ElementOfSeq
  <2>3. Lines!TooLong(ls[i]) <=> Len(Lines!StripCarriageReturn(ls[i])) > MaxMessageBytes
    BY <2>2, StripIs
  <2> QED BY <2>3 DEF Fits
<1>2. T = {}
  BY <1>1, Zenon
<1>3. Lines!Allowed(ls) = IF T = {} THEN ls ELSE SubSeq(ls, 1, Lines!Min(T) - 1)
  BY Zenon DEF Lines!Allowed
<1> QED BY <1>2, <1>3, Zenon

LEMMA PartAllowed ==
    ASSUME NEW ls \in Seq(Seq(Bytes)), Fits(ls), NEW all \in Seq(Seq(Bytes)),
           Len(ls) < Len(all), \A i \in 1 .. Len(ls) : all[i] = ls[i],
           Lines!TooLong(all[Len(ls) + 1])
    PROVE  Lines!Allowed(all) = ls /\ all # ls
<1> DEFINE n == Len(ls)
           T == {i \in 1 .. Len(all) : Len(Lines!StripCarriageReturn(all[i])) > MaxMessageBytes}
<1>0. n \in Nat /\ Len(all) \in Nat /\ n < Len(all)
  BY LenProperties
<1>1. \A i \in 1 .. Len(all) :
          Lines!TooLong(all[i]) <=> Len(Lines!StripCarriageReturn(all[i])) > MaxMessageBytes
  <2>1. TAKE i \in 1 .. Len(all)
  <2>2. all[i] \in Seq(Bytes)
    BY ElementOfSeq
  <2> QED BY <2>2, StripIs
<1>2. T \in SUBSET (1 .. Len(all)) /\ \A i \in 1 .. Len(all) : i \in T <=> Lines!TooLong(all[i])
  BY <1>1, Zenon
<1>3. \A i \in 1 .. n : i \in 1 .. Len(all) /\ ~Lines!TooLong(all[i])
  BY <1>0 DEF Fits
<1>4. Lines!Allowed(all) = IF T = {} THEN all ELSE SubSeq(all, 1, Lines!Min(T) - 1)
  BY Zenon DEF Lines!Allowed
<1> HIDE DEF T
<1>5. T \in SUBSET Nat /\ n + 1 \in T /\ \A m \in T : n + 1 <= m
  <2>1. n + 1 \in 1 .. Len(all) /\ \A i \in 1 .. Len(all) : i \in 1 .. n \/ n + 1 <= i
    BY <1>0
  <2>2. \A i \in 1 .. Len(all) : i \in Nat
    BY <1>0
  <2>3. n + 1 \in T
    BY <1>2, <2>1
  <2>4. \A m \in T : m \in 1 .. Len(all) /\ m \notin 1 .. n
    BY <1>2, <1>3, Zenon
  <2> QED BY <2>1, <2>2, <2>3, <2>4
<1>6. Lines!Min(T) = n + 1
  BY <1>5, MinIs
<1>7. Lines!Allowed(all) = SubSeq(all, 1, n)
  <2>1. (n + 1) - 1 = n /\ T # {}
    BY <1>0, <1>5
  <2> QED BY <1>4, <1>6, <2>1
<1>8. /\ SubSeq(all, 1, n) \in Seq(Seq(Bytes)) /\ Len(SubSeq(all, 1, n)) = n
      /\ \A i \in 1 .. n : SubSeq(all, 1, n)[i] = all[i]
  <2>1. \A i \in 1 .. n : all[i] \in Seq(Bytes)
    BY <1>3, ElementOfSeq
  <2>2. 1 \in Int /\ n \in Int /\ (IF 1 <= n THEN n - 1 + 1 ELSE 0) = n /\ n - 1 + 1 = n
    BY <1>0
  <2> HIDE DEF n
  <2>3. /\ SubSeq(all, 1, n) \in Seq(Seq(Bytes))
        /\ Len(SubSeq(all, 1, n)) = IF 1 <= n THEN n - 1 + 1 ELSE 0
        /\ \A i \in 1 .. n - 1 + 1 : SubSeq(all, 1, n)[i] = all[1 + i - 1]
    BY <2>1, <2>2, SubSeqProperties
  <2>4. \A i \in 1 .. n : 1 + i - 1 = i
    BY <1>0
  <2> QED BY <2>2, <2>3, <2>4
<1>9. SubSeq(all, 1, n) = ls
  BY <1>8, SeqEqual
<1> QED BY <1>0, <1>7, <1>9

-----------------------------------------------------------------------------
(* The inductive invariant of NdJsonStream.                                *)

(* What is behind the first k bytes: those of the incomplete line and then *)
(* those of the chunk.                                                     *)
Behind(k) ==
    /\ Len(taken) = k + Len(pending) + Len(chunk)
    /\ \A i \in 1 .. Len(pending) : pending[i] = taken[k + i] /\ pending[i] # "LF"
    /\ \A i \in 1 .. Len(chunk) : chunk[i] = taken[k + Len(pending) + i]

(* The messages and the answers are those of these lines.                  *)
Done(ls) ==
    /\ Fits(ls)
    /\ messages = Lines!MessagesOf(ls)
    /\ answers = Cardinality(Lines!BadOnes(ls))

(* While the stream has no end, the lines up to a newline are done. *)
IsGoingOn == loop \in {"reading", "splitting"} \/ (loop = "answering" /\ ~last)

InTheMiddle ==
    IsGoingOn =>
        /\ ~Lines!TooLong(pending)
        /\ \E k \in 0 .. Len(taken) :
              /\ k = 0 \/ taken[k] = "LF"
              /\ Behind(k)
              /\ Done(Lines!LinesOf(Before(taken, k)))

AllLines == Append(Lines!LinesOf(taken), Lines!RestOf(taken))

(* At its end they all are. *)
IsEnding ==
    loop = "flushing" \/ (loop = "answering" /\ last) \/ (lineReadable = "closed" /\ ~cancelled)

AtTheEnd == IsEnding => Done(AllLines)

(* An error that comes from nowhere else is that of a line. *)
IsErrored == lineReadable = "errored" /\ ~cancelled /\ input # "failed" /\ output = "good"

AtAnError ==
    IsErrored =>
        /\ AllLines # Lines!Allowed(AllLines)
        /\ messages = Lines!MessagesOf(Lines!Allowed(AllLines))

(* How the loop and the ends of the stream fit. *)
LoopFits ==
    /\ last => loop \in {"answering", "flushing", "over"}
    /\ loop = "reading" => chunk = <<>>
    /\ cancelled => lineReadable = "closed"
    /\ ~cancelled => (loop = "over" <=> lineReadable # "open")

(* The loop waits for an answer when one is to be written, which is one at *)
(* a time; the others were.                                                *)
AnswersFit ==
    /\ \A i, j \in 1 .. Len(writes) : writes[i] = "answer" /\ writes[j] = "answer" => i = j
    /\ loop = "answering" <=> \E i \in 1 .. Len(writes) : writes[i] = "answer"
    /\ loop # "over" =>
           answers = Cardinality(Lines!Answers(linesWritten)) + (IF loop = "answering" THEN 1 ELSE 0)

LinesInv ==
    /\ Lines!TypeOK
    /\ LoopFits /\ AnswersFit
    /\ InTheMiddle /\ AtTheEnd /\ AtAnError

-----------------------------------------------------------------------------
(* Where the bytes of the next line are.                                   *)

LEMMA FirstNewline ==
    ASSUME NEW c \in Seq(Bytes), Lines!HasLine(c)
    PROVE  \E p \in 1 .. Len(c) :
              /\ c[p] = "LF" /\ \A i \in 1 .. p - 1 : c[i] # "LF"
              /\ \A q : Lines!NextLine(q, c) = q \o SubSeq(c, 1, p - 1)
              /\ Lines!AfterLine(c) = SubSeq(c, p + 1, Len(c))
<1> DEFINE I == {i \in 1 .. Len(c) : c[i] = "LF"}
           p == Lines!Min(I)
<1>0. Len(c) \in Nat
  BY LenProperties
<1>1. I # {} /\ I \in SUBSET (1 .. Len(c)) /\ \A i \in 1 .. Len(c) : i \in I <=> c[i] = "LF"
  <2>1. \E i \in 1 .. Len(c) : c[i] = "LF"
    BY Zenon DEF Lines!HasLine, Lines!Contains
  <2>2. I # {}
    BY <2>1
  <2> QED BY <2>2, Zenon
<1>2. Lines!SelectInSeq(c, LAMBDA b : b = "LF") = p
  BY <1>1 DEF Lines!SelectInSeq
<1>3. /\ \A q : Lines!NextLine(q, c) =
               q \o SubSeq(c, 1, Lines!SelectInSeq(c, LAMBDA b : b = "LF") - 1)
      /\ Lines!AfterLine(c) =
               SubSeq(c, Lines!SelectInSeq(c, LAMBDA b : b = "LF") + 1, Len(c))
  BY DEF Lines!NextLine, Lines!AfterLine
<1>4. /\ \A q : Lines!NextLine(q, c) = q \o SubSeq(c, 1, p - 1)
      /\ Lines!AfterLine(c) = SubSeq(c, p + 1, Len(c))
  BY <1>2, <1>3
<1> HIDE DEF I
<1>5. p \in I /\ \A m \in I : p <= m
  <2>1. I \in SUBSET Nat
    BY <1>0, <1>1
  <2> QED BY <1>1, <2>1, LeastIs
<1> HIDE DEF p
<1>6. \A i \in 1 .. p - 1 : c[i] # "LF"
  BY <1>0, <1>1, <1>5
<1>7. p \in 1 .. Len(c) /\ c[p] = "LF"
  BY <1>1, <1>5
<1> QED BY <1>4, <1>6, <1>7

(* A line that ends in the chunk: what it is, and what remains behind it.  *)
LEMMA NextLineIs ==
    ASSUME Lines!TypeOK, NEW k \in 0 .. Len(taken), Behind(k), Lines!HasLine(chunk)
    PROVE  \E n \in k .. Len(taken) :
              /\ n + 1 \in 0 .. Len(taken) /\ n + 1 <= Len(taken) /\ taken[n + 1] = "LF"
              /\ \A i \in k + 1 .. n : taken[i] # "LF"
              /\ Lines!NextLine(pending, chunk) = SubSeq(taken, k + 1, n)
              /\ Lines!AfterLine(chunk) \in Seq(Bytes)
              /\ Len(taken) = (n + 1) + Len(Lines!AfterLine(chunk))
              /\ \A i \in 1 .. Len(Lines!AfterLine(chunk)) :
                    Lines!AfterLine(chunk)[i] = taken[(n + 1) + i]
<1>0. pending \in Seq(Bytes) /\ chunk \in Seq(Bytes) /\ taken \in Seq(Bytes)
  BY DEF Lines!TypeOK, Bytes
<1>1. Len(pending) \in Nat /\ Len(chunk) \in Nat /\ Len(taken) \in Nat /\ k \in Nat
  BY <1>0, LenProperties
<1>2. PICK p \in 1 .. Len(chunk) :
              /\ chunk[p] = "LF" /\ \A i \in 1 .. p - 1 : chunk[i] # "LF"
              /\ \A q : Lines!NextLine(q, chunk) = q \o SubSeq(chunk, 1, p - 1)
              /\ Lines!AfterLine(chunk) = SubSeq(chunk, p + 1, Len(chunk))
  BY <1>0, FirstNewline
<1> DEFINE P == Len(pending)
           n == k + P + p - 1
           head == SubSeq(chunk, 1, p - 1)
           after == SubSeq(chunk, p + 1, Len(chunk))
           line == SubSeq(taken, k + 1, n)
<1>3. /\ Len(taken) = k + P + Len(chunk)
      /\ \A i \in 1 .. P : pending[i] = taken[k + i] /\ pending[i] # "LF"
      /\ \A i \in 1 .. Len(chunk) : chunk[i] = taken[k + P + i]
  BY DEF Behind
<1>4. /\ head \in Seq(Bytes) /\ Len(head) = p - 1 /\ \A i \in 1 .. p - 1 : head[i] = chunk[i]
  <2>1. p - 1 \in 0 .. Len(chunk)
    BY <1>1
  <2> QED BY <1>0, <2>1, BeforeIs, Zenon DEF Before
<1>5. /\ after \in Seq(Bytes) /\ Len(after) = Len(chunk) - p
      /\ \A i \in 1 .. Len(chunk) - p : after[i] = chunk[p + i]
  <2>1. p + 1 \in 1 .. Len(chunk) + 1 /\ Len(chunk) \in (p + 1) - 1 .. Len(chunk)
        /\ Len(chunk) - (p + 1) + 1 = Len(chunk) - p
    BY <1>1
  <2> HIDE DEF after
  <2>2. /\ after \in Seq(Bytes) /\ Len(after) = Len(chunk) - (p + 1) + 1
        /\ \A i \in 1 .. Len(chunk) - (p + 1) + 1 : after[i] = chunk[(p + 1) + i - 1]
    BY <1>0, <2>1, PartIs DEF after
  <2>3. \A i \in 1 .. Len(chunk) - p : (p + 1) + i - 1 = p + i
    BY <1>1
  <2> QED BY <2>1, <2>2, <2>3
<1>6. n \in k .. Len(taken) /\ n + 1 \in 0 .. Len(taken) /\ n + 1 <= Len(taken)
      /\ n + 1 = k + P + p
  BY <1>1, <1>3
<1>7. taken[n + 1] = "LF"
  BY <1>2, <1>3, <1>6
<1>8. /\ line \in Seq(Bytes) /\ Len(line) = P + (p - 1)
      /\ \A i \in 1 .. P + (p - 1) : line[i] = taken[k + i]
  <2>1. k + 1 \in 1 .. Len(taken) + 1 /\ n \in (k + 1) - 1 .. Len(taken)
        /\ n - (k + 1) + 1 = P + (p - 1)
    BY <1>1, <1>6
  <2> HIDE DEF line, n
  <2>2. /\ line \in Seq(Bytes) /\ Len(line) = n - (k + 1) + 1
        /\ \A i \in 1 .. n - (k + 1) + 1 : line[i] = taken[(k + 1) + i - 1]
    BY <1>0, <2>1, PartIs DEF line
  <2>3. \A i \in 1 .. P + (p - 1) : (k + 1) + i - 1 = k + i
    BY <1>1
  <2> QED BY <2>1, <2>2, <2>3
<1> DEFINE both == pending \o head
<1>9. /\ both \in Seq(Bytes) /\ Len(both) = P + (p - 1)
      /\ \A i \in 1 .. P + (p - 1) : both[i] = IF i <= P THEN pending[i] ELSE head[i - P]
  <2> HIDE DEF head
  <2> QED BY <1>0, <1>4, ConcatProperties
<1>10. both = line
  <2> HIDE DEF both, line, head, n
  <2>1. ASSUME NEW i \in 1 .. P + (p - 1) PROVE both[i] = line[i]
    <3>1. CASE i <= P
      <4>1. i \in 1 .. P
        BY <1>1, <3>1
      <4> QED BY <1>3, <1>8, <1>9, <3>1, <4>1
    <3>2. CASE ~(i <= P)
      <4>1. i - P \in 1 .. p - 1 /\ i - P \in 1 .. Len(chunk) /\ k + P + (i - P) = k + i
        BY <1>1, <3>2
      <4>2. both[i] = chunk[i - P]
        BY <1>4, <1>9, <3>2, <4>1
      <4>3. chunk[i - P] = taken[k + P + (i - P)]
        BY <1>3, <4>1
      <4> QED BY <1>8, <4>1, <4>2, <4>3
    <3> QED BY <3>1, <3>2
  <2> QED BY <1>8, <1>9, <2>1, SeqEqual
<1>11. \A i \in k + 1 .. n : taken[i] # "LF"
  <2>1. TAKE i \in k + 1 .. n
  <2>2. CASE i <= k + P
    <3>1. i - k \in 1 .. P /\ k + (i - k) = i
      BY <1>1, <2>2
    <3> QED BY <1>3, <3>1
  <2>3. CASE ~(i <= k + P)
    <3>1. i - (k + P) \in 1 .. p - 1 /\ i - (k + P) \in 1 .. Len(chunk)
          /\ k + P + (i - (k + P)) = i
      BY <1>1, <2>3
    <3> QED BY <1>2, <1>3, <3>1
  <2> QED BY <2>2, <2>3
<1>12. Len(taken) = (n + 1) + Len(after)
       /\ \A i \in 1 .. Len(after) : after[i] = taken[(n + 1) + i]
  <2>1. Len(taken) = (n + 1) + Len(after)
    <3>1. Len(after) = Len(chunk) - p /\ Len(taken) = k + P + Len(chunk) /\ n + 1 = k + P + p
      BY <1>3, <1>5, <1>6
    <3>2. p \in Nat /\ P \in Nat
      BY <1>1
    <3> HIDE DEF after, n, P
    <3>3. k + P + Len(chunk) = (k + P + p) + (Len(chunk) - p)
      BY <1>1, <3>2
    <3> QED BY <3>1, <3>3
  <2>2. ASSUME NEW i \in 1 .. Len(after) PROVE after[i] = taken[(n + 1) + i]
    <3>1. p + i \in 1 .. Len(chunk) /\ k + P + (p + i) = (n + 1) + i /\ i \in 1 .. Len(chunk) - p
      BY <1>1, <1>5, <1>6
    <3> HIDE DEF after, n
    <3> QED BY <1>3, <1>5, <3>1
  <2> QED BY <2>1, <2>2
<1>13. Lines!NextLine(pending, chunk) = line /\ Lines!AfterLine(chunk) = after
  BY <1>2, <1>10
<1> HIDE DEF n, line, after
<1>14. /\ Lines!AfterLine(chunk) \in Seq(Bytes)
       /\ Len(taken) = (n + 1) + Len(Lines!AfterLine(chunk))
       /\ \A i \in 1 .. Len(Lines!AfterLine(chunk)) :
             Lines!AfterLine(chunk)[i] = taken[(n + 1) + i]
  BY <1>5, <1>12, <1>13
<1>15. Lines!NextLine(pending, chunk) = SubSeq(taken, k + 1, n)
  BY <1>13 DEF line
<1> QED BY <1>6, <1>7, <1>11, <1>14, <1>15

(* One that does not is all that remains. *)
LEMMA RestIs ==
    ASSUME Lines!TypeOK, NEW k \in 0 .. Len(taken), Behind(k), ~Lines!HasLine(chunk)
    PROVE  /\ \A i \in k + 1 .. Len(taken) : taken[i] # "LF"
           /\ Lines!NextLine(pending, chunk) = SubSeq(taken, k + 1, Len(taken))
<1>0. pending \in Seq(Bytes) /\ chunk \in Seq(Bytes) /\ taken \in Seq(Bytes)
  BY DEF Lines!TypeOK, Bytes
<1>1. Len(pending) \in Nat /\ Len(chunk) \in Nat /\ Len(taken) \in Nat /\ k \in Nat
  BY <1>0, LenProperties
<1> DEFINE P == Len(pending)
           n == Len(taken)
           line == SubSeq(taken, k + 1, n)
           both == pending \o chunk
<1>2. /\ n = k + P + Len(chunk)
      /\ \A i \in 1 .. P : pending[i] = taken[k + i] /\ pending[i] # "LF"
      /\ \A i \in 1 .. Len(chunk) : chunk[i] = taken[k + P + i]
  BY DEF Behind
<1>3. \A i \in 1 .. Len(chunk) : chunk[i] # "LF"
  BY Zenon DEF Lines!HasLine, Lines!Contains
<1>4. Lines!NextLine(pending, chunk) = both
  BY Zenon DEF Lines!NextLine
<1>5. \A i \in k + 1 .. n : taken[i] # "LF"
  <2>1. TAKE i \in k + 1 .. n
  <2>2. CASE i <= k + P
    <3>1. i - k \in 1 .. P /\ k + (i - k) = i
      BY <1>1, <2>2
    <3> QED BY <1>2, <3>1
  <2>3. CASE ~(i <= k + P)
    <3>1. i - (k + P) \in 1 .. Len(chunk) /\ k + P + (i - (k + P)) = i
      BY <1>1, <1>2, <2>3
    <3> QED BY <1>2, <1>3, <3>1
  <2> QED BY <2>2, <2>3
<1>6. /\ line \in Seq(Bytes) /\ Len(line) = P + Len(chunk)
      /\ \A i \in 1 .. P + Len(chunk) : line[i] = taken[k + i]
  <2>1. k + 1 \in 1 .. n + 1 /\ n \in (k + 1) - 1 .. n /\ n - (k + 1) + 1 = P + Len(chunk)
    BY <1>1, <1>2
  <2> HIDE DEF line
  <2>2. /\ line \in Seq(Bytes) /\ Len(line) = n - (k + 1) + 1
        /\ \A i \in 1 .. n - (k + 1) + 1 : line[i] = taken[(k + 1) + i - 1]
    BY <1>0, <2>1, PartIs DEF line
  <2>3. \A i \in 1 .. P + Len(chunk) : (k + 1) + i - 1 = k + i
    BY <1>1
  <2> QED BY <2>1, <2>2, <2>3
<1>7. /\ both \in Seq(Bytes) /\ Len(both) = P + Len(chunk)
      /\ \A i \in 1 .. P + Len(chunk) : both[i] = IF i <= P THEN pending[i] ELSE chunk[i - P]
  BY <1>0, ConcatProperties
<1>8. both = line
  <2> HIDE DEF both, line, n
  <2>1. ASSUME NEW i \in 1 .. P + Len(chunk) PROVE both[i] = line[i]
    <3>1. CASE i <= P
      <4>1. i \in 1 .. P
        BY <1>1, <3>1
      <4> QED BY <1>2, <1>6, <1>7, <3>1, <4>1
    <3>2. CASE ~(i <= P)
      <4>1. i - P \in 1 .. Len(chunk) /\ k + P + (i - P) = k + i
        BY <1>1, <3>2
      <4>2. both[i] = chunk[i - P]
        BY <1>7, <3>2
      <4>3. chunk[i - P] = taken[k + P + (i - P)]
        BY <1>2, <4>1
      <4> QED BY <1>6, <4>1, <4>2, <4>3
    <3> QED BY <3>1, <3>2
  <2> QED BY <1>6, <1>7, <2>1, SeqEqual
<1> QED BY <1>4, <1>5, <1>8

-----------------------------------------------------------------------------
(* What the end of the input and an overlong line come to.                 *)

LEMMA TypesOfLines ==
    ASSUME Lines!TypeOK
    PROVE  /\ taken \in Seq(Bytes) /\ pending \in Seq(Bytes) /\ chunk \in Seq(Bytes)
           /\ writes \in Seq({"answer", "message"}) /\ linesWritten \in Seq({"answer", "message"})
           /\ Len(taken) \in Nat /\ Len(pending) \in Nat /\ Len(chunk) \in Nat
           /\ Lines!LinesOf(taken) \in Seq(Seq(Bytes)) /\ Lines!RestOf(taken) \in Seq(Bytes)
           /\ AllLines \in Seq(Seq(Bytes)) /\ Len(AllLines) = Len(Lines!LinesOf(taken)) + 1
           /\ AllLines[Len(Lines!LinesOf(taken)) + 1] = Lines!RestOf(taken)
           /\ \A i \in 1 .. Len(Lines!LinesOf(taken)) : AllLines[i] = Lines!LinesOf(taken)[i]
<1>1. /\ taken \in Seq(Bytes) /\ pending \in Seq(Bytes) /\ chunk \in Seq(Bytes)
      /\ writes \in Seq({"answer", "message"}) /\ linesWritten \in Seq({"answer", "message"})
  BY DEF Lines!TypeOK, Bytes
<1>2. Len(taken) \in Nat /\ Len(pending) \in Nat /\ Len(chunk) \in Nat
  BY <1>1, LenProperties
<1>3. Lines!LinesOf(taken) \in Seq(Seq(Bytes))
  BY <1>1, LinesAre
<1>4. Lines!RestOf(taken) \in Seq(Bytes)
  <2>1. Len(taken) \in 0 .. Len(taken) /\ Len(taken) + 1 \in 1 .. Len(taken) + 1
    BY <1>2
  <2>2. Lines!LineEndingAt(taken, Len(taken) + 1) \in Seq(Bytes)
    BY <1>1, <2>1, EndingStays
  <2> QED BY <2>2, Zenon DEF Lines!RestOf
<1>5. /\ AllLines \in Seq(Seq(Bytes)) /\ Len(AllLines) = Len(Lines!LinesOf(taken)) + 1
      /\ AllLines[Len(Lines!LinesOf(taken)) + 1] = Lines!RestOf(taken)
      /\ \A i \in 1 .. Len(Lines!LinesOf(taken)) : AllLines[i] = Lines!LinesOf(taken)[i]
  BY <1>3, <1>4, AppendProperties DEF AllLines
<1> QED BY <1>1, <1>2, <1>3, <1>4, <1>5

LEMMA BeforeAll ==
    ASSUME NEW u \in Seq(Bytes)
    PROVE  Before(u, Len(u)) = u
BY SubSeqFull DEF Before

(* Behind the last newline there is no line but the rest. *)
LEMMA RestOfAll ==
    ASSUME Lines!TypeOK, NEW k \in 0 .. Len(taken), k = 0 \/ taken[k] = "LF",
           \A i \in k + 1 .. Len(taken) : taken[i] # "LF"
    PROVE  /\ Lines!LinesOf(taken) = Lines!LinesOf(Before(taken, k))
           /\ Lines!RestOf(taken) = SubSeq(taken, k + 1, Len(taken))
<1>1. taken \in Seq(Bytes) /\ Len(taken) \in Nat
  BY TypesOfLines
<1>2. Len(taken) \in 0 .. Len(taken) /\ Len(taken) \in k .. Len(taken) /\ k \in 0 .. Len(taken)
  BY <1>1
<1>3. Lines!LinesOf(Before(taken, Len(taken))) = Lines!LinesOf(Before(taken, k))
  BY <1>1, <1>2, NoMoreLines
<1>4. Lines!LineEndingAt(taken, Len(taken) + 1) = SubSeq(taken, k + 1, Len(taken))
  BY <1>1, <1>2, EndingIs
<1> QED BY <1>1, <1>3, <1>4, BeforeAll DEF Lines!RestOf

(* The line that the loop looks at is the next one. *)
LEMMA NextOfAll ==
    ASSUME Lines!TypeOK, NEW k \in 0 .. Len(taken), k = 0 \/ taken[k] = "LF", Behind(k)
    PROVE  LET n == Len(Lines!LinesOf(Before(taken, k)))
           IN  /\ Lines!LinesOf(Before(taken, k)) \in Seq(Seq(Bytes))
               /\ Lines!NextLine(pending, chunk) \in Seq(Bytes)
               /\ n < Len(AllLines) /\ AllLines[n + 1] = Lines!NextLine(pending, chunk)
               /\ \A i \in 1 .. n : AllLines[i] = Lines!LinesOf(Before(taken, k))[i]
<1> DEFINE ls == Lines!LinesOf(Before(taken, k))
           line == Lines!NextLine(pending, chunk)
           all == Lines!LinesOf(taken)
<1>0. /\ taken \in Seq(Bytes) /\ Len(taken) \in Nat /\ all \in Seq(Seq(Bytes))
      /\ Len(AllLines) = Len(all) + 1
      /\ AllLines[Len(all) + 1] = Lines!RestOf(taken)
      /\ \A i \in 1 .. Len(all) : AllLines[i] = all[i]
      /\ Lines!RestOf(taken) \in Seq(Bytes)
  BY TypesOfLines
<1>1. ls \in Seq(Seq(Bytes)) /\ Len(ls) \in Nat /\ Len(all) \in Nat
  <2>1. Before(taken, k) \in Seq(Bytes)
    BY <1>0, BeforeIs
  <2>2. ls \in Seq(Seq(Bytes))
    BY <2>1, LinesAre
  <2> QED BY <1>0, <2>2, LenProperties
<1>2. CASE Lines!HasLine(chunk)
  <2>1. PICK n \in k .. Len(taken) :
              /\ n + 1 \in 0 .. Len(taken) /\ n + 1 <= Len(taken) /\ taken[n + 1] = "LF"
              /\ \A i \in k + 1 .. n : taken[i] # "LF"
              /\ Lines!NextLine(pending, chunk) = SubSeq(taken, k + 1, n)
    BY <1>2, NextLineIs
  <2> DEFINE next == Lines!LinesOf(Before(taken, n + 1))
  <2>2. next = Append(ls, line)
    BY <1>0, <2>1, OneMoreLine
  <2>3. line \in Seq(Bytes)
    <3>1. k + 1 \in 1 .. Len(taken) + 1 /\ n \in (k + 1) - 1 .. Len(taken)
      BY <1>0
    <3> QED BY <1>0, <2>1, <3>1, PartIs
  <2>4. /\ Len(next) <= Len(all)
        /\ \A i \in 1 .. Len(next) : all[i] = next[i]
    BY <1>0, <2>1, LinesStay
  <2> HIDE DEF next, ls, line, all
  <2>5. /\ Len(next) = Len(ls) + 1 /\ next[Len(ls) + 1] = line
        /\ \A i \in 1 .. Len(ls) : next[i] = ls[i]
    BY <1>1, <2>2, <2>3, AppendProperties
  <2>6. Len(ls) + 1 <= Len(all) /\ Len(ls) + 1 \in 1 .. Len(next) /\ Len(ls) + 1 \in 1 .. Len(all)
    BY <1>1, <2>4, <2>5
  <2>7. AllLines[Len(ls) + 1] = line /\ Len(ls) < Len(AllLines)
    BY <1>0, <1>1, <2>4, <2>5, <2>6
  <2>8. ASSUME NEW i \in 1 .. Len(ls) PROVE AllLines[i] = ls[i]
    <3>1. i \in 1 .. Len(next) /\ i \in 1 .. Len(all)
      BY <1>1, <2>5, <2>6
    <3> QED BY <1>0, <2>4, <2>5, <3>1
  <2> QED BY <1>1, <2>3, <2>7, <2>8 DEF ls, line
<1>3. CASE ~Lines!HasLine(chunk)
  <2>1. /\ \A i \in k + 1 .. Len(taken) : taken[i] # "LF"
        /\ line = SubSeq(taken, k + 1, Len(taken))
    BY <1>3, RestIs
  <2>2. all = ls /\ Lines!RestOf(taken) = line
    BY <2>1, RestOfAll
  <2> HIDE DEF ls, line, all
  <2>3. AllLines[Len(ls) + 1] = line /\ Len(ls) < Len(AllLines) /\ line \in Seq(Bytes)
    BY <1>0, <1>1, <2>2
  <2>4. \A i \in 1 .. Len(ls) : AllLines[i] = ls[i]
    BY <1>0, <2>2
  <2> QED BY <1>1, <2>3, <2>4 DEF ls, line
<1> QED BY <1>2, <1>3

LEMMA OverlongEnds ==
    ASSUME Lines!TypeOK, NEW k \in 0 .. Len(taken), k = 0 \/ taken[k] = "LF", Behind(k),
           Done(Lines!LinesOf(Before(taken, k))), Lines!TooLong(Lines!NextLine(pending, chunk))
    PROVE  /\ AllLines # Lines!Allowed(AllLines)
           /\ messages = Lines!MessagesOf(Lines!Allowed(AllLines))
<1> DEFINE ls == Lines!LinesOf(Before(taken, k))
           line == Lines!NextLine(pending, chunk)
<1>1. /\ ls \in Seq(Seq(Bytes)) /\ Len(ls) < Len(AllLines) /\ AllLines[Len(ls) + 1] = line
      /\ \A i \in 1 .. Len(ls) : AllLines[i] = ls[i]
  BY NextOfAll
<1>2. AllLines \in Seq(Seq(Bytes)) /\ Fits(ls) /\ messages = Lines!MessagesOf(ls)
  BY TypesOfLines DEF Done
<1>3. Lines!TooLong(AllLines[Len(ls) + 1])
  BY <1>1
<1> HIDE DEF ls, line
<1>4. Lines!Allowed(AllLines) = ls /\ AllLines # ls
  BY <1>1, <1>2, <1>3, PartAllowed
<1> QED BY <1>2, <1>4

(* At the end what is pending is the last line. *)
LEMMA PendingIsTheRest ==
    ASSUME Lines!TypeOK, NEW k \in 0 .. Len(taken), k = 0 \/ taken[k] = "LF", Behind(k),
           chunk = <<>>
    PROVE  /\ AllLines = Append(Lines!LinesOf(Before(taken, k)), pending)
           /\ Lines!LinesOf(taken) = Lines!LinesOf(Before(taken, k))
           /\ Lines!LinesOf(taken) \in Seq(Seq(Bytes))
<1>1. pending \in Seq(Bytes) /\ Lines!LinesOf(taken) \in Seq(Seq(Bytes))
  BY TypesOfLines
<1>2. ~Lines!HasLine(chunk)
  <2>1. 1 .. Len(chunk) = {}
    BY EmptySeq
  <2> QED BY <2>1, Zenon DEF Lines!HasLine, Lines!Contains
<1>3. Lines!NextLine(pending, chunk) = pending
  <2>1. Lines!NextLine(pending, chunk) = pending \o chunk
    BY <1>2, Zenon DEF Lines!NextLine
  <2>2. pending \o <<>> = pending
    BY <1>1, ConcatEmptySeq
  <2> QED BY <2>1, <2>2
<1>4. /\ \A i \in k + 1 .. Len(taken) : taken[i] # "LF"
      /\ pending = SubSeq(taken, k + 1, Len(taken))
  BY <1>2, <1>3, RestIs
<1>5. /\ Lines!LinesOf(taken) = Lines!LinesOf(Before(taken, k))
      /\ Lines!RestOf(taken) = pending
  BY <1>4, RestOfAll
<1> QED BY <1>1, <1>5 DEF AllLines

LEMMA FitsOneMore ==
    ASSUME NEW S, NEW ls \in Seq(S), NEW l \in S, Fits(ls), ~Lines!TooLong(l)
    PROVE  Fits(Append(ls, l))
<1>1. /\ Len(ls) \in Nat /\ Len(Append(ls, l)) = Len(ls) + 1 /\ Append(ls, l)[Len(ls) + 1] = l
      /\ \A i \in 1 .. Len(ls) : Append(ls, l)[i] = ls[i]
  BY AppendProperties, LenProperties
<1>2. \A i \in 1 .. Len(ls) + 1 : i \in 1 .. Len(ls) \/ i = Len(ls) + 1
  BY <1>1
<1> QED BY <1>1, <1>2 DEF Fits

(* A line that is enqueued is done. *)
LEMMA EnqueueDoes ==
    ASSUME NEW ls \in Seq(Seq(Bytes)), NEW l \in Seq(Bytes), NEW goesOn,
           Done(ls), ~Lines!TooLong(l),
           Lines!EnqueueLine(Lines!StripCarriageReturn(l), goesOn)
    PROVE  /\ Fits(Append(ls, l))
           /\ messages' = Lines!MessagesOf(Append(ls, l))
           /\ answers' = Cardinality(Lines!BadOnes(Append(ls, l)))
           /\ \/ loop' = goesOn /\ answers' = answers /\ writes' = writes
              \/ loop' = "answering" /\ answers' = answers + 1 /\ writes' = Append(writes, "answer")
<1> DEFINE s == Lines!StripCarriageReturn(l)
<1>1. /\ Lines!Trim(s) = Lines!Trim(l)
      /\ Lines!IsBlank(s) <=> Lines!IsBlank(l)
      /\ Lines!IsMessage(s) <=> Lines!IsMessage(l)
  BY StripSays
<1>2. /\ Fits(ls) /\ messages = Lines!MessagesOf(ls)
      /\ answers = Cardinality(Lines!BadOnes(ls)) /\ answers \in Nat
      /\ Cardinality(Lines!BadOnes(Append(ls, l))) = answers + (IF IsBad(l) THEN 1 ELSE 0)
  BY OneMoreBad DEF Done
<1>3. Lines!MessagesOf(Append(ls, l)) =
          IF Lines!IsMessage(l) THEN Append(messages, Lines!Trim(l)) ELSE messages
  BY <1>2, OneMoreMessage
<1>4. Fits(Append(ls, l))
  BY <1>2, FitsOneMore
<1>5. Lines!IsMessage(l) => ~Lines!IsBlank(l)
  BY Zenon DEF Lines!IsMessage
<1>6. \/ /\ Lines!IsBlank(s)
         /\ loop' = goesOn /\ messages' = messages /\ answers' = answers /\ writes' = writes
      \/ /\ ~Lines!IsBlank(s) /\ Lines!IsMessage(s)
         /\ loop' = goesOn /\ messages' = Append(messages, Lines!Trim(s))
         /\ answers' = answers /\ writes' = writes
      \/ /\ ~Lines!IsBlank(s) /\ ~Lines!IsMessage(s)
         /\ loop' = "answering" /\ answers' = answers + 1 /\ writes' = Append(writes, "answer")
         /\ messages' = messages
  <2>1. Lines!IsMessage(s) => ~Lines!IsBlank(s)
    BY <1>1, <1>5
  <2> HIDE DEF s
  <2> QED BY <2>1 DEF Lines!EnqueueLine, s
<1> HIDE DEF s
<1>7. CASE Lines!IsBlank(l)
  <2>1. ~IsBad(l) /\ ~Lines!IsMessage(l)
    BY <1>5, <1>7 DEF IsBad
  <2> QED BY <1>1, <1>2, <1>3, <1>4, <1>6, <1>7, <2>1
<1>8. CASE Lines!IsMessage(l)
  <2>1. ~IsBad(l) /\ ~Lines!IsBlank(l)
    BY <1>5, <1>8 DEF IsBad
  <2> QED BY <1>1, <1>2, <1>3, <1>4, <1>6, <1>8, <2>1
<1>9. CASE ~Lines!IsBlank(l) /\ ~Lines!IsMessage(l)
  <2>1. IsBad(l)
    BY <1>9 DEF IsBad
  <2> QED BY <1>1, <1>2, <1>3, <1>4, <1>6, <1>9, <2>1
<1> QED BY <1>7, <1>8, <1>9

-----------------------------------------------------------------------------
(* The steps of NdJsonStream keep its invariant.                           *)

(* What a step that does not touch the lines leaves. *)
LEMMA LinesStayDone ==
    ASSUME LinesInv, UNCHANGED <<chunk, pending, taken, messages, answers>>,
           IsGoingOn' => IsGoingOn, IsEnding' => IsEnding, IsErrored' => IsErrored
    PROVE  InTheMiddle' /\ AtTheEnd' /\ AtAnError'
<1>1. InTheMiddle'
  BY Zenon DEF LinesInv, InTheMiddle, Behind, Done, Fits
<1>2. AtTheEnd'
  BY Zenon DEF LinesInv, AtTheEnd, AllLines, Done, Fits
<1>3. AtAnError'
  BY Zenon DEF LinesInv, AtAnError, AllLines
<1> QED BY <1>1, <1>2, <1>3

LEMMA NothingRead ==
    /\ Before(<<>>, 0) = <<>> /\ Lines!LinesOf(<<>>) = <<>>
    /\ Fits(<<>>) /\ Lines!MessagesOf(<<>>) = <<>> /\ Cardinality(Lines!BadOnes(<<>>)) = 0
    /\ Cardinality(Lines!Answers(<<>>)) = 0 /\ ~Lines!TooLong(<<>>)
<1>1. <<>> \in Seq(Bytes) /\ Len(<<>>) = 0 /\ <<>> \in Seq(Seq(Bytes))
  BY EmptySeq
<1>2. 1 .. Len(<<>>) = {}
  BY <1>1
<1>3. Before(<<>>, 0) = <<>>
  BY <1>1, BeforeAll
<1>4. Lines!Newlines(<<>>) = {} /\ Lines!GoodOnes(<<>>) = {} /\ Lines!BadOnes(<<>>) = {}
      /\ Lines!Answers(<<>>) = {}
  BY <1>2, Zenon DEF Lines!Newlines, Lines!GoodOnes, Lines!BadOnes, Lines!Answers
<1>5. Cardinality({}) = 0
  BY FS_EmptySet
<1>6. Lines!LinesOf(<<>>) \in Seq(Seq(Bytes)) /\ Len(Lines!LinesOf(<<>>)) = 0
  BY <1>1, <1>4, <1>5, LinesAre
<1>7. Lines!LinesOf(<<>>) = <<>>
  BY <1>6, EmptySeq
<1>8. Lines!MessagesOf(<<>>) \in Seq(Seq(Bytes)) /\ Len(Lines!MessagesOf(<<>>)) = 0
  BY <1>1, <1>4, <1>5, MessagesAre
<1>9. Lines!MessagesOf(<<>>) = <<>>
  BY <1>8, EmptySeq
<1>10. Fits(<<>>)
  BY <1>2, Zenon DEF Fits
<1>11. ~Lines!TooLong(<<>>)
  <2>1. MaxMessageBytes \in Nat
    BY StreamBoundsAssumption
  <2>2. Lines!TooLong(<<>>) <=> Len(<<>>) - 0 > MaxMessageBytes
    BY DEF Lines!TooLong
  <2> QED BY <1>1, <2>1, <2>2
<1> QED BY <1>3, <1>4, <1>5, <1>7, <1>9, <1>10, <1>11

LEMMA InitLinesInv == Lines!Init => LinesInv
<1> SUFFICES ASSUME Lines!Init PROVE LinesInv
  OBVIOUS
<1>0. /\ input = "open" /\ chunk = <<>> /\ pending = <<>> /\ loop = "reading" /\ last = FALSE
      /\ lineReadable = "open" /\ cancelled = FALSE /\ writes = <<>> /\ output = "good"
      /\ taken = <<>> /\ messages = <<>> /\ answers = 0 /\ linesWritten = <<>> /\ linesSent = 0
  BY DEF Lines!Init
<1>1. Len(<<>>) = 0 /\ 1 .. Len(<<>>) = {}
  BY EmptySeq
<1>2. Lines!TypeOK
  <2>1. \A S : <<>> \in Seq(S)
    BY EmptySeq
  <2>2. MaxInput \in Nat /\ MaxLines \in Nat
    BY StreamBoundsAssumption
  <2>3. 0 \in 0 .. MaxLines /\ Len(<<>>) <= MaxInput /\ 0 \in Nat
    BY <1>1, <2>2
  <2> QED BY <1>0, <2>1, <2>3, Zenon DEF Lines!TypeOK
<1>3. LoopFits
  BY <1>0 DEF LoopFits
<1>4. AnswersFit
  <2>1. \A i, j \in 1 .. Len(writes) : writes[i] = "answer" /\ writes[j] = "answer" => i = j
    BY <1>0, <1>1
  <2>2. ~ \E i \in 1 .. Len(writes) : writes[i] = "answer"
    BY <1>0, <1>1
  <2>3. answers = Cardinality(Lines!Answers(linesWritten)) + 0
    BY <1>0, NothingRead
  <2> QED BY <1>0, <2>1, <2>2, <2>3 DEF AnswersFit
<1>5. InTheMiddle
  <2>1. Behind(0)
    <3>1. \A i \in 1 .. Len(pending) : pending[i] = taken[0 + i] /\ pending[i] # "LF"
      BY <1>0, <1>1
    <3>2. \A i \in 1 .. Len(chunk) : chunk[i] = taken[0 + Len(pending) + i]
      BY <1>0, <1>1
    <3>3. Len(taken) = 0 + Len(pending) + Len(chunk)
      BY <1>0, <1>1
    <3> QED BY <3>1, <3>2, <3>3 DEF Behind
  <2>2. Done(Lines!LinesOf(Before(taken, 0)))
    BY <1>0, NothingRead, Zenon DEF Done
  <2>3. ~Lines!TooLong(pending)
    BY <1>0, NothingRead
  <2>4. 0 \in 0 .. Len(taken)
    BY <1>0, <1>1
  <2> QED BY <2>1, <2>2, <2>3, <2>4 DEF InTheMiddle
<1>6. AtTheEnd /\ AtAnError
  BY <1>0 DEF AtTheEnd, IsEnding, AtAnError, IsErrored
<1> QED BY <1>2, <1>3, <1>4, <1>5, <1>6 DEF LinesInv

LEMMA ReadChunkKeeps ==
    ASSUME LinesInv, NEW n \in 1 .. MaxInput, NEW bytes \in [1 .. n -> Lines!Bytes],
           Lines!ReadChunk(bytes)
    PROVE  LinesInv'
<1>0. /\ loop = "reading" /\ input = "open" /\ ~cancelled
      /\ Len(taken) + Len(bytes) <= MaxInput
      /\ chunk' = bytes /\ taken' = taken \o bytes /\ loop' = "splitting"
      /\ input' = input /\ pending' = pending /\ last' = last /\ lineReadable' = lineReadable
      /\ cancelled' = cancelled /\ messages' = messages /\ answers' = answers
      /\ writes' = writes /\ output' = output /\ linesWritten' = linesWritten
      /\ linesSent' = linesSent
  BY DEF Lines!ReadChunk, Lines!outside
<1>1. bytes \in Seq(Bytes) /\ Len(bytes) \in Nat
  <2>1. n \in Nat
    BY StreamBoundsAssumption
  <2>2. bytes \in Seq(Lines!Bytes) /\ Len(bytes) = n
    BY <2>1, FunctionIsSeq
  <2> QED BY <2>1, <2>2 DEF Bytes
<1>2. /\ taken \in Seq(Bytes) /\ Len(taken) \in Nat /\ Len(pending) \in Nat
      /\ chunk = <<>> /\ Len(chunk) = 0 /\ ~last /\ Lines!TypeOK
  BY <1>0, TypesOfLines, EmptySeq DEF LinesInv, LoopFits
<1>3. /\ taken' \in Seq(Bytes) /\ Len(taken') = Len(taken) + Len(bytes)
      /\ \A i \in 1 .. Len(taken) + Len(bytes) :
             taken'[i] = IF i <= Len(taken) THEN taken[i] ELSE bytes[i - Len(taken)]
  <2>1. /\ taken \o bytes \in Seq(Bytes) /\ Len(taken \o bytes) = Len(taken) + Len(bytes)
        /\ \A i \in 1 .. Len(taken) + Len(bytes) :
               (taken \o bytes)[i] = IF i <= Len(taken) THEN taken[i] ELSE bytes[i - Len(taken)]
    BY <1>1, <1>2, ConcatProperties
  <2> QED BY <1>0, <2>1
<1>4. Lines!TypeOK'
  <2>1. chunk' \in Seq(Lines!Bytes) /\ taken' \in Seq(Lines!Bytes) /\ Len(taken') <= MaxInput
    BY <1>0, <1>1, <1>3 DEF Bytes
  <2> QED BY <1>0, <1>2, <2>1, Zenon DEF Lines!TypeOK
<1>5. LoopFits'
  BY <1>0 DEF LinesInv, LoopFits
<1>6. AnswersFit'
  BY <1>0 DEF LinesInv, AnswersFit
<1>7. InTheMiddle'
  <2>1. PICK k \in 0 .. Len(taken) :
              /\ k = 0 \/ taken[k] = "LF"
              /\ Behind(k)
              /\ Done(Lines!LinesOf(Before(taken, k)))
    BY <1>0 DEF LinesInv, InTheMiddle, IsGoingOn
  <2>2. ~Lines!TooLong(pending)'
    <3>1. ~Lines!TooLong(pending)
      BY <1>0 DEF LinesInv, InTheMiddle, IsGoingOn
    <3> QED BY <1>0, <3>1, Zenon
  <2>3. k \in 0 .. Len(taken') /\ k \in Nat
    BY <1>1, <1>2, <1>3
  <2>4. k = 0 \/ taken'[k] = "LF"
    BY <1>1, <1>2, <1>3, <2>1
  <2>5. Behind(k)'
    <3>1. /\ Len(taken) = k + Len(pending)
          /\ \A i \in 1 .. Len(pending) : pending[i] = taken[k + i] /\ pending[i] # "LF"
      BY <1>2, <2>1, <2>3 DEF Behind
    <3>2. Len(taken') = k + Len(pending') + Len(chunk')
      BY <1>0, <1>3, <3>1
    <3>3. ASSUME NEW i \in 1 .. Len(pending')
          PROVE  pending'[i] = taken'[k + i] /\ pending'[i] # "LF"
      <4>1. k + i \in 1 .. Len(taken) + Len(bytes) /\ k + i <= Len(taken) /\ i \in 1 .. Len(pending)
        BY <1>0, <1>1, <1>2, <2>3, <3>1
      <4>2. taken'[k + i] = taken[k + i]
        BY <1>3, <4>1
      <4> QED BY <1>0, <3>1, <4>1, <4>2
    <3>4. ASSUME NEW i \in 1 .. Len(chunk') PROVE chunk'[i] = taken'[k + Len(pending') + i]
      <4>1. /\ i \in 1 .. Len(bytes) /\ k + Len(pending') + i = Len(taken) + i
            /\ Len(taken) + i \in 1 .. Len(taken) + Len(bytes) /\ ~(Len(taken) + i <= Len(taken))
            /\ (Len(taken) + i) - Len(taken) = i
        BY <1>0, <1>1, <1>2, <3>1
      <4>2. taken'[Len(taken) + i] = bytes[i]
        BY <1>3, <4>1
      <4> QED BY <1>0, <4>1, <4>2
    <3> QED BY <3>2, <3>3, <3>4 DEF Behind
  <2>6. Before(taken', k) = Before(taken, k)
    <3>1. /\ Before(taken, k) \in Seq(Bytes) /\ Len(Before(taken, k)) = k
          /\ \A j \in 1 .. k : Before(taken, k)[j] = taken[j]
      BY <1>2, BeforeIs
    <3>2. /\ Before(taken', k) \in Seq(Bytes) /\ Len(Before(taken', k)) = k
          /\ \A j \in 1 .. k : Before(taken', k)[j] = taken'[j]
      BY <1>3, <2>3, BeforeIs
    <3>3. \A j \in 1 .. k : taken'[j] = taken[j]
      BY <1>1, <1>2, <1>3
    <3>4. \A j \in 1 .. k : Before(taken', k)[j] = Before(taken, k)[j]
      BY <3>1, <3>2, <3>3
    <3> QED BY <3>1, <3>2, <3>4, SeqEqual
  <2>7. Done(Lines!LinesOf(Before(taken, k)))'
    BY <1>0, <2>1, <2>6, Zenon DEF Done, Fits
  <2> QED BY <2>2, <2>3, <2>4, <2>5, <2>7, Zenon DEF InTheMiddle
<1>8. AtTheEnd' /\ AtAnError'
  <2>1. lineReadable' = "open"
    BY <1>0 DEF LinesInv, LoopFits
  <2> QED BY <1>0, <2>1 DEF AtTheEnd, IsEnding, AtAnError, IsErrored
<1> QED BY <1>4, <1>5, <1>6, <1>7, <1>8 DEF LinesInv

LEMMA AppendedAnswer ==
    ASSUME NEW ws \in Seq({"answer", "message"}), NEW w \in {"answer", "message"}
    PROVE  /\ Append(ws, w) \in Seq({"answer", "message"})
           /\ Len(Append(ws, w)) = Len(ws) + 1 /\ Len(ws) \in Nat
           /\ Append(ws, w)[Len(ws) + 1] = w
           /\ \A i \in 1 .. Len(ws) : Append(ws, w)[i] = ws[i]
BY AppendProperties, LenProperties

(* The loop waits for the answer, if there is one. *)
LEMMA EnqueueAnswers ==
    ASSUME Lines!TypeOK, AnswersFit, loop \notin {"answering", "over"}, NEW goesOn,
           goesOn \in {"splitting", "flushing"}, linesWritten' = linesWritten,
           \/ loop' = goesOn /\ answers' = answers /\ writes' = writes
           \/ loop' = "answering" /\ answers' = answers + 1 /\ writes' = Append(writes, "answer")
    PROVE  /\ AnswersFit' /\ writes' \in Seq({"answer", "message"}) /\ answers' \in Nat
           /\ loop' \in {goesOn, "answering"}
<1>1. writes \in Seq({"answer", "message"}) /\ answers \in Nat
  BY DEF Lines!TypeOK
<1>2. /\ ~ \E i \in 1 .. Len(writes) : writes[i] = "answer"
      /\ answers = Cardinality(Lines!Answers(linesWritten))
  <2>1. answers = Cardinality(Lines!Answers(linesWritten)) + 0
    BY DEF AnswersFit
  <2>2. Cardinality(Lines!Answers(linesWritten)) \in Nat
    BY AnswersOfOneMore DEF Lines!TypeOK
  <2> QED BY <2>1, <2>2 DEF AnswersFit
<1>3. CASE loop' = goesOn /\ answers' = answers /\ writes' = writes
  <2>1. loop' # "answering" /\ answers' = Cardinality(Lines!Answers(linesWritten)) + 0
    BY <1>1, <1>2, <1>3
  <2>2. /\ \A i, j \in 1 .. Len(writes') : writes'[i] = "answer" /\ writes'[j] = "answer" => i = j
        /\ ~ \E i \in 1 .. Len(writes') : writes'[i] = "answer"
    BY <1>2, <1>3
  <2> QED BY <1>1, <1>3, <2>1, <2>2 DEF AnswersFit
<1>4. CASE loop' = "answering" /\ answers' = answers + 1 /\ writes' = Append(writes, "answer")
  <2>1. /\ writes' \in Seq({"answer", "message"}) /\ Len(writes') = Len(writes) + 1
        /\ Len(writes) \in Nat /\ writes'[Len(writes) + 1] = "answer"
        /\ \A i \in 1 .. Len(writes) : writes'[i] = writes[i]
    BY <1>1, <1>4, AppendedAnswer
  <2>2. \A i \in 1 .. Len(writes') : writes'[i] = "answer" <=> i = Len(writes) + 1
    <3>1. \A i \in 1 .. Len(writes') : i \in 1 .. Len(writes) \/ i = Len(writes) + 1
      BY <2>1
    <3>2. Len(writes) + 1 \notin 1 .. Len(writes)
      BY <2>1
    <3> QED BY <1>2, <2>1, <3>1, <3>2
  <2>3. Len(writes) + 1 \in 1 .. Len(writes')
    BY <2>1
  <2>4. answers' = Cardinality(Lines!Answers(linesWritten)) + 1 /\ answers' \in Nat
    BY <1>1, <1>2, <1>4
  <2>5. AnswersFit'
    BY <1>4, <2>2, <2>3, <2>4 DEF AnswersFit
  <2> QED BY <1>4, <2>1, <2>4, <2>5
<1> QED BY <1>3, <1>4

(* The next line of the chunk, of which there may be none. *)
LEMMA SplitKeeps == ASSUME LinesInv, Lines!Split PROVE LinesInv'
<1> DEFINE line == Lines!NextLine(pending, chunk)
<1>0. /\ loop = "splitting" /\ ~cancelled /\ input' = input /\ last' = last
      /\ cancelled' = cancelled /\ output' = output /\ taken' = taken
      /\ linesWritten' = linesWritten /\ linesSent' = linesSent
  BY DEF Lines!Split
<1>1. /\ Lines!TypeOK /\ LoopFits /\ AnswersFit /\ lineReadable = "open" /\ last = FALSE
      /\ taken \in Seq(Bytes) /\ Len(taken) \in Nat
  BY <1>0, TypesOfLines DEF LinesInv, LoopFits, Lines!TypeOK
<1>2. PICK k \in 0 .. Len(taken) :
          /\ k = 0 \/ taken[k] = "LF"
          /\ Behind(k)
          /\ Done(Lines!LinesOf(Before(taken, k)))
  BY <1>0 DEF LinesInv, InTheMiddle, IsGoingOn
<1> DEFINE ls == Lines!LinesOf(Before(taken, k))
<1>3. ls \in Seq(Seq(Bytes)) /\ line \in Seq(Bytes)
  BY <1>1, <1>2, NextOfAll
<1>4. CASE Lines!TooLong(line)
  <2>1. /\ loop' = "over" /\ chunk' = <<>> /\ pending' = <<>> /\ lineReadable' = "errored"
        /\ messages' = messages /\ answers' = answers /\ writes' = writes
    BY <1>4 DEF Lines!Split, Lines!EndLoop
  <2>2. <<>> \in Seq(Lines!Bytes)
    BY EmptySeq
  <2>3. Lines!TypeOK'
    BY <1>0, <1>1, <2>1, <2>2, Zenon DEF Lines!TypeOK
  <2>4. LoopFits'
    BY <1>0, <2>1 DEF LoopFits
  <2>5. AnswersFit'
    BY <1>0, <1>1, <2>1 DEF AnswersFit
  <2>6. InTheMiddle' /\ AtTheEnd'
    BY <2>1 DEF InTheMiddle, IsGoingOn, AtTheEnd, IsEnding
  <2>7. AllLines # Lines!Allowed(AllLines) /\ messages = Lines!MessagesOf(Lines!Allowed(AllLines))
    BY <1>1, <1>2, <1>4, OverlongEnds
  <2>8. AtAnError'
    BY <1>0, <2>1, <2>7, Zenon DEF AtAnError, AllLines
  <2> QED BY <2>3, <2>4, <2>5, <2>6, <2>8 DEF LinesInv
<1>5. CASE ~Lines!TooLong(line) /\ Lines!HasLine(chunk)
  <2>1. /\ Lines!EnqueueLine(Lines!StripCarriageReturn(line), "splitting")
        /\ pending' = <<>> /\ chunk' = Lines!AfterLine(chunk) /\ lineReadable' = lineReadable
    BY <1>5 DEF Lines!Split
  <2>2. /\ Fits(Append(ls, line))
        /\ messages' = Lines!MessagesOf(Append(ls, line))
        /\ answers' = Cardinality(Lines!BadOnes(Append(ls, line)))
        /\ \/ loop' = "splitting" /\ answers' = answers /\ writes' = writes
           \/ loop' = "answering" /\ answers' = answers + 1 /\ writes' = Append(writes, "answer")
    <3> HIDE DEF ls, line
    <3> QED BY <1>2, <1>3, <1>5, <2>1, EnqueueDoes DEF ls
  <2>3. /\ AnswersFit' /\ writes' \in Seq({"answer", "message"}) /\ answers' \in Nat
        /\ loop' \in {"splitting", "answering"}
    BY <1>0, <1>1, <2>2, EnqueueAnswers
  <2>4. PICK n \in k .. Len(taken) :
              /\ n + 1 \in 0 .. Len(taken) /\ n + 1 <= Len(taken) /\ taken[n + 1] = "LF"
              /\ \A i \in k + 1 .. n : taken[i] # "LF"
              /\ line = SubSeq(taken, k + 1, n)
              /\ Lines!AfterLine(chunk) \in Seq(Bytes)
              /\ Len(taken) = (n + 1) + Len(Lines!AfterLine(chunk))
              /\ \A i \in 1 .. Len(Lines!AfterLine(chunk)) :
                    Lines!AfterLine(chunk)[i] = taken[(n + 1) + i]
    BY <1>1, <1>2, <1>5, NextLineIs
  <2>5. Lines!LinesOf(Before(taken, n + 1)) = Append(ls, line)
    BY <1>1, <1>2, <2>4, OneMoreLine
  <2> HIDE DEF ls, line
  <2>6. Append(ls, line) \in Seq(Seq(Bytes)) /\ messages' \in Seq(Seq(Bytes))
    <3>1. Append(ls, line) \in Seq(Seq(Bytes))
      BY <1>3, AppendProperties
    <3> QED BY <2>2, <3>1, MessagesAre
  <2>7. Lines!TypeOK'
    <3>1. <<>> \in Seq(Lines!Bytes)
      BY EmptySeq
    <3>2. chunk' \in Seq(Lines!Bytes) /\ messages' \in Seq(Seq(Lines!Bytes))
      BY <2>1, <2>4, <2>6 DEF Bytes
    <3>3. loop' \in {"reading", "splitting", "answering", "flushing", "over"}
      BY <2>3
    <3> QED BY <1>0, <1>1, <2>1, <2>3, <3>1, <3>2, <3>3, Zenon DEF Lines!TypeOK
  <2>8. LoopFits'
    BY <1>0, <1>1, <2>1, <2>3 DEF LoopFits
  <2>9. Behind(n + 1)'
    <3>1. Len(<<>>) = 0 /\ 1 .. Len(<<>>) = {}
      BY EmptySeq
    <3>2. \A i \in 1 .. Len(pending') : pending'[i] = taken'[n + 1 + i] /\ pending'[i] # "LF"
      BY <2>1, <3>1
    <3>3. n + 1 + 0 = n + 1
      BY <1>1, <2>4
    <3>4. Len(taken') = n + 1 + Len(pending') + Len(chunk')
      BY <1>0, <2>1, <2>4, <3>1, <3>3
    <3>5. \A i \in 1 .. Len(chunk') : chunk'[i] = taken'[n + 1 + Len(pending') + i]
      BY <1>0, <2>1, <2>4, <3>1, <3>3
    <3> QED BY <3>2, <3>4, <3>5 DEF Behind
  <2>10. Done(Lines!LinesOf(Before(taken, n + 1)))'
    BY <1>0, <2>2, <2>5 DEF Done
  <2>11. InTheMiddle'
    <3>1. n + 1 = 0 \/ taken'[n + 1] = "LF"
      BY <1>0, <2>4
    <3>2. ~Lines!TooLong(pending)'
      BY <2>1, NothingRead, Zenon
    <3>3. n + 1 \in 0 .. Len(taken')
      BY <1>0, <2>4
    <3> QED BY <2>9, <2>10, <3>1, <3>2, <3>3, Zenon DEF InTheMiddle
  <2>12. AtTheEnd' /\ AtAnError'
    BY <1>0, <1>1, <2>1, <2>3 DEF AtTheEnd, IsEnding, AtAnError, IsErrored
  <2> QED BY <2>3, <2>7, <2>8, <2>11, <2>12 DEF LinesInv
<1>6. CASE ~Lines!TooLong(line) /\ ~Lines!HasLine(chunk)
  <2>1. /\ loop' = "reading" /\ pending' = line /\ chunk' = <<>> /\ lineReadable' = lineReadable
        /\ messages' = messages /\ answers' = answers /\ writes' = writes
    BY <1>6 DEF Lines!Split
  <2>2. Lines!TypeOK'
    <3>1. <<>> \in Seq(Lines!Bytes) /\ line \in Seq(Lines!Bytes)
      BY <1>3, EmptySeq DEF Bytes
    <3> QED BY <1>0, <1>1, <2>1, <3>1, Zenon DEF Lines!TypeOK
  <2>3. LoopFits'
    BY <1>0, <1>1, <2>1 DEF LoopFits
  <2>4. AnswersFit'
    BY <1>0, <1>1, <2>1 DEF AnswersFit
  <2>5. /\ \A i \in k + 1 .. Len(taken) : taken[i] # "LF"
        /\ line = SubSeq(taken, k + 1, Len(taken))
    BY <1>1, <1>2, <1>6, RestIs
  <2>6. k \in Nat /\ /\ Len(line) = Len(taken) - k
                     /\ \A i \in 1 .. Len(taken) - k : line[i] = taken[k + i]
    <3>1. /\ k + 1 \in 1 .. Len(taken) + 1 /\ Len(taken) \in (k + 1) - 1 .. Len(taken)
          /\ Len(taken) - (k + 1) + 1 = Len(taken) - k
      BY <1>1
    <3> HIDE DEF line
    <3>2. /\ Len(line) = Len(taken) - (k + 1) + 1
          /\ \A i \in 1 .. Len(taken) - (k + 1) + 1 : line[i] = taken[(k + 1) + i - 1]
      BY <1>1, <2>5, <3>1, PartIs
    <3>3. \A i \in 1 .. Len(taken) - k : (k + 1) + i - 1 = k + i
      BY <1>1
    <3> QED BY <3>1, <3>2, <3>3
  <2> HIDE DEF line, ls
  <2>7. Behind(k)'
    <3>1. Len(<<>>) = 0 /\ 1 .. Len(<<>>) = {}
      BY EmptySeq
    <3>2. Len(taken) = k + (Len(taken) - k) + 0
      BY <1>1, <2>6
    <3>3. Len(taken') = k + Len(pending') + Len(chunk')
      BY <1>0, <2>1, <2>6, <3>1, <3>2
    <3>4. ASSUME NEW i \in 1 .. Len(pending')
          PROVE  pending'[i] = taken'[k + i] /\ pending'[i] # "LF"
      <4>1. i \in 1 .. Len(taken) - k /\ k + i \in k + 1 .. Len(taken)
        BY <1>1, <2>1, <2>6
      <4> QED BY <1>0, <2>1, <2>5, <2>6, <4>1
    <3>5. \A i \in 1 .. Len(chunk') : chunk'[i] = taken'[k + Len(pending') + i]
      BY <2>1, <3>1
    <3> QED BY <3>3, <3>4, <3>5 DEF Behind
  <2>8. Done(Lines!LinesOf(Before(taken, k)))'
    BY <1>0, <1>2, <2>1, Zenon DEF Done, Fits
  <2>9. InTheMiddle'
    <3>1. ~Lines!TooLong(pending)'
      BY <1>6, <2>1, Zenon
    <3>2. k \in 0 .. Len(taken') /\ (k = 0 \/ taken'[k] = "LF")
      BY <1>0, <1>2
    <3> QED BY <2>7, <2>8, <3>1, <3>2, Zenon DEF InTheMiddle
  <2>10. AtTheEnd' /\ AtAnError'
    BY <1>0, <1>1, <2>1 DEF AtTheEnd, IsEnding, AtAnError, IsErrored
  <2> QED BY <2>2, <2>3, <2>4, <2>9, <2>10 DEF LinesInv
<1> QED BY <1>4, <1>5, <1>6

(* What is written next, and what remains to be written. *)
LEMMA HeadOfWrites ==
    ASSUME Lines!TypeOK, AnswersFit, writes # <<>>
    PROVE  /\ Head(writes) \in {"answer", "message"}
           /\ Tail(writes) \in Seq({"answer", "message"})
           /\ Head(writes) = "answer" => /\ loop = "answering"
                                         /\ \A i \in 1 .. Len(Tail(writes)) : Tail(writes)[i] # "answer"
           /\ Head(writes) # "answer" =>
                 loop = "answering" <=> \E i \in 1 .. Len(Tail(writes)) : Tail(writes)[i] = "answer"
           /\ \A i, j \in 1 .. Len(Tail(writes)) :
                 Tail(writes)[i] = "answer" /\ Tail(writes)[j] = "answer" => i = j
<1> DEFINE h == Head(writes)
           t == Tail(writes)
           n == Len(writes)
<1>1. writes \in Seq({"answer", "message"})
  BY DEF Lines!TypeOK
<1>2. /\ n \in Nat \ {0} /\ h \in {"answer", "message"} /\ h = writes[1]
      /\ t \in Seq({"answer", "message"}) /\ Len(t) = n - 1
      /\ \A i \in 1 .. n - 1 : t[i] = writes[i + 1]
  BY <1>1, HeadTailProperties, EmptySeq, LenProperties
<1>3. /\ \A i, j \in 1 .. n : writes[i] = "answer" /\ writes[j] = "answer" => i = j
      /\ loop = "answering" <=> \E i \in 1 .. n : writes[i] = "answer"
  BY DEF AnswersFit
<1> HIDE DEF h, t, n
<1>4. 1 \in 1 .. n /\ \A i \in 1 .. n - 1 : i + 1 \in 1 .. n /\ i + 1 # 1
  BY <1>2
<1>5. ASSUME h = "answer" PROVE loop = "answering" /\ \A i \in 1 .. Len(t) : t[i] # "answer"
  BY <1>2, <1>3, <1>4, <1>5
<1>6. ASSUME h # "answer" PROVE loop = "answering" <=> \E i \in 1 .. Len(t) : t[i] = "answer"
  <2>1. ASSUME NEW i \in 1 .. n, writes[i] = "answer" PROVE \E j \in 1 .. Len(t) : t[j] = "answer"
    <3>1. i - 1 \in 1 .. n - 1 /\ (i - 1) + 1 = i
      <4>1. i # 1
        BY <1>2, <1>6, <2>1
      <4> QED BY <1>2, <4>1
    <3>2. t[i - 1] = "answer"
      BY <1>2, <2>1, <3>1
    <3> QED BY <1>2, <3>1, <3>2
  <2>2. ASSUME NEW j \in 1 .. Len(t), t[j] = "answer" PROVE \E i \in 1 .. n : writes[i] = "answer"
    BY <1>2, <1>4, <2>2
  <2> QED BY <1>3, <2>1, <2>2
<1>7. ASSUME NEW i \in 1 .. Len(t), NEW j \in 1 .. Len(t), t[i] = "answer", t[j] = "answer"
      PROVE  i = j
  <2>1. i + 1 = j + 1
    BY <1>2, <1>3, <1>4, <1>7
  <2> QED BY <1>2, <2>1
<1> QED BY <1>2, <1>5, <1>6, <1>7 DEF h, t

(* The loop ends where no answer is to be written. *)
LEMMA LoopEnds ==
    ASSUME LinesInv, loop # "answering", NEW how \in {"closed", "errored"}, Lines!EndLoop(how),
           UNCHANGED <<input, last, cancelled, taken, messages, answers>>, UNCHANGED Lines!outside,
           cancelled => how = "closed",
           how = "closed" /\ ~cancelled => Done(AllLines),
           how = "errored" /\ ~cancelled => input = "failed"
    PROVE  LinesInv'
<1>0. /\ loop' = "over" /\ chunk' = <<>> /\ pending' = <<>> /\ lineReadable' = how
      /\ writes' = writes /\ output' = output /\ linesWritten' = linesWritten
      /\ linesSent' = linesSent
  BY DEF Lines!EndLoop, Lines!outside
<1>1. Lines!TypeOK'
  <2>1. <<>> \in Seq(Lines!Bytes)
    BY EmptySeq
  <2>2. lineReadable' \in {"open", "closed", "errored"}
    BY <1>0
  <2> QED BY <1>0, <2>1, <2>2, Zenon DEF LinesInv, Lines!TypeOK
<1>2. LoopFits'
  BY <1>0 DEF LinesInv, LoopFits
<1>3. AnswersFit'
  BY <1>0 DEF LinesInv, AnswersFit
<1>4. InTheMiddle'
  BY <1>0 DEF InTheMiddle, IsGoingOn
<1>5. AtTheEnd'
  <2>1. ASSUME IsEnding' PROVE Done(AllLines)
    BY <1>0, <2>1 DEF IsEnding
  <2> QED BY <2>1, Zenon DEF AtTheEnd, AllLines, Done, Fits
<1>6. AtAnError'
  BY <1>0 DEF AtAnError, IsErrored
<1> QED BY <1>1, <1>2, <1>3, <1>4, <1>5, <1>6 DEF LinesInv

LEMMA CloseReadableKeeps == ASSUME LinesInv, Lines!CloseReadable PROVE LinesInv'
<1>1. /\ loop = "flushing" /\ ~cancelled /\ Lines!EndLoop("closed")
      /\ UNCHANGED <<input, last, cancelled, taken, messages, answers>> /\ UNCHANGED Lines!outside
  BY DEF Lines!CloseReadable
<1>2. Done(AllLines)
  BY <1>1 DEF LinesInv, AtTheEnd, IsEnding
<1> QED BY <1>1, <1>2, LoopEnds

LEMMA ReadFailsKeeps == ASSUME LinesInv, Lines!ReadFails PROVE LinesInv'
<1>1. /\ loop = "reading" /\ ~cancelled /\ input = "failed" /\ Lines!EndLoop("errored")
      /\ UNCHANGED <<input, last, cancelled, taken, messages, answers>> /\ UNCHANGED Lines!outside
  BY DEF Lines!ReadFails
<1> QED BY <1>1, LoopEnds

LEMMA StopLoopKeeps == ASSUME LinesInv, Lines!StopLoop PROVE LinesInv'
<1>1. /\ loop # "answering" /\ cancelled /\ Lines!EndLoop(lineReadable)
      /\ UNCHANGED <<input, last, cancelled, taken, messages, answers>> /\ UNCHANGED Lines!outside
  BY DEF Lines!StopLoop
<1>2. lineReadable = "closed"
  BY <1>1 DEF LinesInv, LoopFits
<1> QED BY <1>1, <1>2, LoopEnds

(* What remains at the end of the input is a line, unless nothing does. *)
LEMMA ReadEndKeeps == ASSUME LinesInv, Lines!ReadEnd PROVE LinesInv'
<1>0. /\ loop = "reading" /\ input = "ended" /\ ~cancelled
      /\ input' = input /\ cancelled' = cancelled /\ output' = output /\ taken' = taken
      /\ linesWritten' = linesWritten /\ linesSent' = linesSent
  BY DEF Lines!ReadEnd
<1>1. /\ Lines!TypeOK /\ LoopFits /\ AnswersFit /\ lineReadable = "open" /\ last = FALSE
      /\ chunk = <<>> /\ pending \in Seq(Bytes) /\ ~Lines!TooLong(pending)
  BY <1>0, TypesOfLines DEF LinesInv, LoopFits, Lines!TypeOK, InTheMiddle, IsGoingOn
<1>2. PICK k \in 0 .. Len(taken) :
          /\ k = 0 \/ taken[k] = "LF"
          /\ Behind(k)
          /\ Done(Lines!LinesOf(Before(taken, k)))
  BY <1>0 DEF LinesInv, InTheMiddle, IsGoingOn
<1> DEFINE ls == Lines!LinesOf(Before(taken, k))
           s == Lines!StripCarriageReturn(pending)
<1>3. AllLines = Append(ls, pending) /\ ls \in Seq(Seq(Bytes)) /\ Done(ls)
  BY <1>1, <1>2, PendingIsTheRest
<1>4. Lines!Flush(pending) = s
  BY Zenon DEF Lines!Flush
<1> HIDE DEF ls, s
<1>5. CASE s = <<>>
  <2>1. /\ Lines!EndLoop("closed") /\ last' = last /\ messages' = messages /\ answers' = answers
        /\ writes' = writes
    BY <1>4, <1>5 DEF Lines!ReadEnd
  <2>2. Lines!IsBlank(pending)
    <3>1. Lines!Trim(<<>>) = <<>>
      <4>1. 1 .. Len(<<>>) = {}
        BY EmptySeq
      <4>2. Ink(<<>>) = {}
        BY <4>1, Zenon DEF Ink
      <4> QED BY <4>2, TrimIs
    <3>2. Lines!IsBlank(s)
      BY <1>5, <3>1, Zenon DEF Lines!IsBlank
    <3> QED BY <1>1, <3>2, StripSays DEF s
  <2>3. ~Lines!IsMessage(pending) /\ ~IsBad(pending)
    BY <2>2, Zenon DEF Lines!IsMessage, IsBad
  <2>4. Done(AllLines)
    <3>1. /\ Fits(ls) /\ messages = Lines!MessagesOf(ls)
          /\ answers = Cardinality(Lines!BadOnes(ls))
      BY <1>3 DEF Done
    <3>2. Fits(AllLines)
      BY <1>1, <1>3, <3>1, FitsOneMore
    <3>3. Lines!MessagesOf(AllLines) = Lines!MessagesOf(ls)
      BY <1>1, <1>3, <2>3, OneMoreMessage
    <3>4. Cardinality(Lines!BadOnes(AllLines)) = Cardinality(Lines!BadOnes(ls))
      <4>1. /\ Cardinality(Lines!BadOnes(ls)) \in Nat
            /\ Cardinality(Lines!BadOnes(AllLines)) = Cardinality(Lines!BadOnes(ls)) + 0
        BY <1>1, <1>3, <2>3, OneMoreBad
      <4> QED BY <4>1
    <3> QED BY <3>1, <3>2, <3>3, <3>4 DEF Done
  <2>5. UNCHANGED Lines!outside
    BY <1>0, <2>1 DEF Lines!outside
  <2> QED BY <1>0, <2>1, <2>4, <2>5, LoopEnds
<1>6. CASE s # <<>>
  <2>1. /\ Lines!EnqueueLine(s, "flushing") /\ last' = TRUE /\ pending' = <<>>
        /\ chunk' = chunk /\ lineReadable' = lineReadable
    BY <1>4, <1>6 DEF Lines!ReadEnd
  <2>2. /\ Fits(Append(ls, pending))
        /\ messages' = Lines!MessagesOf(Append(ls, pending))
        /\ answers' = Cardinality(Lines!BadOnes(Append(ls, pending)))
        /\ \/ loop' = "flushing" /\ answers' = answers /\ writes' = writes
           \/ loop' = "answering" /\ answers' = answers + 1 /\ writes' = Append(writes, "answer")
    <3>1. Lines!EnqueueLine(Lines!StripCarriageReturn(pending), "flushing")
      BY <2>1 DEF s
    <3> QED BY <1>1, <1>3, <3>1, EnqueueDoes
  <2>3. /\ AnswersFit' /\ writes' \in Seq({"answer", "message"}) /\ answers' \in Nat
        /\ loop' \in {"flushing", "answering"}
    BY <1>0, <1>1, <2>2, EnqueueAnswers
  <2>4. messages' \in Seq(Seq(Bytes))
    <3>1. Append(ls, pending) \in Seq(Seq(Bytes))
      BY <1>1, <1>3, AppendProperties
    <3> QED BY <2>2, <3>1, MessagesAre
  <2>5. Lines!TypeOK'
    <3>1. <<>> \in Seq(Lines!Bytes) /\ messages' \in Seq(Seq(Lines!Bytes))
      BY <2>4, EmptySeq DEF Bytes
    <3>2. loop' \in {"reading", "splitting", "answering", "flushing", "over"} /\ last' \in BOOLEAN
      BY <2>1, <2>3
    <3> QED BY <1>0, <1>1, <2>1, <2>3, <3>1, <3>2, Zenon DEF Lines!TypeOK
  <2>6. LoopFits'
    BY <1>0, <1>1, <2>1, <2>3 DEF LoopFits
  <2>7. InTheMiddle'
    BY <2>1, <2>3 DEF InTheMiddle, IsGoingOn
  <2>8. AtTheEnd'
    <3>1. AllLines' = Append(ls, pending)
      BY <1>0, <1>3, Zenon DEF AllLines
    <3> QED BY <2>2, <3>1, Zenon DEF AtTheEnd, Done, Fits
  <2>9. AtAnError'
    BY <1>1, <2>1 DEF AtAnError, IsErrored
  <2> QED BY <2>3, <2>5, <2>6, <2>7, <2>8, <2>9 DEF LinesInv
<1> QED BY <1>5, <1>6

LEMMA WriteKeeps == ASSUME LinesInv, Lines!Write PROVE LinesInv'
<1>0. /\ writes # <<>> /\ output = "good" /\ writes' = Tail(writes)
      /\ linesWritten' = Append(linesWritten, Head(writes))
      /\ loop' = IF Head(writes) = "answer" THEN IF last THEN "flushing" ELSE "splitting" ELSE loop
      /\ input' = input /\ chunk' = chunk /\ pending' = pending /\ last' = last
      /\ lineReadable' = lineReadable /\ cancelled' = cancelled /\ output' = output
      /\ taken' = taken /\ messages' = messages /\ answers' = answers /\ linesSent' = linesSent
  BY DEF Lines!Write
<1>1. Lines!TypeOK /\ AnswersFit /\ LoopFits
  BY DEF LinesInv
<1>2. /\ Head(writes) \in {"answer", "message"}
      /\ Tail(writes) \in Seq({"answer", "message"})
      /\ Head(writes) = "answer" => /\ loop = "answering"
                                    /\ \A i \in 1 .. Len(Tail(writes)) : Tail(writes)[i] # "answer"
      /\ Head(writes) # "answer" =>
            loop = "answering" <=> \E i \in 1 .. Len(Tail(writes)) : Tail(writes)[i] = "answer"
      /\ \A i, j \in 1 .. Len(Tail(writes)) :
            Tail(writes)[i] = "answer" /\ Tail(writes)[j] = "answer" => i = j
  BY <1>0, <1>1, HeadOfWrites
<1>3. linesWritten' \in Seq({"answer", "message"})
  BY <1>0, <1>1, <1>2, TypesOfLines, AppendedAnswer
<1>4. Lines!TypeOK'
  <2>1. loop' \in {"reading", "splitting", "answering", "flushing", "over"}
    BY <1>0, <1>1 DEF Lines!TypeOK
  <2> QED BY <1>0, <1>1, <1>2, <1>3, <2>1, Zenon DEF Lines!TypeOK
<1>5. LoopFits'
  BY <1>0, <1>1, <1>2 DEF LoopFits, Lines!TypeOK
<1>6. AnswersFit'
  <2>1. /\ Cardinality(Lines!Answers(linesWritten)) \in Nat
        /\ Cardinality(Lines!Answers(linesWritten')) =
               Cardinality(Lines!Answers(linesWritten)) + (IF Head(writes) = "answer" THEN 1 ELSE 0)
    BY <1>0, <1>1, <1>2, TypesOfLines, AnswersOfOneMore
  <2>2. CASE Head(writes) = "answer"
    <3>1. /\ loop = "answering" /\ loop' # "answering"
          /\ answers = Cardinality(Lines!Answers(linesWritten)) + 1
      BY <1>0, <1>1, <1>2, <2>2 DEF AnswersFit
    <3>2. answers' = Cardinality(Lines!Answers(linesWritten')) + 0
      BY <1>0, <2>1, <2>2, <3>1
    <3> QED BY <1>0, <1>2, <2>2, <3>1, <3>2 DEF AnswersFit
  <2>3. CASE Head(writes) # "answer"
    <3>1. loop' = loop /\ Cardinality(Lines!Answers(linesWritten')) = Cardinality(Lines!Answers(linesWritten))
      BY <1>0, <2>1, <2>3
    <3>2. loop # "over" => answers = Cardinality(Lines!Answers(linesWritten)) + (IF loop = "answering" THEN 1 ELSE 0)
      BY <1>1 DEF AnswersFit
    <3> QED BY <1>0, <1>2, <2>3, <3>1, <3>2 DEF AnswersFit
  <2> QED BY <2>2, <2>3
<1>7. InTheMiddle' /\ AtTheEnd' /\ AtAnError'
  <2>1. IsGoingOn' => IsGoingOn
    BY <1>0, <1>2 DEF IsGoingOn
  <2>2. IsEnding' => IsEnding
    BY <1>0, <1>2 DEF IsEnding
  <2>3. IsErrored' => IsErrored
    BY <1>0 DEF IsErrored
  <2> QED BY <1>0, <2>1, <2>2, <2>3, LinesStayDone
<1> QED BY <1>4, <1>5, <1>6, <1>7 DEF LinesInv

LEMMA WriteFailsKeeps == ASSUME LinesInv, Lines!WriteFails PROVE LinesInv'
<1>0. /\ writes # <<>> /\ output' = "failed" /\ writes' = Tail(writes)
      /\ linesWritten' = linesWritten
      /\ input' = input /\ last' = last /\ cancelled' = cancelled
      /\ taken' = taken /\ messages' = messages /\ answers' = answers /\ linesSent' = linesSent
  BY DEF Lines!WriteFails
<1>1. Lines!TypeOK /\ AnswersFit /\ LoopFits
  BY DEF LinesInv
<1>2. /\ Tail(writes) \in Seq({"answer", "message"})
      /\ Head(writes) = "answer" => /\ loop = "answering"
                                    /\ \A i \in 1 .. Len(Tail(writes)) : Tail(writes)[i] # "answer"
      /\ Head(writes) # "answer" =>
            loop = "answering" <=> \E i \in 1 .. Len(Tail(writes)) : Tail(writes)[i] = "answer"
      /\ \A i, j \in 1 .. Len(Tail(writes)) :
            Tail(writes)[i] = "answer" /\ Tail(writes)[j] = "answer" => i = j
  BY <1>0, <1>1, HeadOfWrites
<1>3. CASE Head(writes) = "answer"
  <2>1. /\ loop' = "over" /\ chunk' = <<>> /\ pending' = <<>>
        /\ lineReadable' = IF cancelled THEN lineReadable ELSE "errored"
    BY <1>3 DEF Lines!WriteFails, Lines!EndLoop
  <2>2. Lines!TypeOK'
    <3>1. <<>> \in Seq(Lines!Bytes)
      BY EmptySeq
    <3>2. lineReadable' \in {"open", "closed", "errored"}
      BY <1>1, <2>1 DEF Lines!TypeOK
    <3> QED BY <1>0, <1>1, <1>2, <2>1, <3>1, <3>2, Zenon DEF Lines!TypeOK
  <2>3. LoopFits'
    BY <1>0, <1>1, <2>1 DEF LoopFits
  <2>4. AnswersFit'
    BY <1>0, <1>2, <1>3, <2>1 DEF AnswersFit
  <2>5. InTheMiddle'
    BY <2>1 DEF InTheMiddle, IsGoingOn
  <2>6. AtTheEnd'
    BY <1>0, <1>1, <2>1 DEF AtTheEnd, IsEnding, LoopFits
  <2>7. AtAnError'
    BY <1>0 DEF AtAnError, IsErrored
  <2> QED BY <2>2, <2>3, <2>4, <2>5, <2>6, <2>7 DEF LinesInv
<1>4. CASE Head(writes) # "answer"
  <2>1. loop' = loop /\ chunk' = chunk /\ pending' = pending /\ lineReadable' = lineReadable
    BY <1>4 DEF Lines!WriteFails
  <2>2. Lines!TypeOK'
    BY <1>0, <1>1, <1>2, <2>1, Zenon DEF Lines!TypeOK
  <2>3. LoopFits'
    BY <1>0, <1>1, <2>1 DEF LoopFits
  <2>4. AnswersFit'
    BY <1>0, <1>1, <1>2, <1>4, <2>1 DEF AnswersFit
  <2>5. IsGoingOn' => IsGoingOn
    BY <1>0, <2>1 DEF IsGoingOn
  <2>6. IsEnding' => IsEnding
    BY <1>0, <2>1 DEF IsEnding
  <2>7. ~IsErrored'
    BY <1>0 DEF IsErrored
  <2>8. InTheMiddle' /\ AtTheEnd' /\ AtAnError'
    BY <1>0, <2>1, <2>5, <2>6, <2>7, LinesStayDone
  <2> QED BY <2>2, <2>3, <2>4, <2>8 DEF LinesInv
<1> QED BY <1>3, <1>4

LEMMA InputStopsKeeps ==
    ASSUME LinesInv, NEW how \in {"ended", "failed"}, Lines!InputStops(how) PROVE LinesInv'
<1>0. /\ input = "open" /\ input' = how
      /\ chunk' = chunk /\ pending' = pending /\ loop' = loop /\ last' = last
      /\ lineReadable' = lineReadable /\ cancelled' = cancelled /\ output' = output
      /\ writes' = writes /\ linesWritten' = linesWritten
      /\ taken' = taken /\ messages' = messages /\ answers' = answers /\ linesSent' = linesSent
  BY DEF Lines!InputStops, Lines!outside
<1>1. Lines!TypeOK' /\ AnswersFit' /\ LoopFits'
  <2>1. input' \in {"open", "ended", "failed"}
    BY <1>0
  <2>2. Lines!TypeOK'
    BY <1>0, <2>1, Zenon DEF LinesInv, Lines!TypeOK
  <2> QED BY <1>0, <2>2 DEF LinesInv, AnswersFit, LoopFits
<1>2. /\ IsGoingOn' => IsGoingOn
      /\ IsEnding' => IsEnding
      /\ IsErrored' => IsErrored
  BY <1>0 DEF IsGoingOn, IsEnding, IsErrored
<1> QED BY <1>0, <1>1, <1>2, LinesStayDone DEF LinesInv

LEMMA UserWritesKeeps == ASSUME LinesInv, Lines!UserWrites PROVE LinesInv'
<1>0. /\ linesSent < MaxLines /\ linesSent' = linesSent + 1
      /\ writes' = Append(writes, "message")
      /\ chunk' = chunk /\ pending' = pending /\ loop' = loop /\ last' = last
      /\ lineReadable' = lineReadable /\ cancelled' = cancelled /\ output' = output
      /\ input' = input /\ linesWritten' = linesWritten
      /\ taken' = taken /\ messages' = messages /\ answers' = answers
  BY DEF Lines!UserWrites
<1>1. Lines!TypeOK /\ AnswersFit /\ LoopFits
  BY DEF LinesInv
<1>2. /\ writes' \in Seq({"answer", "message"}) /\ Len(writes') = Len(writes) + 1
      /\ Len(writes) \in Nat /\ writes'[Len(writes) + 1] = "message"
      /\ \A i \in 1 .. Len(writes) : writes'[i] = writes[i]
  BY <1>0, <1>1, TypesOfLines, AppendedAnswer
<1>3. Lines!TypeOK' /\ LoopFits'
  <2>1. linesSent' \in 0 .. MaxLines
    BY <1>0, <1>1, StreamBoundsAssumption DEF Lines!TypeOK
  <2>2. Lines!TypeOK'
    BY <1>0, <1>1, <1>2, <2>1, Zenon DEF Lines!TypeOK
  <2> QED BY <1>0, <1>1, <2>2 DEF LoopFits
<1>4. AnswersFit'
  <2>1. \A i \in 1 .. Len(writes') : writes'[i] = "answer" <=> i \in 1 .. Len(writes) /\ writes[i] = "answer"
    <3>1. \A i \in 1 .. Len(writes') : i \in 1 .. Len(writes) \/ i = Len(writes) + 1
      BY <1>2
    <3>2. Len(writes) + 1 \notin 1 .. Len(writes)
      BY <1>2
    <3> QED BY <1>2, <3>1, <3>2
  <2>2. \A i \in 1 .. Len(writes) : i \in 1 .. Len(writes')
    BY <1>2
  <2>3. \A i, j \in 1 .. Len(writes') : writes'[i] = "answer" /\ writes'[j] = "answer" => i = j
    BY <1>1, <2>1 DEF AnswersFit
  <2>4. loop' = "answering" <=> \E i \in 1 .. Len(writes') : writes'[i] = "answer"
    BY <1>0, <1>1, <2>1, <2>2 DEF AnswersFit
  <2>5. loop' # "over" => answers' = Cardinality(Lines!Answers(linesWritten'))
                                         + (IF loop' = "answering" THEN 1 ELSE 0)
    BY <1>0, <1>1 DEF AnswersFit
  <2> QED BY <2>3, <2>4, <2>5 DEF AnswersFit
<1>5. /\ IsGoingOn' => IsGoingOn
      /\ IsEnding' => IsEnding
      /\ IsErrored' => IsErrored
  BY <1>0 DEF IsGoingOn, IsEnding, IsErrored
<1> QED BY <1>0, <1>3, <1>4, <1>5, LinesStayDone DEF LinesInv

LEMMA CancelKeeps == ASSUME LinesInv, Lines!Cancel PROVE LinesInv'
<1>0. /\ ~cancelled /\ cancelled' = TRUE /\ lineReadable' = "closed"
      /\ chunk' = chunk /\ pending' = pending /\ loop' = loop /\ last' = last
      /\ input' = input /\ output' = output /\ writes' = writes /\ linesWritten' = linesWritten
      /\ taken' = taken /\ messages' = messages /\ answers' = answers /\ linesSent' = linesSent
  BY DEF Lines!Cancel, Lines!outside
<1>1. Lines!TypeOK' /\ AnswersFit' /\ LoopFits'
  <2>1. lineReadable' \in {"open", "closed", "errored"} /\ cancelled' \in BOOLEAN
    BY <1>0
  <2>2. Lines!TypeOK'
    BY <1>0, <2>1, Zenon DEF LinesInv, Lines!TypeOK
  <2> QED BY <1>0, <2>2 DEF LinesInv, AnswersFit, LoopFits
<1>2. /\ IsGoingOn' => IsGoingOn
      /\ IsEnding' => IsEnding
      /\ IsErrored' => IsErrored
  BY <1>0 DEF IsGoingOn, IsEnding, IsErrored
<1> QED BY <1>0, <1>1, <1>2, LinesStayDone DEF LinesInv

LEMMA LinesNextKeeps == LinesInv /\ [Lines!Next]_lineVars => LinesInv'
<1> SUFFICES ASSUME LinesInv, [Lines!Next]_lineVars PROVE LinesInv'
  OBVIOUS
<1>1. ASSUME NEW n \in 1 .. MaxInput, NEW bytes \in [1 .. n -> Lines!Bytes], Lines!ReadChunk(bytes)
      PROVE  LinesInv'
  BY <1>1, ReadChunkKeeps
<1>2. CASE Lines!Split
  BY <1>2, SplitKeeps
<1>3. CASE Lines!ReadEnd
  BY <1>3, ReadEndKeeps
<1>4. CASE Lines!CloseReadable
  BY <1>4, CloseReadableKeeps
<1>5. CASE Lines!ReadFails
  BY <1>5, ReadFailsKeeps
<1>6. CASE Lines!StopLoop
  BY <1>6, StopLoopKeeps
<1>7. CASE Lines!Write
  BY <1>7, WriteKeeps
<1>8. CASE Lines!WriteFails
  BY <1>8, WriteFailsKeeps
<1>9. ASSUME NEW how \in {"ended", "failed"}, Lines!InputStops(how) PROVE LinesInv'
  BY <1>9, InputStopsKeeps
<1>10. CASE Lines!UserWrites
  BY <1>10, UserWritesKeeps
<1>11. CASE Lines!Cancel
  BY <1>11, CancelKeeps
<1>12. CASE UNCHANGED lineVars
  <2>0. /\ cancelled' = cancelled /\ lineReadable' = lineReadable
        /\ chunk' = chunk /\ pending' = pending /\ loop' = loop /\ last' = last
        /\ input' = input /\ output' = output /\ writes' = writes /\ linesWritten' = linesWritten
        /\ taken' = taken /\ messages' = messages /\ answers' = answers /\ linesSent' = linesSent
    BY <1>12 DEF lineVars
  <2>1. Lines!TypeOK'
    BY <2>0, Zenon DEF LinesInv, Lines!TypeOK
  <2>2. AnswersFit' /\ LoopFits'
    BY <2>0 DEF LinesInv, AnswersFit, LoopFits
  <2>3. /\ IsGoingOn' => IsGoingOn
        /\ IsEnding' => IsEnding
        /\ IsErrored' => IsErrored
    BY <2>0 DEF IsGoingOn, IsEnding, IsErrored
  <2> QED BY <2>0, <2>1, <2>2, <2>3, LinesStayDone DEF LinesInv
<1> QED BY <1>1, <1>2, <1>3, <1>4, <1>5, <1>6, <1>7, <1>8, <1>9, <1>10, <1>11, <1>12 DEF Lines!Next

LEMMA LinesInvSuffices == LinesInv => MessagesAreTheLines
<1> SUFFICES ASSUME LinesInv, ~cancelled PROVE MessagesAreTheLines
  BY DEF MessagesAreTheLines, Lines!MessagesAreTheLines
<1>1. /\ Lines!TypeOK /\ AllLines \in Seq(Seq(Bytes))
      /\ AllLines = Append(Lines!LinesOf(taken), Lines!RestOf(taken))
  BY TypesOfLines, Zenon DEF LinesInv, AllLines
<1>2. \A S : Lines!Cardinality(S) = Cardinality(S)
  BY CardinalityIs
<1>3. ASSUME loop = "reading"
      PROVE  /\ AllLines = Lines!Allowed(AllLines)
             /\ messages = Lines!MessagesOf(Lines!LinesOf(taken))
             /\ answers = Cardinality(Lines!BadOnes(Lines!LinesOf(taken)))
             /\ answers = Cardinality(Lines!Answers(linesWritten))
  <2>1. PICK k \in 0 .. Len(taken) :
            /\ k = 0 \/ taken[k] = "LF"
            /\ Behind(k)
            /\ Done(Lines!LinesOf(Before(taken, k)))
    BY <1>3 DEF LinesInv, InTheMiddle, IsGoingOn
  <2>2. chunk = <<>> /\ ~Lines!TooLong(pending) /\ pending \in Seq(Bytes)
    BY <1>1, <1>3, TypesOfLines DEF LinesInv, LoopFits, InTheMiddle, IsGoingOn
  <2>3. /\ AllLines = Append(Lines!LinesOf(taken), pending)
        /\ Lines!LinesOf(taken) = Lines!LinesOf(Before(taken, k))
        /\ Lines!LinesOf(taken) \in Seq(Seq(Bytes))
    BY <1>1, <2>1, <2>2, PendingIsTheRest
  <2>4. Fits(Lines!LinesOf(taken))
    BY <2>1, <2>3, Zenon DEF Done
  <2>5. Fits(AllLines)
    BY <2>2, <2>3, <2>4, FitsOneMore
  <2>6. Lines!Allowed(AllLines) = AllLines
    BY <1>1, <2>5, AllAllowed
  <2>7. /\ messages = Lines!MessagesOf(Lines!LinesOf(taken))
        /\ answers = Cardinality(Lines!BadOnes(Lines!LinesOf(taken)))
    BY <2>1, <2>3, Zenon DEF Done
  <2>8. answers = Cardinality(Lines!Answers(linesWritten))
    <3>1. answers = Cardinality(Lines!Answers(linesWritten)) + 0
      BY <1>3 DEF LinesInv, AnswersFit
    <3>2. Cardinality(Lines!Answers(linesWritten)) \in Nat
      BY <1>1, TypesOfLines, AnswersOfOneMore
    <3> QED BY <3>1, <3>2
  <2> QED BY <2>6, <2>7, <2>8
<1>4. ASSUME lineReadable = "closed"
      PROVE  /\ AllLines = Lines!Allowed(AllLines)
             /\ messages = Lines!MessagesOf(AllLines)
             /\ answers = Cardinality(Lines!BadOnes(AllLines))
  <2>1. Done(AllLines)
    BY <1>4 DEF LinesInv, AtTheEnd, IsEnding
  <2> QED BY <1>1, <2>1, AllAllowed DEF Done
<1>5. ASSUME lineReadable = "errored", input # "failed", output = "good"
      PROVE  /\ AllLines # Lines!Allowed(AllLines)
             /\ messages = Lines!MessagesOf(Lines!Allowed(AllLines))
  BY <1>5 DEF LinesInv, AtAnError, IsErrored
<1> QED BY <1>1, <1>2, <1>3, <1>4, <1>5, Zenon DEF MessagesAreTheLines, Lines!MessagesAreTheLines

(* NdJsonStream's variables keep their types. *)
THEOREM LinesTypeCorrect == StreamsSpec => []Lines!TypeOK
<1>1. StreamsInit => LinesInv
  BY InitLinesInv DEF StreamsInit
<1>2. LinesInv /\ [HttpNext \/ LinesNext]_<<transport, vars, lineVars>> => LinesInv'
  <2>1. [HttpNext \/ LinesNext]_<<transport, vars, lineVars>> => [Lines!Next]_lineVars
    BY DEF HttpNext, LinesNext
  <2> QED BY <2>1, LinesNextKeeps
<1>3. LinesInv => Lines!TypeOK
  BY DEF LinesInv
<1> QED BY <1>1, <1>2, <1>3, PTL DEF StreamsSpec

(* However the bytes of the input come in chunks, whatever the reader and  *)
(* the output do meanwhile, and however many lines there are: the messages *)
(* are those of the lines, in order and none missing, each bad line has an *)
(* answer before the next one is looked at, and only a line that is longer *)
(* than the limit ends the stream before its input does.                   *)
THEOREM LinesBecomeMessages == StreamsSpec => []MessagesAreTheLines
<1>1. StreamsInit => LinesInv
  BY InitLinesInv DEF StreamsInit
<1>2. LinesInv /\ [HttpNext \/ LinesNext]_<<transport, vars, lineVars>> => LinesInv'
  <2>1. [HttpNext \/ LinesNext]_<<transport, vars, lineVars>> => [Lines!Next]_lineVars
    BY DEF HttpNext, LinesNext
  <2> QED BY <2>1, LinesNextKeeps
<1> QED BY <1>1, <1>2, LinesInvSuffices, PTL DEF StreamsSpec
-----------------------------------------------------------------------------
(* The stream over HTTP.                                                   *)

(* What a write under way, and one that is over, say of the connection: it *)
(* is named once, by the response to initialize, and known to the stream   *)
(* only if that could be read.                                             *)
WriteFits ==
    /\ write # "none" => writable = "open"
    /\ write = "initialize" => ~learned
    /\ write \in {"initialize", "body", "cleanup"} => ~connectionId
    /\ write \in {"stream", "opened", "ready", "post"} => connectionId
    /\ learned => connectionId \/ write \in {"body", "cleanup"} \/ writable = "errored"
    /\ message.request # 0 => message.session \in Sessions

(* A stream that is closed has deleted the connection that it knows, and   *)
(* a write that failed has done so too if it learned the connection.       *)
DeletedWhenOver ==
    /\ isClosed <=> teardown # "none"
    /\ isClosed /\ connectionId => deletes # {}
    /\ write = "cleanup" => isClosed /\ deletes # {}
    /\ learned /\ writable = "errored" => deletes # {}

(* The cookie comes back after the teardown only with a response to        *)
(* initialize that is late, and for as long as its DELETE is under way.    *)
NoCookieAfter == teardown = "done" /\ learned /\ write # "cleanup" => ~cookies

(* The stream that a write waits for is about to open. *)
WaitsForOpening ==
    write = "stream" =>
        message.session \in Sessions /\ sessionStreams[message.session] = "opening"

(* The inductive invariant. *)
HttpInv ==
    /\ TypeOK
    /\ WriteFits
    /\ DeletedWhenOver
    /\ NoCookieAfter
    /\ WaitsForOpening

(* The values of each variable. *)
LEMMA HttpTypes ==
    /\ TypeOK => /\ isClosed \in BOOLEAN /\ connectionId \in BOOLEAN
                 /\ cookies \in BOOLEAN /\ learned \in BOOLEAN
    /\ TypeOK' => /\ isClosed' \in BOOLEAN /\ connectionId' \in BOOLEAN
                  /\ cookies' \in BOOLEAN /\ learned' \in BOOLEAN
BY DEF TypeOK

LEMMA InitHttpInv == Init => HttpInv
<1> SUFFICES ASSUME Init PROVE HttpInv
  OBVIOUS
<1> USE DEF Init
<1>1. TypeOK
  <2>1. written \in 0 .. MaxRequests
    BY StreamBoundsAssumption
  <2> QED BY <2>1 DEF TypeOK, NoMessage
<1>2. WriteFits
  BY DEF WriteFits, NoMessage
<1>3. DeletedWhenOver /\ NoCookieAfter /\ WaitsForOpening
  BY DEF DeletedWhenOver, NoCookieAfter, WaitsForOpening
<1> QED BY <1>1, <1>2, <1>3 DEF HttpInv

(* Whatever ends the stream has it closed, and the connection deleted if   *)
(* its id is at hand.                                                      *)
Closes(hasId) ==
    /\ isClosed' = TRUE
    /\ teardown' \in {"closing", "erroring", "done"}
    /\ teardown' = "done" => teardown = "done"
    /\ deletes \subseteq deletes' /\ deletes' \subseteq [cookie : BOOLEAN]
    /\ ~isClosed /\ hasId => deletes' # {}

LEMMA Deleting ==
    ASSUME TypeOK, NEW hasId \in BOOLEAN, NEW hasCookie \in BOOLEAN,
           DeleteConnection(hasId, hasCookie)
    PROVE  /\ deletes \subseteq deletes' /\ deletes' \subseteq [cookie : BOOLEAN]
           /\ hasId => deletes' # {}
<1>1. deletes \subseteq [cookie : BOOLEAN]
  BY DEF TypeOK
<1>2. [cookie |-> hasCookie] \in [cookie : BOOLEAN]
  OBVIOUS
<1> QED BY <1>1, <1>2 DEF DeleteConnection

LEMMA ErrorReadableCloses ==
    ASSUME HttpInv, NEW hasId \in BOOLEAN, ErrorReadable(hasId)
    PROVE  Closes(hasId) /\ readable' \in {"open", "closed", "errored"}
<1>1. TypeOK /\ cookies \in BOOLEAN /\ isClosed \in BOOLEAN /\ readable \in {"open", "closed", "errored"}
  BY HttpTypes DEF HttpInv, TypeOK
<1>2. CASE isClosed
  <2>1. UNCHANGED <<isClosed, readable, teardown, deletes>>
    BY <1>2 DEF ErrorReadable
  <2>2. teardown \in {"closing", "erroring", "done"} /\ deletes \subseteq [cookie : BOOLEAN]
    BY <1>1, <1>2 DEF HttpInv, DeletedWhenOver, TypeOK
  <2> QED BY <1>1, <1>2, <2>1, <2>2 DEF Closes
<1>3. CASE ~isClosed
  <2>1. /\ isClosed' = TRUE /\ readable' = "errored" /\ teardown' = "erroring"
        /\ DeleteConnection(hasId, cookies)
    BY <1>3 DEF ErrorReadable
  <2>2. /\ deletes \subseteq deletes' /\ deletes' \subseteq [cookie : BOOLEAN]
        /\ hasId => deletes' # {}
    BY <1>1, <2>1, Deleting
  <2> QED BY <2>1, <2>2 DEF Closes
<1> QED BY <1>2, <1>3

LEMMA CloseCloses ==
    ASSUME HttpInv, CloseEffects
    PROVE  Closes(connectionId)
<1>1. TypeOK /\ cookies \in BOOLEAN /\ isClosed \in BOOLEAN /\ connectionId \in BOOLEAN
  BY HttpTypes DEF HttpInv
<1>2. CASE isClosed
  <2>1. UNCHANGED <<isClosed, teardown, deletes>>
    BY <1>2 DEF CloseEffects
  <2>2. teardown \in {"closing", "erroring", "done"} /\ deletes \subseteq [cookie : BOOLEAN]
    BY <1>1, <1>2 DEF HttpInv, DeletedWhenOver, TypeOK
  <2> QED BY <1>1, <1>2, <2>1, <2>2 DEF Closes
<1>3. CASE ~isClosed
  <2>1. isClosed' = TRUE /\ teardown' = "closing" /\ DeleteConnection(connectionId, cookies)
    BY <1>3 DEF CloseEffects
  <2>2. /\ deletes \subseteq deletes' /\ deletes' \subseteq [cookie : BOOLEAN]
        /\ connectionId => deletes' # {}
    BY <1>1, <2>1, Deleting
  <2> QED BY <2>1, <2>2 DEF Closes
<1> QED BY <1>2, <1>3

(* The parts of the invariant after a step that closes the stream, if it   *)
(* leaves the connection's id and cookie alone.                            *)
LEMMA ClosingKeeps ==
    ASSUME HttpInv, NEW hasId \in BOOLEAN, Closes(hasId), connectionId => hasId,
           UNCHANGED <<connectionId, cookies, learned>>,
           write' = "cleanup" <=> write = "cleanup",
           learned /\ writable' = "errored" /\ writable # "errored" => hasId /\ connectionId
    PROVE  DeletedWhenOver' /\ NoCookieAfter'
<1>1. /\ isClosed' = TRUE /\ teardown' \in {"closing", "erroring", "done"}
      /\ teardown' = "done" => teardown = "done"
      /\ deletes # {} => deletes' # {}
      /\ ~isClosed /\ hasId => deletes' # {}
  BY DEF Closes
<1>2. /\ isClosed /\ connectionId => deletes # {}
      /\ write = "cleanup" => isClosed /\ deletes # {}
      /\ learned /\ writable = "errored" => deletes # {}
      /\ isClosed \in BOOLEAN
  BY HttpTypes DEF HttpInv, DeletedWhenOver
<1>3. connectionId' = connectionId /\ cookies' = cookies /\ learned' = learned
  OBVIOUS
<1>4. connectionId => deletes' # {}
  BY <1>1, <1>2
<1>5. learned /\ writable' = "errored" => deletes' # {}
  BY <1>1, <1>2, <1>4
<1>6. DeletedWhenOver'
  BY <1>1, <1>2, <1>3, <1>4, <1>5 DEF DeletedWhenOver
<1>7. NoCookieAfter'
  BY <1>1, <1>3 DEF HttpInv, NoCookieAfter
<1> QED BY <1>6, <1>7

-----------------------------------------------------------------------------
(* Ending the stream.                                                      *)
LEMMA HttpCancelKeeps == ASSUME HttpInv, Cancel PROVE HttpInv'
<1>1. /\ readable' = "closed" /\ CloseEffects
      /\ connectionId' = connectionId /\ write' = write /\ message' = message
      /\ writable' = writable /\ connectionStream' = connectionStream
      /\ sessionStreams' = sessionStreams /\ pendingSessionRequests' = pendingSessionRequests
      /\ written' = written /\ cookies' = cookies /\ learned' = learned
  BY DEF Cancel
<1>2. Closes(connectionId) /\ connectionId \in BOOLEAN
  BY <1>1, CloseCloses, HttpTypes DEF HttpInv
<1>3. TypeOK'
  BY <1>1, <1>2 DEF HttpInv, TypeOK, Closes
<1>4. DeletedWhenOver' /\ NoCookieAfter'
  BY <1>1, <1>2, ClosingKeeps
<1>5. WriteFits' /\ WaitsForOpening'
  BY <1>1 DEF HttpInv, WriteFits, WaitsForOpening
<1> QED BY <1>3, <1>4, <1>5 DEF HttpInv

LEMMA CloseWritableKeeps == ASSUME HttpInv, CloseWritable PROVE HttpInv'
<1>1. /\ writable = "open" /\ write = "none" /\ writable' = "closed" /\ CloseEffects
      /\ connectionId' = connectionId /\ write' = write /\ message' = message
      /\ readable' = readable /\ connectionStream' = connectionStream
      /\ sessionStreams' = sessionStreams /\ pendingSessionRequests' = pendingSessionRequests
      /\ written' = written /\ cookies' = cookies /\ learned' = learned
  BY DEF CloseWritable
<1>2. Closes(connectionId) /\ connectionId \in BOOLEAN
  BY <1>1, CloseCloses, HttpTypes DEF HttpInv
<1>3. TypeOK'
  BY <1>1, <1>2 DEF HttpInv, TypeOK, Closes
<1>4. DeletedWhenOver' /\ NoCookieAfter'
  BY <1>1, <1>2, ClosingKeeps
<1>5. WriteFits' /\ WaitsForOpening'
  BY <1>1 DEF HttpInv, WriteFits, WaitsForOpening
<1> QED BY <1>3, <1>4, <1>5 DEF HttpInv

LEMMA FinishTeardownKeeps == ASSUME HttpInv, FinishTeardown PROVE HttpInv'
<1>1. /\ teardown \in {"closing", "erroring"} /\ teardown' = "done" /\ cookies' = FALSE
      /\ readable' \in {"closed", readable}
      /\ isClosed' = isClosed /\ deletes' = deletes
      /\ connectionId' = connectionId /\ write' = write /\ message' = message
      /\ writable' = writable /\ connectionStream' = connectionStream
      /\ sessionStreams' = sessionStreams /\ pendingSessionRequests' = pendingSessionRequests
      /\ written' = written /\ learned' = learned
  BY DEF FinishTeardown
<1>2. TypeOK'
  BY <1>1 DEF HttpInv, TypeOK
<1>3. DeletedWhenOver' /\ NoCookieAfter'
  BY <1>1 DEF HttpInv, DeletedWhenOver, NoCookieAfter
<1>4. WriteFits' /\ WaitsForOpening'
  BY <1>1 DEF HttpInv, WriteFits, WaitsForOpening
<1> QED BY <1>2, <1>3, <1>4 DEF HttpInv

-----------------------------------------------------------------------------
(* initialize.                                                             *)
LEMMA NoMessageIs ==
    /\ NoMessage \in [session : Sessions \cup {NoSession}, request : {0} \cup Requests]
    /\ NoMessage.request = 0
BY DEF NoMessage

LEMMA WriteFirstKeeps ==
    ASSUME HttpInv, NEW isInitialize \in BOOLEAN, WriteFirst(isInitialize) PROVE HttpInv'
<1>1. /\ write = "none" /\ writable = "open" /\ ~connectionId
      /\ connectionId' = connectionId /\ connectionStream' = connectionStream
      /\ sessionStreams' = sessionStreams /\ pendingSessionRequests' = pendingSessionRequests
      /\ written' = written /\ cookies' = cookies /\ learned' = learned
  BY DEF WriteFirst
<1>2. ~learned
  BY <1>1 DEF HttpInv, WriteFits
<1>3. CASE isClosed \/ ~isInitialize
  <2>1. write' = "none" /\ message' = NoMessage /\ writable' = "errored" /\ ErrorReadable(FALSE)
    BY <1>3 DEF WriteFirst, WriteFails
  <2>2. Closes(FALSE) /\ readable' \in {"open", "closed", "errored"}
    BY <2>1, ErrorReadableCloses
  <2>3. TypeOK'
    BY <1>1, <2>1, <2>2, NoMessageIs DEF HttpInv, TypeOK, Closes
  <2>4. DeletedWhenOver' /\ NoCookieAfter'
    BY <1>1, <1>2, <2>1, <2>2, ClosingKeeps
  <2>5. WriteFits' /\ WaitsForOpening'
    BY <1>1, <1>2, <2>1, NoMessageIs DEF WriteFits, WaitsForOpening
  <2> QED BY <2>3, <2>4, <2>5 DEF HttpInv
<1>4. CASE ~isClosed /\ isInitialize
  <2>1. /\ write' = "initialize" /\ message' = message /\ writable' = writable
        /\ isClosed' = isClosed /\ readable' = readable /\ teardown' = teardown
        /\ deletes' = deletes
    BY <1>4 DEF WriteFirst
  <2>2. TypeOK'
    BY <1>1, <2>1 DEF HttpInv, TypeOK
  <2>3. DeletedWhenOver' /\ NoCookieAfter'
    BY <1>1, <1>2, <2>1 DEF HttpInv, DeletedWhenOver, NoCookieAfter
  <2>4. WriteFits' /\ WaitsForOpening'
    BY <1>1, <1>2, <2>1 DEF HttpInv, WriteFits, WaitsForOpening
  <2> QED BY <2>2, <2>3, <2>4 DEF HttpInv
<1> QED BY <1>3, <1>4

(* The connection that a late response names is deleted at once. *)
LEMMA DeletingLate ==
    ASSUME TypeOK, cookies' \in BOOLEAN, DeletesLate
    PROVE  /\ deletes' \subseteq [cookie : BOOLEAN] /\ deletes' # {}
           /\ write' = "cleanup" /\ message' = message /\ writable' = writable
<1>1. /\ DeleteConnection(TRUE, cookies')
      /\ write' = "cleanup" /\ message' = message /\ writable' = writable
  BY DEF DeletesLate
<1>2. deletes' = deletes \cup {[cookie |-> cookies']}
  BY <1>1 DEF DeleteConnection
<1>3. deletes \subseteq [cookie : BOOLEAN]
  BY DEF TypeOK
<1>4. [cookie |-> cookies'] \in [cookie : BOOLEAN]
  OBVIOUS
<1>5. deletes' \subseteq [cookie : BOOLEAN] /\ deletes' # {}
  BY <1>2, <1>3, <1>4, Zenon
<1> QED BY <1>1, <1>5

LEMMA InitializeAnsweredKeeps ==
    ASSUME HttpInv, NEW hasId \in BOOLEAN, NEW setsCookie \in BOOLEAN,
           InitializeAnswered(hasId, setsCookie)
    PROVE  HttpInv'
<1>1. /\ write = "initialize" /\ learned' = hasId /\ cookies' = (cookies \/ setsCookie)
      /\ connectionId' = connectionId /\ connectionStream' = connectionStream
      /\ sessionStreams' = sessionStreams /\ pendingSessionRequests' = pendingSessionRequests
      /\ written' = written
  BY DEF InitializeAnswered
<1>2. ~learned /\ ~connectionId /\ writable = "open" /\ TypeOK
  BY <1>1 DEF HttpInv, WriteFits
<1>3. cookies' \in BOOLEAN /\ learned' \in BOOLEAN
  BY <1>1, <1>2, HttpTypes
<1>4. CASE hasId /\ isClosed
  <2>1. /\ DeletesLate
        /\ isClosed' = isClosed /\ readable' = readable /\ teardown' = teardown
    BY <1>4 DEF InitializeAnswered
  <2>2. /\ deletes' \subseteq [cookie : BOOLEAN] /\ deletes' # {}
        /\ write' = "cleanup" /\ message' = message /\ writable' = writable
    BY <1>2, <1>3, <2>1, DeletingLate
  <2>3. TypeOK'
    BY <1>1, <1>3, <2>1, <2>2 DEF HttpInv, TypeOK
  <2>4. DeletedWhenOver' /\ NoCookieAfter'
    BY <1>1, <1>4, <2>1, <2>2 DEF HttpInv, DeletedWhenOver, NoCookieAfter
  <2>5. WriteFits' /\ WaitsForOpening'
    BY <1>1, <1>2, <1>4, <2>2 DEF HttpInv, WriteFits, WaitsForOpening
  <2> QED BY <2>3, <2>4, <2>5 DEF HttpInv
<1>5. CASE hasId /\ ~isClosed
  <2>1. /\ write' = "body" /\ message' = message /\ writable' = writable
        /\ isClosed' = isClosed /\ readable' = readable /\ teardown' = teardown
        /\ deletes' = deletes
    BY <1>5 DEF InitializeAnswered
  <2>2. TypeOK'
    BY <1>1, <1>3, <2>1 DEF HttpInv, TypeOK
  <2>3. DeletedWhenOver' /\ NoCookieAfter'
    BY <1>1, <1>2, <1>5, <2>1 DEF HttpInv, DeletedWhenOver, NoCookieAfter
  <2>4. WriteFits' /\ WaitsForOpening'
    BY <1>1, <1>2, <1>5, <2>1 DEF HttpInv, WriteFits, WaitsForOpening
  <2> QED BY <2>2, <2>3, <2>4 DEF HttpInv
<1>6. CASE ~hasId
  <2>1. write' = "none" /\ message' = NoMessage /\ writable' = "errored" /\ ErrorReadable(FALSE)
    BY <1>6 DEF InitializeAnswered, WriteFails
  <2>2. Closes(FALSE) /\ readable' \in {"open", "closed", "errored"}
    BY <2>1, ErrorReadableCloses
  <2>3. TypeOK'
    BY <1>1, <1>3, <2>1, <2>2, NoMessageIs DEF HttpInv, TypeOK, Closes
  <2>4. DeletedWhenOver' /\ NoCookieAfter'
    BY <1>1, <1>2, <1>6, <2>1, <2>2 DEF HttpInv, DeletedWhenOver, NoCookieAfter, Closes
  <2>5. WriteFits' /\ WaitsForOpening'
    BY <1>1, <1>2, <1>6, <2>1, NoMessageIs DEF WriteFits, WaitsForOpening
  <2> QED BY <2>3, <2>4, <2>5 DEF HttpInv
<1> QED BY <1>4, <1>5, <1>6

LEMMA InitializeReadKeeps ==
    ASSUME HttpInv, NEW isResponse \in BOOLEAN, InitializeRead(isResponse) PROVE HttpInv'
<1>1. /\ write = "body" /\ sessionStreams' = sessionStreams
      /\ pendingSessionRequests' = pendingSessionRequests
      /\ written' = written /\ learned' = learned
  BY DEF InitializeRead
<1>2. ~connectionId /\ writable = "open" /\ TypeOK /\ cookies \in BOOLEAN
  BY <1>1, HttpTypes DEF HttpInv, WriteFits
<1>3. CASE isClosed
  <2>1. /\ DeletesLate
        /\ isClosed' = isClosed /\ readable' = readable /\ teardown' = teardown
        /\ connectionId' = connectionId /\ connectionStream' = connectionStream
        /\ cookies' = cookies
    BY <1>3 DEF InitializeRead
  <2>2. /\ deletes' \subseteq [cookie : BOOLEAN] /\ deletes' # {}
        /\ write' = "cleanup" /\ message' = message /\ writable' = writable
    BY <1>2, <2>1, DeletingLate
  <2>3. TypeOK'
    BY <1>1, <2>1, <2>2 DEF HttpInv, TypeOK
  <2>4. DeletedWhenOver' /\ NoCookieAfter'
    BY <1>1, <1>3, <2>1, <2>2 DEF HttpInv, DeletedWhenOver, NoCookieAfter
  <2>5. WriteFits' /\ WaitsForOpening'
    BY <1>1, <1>2, <2>1, <2>2 DEF HttpInv, WriteFits, WaitsForOpening
  <2> QED BY <2>3, <2>4, <2>5 DEF HttpInv
<1>4. CASE ~isClosed /\ isResponse
  <2>1. /\ write' = "none" /\ message' = NoMessage /\ writable' = writable
        /\ connectionId' = TRUE /\ connectionStream' = "opening"
        /\ isClosed' = isClosed /\ readable' = readable /\ teardown' = teardown
        /\ deletes' = deletes /\ cookies' = cookies
    BY <1>4 DEF InitializeRead, WriteDone
  <2>2. TypeOK'
    BY <1>1, <2>1, NoMessageIs DEF HttpInv, TypeOK
  <2>3. DeletedWhenOver' /\ NoCookieAfter'
    BY <1>1, <1>4, <2>1 DEF HttpInv, DeletedWhenOver, NoCookieAfter
  <2>4. WriteFits' /\ WaitsForOpening'
    BY <1>1, <1>2, <2>1, NoMessageIs DEF WriteFits, WaitsForOpening
  <2> QED BY <2>2, <2>3, <2>4 DEF HttpInv
<1>5. CASE ~isClosed /\ ~isResponse
  <2>1. /\ write' = "none" /\ message' = NoMessage /\ writable' = "errored"
        /\ ErrorReadable(TRUE)
        /\ connectionId' = connectionId /\ connectionStream' = connectionStream
        /\ cookies' = cookies
    BY <1>5 DEF InitializeRead, WriteFails
  <2>2. Closes(TRUE) /\ readable' \in {"open", "closed", "errored"}
    BY <2>1, ErrorReadableCloses
  <2>3. TypeOK'
    BY <1>1, <2>1, <2>2, NoMessageIs DEF HttpInv, TypeOK, Closes
  <2>4. DeletedWhenOver' /\ NoCookieAfter'
    BY <1>1, <1>2, <1>5, <2>1, <2>2 DEF HttpInv, DeletedWhenOver, NoCookieAfter, Closes
  <2>5. WriteFits' /\ WaitsForOpening'
    BY <1>1, <1>2, <2>1, NoMessageIs DEF WriteFits, WaitsForOpening
  <2> QED BY <2>3, <2>4, <2>5 DEF HttpInv
<1> QED BY <1>3, <1>4, <1>5

LEMMA FinishCleanupKeeps == ASSUME HttpInv, FinishCleanup PROVE HttpInv'
<1>1. /\ write = "cleanup" /\ write' = "none" /\ message' = NoMessage /\ writable' = "errored"
      /\ cookies' = FALSE /\ isClosed' = isClosed /\ connectionId' = connectionId
      /\ readable' = readable /\ connectionStream' = connectionStream
      /\ sessionStreams' = sessionStreams /\ pendingSessionRequests' = pendingSessionRequests
      /\ written' = written /\ teardown' = teardown /\ learned' = learned
      /\ deletes' = deletes
  BY DEF FinishCleanup, WriteFails
<1>2. TypeOK'
  BY <1>1, NoMessageIs DEF HttpInv, TypeOK
<1>3. DeletedWhenOver' /\ NoCookieAfter'
  BY <1>1 DEF HttpInv, DeletedWhenOver, NoCookieAfter
<1>4. WriteFits' /\ WaitsForOpening'
  BY <1>1, NoMessageIs DEF WriteFits, WaitsForOpening
<1> QED BY <1>2, <1>3, <1>4 DEF HttpInv

-----------------------------------------------------------------------------
(* The other messages.                                                     *)
LEMMA HttpWriteKeeps ==
    ASSUME HttpInv, NEW s \in Sessions \cup {NoSession}, NEW isRequest \in BOOLEAN,
           Write(s, isRequest)
    PROVE  HttpInv'
<1>1. /\ write = "none" /\ writable = "open" /\ connectionId
      /\ isRequest => s # NoSession /\ written < MaxRequests
      /\ isClosed' = isClosed /\ connectionId' = connectionId /\ readable' = readable
      /\ connectionStream' = connectionStream
      /\ pendingSessionRequests' = pendingSessionRequests
      /\ cookies' = cookies /\ teardown' = teardown /\ learned' = learned
      /\ deletes' = deletes
  BY DEF Write
<1>2. written \in 0 .. MaxRequests /\ MaxRequests \in Nat
      /\ sessionStreams \in [Sessions -> {"none", "opening", "open"}]
  BY StreamBoundsAssumption DEF HttpInv, TypeOK
<1>3. CASE isClosed
  <2>1. /\ write' = "none" /\ message' = NoMessage /\ writable' = "errored"
        /\ sessionStreams' = sessionStreams /\ written' = written
    BY <1>3 DEF Write, WriteFails
  <2>2. TypeOK'
    BY <1>1, <2>1, NoMessageIs DEF HttpInv, TypeOK
  <2>3. DeletedWhenOver' /\ NoCookieAfter'
    BY <1>1, <1>3, <2>1 DEF HttpInv, DeletedWhenOver, NoCookieAfter
  <2>4. WriteFits' /\ WaitsForOpening'
    BY <1>1, <2>1, NoMessageIs DEF WriteFits, WaitsForOpening
  <2> QED BY <2>2, <2>3, <2>4 DEF HttpInv
<1>4. CASE ~isClosed
  <2>1. /\ message' = [session |-> s, request |-> IF isRequest THEN written + 1 ELSE 0]
        /\ written' = (IF isRequest THEN written + 1 ELSE written)
        /\ writable' = writable
        /\ s = NoSession => write' = "post" /\ sessionStreams' = sessionStreams
        /\ s # NoSession =>
               /\ write' = IF sessionStreams[s] = "open" THEN "ready" ELSE "stream"
               /\ sessionStreams' = OpenSessionStream(s)
    BY <1>4 DEF Write
  <2>2. /\ message'.session = s
        /\ message'.request = IF isRequest THEN written + 1 ELSE 0
    BY <2>1
  <2>3. written' \in 0 .. MaxRequests /\ message'.request \in {0} \cup Requests
    BY <1>1, <1>2, <2>1, <2>2 DEF Requests
  <2>4. message' \in [session : Sessions \cup {NoSession}, request : {0} \cup Requests]
    BY <2>1, <2>2, <2>3
  <2>5. sessionStreams' \in [Sessions -> {"none", "opening", "open"}]
    BY <1>2, <2>1 DEF OpenSessionStream
  <2>6. write' \in {"ready", "stream", "post"}
    BY <2>1
  <2>7. TypeOK'
    BY <1>1, <2>1, <2>3, <2>4, <2>5, <2>6 DEF HttpInv, TypeOK
  <2>8. DeletedWhenOver' /\ NoCookieAfter'
    BY <1>1, <1>4, <2>1, <2>6 DEF HttpInv, DeletedWhenOver, NoCookieAfter
  <2>9. WriteFits'
    BY <1>1, <2>1, <2>2, <2>6 DEF HttpInv, WriteFits
  <2>10. WaitsForOpening'
    <3>1. ASSUME write' = "stream"
          PROVE  s \in Sessions /\ sessionStreams'[s] = "opening"
      <4>1. /\ s # NoSession /\ s \in Sessions /\ sessionStreams[s] # "open"
            /\ sessionStreams' = OpenSessionStream(s)
        BY <2>1, <3>1
      <4>2. CASE sessionStreams[s] = "none"
        BY <1>2, <4>1, <4>2 DEF OpenSessionStream
      <4>3. CASE sessionStreams[s] = "opening"
        BY <1>2, <4>1, <4>3 DEF OpenSessionStream
      <4> QED BY <1>2, <4>1, <4>2, <4>3
    <3> QED BY <2>2, <3>1 DEF WaitsForOpening
  <2> QED BY <2>7, <2>8, <2>9, <2>10 DEF HttpInv
<1> QED BY <1>3, <1>4

LEMMA PostKeeps == ASSUME HttpInv, Post PROVE HttpInv'
<1>1. /\ write \in {"opened", "ready"} /\ write' = "post"
      /\ pendingSessionRequests' =
             IF message.request = 0
             THEN pendingSessionRequests
             ELSE pendingSessionRequests \cup {[id |-> message.request, session |-> message.session]}
      /\ isClosed' = isClosed /\ connectionId' = connectionId /\ message' = message
      /\ writable' = writable /\ readable' = readable
      /\ connectionStream' = connectionStream /\ sessionStreams' = sessionStreams
      /\ written' = written /\ cookies' = cookies /\ teardown' = teardown
      /\ learned' = learned /\ deletes' = deletes
  BY DEF Post
<1>2. pendingSessionRequests' \subseteq [id : Requests, session : Sessions]
  <2>1. /\ pendingSessionRequests \subseteq [id : Requests, session : Sessions]
        /\ message.request \in {0} \cup Requests
        /\ message.request # 0 => message.session \in Sessions
    BY DEF HttpInv, TypeOK, WriteFits
  <2>2. message.request # 0 =>
            [id |-> message.request, session |-> message.session] \in [id : Requests, session : Sessions]
    BY <2>1
  <2> QED BY <1>1, <2>1, <2>2
<1>3. TypeOK'
  BY <1>1, <1>2 DEF HttpInv, TypeOK
<1>4. DeletedWhenOver' /\ NoCookieAfter'
  BY <1>1 DEF HttpInv, DeletedWhenOver, NoCookieAfter
<1>5. WriteFits' /\ WaitsForOpening'
  BY <1>1 DEF HttpInv, WriteFits, WaitsForOpening
<1> QED BY <1>3, <1>4, <1>5 DEF HttpInv

LEMMA PostAnsweredKeeps == ASSUME HttpInv, NEW ok \in BOOLEAN, PostAnswered(ok) PROVE HttpInv'
<1>1. /\ write = "post" /\ (ok => ~isClosed)
      /\ connectionId' = connectionId /\ connectionStream' = connectionStream
      /\ sessionStreams' = sessionStreams /\ written' = written
      /\ cookies' = cookies /\ learned' = learned
  BY DEF PostAnswered
<1>2. connectionId /\ writable = "open"
  BY <1>1 DEF HttpInv, WriteFits
<1>3. CASE ok
  <2>1. /\ write' = "none" /\ message' = NoMessage /\ writable' = writable
        /\ pendingSessionRequests' = pendingSessionRequests
        /\ isClosed' = isClosed /\ readable' = readable /\ teardown' = teardown
        /\ deletes' = deletes
    BY <1>3 DEF PostAnswered, WriteDone
  <2>2. TypeOK'
    BY <1>1, <2>1, NoMessageIs DEF HttpInv, TypeOK
  <2>3. DeletedWhenOver' /\ NoCookieAfter'
    BY <1>1, <1>2, <2>1 DEF HttpInv, DeletedWhenOver, NoCookieAfter
  <2>4. WriteFits' /\ WaitsForOpening'
    BY <1>1, <1>2, <2>1, NoMessageIs DEF WriteFits, WaitsForOpening
  <2> QED BY <2>2, <2>3, <2>4 DEF HttpInv
<1>4. CASE ~ok
  <2>1. /\ write' = "none" /\ message' = NoMessage /\ writable' = "errored"
        /\ ErrorReadable(TRUE)
        /\ pendingSessionRequests' = {r \in pendingSessionRequests : r.id # message.request}
    BY <1>4 DEF PostAnswered, WriteFails
  <2>2. Closes(TRUE) /\ readable' \in {"open", "closed", "errored"}
    BY <2>1, ErrorReadableCloses
  <2>3. pendingSessionRequests' \subseteq pendingSessionRequests
    BY <2>1
  <2>4. TypeOK'
    BY <1>1, <2>1, <2>2, <2>3, NoMessageIs DEF HttpInv, TypeOK, Closes
  <2>5. DeletedWhenOver' /\ NoCookieAfter'
    BY <1>1, <1>2, <2>1, <2>2, ClosingKeeps
  <2>6. WriteFits' /\ WaitsForOpening'
    BY <1>1, <1>2, <2>1, NoMessageIs DEF WriteFits, WaitsForOpening
  <2> QED BY <2>4, <2>5, <2>6 DEF HttpInv
<1> QED BY <1>3, <1>4

-----------------------------------------------------------------------------
(* Event streams.                                                          *)
LEMMA SessionStreamOpensKeeps ==
    ASSUME HttpInv, NEW s \in Sessions, SessionStreamOpens(s) PROVE HttpInv'
<1>1. /\ sessionStreams[s] = "opening"
      /\ sessionStreams' = [sessionStreams EXCEPT ![s] = "open"]
      /\ write' = (IF write = "stream" /\ message.session = s THEN "opened" ELSE write)
      /\ isClosed' = isClosed /\ connectionId' = connectionId /\ message' = message
      /\ writable' = writable /\ readable' = readable
      /\ connectionStream' = connectionStream
      /\ pendingSessionRequests' = pendingSessionRequests
      /\ written' = written /\ cookies' = cookies /\ teardown' = teardown
      /\ learned' = learned /\ deletes' = deletes
  BY DEF SessionStreamOpens
<1>2. /\ sessionStreams \in [Sessions -> {"none", "opening", "open"}]
      /\ sessionStreams' \in [Sessions -> {"none", "opening", "open"}]
  BY <1>1 DEF HttpInv, TypeOK
<1>3. TypeOK'
  BY <1>1, <1>2 DEF HttpInv, TypeOK
<1>4. DeletedWhenOver' /\ NoCookieAfter'
  BY <1>1 DEF HttpInv, DeletedWhenOver, NoCookieAfter
<1>5. WriteFits'
  BY <1>1 DEF HttpInv, WriteFits
<1>6. WaitsForOpening'
  BY <1>1, <1>2 DEF HttpInv, WaitsForOpening
<1> QED BY <1>3, <1>4, <1>5, <1>6 DEF HttpInv

LEMMA SessionStreamFailsKeeps ==
    ASSUME HttpInv, NEW s \in Sessions, SessionStreamFails(s) PROVE HttpInv'
<1>1. /\ sessionStreams[s] # "none"
      /\ sessionStreams' = [sessionStreams EXCEPT ![s] = "none"]
      /\ RejectReady(s) /\ ErrorReadable(TRUE)
      /\ connectionId' = connectionId /\ connectionStream' = connectionStream
      /\ pendingSessionRequests' = pendingSessionRequests
      /\ written' = written /\ cookies' = cookies /\ learned' = learned
  BY DEF SessionStreamFails
<1>2. /\ sessionStreams \in [Sessions -> {"none", "opening", "open"}]
      /\ sessionStreams' \in [Sessions -> {"none", "opening", "open"}]
  BY <1>1 DEF HttpInv, TypeOK
<1>3. Closes(TRUE) /\ readable' \in {"open", "closed", "errored"}
  BY <1>1, ErrorReadableCloses
<1>4. CASE write = "stream" /\ message.session = s
  <2>1. write' = "none" /\ message' = NoMessage /\ writable' = "errored"
    BY <1>1, <1>4 DEF RejectReady, WriteFails
  <2>2. connectionId
    BY <1>4 DEF HttpInv, WriteFits
  <2>3. TypeOK'
    BY <1>1, <1>2, <1>3, <2>1, NoMessageIs DEF HttpInv, TypeOK, Closes
  <2>4. DeletedWhenOver' /\ NoCookieAfter'
    BY <1>1, <1>3, <1>4, <2>1, <2>2, ClosingKeeps
  <2>5. WriteFits' /\ WaitsForOpening'
    BY <1>1, <2>1, <2>2, NoMessageIs DEF WriteFits, WaitsForOpening
  <2> QED BY <2>3, <2>4, <2>5 DEF HttpInv
<1>5. CASE ~(write = "stream" /\ message.session = s)
  <2>1. write' = write /\ message' = message /\ writable' = writable
    BY <1>1, <1>5 DEF RejectReady
  <2>2. TypeOK'
    BY <1>1, <1>2, <1>3, <2>1 DEF HttpInv, TypeOK, Closes
  <2>3. DeletedWhenOver' /\ NoCookieAfter'
    BY <1>1, <1>3, <2>1, ClosingKeeps
  <2>4. WriteFits' /\ WaitsForOpening'
    BY <1>1, <1>2, <1>5, <2>1 DEF HttpInv, WriteFits, WaitsForOpening
  <2> QED BY <2>2, <2>3, <2>4 DEF HttpInv
<1> QED BY <1>4, <1>5

LEMMA SessionStreamEndsKeeps ==
    ASSUME HttpInv, NEW s \in Sessions, SessionStreamEnds(s) PROVE HttpInv'
<1>1. /\ sessionStreams[s] = "open"
      /\ sessionStreams' = [sessionStreams EXCEPT ![s] = "none"]
      /\ connectionId' = connectionId /\ write' = write /\ message' = message
      /\ writable' = writable /\ connectionStream' = connectionStream
      /\ pendingSessionRequests' = pendingSessionRequests
      /\ written' = written /\ cookies' = cookies /\ learned' = learned
  BY DEF SessionStreamEnds
<1>2. /\ sessionStreams \in [Sessions -> {"none", "opening", "open"}]
      /\ sessionStreams' \in [Sessions -> {"none", "opening", "open"}]
  BY <1>1 DEF HttpInv, TypeOK
<1>3. WriteFits' /\ WaitsForOpening'
  BY <1>1, <1>2 DEF HttpInv, WriteFits, WaitsForOpening
<1>4. CASE \E r \in pendingSessionRequests : r.session = s
  <2>1. ErrorReadable(TRUE)
    BY <1>4 DEF SessionStreamEnds
  <2>2. Closes(TRUE) /\ readable' \in {"open", "closed", "errored"}
    BY <2>1, ErrorReadableCloses
  <2>3. TypeOK'
    BY <1>1, <1>2, <2>2 DEF HttpInv, TypeOK, Closes
  <2>4. DeletedWhenOver' /\ NoCookieAfter'
    BY <1>1, <2>2, ClosingKeeps
  <2> QED BY <1>3, <2>3, <2>4 DEF HttpInv
<1>5. CASE ~(\E r \in pendingSessionRequests : r.session = s)
  <2>1. isClosed' = isClosed /\ readable' = readable /\ teardown' = teardown /\ deletes' = deletes
    BY <1>5 DEF SessionStreamEnds
  <2>2. TypeOK'
    BY <1>1, <1>2, <2>1 DEF HttpInv, TypeOK
  <2>3. DeletedWhenOver' /\ NoCookieAfter'
    BY <1>1, <2>1 DEF HttpInv, DeletedWhenOver, NoCookieAfter
  <2> QED BY <1>3, <2>2, <2>3 DEF HttpInv
<1> QED BY <1>4, <1>5

LEMMA ReceiveResponseKeeps ==
    ASSUME HttpInv, NEW r \in pendingSessionRequests, ReceiveResponse(r) PROVE HttpInv'
<1>1. /\ pendingSessionRequests' = pendingSessionRequests \ {r}
      /\ isClosed' = isClosed /\ connectionId' = connectionId /\ write' = write
      /\ message' = message /\ writable' = writable /\ readable' = readable
      /\ connectionStream' = connectionStream /\ sessionStreams' = sessionStreams
      /\ written' = written /\ cookies' = cookies /\ teardown' = teardown
      /\ learned' = learned /\ deletes' = deletes
  BY DEF ReceiveResponse
<1>2. TypeOK'
  BY <1>1 DEF HttpInv, TypeOK
<1>3. DeletedWhenOver' /\ NoCookieAfter'
  BY <1>1 DEF HttpInv, DeletedWhenOver, NoCookieAfter
<1>4. WriteFits' /\ WaitsForOpening'
  BY <1>1 DEF HttpInv, WriteFits, WaitsForOpening
<1> QED BY <1>2, <1>3, <1>4 DEF HttpInv

LEMMA ReceiveSessionKeeps ==
    ASSUME HttpInv, NEW s \in Sessions, ReceiveSession(s) PROVE HttpInv'
<1>1. /\ sessionStreams[s] = "none" /\ sessionStreams' = [sessionStreams EXCEPT ![s] = "opening"]
      /\ isClosed' = isClosed /\ connectionId' = connectionId /\ write' = write
      /\ message' = message /\ writable' = writable /\ readable' = readable
      /\ connectionStream' = connectionStream
      /\ pendingSessionRequests' = pendingSessionRequests
      /\ written' = written /\ cookies' = cookies /\ teardown' = teardown
      /\ learned' = learned /\ deletes' = deletes
  BY DEF ReceiveSession, OpenSessionStream
<1>2. /\ sessionStreams \in [Sessions -> {"none", "opening", "open"}]
      /\ sessionStreams' \in [Sessions -> {"none", "opening", "open"}]
  BY <1>1 DEF HttpInv, TypeOK
<1>3. TypeOK'
  BY <1>1, <1>2 DEF HttpInv, TypeOK
<1>4. DeletedWhenOver' /\ NoCookieAfter'
  BY <1>1 DEF HttpInv, DeletedWhenOver, NoCookieAfter
<1>5. WriteFits'
  BY <1>1 DEF HttpInv, WriteFits
<1>6. WaitsForOpening'
  BY <1>1, <1>2 DEF HttpInv, WaitsForOpening
<1> QED BY <1>3, <1>4, <1>5, <1>6 DEF HttpInv

LEMMA ConnectionStreamOpensKeeps == ASSUME HttpInv, ConnectionStreamOpens PROVE HttpInv'
<1>1. /\ connectionStream' = "open"
      /\ isClosed' = isClosed /\ connectionId' = connectionId /\ write' = write
      /\ message' = message /\ writable' = writable /\ readable' = readable
      /\ sessionStreams' = sessionStreams
      /\ pendingSessionRequests' = pendingSessionRequests
      /\ written' = written /\ cookies' = cookies /\ teardown' = teardown
      /\ learned' = learned /\ deletes' = deletes
  BY DEF ConnectionStreamOpens
<1>2. TypeOK'
  BY <1>1 DEF HttpInv, TypeOK
<1>3. DeletedWhenOver' /\ NoCookieAfter'
  BY <1>1 DEF HttpInv, DeletedWhenOver, NoCookieAfter
<1>4. WriteFits' /\ WaitsForOpening'
  BY <1>1 DEF HttpInv, WriteFits, WaitsForOpening
<1> QED BY <1>2, <1>3, <1>4 DEF HttpInv

LEMMA ConnectionStreamEndsKeeps == ASSUME HttpInv, ConnectionStreamEnds PROVE HttpInv'
<1>1. /\ connectionStream' = "none" /\ ErrorReadable(TRUE)
      /\ connectionId' = connectionId /\ write' = write
      /\ message' = message /\ writable' = writable
      /\ sessionStreams' = sessionStreams
      /\ pendingSessionRequests' = pendingSessionRequests
      /\ written' = written /\ cookies' = cookies /\ learned' = learned
  BY DEF ConnectionStreamEnds
<1>2. Closes(TRUE) /\ readable' \in {"open", "closed", "errored"}
  BY <1>1, ErrorReadableCloses
<1>3. TypeOK'
  BY <1>1, <1>2 DEF HttpInv, TypeOK, Closes
<1>4. DeletedWhenOver' /\ NoCookieAfter'
  BY <1>1, <1>2, ClosingKeeps
<1>5. WriteFits' /\ WaitsForOpening'
  BY <1>1 DEF HttpInv, WriteFits, WaitsForOpening
<1> QED BY <1>3, <1>4, <1>5 DEF HttpInv

LEMMA HttpNextKeeps == HttpInv /\ [Next]_vars => HttpInv'
<1> SUFFICES ASSUME HttpInv, [Next]_vars PROVE HttpInv'
  OBVIOUS
<1>1. CASE Cancel \/ CloseWritable \/ FinishTeardown
  BY <1>1, HttpCancelKeeps, CloseWritableKeeps, FinishTeardownKeeps
<1>2. ASSUME NEW isInitialize \in BOOLEAN, WriteFirst(isInitialize) PROVE HttpInv'
  BY <1>2, WriteFirstKeeps
<1>3. ASSUME NEW hasId \in BOOLEAN, NEW setsCookie \in BOOLEAN,
             InitializeAnswered(hasId, setsCookie)
      PROVE  HttpInv'
  BY <1>3, InitializeAnsweredKeeps
<1>4. ASSUME NEW isResponse \in BOOLEAN, InitializeRead(isResponse) PROVE HttpInv'
  BY <1>4, InitializeReadKeeps
<1>5. CASE FinishCleanup \/ Post
  BY <1>5, FinishCleanupKeeps, PostKeeps
<1>6. ASSUME NEW s \in Sessions \cup {NoSession}, NEW isRequest \in BOOLEAN,
             Write(s, isRequest)
      PROVE  HttpInv'
  BY <1>6, HttpWriteKeeps
<1>7. ASSUME NEW ok \in BOOLEAN, PostAnswered(ok) PROVE HttpInv'
  BY <1>7, PostAnsweredKeeps
<1>8. CASE SessionStreamStep
  <2>1. PICK s \in Sessions : \/ SessionStreamOpens(s) \/ SessionStreamFails(s)
                              \/ SessionStreamEnds(s) \/ ReceiveSession(s)
    BY <1>8 DEF SessionStreamStep
  <2> QED BY <2>1, SessionStreamOpensKeeps, SessionStreamFailsKeeps, SessionStreamEndsKeeps,
             ReceiveSessionKeeps
<1>9. ASSUME NEW r \in pendingSessionRequests, ReceiveResponse(r) PROVE HttpInv'
  BY <1>9, ReceiveResponseKeeps
<1>10. CASE ConnectionStreamOpens \/ ConnectionStreamEnds
  BY <1>10, ConnectionStreamOpensKeeps, ConnectionStreamEndsKeeps
<1>11. CASE UNCHANGED vars
  <2>1. /\ isClosed' = isClosed /\ connectionId' = connectionId /\ write' = write
        /\ message' = message /\ writable' = writable /\ readable' = readable
        /\ connectionStream' = connectionStream /\ sessionStreams' = sessionStreams
        /\ pendingSessionRequests' = pendingSessionRequests
        /\ written' = written /\ cookies' = cookies /\ teardown' = teardown
        /\ learned' = learned /\ deletes' = deletes
    BY <1>11 DEF vars
  <2>2. TypeOK'
    BY <2>1 DEF HttpInv, TypeOK
  <2>3. DeletedWhenOver' /\ NoCookieAfter' /\ WriteFits' /\ WaitsForOpening'
    BY <2>1 DEF HttpInv, DeletedWhenOver, NoCookieAfter, WriteFits, WaitsForOpening
  <2> QED BY <2>2, <2>3 DEF HttpInv
<1> QED BY <1>1, <1>2, <1>3, <1>4, <1>5, <1>6, <1>7, <1>8, <1>9, <1>10, <1>11 DEF Next

(* HttpStream's variables keep their types. *)
THEOREM HttpTypeCorrect == StreamsSpec => []TypeOK
<1>1. StreamsInit => HttpInv
  BY InitHttpInv DEF StreamsInit
<1>2. HttpInv /\ [HttpNext \/ LinesNext]_<<transport, vars, lineVars>> => HttpInv'
  <2>1. [HttpNext \/ LinesNext]_<<transport, vars, lineVars>> => [Next]_vars
    BY DEF HttpNext, LinesNext
  <2> QED BY <2>1, HttpNextKeeps
<1>3. HttpInv => TypeOK
  BY DEF HttpInv
<1> QED BY <1>1, <1>2, <1>3, PTL DEF StreamsSpec

(* A write waits for an event stream only while that is about to open: the *)
(* safety part of WritesGoOn, for any number of sessions.                  *)
THEOREM WritesWaitForOpening ==
    StreamsSpec => [](write = "stream" => sessionStreams[message.session] = "opening")
<1>1. StreamsInit => HttpInv
  BY InitHttpInv DEF StreamsInit
<1>2. HttpInv /\ [HttpNext \/ LinesNext]_<<transport, vars, lineVars>> => HttpInv'
  <2>1. [HttpNext \/ LinesNext]_<<transport, vars, lineVars>> => [Next]_vars
    BY DEF HttpNext, LinesNext
  <2> QED BY <2>1, HttpNextKeeps
<1>3. HttpInv => (write = "stream" => sessionStreams[message.session] = "opening")
  BY DEF HttpInv, WaitsForOpening
<1> QED BY <1>1, <1>2, <1>3, PTL DEF StreamsSpec

(* The teardown is done and no write is under way, nor will one be. *)
ItIsOver == teardown = "done" /\ write = "none"

Left == learned /\ (deletes = {} \/ cookies)

(* However and whenever the stream was ended, and however late the server  *)
(* named the connection: once the teardown is done and no write is under   *)
(* way the connection is deleted and its cookie gone, for good.  It is     *)
(* what NothingIsLeft promises; that the teardown does end is liveness.    *)
THEOREM NothingIsLeftBehind == StreamsSpec => [](ItIsOver => []~Left)
<1>1. StreamsInit => HttpInv
  BY InitHttpInv DEF StreamsInit
<1>2. HttpInv /\ [HttpNext \/ LinesNext]_<<transport, vars, lineVars>> => HttpInv'
  <2>1. [HttpNext \/ LinesNext]_<<transport, vars, lineVars>> => [Next]_vars
    BY DEF HttpNext, LinesNext
  <2> QED BY <2>1, HttpNextKeeps
<1>3. HttpInv /\ ItIsOver => ~Left
  <2> SUFFICES ASSUME HttpInv, ItIsOver, learned PROVE deletes # {} /\ ~cookies
    BY DEF Left
  <2>1. isClosed /\ teardown = "done" /\ write = "none"
    BY DEF HttpInv, DeletedWhenOver, ItIsOver
  <2>2. connectionId \/ writable = "errored"
    BY <2>1 DEF HttpInv, WriteFits
  <2> QED BY <2>1, <2>2 DEF HttpInv, DeletedWhenOver, NoCookieAfter
<1>4. HttpInv /\ ItIsOver /\ [HttpNext \/ LinesNext]_<<transport, vars, lineVars>> => ItIsOver'
  <2> SUFFICES ASSUME HttpInv, ItIsOver, [Next]_vars PROVE ItIsOver'
    BY DEF HttpNext, LinesNext
  <2>1. isClosed /\ teardown = "done" /\ write = "none"
    BY DEF HttpInv, DeletedWhenOver, ItIsOver
  <2>2. \A h : ErrorReadable(h) => teardown' = teardown
    BY <2>1 DEF ErrorReadable
  <2>3. CASE Cancel \/ CloseWritable
    BY <2>1, <2>3 DEF Cancel, CloseWritable, CloseEffects, ItIsOver
  <2>4. ASSUME NEW isInitialize \in BOOLEAN, WriteFirst(isInitialize) PROVE ItIsOver'
    <3>1. write' = "none" /\ ErrorReadable(FALSE)
      BY <2>1, <2>4 DEF WriteFirst, WriteFails
    <3> QED BY <2>1, <2>2, <3>1 DEF ItIsOver
  <2>5. ASSUME NEW s \in Sessions \cup {NoSession}, NEW isRequest \in BOOLEAN,
               Write(s, isRequest)
        PROVE  ItIsOver'
    BY <2>1, <2>5 DEF Write, WriteFails, ItIsOver
  <2>6. CASE SessionStreamStep
    <3>1. PICK s \in Sessions : SessionStreamFails(s)
      BY <2>1, <2>6 DEF SessionStreamStep, SessionStreamOpens, SessionStreamEnds, ReceiveSession
    <3>2. write' = "none" /\ ErrorReadable(TRUE)
      BY <2>1, <3>1 DEF SessionStreamFails, RejectReady
    <3> QED BY <2>1, <2>2, <3>2 DEF ItIsOver
  <2>7. CASE ConnectionStreamEnds
    <3>1. write' = "none" /\ ErrorReadable(TRUE)
      BY <2>1, <2>7 DEF ConnectionStreamEnds
    <3> QED BY <2>1, <2>2, <3>1 DEF ItIsOver
  <2>8. CASE UNCHANGED vars
    BY <2>1, <2>8 DEF vars, ItIsOver
  <2>9. ~FinishTeardown /\ ~FinishCleanup /\ ~Post /\ ~ConnectionStreamOpens
    BY <2>1 DEF FinishTeardown, FinishCleanup, Post, ConnectionStreamOpens
  <2>10. /\ \A hasId, setsCookie \in BOOLEAN : ~InitializeAnswered(hasId, setsCookie)
         /\ \A isResponse \in BOOLEAN : ~InitializeRead(isResponse)
         /\ \A ok \in BOOLEAN : ~PostAnswered(ok)
         /\ \A r \in pendingSessionRequests : ~ReceiveResponse(r)
    BY <2>1 DEF InitializeAnswered, InitializeRead, PostAnswered, ReceiveResponse
  <2> QED BY <2>3, <2>4, <2>5, <2>6, <2>7, <2>8, <2>9, <2>10 DEF Next
<1> QED BY <1>1, <1>2, <1>3, <1>4, PTL DEF StreamsSpec
=============================================================================

------------------------- MODULE Applications_proof -------------------------
(***************************************************************************)
(* Proofs about the parts of the application APIs: what the readers of an  *)
(* active session are given, in both versions; what waits for the          *)
(* initialization of version 2 passes when it may, and in its order; and   *)
(* ProtocolRouter routes as it is asked to, whatever version the client    *)
(* asks for and however much the agent writes.                             *)
(***************************************************************************)
EXTENDS MCApplications, ArrayFilter, SequenceTheorems, WellFoundedInduction, TLAPS

(* What a sequence is when an element is added or the first one is taken.  *)
LEMMA AppendFacts ==
    ASSUME NEW S, NEW s \in Seq(S), NEW e \in S
    PROVE  /\ Append(s, e) \in Seq(S) /\ Len(s) \in Nat /\ Len(Append(s, e)) = Len(s) + 1
           /\ Append(s, e)[Len(s) + 1] = e
           /\ \A i \in 1 .. Len(s) : Append(s, e)[i] = s[i] /\ s[i] \in S
OBVIOUS

LEMMA TailFacts ==
    ASSUME NEW S, NEW s \in Seq(S), s # <<>>
    PROVE  /\ Len(s) \in Nat \ {0} /\ Head(s) = s[1] /\ s[1] \in S
           /\ Tail(s) \in Seq(S) /\ Len(Tail(s)) = Len(s) - 1
           /\ \A i \in 1 .. Len(Tail(s)) :
                 Tail(s)[i] = s[i + 1] /\ i + 1 \in 2 .. Len(s) /\ s[i + 1] \in S
OBVIOUS

-----------------------------------------------------------------------------
(* What Filter makes of a sequence.                                        *)
(* Induction, for a set of numbers. *)
LEMMA NatMin ==
    ASSUME NEW G \in SUBSET Nat, 0 \in G, \A n \in G : n + 1 \in G
    PROVE  \A n \in Nat : n \in G
<1> DEFINE T == Nat \ G
<1>1. ASSUME T # {} PROVE FALSE
  <2>1. IsWellFoundedOn(OpToRel(<, Nat), Nat)
    BY NatLessThanWellFounded
  <2>2. PICK x \in T : \A y \in T : <<y, x>> \notin OpToRel(<, Nat)
    BY <1>1, <2>1, WFMin
  <2>3. x - 1 \in G /\ x - 1 + 1 = x
    <3>1. x \in Nat /\ x # 0
      BY <2>2
    <3>2. <<x - 1, x>> \in OpToRel(<, Nat)
      BY <3>1 DEF OpToRel
    <3>3. x - 1 \in Nat /\ x - 1 + 1 = x
      BY <3>1
    <3> QED BY <2>2, <3>2, <3>3
  <2> QED BY <2>2, <2>3
<1> QED BY <1>1

(* What the recursion asks of what is kept of a sequence up to n. *)
Keeps(kept, s, T, n) ==
    kept = [i \in 0 .. n |->
               IF i = 0 THEN <<>>
               ELSE IF s[i] \in T THEN Append(kept[i - 1], s[i])
               ELSE kept[i - 1]]

LEMMA KeepsExists ==
    ASSUME NEW s, NEW T
    PROVE  \A n \in Nat : \E kept : Keeps(kept, s, T, n)
<1> DEFINE G == {n \in Nat : \E kept : Keeps(kept, s, T, n)}
<1>1. 0 \in G
  <2> DEFINE kept == [i \in 0 .. 0 |-> <<>>]
  <2>1. Keeps(kept, s, T, 0)
    BY DEF Keeps
  <2> QED BY <2>1
<1>2. ASSUME NEW n \in G PROVE n + 1 \in G
  <2>1. n \in Nat /\ n + 1 \in Nat
    OBVIOUS
  <2>2. PICK k : Keeps(k, s, T, n)
    OBVIOUS
  <2> DEFINE kept == [i \in 0 .. n + 1 |->
                 IF i = n + 1 THEN (IF s[n + 1] \in T THEN Append(k[n], s[n + 1]) ELSE k[n])
                 ELSE k[i]]
  <2>3. \A i \in 0 .. n + 1 : i # n + 1 => i \in 0 .. n /\ kept[i] = k[i]
    BY <2>1
  <2>4. \A i \in 0 .. n : k[i] = IF i = 0 THEN <<>>
                                 ELSE IF s[i] \in T THEN Append(k[i - 1], s[i])
                                 ELSE k[i - 1]
    BY <2>2 DEF Keeps
  <2>5. ASSUME NEW i \in 0 .. n + 1
        PROVE  kept[i] = IF i = 0 THEN <<>>
                         ELSE IF s[i] \in T THEN Append(kept[i - 1], s[i])
                         ELSE kept[i - 1]
    <3>1. i # 0 => i - 1 \in 0 .. n + 1 /\ i - 1 # n + 1
      BY <2>1
    <3>2. i # 0 => kept[i - 1] = k[i - 1]
      BY <2>3, <3>1
    <3>3. CASE i = n + 1
      BY <2>1, <3>2, <3>3
    <3>4. CASE i # n + 1
      BY <2>3, <2>4, <3>2, <3>4
    <3> QED BY <3>3, <3>4
  <2>6. Keeps(kept, s, T, n + 1)
    BY <2>5 DEF Keeps
  <2> QED BY <2>1, <2>6
<1> HIDE DEF G
<1>3. \A n \in Nat : n \in G
  <2>1. G \in SUBSET Nat
    BY DEF G
  <2> QED BY <1>1, <1>2, <2>1, NatMin
<1> QED BY <1>3 DEF G

(* What is kept with an element more. *)
With(kept, e, T) == IF e \in T THEN Append(kept, e) ELSE kept

Kept(s, T, n) == CHOOSE kept : Keeps(kept, s, T, n)

(* What is kept, one element after another. *)
LEMMA KeptFirst == ASSUME NEW s, NEW T, NEW n \in Nat PROVE Kept(s, T, n)[0] = <<>>
<1>1. Keeps(Kept(s, T, n), s, T, n)
  BY KeepsExists DEF Kept
<1> DEFINE kept == Kept(s, T, n)
<1>2. 0 \in 0 .. n /\ Keeps(kept, s, T, n)
  BY <1>1
<1> HIDE DEF kept
<1>3. kept[0] = <<>>
  BY <1>2 DEF Keeps
<1> QED BY <1>3 DEF kept

LEMMA KeptStep ==
    ASSUME NEW s, NEW T, NEW n \in Nat, NEW i \in 0 .. n - 1
    PROVE  Kept(s, T, n)[i + 1] = With(Kept(s, T, n)[i], s[i + 1], T)
<1>1. Keeps(Kept(s, T, n), s, T, n)
  BY KeepsExists DEF Kept
<1> DEFINE kept == Kept(s, T, n)
<1>2. i + 1 \in 0 .. n /\ i + 1 # 0 /\ i + 1 - 1 = i /\ Keeps(kept, s, T, n)
  BY <1>1
<1> HIDE DEF kept
<1>3. kept[i + 1] = IF s[i + 1] \in T THEN Append(kept[i], s[i + 1]) ELSE kept[i]
  <2>1. \A j \in 0 .. n : kept[j] = IF j = 0 THEN <<>>
                                   ELSE IF s[j] \in T THEN Append(kept[j - 1], s[j])
                                   ELSE kept[j - 1]
    BY <1>2 DEF Keeps
  <2> QED BY <1>2, <2>1
<1>4. kept[i + 1] = With(kept[i], s[i + 1], T)
  BY <1>3 DEF With
<1> QED BY <1>4 DEF kept

(* Filter gives what is kept of the whole sequence. *)
LEMMA FilterIs == ASSUME NEW s, NEW T PROVE Filter(s, T) = Kept(s, T, Len(s))[Len(s)]
BY DEF Filter, Kept, Keeps

(* It is determined by the elements. *)
LEMMA KeptSame ==
    ASSUME NEW s, NEW t, NEW T, NEW n \in Nat, NEW l \in Nat, n <= l,
           \A i \in 1 .. n : s[i] = t[i]
    PROVE  Kept(s, T, n)[n] = Kept(t, T, l)[n]
<1> DEFINE G == {i \in Nat : i <= n => Kept(s, T, n)[i] = Kept(t, T, l)[i]}
<1>1. 0 \in G
  BY KeptFirst
<1>2. ASSUME NEW i \in G PROVE i + 1 \in G
  <2>1. CASE i + 1 <= n
    <3>1. i \in 0 .. n - 1 /\ i \in 0 .. l - 1 /\ i + 1 \in 1 .. n /\ i <= n
      BY <2>1
    <3>2. Kept(s, T, n)[i + 1] = With(Kept(s, T, n)[i], s[i + 1], T)
      BY <3>1, KeptStep
    <3>3. Kept(t, T, l)[i + 1] = With(Kept(t, T, l)[i], t[i + 1], T)
      BY <3>1, KeptStep
    <3> QED BY <3>1, <3>2, <3>3
  <2> QED BY <2>1
<1> HIDE DEF G
<1>3. n \in G
  <2>1. G \in SUBSET Nat
    BY DEF G
  <2> QED BY <1>1, <1>2, <2>1, NatMin
<1> QED BY <1>3 DEF G

(* Its elements are of the sequence, and of T. *)
LEMMA FilterType ==
    ASSUME NEW S, NEW s \in Seq(S), NEW T
    PROVE  Filter(s, T) \in Seq(S) /\ Filter(s, T) \in Seq(T)
<1>1. Len(s) \in Nat
  OBVIOUS
<1> DEFINE kept == Kept(s, T, Len(s))
           G == {i \in Nat : i <= Len(s) => kept[i] \in Seq(S \cap T)}
<1>2. 0 \in G
  <2>1. kept[0] = <<>> /\ <<>> \in Seq(S \cap T)
    BY <1>1, KeptFirst, EmptySeq
  <2> QED BY <2>1
<1>3. ASSUME NEW i \in G PROVE i + 1 \in G
  <2>1. CASE i + 1 <= Len(s)
    <3>1. i \in 0 .. Len(s) - 1 /\ i + 1 \in 1 .. Len(s) /\ i <= Len(s)
      BY <1>1, <2>1
    <3>2. kept[i + 1] = With(kept[i], s[i + 1], T)
      BY <1>1, <3>1, KeptStep
    <3> HIDE DEF kept
    <3>3. s[i + 1] \in S /\ kept[i] \in Seq(S \cap T)
      BY <3>1
    <3>4. s[i + 1] \in T => Append(kept[i], s[i + 1]) \in Seq(S \cap T)
      <4>1. ASSUME s[i + 1] \in T PROVE s[i + 1] \in S \cap T
        BY <3>3, <4>1
      <4>2. ASSUME NEW R, NEW r \in Seq(R), NEW e \in R PROVE Append(r, e) \in Seq(R)
        OBVIOUS
      <4> QED BY <3>3, <4>1, <4>2
    <3>5. kept[i + 1] \in Seq(S \cap T)
      BY <3>2, <3>3, <3>4 DEF With
    <3> QED BY <3>5
  <2> QED BY <1>1, <2>1
<1> HIDE DEF G
<1>4. Len(s) \in G
  <2>1. G \in SUBSET Nat
    BY DEF G
  <2> QED BY <1>1, <1>2, <1>3, <2>1, NatMin
<1>5. Filter(s, T) \in Seq(S \cap T)
  BY <1>1, <1>4, FilterIs DEF G
<1> QED BY <1>5

LEMMA FilterEmpty == ASSUME NEW T PROVE Filter(<<>>, T) = <<>>
<1>1. Len(<<>>) = 0 /\ 0 \in Nat
  OBVIOUS
<1> QED BY <1>1, FilterIs, KeptFirst

(* An element that is added is kept when it is in T. *)
LEMMA FilterAppend ==
    ASSUME NEW S, NEW s \in Seq(S), NEW e \in S, NEW T
    PROVE  Filter(Append(s, e), T) = With(Filter(s, T), e, T)
<1> DEFINE a == Append(s, e)
<1>1. /\ Len(s) \in Nat /\ Len(s) + 1 \in Nat /\ Len(s) <= Len(s) + 1
      /\ Len(a) = Len(s) + 1 /\ a[Len(s) + 1] = e
      /\ \A i \in 1 .. Len(s) : s[i] = a[i]
  OBVIOUS
<1> HIDE DEF a
<1>2. Kept(s, T, Len(s))[Len(s)] = Kept(a, T, Len(s) + 1)[Len(s)]
  BY <1>1, KeptSame
<1>3. Kept(a, T, Len(s) + 1)[Len(s) + 1] = With(Kept(a, T, Len(s) + 1)[Len(s)], e, T)
  <2>1. Len(s) \in 0 .. Len(s) + 1 - 1
    BY <1>1
  <2>2. \A i \in 0 .. Len(s) + 1 - 1 :
           Kept(a, T, Len(s) + 1)[i + 1] = With(Kept(a, T, Len(s) + 1)[i], a[i + 1], T)
    BY <1>1, KeptStep
  <2> QED BY <1>1, <2>1, <2>2
<1>4. Filter(a, T) = With(Filter(s, T), e, T)
  BY <1>1, <1>2, <1>3, FilterIs
<1> QED BY <1>4 DEF a

(* All of it is kept when all of it is in T. *)
LEMMA FilterAll ==
    ASSUME NEW T, NEW s \in Seq(T)
    PROVE  Filter(s, T) = s
<1> DEFINE G == {n \in Nat : \A t \in Seq(T) : Len(t) = n => Filter(t, T) = t}
<1>1. 0 \in G
  <2>1. ASSUME NEW t \in Seq(T), Len(t) = 0 PROVE t = <<>>
    BY <2>1
  <2> QED BY <2>1, FilterEmpty
<1>2. ASSUME NEW n \in G PROVE n + 1 \in G
  <2>1. ASSUME NEW t \in Seq(T), Len(t) = n + 1 PROVE Filter(t, T) = t
    <3> DEFINE f == SubSeq(t, 1, n)
    <3>1. f \in Seq(T) /\ Len(f) = n /\ t[n + 1] \in T /\ t = Append(f, t[n + 1])
      BY <2>1
    <3>2. Filter(f, T) = f
      BY <3>1
    <3> HIDE DEF f
    <3>3. Filter(Append(f, t[n + 1]), T) = With(Filter(f, T), t[n + 1], T)
      BY <3>1, FilterAppend, Zenon
    <3> QED BY <3>1, <3>2, <3>3 DEF With
  <2> QED BY <2>1
<1> HIDE DEF G
<1>3. Len(s) \in G
  <2>1. G \in SUBSET Nat /\ Len(s) \in Nat
    BY DEF G
  <2> QED BY <1>1, <1>2, <2>1, NatMin
<1> QED BY <1>3 DEF G

LEMMA ConcatAppend ==
    ASSUME NEW S, NEW s \in Seq(S), NEW u \in Seq(S), NEW e \in S
    PROVE  s \o Append(u, e) = Append(s \o u, e)
<1>1. Append(u, e) = u \o <<e>> /\ Append(s \o u, e) = (s \o u) \o <<e>> /\ <<e>> \in Seq(S)
  BY AppendIsConcat
<1> QED BY <1>1, ConcatAssociative

(* Of two sequences, each is filtered. *)
LEMMA FilterConcat ==
    ASSUME NEW S, NEW s \in Seq(S), NEW u \in Seq(S), NEW T
    PROVE  Filter(s \o u, T) = Filter(s, T) \o Filter(u, T)
<1>a. \A r, t \in Seq(S), e \in S : r \o Append(t, e) = Append(r \o t, e)
  BY ConcatAppend
<1> DEFINE G == {n \in Nat : \A t \in Seq(S) :
                    Len(t) = n => Filter(s \o t, T) = Filter(s, T) \o Filter(t, T)}
<1>1. 0 \in G
  <2>1. ASSUME NEW t \in Seq(S), Len(t) = 0 PROVE t = <<>>
    BY <2>1
  <2>2. s \o <<>> = s /\ Filter(s, T) \o <<>> = Filter(s, T)
    BY FilterType
  <2> QED BY <2>1, <2>2, FilterEmpty DEF With
<1>2. ASSUME NEW n \in G PROVE n + 1 \in G
  <2>1. ASSUME NEW t \in Seq(S), Len(t) = n + 1
        PROVE  Filter(s \o t, T) = Filter(s, T) \o Filter(t, T)
    <3> DEFINE f == SubSeq(t, 1, n)
    <3>1. f \in Seq(S) /\ Len(f) = n /\ t[n + 1] \in S /\ t = Append(f, t[n + 1])
      BY <2>1
    <3>2. Filter(s \o f, T) = Filter(s, T) \o Filter(f, T)
      BY <3>1
    <3> HIDE DEF f
    <3>3. s \o t = Append(s \o f, t[n + 1]) /\ s \o f \in Seq(S)
      <4>1. s \o Append(f, t[n + 1]) = Append(s \o f, t[n + 1])
        BY <1>a, <3>1
      <4>2. s \o f \in Seq(S)
        BY <3>1, ConcatProperties
      <4> QED BY <3>1, <4>1, <4>2, Zenon
    <3>4. /\ Filter(s \o t, T) = With(Filter(s \o f, T), t[n + 1], T)
          /\ Filter(t, T) = With(Filter(f, T), t[n + 1], T)
      <4>1. ASSUME NEW r \in Seq(S)
            PROVE  Filter(Append(r, t[n + 1]), T) = With(Filter(r, T), t[n + 1], T)
        BY <3>1, FilterAppend, Zenon
      <4> QED BY <3>1, <3>3, <4>1, Zenon
    <3>5. Filter(s, T) \in Seq(S) /\ Filter(f, T) \in Seq(S)
      BY <3>1, FilterType
    <3>6. Append(Filter(s, T) \o Filter(f, T), t[n + 1])
             = Filter(s, T) \o Append(Filter(f, T), t[n + 1])
      BY <1>a, <3>1, <3>5
    <3> QED BY <3>2, <3>4, <3>6 DEF With
  <2> QED BY <2>1
<1> HIDE DEF G
<1>3. Len(u) \in G
  <2>1. G \in SUBSET Nat /\ Len(u) \in Nat
    BY DEF G
  <2> QED BY <1>1, <1>2, <2>1, NatMin
<1> QED BY <1>3 DEF G

(* The first element is kept, when it is in T, before the rest. *)
LEMMA FilterHead ==
    ASSUME NEW S, NEW s \in Seq(S), s # <<>>, NEW T
    PROVE  Filter(s, T) = (IF s[1] \in T THEN <<s[1]>> ELSE <<>>) \o Filter(Tail(s), T)
<1>1. s[1] \in S /\ Tail(s) \in Seq(S) /\ s = <<s[1]>> \o Tail(s) /\ <<s[1]>> \in Seq(S)
  OBVIOUS
<1>2. Filter(<<s[1]>>, T) = IF s[1] \in T THEN <<s[1]>> ELSE <<>>
  <2>1. <<>> \in Seq(S) /\ <<s[1]>> = Append(<<>>, s[1])
    OBVIOUS
  <2>2. Filter(Append(<<>>, s[1]), T) = With(Filter(<<>>, T), s[1], T)
    BY <1>1, <2>1, FilterAppend, Zenon
  <2> QED BY <2>1, <2>2, FilterEmpty DEF With
<1>3. Filter(<<s[1]>> \o Tail(s), T) = Filter(<<s[1]>>, T) \o Filter(Tail(s), T)
  <2>1. \A r, t \in Seq(S) : Filter(r \o t, T) = Filter(r, T) \o Filter(t, T)
    BY FilterConcat
  <2> QED BY <1>1, <2>1
<1> QED BY <1>1, <1>2, <1>3

-----------------------------------------------------------------------------
(* ActiveSession: what the readers of a session are given.                 *)

Queues ==
    [id : SessionIds, attached : BOOLEAN, values : Seq(V1!Entries), waiters : Nat,
     failed : BOOLEAN, reading : BOOLEAN]

(* What a queue has when its readers were given something of what they are *)
(* due: the rest, in its order, but for what is pending and what came when *)
(* it had failed, as it does when it is disposed or the connection closes. *)
QueueOK(q, given, owed, pending, isClosed) ==
    /\ q.failed <=> ~q.attached \/ isClosed
    /\ q.waiters > 0 => q.values = <<>> /\ ~q.failed
    /\ LET had == given \o Filter(q.values, V1!Values)
       IN  IF q.failed THEN V1!IsPrefix(had, owed) ELSE had \o pending = owed

(* The stop of a prompt that is answered, until the prompt reacts. *)
Pending(s) ==
    IF reactions # <<>> /\ reactions[1].kind = "stop"
       /\ prompts[reactions[1].number].session = s
    THEN reactions ELSE <<>>

(* What is for a prompt names one, and what is for a session names one. *)
Named ==
    /\ Len(seen) = Len(sessions) /\ Len(due) = Len(sessions)
    /\ \A p \in 1 .. Len(prompts) : prompts[p].session \in 1 .. Len(sessions)
    /\ \A i \in 1 .. Len(wire) :
           wire[i].kind \in {"result", "error"} => wire[i].number \in 1 .. Len(prompts)
    /\ reactions # <<>> =>
           /\ Len(reactions) = 1
           /\ reactions[1].kind \in {"stop", "error"}
           /\ reactions[1].number \in 1 .. Len(prompts)

QueuesOK ==
    \A s \in 1 .. Len(sessions) :
        QueueOK(sessions[s], seen[s], due[s], Pending(s), closed)

(* The inductive invariant. *)
SessionInv == V1!TypeOK /\ Named /\ QueuesOK

-----------------------------------------------------------------------------
(* What each operation on a queue leaves of it.                            *)

LEMMA FilterOfSessions == \A s, T : V1!Filter(s, T) = Filter(s, T)
BY DEF V1!Filter, Filter

LEMMA ValuesAreEntries ==
    /\ V1!Values \subseteq V1!Entries
    /\ \A e \in V1!Entries : e \in V1!Values <=> e.kind # "error"
BY DEF V1!Values, V1!Entries

LEMMA QueueTypes ==
    ASSUME NEW q \in Queues
    PROVE  /\ q.values \in Seq(V1!Entries) /\ q.waiters \in Nat
           /\ q.failed \in BOOLEAN /\ q.attached \in BOOLEAN /\ q.reading \in BOOLEAN
           /\ Filter(q.values, V1!Values) \in Seq(V1!Values)
<1>1. q.values \in Seq(V1!Entries)
  BY DEF Queues
<1>2. Filter(q.values, V1!Values) \in Seq(V1!Values)
  BY <1>1, FilterType
<1> QED BY <1>1, <1>2 DEF Queues

LEMMA PrefixOfMore ==
    ASSUME NEW S, NEW s \in Seq(S), NEW t \in Seq(S)
    PROVE  V1!IsPrefix(s, s \o t)
BY DEF V1!IsPrefix

(* A value that is given is one less to have. *)
LEMMA GivenFirst ==
    ASSUME NEW g \in Seq(V1!Values), NEW v \in Seq(V1!Entries), v # <<>>
    PROVE  (IF v[1].kind = "error" THEN g ELSE Append(g, v[1])) \o Filter(Tail(v), V1!Values)
               = g \o Filter(v, V1!Values)
<1> DEFINE t == Filter(Tail(v), V1!Values)
<1>1. v[1] \in V1!Entries /\ Tail(v) \in Seq(V1!Entries)
  OBVIOUS
<1>2. t \in Seq(V1!Values)
  BY <1>1, FilterType
<1>3. Filter(v, V1!Values) = (IF v[1] \in V1!Values THEN <<v[1]>> ELSE <<>>) \o t
  BY FilterHead
<1> HIDE DEF t
<1>4. CASE v[1].kind = "error"
  <2>1. Filter(v, V1!Values) = t
    <3>1. v[1] \notin V1!Values
      BY <1>1, <1>4, ValuesAreEntries
    <3> QED BY <1>2, <1>3, <3>1, ConcatEmptySeq
  <2> QED BY <1>4, <2>1 DEF t
<1>5. CASE v[1].kind # "error"
  <2>1. v[1] \in V1!Values
    BY <1>1, <1>5, ValuesAreEntries
  <2>2. Append(g, v[1]) = g \o <<v[1]>> /\ <<v[1]>> \in Seq(V1!Values)
    BY <2>1, AppendIsConcat
  <2>3. (g \o <<v[1]>>) \o t = g \o (<<v[1]>> \o t)
    BY <1>2, <2>2, ConcatAssociative
  <2> QED BY <1>3, <1>5, <2>1, <2>2, <2>3 DEF t
<1> QED BY <1>4, <1>5

(* enqueue, when the queue is to have e next: with the readers that wait   *)
(* it is given. *)
LEMMA EnqueueOK ==
    ASSUME NEW q \in Queues, NEW g \in Seq(V1!Values), NEW o \in Seq(V1!Values),
           NEW e \in V1!Values, NEW c \in BOOLEAN, QueueOK(q, g, o, <<e>>, c)
    PROVE  LET r == V1!Enqueue(q, e)
           IN  r \in Queues /\ r.id = q.id /\ QueueOK(r, IF V1!IsTaken(q) THEN Append(g, e) ELSE g, o, <<>>, c)
<1> DEFINE f == Filter(q.values, V1!Values)
<1>1. /\ q.values \in Seq(V1!Entries) /\ q.waiters \in Nat /\ q.failed \in BOOLEAN
      /\ q.reading \in BOOLEAN /\ f \in Seq(V1!Values) /\ e \in V1!Entries /\ <<e>> \in Seq(V1!Values)
  BY QueueTypes, ValuesAreEntries
<1>2. CASE q.failed
  <2>1. V1!Enqueue(q, e) = q /\ ~V1!IsTaken(q)
    BY <1>2 DEF V1!Enqueue, V1!IsTaken
  <2> QED BY <1>2, <2>1 DEF QueueOK
<1>3. CASE ~q.failed /\ q.waiters > 0
  <2> DEFINE r == [q EXCEPT !.waiters = @ - 1, !.reading = V1!ReadingAfter(q, e)]
  <2>1. V1!Enqueue(q, e) = r /\ V1!IsTaken(q)
    BY <1>3 DEF V1!Enqueue, V1!IsTaken
  <2>2. q.waiters - 1 \in Nat /\ V1!ReadingAfter(q, e) \in BOOLEAN
    <3>1. q.waiters - 1 \in Nat
      BY <1>1, <1>3
    <3>2. V1!ReadingAfter(q, e) \in BOOLEAN
      BY <1>1 DEF V1!ReadingAfter
    <3> QED BY <3>1, <3>2
  <2>3. /\ r \in Queues /\ r.id = q.id /\ r.values = q.values
        /\ r.failed = q.failed /\ r.attached = q.attached
    BY <2>2 DEF Queues
  <2>4. q.values = <<>> /\ f = <<>>
    BY <1>3, FilterEmpty DEF QueueOK
  <2>5. Append(g, e) \o f \o <<>> = g \o f \o <<e>>
    <3>1. Append(g, e) = g \o <<e>> /\ Append(g, e) \in Seq(V1!Values)
      BY AppendIsConcat, AppendProperties
    <3> QED BY <1>1, <2>4, <3>1, ConcatEmptySeq
  <2>6. QueueOK(r, Append(g, e), o, <<>>, c)
    <3> HIDE DEF r
    <3> QED BY <1>3, <2>3, <2>4, <2>5 DEF QueueOK
  <2> QED BY <2>1, <2>3, <2>6
<1>4. CASE ~q.failed /\ ~(q.waiters > 0)
  <2> DEFINE r == [q EXCEPT !.values = Append(@, e)]
  <2>1. V1!Enqueue(q, e) = r /\ ~V1!IsTaken(q)
    BY <1>4 DEF V1!Enqueue, V1!IsTaken
  <2>2. Append(q.values, e) \in Seq(V1!Entries)
    BY <1>1, AppendProperties
  <2>3. /\ r \in Queues /\ r.id = q.id /\ r.values = Append(q.values, e)
        /\ r.failed = q.failed /\ r.attached = q.attached /\ r.waiters = q.waiters
    BY <2>2 DEF Queues
  <2>4. Filter(r.values, V1!Values) = Append(f, e)
    <3>1. Filter(Append(q.values, e), V1!Values) = With(f, e, V1!Values)
      BY <1>1, FilterAppend, Zenon
    <3> QED BY <2>3, <3>1 DEF With
  <2>5. g \o Append(f, e) \o <<>> = g \o f \o <<e>>
    <3>1. Append(f, e) = f \o <<e>> /\ Append(f, e) \in Seq(V1!Values)
      BY <1>1, AppendIsConcat, AppendProperties
    <3>2. g \o Append(f, e) \in Seq(V1!Values)
      BY <3>1, ConcatProperties
    <3> QED BY <1>1, <3>1, <3>2, ConcatEmptySeq, ConcatAssociative
  <2>6. QueueOK(r, g, o, <<>>, c)
    <3> HIDE DEF r
    <3> QED BY <1>4, <2>3, <2>4, <2>5 DEF QueueOK
  <2> QED BY <2>1, <2>3, <2>6
<1> QED BY <1>1, <1>2, <1>3, <1>4

(* A value that the queue is due. *)
LEMMA OwedOK ==
    ASSUME NEW q \in Queues, NEW g \in Seq(V1!Values), NEW o \in Seq(V1!Values),
           NEW e \in V1!Values, NEW c \in BOOLEAN, QueueOK(q, g, o, <<>>, c)
    PROVE  QueueOK(q, g, IF q.failed THEN o ELSE Append(o, e), <<e>>, c)
<1> DEFINE h == g \o Filter(q.values, V1!Values)
<1>1. h \in Seq(V1!Values) /\ Append(o, e) = o \o <<e>>
  BY QueueTypes, ConcatProperties, AppendIsConcat
<1>2. h \o <<>> = h
  BY <1>1, ConcatEmptySeq
<1> QED BY <1>1, <1>2 DEF QueueOK

(* What is pending for a queue that has failed has no effect. *)
LEMMA FailedOK ==
    ASSUME NEW q, q.failed, NEW g, NEW o, NEW p, NEW p2, NEW c, QueueOK(q, g, o, p, c)
    PROVE  QueueOK(q, g, o, p2, c)
BY DEF QueueOK

(* reject. *)
LEMMA RejectOK ==
    ASSUME NEW q \in Queues, NEW g \in Seq(V1!Values), NEW o \in Seq(V1!Values),
           NEW e \in V1!Entries, e.kind = "error", NEW c \in BOOLEAN, QueueOK(q, g, o, <<>>, c)
    PROVE  LET r == V1!RejectQueue(q, e) IN r \in Queues /\ r.id = q.id /\ QueueOK(r, g, o, <<>>, c)
<1> DEFINE f == Filter(q.values, V1!Values)
<1>1. /\ q.values \in Seq(V1!Entries) /\ q.waiters \in Nat /\ q.failed \in BOOLEAN
      /\ f \in Seq(V1!Values) /\ e \notin V1!Values
  BY QueueTypes, ValuesAreEntries
<1>2. CASE q.failed
  <2>1. V1!RejectQueue(q, e) = q
    BY <1>2, Zenon DEF V1!RejectQueue
  <2> QED BY <2>1
<1>3. CASE ~q.failed /\ q.waiters > 0
  <2> DEFINE r == [q EXCEPT !.waiters = 0, !.reading = FALSE]
  <2>1. V1!RejectQueue(q, e) = r
    BY <1>3 DEF V1!RejectQueue
  <2>2. /\ r \in Queues /\ r.id = q.id /\ r.values = q.values /\ r.waiters = 0
        /\ r.failed = q.failed /\ r.attached = q.attached
    BY DEF Queues
  <2>3. QueueOK(r, g, o, <<>>, c)
    <3> HIDE DEF r
    <3> QED BY <1>3, <2>2 DEF QueueOK
  <2> QED BY <2>1, <2>2, <2>3
<1>4. CASE ~q.failed /\ ~(q.waiters > 0)
  <2> DEFINE r == [q EXCEPT !.values = Append(@, e)]
  <2>1. V1!RejectQueue(q, e) = r
    BY <1>4 DEF V1!RejectQueue
  <2>2. Append(q.values, e) \in Seq(V1!Entries)
    BY <1>1, AppendProperties
  <2>3. /\ r \in Queues /\ r.id = q.id /\ r.values = Append(q.values, e)
        /\ r.failed = q.failed /\ r.attached = q.attached /\ r.waiters = q.waiters
    BY <2>2 DEF Queues
  <2>4. Filter(r.values, V1!Values) = f
    <3>1. Filter(Append(q.values, e), V1!Values) = With(f, e, V1!Values)
      BY <1>1, FilterAppend, Zenon
    <3> QED BY <1>1, <2>3, <3>1 DEF With
  <2>5. QueueOK(r, g, o, <<>>, c)
    <3> HIDE DEF r
    <3> QED BY <1>4, <2>3, <2>4 DEF QueueOK
  <2> QED BY <2>1, <2>3, <2>5
<1> QED BY <1>1, <1>2, <1>3, <1>4

(* fail, and what disposing of a session or closing the connection does.   *)
LEMMA FailOK ==
    ASSUME NEW q \in Queues, NEW g \in Seq(V1!Values), NEW o \in Seq(V1!Values),
           NEW p \in Seq(V1!Values), NEW c \in BOOLEAN, QueueOK(q, g, o, p, c)
    PROVE  LET r == V1!Fail(q)
           IN  /\ r \in Queues /\ r.id = q.id /\ r.attached = q.attached
               /\ r.failed /\ r.waiters = 0
               /\ V1!IsPrefix(g \o Filter(r.values, V1!Values), o)
<1> DEFINE h == g \o Filter(q.values, V1!Values)
<1>1. h \in Seq(V1!Values)
  BY QueueTypes, ConcatProperties
<1>2. V1!IsPrefix(h, o)
  BY <1>1, PrefixOfMore DEF QueueOK
<1>3. CASE q.failed
  <2>1. V1!Fail(q) = q
    BY <1>3, Zenon DEF V1!Fail
  <2>2. q.waiters = 0
    BY <1>3, QueueTypes DEF QueueOK
  <2> QED BY <1>2, <1>3, <2>1, <2>2
<1>4. CASE ~q.failed
  <2> DEFINE r == [q EXCEPT !.failed = TRUE, !.waiters = 0, !.reading = FALSE]
  <2>1. V1!Fail(q) = r
    BY <1>4, Zenon DEF V1!Fail
  <2>2. /\ r \in Queues /\ r.id = q.id /\ r.attached = q.attached /\ r.values = q.values
        /\ r.failed /\ r.waiters = 0
    BY DEF Queues
  <2> HIDE DEF r
  <2> QED BY <1>2, <2>1, <2>2
<1> QED BY <1>3, <1>4

LEMMA DisposeOK ==
    ASSUME NEW q \in Queues, NEW g \in Seq(V1!Values), NEW o \in Seq(V1!Values),
           NEW p \in Seq(V1!Values), NEW c \in BOOLEAN, QueueOK(q, g, o, p, c)
    PROVE  LET r == [V1!Fail(q) EXCEPT !.attached = FALSE]
           IN  r \in Queues /\ r.id = q.id /\ QueueOK(r, g, o, p, c)
<1> DEFINE f == V1!Fail(q)
           r == [f EXCEPT !.attached = FALSE]
<1>1. f \in Queues /\ f.id = q.id /\ f.failed /\ f.waiters = 0
      /\ V1!IsPrefix(g \o Filter(f.values, V1!Values), o)
  BY FailOK
<1> HIDE DEF f
<1>2. /\ r \in Queues /\ r.id = q.id /\ r.failed /\ ~r.attached /\ r.waiters = 0
      /\ r.values = f.values
  BY <1>1 DEF Queues
<1> HIDE DEF r
<1>3. QueueOK(r, g, o, p, c)
  BY <1>1, <1>2 DEF QueueOK
<1> QED BY <1>2, <1>3 DEF r, f

LEMMA CloseOK ==
    ASSUME NEW q \in Queues, NEW g \in Seq(V1!Values), NEW o \in Seq(V1!Values),
           NEW p \in Seq(V1!Values), QueueOK(q, g, o, p, FALSE)
    PROVE  LET r == IF q.attached THEN V1!Fail(q) ELSE q
           IN  r \in Queues /\ r.id = q.id /\ QueueOK(r, g, o, p, TRUE)
<1>1. CASE q.attached
  <2> DEFINE f == V1!Fail(q)
  <2>1. f \in Queues /\ f.id = q.id /\ f.failed /\ f.waiters = 0
        /\ V1!IsPrefix(g \o Filter(f.values, V1!Values), o)
    BY FailOK
  <2> HIDE DEF f
  <2>2. QueueOK(f, g, o, p, TRUE)
    BY <2>1 DEF QueueOK
  <2> QED BY <1>1, <2>1, <2>2 DEF f
<1>2. CASE ~q.attached
  <2>1. QueueOK(q, g, o, p, TRUE)
    BY <1>2 DEF QueueOK
  <2> QED BY <1>2, <2>1
<1> QED BY <1>1, <1>2

(* clearErrors. *)
LEMMA ClearOK ==
    ASSUME NEW q \in Queues, NEW g, NEW o, NEW p, NEW c, QueueOK(q, g, o, p, c)
    PROVE  LET r == V1!ClearErrors(q) IN r \in Queues /\ r.id = q.id /\ QueueOK(r, g, o, p, c)
<1> DEFINE f == Filter(q.values, V1!Values)
           r == [q EXCEPT !.values = f]
<1>1. f \in Seq(V1!Values) /\ f \in Seq(V1!Entries) /\ Filter(f, V1!Values) = f
  <2>1. f \in Seq(V1!Values)
    BY QueueTypes
  <2>2. Filter(f, V1!Values) = f
    BY <2>1, FilterAll
  <2>3. f \in Seq(V1!Entries)
    BY <2>1, ValuesAreEntries, SeqMonotonic
  <2> QED BY <2>1, <2>2, <2>3
<1>2. V1!ClearErrors(q) = r
  BY FilterOfSessions DEF V1!ClearErrors
<1> HIDE DEF f
<1>3. /\ r \in Queues /\ r.id = q.id /\ r.values = f /\ r.waiters = q.waiters
      /\ r.failed = q.failed /\ r.attached = q.attached
  BY <1>1 DEF Queues
<1>4. q.values = <<>> => f = <<>>
  BY FilterEmpty DEF f
<1> HIDE DEF r
<1>5. QueueOK(r, g, o, p, c)
  <2>1. Filter(r.values, V1!Values) = Filter(q.values, V1!Values)
    BY <1>1, <1>3 DEF f
  <2> QED BY <1>3, <1>4, <2>1 DEF QueueOK
<1> QED BY <1>2, <1>3, <1>5

(* next, when there is something, and when there is nothing. *)
LEMMA TakeOK ==
    ASSUME NEW q \in Queues, NEW g \in Seq(V1!Values), NEW o, NEW p, NEW c,
           QueueOK(q, g, o, p, c), q.values # <<>>, NEW b \in BOOLEAN
    PROVE  LET r == [q EXCEPT !.values = Tail(@), !.reading = b]
               e == Head(q.values)
               h == IF e.kind = "error" THEN g ELSE Append(g, e)
           IN  r \in Queues /\ r.id = q.id /\ QueueOK(r, h, o, p, c) /\ h \in Seq(V1!Values)
<1> DEFINE r == [q EXCEPT !.values = Tail(@), !.reading = b]
           e == q.values[1]
           h == IF e.kind = "error" THEN g ELSE Append(g, e)
<1>1. /\ q.values \in Seq(V1!Entries) /\ Tail(q.values) \in Seq(V1!Entries)
      /\ Head(q.values) = e /\ e \in V1!Entries
  BY QueueTypes
<1>2. h \o Filter(Tail(q.values), V1!Values) = g \o Filter(q.values, V1!Values)
  BY <1>1, GivenFirst
<1>3. h \in Seq(V1!Values)
  BY <1>1, ValuesAreEntries
<1>4. /\ r \in Queues /\ r.id = q.id /\ r.values = Tail(q.values) /\ r.waiters = q.waiters
      /\ r.failed = q.failed /\ r.attached = q.attached
  BY <1>1 DEF Queues
<1> HIDE DEF r, h
<1>5. QueueOK(r, h, o, p, c)
  BY <1>2, <1>4 DEF QueueOK
<1> QED BY <1>1, <1>3, <1>4, <1>5 DEF r, h

LEMMA WaitOK ==
    ASSUME NEW q \in Queues, NEW g, NEW o, NEW p, NEW c,
           QueueOK(q, g, o, p, c), q.values = <<>>, NEW b \in BOOLEAN
    PROVE  LET r == IF q.failed THEN [q EXCEPT !.reading = FALSE]
                    ELSE [q EXCEPT !.reading = b, !.waiters = @ + 1]
           IN  r \in Queues /\ r.id = q.id /\ QueueOK(r, g, o, p, c)
<1>1. CASE q.failed
  <2> DEFINE r == [q EXCEPT !.reading = FALSE]
  <2>1. /\ r \in Queues /\ r.id = q.id /\ r.values = q.values /\ r.waiters = q.waiters
        /\ r.failed = q.failed /\ r.attached = q.attached
    BY DEF Queues
  <2> HIDE DEF r
  <2>2. QueueOK(r, g, o, p, c)
    BY <2>1 DEF QueueOK
  <2> QED BY <1>1, <2>1, <2>2 DEF r
<1>2. CASE ~q.failed
  <2> DEFINE r == [q EXCEPT !.reading = b, !.waiters = @ + 1]
  <2>w. q.waiters + 1 \in Nat
    BY QueueTypes
  <2>1. /\ r \in Queues /\ r.id = q.id /\ r.values = q.values /\ r.waiters \in Nat
        /\ r.failed = q.failed /\ r.attached = q.attached
    BY <2>w DEF Queues
  <2> HIDE DEF r
  <2>2. QueueOK(r, g, o, p, c)
    BY <1>2, <2>1 DEF QueueOK
  <2> QED BY <1>2, <2>1, <2>2 DEF r
<1> QED BY <1>1, <1>2

LEMMA NewOK ==
    ASSUME NEW id \in SessionIds
    PROVE  LET r == V1!NewQueue(id) IN r \in Queues /\ QueueOK(r, <<>>, <<>>, <<>>, FALSE)
<1> DEFINE r == V1!NewQueue(id)
<1>1. <<>> \in Seq(V1!Entries) /\ <<>> \o <<>> = <<>>
  OBVIOUS
<1>2. r \in Queues /\ r.attached = TRUE /\ r.values = <<>> /\ r.waiters = 0 /\ r.failed = FALSE
  BY <1>1 DEF V1!NewQueue, Queues
<1> HIDE DEF r
<1>3. QueueOK(r, <<>>, <<>>, <<>>, FALSE)
  BY <1>1, <1>2, FilterEmpty DEF QueueOK
<1> QED BY <1>2, <1>3 DEF r

-----------------------------------------------------------------------------
(* The initial states satisfy it. *)
LEMMA SessionInit == V1!Init => SessionInv
<1> SUFFICES ASSUME V1!Init PROVE SessionInv
  OBVIOUS
<1>1. V1!TypeOK
  BY EmptySeq DEF V1!Init, V1!TypeOK
<1>2. Named /\ QueuesOK
  BY DEF V1!Init, Named, QueuesOK
<1> QED BY <1>1, <1>2 DEF SessionInv

LEMMA SessionTypes ==
    ASSUME V1!TypeOK
    PROVE  /\ sessions \in Seq(Queues) /\ wire \in Seq(V1!Messages)
           /\ reactions \in Seq(V1!Entries) /\ closed \in BOOLEAN
           /\ seen \in Seq(Seq(V1!Values)) /\ due \in Seq(Seq(V1!Values))
           /\ prompts \in Seq([session : Nat, answered : BOOLEAN])
           /\ requested \in Nat /\ updates \in Nat
BY DEF V1!TypeOK, Queues

(* The sessions, one by one. *)
LEMMA EachSession ==
    ASSUME SessionInv, NEW s \in 1 .. Len(sessions)
    PROVE  /\ sessions[s] \in Queues /\ seen[s] \in Seq(V1!Values) /\ due[s] \in Seq(V1!Values)
           /\ Pending(s) \in Seq(V1!Values)
           /\ QueueOK(sessions[s], seen[s], due[s], Pending(s), closed)
<1>1. sessions[s] \in Queues /\ seen[s] \in Seq(V1!Values) /\ due[s] \in Seq(V1!Values)
  <2>1. sessions[s] \in Queues
    BY SessionTypes, ElementOfSeq DEF SessionInv
  <2>2. s \in 1 .. Len(seen) /\ s \in 1 .. Len(due)
    BY DEF SessionInv, Named
  <2> QED BY <2>1, <2>2, SessionTypes, ElementOfSeq DEF SessionInv
<1>2. Pending(s) \in Seq(V1!Values)
  <2>1. CASE reactions # <<>> /\ reactions[1].kind = "stop"
    <3>1. reactions \in Seq(V1!Entries) /\ Len(reactions) = 1
      BY <2>1, SessionTypes DEF SessionInv, Named
    <3>2. reactions[1] \in V1!Values /\ reactions = <<reactions[1]>>
      <4>1. reactions[1] \in V1!Entries
        BY <3>1
      <4>2. reactions[1] \in V1!Values
        BY <2>1, <4>1, ValuesAreEntries
      <4> QED BY <3>1, <4>2
    <3>3. \A e \in V1!Values : <<e>> \in Seq(V1!Values)
      OBVIOUS
    <3>4. reactions \in Seq(V1!Values)
      BY <3>2, <3>3
    <3> QED BY <3>4, EmptySeq DEF Pending
  <2>2. CASE ~(reactions # <<>> /\ reactions[1].kind = "stop")
    BY <2>2, EmptySeq DEF Pending
  <2> QED BY <2>1, <2>2
<1> QED BY <1>1, <1>2 DEF SessionInv, QueuesOK

(* A session changes, and the others do not. *)
LEMMA OneSession ==
    ASSUME V1!TypeOK, NEW s \in 1 .. Len(sessions), NEW r \in Queues,
           sessions' = [sessions EXCEPT ![s] = r]
    PROVE  /\ sessions' \in Seq(Queues) /\ Len(sessions') = Len(sessions)
           /\ sessions'[s] = r
           /\ \A t \in 1 .. Len(sessions) : t # s => sessions'[t] = sessions[t]
BY SessionTypes, ExceptSeq

(* The types hold of what stays. *)
LEMMA TypesOf ==
    ASSUME sessions' \in Seq(Queues), wire' \in Seq(V1!Messages),
           reactions' \in Seq(V1!Entries), closed' \in BOOLEAN,
           seen' \in Seq(Seq(V1!Values)), due' \in Seq(Seq(V1!Values)),
           prompts' \in Seq([session : Nat, answered : BOOLEAN]),
           requested' \in Nat, updates' \in Nat
    PROVE  V1!TypeOK'
BY DEF V1!TypeOK, Queues

(* What the agent sends changes no session. *)
LEMMA SendsKeeps ==
    ASSUME SessionInv, NEW m \in V1!Messages,
           m.kind \in {"result", "error"} => m.number \in 1 .. Len(prompts),
           wire' = Append(wire, m), UNCHANGED <<reactions, sessions, closed, seen, due>>,
           requested' \in Nat, updates' \in Nat,
           prompts' \in Seq([session : Nat, answered : BOOLEAN]), Len(prompts') = Len(prompts),
           \A p \in 1 .. Len(prompts) : prompts'[p].session = prompts[p].session
    PROVE  SessionInv'
<1>1. /\ wire' \in Seq(V1!Messages) /\ Len(wire) \in Nat /\ Len(wire') = Len(wire) + 1
      /\ wire'[Len(wire) + 1] = m
      /\ \A i \in 1 .. Len(wire) : wire'[i] = wire[i]
  BY SessionTypes, AppendFacts DEF SessionInv
<1>2. V1!TypeOK'
  BY <1>1, SessionTypes, TypesOf DEF SessionInv
<1>3. Named'
  <2>1. \A i \in 1 .. Len(wire') :
           wire'[i].kind \in {"result", "error"} => wire'[i].number \in 1 .. Len(prompts')
    BY <1>1 DEF SessionInv, Named
  <2> QED BY <2>1 DEF SessionInv, Named
<1>4. QueuesOK'
  <2> SUFFICES ASSUME NEW s \in 1 .. Len(sessions)
               PROVE  QueueOK(sessions[s], seen[s], due[s], Pending(s)', closed)
    BY DEF QueuesOK
  <2>1. Pending(s)' = Pending(s)
    BY DEF Pending, SessionInv, Named
  <2> QED BY <2>1, EachSession
<1> QED BY <1>2, <1>3, <1>4 DEF SessionInv

LEMMA AgentStartsKeeps ==
    ASSUME SessionInv, NEW id \in SessionIds, V1!AgentStarts(id) PROVE SessionInv'
<1> DEFINE m == [kind |-> "session", id |-> id, number |-> 0]
<1>1. m \in V1!Messages /\ m.kind \notin {"result", "error"}
  BY DEF V1!Messages
<1>2. wire' = Append(wire, m) /\ requested' \in Nat
  BY SessionTypes DEF V1!AgentStarts, V1!Sends, SessionInv
<1> HIDE DEF m
<1> QED BY <1>1, <1>2, SendsKeeps, SessionTypes DEF V1!AgentStarts, SessionInv

LEMMA AgentUpdatesKeeps ==
    ASSUME SessionInv, NEW id \in SessionIds, V1!AgentUpdates(id) PROVE SessionInv'
<1> DEFINE m == [kind |-> "update", id |-> id, number |-> updates + 1]
<1>1. updates + 1 \in Nat
  BY SessionTypes DEF SessionInv
<1>2. m \in V1!Messages /\ m.kind \notin {"result", "error"}
  BY <1>1 DEF V1!Messages
<1>3. wire' = Append(wire, m) /\ updates' \in Nat
  BY <1>1 DEF V1!AgentUpdates, V1!Sends
<1> HIDE DEF m
<1> QED BY <1>2, <1>3, SendsKeeps, SessionTypes DEF V1!AgentUpdates, SessionInv

LEMMA AgentAnswersKeeps ==
    ASSUME SessionInv, NEW p \in 1 .. Len(prompts), NEW kind \in {"result", "error"},
           V1!AgentAnswers(p, kind)
    PROVE  SessionInv'
<1> DEFINE m == [kind |-> kind, id |-> sessions[prompts[p].session].id, number |-> p]
           q == [prompts[p] EXCEPT !.answered = TRUE]
<1>1. prompts \in Seq([session : Nat, answered : BOOLEAN]) /\ Len(prompts) \in Nat
  BY SessionTypes, LenProperties DEF SessionInv
<1>2. m \in V1!Messages /\ m.number = p
  <2>1. prompts[p].session \in 1 .. Len(sessions)
    BY DEF SessionInv, Named
  <2>2. sessions[prompts[p].session].id \in SessionIds
    BY <2>1, EachSession DEF Queues
  <2>3. p \in Nat
    BY <1>1
  <2> QED BY <2>2, <2>3 DEF V1!Messages
<1>3. wire' = Append(wire, m)
  BY DEF V1!AgentAnswers, V1!Sends
<1>4. q \in [session : Nat, answered : BOOLEAN] /\ q.session = prompts[p].session
  <2>1. prompts[p] \in [session : Nat, answered : BOOLEAN]
    BY <1>1, ElementOfSeq
  <2> QED BY <2>1
<1>5. prompts' = [prompts EXCEPT ![p] = q]
  BY DEF V1!AgentAnswers
<1> HIDE DEF m, q
<1>6. /\ prompts' \in Seq([session : Nat, answered : BOOLEAN]) /\ Len(prompts') = Len(prompts)
      /\ \A n \in 1 .. Len(prompts) : prompts'[n].session = prompts[n].session
  BY <1>1, <1>4, <1>5, ExceptSeq
<1> QED BY <1>2, <1>3, <1>6, SendsKeeps, SessionTypes DEF V1!AgentAnswers, SessionInv

(* The connection handles a message when no prompt is to react.            *)
LEMMA ReceivesOne ==
    ASSUME SessionInv, NEW kind, V1!Receives(kind)
    PROVE  /\ ~closed /\ reactions = <<>> /\ wire[1] = Head(wire) /\ wire[1].kind = kind
           /\ wire[1] \in V1!Messages /\ wire' \in Seq(V1!Messages)
           /\ kind \in {"result", "error"} => wire[1].number \in 1 .. Len(prompts)
           /\ \A i \in 1 .. Len(wire') :
                 wire'[i].kind \in {"result", "error"} => wire'[i].number \in 1 .. Len(prompts)
           /\ \A s \in 1 .. Len(sessions) :
                 QueueOK(sessions[s], seen[s], due[s], <<>>, FALSE)
<1>1. /\ ~closed /\ reactions = <<>> /\ wire # <<>> /\ Head(wire).kind = kind
      /\ wire' = Tail(wire)
  BY DEF V1!Receives
<1>2. /\ Head(wire) = wire[1] /\ wire[1] \in V1!Messages /\ 1 \in 1 .. Len(wire)
      /\ wire' \in Seq(V1!Messages)
      /\ \A i \in 1 .. Len(wire') : wire'[i] = wire[i + 1] /\ i + 1 \in 1 .. Len(wire)
  BY <1>1, SessionTypes, TailFacts DEF SessionInv
<1>3. kind \in {"result", "error"} => wire[1].number \in 1 .. Len(prompts)
  BY <1>1, <1>2 DEF SessionInv, Named
<1>4. \A i \in 1 .. Len(wire') :
         wire'[i].kind \in {"result", "error"} => wire'[i].number \in 1 .. Len(prompts)
  BY <1>2 DEF SessionInv, Named
<1>5. ASSUME NEW s \in 1 .. Len(sessions)
      PROVE  QueueOK(sessions[s], seen[s], due[s], <<>>, FALSE)
  <2>1. Pending(s) = <<>> /\ closed = FALSE
    BY <1>1, SessionTypes DEF Pending, SessionInv
  <2> QED BY <2>1, EachSession
<1> QED BY <1>1, <1>2, <1>3, <1>4, <1>5

LEMMA ReceiveSessionKeeps == ASSUME SessionInv, V1!ReceiveSession PROVE SessionInv'
<1> DEFINE q == V1!NewQueue(wire[1].id)
           N == Len(sessions)
<1>1. V1!Receives("session") /\ UNCHANGED <<requested, reactions, prompts, closed, updates>>
  BY DEF V1!ReceiveSession
<1>2. /\ ~closed /\ reactions = <<>> /\ Head(wire) = wire[1] /\ wire[1] \in V1!Messages
      /\ wire' \in Seq(V1!Messages)
      /\ \A i \in 1 .. Len(wire') :
            wire'[i].kind \in {"result", "error"} => wire'[i].number \in 1 .. Len(prompts)
      /\ \A s \in 1 .. N : QueueOK(sessions[s], seen[s], due[s], <<>>, FALSE)
  BY <1>1, ReceivesOne
<1>3. sessions' = Append(sessions, q) /\ seen' = Append(seen, <<>>) /\ due' = Append(due, <<>>)
  BY <1>2 DEF V1!ReceiveSession
<1>4. q \in Queues /\ QueueOK(q, <<>>, <<>>, <<>>, FALSE)
  <2>1. wire[1].id \in SessionIds
    BY <1>2 DEF V1!Messages
  <2> QED BY <2>1, NewOK
<1> HIDE DEF q
<1>5. /\ sessions' \in Seq(Queues) /\ N \in Nat /\ Len(sessions') = N + 1
      /\ sessions'[N + 1] = q /\ \A s \in 1 .. N : sessions'[s] = sessions[s]
  BY <1>3, <1>4, SessionTypes, AppendFacts DEF SessionInv
<1>6. <<>> \in Seq(V1!Values) /\ Len(seen) = N /\ Len(due) = N
  BY EmptySeq DEF SessionInv, Named
<1>7. /\ seen' \in Seq(Seq(V1!Values)) /\ Len(seen') = N + 1 /\ seen'[N + 1] = <<>>
      /\ \A s \in 1 .. N : seen'[s] = seen[s]
  BY <1>3, <1>6, SessionTypes, AppendFacts DEF SessionInv
<1>8. /\ due' \in Seq(Seq(V1!Values)) /\ Len(due') = N + 1 /\ due'[N + 1] = <<>>
      /\ \A s \in 1 .. N : due'[s] = due[s]
  BY <1>3, <1>6, SessionTypes, AppendFacts DEF SessionInv
<1> HIDE DEF N
<1>9. V1!TypeOK'
  BY <1>1, <1>2, <1>5, <1>7, <1>8, SessionTypes, TypesOf DEF SessionInv
<1>10. Named'
  <2>1. \A p \in 1 .. Len(prompts) : prompts[p].session \in 1 .. N + 1
    BY <1>5 DEF SessionInv, Named, N
  <2> QED BY <1>1, <1>2, <1>5, <1>7, <1>8, <2>1 DEF Named
<1>11. QueuesOK'
  <2> SUFFICES ASSUME NEW s \in 1 .. N + 1
               PROVE  QueueOK(sessions'[s], seen'[s], due'[s], Pending(s)', closed')
    BY <1>5 DEF QueuesOK
  <2>1. Pending(s)' = <<>> /\ closed' = FALSE
    BY <1>1, <1>2, SessionTypes DEF Pending, SessionInv
  <2>2. CASE s = N + 1
    BY <1>4, <1>5, <1>7, <1>8, <2>1, <2>2
  <2>3. CASE s \in 1 .. N
    BY <1>2, <1>5, <1>7, <1>8, <2>1, <2>3 DEF N
  <2>4. s = N + 1 \/ s \in 1 .. N
    BY <1>5
  <2> QED BY <2>2, <2>3, <2>4
<1> QED BY <1>9, <1>10, <1>11 DEF SessionInv

LEMMA FunctionIsSeq ==
    ASSUME NEW S, NEW n \in Nat, NEW f \in [1 .. n -> S]
    PROVE  f \in Seq(S) /\ Len(f) = n
OBVIOUS

(* The messages and the prompts do not change where a session does.        *)
LEMMA NamedStays ==
    ASSUME SessionInv, wire' = wire \/ wire' = <<>>, UNCHANGED prompts,
           reactions' = reactions \/ reactions' = <<>>,
           Len(sessions') = Len(sessions), Len(seen') = Len(sessions), Len(due') = Len(sessions)
    PROVE  Named'
BY DEF SessionInv, Named

LEMMA ReceiveUpdateKeeps == ASSUME SessionInv, V1!ReceiveUpdate PROVE SessionInv'
<1> DEFINE N == Len(sessions)
           id == wire[1].id
           e == V1!Update(wire[1].number)
           to == V1!RoutedTo(id)
<1>1. V1!Receives("update") /\ UNCHANGED <<requested, reactions, prompts, closed, updates>>
  BY DEF V1!ReceiveUpdate
<1>2. /\ ~closed /\ reactions = <<>> /\ Head(wire) = wire[1] /\ wire[1] \in V1!Messages
      /\ wire' \in Seq(V1!Messages)
      /\ \A i \in 1 .. Len(wire') :
            wire'[i].kind \in {"result", "error"} => wire'[i].number \in 1 .. Len(prompts)
      /\ \A s \in 1 .. N : QueueOK(sessions[s], seen[s], due[s], <<>>, FALSE)
  BY <1>1, ReceivesOne
<1>3. e \in V1!Values /\ e.kind # "error"
  BY <1>2 DEF V1!Messages, V1!Values, V1!Update
<1>4. /\ sessions' = [s \in 1 .. N |->
             IF s \in to THEN V1!Enqueue(sessions[s], e) ELSE sessions[s]]
      /\ seen' = [s \in 1 .. N |->
             IF s \in to /\ V1!IsTaken(sessions[s]) THEN Append(seen[s], e) ELSE seen[s]]
      /\ due' = [s \in 1 .. N |->
             IF sessions[s].id = id /\ ~sessions[s].failed THEN Append(due[s], e) ELSE due[s]]
  BY <1>2, <1>3 DEF V1!ReceiveUpdate, V1!Active, V1!SeenAfter
<1>5. \A s \in 1 .. N : s \in to <=> sessions[s].id = id /\ sessions[s].attached
  BY DEF V1!RoutedTo, V1!Active
<1> HIDE DEF e, to
<1>6. ASSUME NEW s \in 1 .. N
      PROVE  /\ sessions'[s] \in Queues /\ seen'[s] \in Seq(V1!Values)
             /\ due'[s] \in Seq(V1!Values)
             /\ QueueOK(sessions'[s], seen'[s], due'[s], <<>>, FALSE)
  <2> DEFINE q == sessions[s]
             g == seen[s]
             o == due[s]
  <2>1. /\ q \in Queues /\ g \in Seq(V1!Values) /\ o \in Seq(V1!Values)
        /\ QueueOK(q, g, o, <<>>, FALSE)
    BY <1>2, EachSession
  <2>2. q.failed <=> ~q.attached
    BY <2>1 DEF QueueOK
  <2>3. CASE s \in to
    <3>1. q.id = id /\ ~q.failed
      BY <1>5, <2>2, <2>3
    <3>2. /\ sessions'[s] = V1!Enqueue(q, e)
          /\ seen'[s] = IF V1!IsTaken(q) THEN Append(g, e) ELSE g
          /\ due'[s] = Append(o, e)
      BY <1>4, <2>3, <3>1
    <3> HIDE DEF q, g, o
    <3>3. Append(g, e) \in Seq(V1!Values) /\ Append(o, e) \in Seq(V1!Values)
      BY <1>3, <2>1, AppendProperties
    <3>4. QueueOK(q, g, Append(o, e), <<e>>, FALSE)
      BY <1>3, <2>1, <3>1, OwedOK
    <3>5. /\ V1!Enqueue(q, e) \in Queues
          /\ QueueOK(V1!Enqueue(q, e), IF V1!IsTaken(q) THEN Append(g, e) ELSE g,
                     Append(o, e), <<>>, FALSE)
      BY <1>3, <2>1, <3>3, <3>4, EnqueueOK
    <3> QED BY <2>1, <3>2, <3>3, <3>5
  <2>4. CASE s \notin to
    <3>1. ~(q.id = id /\ ~q.failed)
      BY <1>5, <2>2, <2>4
    <3>2. sessions'[s] = q /\ seen'[s] = g /\ due'[s] = o
      BY <1>4, <2>4, <3>1
    <3> QED BY <2>1, <3>2
  <2> QED BY <2>3, <2>4
<1>7. N \in Nat
  BY SessionTypes, LenProperties DEF SessionInv
<1>8. sessions' \in Seq(Queues) /\ Len(sessions') = N
  <2>1. sessions' \in [1 .. N -> Queues]
    BY <1>4, <1>6
  <2> QED BY <1>7, <2>1, FunctionIsSeq
<1>9. seen' \in Seq(Seq(V1!Values)) /\ Len(seen') = N
  <2>1. seen' \in [1 .. N -> Seq(V1!Values)]
    BY <1>4, <1>6
  <2> QED BY <1>7, <2>1, FunctionIsSeq
<1>10. due' \in Seq(Seq(V1!Values)) /\ Len(due') = N
  <2>1. due' \in [1 .. N -> Seq(V1!Values)]
    BY <1>4, <1>6
  <2> QED BY <1>7, <2>1, FunctionIsSeq
<1> HIDE DEF N
<1>11. V1!TypeOK'
  BY <1>1, <1>2, <1>8, <1>9, <1>10, SessionTypes, TypesOf DEF SessionInv
<1>12. Named'
  BY <1>1, <1>2, <1>8, <1>9, <1>10 DEF SessionInv, Named, N
<1>13. QueuesOK'
  <2> SUFFICES ASSUME NEW s \in 1 .. N
               PROVE  QueueOK(sessions'[s], seen'[s], due'[s], Pending(s)', closed')
    BY <1>8 DEF QueuesOK
  <2>1. Pending(s)' = <<>> /\ closed' = FALSE
    BY <1>1, <1>2, SessionTypes DEF Pending, SessionInv
  <2> QED BY <1>6, <2>1
<1> QED BY <1>11, <1>12, <1>13 DEF SessionInv

LEMMA ReceiveAnswerKeeps ==
    ASSUME SessionInv, NEW kind \in {"result", "error"}, V1!ReceiveAnswer(kind)
    PROVE  SessionInv'
<1> DEFINE N == Len(sessions)
           n == wire[1].number
           s == prompts[n].session
           e == IF kind = "result" THEN V1!Stop(n) ELSE V1!Error(n)
<1>1. V1!Receives(kind) /\ UNCHANGED <<requested, sessions, prompts, closed, updates, seen>>
  BY DEF V1!ReceiveAnswer
<1>2. /\ ~closed /\ reactions = <<>> /\ Head(wire) = wire[1] /\ wire[1] \in V1!Messages
      /\ wire' \in Seq(V1!Messages) /\ n \in 1 .. Len(prompts)
      /\ \A i \in 1 .. Len(wire') :
            wire'[i].kind \in {"result", "error"} => wire'[i].number \in 1 .. Len(prompts)
      /\ \A t \in 1 .. N : QueueOK(sessions[t], seen[t], due[t], <<>>, FALSE)
  BY <1>1, ReceivesOne
<1>3. s \in 1 .. N /\ n \in Nat /\ Len(due) = N /\ Len(seen) = N
  BY <1>2 DEF SessionInv, Named, V1!Messages
<1>4. /\ reactions' = <<e>>
      /\ due' = IF kind = "result" /\ ~sessions[s].failed
                THEN [due EXCEPT ![s] = Append(due[s], V1!Stop(n))] ELSE due
  <2>1. reactions' = Append(reactions, e)
    BY <1>2 DEF V1!ReceiveAnswer
  <2>2. Append(<<>>, e) = <<e>>
    OBVIOUS
  <2>3. due' = IF kind = "result" /\ ~sessions[s].failed
               THEN [due EXCEPT ![s] = Append(due[s], V1!Stop(n))] ELSE due
    BY <1>2 DEF V1!ReceiveAnswer
  <2> QED BY <1>2, <2>1, <2>2, <2>3
<1>5. /\ e \in V1!Entries /\ e.number = n
      /\ kind = "result" => e = V1!Stop(n) /\ e \in V1!Values /\ e.kind = "stop"
      /\ kind = "error" => e.kind = "error"
  BY <1>3 DEF V1!Stop, V1!Error, V1!Entries, V1!Values
<1> HIDE DEF e, n
<1>6. /\ reactions' \in Seq(V1!Entries) /\ Len(reactions') = 1 /\ reactions'[1] = e
      /\ reactions' # <<>>
  BY <1>4, <1>5
<1>7. /\ due' \in Seq(Seq(V1!Values)) /\ Len(due') = N
      /\ kind = "result" /\ ~sessions[s].failed => due'[s] = Append(due[s], e)
      /\ kind = "error" \/ sessions[s].failed => due'[s] = due[s]
      /\ \A t \in 1 .. N : t # s => due'[t] = due[t]
  <2>1. CASE kind = "result" /\ ~sessions[s].failed
    <3>1. Append(due[s], e) \in Seq(V1!Values)
      BY <1>3, <1>5, <2>1, EachSession, AppendProperties
    <3>2. due' = [due EXCEPT ![s] = Append(due[s], e)]
      BY <1>4, <1>5, <2>1
    <3>3. due \in Seq(Seq(V1!Values)) /\ s \in 1 .. Len(due)
      BY <1>3, SessionTypes DEF SessionInv
    <3> QED BY <1>3, <2>1, <3>1, <3>2, <3>3, ExceptSeq
  <2>2. CASE ~(kind = "result" /\ ~sessions[s].failed)
    BY <1>3, <1>4, <2>2, SessionTypes DEF SessionInv
  <2> QED BY <2>1, <2>2
<1>8. V1!TypeOK'
  BY <1>1, <1>2, <1>6, <1>7, SessionTypes, TypesOf DEF SessionInv
<1>9. Named'
  BY <1>1, <1>2, <1>5, <1>6, <1>7 DEF SessionInv, Named
<1>10. QueuesOK'
  <2> SUFFICES ASSUME NEW t \in 1 .. N
               PROVE  QueueOK(sessions[t], seen[t], due'[t], Pending(t)', FALSE)
    <3>1. closed' = FALSE
      BY <1>1, <1>2, SessionTypes DEF SessionInv
    <3> QED BY <1>1, <3>1 DEF QueuesOK
  <2>1. QueueOK(sessions[t], seen[t], due[t], <<>>, FALSE)
    BY <1>2
  <2>2. Pending(t)' = IF e.kind = "stop" /\ s = t THEN <<e>> ELSE <<>>
    BY <1>1, <1>4, <1>5, <1>6 DEF Pending
  <2>3. /\ sessions[t] \in Queues /\ seen[t] \in Seq(V1!Values) /\ due[t] \in Seq(V1!Values)
    BY EachSession
  <2>4. CASE t = s /\ kind = "result"
    <3>1. QueueOK(sessions[t], seen[t], IF sessions[t].failed THEN due[t] ELSE Append(due[t], e),
                  <<e>>, FALSE)
      BY <1>5, <2>1, <2>3, <2>4, OwedOK
    <3>2. due'[t] = IF sessions[t].failed THEN due[t] ELSE Append(due[t], e)
      BY <1>7, <2>4
    <3> QED BY <1>5, <2>2, <2>4, <3>1, <3>2
  <2>5. CASE ~(t = s /\ kind = "result")
    <3>1. due'[t] = due[t] /\ Pending(t)' = <<>>
      BY <1>5, <1>7, <2>2, <2>5
    <3> QED BY <2>1, <3>1
  <2> QED BY <2>4, <2>5
<1> QED BY <1>8, <1>9, <1>10 DEF SessionInv

LEMMA ReactKeeps == ASSUME SessionInv, V1!React PROVE SessionInv'
<1> DEFINE N == Len(sessions)
           e == reactions[1]
           s == prompts[e.number].session
           q == sessions[s]
           g == seen[s]
           o == due[s]
<1>1. /\ reactions # <<>> /\ Len(reactions) = 1 /\ Head(reactions) = e /\ reactions = <<e>>
      /\ e \in V1!Entries /\ e.kind \in {"stop", "error"} /\ s \in 1 .. N
      /\ Len(due) = N /\ Len(seen) = N
  <2>1. reactions # <<>> /\ reactions \in Seq(V1!Entries)
    BY SessionTypes DEF V1!React, SessionInv
  <2>2. Len(reactions) = 1 /\ e.kind \in {"stop", "error"} /\ e.number \in 1 .. Len(prompts)
    BY <2>1 DEF SessionInv, Named
  <2>3. reactions = <<e>> /\ e \in V1!Entries /\ Head(reactions) = e
    BY <2>1, <2>2
  <2> QED BY <2>1, <2>2, <2>3 DEF SessionInv, Named
<1>2. /\ reactions' = <<>>
      /\ UNCHANGED <<requested, wire, prompts, closed, updates, due>>
  <2>1. reactions' = Tail(reactions)
    BY DEF V1!React
  <2>2. Tail(reactions) = <<>>
    <3>1. \A x : Tail(<<x>>) = <<>>
      OBVIOUS
    <3> QED BY <1>1, <3>1, Zenon
  <2> QED BY <2>1, <2>2 DEF V1!React
<1>3. /\ e.kind = "error" =>
             sessions' = [sessions EXCEPT ![s] = V1!RejectQueue(q, e)] /\ seen' = seen
      /\ e.kind # "error" =>
             /\ sessions' = [sessions EXCEPT ![s] = V1!Enqueue(q, e)]
             /\ seen' = IF V1!IsTaken(q) THEN [seen EXCEPT ![s] = Append(g, e)] ELSE seen
  BY <1>1 DEF V1!React, V1!SeenAfter
<1>4. /\ q \in Queues /\ g \in Seq(V1!Values) /\ o \in Seq(V1!Values) /\ closed \in BOOLEAN
      /\ QueueOK(q, g, o, Pending(s), closed)
  BY <1>1, EachSession, SessionTypes DEF SessionInv
<1>5. \A t \in 1 .. N : Pending(t) = IF e.kind = "stop" /\ s = t THEN <<e>> ELSE <<>>
  BY <1>1 DEF Pending
<1>6. PICK r \in Queues, h \in Seq(V1!Values) :
         /\ sessions' = [sessions EXCEPT ![s] = r]
         /\ (seen' = seen /\ h = g) \/ seen' = [seen EXCEPT ![s] = h]
         /\ QueueOK(r, h, o, <<>>, closed)
  <2>1. CASE e.kind = "error"
    <3>1. QueueOK(q, g, o, <<>>, closed)
      BY <1>1, <1>4, <1>5, <2>1
    <3>2. /\ sessions' = [sessions EXCEPT ![s] = V1!RejectQueue(q, e)] /\ seen' = seen
      BY <1>3, <2>1
    <3> HIDE DEF q, g, o, e
    <3>3. V1!RejectQueue(q, e) \in Queues /\ QueueOK(V1!RejectQueue(q, e), g, o, <<>>, closed)
      BY <1>1, <1>4, <2>1, <3>1, RejectOK
    <3> QED BY <1>4, <3>2, <3>3
  <2>2. CASE e.kind = "stop"
    <3>1. QueueOK(q, g, o, <<e>>, closed) /\ e \in V1!Values
      BY <1>1, <1>4, <1>5, <2>2, ValuesAreEntries
    <3>2. /\ sessions' = [sessions EXCEPT ![s] = V1!Enqueue(q, e)]
          /\ seen' = IF V1!IsTaken(q) THEN [seen EXCEPT ![s] = Append(g, e)] ELSE seen
      BY <1>3, <2>2
    <3> DEFINE h == IF V1!IsTaken(q) THEN Append(g, e) ELSE g
    <3> HIDE DEF q, g, o, e
    <3>3. /\ V1!Enqueue(q, e) \in Queues /\ h \in Seq(V1!Values)
          /\ QueueOK(V1!Enqueue(q, e), h, o, <<>>, closed)
      BY <1>1, <1>4, <2>2, <3>1, EnqueueOK, AppendProperties
    <3>4. (seen' = seen /\ h = g) \/ seen' = [seen EXCEPT ![s] = h]
      BY <3>2
    <3> HIDE DEF h
    <3> QED BY <3>2, <3>3, <3>4
  <2> QED BY <1>1, <2>1, <2>2
<1>7. /\ sessions' \in Seq(Queues) /\ Len(sessions') = N /\ sessions'[s] = r
      /\ \A t \in 1 .. N : t # s => sessions'[t] = sessions[t]
  BY <1>1, <1>6, OneSession DEF SessionInv
<1>8. /\ seen' \in Seq(Seq(V1!Values)) /\ Len(seen') = N /\ seen'[s] = h
      /\ \A t \in 1 .. N : t # s => seen'[t] = seen[t]
  <2>1. seen \in Seq(Seq(V1!Values)) /\ s \in 1 .. Len(seen)
    BY <1>1, SessionTypes DEF SessionInv
  <2>2. CASE seen' = [seen EXCEPT ![s] = h]
    BY <1>1, <1>6, <2>1, <2>2, ExceptSeq
  <2>3. CASE seen' = seen /\ h = g
    BY <1>1, <2>1, <2>3
  <2> QED BY <1>6, <2>2, <2>3
<1>9. V1!TypeOK'
  BY <1>2, <1>7, <1>8, SessionTypes, TypesOf, EmptySeq DEF SessionInv
<1>10. Named'
  BY <1>1, <1>2, <1>7, <1>8, NamedStays
<1>11. QueuesOK'
  <2> SUFFICES ASSUME NEW t \in 1 .. N
               PROVE  QueueOK(sessions'[t], seen'[t], due[t], Pending(t)', closed)
    BY <1>2, <1>7 DEF QueuesOK
  <2>1. Pending(t)' = <<>>
    BY <1>2 DEF Pending
  <2>2. CASE t = s
    BY <1>6, <1>7, <1>8, <2>1, <2>2
  <2>3. CASE t # s
    <3>1. QueueOK(sessions[t], seen[t], due[t], <<>>, closed)
      BY <1>5, <2>3, EachSession
    <3> QED BY <1>7, <1>8, <2>1, <2>3, <3>1
  <2> QED BY <2>2, <2>3
<1> QED BY <1>9, <1>10, <1>11 DEF SessionInv

LEMMA CloseKeeps == ASSUME SessionInv, V1!Close PROVE SessionInv'
<1> DEFINE N == Len(sessions)
           R(s) == IF sessions[s].attached THEN V1!Fail(sessions[s]) ELSE sessions[s]
<1>1. /\ closed = FALSE /\ closed' = TRUE /\ wire' = <<>> /\ requested' = 0
      /\ UNCHANGED <<reactions, prompts, updates, seen, due>>
      /\ sessions' = [s \in 1 .. N |-> R(s)]
  BY SessionTypes DEF V1!Close, V1!Active, SessionInv
<1>2. ASSUME NEW s \in 1 .. N
      PROVE  R(s) \in Queues /\ QueueOK(R(s), seen[s], due[s], Pending(s), TRUE)
  BY <1>1, EachSession, CloseOK
<1>3. sessions' \in Seq(Queues) /\ Len(sessions') = N /\ \A s \in 1 .. N : sessions'[s] = R(s)
  <2>1. N \in Nat
    BY SessionTypes, LenProperties DEF SessionInv
  <2> HIDE DEF R
  <2>2. sessions' \in [1 .. N -> Queues] /\ \A s \in 1 .. N : sessions'[s] = R(s)
    BY <1>1, <1>2
  <2> QED BY <2>1, <2>2, FunctionIsSeq
<1> HIDE DEF R
<1>4. V1!TypeOK'
  BY <1>1, <1>3, SessionTypes, TypesOf, EmptySeq DEF SessionInv
<1>5. Named'
  <2>1. Len(seen') = N /\ Len(due') = N
    BY <1>1 DEF SessionInv, Named
  <2> QED BY <1>1, <1>3, <2>1, NamedStays
<1>6. QueuesOK'
  <2> SUFFICES ASSUME NEW s \in 1 .. N
               PROVE  QueueOK(R(s), seen[s], due[s], Pending(s)', TRUE)
    BY <1>1, <1>3 DEF QueuesOK
  <2>1. Pending(s)' = Pending(s)
    BY <1>1 DEF Pending
  <2> QED BY <1>2, <2>1
<1> QED BY <1>4, <1>5, <1>6 DEF SessionInv

LEMMA NewSessionKeeps == ASSUME SessionInv, V1!NewSession PROVE SessionInv'
<1>1. requested' \in Nat /\ UNCHANGED <<wire, reactions, sessions, prompts, closed, updates, seen, due>>
  BY SessionTypes DEF V1!NewSession, SessionInv
<1>2. V1!TypeOK'
  BY <1>1, SessionTypes, TypesOf DEF SessionInv
<1>3. Named' /\ QueuesOK'
  BY <1>1 DEF SessionInv, Named, QueuesOK, Pending
<1> QED BY <1>2, <1>3 DEF SessionInv

(* What a session does about its queue, and its readers get of it.         *)
LEMMA OneKeeps ==
    ASSUME SessionInv, NEW s \in 1 .. Len(sessions), NEW r \in Queues,
           sessions' = [sessions EXCEPT ![s] = r],
           NEW h \in Seq(V1!Values),
           (seen' = seen /\ h = seen[s]) \/ seen' = [seen EXCEPT ![s] = h],
           QueueOK(r, h, due[s], Pending(s), closed),
           UNCHANGED <<requested, wire, reactions, prompts, closed, updates, due>>
    PROVE  SessionInv'
<1>1. /\ sessions' \in Seq(Queues) /\ Len(sessions') = Len(sessions) /\ sessions'[s] = r
      /\ \A t \in 1 .. Len(sessions) : t # s => sessions'[t] = sessions[t]
  BY OneSession DEF SessionInv
<1>2. Len(seen) = Len(sessions) /\ Len(due) = Len(sessions)
  BY DEF SessionInv, Named
<1>3. /\ seen' \in Seq(Seq(V1!Values)) /\ Len(seen') = Len(sessions) /\ seen'[s] = h
      /\ \A t \in 1 .. Len(sessions) : t # s => seen'[t] = seen[t]
  <2>1. seen \in Seq(Seq(V1!Values)) /\ s \in 1 .. Len(seen)
    BY <1>2, SessionTypes DEF SessionInv
  <2>2. CASE seen' = [seen EXCEPT ![s] = h]
    BY <1>2, <2>1, <2>2, ExceptSeq
  <2>3. CASE seen' = seen /\ h = seen[s]
    BY <1>2, <2>1, <2>3
  <2> QED BY <2>2, <2>3
<1>4. V1!TypeOK'
  BY <1>1, <1>3, SessionTypes, TypesOf DEF SessionInv
<1>5. Named'
  BY <1>1, <1>2, <1>3, NamedStays
<1>6. QueuesOK'
  <2> SUFFICES ASSUME NEW t \in 1 .. Len(sessions)
               PROVE  QueueOK(sessions'[t], seen'[t], due[t], Pending(t)', closed)
    BY <1>1 DEF QueuesOK
  <2>1. Pending(t)' = Pending(t)
    BY DEF Pending
  <2>2. CASE t = s
    BY <1>1, <1>3, <2>1, <2>2
  <2>3. CASE t # s
    BY <1>1, <1>3, <2>1, <2>3, EachSession
  <2> QED BY <2>2, <2>3
<1> QED BY <1>4, <1>5, <1>6 DEF SessionInv

LEMMA TakeKeeps ==
    ASSUME SessionInv, NEW s \in 1 .. Len(sessions), NEW b \in BOOLEAN, V1!Take(s, b)
    PROVE  SessionInv'
<1> DEFINE q == sessions[s]
           g == seen[s]
           p == Pending(s)
           o == due[s]
<1>1. /\ q \in Queues /\ g \in Seq(V1!Values) /\ q.values \in Seq(V1!Entries)
      /\ QueueOK(q, g, o, p, closed)
  BY EachSession, QueueTypes
<1>2. CASE q.values # <<>>
  <2> DEFINE e == Head(q.values)
             c == V1!ReadingAfter([q EXCEPT !.reading = b], e)
             r == [q EXCEPT !.values = Tail(@), !.reading = c]
             h == IF e.kind = "error" THEN g ELSE Append(g, e)
  <2>1. c \in BOOLEAN
    <3>1. [q EXCEPT !.reading = b].reading \in BOOLEAN
      BY <1>1 DEF Queues
    <3> QED BY <3>1 DEF V1!ReadingAfter
  <2>2. sessions' = [sessions EXCEPT ![s] = r]
    <3>1. sessions' = [sessions EXCEPT ![s] =
                 [[q EXCEPT !.reading = b] EXCEPT !.values = Tail(@), !.reading = c]]
      BY <1>2 DEF V1!Take
    <3>2. [[q EXCEPT !.reading = b] EXCEPT !.values = Tail(@), !.reading = c] = r
      BY <1>1 DEF Queues
    <3> QED BY <3>1, <3>2
  <2>3. seen' = [seen EXCEPT ![s] = h]
    BY <1>2 DEF V1!Take, V1!SeenAfter
  <2> HIDE DEF c, q, g, o, p
  <2>4. r \in Queues /\ QueueOK(r, h, o, p, closed) /\ h \in Seq(V1!Values)
    BY <1>1, <1>2, <2>1, TakeOK
  <2> HIDE DEF r, h
  <2>5. UNCHANGED <<requested, wire, reactions, prompts, closed, updates, due>>
    BY DEF V1!Take
  <2> QED BY <2>2, <2>3, <2>4, <2>5, OneKeeps DEF o, p
<1>3. CASE q.values = <<>>
  <2> DEFINE r == IF q.failed THEN [q EXCEPT !.reading = FALSE]
                  ELSE [q EXCEPT !.reading = b, !.waiters = @ + 1]
  <2>1. sessions' = [sessions EXCEPT ![s] = r] /\ UNCHANGED seen
    <3>1. /\ UNCHANGED seen
          /\ sessions' = [sessions EXCEPT ![s] =
                 LET x == [q EXCEPT !.reading = b]
                 IN  IF x.failed THEN [x EXCEPT !.reading = FALSE]
                     ELSE [x EXCEPT !.waiters = @ + 1]]
      BY <1>3 DEF V1!Take
    <3>2. (LET x == [q EXCEPT !.reading = b]
           IN  IF x.failed THEN [x EXCEPT !.reading = FALSE] ELSE [x EXCEPT !.waiters = @ + 1])
             = r
      BY <1>1 DEF Queues
    <3> QED BY <3>1, <3>2
  <2> HIDE DEF q, g, o, p
  <2>2. r \in Queues /\ QueueOK(r, g, o, p, closed)
    BY <1>1, <1>3, WaitOK
  <2> HIDE DEF r
  <2>3. UNCHANGED <<requested, wire, reactions, prompts, closed, updates, due>>
    BY DEF V1!Take
  <2> QED BY <1>1, <2>1, <2>2, <2>3, OneKeeps DEF o, p, g
<1> QED BY <1>2, <1>3

LEMMA DisposeKeeps ==
    ASSUME SessionInv, NEW s \in 1 .. Len(sessions), V1!Dispose(s) PROVE SessionInv'
<1> DEFINE r == [V1!Fail(sessions[s]) EXCEPT !.attached = FALSE]
<1>1. /\ sessions' = [sessions EXCEPT ![s] = r]
      /\ UNCHANGED <<requested, wire, reactions, prompts, closed, updates, seen, due>>
  BY DEF V1!Dispose
<1>2. seen[s] \in Seq(V1!Values) /\ closed \in BOOLEAN
  BY EachSession, SessionTypes DEF SessionInv
<1>3. r \in Queues /\ QueueOK(r, seen[s], due[s], Pending(s), closed)
  BY <1>2, EachSession, DisposeOK
<1> HIDE DEF r
<1> QED BY <1>1, <1>2, <1>3, OneKeeps

(* A prompt names a session, and clears the errors of those before.        *)
LEMMA PromptKeeps ==
    ASSUME SessionInv, NEW s \in 1 .. Len(sessions), V1!Prompt(s) PROVE SessionInv'
<1> DEFINE N == Len(sessions)
           r == V1!ClearErrors(sessions[s])
           new == [session |-> s, answered |-> FALSE]
<1>1. /\ sessions' = [sessions EXCEPT ![s] = r]
      /\ prompts' = Append(prompts, new)
      /\ UNCHANGED <<requested, wire, reactions, closed, updates, seen, due>>
  BY DEF V1!Prompt
<1>2. r \in Queues /\ QueueOK(r, seen[s], due[s], Pending(s), closed)
  BY EachSession, ClearOK
<1>3. N \in Nat /\ new \in [session : Nat, answered : BOOLEAN] /\ new.session = s
  BY SessionTypes, LenProperties DEF SessionInv
<1> HIDE DEF r, new
<1>4. /\ sessions' \in Seq(Queues) /\ Len(sessions') = N /\ sessions'[s] = r
      /\ \A t \in 1 .. N : t # s => sessions'[t] = sessions[t]
  BY <1>1, <1>2, OneSession DEF SessionInv
<1>5. /\ prompts' \in Seq([session : Nat, answered : BOOLEAN])
      /\ Len(prompts) \in Nat /\ Len(prompts') = Len(prompts) + 1
      /\ prompts'[Len(prompts) + 1] = new
      /\ \A p \in 1 .. Len(prompts) : prompts'[p] = prompts[p]
  BY <1>1, <1>3, SessionTypes, AppendFacts DEF SessionInv
<1>6. V1!TypeOK'
  BY <1>1, <1>4, <1>5, SessionTypes, TypesOf DEF SessionInv
<1>7. Named'
  <2>1. \A p \in 1 .. Len(prompts') : prompts'[p].session \in 1 .. N
    <3> SUFFICES ASSUME NEW p \in 1 .. Len(prompts') PROVE prompts'[p].session \in 1 .. N
      OBVIOUS
    <3>1. CASE p = Len(prompts) + 1
      BY <1>3, <1>5, <3>1
    <3>2. CASE p \in 1 .. Len(prompts)
      BY <1>5, <3>2 DEF SessionInv, Named
    <3> QED BY <1>5, <3>1, <3>2
  <2>2. \A p \in 1 .. Len(prompts) : p \in 1 .. Len(prompts')
    BY <1>5
  <2>3. \A i \in 1 .. Len(wire) :
           wire[i].kind \in {"result", "error"} => wire[i].number \in 1 .. Len(prompts')
    BY <2>2 DEF SessionInv, Named
  <2>4. reactions # <<>> =>
           /\ Len(reactions) = 1
           /\ reactions[1].kind \in {"stop", "error"}
           /\ reactions[1].number \in 1 .. Len(prompts')
    BY <2>2 DEF SessionInv, Named
  <2>5. Len(seen) = N /\ Len(due) = N
    BY DEF SessionInv, Named
  <2> QED BY <1>1, <1>4, <2>1, <2>3, <2>4, <2>5 DEF Named
<1>8. QueuesOK'
  <2> SUFFICES ASSUME NEW t \in 1 .. N
               PROVE  QueueOK(sessions'[t], seen[t], due[t], Pending(t)', closed)
    BY <1>1, <1>4 DEF QueuesOK
  <2>1. Pending(t)' = Pending(t)
    <3>1. reactions # <<>> => prompts'[reactions[1].number] = prompts[reactions[1].number]
      BY <1>5 DEF SessionInv, Named
    <3> QED BY <1>1, <3>1 DEF Pending
  <2>2. CASE t = s
    BY <1>2, <1>4, <2>1, <2>2
  <2>3. CASE t # s
    BY <1>4, <2>1, <2>3, EachSession
  <2> QED BY <2>2, <2>3
<1> QED BY <1>6, <1>7, <1>8 DEF SessionInv

(* Every step preserves it. *)
LEMMA SessionStep == SessionInv /\ [V1!Next]_(V1!vars) => SessionInv'
<1> SUFFICES ASSUME SessionInv, [V1!Next]_(V1!vars) PROVE SessionInv'
  OBVIOUS
<1>1. CASE \E id \in SessionIds : V1!AgentStarts(id) \/ V1!AgentUpdates(id)
  BY <1>1, AgentStartsKeeps, AgentUpdatesKeeps
<1>2. CASE \E p \in 1 .. Len(prompts), kind \in {"result", "error"} : V1!AgentAnswers(p, kind)
  BY <1>2, AgentAnswersKeeps
<1>3. CASE V1!ReceiveSession \/ V1!ReceiveUpdate
  BY <1>3, ReceiveSessionKeeps, ReceiveUpdateKeeps
<1>4. CASE \E kind \in {"result", "error"} : V1!ReceiveAnswer(kind)
  BY <1>4, ReceiveAnswerKeeps
<1>5. CASE V1!React \/ V1!Close \/ V1!NewSession
  BY <1>5, ReactKeeps, CloseKeeps, NewSessionKeeps
<1>6. ASSUME NEW s \in 1 .. Len(sessions),
             V1!Prompt(s) \/ V1!NextUpdate(s) \/ V1!ReadText(s) \/ V1!ReadTextGoesOn(s)
                 \/ V1!Dispose(s)
      PROVE  SessionInv'
  <2>1. CASE V1!Prompt(s)
    BY <2>1, PromptKeeps
  <2>2. CASE V1!NextUpdate(s) \/ V1!ReadText(s) \/ V1!ReadTextGoesOn(s)
    <3>1. V1!Take(s, TRUE) \/ V1!Take(s, FALSE)
      BY <2>2 DEF V1!NextUpdate, V1!ReadText, V1!ReadTextGoesOn
    <3> QED BY <3>1, TakeKeeps
  <2>3. CASE V1!Dispose(s)
    BY <2>3, DisposeKeeps
  <2> QED BY <1>6, <2>1, <2>2, <2>3
<1>7. CASE UNCHANGED V1!vars
  <2>1. UNCHANGED <<requested, wire, reactions, sessions, prompts, closed, updates, seen, due>>
    BY <1>7 DEF V1!vars
  <2> QED BY <2>1 DEF SessionInv, V1!TypeOK, Named, QueuesOK, Pending
<1> QED BY <1>1, <1>2, <1>3, <1>4, <1>5, <1>6, <1>7, Zenon DEF V1!Next, V1!Active

THEOREM SessionInvariance == V1!Spec => []SessionInv
BY SessionInit, SessionStep, PTL DEF V1!Spec

(* The variables keep their types, for any number of sessions and prompts, *)
(* whatever the agent sends and whatever the user calls.                   *)
THEOREM SessionTypeCorrect == V1!Spec => []V1!TypeOK
<1>1. SessionInv => V1!TypeOK
  BY DEF SessionInv
<1> QED BY <1>1, SessionInvariance, PTL

(* SessionUpdateRouter, ActiveSession and AsyncQueue of acp.ts: what the   *)
(* agent sends for a session reaches its readers in the order of the wire, *)
(* nothing missed, twice or of another session, with any number of         *)
(* sessions, of one id or many, and of prompts and readers.                *)
THEOREM SessionKeepsOrder == V1!Spec => []InOrderOfTheWire
<1>1. ASSUME SessionInv, NEW s \in 1 .. Len(sessions)
      PROVE  LET queued == V1!Filter(sessions[s].values, V1!Values)
             IN  IF reactions = <<>> /\ ~sessions[s].failed
                 THEN seen[s] \o queued = due[s]
                 ELSE V1!IsPrefix(seen[s] \o queued, due[s])
  <2> DEFINE had == seen[s] \o Filter(sessions[s].values, V1!Values)
  <2>1. had \in Seq(V1!Values) /\ Pending(s) \in Seq(V1!Values)
    BY <1>1, EachSession, QueueTypes, ConcatProperties
  <2>2. IF sessions[s].failed THEN V1!IsPrefix(had, due[s]) ELSE had \o Pending(s) = due[s]
    BY <1>1, EachSession DEF QueueOK
  <2>3. reactions = <<>> => had \o Pending(s) = had
    BY <2>1, ConcatEmptySeq DEF Pending
  <2>4. V1!IsPrefix(had, had \o Pending(s))
    BY <2>1, PrefixOfMore
  <2> HIDE DEF had
  <2>5. IF reactions = <<>> /\ ~sessions[s].failed THEN had = due[s]
        ELSE V1!IsPrefix(had, due[s])
    BY <2>2, <2>3, <2>4
  <2> QED BY <2>5, FilterOfSessions DEF had
<1>2. SessionInv => InOrderOfTheWire
  BY <1>1 DEF InOrderOfTheWire, V1!InOrderOfTheWire, V1!Active
<1> QED BY <1>2, SessionInvariance, PTL

(* AsyncQueue of acp.ts: no reader waits for what is there already, or     *)
(* when its session is disposed of or the connection closed.               *)
THEOREM ReadersAreServed == V1!Spec => []NoReaderWaits
<1>1. ASSUME SessionInv, NEW s \in 1 .. Len(sessions), sessions[s].waiters > 0
      PROVE  /\ sessions[s].values = <<>>
             /\ ~sessions[s].failed /\ sessions[s].attached /\ ~closed
  BY <1>1, EachSession DEF QueueOK
<1>2. SessionInv => NoReaderWaits
  BY <1>1 DEF NoReaderWaits, V1!NoReaderWaits, V1!Active
<1> QED BY <1>2, SessionInvariance, PTL

-----------------------------------------------------------------------------
(* ActiveSessionV2: an active session of version 2, its turns and readers.    *)

TurnJobs ==
    [at : {"read", "adopt", "settle", "route", "attach", "reject", "text"},
     entry : {V2!NoEntry} \cup V2!Messages \cup V2!Entries]

TurnQueues ==
    [values : Seq(V2!Entries), waiters : Seq({"text", "next"}), failed : BOOLEAN,
     next : Nat]

TurnPrompts ==
    [cursor : Nat, active : BOOLEAN, overlaps : BOOLEAN, refused : BOOLEAN,
     beside : SUBSET Nat]

(* What a session in stage st waits for: its response, whose promise is    *)
(* adopted before anything else is read, and then to be attached, before   *)
(* the first update can reach the router.                                  *)
Awaits(js) ==
    \/ /\ js # <<>> /\ js[1].at = "adopt"
       /\ \A j \in 2 .. Len(js) : js[j].at \notin {"adopt", "attach", "route"}
    \/ \E i \in 1 .. Len(js) :
          /\ js[i].at = "attach"
          /\ \A j \in 1 .. Len(js) : j # i => js[j].at \notin {"adopt", "attach"}
          /\ \A j \in 1 .. i - 1 : js[j].at # "route"

StagesOK(st, w, js, ps, isClosed) ==
    /\ st \in {"none", "requested"} => w = <<>> /\ js = <<>> /\ ps = <<>>
    /\ \A i \in 1 .. Len(w) :
           /\ w[i].kind = "session" => i = 1 /\ st = "started"
           /\ w[i].kind = "refusal" => w[i].number \in 1 .. Len(ps)
    /\ isClosed => w = <<>>
    /\ st = "started" =>
           /\ Len(js) <= 1 /\ \A i \in 1 .. Len(js) : js[i].at = "read"
           /\ ~isClosed => w # <<>> /\ w[1].kind = "session"
    /\ \A i \in 1 .. Len(js) : js[i].at \in {"adopt", "attach"} => st = "received"
    /\ st = "received" => Awaits(js)

(* The readers that wait, and when the queue has failed. *)
ReadersOK(q, st, isClosed) ==
    /\ q.waiters # <<>> => q.values = <<>> /\ ~q.failed /\ st = "attached" /\ ~isClosed
    /\ st = "over" \/ (st = "attached" /\ isClosed) => q.failed
    /\ q.failed => st = "over" \/ isClosed

(* An entry was made when there were e.asked prompts: their cursors are at *)
(* most its number, those of later ones exceed it, and a stop ended them.  *)
EntryFits(e, ps, next) ==
    /\ e.sequence < next /\ e.asked <= Len(ps)
    /\ \A p \in 1 .. Len(ps) :
           /\ e.asked < p => e.sequence < ps[p].cursor
           /\ p <= e.asked /\ e.kind = "stop" => ~ps[p].active

PromptsFit(ps, next) ==
    \A p \in 1 .. Len(ps) :
        /\ ps[p].cursor <= next
        /\ ps[p].overlaps <=> ps[p].beside # {}

ValuesFit(values, ps, next) == \A i \in 1 .. Len(values) : EntryFits(values[i], ps, next)

Routed == [at : {"route"}, entry : [kind : {"update", "idle"}, number : Nat]]

(* A job is about what there is; readText() goes on with an entry of its   *)
(* prompt's turn or a later one, and with a stop when none overlaps.       *)
JobFits(j, ps, next, t) ==
    /\ j.at = "route" => j \in Routed
    /\ j.at \in {"settle", "reject"} => j.entry.number \in 1 .. Len(ps)
    /\ j.at = "text" =>
           /\ j.entry \in V2!Values /\ EntryFits(j.entry, ps, next)
           /\ t.on /\ t.prompt <= j.entry.asked
           /\ t.prompt # 0 /\ j.entry.kind = "stop" => ~ps[t.prompt].overlaps

JobsFit(js, ps, next, t) == \A i \in 1 .. Len(js) : JobFits(js[i], ps, next, t)

(* readText() waits in one place. *)
OneText(js, waiters) ==
    /\ \A i, j \in 1 .. Len(waiters) : waiters[i] = "text" /\ waiters[j] = "text" => i = j
    /\ \A i, j \in 1 .. Len(js) : js[i].at = "text" /\ js[j].at = "text" => i = j
    /\ \A i \in 1 .. Len(js), j \in 1 .. Len(waiters) :
           ~(js[i].at = "text" /\ waiters[j] = "text")

TextFits(t, waiters, ps) ==
    /\ ~t.early /\ t.prompt <= Len(ps)
    /\ \A i \in 1 .. Len(waiters) :
           waiters[i] = "text" => t.on /\ (t.prompt # 0 => ~ps[t.prompt].overlaps)

(* What readText() returned is of turns that have ended. *)
TextsFit(ts, ps) ==
    \A t \in ts :
        /\ ~t.early /\ t.prompt <= Len(ps)
        /\ t.prompt # 0 => ~ps[t.prompt].active /\ ~ps[t.prompt].overlaps

TurnsOK(js, q, ps, t) ==
    /\ PromptsFit(ps, q.next) /\ ValuesFit(q.values, ps, q.next)
    /\ JobsFit(js, ps, q.next, t)
    /\ OneText(js, q.waiters) /\ TextFits(t, q.waiters, ps)

(* The numbers of the entries, and of those that the guard has let go on. *)
NumbersOf(s) == [i \in 1 .. Len(s) |-> s[i].number]
JobNumbers(js) == [i \in 1 .. Len(js) |-> js[i].entry.number]
Guarded(js) == JobNumbers(Filter(js, Routed))
Queued(values) == NumbersOf(Filter(values, V2!Values))

Order == seenV2 \o Queued(queue.values) \o Guarded(jobsV2) = dueV2

(* The inductive invariant. *)
TurnsInv ==
    /\ V2!TypeOK
    /\ StagesOK(stage, wireV2, jobsV2, promptsV2, closedV2)
    /\ text.on => stage \in {"attached", "over"}
    /\ ReadersOK(queue, stage, closedV2)
    /\ TurnsOK(jobsV2, queue, promptsV2, text)
    /\ TextsFit(texts, promptsV2)
    /\ stage # "over" /\ ~closedV2 => Order

LEMMA FilterOfTurns == \A s, T : V2!Filter(s, T) = Filter(s, T)
BY DEF V2!Filter, Filter

LEMMA TurnTypes ==
    V2!TypeOK <=>
        /\ stage \in {"none", "requested", "started", "received", "attached", "over"}
        /\ wireV2 \in Seq(V2!Messages) /\ jobsV2 \in Seq(TurnJobs)
        /\ queue \in TurnQueues /\ promptsV2 \in Seq(TurnPrompts)
        /\ text \in [on : BOOLEAN, prompt : Nat, early : BOOLEAN]
        /\ closedV2 \in BOOLEAN /\ updatesV2 \in Nat
        /\ dueV2 \in Seq(Nat) /\ seenV2 \in Seq(Nat)
        /\ texts \in SUBSET [prompt : Nat, early : BOOLEAN]
BY DEF V2!TypeOK, TurnJobs, TurnQueues, TurnPrompts

LEMMA ValuesOfTurns ==
    /\ V2!Values \subseteq V2!Entries
    /\ \A e \in V2!Entries : e \in V2!Values <=> e.kind # "error"
    /\ \A e \in V2!Entries : e.number \in Nat /\ e.sequence \in Nat /\ e.asked \in Nat
BY DEF V2!Values, V2!Entries

(* The numbers of more entries, or of the jobs without the first. *)
LEMMA NumbersConcat ==
    ASSUME NEW s \in Seq(V2!Values), NEW u \in Seq(V2!Values)
    PROVE  /\ NumbersOf(s) \in Seq(Nat) /\ NumbersOf(s \o u) = NumbersOf(s) \o NumbersOf(u)
<1>1. ASSUME NEW v \in Seq(V2!Values)
      PROVE  /\ NumbersOf(v) \in Seq(Nat) /\ Len(NumbersOf(v)) = Len(v)
             /\ \A i \in 1 .. Len(v) : NumbersOf(v)[i] = v[i].number
  <2>1. Len(v) \in Nat /\ \A i \in 1 .. Len(v) : v[i] \in V2!Values
    BY ElementOfSeq
  <2>2. NumbersOf(v) \in [1 .. Len(v) -> Nat]
    BY <2>1, ValuesOfTurns DEF NumbersOf
  <2>3. NumbersOf(v) \in Seq(Nat) /\ Len(NumbersOf(v)) = Len(v)
    BY <2>1, <2>2, FunctionIsSeq
  <2> QED BY <2>3 DEF NumbersOf
<1>2. s \o u \in Seq(V2!Values) /\ Len(s \o u) = Len(s) + Len(u)
  BY ConcatProperties
<1> DEFINE a == NumbersOf(s)  b == NumbersOf(u)  c == NumbersOf(s \o u)
<1>3. a \in Seq(Nat) /\ b \in Seq(Nat) /\ c \in Seq(Nat)
  BY <1>1, <1>2
<1>4. Len(a) = Len(s) /\ Len(b) = Len(u) /\ Len(c) = Len(s) + Len(u)
      /\ Len(s) \in Nat /\ Len(u) \in Nat
  BY <1>1, <1>2, LenProperties
<1> HIDE DEF a, b, c
<1>5. /\ a \o b \in Seq(Nat) /\ Len(a \o b) = Len(c)
      /\ \A i \in 1 .. Len(c) : (a \o b)[i] = IF i <= Len(a) THEN a[i] ELSE b[i - Len(a)]
  <2>1. /\ a \o b \in Seq(Nat) /\ Len(a \o b) = Len(a) + Len(b)
        /\ \A i \in 1 .. Len(a) + Len(b) :
              (a \o b)[i] = IF i <= Len(a) THEN a[i] ELSE b[i - Len(a)]
    BY <1>3, ConcatProperties, Zenon
  <2> QED BY <1>4, <2>1
<1>6. ASSUME NEW i \in 1 .. Len(c) PROVE c[i] = (a \o b)[i]
  <2>1. c[i] = (s \o u)[i].number
    BY <1>1, <1>2, <1>4 DEF c
  <2>2. CASE i <= Len(s)
    <3>1. (s \o u)[i] = s[i] /\ i \in 1 .. Len(s)
      BY <1>4, <2>2, ConcatProperties
    <3>2. a[i] = s[i].number
      BY <1>1, <3>1 DEF a
    <3> QED BY <1>4, <1>5, <2>1, <2>2, <3>1, <3>2
  <2>3. CASE ~(i <= Len(s))
    <3>1. (s \o u)[i] = u[i - Len(s)] /\ i - Len(s) \in 1 .. Len(u)
      BY <1>4, <2>3, ConcatProperties
    <3>2. b[i - Len(s)] = u[i - Len(s)].number
      BY <1>1, <3>1 DEF b
    <3> QED BY <1>4, <1>5, <2>1, <2>3, <3>1, <3>2
  <2> QED BY <2>2, <2>3
<1>7. c = a \o b
  BY <1>3, <1>5, <1>6, SeqEqual
<1> QED BY <1>3, <1>7 DEF a, b, c

LEMMA NumbersOfNone == NumbersOf(<<>>) = <<>> /\ JobNumbers(<<>>) = <<>>
BY DEF NumbersOf, JobNumbers

LEMMA NumberOfOne == ASSUME NEW e \in V2!Values PROVE NumbersOf(<<e>>) = <<e.number>>
BY DEF NumbersOf

LEMMA JobNumbersConcat ==
    ASSUME NEW s \in Seq(Routed), NEW u \in Seq(Routed)
    PROVE  /\ JobNumbers(s) \in Seq(Nat) /\ JobNumbers(s \o u) = JobNumbers(s) \o JobNumbers(u)
<1>1. ASSUME NEW v \in Seq(Routed)
      PROVE  /\ JobNumbers(v) \in Seq(Nat) /\ Len(JobNumbers(v)) = Len(v)
             /\ \A i \in 1 .. Len(v) : JobNumbers(v)[i] = v[i].entry.number
  <2>1. Len(v) \in Nat /\ \A i \in 1 .. Len(v) : v[i] \in Routed
    BY ElementOfSeq
  <2>2. JobNumbers(v) \in [1 .. Len(v) -> Nat]
    <3>1. \A j \in Routed : j.entry.number \in Nat
      BY DEF Routed
    <3> QED BY <2>1, <3>1 DEF JobNumbers
  <2>3. JobNumbers(v) \in Seq(Nat) /\ Len(JobNumbers(v)) = Len(v)
    BY <2>1, <2>2, FunctionIsSeq
  <2> QED BY <2>3 DEF JobNumbers
<1>2. s \o u \in Seq(Routed) /\ Len(s \o u) = Len(s) + Len(u)
  BY ConcatProperties
<1> DEFINE a == JobNumbers(s)  b == JobNumbers(u)  c == JobNumbers(s \o u)
<1>3. a \in Seq(Nat) /\ b \in Seq(Nat) /\ c \in Seq(Nat)
  BY <1>1, <1>2
<1>4. Len(a) = Len(s) /\ Len(b) = Len(u) /\ Len(c) = Len(s) + Len(u)
      /\ Len(s) \in Nat /\ Len(u) \in Nat
  BY <1>1, <1>2, LenProperties
<1> HIDE DEF a, b, c
<1>5. /\ a \o b \in Seq(Nat) /\ Len(a \o b) = Len(c)
      /\ \A i \in 1 .. Len(c) : (a \o b)[i] = IF i <= Len(a) THEN a[i] ELSE b[i - Len(a)]
  <2>1. /\ a \o b \in Seq(Nat) /\ Len(a \o b) = Len(a) + Len(b)
        /\ \A i \in 1 .. Len(a) + Len(b) :
              (a \o b)[i] = IF i <= Len(a) THEN a[i] ELSE b[i - Len(a)]
    BY <1>3, ConcatProperties, Zenon
  <2> QED BY <1>4, <2>1
<1>6. ASSUME NEW i \in 1 .. Len(c) PROVE c[i] = (a \o b)[i]
  <2>1. c[i] = (s \o u)[i].entry.number
    BY <1>1, <1>2, <1>4 DEF c
  <2>2. CASE i <= Len(s)
    <3>1. (s \o u)[i] = s[i] /\ i \in 1 .. Len(s)
      BY <1>4, <2>2, ConcatProperties
    <3>2. a[i] = s[i].entry.number
      BY <1>1, <3>1 DEF a
    <3> QED BY <1>4, <1>5, <2>1, <2>2, <3>1, <3>2
  <2>3. CASE ~(i <= Len(s))
    <3>1. (s \o u)[i] = u[i - Len(s)] /\ i - Len(s) \in 1 .. Len(u)
      BY <1>4, <2>3, ConcatProperties
    <3>2. b[i - Len(s)] = u[i - Len(s)].entry.number
      BY <1>1, <3>1 DEF b
    <3> QED BY <1>4, <1>5, <2>1, <2>3, <3>1, <3>2
  <2> QED BY <2>2, <2>3
<1>7. c = a \o b
  BY <1>3, <1>5, <1>6, SeqEqual
<1> QED BY <1>3, <1>7 DEF a, b, c

LEMMA JobNumberOfOne ==
    ASSUME NEW j \in Routed
    PROVE  JobNumbers(<<j>>) = <<j.entry.number>> /\ j.entry.number \in Nat /\ j.at = "route"
BY DEF JobNumbers, Routed

(* A job that is added, or done, is in the guard or not. *)
LEMMA GuardedAppend ==
    ASSUME NEW js \in Seq(TurnJobs), NEW j \in TurnJobs
    PROVE  /\ Guarded(js) \in Seq(Nat)
           /\ j \in Routed => Guarded(Append(js, j)) = Append(Guarded(js), j.entry.number)
           /\ j \notin Routed => Guarded(Append(js, j)) = Guarded(js)
<1> DEFINE f == Filter(js, Routed)
<1>1. f \in Seq(Routed) /\ Filter(Append(js, j), Routed) = With(f, j, Routed)
  BY FilterType, FilterAppend
<1>2. <<>> \in Seq(Routed)
  BY EmptySeq
<1> HIDE DEF f
<1>3. JobNumbers(f) \in Seq(Nat)
  BY <1>1, JobNumbersConcat
<1>4. CASE j \in Routed
  <2>1. Append(f, j) = f \o <<j>> /\ <<j>> \in Seq(Routed)
    BY <1>1, <1>4, AppendIsConcat
  <2>2. JobNumbers(f \o <<j>>) = JobNumbers(f) \o JobNumbers(<<j>>)
    BY <1>1, <2>1, JobNumbersConcat
  <2>3. JobNumbers(f) \o <<j.entry.number>> = Append(JobNumbers(f), j.entry.number)
    BY <1>3, <1>4, JobNumberOfOne, AppendIsConcat
  <2>4. JobNumbers(With(f, j, Routed)) = Append(JobNumbers(f), j.entry.number)
    BY <1>4, <2>1, <2>2, <2>3, JobNumberOfOne DEF With
  <2> QED BY <1>1, <1>3, <1>4, <2>4 DEF Guarded, f
<1>5. CASE j \notin Routed
  BY <1>1, <1>3, <1>5 DEF Guarded, f, With
<1> QED BY <1>4, <1>5

LEMMA GuardedTail ==
    ASSUME NEW js \in Seq(TurnJobs), js # <<>>
    PROVE  /\ Guarded(Tail(js)) \in Seq(Nat)
           /\ js[1] \in Routed => Guarded(js) = <<js[1].entry.number>> \o Guarded(Tail(js))
           /\ js[1] \notin Routed => Guarded(js) = Guarded(Tail(js))
<1> DEFINE f == Filter(Tail(js), Routed)
<1>1. Tail(js) \in Seq(TurnJobs)
  BY TailFacts
<1>2. f \in Seq(Routed)
  BY <1>1, FilterType
<1>3. Filter(js, Routed) = (IF js[1] \in Routed THEN <<js[1]>> ELSE <<>>) \o f
  BY FilterHead
<1> HIDE DEF f
<1>4. JobNumbers(f) \in Seq(Nat)
  BY <1>2, JobNumbersConcat
<1>5. CASE js[1] \in Routed
  <2>1. <<js[1]>> \in Seq(Routed)
    BY <1>5
  <2>2. JobNumbers(<<js[1]>> \o f) = JobNumbers(<<js[1]>>) \o JobNumbers(f)
    BY <1>2, <2>1, JobNumbersConcat
  <2>3. JobNumbers(<<js[1]>>) = <<js[1].entry.number>>
    BY <1>5, JobNumberOfOne
  <2> QED BY <1>3, <1>4, <1>5, <2>2, <2>3 DEF Guarded, f
<1>6. CASE js[1] \notin Routed
  <2>1. <<>> \o f = f
    BY <1>2, ConcatEmptySeq
  <2> QED BY <1>3, <1>4, <1>6, <2>1 DEF Guarded, f
<1> QED BY <1>5, <1>6

(* The updates among the entries. *)
LEMMA QueuedConcat ==
    ASSUME NEW s \in Seq(V2!Entries), NEW u \in Seq(V2!Entries)
    PROVE  /\ Queued(s) \in Seq(Nat) /\ Queued(s \o u) = Queued(s) \o Queued(u)
<1> DEFINE f == Filter(s, V2!Values)  g == Filter(u, V2!Values)
<1>1. f \in Seq(V2!Values) /\ g \in Seq(V2!Values)
  BY FilterType
<1>2. Filter(s \o u, V2!Values) = f \o g
  BY FilterConcat
<1>3. Queued(s) = NumbersOf(f) /\ Queued(u) = NumbersOf(g) /\ Queued(s \o u) = NumbersOf(f \o g)
  BY <1>2 DEF Queued
<1> HIDE DEF f, g
<1> QED BY <1>1, <1>3, NumbersConcat

LEMMA QueuedOne ==
    ASSUME NEW e \in V2!Entries
    PROVE  /\ e.kind # "error" => Queued(<<e>>) = <<e.number>>
           /\ e.kind = "error" => Queued(<<e>>) = <<>>
           /\ Queued(<<>>) = <<>>
<1>1. <<>> \in Seq(V2!Entries) /\ Append(<<>>, e) = <<e>>
  BY EmptySeq
<1>2. Filter(<<>>, V2!Values) = <<>>
  BY FilterEmpty
<1>3. Filter(<<e>>, V2!Values) = With(<<>>, e, V2!Values)
  <2>1. Filter(Append(<<>>, e), V2!Values) = With(Filter(<<>>, V2!Values), e, V2!Values)
    BY <1>1, FilterAppend, Zenon
  <2> QED BY <1>1, <1>2, <2>1
<1>4. CASE e.kind # "error"
  <2>1. e \in V2!Values
    BY <1>4, ValuesOfTurns
  <2>2. Filter(<<e>>, V2!Values) = <<e>>
    BY <1>1, <1>3, <2>1 DEF With
  <2> QED BY <1>2, <1>4, <2>1, <2>2, NumberOfOne, NumbersOfNone DEF Queued
<1>5. CASE e.kind = "error"
  <2>1. e \notin V2!Values
    BY <1>5, ValuesOfTurns
  <2>2. Filter(<<e>>, V2!Values) = <<>>
    BY <1>3, <2>1 DEF With
  <2> QED BY <1>2, <1>5, <2>2, NumbersOfNone DEF Queued
<1> QED BY <1>4, <1>5

LEMMA QueuedAppend ==
    ASSUME NEW s \in Seq(V2!Entries), NEW e \in V2!Entries
    PROVE  /\ e.kind # "error" => Queued(Append(s, e)) = Append(Queued(s), e.number)
           /\ e.kind = "error" => Queued(Append(s, e)) = Queued(s)
<1>1. <<e>> \in Seq(V2!Entries) /\ Append(s, e) = s \o <<e>>
  BY AppendIsConcat
<1>2. Queued(s) \in Seq(Nat) /\ Queued(s \o <<e>>) = Queued(s) \o Queued(<<e>>)
  BY <1>1, QueuedConcat
<1>3. e.number \in Nat
  BY ValuesOfTurns
<1>4. CASE e.kind # "error"
  <2>1. Append(Queued(s), e.number) = Queued(s) \o <<e.number>>
    BY <1>2, <1>3, AppendIsConcat
  <2> QED BY <1>1, <1>2, <1>4, <2>1, QueuedOne
<1>5. CASE e.kind = "error"
  <2>1. Queued(s) \o <<>> = Queued(s)
    BY <1>2, ConcatEmptySeq
  <2> QED BY <1>1, <1>2, <1>5, <2>1, QueuedOne
<1> QED BY <1>4, <1>5

(* clearErrors keeps them, and Updates is what they are called there. *)
LEMMA QueuedCleared ==
    ASSUME NEW s \in Seq(V2!Entries)
    PROVE  /\ V2!ClearErrors(s) \in Seq(V2!Entries) /\ Queued(V2!ClearErrors(s)) = Queued(s)
           /\ V2!ClearErrors(s) = Filter(s, V2!Values)
<1> DEFINE f == Filter(s, V2!Values)
<1>1. f \in Seq(V2!Values) /\ f \in Seq(V2!Entries)
  BY FilterType
<1>2. V2!ClearErrors(s) = f
  BY FilterOfTurns DEF V2!ClearErrors
<1> HIDE DEF f
<1>3. Filter(f, V2!Values) = f
  BY <1>1, FilterAll
<1> QED BY <1>1, <1>2, <1>3 DEF f, Queued

LEMMA UpdatesAre == \A s : V2!Updates(s) = Queued(s)
BY FilterOfTurns DEF V2!Updates, V2!ClearErrors, Queued, NumbersOf

-----------------------------------------------------------------------------
(* What a job that is done, or added, leaves of the invariant.                *)

LEMMA AwaitsTail ==
    ASSUME NEW js \in Seq(TurnJobs), js # <<>>, Awaits(js), js[1].at \notin {"adopt", "attach"}
    PROVE  /\ Awaits(Tail(js))
           /\ \A i \in 1 .. Len(Tail(js)) : Tail(js)[i].at # "adopt"
           /\ js[1].at # "route"
<1>1. /\ Len(js) \in Nat /\ Len(Tail(js)) = Len(js) - 1 /\ 1 \in 1 .. Len(js)
      /\ \A i \in 1 .. Len(Tail(js)) : Tail(js)[i] = js[i + 1]
  BY TailFacts
<1>2. PICK i \in 1 .. Len(js) :
         /\ js[i].at = "attach"
         /\ \A j \in 1 .. Len(js) : j # i => js[j].at \notin {"adopt", "attach"}
         /\ \A j \in 1 .. i - 1 : js[j].at # "route"
  BY DEF Awaits
<1>3. i # 1 /\ i - 1 \in 1 .. Len(Tail(js)) /\ 1 \in 1 .. i - 1
  BY <1>1, <1>2
<1> DEFINE t == Tail(js)  n == i - 1
<1>4. t[n].at = "attach"
  BY <1>1, <1>2, <1>3
<1>5. \A j \in 1 .. Len(t) : j # n => t[j].at \notin {"adopt", "attach"}
  BY <1>1, <1>2
<1>6. \A j \in 1 .. n - 1 : t[j].at # "route"
  BY <1>1, <1>2
<1> HIDE DEF t, n
<1>7. Awaits(t)
  BY <1>3, <1>4, <1>5, <1>6 DEF Awaits, t, n
<1>8. \A j \in 1 .. Len(t) : t[j].at # "adopt"
  BY <1>4, <1>5
<1> QED BY <1>2, <1>3, <1>7, <1>8 DEF t

LEMMA AwaitsAppend ==
    ASSUME NEW js \in Seq(TurnJobs), NEW j \in TurnJobs, Awaits(js),
           j.at \notin {"adopt", "attach"},
           j.at = "route" => \A i \in 1 .. Len(js) : js[i].at # "adopt"
    PROVE  Awaits(Append(js, j))
<1> DEFINE a == Append(js, j)
<1>1. /\ Len(js) \in Nat /\ Len(a) = Len(js) + 1 /\ a[Len(js) + 1] = j
      /\ \A i \in 1 .. Len(js) : a[i] = js[i]
  BY AppendFacts
<1> HIDE DEF a
<1>2. CASE /\ js # <<>> /\ js[1].at = "adopt"
           /\ \A i \in 2 .. Len(js) : js[i].at \notin {"adopt", "attach", "route"}
  <2>1. 1 \in 1 .. Len(js) /\ a # <<>>
    <3>1. Len(js) # 0 /\ Len(a) # 0
      BY <1>1, <1>2
    <3> QED BY <1>1, <3>1
  <2>2. a[1].at = "adopt" /\ j.at # "route"
    BY <1>1, <1>2, <2>1
  <2>3. \A i \in 2 .. Len(a) : a[i].at \notin {"adopt", "attach", "route"}
    BY <1>1, <1>2, <2>2
  <2> QED BY <2>1, <2>2, <2>3 DEF Awaits, a
<1>3. ASSUME NEW i \in 1 .. Len(js), js[i].at = "attach",
             \A k \in 1 .. Len(js) : k # i => js[k].at \notin {"adopt", "attach"},
             \A k \in 1 .. i - 1 : js[k].at # "route"
      PROVE  Awaits(a)
  <2>1. i \in 1 .. Len(a) /\ a[i].at = "attach"
    BY <1>1, <1>3
  <2>2. \A k \in 1 .. Len(a) : k # i => a[k].at \notin {"adopt", "attach"}
    BY <1>1, <1>3
  <2>3. \A k \in 1 .. i - 1 : a[k].at # "route"
    BY <1>1, <1>3
  <2> QED BY <2>1, <2>2, <2>3 DEF Awaits
<1> QED BY <1>2, <1>3 DEF Awaits, a

(* A microtask is over, which is not of the session's response. *)
LEMMA StagesTail ==
    ASSUME NEW st, NEW w, NEW ps, NEW c, NEW js \in Seq(TurnJobs), js # <<>>,
           StagesOK(st, w, js, ps, c), js[1].at \notin {"adopt", "attach"}
    PROVE  /\ StagesOK(st, w, Tail(js), ps, c) /\ st \notin {"none", "requested"}
           /\ st = "started" => js[1].at = "read"
           /\ st = "received" => /\ js[1].at # "route"
                                 /\ \A i \in 1 .. Len(Tail(js)) : Tail(js)[i].at # "adopt"
<1>1. /\ Len(js) \in Nat /\ Len(Tail(js)) = Len(js) - 1 /\ 1 \in 1 .. Len(js)
      /\ \A i \in 1 .. Len(Tail(js)) : Tail(js)[i] = js[i + 1] /\ i + 1 \in 1 .. Len(js)
  BY TailFacts
<1>2. st = "received" =>
         /\ Awaits(Tail(js)) /\ js[1].at # "route"
         /\ \A i \in 1 .. Len(Tail(js)) : Tail(js)[i].at # "adopt"
  BY AwaitsTail DEF StagesOK
<1>3. \A i \in 1 .. Len(Tail(js)) : Tail(js)[i].at \in {"adopt", "attach"} => st = "received"
  BY <1>1 DEF StagesOK
<1>4. st = "started" => /\ Len(Tail(js)) <= 1 /\ \A i \in 1 .. Len(Tail(js)) : Tail(js)[i].at = "read"
                        /\ js[1].at = "read"
  BY <1>1 DEF StagesOK
<1>5. st \notin {"none", "requested"}
  BY DEF StagesOK
<1> QED BY <1>2, <1>3, <1>4, <1>5 DEF StagesOK

LEMMA StagesAppend ==
    ASSUME NEW st, NEW w, NEW ps, NEW c, NEW js \in Seq(TurnJobs), NEW j \in TurnJobs,
           StagesOK(st, w, js, ps, c), st \notin {"none", "requested", "started"},
           j.at \notin {"adopt", "attach"},
           st = "received" /\ j.at = "route" => \A i \in 1 .. Len(js) : js[i].at # "adopt"
    PROVE  StagesOK(st, w, Append(js, j), ps, c)
<1> DEFINE a == Append(js, j)
<1>1. /\ Len(js) \in Nat /\ Len(a) = Len(js) + 1 /\ a[Len(js) + 1] = j
      /\ \A i \in 1 .. Len(js) : a[i] = js[i]
  BY AppendFacts
<1>2. st = "received" => Awaits(a)
  BY AwaitsAppend DEF StagesOK
<1> HIDE DEF a
<1>3. \A i \in 1 .. Len(a) : a[i].at \in {"adopt", "attach"} => st = "received"
  BY <1>1 DEF StagesOK
<1> QED BY <1>2, <1>3 DEF StagesOK, a

LEMMA TurnsTail ==
    ASSUME NEW js \in Seq(TurnJobs), js # <<>>, NEW q, NEW ps, NEW t, TurnsOK(js, q, ps, t)
    PROVE  /\ TurnsOK(Tail(js), q, ps, t) /\ js[1] \in TurnJobs /\ JobFits(js[1], ps, q.next, t)
           /\ Tail(js) \in Seq(TurnJobs) /\ Head(js) = js[1]
           /\ js[1].at = "text" =>
                 /\ \A i \in 1 .. Len(Tail(js)) : Tail(js)[i].at # "text"
                 /\ \A i \in 1 .. Len(q.waiters) : q.waiters[i] # "text"
<1>1. /\ Len(js) \in Nat /\ Len(Tail(js)) = Len(js) - 1 /\ 1 \in 1 .. Len(js)
      /\ Tail(js) \in Seq(TurnJobs) /\ js[1] \in TurnJobs /\ Head(js) = js[1]
      /\ \A i \in 1 .. Len(Tail(js)) : Tail(js)[i] = js[i + 1] /\ i + 1 \in 2 .. Len(js)
  BY TailFacts
<1>2. JobsFit(Tail(js), ps, q.next, t) /\ JobFits(js[1], ps, q.next, t)
  BY <1>1 DEF TurnsOK, JobsFit
<1>3. OneText(Tail(js), q.waiters)
  <2>1. \A i, j \in 1 .. Len(Tail(js)) :
           Tail(js)[i].at = "text" /\ Tail(js)[j].at = "text" => i = j
    BY <1>1 DEF TurnsOK, OneText
  <2>2. \A i \in 1 .. Len(Tail(js)), j \in 1 .. Len(q.waiters) :
           ~(Tail(js)[i].at = "text" /\ q.waiters[j] = "text")
    BY <1>1 DEF TurnsOK, OneText
  <2> QED BY <2>1, <2>2 DEF TurnsOK, OneText
<1>4. js[1].at = "text" =>
         /\ \A i \in 1 .. Len(Tail(js)) : Tail(js)[i].at # "text"
         /\ \A i \in 1 .. Len(q.waiters) : q.waiters[i] # "text"
  <2> SUFFICES ASSUME js[1].at = "text"
               PROVE  /\ \A i \in 1 .. Len(Tail(js)) : Tail(js)[i].at # "text"
                      /\ \A i \in 1 .. Len(q.waiters) : q.waiters[i] # "text"
    OBVIOUS
  <2>1. \A i \in 2 .. Len(js) : js[i].at # "text"
    BY <1>1 DEF TurnsOK, OneText
  <2>2. \A i \in 1 .. Len(q.waiters) : q.waiters[i] # "text"
    BY <1>1 DEF TurnsOK, OneText
  <2> QED BY <1>1, <2>1, <2>2
<1> QED BY <1>1, <1>2, <1>3, <1>4 DEF TurnsOK

LEMMA TurnsAppend ==
    ASSUME NEW js \in Seq(TurnJobs), NEW j \in TurnJobs, NEW q, NEW ps, NEW t,
           TurnsOK(js, q, ps, t), JobFits(j, ps, q.next, t),
           j.at = "text" => /\ \A i \in 1 .. Len(js) : js[i].at # "text"
                            /\ \A i \in 1 .. Len(q.waiters) : q.waiters[i] # "text"
    PROVE  Append(js, j) \in Seq(TurnJobs) /\ TurnsOK(Append(js, j), q, ps, t)
<1> DEFINE a == Append(js, j)
<1>1. /\ Len(js) \in Nat /\ Len(a) = Len(js) + 1 /\ a[Len(js) + 1] = j
      /\ a \in Seq(TurnJobs) /\ \A i \in 1 .. Len(js) : a[i] = js[i]
  BY AppendFacts
<1> HIDE DEF a
<1>2. JobsFit(a, ps, q.next, t)
  <2> SUFFICES ASSUME NEW i \in 1 .. Len(a) PROVE JobFits(a[i], ps, q.next, t)
    BY DEF JobsFit
  <2>1. i = Len(js) + 1 \/ i \in 1 .. Len(js)
    BY <1>1
  <2> QED BY <1>1, <2>1 DEF TurnsOK, JobsFit
<1>3. OneText(a, q.waiters)
  <2>1. \A i, k \in 1 .. Len(a) : a[i].at = "text" /\ a[k].at = "text" => i = k
    <3> SUFFICES ASSUME NEW i \in 1 .. Len(a), NEW k \in 1 .. Len(a),
                        a[i].at = "text", a[k].at = "text"
                 PROVE  i = k
      OBVIOUS
    <3>1. (i = Len(js) + 1 \/ i \in 1 .. Len(js)) /\ (k = Len(js) + 1 \/ k \in 1 .. Len(js))
      BY <1>1
    <3> QED BY <1>1, <3>1 DEF TurnsOK, OneText
  <2>2. \A i \in 1 .. Len(a), k \in 1 .. Len(q.waiters) :
           ~(a[i].at = "text" /\ q.waiters[k] = "text")
    <3> SUFFICES ASSUME NEW i \in 1 .. Len(a), NEW k \in 1 .. Len(q.waiters),
                        a[i].at = "text", q.waiters[k] = "text"
                 PROVE  FALSE
      OBVIOUS
    <3>1. i = Len(js) + 1 \/ i \in 1 .. Len(js)
      BY <1>1
    <3> QED BY <1>1, <3>1 DEF TurnsOK, OneText
  <2> QED BY <2>1, <2>2 DEF TurnsOK, OneText
<1> QED BY <1>1, <1>2, <1>3 DEF TurnsOK, a

(* The prompts go on as they do: none becomes active again, and one that   *)
(* has ended overlaps no other any more.                                   *)
GoesOn(ps, qs, next) ==
    /\ Len(ps) <= Len(qs)
    /\ \A p \in 1 .. Len(ps) :
           /\ qs[p].cursor = ps[p].cursor /\ (qs[p].active => ps[p].active)
           /\ ~ps[p].active => qs[p].overlaps = ps[p].overlaps
    /\ \A p \in Len(ps) + 1 .. Len(qs) : qs[p].cursor >= next

LEMMA EntryLater ==
    ASSUME NEW ps \in Seq(TurnPrompts), NEW qs \in Seq(TurnPrompts),
           NEW next \in Nat, NEW later \in Nat, next <= later,
           GoesOn(ps, qs, next), NEW e \in V2!Entries, EntryFits(e, ps, next)
    PROVE  EntryFits(e, qs, later)
<1>1. /\ Len(ps) \in Nat /\ Len(qs) \in Nat /\ e.sequence \in Nat /\ e.asked \in Nat
      /\ \A p \in 1 .. Len(qs) : qs[p].cursor \in Nat
  <2>1. \A p \in 1 .. Len(qs) : qs[p] \in TurnPrompts
    BY ElementOfSeq
  <2> QED BY <2>1, LenProperties, ValuesOfTurns DEF TurnPrompts
<1>2. e.sequence < later /\ e.asked <= Len(qs)
  BY <1>1 DEF EntryFits, GoesOn
<1>3. ASSUME NEW p \in 1 .. Len(qs)
      PROVE  /\ e.asked < p => e.sequence < qs[p].cursor
             /\ p <= e.asked /\ e.kind = "stop" => ~qs[p].active
  <2>1. CASE p \in 1 .. Len(ps)
    BY <1>1, <2>1 DEF EntryFits, GoesOn
  <2>2. CASE p \in Len(ps) + 1 .. Len(qs)
    BY <1>1, <2>2 DEF EntryFits, GoesOn
  <2> QED BY <1>1, <2>1, <2>2
<1> QED BY <1>2, <1>3 DEF EntryFits

LEMMA JobsLater ==
    ASSUME NEW ps \in Seq(TurnPrompts), NEW qs \in Seq(TurnPrompts),
           NEW next \in Nat, NEW later \in Nat, next <= later, GoesOn(ps, qs, next),
           NEW t \in [on : BOOLEAN, prompt : Nat, early : BOOLEAN],
           NEW js \in Seq(TurnJobs), JobsFit(js, ps, next, t)
    PROVE  JobsFit(js, qs, later, t)
<1> SUFFICES ASSUME NEW i \in 1 .. Len(js) PROVE JobFits(js[i], qs, later, t)
  BY DEF JobsFit
<1> DEFINE j == js[i]
<1>1. JobFits(j, ps, next, t)
  BY DEF JobsFit
<1>2. Len(ps) \in Nat /\ Len(qs) \in Nat /\ t.prompt \in Nat
  BY LenProperties
<1> HIDE DEF j
<1>3. j.at \in {"settle", "reject"} => j.entry.number \in 1 .. Len(qs)
  BY <1>1, <1>2 DEF JobFits, GoesOn
<1>4. ASSUME j.at = "text"
      PROVE  /\ j.entry \in V2!Values /\ EntryFits(j.entry, qs, later)
             /\ t.on /\ t.prompt <= j.entry.asked
             /\ t.prompt # 0 /\ j.entry.kind = "stop" => ~qs[t.prompt].overlaps
  <2>1. /\ j.entry \in V2!Values /\ EntryFits(j.entry, ps, next)
        /\ t.on /\ t.prompt <= j.entry.asked
        /\ t.prompt # 0 /\ j.entry.kind = "stop" => ~ps[t.prompt].overlaps
    BY <1>1, <1>4 DEF JobFits
  <2>2. EntryFits(j.entry, qs, later)
    BY <2>1, EntryLater, ValuesOfTurns
  <2>3. ASSUME t.prompt # 0, j.entry.kind = "stop" PROVE ~qs[t.prompt].overlaps
    <3>1. t.prompt \in 1 .. Len(ps) /\ j.entry.asked \in Nat
      BY <1>2, <2>1, <2>3, ValuesOfTurns DEF EntryFits
    <3>2. ~ps[t.prompt].active
      BY <2>1, <2>3, <3>1 DEF EntryFits
    <3> QED BY <2>1, <2>3, <3>1, <3>2 DEF GoesOn
  <2> QED BY <2>1, <2>2, <2>3
<1> QED BY <1>1, <1>3, <1>4 DEF JobFits, j

LEMMA TextsLater ==
    ASSUME NEW ps \in Seq(TurnPrompts), NEW qs \in Seq(TurnPrompts), NEW next,
           GoesOn(ps, qs, next), NEW ts \in SUBSET [prompt : Nat, early : BOOLEAN],
           TextsFit(ts, ps)
    PROVE  TextsFit(ts, qs)
<1> SUFFICES ASSUME NEW t \in ts
             PROVE  /\ ~t.early /\ t.prompt <= Len(qs)
                    /\ t.prompt # 0 => ~qs[t.prompt].active /\ ~qs[t.prompt].overlaps
  BY DEF TextsFit
<1>1. Len(ps) \in Nat /\ Len(qs) \in Nat /\ t.prompt \in Nat
  BY LenProperties
<1>2. /\ ~t.early /\ t.prompt <= Len(ps)
      /\ t.prompt # 0 => ~ps[t.prompt].active /\ ~ps[t.prompt].overlaps
  BY DEF TextsFit
<1>3. t.prompt # 0 => t.prompt \in 1 .. Len(ps)
  BY <1>1, <1>2
<1> QED BY <1>1, <1>2, <1>3 DEF GoesOn

(* What remains of the entries fits, and one that is new does.             *)
LEMMA ValuesLater ==
    ASSUME NEW ps \in Seq(TurnPrompts), NEW qs \in Seq(TurnPrompts),
           NEW next \in Nat, NEW later \in Nat, next <= later, GoesOn(ps, qs, next),
           NEW values \in Seq(V2!Entries), ValuesFit(values, ps, next)
    PROVE  ValuesFit(values, qs, later)
<1> SUFFICES ASSUME NEW i \in 1 .. Len(values) PROVE EntryFits(values[i], qs, later)
  BY DEF ValuesFit
<1>1. values[i] \in V2!Entries /\ EntryFits(values[i], ps, next)
  BY ElementOfSeq DEF ValuesFit
<1> QED BY <1>1, EntryLater

LEMMA GoesOnSame == \A ps, next : Len(ps) \in Nat => GoesOn(ps, ps, next)
BY DEF GoesOn

-----------------------------------------------------------------------------
(* The steps of a session of version 2.                                       *)

LEMMA TurnsInit == V2!Init => TurnsInv
<1> SUFFICES ASSUME V2!Init PROVE TurnsInv
  OBVIOUS
<1>1. V2!TypeOK
  BY EmptySeq DEF V2!Init, V2!TypeOK, V2!NoText
<1>2. /\ stage = "none" /\ wireV2 = <<>> /\ jobsV2 = <<>> /\ promptsV2 = <<>> /\ ~closedV2
      /\ dueV2 = <<>> /\ seenV2 = <<>> /\ texts = {} /\ text = V2!NoText
      /\ queue.values = <<>> /\ queue.waiters = <<>> /\ ~queue.failed
  BY DEF V2!Init
<1>3. Order
  <2>1. Queued(<<>>) = <<>> /\ Guarded(<<>>) = <<>>
    BY FilterEmpty, NumbersOfNone DEF Queued, Guarded
  <2>2. <<>> \o <<>> \o <<>> = <<>>
    OBVIOUS
  <2> QED BY <1>2, <2>1, <2>2 DEF Order
<1>4. StagesOK(stage, wireV2, jobsV2, promptsV2, closedV2) /\ ReadersOK(queue, stage, closedV2)
  BY <1>2 DEF StagesOK, ReadersOK
<1>5. TurnsOK(jobsV2, queue, promptsV2, text) /\ TextsFit(texts, promptsV2) /\ ~text.on
  BY <1>2 DEF TurnsOK, PromptsFit, ValuesFit, JobsFit, OneText, TextFits, TextsFit, V2!NoText
<1> QED BY <1>1, <1>3, <1>4, <1>5 DEF TurnsInv

LEMMA TurnTypesNext ==
    ASSUME stage' \in {"none", "requested", "started", "received", "attached", "over"},
           wireV2' \in Seq(V2!Messages), jobsV2' \in Seq(TurnJobs),
           queue' \in TurnQueues, promptsV2' \in Seq(TurnPrompts),
           text' \in [on : BOOLEAN, prompt : Nat, early : BOOLEAN],
           closedV2' \in BOOLEAN, updatesV2' \in Nat,
           dueV2' \in Seq(Nat), seenV2' \in Seq(Nat),
           texts' \in SUBSET [prompt : Nat, early : BOOLEAN]
    PROVE  V2!TypeOK'
BY DEF V2!TypeOK, TurnJobs, TurnQueues, TurnPrompts

LEMMA TurnsTyped ==
    ASSUME TurnsInv
    PROVE  /\ stage \in {"none", "requested", "started", "received", "attached", "over"}
           /\ wireV2 \in Seq(V2!Messages) /\ jobsV2 \in Seq(TurnJobs)
           /\ queue \in TurnQueues /\ promptsV2 \in Seq(TurnPrompts)
           /\ text \in [on : BOOLEAN, prompt : Nat, early : BOOLEAN]
           /\ closedV2 \in BOOLEAN /\ updatesV2 \in Nat
           /\ dueV2 \in Seq(Nat) /\ seenV2 \in Seq(Nat)
           /\ texts \in SUBSET [prompt : Nat, early : BOOLEAN]
           /\ Len(promptsV2) \in Nat /\ Len(jobsV2) \in Nat /\ Len(wireV2) \in Nat
           /\ queue.next \in Nat /\ queue.values \in Seq(V2!Entries)
           /\ queue.waiters \in Seq({"text", "next"}) /\ queue.failed \in BOOLEAN
           /\ queue.next + 1 \in Nat
<1>1. /\ stage \in {"none", "requested", "started", "received", "attached", "over"}
      /\ wireV2 \in Seq(V2!Messages) /\ jobsV2 \in Seq(TurnJobs)
      /\ queue \in TurnQueues /\ promptsV2 \in Seq(TurnPrompts)
      /\ text \in [on : BOOLEAN, prompt : Nat, early : BOOLEAN]
      /\ closedV2 \in BOOLEAN /\ updatesV2 \in Nat
      /\ dueV2 \in Seq(Nat) /\ seenV2 \in Seq(Nat)
      /\ texts \in SUBSET [prompt : Nat, early : BOOLEAN]
  BY TurnTypes DEF TurnsInv
<1>2. /\ queue.next \in Nat /\ queue.values \in Seq(V2!Entries)
      /\ queue.waiters \in Seq({"text", "next"}) /\ queue.failed \in BOOLEAN
  BY <1>1 DEF TurnQueues
<1>3. Len(promptsV2) \in Nat /\ Len(jobsV2) \in Nat /\ Len(wireV2) \in Nat
  BY <1>1, LenProperties
<1> QED BY <1>1, <1>2, <1>3

ReadJob == V2!Job("read", V2!NoEntry)

LEMMA ReadJobFits ==
    /\ ReadJob \in TurnJobs /\ ReadJob \notin Routed /\ ReadJob.at = "read"
    /\ \A ps, next, t : JobFits(ReadJob, ps, next, t)
<1>1. ReadJob \in TurnJobs /\ ReadJob.at = "read"
  BY DEF ReadJob, V2!Job, TurnJobs
<1> QED BY <1>1 DEF JobFits, Routed

(* The connection's reader is woken, or is awake.                          *)
LEMMA Woken ==
    ASSUME TurnsInv, stage \notin {"none", "requested"},
           jobsV2' = IF V2!Awake THEN jobsV2 ELSE Append(jobsV2, ReadJob)
    PROVE  /\ jobsV2' \in Seq(TurnJobs) /\ Guarded(jobsV2') = Guarded(jobsV2)
           /\ TurnsOK(jobsV2', queue, promptsV2, text)
           /\ StagesOK(stage, wireV2, jobsV2', promptsV2, closedV2)
<1>1. /\ jobsV2 \in Seq(TurnJobs) /\ TurnsOK(jobsV2, queue, promptsV2, text)
      /\ StagesOK(stage, wireV2, jobsV2, promptsV2, closedV2)
  BY TurnsTyped DEF TurnsInv
<1>2. CASE V2!Awake
  BY <1>1, <1>2
<1>3. CASE ~V2!Awake
  <2>1. Append(jobsV2, ReadJob) \in Seq(TurnJobs)
        /\ TurnsOK(Append(jobsV2, ReadJob), queue, promptsV2, text)
    BY <1>1, TurnsAppend, ReadJobFits
  <2>2. Guarded(Append(jobsV2, ReadJob)) = Guarded(jobsV2)
    BY <1>1, GuardedAppend, ReadJobFits
  <2>3. StagesOK(stage, wireV2, Append(jobsV2, ReadJob), promptsV2, closedV2)
    <3>1. CASE stage = "started"
      <4>1. \A i \in 1 .. Len(jobsV2) : FALSE
        BY <1>1, <1>3, <3>1 DEF StagesOK, V2!Awake
      <4>2. Len(jobsV2) = 0 /\ Len(Append(jobsV2, ReadJob)) = 1
            /\ Append(jobsV2, ReadJob)[1] = ReadJob
        BY <1>1, <4>1, TurnsTyped, AppendFacts, ReadJobFits
      <4> QED BY <1>1, <3>1, <4>2, ReadJobFits DEF StagesOK
    <3>2. CASE stage # "started"
      BY <1>1, <3>2, StagesAppend, ReadJobFits
    <3> QED BY <3>1, <3>2
  <2> QED BY <1>3, <2>1, <2>2, <2>3
<1> QED BY <1>2, <1>3

(* What the agent sends for the session once it has started it.            *)
LEMMA AgentSends ==
    ASSUME TurnsInv, NEW m \in V2!Messages, m.kind # "session",
           m.kind = "refusal" => m.number \in 1 .. Len(promptsV2),
           stage \notin {"none", "requested"}, V2!Sends(m),
           UNCHANGED <<stage, queue, text, closedV2, dueV2, seenV2, texts>>, updatesV2' \in Nat,
           promptsV2' \in Seq(TurnPrompts), Len(promptsV2') = Len(promptsV2),
           \A p \in 1 .. Len(promptsV2) :
              /\ promptsV2'[p].cursor = promptsV2[p].cursor
              /\ promptsV2'[p].active = promptsV2[p].active
              /\ promptsV2'[p].overlaps = promptsV2[p].overlaps
              /\ promptsV2'[p].beside = promptsV2[p].beside
    PROVE  TurnsInv'
<1>1. ~closedV2 /\ wireV2' = Append(wireV2, m)
      /\ jobsV2' = IF V2!Awake THEN jobsV2 ELSE Append(jobsV2, ReadJob)
  BY DEF V2!Sends, ReadJob
<1>2. /\ jobsV2' \in Seq(TurnJobs) /\ Guarded(jobsV2') = Guarded(jobsV2)
      /\ TurnsOK(jobsV2', queue, promptsV2, text)
      /\ StagesOK(stage, wireV2, jobsV2', promptsV2, closedV2)
  BY <1>1, Woken
<1>3. /\ wireV2' \in Seq(V2!Messages) /\ Len(wireV2) \in Nat
      /\ Len(wireV2') = Len(wireV2) + 1 /\ wireV2'[Len(wireV2) + 1] = m
      /\ \A i \in 1 .. Len(wireV2) : wireV2'[i] = wireV2[i]
  BY <1>1, TurnsTyped, AppendFacts
<1>4. V2!TypeOK'
  BY <1>2, <1>3, TurnsTyped, TurnTypesNext
<1>5. StagesOK(stage, wireV2', jobsV2', promptsV2', closedV2)
  <2>1. ASSUME NEW i \in 1 .. Len(wireV2')
        PROVE  /\ wireV2'[i].kind = "session" => i = 1 /\ stage = "started"
               /\ wireV2'[i].kind = "refusal" => wireV2'[i].number \in 1 .. Len(promptsV2')
    <3>1. i = Len(wireV2) + 1 \/ i \in 1 .. Len(wireV2)
      BY <1>3
    <3> QED BY <1>2, <1>3, <3>1 DEF StagesOK
  <2>2. stage = "started" => wireV2' # <<>> /\ wireV2'[1].kind = "session"
    <3> SUFFICES ASSUME stage = "started" PROVE wireV2' # <<>> /\ wireV2'[1].kind = "session"
      OBVIOUS
    <3>1. wireV2 # <<>> /\ wireV2[1].kind = "session"
      BY <1>1, <1>2 DEF StagesOK
    <3>2. 1 \in 1 .. Len(wireV2)
      BY <3>1, TurnsTyped
    <3> QED BY <1>3, <3>1, <3>2
  <2> QED BY <1>1, <1>2, <2>1, <2>2 DEF StagesOK
<1>6. GoesOn(promptsV2, promptsV2', queue.next)
  <2>1. Len(promptsV2) \in Nat
    BY TurnsTyped
  <2> QED BY <2>1 DEF GoesOn
<1>7. TurnsOK(jobsV2', queue, promptsV2', text)
  <2>1. JobsFit(jobsV2', promptsV2', queue.next, text)
        /\ ValuesFit(queue.values, promptsV2', queue.next)
    BY <1>2, <1>6, TurnsTyped, JobsLater, ValuesLater DEF TurnsOK
  <2>2. PromptsFit(promptsV2', queue.next)
    BY <1>2 DEF TurnsOK, PromptsFit
  <2>3. TextFits(text, queue.waiters, promptsV2')
    <3>1. /\ text.prompt \in Nat /\ Len(promptsV2) \in Nat /\ text.prompt <= Len(promptsV2)
      BY <1>2, TurnsTyped DEF TurnsOK, TextFits
    <3>2. text.prompt # 0 => text.prompt \in 1 .. Len(promptsV2)
      BY <3>1
    <3> QED BY <1>2, <3>2 DEF TurnsOK, TextFits
  <2> QED BY <1>2, <2>1, <2>2, <2>3 DEF TurnsOK
<1>8. TextsFit(texts, promptsV2')
  BY <1>6, TurnsTyped, TextsLater DEF TurnsInv
<1>9. stage # "over" /\ ~closedV2 => Order'
  BY <1>2 DEF TurnsInv, Order
<1>10. ReadersOK(queue, stage, closedV2) /\ (text.on => stage \in {"attached", "over"})
  BY DEF TurnsInv
<1> QED BY <1>4, <1>5, <1>7, <1>8, <1>9, <1>10 DEF TurnsInv

LEMMA TurnStartsKeeps == ASSUME TurnsInv, V2!AgentStarts PROVE TurnsInv'
<1> DEFINE m == [V2!NoEntry EXCEPT !.kind = "session"]
<1>1. /\ stage = "requested" /\ stage' = "started" /\ ~closedV2
      /\ wireV2' = Append(wireV2, m)
      /\ jobsV2' = IF V2!Awake THEN jobsV2 ELSE Append(jobsV2, ReadJob)
      /\ UNCHANGED <<queue, promptsV2, text, closedV2, updatesV2, dueV2, seenV2, texts>>
  BY DEF V2!AgentStarts, V2!Sends, ReadJob
<1>2. wireV2 = <<>> /\ jobsV2 = <<>> /\ promptsV2 = <<>>
  BY <1>1 DEF TurnsInv, StagesOK
<1>3. m \in V2!Messages /\ m.kind = "session"
  BY DEF V2!NoEntry, V2!Messages
<1> HIDE DEF m
<1>4. wireV2' = <<m>> /\ wireV2' \in Seq(V2!Messages)
  BY <1>1, <1>2, <1>3
<1>5. jobsV2' = <<ReadJob>>
  BY <1>1, <1>2 DEF V2!Awake
<1>6. /\ <<>> \in Seq(TurnJobs) /\ Append(<<>>, ReadJob) = <<ReadJob>>
      /\ TurnsOK(<<>>, queue, promptsV2, text)
  BY <1>2, EmptySeq DEF TurnsInv
<1>7. /\ Append(<<>>, ReadJob) \in Seq(TurnJobs)
      /\ TurnsOK(Append(<<>>, ReadJob), queue, promptsV2, text)
      /\ Guarded(Append(<<>>, ReadJob)) = Guarded(<<>>)
  BY <1>6, TurnsAppend, GuardedAppend, ReadJobFits
<1>8. V2!TypeOK'
  BY <1>1, <1>4, <1>5, <1>6, <1>7, TurnsTyped, TurnTypesNext
<1>9. StagesOK("started", wireV2', jobsV2', promptsV2, closedV2)
  <2>1. wireV2' # <<>> /\ wireV2'[1] = m /\ \A i \in 1 .. Len(wireV2') : i = 1
    BY <1>4
  <2>2. Len(jobsV2') <= 1 /\ \A i \in 1 .. Len(jobsV2') : jobsV2'[i].at = "read"
    BY <1>5, ReadJobFits
  <2> QED BY <1>1, <1>3, <2>1, <2>2 DEF StagesOK
<1>10. Order'
  BY <1>1, <1>2, <1>5, <1>6, <1>7 DEF TurnsInv, Order
<1>11. ReadersOK(queue, "started", closedV2) /\ ~text.on
  BY <1>1 DEF TurnsInv, ReadersOK
<1>12. TurnsOK(jobsV2', queue, promptsV2, text) /\ TextsFit(texts, promptsV2)
  BY <1>5, <1>6, <1>7 DEF TurnsInv
<1> QED BY <1>1, <1>8, <1>9, <1>10, <1>11, <1>12 DEF TurnsInv

LEMMA TurnUpdatesKeeps ==
    ASSUME TurnsInv, NEW idle \in BOOLEAN, V2!AgentUpdates(idle) PROVE TurnsInv'
<1> DEFINE m == V2!Update(idle)
<1>1. m \in V2!Messages /\ m.kind \notin {"session", "refusal"} /\ updatesV2 + 1 \in Nat
  BY TurnsTyped DEF V2!Update, V2!Messages
<1>2. /\ stage \notin {"none", "requested"} /\ V2!Sends(m) /\ updatesV2' = updatesV2 + 1
      /\ UNCHANGED <<stage, queue, promptsV2, text, closedV2, dueV2, seenV2, texts>>
  BY DEF V2!AgentUpdates
<1> HIDE DEF m
<1> QED BY <1>1, <1>2, AgentSends, TurnsTyped

LEMMA TurnRefusesKeeps ==
    ASSUME TurnsInv, NEW p \in 1 .. Len(promptsV2), V2!AgentRefuses(p) PROVE TurnsInv'
<1> DEFINE m == [V2!NoEntry EXCEPT !.kind = "refusal", !.number = p]
           r == [promptsV2[p] EXCEPT !.refused = TRUE]
<1>1. m \in V2!Messages /\ m.kind = "refusal" /\ m.number = p
  <2>1. p \in Nat
    BY TurnsTyped
  <2> QED BY <2>1 DEF V2!NoEntry, V2!Messages
<1>2. /\ V2!Sends(m) /\ promptsV2' = [promptsV2 EXCEPT ![p] = r]
      /\ UNCHANGED <<stage, queue, text, closedV2, updatesV2, dueV2, seenV2, texts>>
  BY DEF V2!AgentRefuses
<1>3. promptsV2 \in Seq(TurnPrompts) /\ promptsV2[p] \in TurnPrompts
  BY TurnsTyped, ElementOfSeq
<1>4. r \in TurnPrompts /\ r.cursor = promptsV2[p].cursor /\ r.active = promptsV2[p].active
      /\ r.overlaps = promptsV2[p].overlaps /\ r.beside = promptsV2[p].beside
  BY <1>3 DEF TurnPrompts
<1> HIDE DEF m, r
<1>5. /\ promptsV2' \in Seq(TurnPrompts) /\ Len(promptsV2') = Len(promptsV2)
      /\ promptsV2'[p] = r
      /\ \A k \in 1 .. Len(promptsV2) : k # p => promptsV2'[k] = promptsV2[k]
  BY <1>2, <1>3, <1>4, ExceptSeq
<1>6. \A k \in 1 .. Len(promptsV2) :
         /\ promptsV2'[k].cursor = promptsV2[k].cursor
         /\ promptsV2'[k].active = promptsV2[k].active
         /\ promptsV2'[k].overlaps = promptsV2[k].overlaps
         /\ promptsV2'[k].beside = promptsV2[k].beside
  BY <1>4, <1>5
<1>7. stage \notin {"none", "requested"}
  <2>1. promptsV2 # <<>>
    OBVIOUS
  <2> QED BY <2>1 DEF TurnsInv, StagesOK
<1> QED BY <1>1, <1>2, <1>5, <1>6, <1>7, AgentSends, TurnsTyped

LEMMA TurnNewSessionKeeps == ASSUME TurnsInv, V2!NewSession PROVE TurnsInv'
<1>1. /\ stage = "none" /\ stage' = "requested"
      /\ UNCHANGED <<wireV2, jobsV2, queue, promptsV2, text, closedV2, updatesV2, dueV2, seenV2,
                     texts>>
  BY DEF V2!NewSession
<1>2. V2!TypeOK'
  BY <1>1, TurnsTyped, TurnTypesNext
<1>3. StagesOK(stage', wireV2, jobsV2, promptsV2, closedV2)
  BY <1>1 DEF TurnsInv, StagesOK
<1>4. ReadersOK(queue, stage', closedV2) /\ ~text.on
  BY <1>1 DEF TurnsInv, ReadersOK
<1>5. ~closedV2 => Order'
  BY <1>1 DEF TurnsInv, Order
<1> QED BY <1>1, <1>2, <1>3, <1>4, <1>5 DEF TurnsInv

(* What the connection reads goes on as its kind says.                     *)
LEMMA FollowUpIs ==
    ASSUME NEW m \in V2!Messages
    PROVE  /\ V2!FollowUp(m) \in TurnJobs /\ V2!FollowUp(m).entry = m
           /\ m.kind = "session" => V2!FollowUp(m).at = "adopt"
           /\ m.kind = "refusal" => V2!FollowUp(m).at = "settle"
           /\ m.kind \in {"update", "idle"} => V2!FollowUp(m).at = "route" /\ V2!FollowUp(m) \in Routed
           /\ m.number \in Nat
<1>1. CASE m.kind = "session"
  BY <1>1 DEF V2!FollowUp, V2!Job, TurnJobs, V2!Messages
<1>2. CASE m.kind = "refusal"
  BY <1>2 DEF V2!FollowUp, V2!Job, TurnJobs, V2!Messages
<1>3. CASE m.kind \notin {"session", "refusal"}
  <2>1. V2!FollowUp(m) = [at |-> "route", entry |-> m]
    BY <1>3 DEF V2!FollowUp, V2!Job
  <2>2. m \in [kind : {"update", "idle"}, number : Nat]
    BY <1>3 DEF V2!Messages
  <2> QED BY <1>3, <2>1, <2>2 DEF TurnJobs, V2!Messages, Routed
<1> QED BY <1>1, <1>2, <1>3 DEF V2!Messages

LEMMA TurnReadKeeps == ASSUME TurnsInv, V2!Read PROVE TurnsInv'
<1> DEFINE T == Tail(jobsV2)  m == Head(wireV2)  j == V2!FollowUp(m)  a == Append(T, j)
<1>1. /\ jobsV2 # <<>> /\ Head(jobsV2).at = "read"
      /\ UNCHANGED <<queue, promptsV2, text, closedV2, updatesV2, seenV2, texts>>
  BY DEF V2!Read, V2!Runs
<1>2. /\ jobsV2 \in Seq(TurnJobs) /\ TurnsOK(jobsV2, queue, promptsV2, text)
      /\ StagesOK(stage, wireV2, jobsV2, promptsV2, closedV2)
  BY TurnsTyped DEF TurnsInv
<1>3. /\ T \in Seq(TurnJobs) /\ TurnsOK(T, queue, promptsV2, text) /\ jobsV2[1].at = "read"
  BY <1>1, <1>2, TurnsTail
<1>4. /\ StagesOK(stage, wireV2, T, promptsV2, closedV2) /\ stage \notin {"none", "requested"}
      /\ stage = "received" => \A i \in 1 .. Len(T) : T[i].at # "adopt"
  BY <1>1, <1>2, <1>3, StagesTail
<1>5. Guarded(T) = Guarded(jobsV2) /\ Guarded(T) \in Seq(Nat)
  <2>1. jobsV2[1] \notin Routed
    BY <1>3 DEF Routed
  <2> QED BY <1>1, <1>2, <2>1, GuardedTail
<1>6. ReadersOK(queue, stage, closedV2) /\ TextsFit(texts, promptsV2)
      /\ (text.on => stage \in {"attached", "over"})
      /\ (stage # "over" /\ ~closedV2 => Order)
  BY DEF TurnsInv
<1>7. CASE wireV2 = <<>>
  <2>1. jobsV2' = T /\ UNCHANGED <<stage, wireV2, dueV2>>
    BY <1>7 DEF V2!Read
  <2>2. V2!TypeOK'
    BY <1>1, <1>3, <2>1, TurnsTyped, TurnTypesNext
  <2>3. stage # "over" /\ ~closedV2 => Order'
    BY <1>1, <1>5, <1>6, <2>1 DEF Order
  <2> HIDE DEF T
  <2> QED BY <1>1, <1>3, <1>4, <1>6, <2>1, <2>2, <2>3 DEF TurnsInv
<1>8. CASE wireV2 # <<>>
  <2>1. /\ wireV2' = Tail(wireV2)
        /\ jobsV2' = a \o (IF wireV2' = <<>> THEN <<>> ELSE <<ReadJob>>)
        /\ stage' = IF m.kind = "session" THEN "received" ELSE stage
        /\ dueV2' = IF m.kind \in {"update", "idle"} THEN Append(dueV2, m.number) ELSE dueV2
    BY <1>8 DEF V2!Read, ReadJob
  <2>2. /\ wireV2' \in Seq(V2!Messages) /\ m = wireV2[1] /\ m \in V2!Messages
        /\ 1 \in 1 .. Len(wireV2)
        /\ \A i \in 1 .. Len(wireV2') :
              wireV2'[i] = wireV2[i + 1] /\ i + 1 \in 1 .. Len(wireV2) /\ i + 1 # 1
    <3>1. wireV2 \in Seq(V2!Messages)
      BY TurnsTyped
    <3>2. /\ Len(wireV2) \in Nat \ {0} /\ m = wireV2[1] /\ wireV2[1] \in V2!Messages
          /\ Tail(wireV2) \in Seq(V2!Messages)
          /\ \A i \in 1 .. Len(Tail(wireV2)) :
                Tail(wireV2)[i] = wireV2[i + 1] /\ i + 1 \in 2 .. Len(wireV2)
      BY <1>8, <3>1, TailFacts
    <3> HIDE DEF m
    <3> QED BY <2>1, <3>2
  <2>3. /\ j \in TurnJobs /\ j.entry = m /\ m.number \in Nat
        /\ m.kind = "session" => j.at = "adopt"
        /\ m.kind = "refusal" => j.at = "settle"
        /\ m.kind \in {"update", "idle"} => j.at = "route" /\ j \in Routed
        /\ m.kind \in {"session", "refusal", "update", "idle"}
    <3>1. m.kind \in {"session", "refusal", "update", "idle"}
      BY <2>2 DEF V2!Messages
    <3> HIDE DEF m
    <3> QED BY <2>2, <3>1, FollowUpIs
  <2>4. JobFits(j, promptsV2, queue.next, text) /\ j.at # "text"
    BY <1>2, <2>2, <2>3 DEF JobFits, StagesOK
  <2> HIDE DEF j, T, m
  <2>5. a \in Seq(TurnJobs) /\ TurnsOK(a, queue, promptsV2, text)
    BY <1>3, <2>3, <2>4, TurnsAppend
  <2>6. /\ j \in Routed => Guarded(a) = Append(Guarded(T), j.entry.number)
        /\ j \notin Routed => Guarded(a) = Guarded(T)
        /\ Guarded(a) \in Seq(Nat)
    BY <1>3, <1>5, <2>3, <2>5, GuardedAppend
  <2>7. jobsV2' = a \/ jobsV2' = Append(a, ReadJob)
    <3> HIDE DEF a
    <3>1. a \o <<>> = a /\ a \o <<ReadJob>> = Append(a, ReadJob)
      BY <2>5, ConcatEmptySeq, AppendIsConcat, ReadJobFits
    <3> QED BY <2>1, <3>1
  <2>8. /\ jobsV2' \in Seq(TurnJobs) /\ TurnsOK(jobsV2', queue, promptsV2, text)
        /\ Guarded(jobsV2') = Guarded(a)
    <3> HIDE DEF a
    <3>1. /\ Append(a, ReadJob) \in Seq(TurnJobs)
          /\ TurnsOK(Append(a, ReadJob), queue, promptsV2, text)
          /\ Guarded(Append(a, ReadJob)) = Guarded(a)
      BY <2>5, TurnsAppend, GuardedAppend, ReadJobFits
    <3> QED BY <2>5, <2>7, <3>1
  <2>9. ~closedV2
    BY <1>2, <1>8 DEF StagesOK
  <2>10. StagesOK(stage', wireV2', jobsV2', promptsV2, closedV2)
    <3>1. ASSUME NEW i \in 1 .. Len(wireV2')
          PROVE  /\ wireV2'[i].kind # "session"
                 /\ wireV2'[i].kind = "refusal" => wireV2'[i].number \in 1 .. Len(promptsV2)
      BY <1>2, <2>2 DEF StagesOK
    <3>2. CASE m.kind = "session"
      <4>1. stage = "started" /\ stage' = "received"
        BY <1>2, <2>1, <2>2, <3>2 DEF StagesOK
      <4>2. Len(jobsV2) = 1 /\ Len(T) = 0 /\ T = <<>>
        <5>1. Len(jobsV2) <= 1 /\ Len(jobsV2) # 0 /\ Len(jobsV2) \in Nat
          BY <1>1, <1>2, <4>1, TurnsTyped DEF StagesOK
        <5>2. Len(T) = Len(jobsV2) - 1 /\ T \in Seq(TurnJobs)
          BY <1>1, <1>2, <1>3, TailFacts DEF T
        <5> QED BY <5>1, <5>2
      <4>3. a = <<j>> /\ j.at = "adopt"
        BY <2>3, <3>2, <4>2
      <4>4. jobsV2' = <<j>> \/ jobsV2' = <<j, ReadJob>>
        BY <2>7, <4>3
      <4>5. ReadJob.at = "read"
        BY ReadJobFits
      <4>6. jobsV2' # <<>> /\ jobsV2'[1].at = "adopt"
        BY <4>3, <4>4
      <4>7. \A i \in 2 .. Len(jobsV2') : jobsV2'[i].at = "read"
        BY <4>4, <4>5
      <4>8. Awaits(jobsV2')
        BY <4>6, <4>7 DEF Awaits
      <4> QED BY <2>9, <3>1, <4>1, <4>8 DEF StagesOK
    <3>3. CASE m.kind # "session"
      <4>1. stage' = stage
        BY <2>1, <3>3
      <4>2. stage # "started"
        BY <1>2, <2>2, <2>9, <3>3 DEF StagesOK
      <4>3. StagesOK(stage, wireV2, a, promptsV2, closedV2)
        BY <1>3, <1>4, <2>3, <3>3, <4>2, StagesAppend
      <4>4. StagesOK(stage, wireV2, Append(a, ReadJob), promptsV2, closedV2)
        <5> HIDE DEF a
        <5> QED BY <1>4, <2>5, <4>2, <4>3, StagesAppend, ReadJobFits
      <4>5. StagesOK(stage, wireV2, jobsV2', promptsV2, closedV2)
        BY <2>7, <4>3, <4>4
      <4> QED BY <1>4, <2>9, <3>1, <4>1, <4>2, <4>5 DEF StagesOK
    <3> QED BY <3>2, <3>3
  <2>11. /\ ReadersOK(queue, stage', closedV2) /\ (text.on => stage' \in {"attached", "over"})
         /\ (stage' # "over" => stage # "over")
    <3>1. m.kind = "session" => stage = "started"
      BY <1>2, <2>2 DEF StagesOK
    <3> QED BY <1>6, <2>1, <3>1 DEF ReadersOK
  <2>12. stage' # "over" => Order'
    <3> SUFFICES ASSUME stage # "over" PROVE Order'
      BY <2>11
    <3> DEFINE u == seenV2 \o Queued(queue.values)
    <3>1. u \in Seq(Nat)
      BY TurnsTyped, QueuedConcat, ConcatProperties
    <3>2. u \o Guarded(T) = dueV2
      BY <1>5, <1>6, <2>9 DEF Order
    <3> HIDE DEF u
    <3>3. CASE m.kind \in {"update", "idle"}
      <4>1. Guarded(a) = Append(Guarded(T), m.number) /\ dueV2' = Append(dueV2, m.number)
        BY <2>1, <2>3, <2>6, <3>3
      <4>2. u \o Append(Guarded(T), m.number) = Append(u \o Guarded(T), m.number)
        BY <1>5, <2>3, <3>1, ConcatAppend
      <4>3. u \o Guarded(a) = dueV2'
        BY <3>2, <4>1, <4>2
      <4> QED BY <1>1, <2>8, <4>3 DEF Order, u
    <3>4. CASE m.kind \notin {"update", "idle"}
      <4>1. j \notin Routed /\ dueV2' = dueV2
        BY <2>1, <2>3, <3>4 DEF Routed
      <4> QED BY <1>1, <2>6, <2>8, <3>2, <4>1 DEF Order, u
    <3> QED BY <3>3, <3>4
  <2>13. V2!TypeOK'
    <3>1. dueV2' \in Seq(Nat)
      <4>1. \A n \in Nat : Append(dueV2, n) \in Seq(Nat)
        BY TurnsTyped, AppendFacts
      <4> QED BY <2>1, <2>3, <4>1, TurnsTyped
    <3>2. stage' \in {"none", "requested", "started", "received", "attached", "over"}
      BY <2>1, TurnsTyped
    <3> QED BY <1>1, <2>2, <2>8, <3>1, <3>2, TurnsTyped, TurnTypesNext
  <2> HIDE DEF a
  <2> QED BY <1>1, <1>6, <2>8, <2>9, <2>10, <2>11, <2>12, <2>13 DEF TurnsInv
<1> QED BY <1>7, <1>8

(* The promise that the user has settles after the request's.              *)
LEMMA TurnAdoptKeeps == ASSUME TurnsInv, V2!Adopt PROVE TurnsInv'
<1> DEFINE T == Tail(jobsV2)  h == jobsV2[1]  j == V2!AfterAdoption(h)  a == Append(T, j)
<1>1. /\ jobsV2 # <<>> /\ Head(jobsV2).at \in {"adopt", "settle"}
      /\ jobsV2' = Append(T, V2!AfterAdoption(Head(jobsV2)))
      /\ UNCHANGED <<stage, wireV2, queue, promptsV2, text, closedV2, updatesV2, dueV2, seenV2,
                     texts>>
  BY DEF V2!Adopt, V2!Runs
<1>2. /\ jobsV2 \in Seq(TurnJobs) /\ TurnsOK(jobsV2, queue, promptsV2, text)
      /\ StagesOK(stage, wireV2, jobsV2, promptsV2, closedV2)
  BY TurnsTyped DEF TurnsInv
<1>3. /\ T \in Seq(TurnJobs) /\ TurnsOK(T, queue, promptsV2, text) /\ Head(jobsV2) = h
      /\ h \in TurnJobs /\ JobFits(h, promptsV2, queue.next, text)
  BY <1>1, <1>2, TurnsTail
<1>4. jobsV2' = a /\ h.at \in {"adopt", "settle"}
  BY <1>1, <1>3
<1>5. /\ j \in TurnJobs /\ j.entry = h.entry /\ j.at \notin {"route", "text"}
      /\ h.at = "adopt" => j.at = "attach"
      /\ h.at = "settle" => j.at = "reject"
  <2> HIDE DEF h
  <2> QED BY <1>3, <1>4 DEF V2!AfterAdoption, V2!Job, TurnJobs
<1>6. JobFits(j, promptsV2, queue.next, text) /\ j \notin Routed
  <2> HIDE DEF j, h
  <2> QED BY <1>3, <1>4, <1>5 DEF JobFits, Routed
<1>7. Guarded(T) = Guarded(jobsV2)
  <2>1. jobsV2[1] \notin Routed
    BY <1>4 DEF Routed
  <2> QED BY <1>1, <1>2, <2>1, GuardedTail
<1> HIDE DEF j, T
<1>8. a \in Seq(TurnJobs) /\ TurnsOK(a, queue, promptsV2, text) /\ Guarded(a) = Guarded(T)
  BY <1>3, <1>5, <1>6, TurnsAppend, GuardedAppend
<1>9. StagesOK(stage, wireV2, a, promptsV2, closedV2)
  <2>1. CASE h.at = "adopt"
    <3>1. stage = "received" /\ Awaits(jobsV2) /\ 1 \in 1 .. Len(jobsV2)
      <4>1. 1 \in 1 .. Len(jobsV2)
        BY <1>1, <1>2, TailFacts
      <4> QED BY <1>2, <2>1, <4>1 DEF StagesOK
    <3>2. \A k \in 2 .. Len(jobsV2) : jobsV2[k].at \notin {"adopt", "attach", "route"}
      BY <2>1, <3>1 DEF Awaits
    <3>3. /\ Len(T) \in Nat /\ Len(a) = Len(T) + 1 /\ a[Len(T) + 1] = j
          /\ \A k \in 1 .. Len(T) : a[k] = T[k]
      BY <1>3, <1>5, AppendFacts
    <3>4. \A k \in 1 .. Len(T) : T[k].at \notin {"adopt", "attach", "route"}
      BY <1>1, <1>2, <3>2, TailFacts DEF T
    <3> HIDE DEF a
    <3>5. \A k \in 1 .. Len(a) : k # Len(T) + 1 => a[k].at \notin {"adopt", "attach", "route"}
      BY <3>3, <3>4
    <3>6. a[Len(T) + 1].at = "attach" /\ Len(T) + 1 \in 1 .. Len(a)
      BY <1>5, <2>1, <3>3
    <3>7. \A k \in 1 .. Len(T) + 1 - 1 : a[k].at # "route"
      BY <3>3, <3>5
    <3>8. Awaits(a)
      BY <3>5, <3>6, <3>7 DEF Awaits
    <3> QED BY <1>2, <3>1, <3>8 DEF StagesOK
  <2>2. CASE h.at = "settle"
    <3>1. /\ StagesOK(stage, wireV2, T, promptsV2, closedV2) /\ stage \notin {"none", "requested"}
          /\ stage # "started"
      <4>1. jobsV2[1].at \notin {"adopt", "attach", "read"}
        BY <2>2
      <4> HIDE DEF h
      <4> QED BY <1>1, <1>2, <4>1, StagesTail DEF T
    <3> QED BY <1>3, <1>5, <2>2, <3>1, StagesAppend
  <2> QED BY <1>4, <2>1, <2>2
<1> HIDE DEF a, h
<1>10. V2!TypeOK'
  BY <1>1, <1>4, <1>8, TurnsTyped, TurnTypesNext
<1>11. stage # "over" /\ ~closedV2 => Order'
  BY <1>1, <1>4, <1>7, <1>8 DEF TurnsInv, Order
<1> QED BY <1>1, <1>4, <1>8, <1>9, <1>10, <1>11 DEF TurnsInv

(* The queue changes and the text does not, or its reader waits no more.   *)
LEMMA TurnsQueue ==
    ASSUME NEW js, NEW ps \in Seq(TurnPrompts),
           NEW q \in TurnQueues, NEW r \in TurnQueues,
           NEW t \in [on : BOOLEAN, prompt : Nat, early : BOOLEAN],
           js \in Seq(TurnJobs), TurnsOK(js, q, ps, t), q.next <= r.next,
           ValuesFit(r.values, ps, r.next),
           \/ r.waiters = q.waiters
           \/ \A i \in 1 .. Len(r.waiters) : r.waiters[i] # "text"
           \/ OneText(js, r.waiters) /\ TextFits(t, r.waiters, ps)
    PROVE  TurnsOK(js, r, ps, t)
<1>1. /\ q.next \in Nat /\ r.next \in Nat /\ Len(ps) \in Nat
      /\ \A p \in 1 .. Len(ps) : ps[p].cursor \in Nat
  <2>1. \A p \in 1 .. Len(ps) : ps[p] \in TurnPrompts
    BY ElementOfSeq
  <2> QED BY <2>1, LenProperties DEF TurnQueues, TurnPrompts
<1>2. PromptsFit(ps, r.next)
  BY <1>1 DEF TurnsOK, PromptsFit
<1>3. JobsFit(js, ps, r.next, t)
  BY <1>1, GoesOnSame, JobsLater DEF TurnsOK
<1>4. OneText(js, r.waiters) /\ TextFits(t, r.waiters, ps)
  BY DEF TurnsOK, OneText, TextFits
<1> QED BY <1>2, <1>3, <1>4 DEF TurnsOK

(* Without a reader that waits for readText(), and its job, it is over.    *)
LEMMA TurnsTextGone ==
    ASSUME NEW js \in Seq(TurnJobs), NEW ps \in Seq(TurnPrompts),
           NEW q \in TurnQueues,
           NEW t \in [on : BOOLEAN, prompt : Nat, early : BOOLEAN],
           TurnsOK(js, q, ps, t),
           \A i \in 1 .. Len(q.waiters) : q.waiters[i] # "text",
           \A i \in 1 .. Len(js) : js[i].at # "text"
    PROVE  TurnsOK(js, q, ps, V2!NoText)
<1>1. JobsFit(js, ps, q.next, V2!NoText)
  BY DEF TurnsOK, JobsFit, JobFits
<1>2. Len(ps) \in Nat
  BY LenProperties
<1>3. TextFits(V2!NoText, q.waiters, ps)
  BY <1>2 DEF TextFits, V2!NoText
<1> QED BY <1>1, <1>3 DEF TurnsOK

(* A queue that fails tells those who wait.                                *)
LEMMA FailedIs ==
    ASSUME NEW q \in TurnQueues
    PROVE  /\ V2!Failed(q) \in TurnQueues /\ V2!Failed(q).failed /\ V2!Failed(q).waiters = <<>>
           /\ V2!Failed(q).values = q.values /\ V2!Failed(q).next = q.next
<1>1. <<>> \in Seq({"text", "next"})
  BY EmptySeq
<1> QED BY <1>1 DEF V2!Failed, TurnQueues

LEMMA HasText == \A s : V2!Contains(s, "text") <=> \E i \in 1 .. Len(s) : s[i] = "text"
BY DEF V2!Contains

(* Readers that wait are told, and readText() is over when it is one.      *)
LEMMA TurnsTold ==
    ASSUME TurnsInv, NEW js \in Seq(TurnJobs), NEW r \in TurnQueues,
           TurnsOK(js, queue, promptsV2, text),
           r.waiters = <<>>, ValuesFit(r.values, promptsV2, r.next), queue.next <= r.next,
           text' = V2!TextAfterFailure
    PROVE  TurnsOK(js, r, promptsV2, text') /\ (text'.on => text.on)
           /\ text' \in [on : BOOLEAN, prompt : Nat, early : BOOLEAN]
<1>1. \A i \in 1 .. Len(r.waiters) : FALSE
  OBVIOUS
<1>2. TurnsOK(js, r, promptsV2, text)
  BY <1>1, TurnsTyped, TurnsQueue
<1>3. CASE V2!Contains(queue.waiters, "text")
  <2>1. text' = V2!NoText /\ ~V2!NoText.on
        /\ V2!NoText \in [on : BOOLEAN, prompt : Nat, early : BOOLEAN]
    BY <1>3 DEF V2!TextAfterFailure, V2!NoText
  <2>2. \A i \in 1 .. Len(js) : js[i].at # "text"
    BY <1>3, HasText DEF TurnsOK, OneText
  <2>3. TurnsOK(js, r, promptsV2, V2!NoText)
    BY <1>1, <1>2, <2>2, TurnsTyped, TurnsTextGone
  <2> QED BY <2>1, <2>3
<1>4. CASE ~V2!Contains(queue.waiters, "text")
  BY <1>2, <1>4, TurnsTyped DEF V2!TextAfterFailure
<1> QED BY <1>3, <1>4

(* attachSession, behind which the first update reaches the router.        *)
LEMMA TurnAttachKeeps == ASSUME TurnsInv, V2!Attach PROVE TurnsInv'
<1> DEFINE T == Tail(jobsV2)
<1>1. /\ jobsV2 # <<>> /\ Head(jobsV2).at = "attach" /\ jobsV2' = T /\ stage' = "attached"
      /\ queue' = V2!Hears(queue)
      /\ UNCHANGED <<wireV2, promptsV2, text, closedV2, updatesV2, dueV2, seenV2, texts>>
  BY DEF V2!Attach, V2!Runs
<1>2. /\ jobsV2 \in Seq(TurnJobs) /\ TurnsOK(jobsV2, queue, promptsV2, text)
      /\ StagesOK(stage, wireV2, jobsV2, promptsV2, closedV2)
      /\ ReadersOK(queue, stage, closedV2)
  BY TurnsTyped DEF TurnsInv
<1>3. /\ T \in Seq(TurnJobs) /\ TurnsOK(T, queue, promptsV2, text) /\ jobsV2[1].at = "attach"
  BY <1>1, <1>2, TurnsTail
<1>4. stage = "received" /\ \A k \in 1 .. Len(T) : T[k].at \notin {"adopt", "attach"}
  <2>1. /\ 1 \in 1 .. Len(jobsV2)
        /\ \A k \in 1 .. Len(T) : T[k] = jobsV2[k + 1] /\ k + 1 \in 2 .. Len(jobsV2)
    BY <1>1, <1>2, TailFacts
  <2>2. stage = "received" /\ Awaits(jobsV2)
    BY <1>2, <1>3, <2>1 DEF StagesOK
  <2>3. \A k \in 2 .. Len(jobsV2) : jobsV2[k].at \notin {"adopt", "attach"}
    BY <1>3, <2>1, <2>2 DEF Awaits
  <2> QED BY <2>1, <2>2, <2>3
<1>5. Guarded(T) = Guarded(jobsV2)
  <2>1. jobsV2[1] \notin Routed
    BY <1>3 DEF Routed
  <2> QED BY <1>1, <1>2, <2>1, GuardedTail
<1> HIDE DEF T
<1>6. queue.waiters = <<>> /\ (queue.failed => closedV2)
  BY <1>2, <1>4 DEF ReadersOK
<1>7. /\ queue' \in TurnQueues /\ queue'.waiters = <<>> /\ queue'.values = queue.values
      /\ queue'.next = queue.next /\ (queue'.failed <=> closedV2)
  BY <1>1, <1>6, TurnsTyped, FailedIs DEF V2!Hears
<1>8. TurnsOK(T, queue', promptsV2, text)
  <2>1. ValuesFit(queue'.values, promptsV2, queue'.next)
    BY <1>3, <1>7 DEF TurnsOK
  <2> QED BY <1>3, <1>6, <1>7, <2>1, TurnsTyped, TurnsQueue
<1>9. StagesOK("attached", wireV2, T, promptsV2, closedV2)
  BY <1>2, <1>4 DEF StagesOK
<1>10. ReadersOK(queue', "attached", closedV2)
  BY <1>7 DEF ReadersOK
<1>11. V2!TypeOK'
  BY <1>1, <1>3, <1>7, TurnsTyped, TurnTypesNext
<1>12. ~closedV2 => Order'
  BY <1>1, <1>4, <1>5, <1>7 DEF TurnsInv, Order
<1> QED BY <1>1, <1>8, <1>9, <1>10, <1>11, <1>12 DEF TurnsInv

LEMMA TurnsFail ==
    ASSUME TurnsInv, V2!Fail
    PROVE  /\ queue' \in TurnQueues /\ TurnsOK(jobsV2, queue', promptsV2, text')
           /\ queue'.failed /\ queue'.waiters = <<>> /\ queue'.values = queue.values
           /\ text' \in [on : BOOLEAN, prompt : Nat, early : BOOLEAN] /\ (text'.on => text.on)
<1>1. /\ TurnsOK(jobsV2, queue, promptsV2, text) /\ ReadersOK(queue, stage, closedV2)
      /\ queue \in TurnQueues
  BY TurnsTyped DEF TurnsInv
<1>2. CASE queue.failed
  <2>1. UNCHANGED <<queue, text>>
    BY <1>2 DEF V2!Fail
  <2>2. queue.waiters = <<>>
    BY <1>1, <1>2 DEF ReadersOK
  <2> QED BY <1>1, <1>2, <2>1, <2>2, TurnsTyped
<1>3. CASE ~queue.failed
  <2>1. queue' = V2!Failed(queue) /\ text' = V2!TextAfterFailure
    BY <1>3 DEF V2!Fail
  <2>2. /\ queue' \in TurnQueues /\ queue'.failed /\ queue'.waiters = <<>>
        /\ queue'.values = queue.values /\ queue'.next = queue.next
    BY <1>1, <2>1, FailedIs
  <2>3. ValuesFit(queue'.values, promptsV2, queue'.next) /\ queue.next <= queue'.next
    BY <1>1, <2>2, TurnsTyped DEF TurnsOK
  <2>4. jobsV2 \in Seq(TurnJobs)
    BY TurnsTyped
  <2>5. /\ TurnsOK(jobsV2, queue', promptsV2, text') /\ (text'.on => text.on)
        /\ text' \in [on : BOOLEAN, prompt : Nat, early : BOOLEAN]
    BY <1>1, <2>1, <2>2, <2>3, <2>4, TurnsTold
  <2> QED BY <2>2, <2>5
<1> QED BY <1>2, <1>3

LEMMA TurnDisposeKeeps == ASSUME TurnsInv, V2!Dispose PROVE TurnsInv'
<1>1. /\ stage = "attached" /\ stage' = "over" /\ V2!Fail
      /\ UNCHANGED <<wireV2, jobsV2, promptsV2, closedV2, updatesV2, dueV2, seenV2, texts>>
  BY DEF V2!Dispose
<1>2. /\ queue' \in TurnQueues /\ TurnsOK(jobsV2, queue', promptsV2, text')
      /\ queue'.failed /\ queue'.waiters = <<>>
      /\ text' \in [on : BOOLEAN, prompt : Nat, early : BOOLEAN]
  BY <1>1, TurnsFail
<1>3. V2!TypeOK'
  BY <1>1, <1>2, TurnsTyped, TurnTypesNext
<1>4. StagesOK("over", wireV2, jobsV2, promptsV2, closedV2)
  BY <1>1 DEF TurnsInv, StagesOK
<1>5. ReadersOK(queue', "over", closedV2)
  BY <1>2 DEF ReadersOK
<1> QED BY <1>1, <1>2, <1>3, <1>4, <1>5 DEF TurnsInv

LEMMA TurnCloseKeeps == ASSUME TurnsInv, V2!Close PROVE TurnsInv'
<1>1. /\ ~closedV2 /\ closedV2' = TRUE /\ wireV2' = <<>>
      /\ UNCHANGED <<stage, jobsV2, promptsV2, updatesV2, dueV2, seenV2, texts>>
  BY DEF V2!Close
<1>2. /\ queue' \in TurnQueues /\ TurnsOK(jobsV2, queue', promptsV2, text')
      /\ ReadersOK(queue', stage, TRUE) /\ (text'.on => text.on)
      /\ text' \in [on : BOOLEAN, prompt : Nat, early : BOOLEAN]
  <2>1. CASE stage = "attached"
    <3>1. V2!Fail
      BY <2>1 DEF V2!Close
    <3>2. /\ queue' \in TurnQueues /\ TurnsOK(jobsV2, queue', promptsV2, text')
          /\ queue'.failed /\ queue'.waiters = <<>> /\ (text'.on => text.on)
          /\ text' \in [on : BOOLEAN, prompt : Nat, early : BOOLEAN]
      BY <3>1, TurnsFail
    <3> QED BY <3>2 DEF ReadersOK
  <2>2. CASE stage # "attached"
    <3>1. UNCHANGED <<queue, text>>
      BY <2>2 DEF V2!Close
    <3>2. ReadersOK(queue, stage, TRUE)
      BY <2>2 DEF TurnsInv, ReadersOK
    <3> QED BY <3>1, <3>2, TurnsTyped DEF TurnsInv
  <2> QED BY <2>1, <2>2
<1>3. wireV2' \in Seq(V2!Messages)
  BY <1>1, EmptySeq
<1>4. V2!TypeOK'
  BY <1>1, <1>2, <1>3, TurnsTyped, TurnTypesNext
<1>5. StagesOK(stage, wireV2', jobsV2, promptsV2, TRUE)
  BY <1>1 DEF TurnsInv, StagesOK
<1> QED BY <1>1, <1>2, <1>4, <1>5 DEF TurnsInv

(* Turns end: their prompts are no longer active.                          *)
Ended(ps, qs) ==
    /\ Len(qs) = Len(ps)
    /\ \A p \in 1 .. Len(ps) :
           /\ qs[p].cursor = ps[p].cursor /\ (qs[p].active => ps[p].active)
           /\ qs[p].overlaps = ps[p].overlaps /\ qs[p].beside = ps[p].beside

LEMMA TurnsEnded ==
    ASSUME NEW js \in Seq(TurnJobs), NEW ps \in Seq(TurnPrompts), NEW qs \in Seq(TurnPrompts),
           NEW q \in TurnQueues, NEW t \in [on : BOOLEAN, prompt : Nat, early : BOOLEAN],
           TurnsOK(js, q, ps, t), Ended(ps, qs)
    PROVE  TurnsOK(js, q, qs, t) /\ \A n \in Nat : GoesOn(ps, qs, n)
<1>1. Len(ps) \in Nat /\ q.next \in Nat /\ q.values \in Seq(V2!Entries) /\ t.prompt \in Nat
  BY LenProperties DEF TurnQueues
<1>2. \A n \in Nat : GoesOn(ps, qs, n)
  BY <1>1 DEF Ended, GoesOn
<1>3. JobsFit(js, qs, q.next, t) /\ ValuesFit(q.values, qs, q.next)
  BY <1>1, <1>2, JobsLater, ValuesLater DEF TurnsOK
<1>4. PromptsFit(qs, q.next)
  BY DEF TurnsOK, PromptsFit, Ended
<1>5. TextFits(t, q.waiters, qs)
  <2>1. t.prompt <= Len(ps)
    BY DEF TurnsOK, TextFits
  <2>2. t.prompt # 0 => t.prompt \in 1 .. Len(ps)
    BY <1>1, <2>1
  <2> QED BY <2>2 DEF TurnsOK, TextFits, Ended
<1> QED BY <1>2, <1>3, <1>4, <1>5 DEF TurnsOK

(* An entry is numbered, and waits.                                        *)
LEMMA TurnsQueued ==
    ASSUME NEW js \in Seq(TurnJobs), NEW ps \in Seq(TurnPrompts),
           NEW q \in TurnQueues, NEW t \in [on : BOOLEAN, prompt : Nat, early : BOOLEAN],
           TurnsOK(js, q, ps, t), NEW e \in V2!Entries, EntryFits(e, ps, q.next + 1),
           NEW r \in TurnQueues, r.next = q.next + 1, r.values = Append(q.values, e),
           r.waiters = q.waiters
    PROVE  TurnsOK(js, r, ps, t)
<1>1. /\ q.next \in Nat /\ r.next \in Nat /\ q.next <= r.next /\ Len(ps) \in Nat
      /\ q.values \in Seq(V2!Entries)
  BY LenProperties DEF TurnQueues
<1>2. ValuesFit(q.values, ps, r.next)
  BY <1>1, GoesOnSame, ValuesLater DEF TurnsOK
<1>3. ValuesFit(r.values, ps, r.next)
  <2> SUFFICES ASSUME NEW i \in 1 .. Len(r.values) PROVE EntryFits(r.values[i], ps, r.next)
    BY DEF ValuesFit
  <2>1. /\ Len(q.values) \in Nat /\ Len(r.values) = Len(q.values) + 1
        /\ r.values[Len(q.values) + 1] = e
        /\ \A k \in 1 .. Len(q.values) : r.values[k] = q.values[k]
    BY <1>1, AppendFacts
  <2>2. i = Len(q.values) + 1 \/ i \in 1 .. Len(q.values)
    BY <2>1
  <2> QED BY <1>2, <2>1, <2>2 DEF ValuesFit
<1> QED BY <1>1, <1>3, TurnsQueue

LEMMA EntryIs ==
    ASSUME TurnsInv, NEW e, e.number \in Nat, NEW kind \in {"update", "stop", "error"}
    PROVE  /\ V2!Entry(e, kind) \in V2!Entries /\ V2!Entry(e, kind).kind = kind
           /\ V2!Entry(e, kind).number = e.number
           /\ V2!Entry(e, kind).asked = Len(promptsV2)
           /\ V2!Entry(e, kind).sequence = queue.next
BY TurnsTyped DEF V2!Entry, V2!Entries

(* A prompt that is refused is no longer active, and its error queued.     *)
LEMMA TurnCancelKeeps == ASSUME TurnsInv, V2!CancelPrompt PROVE TurnsInv'
<1> DEFINE T == Tail(jobsV2)  h == jobsV2[1]  p == h.entry.number
           e == V2!Entry(h.entry, "error")
           one == [promptsV2[p] EXCEPT !.active = FALSE]
<1>1. /\ jobsV2 # <<>> /\ Head(jobsV2).at = "reject" /\ jobsV2' = T
      /\ UNCHANGED <<stage, wireV2, closedV2, updatesV2, dueV2, seenV2, texts>>
  BY DEF V2!CancelPrompt, V2!Runs
<1>2. /\ jobsV2 \in Seq(TurnJobs) /\ TurnsOK(jobsV2, queue, promptsV2, text)
      /\ StagesOK(stage, wireV2, jobsV2, promptsV2, closedV2)
      /\ ReadersOK(queue, stage, closedV2)
  BY TurnsTyped DEF TurnsInv
<1>3. /\ T \in Seq(TurnJobs) /\ TurnsOK(T, queue, promptsV2, text) /\ Head(jobsV2) = h
      /\ JobFits(h, promptsV2, queue.next, text)
  BY <1>1, <1>2, TurnsTail
<1>4. h.at = "reject" /\ p \in 1 .. Len(promptsV2) /\ p \in Nat
  <2>1. h.at = "reject" /\ p \in 1 .. Len(promptsV2)
    BY <1>1, <1>3 DEF JobFits
  <2> QED BY <2>1, TurnsTyped
<1>5. StagesOK(stage, wireV2, T, promptsV2, closedV2)
  <2>1. jobsV2[1].at \notin {"adopt", "attach"}
    BY <1>4
  <2> QED BY <1>1, <1>2, <2>1, StagesTail
<1>6. Guarded(T) = Guarded(jobsV2)
  <2>1. jobsV2[1] \notin Routed
    BY <1>4 DEF Routed
  <2> QED BY <1>1, <1>2, <2>1, GuardedTail
<1>7. e \in V2!Entries /\ e.kind = "error" /\ e.asked = Len(promptsV2) /\ e.sequence = queue.next
  <2> HIDE DEF h
  <2> QED BY <1>4, EntryIs DEF e
<1>8. CASE promptsV2[p].active
  <2>1. promptsV2' = [promptsV2 EXCEPT ![p] = one] /\ V2!RejectQueue(e)
    BY <1>3, <1>8 DEF V2!CancelPrompt
  <2>2. promptsV2 \in Seq(TurnPrompts) /\ promptsV2[p] \in TurnPrompts
    BY <1>4, TurnsTyped, ElementOfSeq
  <2>3. /\ one \in TurnPrompts /\ one.cursor = promptsV2[p].cursor /\ ~one.active
        /\ one.overlaps = promptsV2[p].overlaps /\ one.beside = promptsV2[p].beside
    <3> HIDE DEF p
    <3> QED BY <2>2 DEF TurnPrompts
  <2> HIDE DEF one, p, e, T
  <2>4. promptsV2' \in Seq(TurnPrompts) /\ Ended(promptsV2, promptsV2')
    <3>1. /\ promptsV2' \in Seq(TurnPrompts) /\ Len(promptsV2') = Len(promptsV2)
          /\ promptsV2'[p] = one
          /\ \A k \in 1 .. Len(promptsV2) : k # p => promptsV2'[k] = promptsV2[k]
      BY <1>4, <2>1, <2>2, <2>3, ExceptSeq
    <3> QED BY <2>3, <3>1 DEF Ended
  <2>5. /\ queue' \in TurnQueues /\ TurnsOK(T, queue', promptsV2, text')
        /\ ReadersOK(queue', stage, closedV2) /\ (text'.on => text.on)
        /\ text' \in [on : BOOLEAN, prompt : Nat, early : BOOLEAN]
        /\ Queued(queue'.values) = Queued(queue.values)
    <3>1. CASE queue.failed
      <4>1. UNCHANGED <<queue, text>>
        BY <2>1, <3>1 DEF V2!RejectQueue
      <4> QED BY <1>2, <1>3, <4>1, TurnsTyped
    <3>2. CASE ~queue.failed /\ queue.waiters = <<>>
      <4>1. /\ queue' = [queue EXCEPT !.next = @ + 1, !.values = Append(@, e)]
            /\ UNCHANGED text
        BY <2>1, <3>2 DEF V2!RejectQueue
      <4>2. Append(queue.values, e) \in Seq(V2!Entries) /\ queue.next + 1 \in Nat
        BY <1>7, TurnsTyped, AppendFacts
      <4>3. /\ queue' \in TurnQueues /\ queue'.next = queue.next + 1
            /\ queue'.values = Append(queue.values, e) /\ queue'.waiters = queue.waiters
            /\ queue'.failed = queue.failed
        BY <4>1, <4>2, TurnsTyped DEF TurnQueues
      <4>4. EntryFits(e, promptsV2, queue.next + 1)
        BY <1>7, TurnsTyped DEF EntryFits
      <4>5. TurnsOK(T, queue', promptsV2, text)
        BY <1>3, <1>7, <4>3, <4>4, TurnsTyped, TurnsQueued
      <4>6. ReadersOK(queue', stage, closedV2)
        BY <1>2, <3>2, <4>3 DEF ReadersOK
      <4>7. Queued(queue'.values) = Queued(queue.values)
        BY <1>7, <4>3, TurnsTyped, QueuedAppend
      <4> QED BY <4>1, <4>3, <4>5, <4>6, <4>7, TurnsTyped
    <3>3. CASE ~queue.failed /\ queue.waiters # <<>>
      <4>1. /\ queue' = [queue EXCEPT !.next = @ + 1, !.waiters = <<>>]
            /\ text' = V2!TextAfterFailure
        BY <2>1, <3>3 DEF V2!RejectQueue
      <4>2. <<>> \in Seq({"text", "next"}) /\ queue.next + 1 \in Nat
        BY EmptySeq, TurnsTyped
      <4>3. /\ queue' \in TurnQueues /\ queue'.next = queue.next + 1
            /\ queue'.values = queue.values /\ queue'.waiters = <<>>
            /\ queue'.failed = queue.failed /\ queue.next <= queue'.next
        <5>1. queue \in TurnQueues /\ queue.next \in Nat
          BY TurnsTyped
        <5>2. /\ queue' \in TurnQueues /\ queue'.next = queue.next + 1
              /\ queue'.values = queue.values /\ queue'.waiters = <<>>
              /\ queue'.failed = queue.failed
          BY <4>1, <4>2, <5>1 DEF TurnQueues
        <5> QED BY <5>1, <5>2
      <4>4. ValuesFit(queue'.values, promptsV2, queue'.next)
        <5>1. /\ GoesOn(promptsV2, promptsV2, queue.next)
              /\ ValuesFit(queue.values, promptsV2, queue.next)
          BY <1>3, TurnsTyped, GoesOnSame DEF TurnsOK
        <5>2. queue.next \in Nat /\ queue'.next \in Nat /\ queue.values \in Seq(V2!Entries)
          BY <4>2, <4>3, TurnsTyped
        <5> QED BY <4>3, <5>1, <5>2, TurnsTyped, ValuesLater
      <4>5. /\ TurnsOK(T, queue', promptsV2, text') /\ (text'.on => text.on)
            /\ text' \in [on : BOOLEAN, prompt : Nat, early : BOOLEAN]
        BY <1>3, <4>1, <4>3, <4>4, TurnsTold
      <4>6. ReadersOK(queue', stage, closedV2)
        BY <1>2, <4>3 DEF ReadersOK
      <4> QED BY <4>3, <4>5, <4>6
    <3> QED BY <3>1, <3>2, <3>3
  <2>6. /\ TurnsOK(T, queue', promptsV2', text')
        /\ GoesOn(promptsV2, promptsV2', queue.next)
    BY <1>3, <2>2, <2>4, <2>5, TurnsTyped, TurnsEnded
  <2>7. TextsFit(texts, promptsV2')
    BY <2>2, <2>4, <2>6, TurnsTyped, TextsLater DEF TurnsInv
  <2>8. StagesOK(stage, wireV2, T, promptsV2', closedV2)
    <3>1. promptsV2 # <<>>
      BY <1>4
    <3> QED BY <1>5, <2>4, <3>1 DEF StagesOK, Ended
  <2>9. V2!TypeOK'
    BY <1>1, <1>3, <2>4, <2>5, TurnsTyped, TurnTypesNext
  <2>10. stage # "over" /\ ~closedV2 => Order'
    BY <1>1, <1>6, <2>5 DEF TurnsInv, Order
  <2> QED BY <1>1, <2>5, <2>6, <2>7, <2>8, <2>9, <2>10 DEF TurnsInv
<1>9. CASE ~promptsV2[p].active
  <2>1. UNCHANGED <<queue, promptsV2, text>>
    BY <1>3, <1>9 DEF V2!CancelPrompt
  <2> HIDE DEF T
  <2>2. V2!TypeOK'
    BY <1>1, <1>3, <2>1, TurnsTyped, TurnTypesNext
  <2>3. stage # "over" /\ ~closedV2 => Order'
    BY <1>1, <1>6, <2>1 DEF TurnsInv, Order
  <2> QED BY <1>1, <1>2, <1>3, <1>5, <2>1, <2>2, <2>3 DEF TurnsInv
<1> QED BY <1>8, <1>9

(* The first reader that waits has an entry: the others wait on.           *)
LEMMA WaitersTail ==
    ASSUME NEW w \in Seq({"text", "next"}), w # <<>>, NEW js, NEW t, NEW ps,
           OneText(js, w), TextFits(t, w, ps)
    PROVE  /\ Tail(w) \in Seq({"text", "next"}) /\ Head(w) \in {"text", "next"}
           /\ OneText(js, Tail(w)) /\ TextFits(t, Tail(w), ps)
           /\ Head(w) = "text" =>
                 /\ t.on /\ (t.prompt # 0 => ~ps[t.prompt].overlaps)
                 /\ \A i \in 1 .. Len(Tail(w)) : Tail(w)[i] # "text"
                 /\ \A i \in 1 .. Len(js) : js[i].at # "text"
<1>1. /\ Len(w) \in Nat /\ 1 \in 1 .. Len(w) /\ Head(w) = w[1] /\ w[1] \in {"text", "next"}
      /\ Tail(w) \in Seq({"text", "next"}) /\ Len(Tail(w)) = Len(w) - 1
      /\ \A i \in 1 .. Len(Tail(w)) :
            Tail(w)[i] = w[i + 1] /\ i + 1 \in 1 .. Len(w) /\ i + 1 # 1
  BY TailFacts
<1>2. OneText(js, Tail(w))
  <2>1. \A i, j \in 1 .. Len(Tail(w)) : Tail(w)[i] = "text" /\ Tail(w)[j] = "text" => i = j
    BY <1>1 DEF OneText
  <2>2. \A i \in 1 .. Len(js), j \in 1 .. Len(Tail(w)) :
           ~(js[i].at = "text" /\ Tail(w)[j] = "text")
    BY <1>1 DEF OneText
  <2> QED BY <2>1, <2>2 DEF OneText
<1>3. TextFits(t, Tail(w), ps)
  BY <1>1 DEF TextFits
<1>4. ASSUME Head(w) = "text"
      PROVE  /\ t.on /\ (t.prompt # 0 => ~ps[t.prompt].overlaps)
             /\ \A i \in 1 .. Len(Tail(w)) : Tail(w)[i] # "text"
             /\ \A i \in 1 .. Len(js) : js[i].at # "text"
  BY <1>1, <1>4 DEF TextFits, OneText
<1> QED BY <1>1, <1>2, <1>3, <1>4

(* readText() is given an entry that is not an error, in time.             *)
LEMMA TextJobFits ==
    ASSUME NEW e \in V2!Entries, e.kind # "error", NEW ps, NEW next, EntryFits(e, ps, next),
           NEW t, t.on, t.prompt <= e.asked,
           t.prompt # 0 /\ e.kind = "stop" => ~ps[t.prompt].overlaps
    PROVE  /\ V2!Job("text", e) \in TurnJobs /\ V2!Job("text", e).at = "text"
           /\ V2!Job("text", e) \notin Routed /\ JobFits(V2!Job("text", e), ps, next, t)
<1> DEFINE j == V2!Job("text", e)
<1>1. j.at = "text" /\ j.entry = e /\ j \in TurnJobs
  BY DEF V2!Job, TurnJobs
<1>2. e \in V2!Values
  BY ValuesOfTurns
<1> HIDE DEF j
<1>3. j \notin Routed /\ JobFits(j, ps, next, t)
  BY <1>1, <1>2 DEF Routed, JobFits
<1> QED BY <1>1, <1>3 DEF j

Moves(s, u, g, n) == (s \o u) \o (<<n>> \o g) = (s \o Append(u, n)) \o g

LEMMA Moved ==
    ASSUME NEW S, NEW s \in Seq(S), NEW u \in Seq(S), NEW g \in Seq(S), NEW n \in S
    PROVE  Moves(s, u, g, n)
<1>1. (s \o u) \o (<<n>> \o g) = (s \o Append(u, n)) \o g
  OBVIOUS
<1> QED BY <1>1, Zenon DEF Moves

(* enqueue, when the queue has not failed and no reader waits.  js are the *)
(* jobs that remain.                                                       *)
LEMMA EnqueueWaits ==
    ASSUME TurnsInv, NEW js \in Seq(TurnJobs),
           promptsV2' \in Seq(TurnPrompts), TurnsOK(js, queue, promptsV2', text),
           NEW e \in V2!Entries, e.kind # "error", EntryFits(e, promptsV2', queue.next + 1),
           stage = "attached", ~closedV2,
           queue' \in TurnQueues, queue'.next = queue.next + 1, queue'.failed = queue.failed,
           queue.waiters = <<>>,
           queue'.values = Append(queue.values, e), queue'.waiters = queue.waiters
    PROVE  /\ ReadersOK(queue', stage, closedV2) /\ TurnsOK(js, queue', promptsV2', text)
           /\ Queued(queue'.values) = Append(Queued(queue.values), e.number)
<1>1. ReadersOK(queue, stage, closedV2) /\ queue.waiters = <<>>
  BY DEF TurnsInv
<1>2. /\ queue' \in TurnQueues /\ queue'.next = queue.next + 1
      /\ queue'.values = Append(queue.values, e) /\ queue'.waiters = queue.waiters
      /\ queue'.failed = queue.failed
  OBVIOUS
<1>3. queue \in TurnQueues /\ text \in [on : BOOLEAN, prompt : Nat, early : BOOLEAN]
  BY TurnsTyped
<1>4. TurnsOK(js, queue', promptsV2', text)
  BY <1>2, <1>3, TurnsQueued
<1>5. ReadersOK(queue', stage, closedV2)
  BY <1>1, <1>2 DEF ReadersOK
<1>6. Queued(queue'.values) = Append(Queued(queue.values), e.number)
  BY <1>2, TurnsTyped, QueuedAppend
<1> QED BY <1>4, <1>5, <1>6

(* enqueue, when a reader waits: it has the entry, and readText() goes on. *)
LEMMA EnqueueGives ==
    ASSUME TurnsInv, NEW js \in Seq(TurnJobs),
           promptsV2' \in Seq(TurnPrompts), TurnsOK(js, queue, promptsV2', text),
           NEW e \in V2!Entries, e.kind # "error", e.asked = Len(promptsV2'),
           EntryFits(e, promptsV2', queue.next + 1),
           stage = "attached", ~closedV2,
           queue' \in TurnQueues, queue'.next = queue.next + 1, queue'.failed = queue.failed,
           queue.waiters # <<>>,
           queue'.values = queue.values, queue'.waiters = Tail(queue.waiters),
           Head(queue.waiters) = "text" => jobsV2' = Append(js, V2!Job("text", e)),
           Head(queue.waiters) # "text" => jobsV2' = js
    PROVE  /\ ReadersOK(queue', stage, closedV2) /\ queue.values = <<>>
           /\ jobsV2' \in Seq(TurnJobs) /\ TurnsOK(jobsV2', queue', promptsV2', text)
           /\ jobsV2' = js \/ \E j \in TurnJobs : j.at = "text" /\ jobsV2' = Append(js, j)
           /\ Guarded(jobsV2') = Guarded(js)
<1> DEFINE j == V2!Job("text", e)
<1>1. /\ Head(queue.waiters) = "text" => jobsV2' = Append(js, j)
      /\ Head(queue.waiters) # "text" => jobsV2' = js
      /\ queue' \in TurnQueues /\ queue'.next = queue.next + 1
      /\ queue'.values = queue.values /\ queue'.waiters = Tail(queue.waiters)
      /\ queue'.failed = queue.failed /\ queue.waiters # <<>> /\ queue.next <= queue'.next
  <2>1. queue.next \in Nat
    BY TurnsTyped
  <2> QED BY <2>1
<1> HIDE DEF j
<1>2. /\ OneText(js, queue.waiters) /\ TextFits(text, queue.waiters, promptsV2')
      /\ ValuesFit(queue.values, promptsV2', queue.next)
  BY DEF TurnsOK
<1>3. /\ queue \in TurnQueues /\ text \in [on : BOOLEAN, prompt : Nat, early : BOOLEAN]
      /\ queue.waiters \in Seq({"text", "next"})
  BY TurnsTyped
<1>4. /\ Tail(queue.waiters) \in Seq({"text", "next"})
      /\ OneText(js, Tail(queue.waiters)) /\ TextFits(text, Tail(queue.waiters), promptsV2')
      /\ Head(queue.waiters) = "text" =>
            /\ text.on /\ (text.prompt # 0 => ~promptsV2'[text.prompt].overlaps)
            /\ \A i \in 1 .. Len(Tail(queue.waiters)) : Tail(queue.waiters)[i] # "text"
            /\ \A i \in 1 .. Len(js) : js[i].at # "text"
  BY <1>1, <1>2, <1>3, WaitersTail
<1>5. queue.values = <<>> /\ ReadersOK(queue', stage, closedV2)
  BY <1>1 DEF TurnsInv, ReadersOK
<1>6. TurnsOK(js, queue', promptsV2', text)
  <2>1. ValuesFit(queue'.values, promptsV2', queue'.next)
    BY <1>1, <1>5 DEF ValuesFit
  <2> QED BY <1>1, <1>3, <1>4, <2>1, TurnsQueue
<1>7. CASE Head(queue.waiters) = "text"
  <2>1. text.prompt <= e.asked
    BY <1>2 DEF TextFits
  <2>2. EntryFits(e, promptsV2', queue'.next)
    BY <1>1
  <2>3. /\ j \in TurnJobs /\ j.at = "text" /\ j \notin Routed
        /\ JobFits(j, promptsV2', queue'.next, text)
    BY <1>4, <1>7, <2>1, <2>2, TextJobFits DEF j
  <2>4. \A i \in 1 .. Len(queue'.waiters) : queue'.waiters[i] # "text"
    BY <1>1, <1>4, <1>7
  <2>5. \A i \in 1 .. Len(js) : js[i].at # "text"
    BY <1>4, <1>7
  <2>6. Append(js, j) \in Seq(TurnJobs) /\ TurnsOK(Append(js, j), queue', promptsV2', text)
    BY <1>6, <2>3, <2>4, <2>5, TurnsAppend
  <2>7. Guarded(Append(js, j)) = Guarded(js)
    BY <2>3, GuardedAppend
  <2> QED BY <1>1, <1>5, <1>7, <2>3, <2>6, <2>7
<1>8. CASE Head(queue.waiters) # "text"
  BY <1>1, <1>5, <1>6, <1>8
<1> QED BY <1>7, <1>8

LEMMA AppendNone ==
    ASSUME NEW s \in Seq(Nat), NEW n \in Nat
    PROVE  Append(s, n) \in Seq(Nat) /\ Append(s, n) \o <<>> = s \o Append(<<>>, n)
<1>1. Append(s, n) = s \o <<n>> /\ Append(<<>>, n) = <<n>> /\ Append(s, n) \in Seq(Nat)
  BY AppendIsConcat, AppendFacts
<1>2. Append(s, n) \o <<>> = Append(s, n)
  BY <1>1, ConcatEmptySeq
<1> QED BY <1>1, <1>2

LEMMA QueuedNone == Queued(<<>>) = <<>>
BY FilterEmpty, NumbersOfNone DEF Queued

LEMMA TurnRouteKeeps == ASSUME TurnsInv, V2!Route PROVE TurnsInv'
<1> DEFINE T == Tail(jobsV2)
           e == jobsV2[1].entry
<1>1. /\ jobsV2 # <<>> /\ jobsV2[1].at = "route"
      /\ UNCHANGED <<stage, wireV2, text, closedV2, updatesV2, dueV2, texts>>
  <2>1. jobsV2 # <<>> /\ Head(jobsV2).at = "route"
    BY DEF V2!Route, V2!Runs
  <2> QED BY <2>1, TurnsTyped, TailFacts DEF V2!Route
<1>2. TurnsOK(jobsV2, queue, promptsV2, text) /\ ReadersOK(queue, stage, closedV2)
  BY DEF TurnsInv
<1>3. /\ TurnsOK(T, queue, promptsV2, text) /\ T \in Seq(TurnJobs) /\ Head(jobsV2) = jobsV2[1]
      /\ JobFits(jobsV2[1], promptsV2, queue.next, text)
  BY <1>1, <1>2, TurnsTyped, TurnsTail
<1>4. jobsV2[1] \in Routed /\ e.number \in Nat
  <2>1. jobsV2[1] \in Routed
    BY <1>1, <1>3 DEF JobFits
  <2> QED BY <2>1, JobNumberOfOne
<1>5. StagesOK(stage, wireV2, T, promptsV2, closedV2) /\ stage \in {"attached", "over"}
  BY <1>1, TurnsTyped, StagesTail DEF TurnsInv
<1>6. Guarded(T) \in Seq(Nat) /\ Guarded(jobsV2) = <<e.number>> \o Guarded(T)
  BY <1>1, <1>4, TurnsTyped, GuardedTail
<1>7. CASE stage # "attached" \/ closedV2
  <2>1. jobsV2' = T /\ UNCHANGED <<queue, promptsV2, seenV2>>
    BY <1>7 DEF V2!Route
  <2> HIDE DEF T, e
  <2>2. V2!TypeOK'
    BY <1>1, <1>3, <2>1, TurnsTyped, TurnTypesNext
  <2> QED BY <1>1, <1>2, <1>3, <1>5, <1>7, <2>1, <2>2 DEF TurnsInv
<1>8. CASE stage = "attached" /\ ~closedV2
  <2> DEFINE stops == e.kind = "idle" /\ V2!IsAwaitingCompletion
             kind == IF stops THEN "stop" ELSE "update"
             n == V2!Entry(e, kind)
  <2>1. /\ promptsV2' = IF stops
                        THEN [p \in V2!Numbers |-> [promptsV2[p] EXCEPT !.active = FALSE]]
                        ELSE promptsV2
        /\ V2!Enqueue(n)
    BY <1>3, <1>8, Zenon DEF V2!Route
  <2>2. kind \in {"update", "stop"} /\ (kind = "stop" => stops)
    OBVIOUS
  <2> HIDE DEF kind, stops
  <2>3. /\ n \in V2!Entries /\ n.kind = kind /\ n.number = e.number
        /\ n.asked = Len(promptsV2) /\ n.sequence = queue.next
    BY <1>4, <2>2, EntryIs
  <2> HIDE DEF n, T, e
  <2>4. /\ promptsV2' \in Seq(TurnPrompts) /\ Ended(promptsV2, promptsV2')
        /\ stops => \A p \in 1 .. Len(promptsV2') : ~promptsV2'[p].active
    <3>1. CASE stops
      <4>1. promptsV2' = [p \in 1 .. Len(promptsV2) |-> [promptsV2[p] EXCEPT !.active = FALSE]]
        BY <2>1, <3>1 DEF V2!Numbers
      <4>2. Len(promptsV2) \in Nat /\ promptsV2 \in Seq(TurnPrompts)
        BY TurnsTyped
      <4>3. \A p \in 1 .. Len(promptsV2) : promptsV2[p] \in TurnPrompts
        BY <4>2
      <4>4. \A p \in 1 .. Len(promptsV2) :
                /\ promptsV2'[p] \in TurnPrompts /\ promptsV2'[p].active = FALSE
                /\ promptsV2'[p].cursor = promptsV2[p].cursor
                /\ promptsV2'[p].overlaps = promptsV2[p].overlaps
                /\ promptsV2'[p].beside = promptsV2[p].beside
        BY <4>1, <4>3 DEF TurnPrompts
      <4>5. promptsV2' \in [1 .. Len(promptsV2) -> TurnPrompts]
        BY <4>1, <4>4
      <4>6. promptsV2' \in Seq(TurnPrompts) /\ Len(promptsV2') = Len(promptsV2)
        BY <4>2, <4>5, FunctionIsSeq
      <4> QED BY <4>4, <4>6 DEF Ended
    <3>2. CASE ~stops
      BY <2>1, <3>2, TurnsTyped DEF Ended
    <3> QED BY <3>1, <3>2
  <2>5. Len(promptsV2') = Len(promptsV2)
    BY <2>4 DEF Ended
  <2>6. TurnsOK(T, queue, promptsV2', text) /\ GoesOn(promptsV2, promptsV2', queue.next)
    BY <1>3, <2>4, TurnsTyped, TurnsEnded
  <2>7. EntryFits(n, promptsV2', queue.next + 1)
    <3>1. queue.next \in Nat /\ Len(promptsV2) \in Nat
      BY TurnsTyped
    <3>2. n.kind = "stop" => stops
      BY <2>2, <2>3
    <3> QED BY <2>3, <2>4, <2>5, <3>1, <3>2 DEF EntryFits
  <2>8. T = Tail(jobsV2)
    BY DEF T
  <2>9. n.kind # "error" /\ n.asked = Len(promptsV2')
    BY <2>2, <2>3, <2>5
  <2>10. ~queue.failed
    BY <1>2, <1>8 DEF ReadersOK
  <2>a. /\ queue' \in TurnQueues /\ queue'.next = queue.next + 1
        /\ queue'.failed = queue.failed
        /\ queue.waiters = <<>> =>
              /\ queue'.values = Append(queue.values, n) /\ queue'.waiters = queue.waiters
              /\ jobsV2' = T /\ seenV2' = seenV2
        /\ queue.waiters # <<>> =>
              /\ queue'.values = queue.values /\ queue'.waiters = Tail(queue.waiters)
              /\ seenV2' = Append(seenV2, n.number)
              /\ Head(queue.waiters) = "text" => jobsV2' = Append(T, V2!Job("text", n))
              /\ Head(queue.waiters) # "text" => jobsV2' = T
    <3>1. queue \in TurnQueues /\ queue.next + 1 \in Nat
      BY TurnsTyped
    <3>2. CASE queue.waiters = <<>>
      <4>1. Append(queue.values, n) \in Seq(V2!Entries)
        BY <2>3, TurnsTyped, AppendFacts
      <4>2. /\ queue' = [queue EXCEPT !.next = @ + 1, !.values = Append(@, n)]
            /\ jobsV2' = T /\ seenV2' = seenV2
        BY <2>1, <2>8, <2>10, <3>2 DEF V2!Enqueue
      <4> QED BY <3>1, <3>2, <4>1, <4>2 DEF TurnQueues
    <3>3. CASE queue.waiters # <<>>
      <4>1. Tail(queue.waiters) \in Seq({"text", "next"})
        BY <3>3, TurnsTyped, TailFacts
      <4>2. /\ queue' = [queue EXCEPT !.next = @ + 1, !.waiters = Tail(@)]
            /\ seenV2' = Append(seenV2, n.number)
            /\ Head(queue.waiters) = "text" => jobsV2' = Append(T, V2!Job("text", n))
            /\ Head(queue.waiters) # "text" => jobsV2' = T
        BY <2>1, <2>8, <2>10, <3>3 DEF V2!Enqueue
      <4> QED BY <3>1, <3>3, <4>1, <4>2 DEF TurnQueues
    <3> QED BY <3>2, <3>3
  <2>b. /\ Queued(queue.values) \in Seq(Nat) /\ seenV2 \in Seq(Nat)
        /\ n \in V2!Entries /\ n.number = e.number
        /\ T \in Seq(TurnJobs) /\ promptsV2' \in Seq(TurnPrompts)
    <3>1. queue.values \in Seq(V2!Entries) /\ seenV2 \in Seq(Nat)
      BY TurnsTyped
    <3>2. Queued(queue.values) \in Seq(Nat)
      BY <3>1, QueuedConcat
    <3> QED BY <1>3, <2>3, <2>4, <3>1, <3>2
  <2>c. /\ ReadersOK(queue', stage, closedV2)
        /\ jobsV2' \in Seq(TurnJobs) /\ TurnsOK(jobsV2', queue', promptsV2', text)
        /\ jobsV2' = T \/ \E j \in TurnJobs : j.at = "text" /\ jobsV2' = Append(T, j)
        /\ Guarded(jobsV2') = Guarded(T) /\ seenV2' \in Seq(Nat)
        /\ seenV2' \o Queued(queue'.values) = seenV2 \o Append(Queued(queue.values), e.number)
    <3>1. CASE queue.waiters = <<>>
      <4>1. /\ ReadersOK(queue', stage, closedV2) /\ TurnsOK(T, queue', promptsV2', text)
            /\ Queued(queue'.values) = Append(Queued(queue.values), n.number)
        BY <1>8, <2>6, <2>7, <2>9, <2>a, <2>b, <3>1, EnqueueWaits
      <4> QED BY <2>a, <2>b, <3>1, <4>1
    <3>2. CASE queue.waiters # <<>>
      <4>1. /\ ReadersOK(queue', stage, closedV2) /\ queue.values = <<>>
            /\ jobsV2' \in Seq(TurnJobs) /\ TurnsOK(jobsV2', queue', promptsV2', text)
            /\ jobsV2' = T \/ \E j \in TurnJobs : j.at = "text" /\ jobsV2' = Append(T, j)
            /\ Guarded(jobsV2') = Guarded(T)
        BY <1>8, <2>6, <2>7, <2>9, <2>a, <2>b, <3>2, EnqueueGives
      <4>2. Queued(queue.values) = <<>> /\ Queued(queue'.values) = <<>>
        BY <2>a, <3>2, <4>1, QueuedNone
      <4>3. seenV2' \in Seq(Nat) /\ seenV2' \o <<>> = seenV2 \o Append(<<>>, e.number)
        BY <1>4, <2>a, <2>b, <3>2, AppendNone
      <4> QED BY <4>1, <4>2, <4>3
    <3> QED BY <3>1, <3>2
  <2>11. StagesOK(stage, wireV2, jobsV2', promptsV2', closedV2)
    <3>1. StagesOK(stage, wireV2, T, promptsV2', closedV2)
      BY <1>5, <1>8, <2>5 DEF StagesOK
    <3>2. ASSUME NEW j \in TurnJobs, j.at = "text", jobsV2' = Append(T, j)
          PROVE  StagesOK(stage, wireV2, jobsV2', promptsV2', closedV2)
      BY <1>3, <1>8, <3>1, <3>2, StagesAppend
    <3> QED BY <2>c, <3>1, <3>2
  <2>12. TextsFit(texts, promptsV2')
    BY <2>4, <2>6, TurnsTyped, TextsLater DEF TurnsInv
  <2>13. V2!TypeOK'
    BY <1>1, <2>4, <2>a, <2>c, TurnsTyped, TurnTypesNext
  <2>14. Order'
    <3>1. (seenV2 \o Queued(queue.values)) \o (<<e.number>> \o Guarded(T)) = dueV2
      BY <1>6, <1>8 DEF TurnsInv, Order
    <3>2. Queued(queue.values) \in Seq(Nat) /\ seenV2 \in Seq(Nat)
      <4>1. queue.values \in Seq(V2!Entries) /\ seenV2 \in Seq(Nat)
        BY TurnsTyped
      <4> QED BY <4>1, QueuedConcat
    <3>3. (seenV2 \o Append(Queued(queue.values), e.number)) \o Guarded(T) = dueV2
      <4> DEFINE u == Queued(queue.values)  g == Guarded(T)  i == e.number  S == Nat
      <4>1. seenV2 \in Seq(S) /\ u \in Seq(S) /\ g \in Seq(S) /\ i \in S
        BY <1>4, <1>6, <3>2
      <4>2. Moves(seenV2, u, g, i)
        <5> HIDE DEF u, g, i, S
        <5> QED BY <4>1, Moved
      <4> QED BY <3>1, <4>2, Zenon DEF Moves
    <3> QED BY <1>1, <2>c, <3>3 DEF Order
  <2> QED BY <1>1, <1>8, <2>a, <2>c, <2>11, <2>12, <2>13, <2>14 DEF TurnsInv
<1> QED BY <1>7, <1>8

(* The entries that are skipped, and those that remain.                    *)
Skipped(values, k) == SubSeq(values, 1, k)
Remaining(values, k) == SubSeq(values, k + 1, Len(values))

LEMMA Parted ==
    ASSUME NEW S, NEW s \in Seq(S), NEW k \in 0 .. Len(s)
    PROVE  /\ Skipped(s, k) \in Seq(S) /\ Remaining(s, k) \in Seq(S)
           /\ Skipped(s, k) \o Remaining(s, k) = s
           /\ Len(Remaining(s, k)) = Len(s) - k
           /\ \A i \in 1 .. Len(s) - k :
                 Remaining(s, k)[i] = s[k + i] /\ k + i \in k + 1 .. Len(s)
           /\ Skipped(s, 0) = <<>>
<1>1. Len(s) \in Nat /\ k \in Nat /\ \A i \in 1 .. Len(s) : s[i] \in S
  OBVIOUS
<1>2. Skipped(s, k) \in Seq(S)
  BY <1>1, SubSeqProperties DEF Skipped
<1>3. /\ Remaining(s, k) \in Seq(S) /\ Len(Remaining(s, k)) = Len(s) - k
      /\ \A i \in 1 .. Len(s) - k : Remaining(s, k)[i] = s[k + i] /\ k + i \in k + 1 .. Len(s)
  <2>1. \A i \in k + 1 .. Len(s) : s[i] \in S
    BY <1>1
  <2>2. /\ SubSeq(s, k + 1, Len(s)) \in Seq(S)
        /\ Len(SubSeq(s, k + 1, Len(s))) = IF k + 1 <= Len(s) THEN Len(s) - (k + 1) + 1 ELSE 0
        /\ \A i \in 1 .. Len(s) - (k + 1) + 1 : SubSeq(s, k + 1, Len(s))[i] = s[k + 1 + i - 1]
    BY <1>1, <2>1, SubSeqProperties
  <2> QED BY <1>1, <2>2 DEF Remaining
<1>4. Skipped(s, k) \o Remaining(s, k) = s
  <2>1. SubSeq(s, 1, k) \o SubSeq(s, k + 1, Len(s)) = SubSeq(s, 1, Len(s))
    <3>1. 1 \in 1 .. Len(s) + 1 /\ k \in 1 - 1 .. Len(s) /\ Len(s) \in k .. Len(s)
      BY <1>1
    <3> QED BY <3>1, ConcatAdjacentSubSeq, Zenon
  <2>2. SubSeq(s, 1, Len(s)) = s
    BY SubSeqFull
  <2> QED BY <2>1, <2>2, Zenon DEF Skipped, Remaining
<1>5. Skipped(s, 0) = <<>>
  BY SubSeqEmpty DEF Skipped
<1> QED BY <1>2, <1>3, <1>4, <1>5

Associates(a, b, c, d) == ((a \o b) \o c) \o d = a \o (b \o (c \o d))

LEMMA Associative ==
    ASSUME NEW S, NEW a \in Seq(S), NEW b \in Seq(S), NEW c \in Seq(S), NEW d \in Seq(S)
    PROVE  Associates(a, b, c, d)
<1> DEFINE ab == a \o b  cd == c \o d
<1>1. ab \in Seq(S) /\ cd \in Seq(S)
  OBVIOUS
<1>2. (ab \o c) \o d = ab \o cd
  <2> HIDE DEF ab
  <2> QED BY <1>1
<1>3. ab \o cd = a \o (b \o cd)
  <2> HIDE DEF cd
  <2> QED BY <1>1
<1> QED BY <1>2, <1>3, Zenon DEF Associates

(* What a reader is given or has skipped is what is no longer queued.      *)
LEMMA TakenOrder ==
    ASSUME NEW s \in Seq(Nat), NEW values \in Seq(V2!Entries), NEW k \in 0 .. Len(values),
           NEW r, r = Remaining(values, k)
    PROVE  /\ s \o Queued(Skipped(values, k)) \in Seq(Nat)
           /\ r = <<>> => (s \o Queued(Skipped(values, k))) \o Queued(<<>>) = s \o Queued(values)
           /\ r # <<>> =>
                 /\ (s \o Queued(Skipped(values, k))) \o Queued(<<Head(r)>>) \in Seq(Nat)
                 /\ ((s \o Queued(Skipped(values, k))) \o Queued(<<Head(r)>>)) \o Queued(Tail(r))
                       = s \o Queued(values)
<1> DEFINE f == Skipped(values, k)
<1>1. f \in Seq(V2!Entries) /\ r \in Seq(V2!Entries) /\ f \o r = values
  BY Parted
<1> HIDE DEF f
<1>2. Queued(f) \in Seq(Nat) /\ Queued(r) \in Seq(Nat) /\ Queued(values) = Queued(f) \o Queued(r)
  BY <1>1, QueuedConcat
<1>3. Queued(<<>>) = <<>>
  BY QueuedNone
<1>4. CASE r = <<>>
  <2> DEFINE F == Queued(f)
  <2>1. F \in Seq(Nat) /\ Queued(values) = F \o <<>>
    BY <1>2, <1>3, <1>4
  <2> HIDE DEF F
  <2>2. s \o F \in Seq(Nat) /\ (s \o F) \o <<>> = s \o F /\ F \o <<>> = F
    BY <2>1, ConcatProperties, ConcatEmptySeq
  <2> QED BY <1>3, <1>4, <2>1, <2>2 DEF F, f
<1>5. CASE r # <<>>
  <2> DEFINE F == Queued(f)  E == Queued(<<Head(r)>>)  L == Queued(Tail(r))
  <2>1. <<Head(r)>> \in Seq(V2!Entries) /\ Tail(r) \in Seq(V2!Entries) /\ r = <<Head(r)>> \o Tail(r)
    BY <1>1, <1>5
  <2>2. E \in Seq(Nat) /\ L \in Seq(Nat) /\ Queued(r) = E \o L
    <3> DEFINE h == <<Head(r)>>  l == Tail(r)
    <3>1. h \in Seq(V2!Entries) /\ l \in Seq(V2!Entries) /\ r = h \o l
      BY <2>1
    <3>2. Queued(h) \in Seq(Nat) /\ Queued(l) \in Seq(Nat) /\ Queued(h \o l) = Queued(h) \o Queued(l)
      <4> HIDE DEF h, l
      <4> QED BY <3>1, QueuedConcat
    <3> QED BY <3>1, <3>2, Zenon
  <2>3. F \in Seq(Nat) /\ Queued(values) = F \o (E \o L)
    BY <1>2, <2>2
  <2> HIDE DEF F, E, L
  <2>4. /\ ((s \o F) \o E) \o L = s \o (F \o (E \o L))
        /\ s \o F \in Seq(Nat) /\ (s \o F) \o E \in Seq(Nat)
    <3>1. s \in Seq(Nat) /\ F \in Seq(Nat) /\ E \in Seq(Nat) /\ L \in Seq(Nat)
      BY <2>2, <2>3
    <3>2. ((s \o F) \o E) \o L = s \o (F \o (E \o L))
      <4>1. Associates(s, F, E, L)
        BY <3>1, Associative
      <4> QED BY <4>1, Zenon DEF Associates
    <3>3. s \o F \in Seq(Nat)
      BY <3>1, ConcatProperties
    <3>4. (s \o F) \o E \in Seq(Nat)
      BY <3>1, <3>3, ConcatProperties
    <3> QED BY <3>2, <3>3, <3>4
  <2> QED BY <1>5, <2>3, <2>4 DEF F, E, L, f
<1> QED BY <1>4, <1>5

(* One more reader waits.                                                  *)
LEMMA WaitersAppend ==
    ASSUME NEW w \in Seq({"text", "next"}), NEW kind \in {"text", "next"}, NEW js, NEW t, NEW ps,
           OneText(js, w), TextFits(t, w, ps),
           kind = "text" => /\ t.on /\ (t.prompt # 0 => ~ps[t.prompt].overlaps)
                            /\ \A i \in 1 .. Len(w) : w[i] # "text"
                            /\ \A i \in 1 .. Len(js) : js[i].at # "text"
    PROVE  /\ Append(w, kind) \in Seq({"text", "next"})
           /\ OneText(js, Append(w, kind)) /\ TextFits(t, Append(w, kind), ps)
<1> DEFINE a == Append(w, kind)
<1>1. /\ a \in Seq({"text", "next"}) /\ Len(w) \in Nat /\ Len(a) = Len(w) + 1
      /\ a[Len(w) + 1] = kind /\ \A i \in 1 .. Len(w) : a[i] = w[i]
  BY AppendFacts
<1> HIDE DEF a
<1>2. \A i \in 1 .. Len(a) : i \in 1 .. Len(w) \/ i = Len(w) + 1
  BY <1>1
<1>3. TextFits(t, a, ps)
  BY <1>1, <1>2 DEF TextFits
<1>4. OneText(js, a)
  <2>1. \A i, j \in 1 .. Len(a) : a[i] = "text" /\ a[j] = "text" => i = j
    BY <1>1, <1>2 DEF OneText
  <2>2. \A i \in 1 .. Len(js), j \in 1 .. Len(a) : ~(js[i].at = "text" /\ a[j] = "text")
    BY <1>1, <1>2 DEF OneText
  <2> QED BY <2>1, <2>2 DEF OneText
<1> QED BY <1>1, <1>3, <1>4 DEF a

TextTypes == [on : BOOLEAN, prompt : Nat, early : BOOLEAN]

(* next, of a reader whose readText() is u: when it takes no text, u is    *)
(* what text is.  js are the microtasks that remain.                       *)
LEMMA TakeNextKeeps ==
    ASSUME TurnsInv, stage \in {"attached", "over"},
           NEW t \in TextTypes, NEW k \in 0 .. Len(queue.values), NEW js \in Seq(TurnJobs),
           V2!TakeNext(t, k, js),
           UNCHANGED <<stage, wireV2, promptsV2, closedV2, updatesV2, dueV2, texts>>,
           StagesOK(stage, wireV2, js, promptsV2, closedV2),
           Guarded(js) = Guarded(jobsV2),
           NEW u \in TextTypes, t.on => u = t, ~t.on => u = text,
           TurnsOK(js, queue, promptsV2, u),
           t.on => /\ t.prompt # 0 => ~promptsV2[t.prompt].overlaps
                   /\ \A i \in 1 .. Len(js) : js[i].at # "text"
                   /\ \A i \in 1 .. Len(queue.waiters) : queue.waiters[i] # "text"
                   /\ k < Len(queue.values) => t.prompt <= queue.values[k + 1].asked
    PROVE  TurnsInv'
<1> DEFINE kind == IF t.on THEN "text" ELSE "next"
           r == Remaining(queue.values, k)
           f == seenV2 \o Queued(Skipped(queue.values, k))
           e == Head(r)
<1>1. /\ queue \in TurnQueues /\ queue.values \in Seq(V2!Entries) /\ seenV2 \in Seq(Nat)
      /\ queue.waiters \in Seq({"text", "next"}) /\ promptsV2 \in Seq(TurnPrompts)
      /\ ReadersOK(queue, stage, closedV2) /\ queue.next \in Nat /\ queue.failed \in BOOLEAN
      /\ text \in TextTypes
  <2>1. ReadersOK(queue, stage, closedV2)
    BY DEF TurnsInv
  <2> QED BY <2>1, TurnsTyped DEF TextTypes
<1>2. /\ r \in Seq(V2!Entries) /\ Len(r) = Len(queue.values) - k
      /\ \A i \in 1 .. Len(queue.values) - k :
            r[i] = queue.values[k + i] /\ k + i \in k + 1 .. Len(queue.values)
  BY <1>1, Parted
<1>3. /\ V2!Updates(SubSeq(queue.values, 1, k)) = Queued(Skipped(queue.values, k))
      /\ V2!Updates(<<e>>) = Queued(<<e>>)
  BY UpdatesAre DEF Skipped
<1>4. /\ r = <<>> =>
            /\ queue' = [queue EXCEPT !.values = <<>>,
                            !.waiters = IF queue.failed THEN @ ELSE Append(@, kind)]
            /\ text' = IF t.on THEN (IF queue.failed THEN V2!NoText ELSE t) ELSE text
            /\ jobsV2' = js /\ seenV2' = f
      /\ r # <<>> =>
            /\ queue' = [queue EXCEPT !.values = Tail(r)]
            /\ text' = IF t.on THEN (IF e.kind = "error" THEN V2!NoText ELSE t) ELSE text
            /\ jobsV2' = IF t.on /\ e.kind # "error"
                         THEN Append(js, V2!Job("text", e)) ELSE js
            /\ seenV2' = f \o Queued(<<e>>)
  BY <1>3 DEF V2!TakeNext, Remaining
<1>5. /\ f \in Seq(Nat)
      /\ r = <<>> => f \o Queued(<<>>) = seenV2 \o Queued(queue.values)
      /\ r # <<>> =>
            /\ f \o Queued(<<e>>) \in Seq(Nat)
            /\ (f \o Queued(<<e>>)) \o Queued(Tail(r)) = seenV2 \o Queued(queue.values)
  BY <1>1, TakenOrder
<1>6. /\ OneText(js, queue.waiters) /\ TextFits(u, queue.waiters, promptsV2)
      /\ ValuesFit(queue.values, promptsV2, queue.next)
  BY DEF TurnsOK
<1>7. kind \in {"text", "next"} /\ (kind = "text" => t.on) /\ (kind = "next" => ~t.on)
  OBVIOUS
<1> HIDE DEF kind, r, f
<1>8. ASSUME queue' \in TurnQueues, ReadersOK(queue', stage, closedV2),
             jobsV2' \in Seq(TurnJobs), TurnsOK(jobsV2', queue', promptsV2, text'),
             StagesOK(stage, wireV2, jobsV2', promptsV2, closedV2),
             Guarded(jobsV2') = Guarded(js), text' \in TextTypes, seenV2' \in Seq(Nat),
             seenV2' \o Queued(queue'.values) = seenV2 \o Queued(queue.values)
      PROVE  TurnsInv'
  <2>1. text' \in [on : BOOLEAN, prompt : Nat, early : BOOLEAN]
    BY <1>8 DEF TextTypes
  <2>2. V2!TypeOK'
    BY <1>8, <2>1, TurnsTyped, TurnTypesNext
  <2>3. stage # "over" /\ ~closedV2 => Order'
    <3>1. stage # "over" /\ ~closedV2 =>
             seenV2 \o Queued(queue.values) \o Guarded(jobsV2) = dueV2
      BY DEF TurnsInv, Order
    <3>2. UNCHANGED dueV2 /\ Guarded(jobsV2') = Guarded(jobsV2)
      BY <1>8
    <3> QED BY <1>8, <3>1, <3>2 DEF Order
  <2>4. TextsFit(texts, promptsV2)
    BY DEF TurnsInv
  <2> QED BY <1>8, <2>2, <2>3, <2>4 DEF TurnsInv
<1>9. CASE r = <<>>
  <2>1. /\ queue' = [queue EXCEPT !.values = <<>>,
                        !.waiters = IF queue.failed THEN @ ELSE Append(@, kind)]
        /\ text' = IF t.on THEN (IF queue.failed THEN V2!NoText ELSE t) ELSE text
        /\ jobsV2' = js /\ seenV2' = f
    BY <1>4, <1>9
  <2>2. seenV2' \in Seq(Nat) /\ <<>> \in Seq(V2!Entries)
        /\ seenV2' \o Queued(<<>>) = seenV2 \o Queued(queue.values)
    BY <1>5, <1>9, <2>1, EmptySeq
  <2>3. CASE queue.failed
    <3>1. queue' \in TurnQueues /\ queue'.values = <<>> /\ queue'.waiters = queue.waiters
          /\ queue'.failed /\ queue'.next = queue.next
      BY <1>1, <2>1, <2>2, <2>3 DEF TurnQueues
    <3>2. queue.waiters = <<>>
      BY <1>1, <2>3 DEF ReadersOK
    <3>3. ReadersOK(queue', stage, closedV2)
      BY <1>1, <2>3, <3>1, <3>2 DEF ReadersOK
    <3>4. TurnsOK(js, queue', promptsV2, u)
      <4>1. ValuesFit(queue'.values, promptsV2, queue'.next) /\ queue.next <= queue'.next
        BY <1>1, <3>1 DEF ValuesFit
      <4>2. u \in [on : BOOLEAN, prompt : Nat, early : BOOLEAN]
        BY DEF TextTypes
      <4> QED BY <1>1, <3>1, <4>1, <4>2, TurnsQueue
    <3>5. TurnsOK(js, queue', promptsV2, text') /\ text' \in TextTypes
      <4>1. CASE t.on
        <5>1. text' = V2!NoText /\ V2!NoText \in TextTypes
          BY <2>1, <2>3, <4>1 DEF V2!NoText, TextTypes
        <5>2. u \in [on : BOOLEAN, prompt : Nat, early : BOOLEAN]
          BY DEF TextTypes
        <5>3. \A i \in 1 .. Len(queue'.waiters) : queue'.waiters[i] # "text"
          BY <3>1, <3>2
        <5>4. \A i \in 1 .. Len(js) : js[i].at # "text"
          BY <4>1
        <5>5. TurnsOK(js, queue', promptsV2, V2!NoText)
          BY <1>1, <3>1, <3>4, <5>2, <5>3, <5>4, TurnsTextGone
        <5> QED BY <5>1, <5>5
      <4>2. CASE ~t.on
        <5>1. text' = u
          BY <2>1, <4>2
        <5> QED BY <3>4, <5>1
      <4> QED BY <4>1, <4>2
    <3> QED BY <1>8, <2>1, <2>2, <3>1, <3>3, <3>5
  <2>4. CASE ~queue.failed
    <3>1. kind = "text" => /\ u.on /\ (u.prompt # 0 => ~promptsV2[u.prompt].overlaps)
                           /\ \A i \in 1 .. Len(queue.waiters) : queue.waiters[i] # "text"
                           /\ \A i \in 1 .. Len(js) : js[i].at # "text"
      BY <1>7
    <3>2. /\ Append(queue.waiters, kind) \in Seq({"text", "next"})
          /\ OneText(js, Append(queue.waiters, kind))
          /\ TextFits(u, Append(queue.waiters, kind), promptsV2)
      BY <1>1, <1>6, <1>7, <3>1, WaitersAppend
    <3>3. /\ queue' \in TurnQueues /\ queue'.values = <<>> /\ ~queue'.failed
          /\ queue'.waiters = Append(queue.waiters, kind) /\ queue'.next = queue.next
      BY <1>1, <2>1, <2>2, <2>4, <3>2 DEF TurnQueues
    <3>4. ReadersOK(queue', stage, closedV2)
      BY <1>1, <2>4, <3>3 DEF ReadersOK
    <3>5. text' = u
      BY <2>1, <2>4
    <3>6. TurnsOK(js, queue', promptsV2, u)
      <4>1. ValuesFit(queue'.values, promptsV2, queue'.next) /\ queue.next <= queue'.next
        BY <1>1, <3>3 DEF ValuesFit
      <4>2. u \in [on : BOOLEAN, prompt : Nat, early : BOOLEAN]
        BY DEF TextTypes
      <4> QED BY <1>1, <3>2, <3>3, <4>1, <4>2, TurnsQueue
    <3> QED BY <1>8, <2>1, <2>2, <3>3, <3>4, <3>5, <3>6
  <2> QED BY <2>3, <2>4
<1>10. CASE r # <<>>
  <2>1. /\ queue' = [queue EXCEPT !.values = Tail(r)]
        /\ text' = IF t.on THEN (IF e.kind = "error" THEN V2!NoText ELSE t) ELSE text
        /\ jobsV2' = IF t.on /\ e.kind # "error"
                     THEN Append(js, V2!Job("text", e)) ELSE js
        /\ seenV2' = f \o Queued(<<e>>)
    BY <1>4, <1>10
  <2>2. /\ Len(r) \in Nat \ {0} /\ e = r[1] /\ Tail(r) \in Seq(V2!Entries)
        /\ Len(Tail(r)) = Len(r) - 1
        /\ \A i \in 1 .. Len(Tail(r)) : Tail(r)[i] = r[i + 1]
    BY <1>2, <1>10, TailFacts
  <2>3. /\ e = queue.values[k + 1] /\ k + 1 \in 1 .. Len(queue.values) /\ e \in V2!Entries
        /\ queue.values # <<>> /\ (t.on => t.prompt <= e.asked)
    <3>1. Len(queue.values) \in Nat /\ k \in Nat
      BY <1>1
    <3>2. 1 \in 1 .. Len(queue.values) - k
      BY <1>2, <2>2, <3>1
    <3>3. e = queue.values[k + 1] /\ k + 1 \in k + 1 .. Len(queue.values)
      BY <1>2, <2>2, <3>2
    <3>4. k + 1 \in 1 .. Len(queue.values)
      BY <3>1, <3>3
    <3>5. e \in V2!Entries /\ queue.values # <<>>
      BY <1>1, <3>3, <3>4
    <3>6. t.on => t.prompt <= queue.values[k + 1].asked
      BY <3>1, <3>4
    <3> HIDE DEF e
    <3> QED BY <3>3, <3>4, <3>5, <3>6
  <2>4. EntryFits(e, promptsV2, queue.next)
    BY <1>6, <2>3 DEF ValuesFit
  <2>5. ValuesFit(Tail(r), promptsV2, queue.next)
    <3>1. Len(queue.values) \in Nat /\ k \in Nat
      BY <1>1
    <3>2. ASSUME NEW i \in 1 .. Len(Tail(r))
          PROVE  Tail(r)[i] = queue.values[k + (i + 1)]
                 /\ k + (i + 1) \in 1 .. Len(queue.values)
      <4>1. i + 1 \in 1 .. Len(queue.values) - k
        BY <1>2, <2>2, <3>1
      <4> QED BY <1>2, <2>2, <3>1, <4>1
    <3> QED BY <1>6, <3>2 DEF ValuesFit
  <2> HIDE DEF e
  <2>6. /\ queue' \in TurnQueues /\ queue'.values = Tail(r) /\ queue'.waiters = queue.waiters
        /\ queue'.failed = queue.failed /\ queue'.next = queue.next
    BY <1>1, <2>1, <2>2 DEF TurnQueues
  <2>7. queue.waiters = <<>>
    BY <1>1, <2>3 DEF ReadersOK
  <2>8. ReadersOK(queue', stage, closedV2)
    BY <1>1, <2>6, <2>7 DEF ReadersOK
  <2>9. TurnsOK(js, queue', promptsV2, u)
    <3>1. ValuesFit(queue'.values, promptsV2, queue'.next) /\ queue.next <= queue'.next
      BY <1>1, <2>5, <2>6
    <3>2. u \in [on : BOOLEAN, prompt : Nat, early : BOOLEAN]
      BY DEF TextTypes
    <3> QED BY <1>1, <2>6, <3>1, <3>2, TurnsQueue
  <2>10. seenV2' \in Seq(Nat) /\ seenV2' \o Queued(queue'.values) = seenV2 \o Queued(queue.values)
    BY <1>5, <1>10, <2>1, <2>6 DEF e
  <2>11. \A i \in 1 .. Len(queue'.waiters) : queue'.waiters[i] # "text"
    BY <2>6, <2>7
  <2>12. CASE ~t.on
    <3>1. text' = u /\ jobsV2' = js
      BY <2>1, <2>12
    <3> QED BY <1>8, <2>6, <2>8, <2>9, <2>10, <3>1
  <2>13. CASE t.on /\ e.kind = "error"
    <3>1. text' = V2!NoText /\ jobsV2' = js /\ V2!NoText \in TextTypes
      BY <2>1, <2>13 DEF V2!NoText, TextTypes
    <3>2. u \in [on : BOOLEAN, prompt : Nat, early : BOOLEAN]
      BY DEF TextTypes
    <3>3. \A i \in 1 .. Len(js) : js[i].at # "text"
      BY <2>13
    <3>4. TurnsOK(js, queue', promptsV2, V2!NoText)
      BY <1>1, <2>6, <2>9, <2>11, <3>2, <3>3, TurnsTextGone
    <3> QED BY <1>8, <2>6, <2>8, <2>10, <3>1, <3>4
  <2>14. CASE t.on /\ e.kind # "error"
    <3> DEFINE j == V2!Job("text", e)
    <3>1. text' = u /\ jobsV2' = Append(js, j) /\ u = t
      BY <2>1, <2>14
    <3>2. /\ j \in TurnJobs /\ j.at = "text" /\ j \notin Routed
          /\ JobFits(j, promptsV2, queue.next, t)
      BY <2>3, <2>4, <2>14, TextJobFits
    <3> HIDE DEF j
    <3>3. \A i \in 1 .. Len(js) : js[i].at # "text"
      BY <2>14
    <3>4. JobFits(j, promptsV2, queue'.next, u)
      BY <2>6, <3>1, <3>2
    <3>5. Append(js, j) \in Seq(TurnJobs) /\ TurnsOK(Append(js, j), queue', promptsV2, u)
      BY <2>9, <2>11, <3>2, <3>3, <3>4, TurnsAppend
    <3>6. Guarded(Append(js, j)) = Guarded(js)
      BY <3>2, GuardedAppend
    <3>7. StagesOK(stage, wireV2, Append(js, j), promptsV2, closedV2)
      BY <3>2, StagesAppend
    <3> QED BY <1>8, <2>6, <2>8, <2>10, <3>1, <3>5, <3>6, <3>7
  <2> QED BY <2>12, <2>13, <2>14
<1> QED BY <1>9, <1>10

(* How many entries are dropped for a cursor.                              *)
Drops(values, c, n) ==
    /\ \A i \in 1 .. n : values[i].sequence < c
    /\ n < Len(values) => values[n + 1].sequence >= c

LEMMA DropsExists ==
    ASSUME NEW values \in Seq(V2!Entries), NEW c \in Nat
    PROVE  \E n \in 0 .. Len(values) : Drops(values, c, n)
<1>1. Len(values) \in Nat /\ \A i \in 1 .. Len(values) : values[i].sequence \in Nat
  <2>1. \A i \in 1 .. Len(values) : values[i] \in V2!Entries
    OBVIOUS
  <2> QED BY <2>1, ValuesOfTurns
<1> SUFFICES ASSUME \A n \in 0 .. Len(values) : ~Drops(values, c, n)
             PROVE  FALSE
  OBVIOUS
<1> DEFINE G == {n \in Nat : n <= Len(values) => \A i \in 1 .. n : values[i].sequence < c}
<1>2. 0 \in G
  OBVIOUS
<1>3. ASSUME NEW n \in G PROVE n + 1 \in G
  <2>1. n \in Nat /\ n + 1 \in Nat
    OBVIOUS
  <2>2. ASSUME n + 1 <= Len(values) PROVE \A i \in 1 .. n + 1 : values[i].sequence < c
    <3>1. \A i \in 1 .. n : values[i].sequence < c
      BY <1>1, <2>1, <2>2
    <3>2. ~Drops(values, c, n) /\ n < Len(values)
      BY <1>1, <2>1, <2>2
    <3>3. values[n + 1].sequence \in Nat /\ ~(values[n + 1].sequence >= c)
      BY <1>1, <2>1, <2>2, <3>1, <3>2 DEF Drops
    <3> QED BY <2>1, <3>1, <3>3
  <2> QED BY <2>1, <2>2
<1>4. \A n \in Nat : n \in G
  <2> HIDE DEF G
  <2> QED BY <1>2, <1>3, NatMin, G \in SUBSET Nat DEF G
<1>5. \A i \in 1 .. Len(values) : values[i].sequence < c
  BY <1>1, <1>4
<1>6. Drops(values, c, Len(values))
  BY <1>1, <1>5 DEF Drops
<1> QED BY <1>1, <1>6

LEMMA DroppedIs ==
    ASSUME TurnsInv, NEW c \in Nat
    PROVE  V2!Dropped(c) \in 0 .. Len(queue.values) /\ Drops(queue.values, c, V2!Dropped(c))
<1>1. V2!Dropped(c) = CHOOSE n \in 0 .. Len(queue.values) : Drops(queue.values, c, n)
  BY DEF V2!Dropped, Drops
<1>2. \E n \in 0 .. Len(queue.values) : Drops(queue.values, c, n)
  BY TurnsTyped, DropsExists
<1> QED BY <1>1, <1>2, Zenon

(* nextAfter: what is left of the queue was asked for by the prompt.       *)
LEMMA NextAfterKeeps ==
    ASSUME TurnsInv, stage \in {"attached", "over"},
           NEW t \in TextTypes, t.on, NEW js \in Seq(TurnJobs), V2!NextAfter(t, js),
           UNCHANGED <<stage, wireV2, promptsV2, closedV2, updatesV2, dueV2, texts>>,
           StagesOK(stage, wireV2, js, promptsV2, closedV2),
           Guarded(js) = Guarded(jobsV2), TurnsOK(js, queue, promptsV2, t),
           \A i \in 1 .. Len(js) : js[i].at # "text",
           \A i \in 1 .. Len(queue.waiters) : queue.waiters[i] # "text"
    PROVE  TurnsInv'
<1>1. t.prompt \in Nat /\ t.prompt <= Len(promptsV2) /\ Len(promptsV2) \in Nat
  BY TurnsTyped DEF TurnsOK, TextFits, TextTypes
<1>2. CASE t.prompt # 0 /\ promptsV2[t.prompt].overlaps
  <2>1. text' = V2!NoText /\ jobsV2' = js /\ UNCHANGED <<queue, seenV2>>
    BY <1>2 DEF V2!NextAfter
  <2>2. /\ V2!NoText \in [on : BOOLEAN, prompt : Nat, early : BOOLEAN] /\ ~V2!NoText.on
        /\ t \in [on : BOOLEAN, prompt : Nat, early : BOOLEAN]
    BY DEF V2!NoText, TextTypes
  <2>3. TurnsOK(js, queue, promptsV2, V2!NoText)
    BY <2>2, TurnsTyped, TurnsTextGone
  <2>4. V2!TypeOK'
    BY <2>1, <2>2, TurnsTyped, TurnTypesNext
  <2>5. stage # "over" /\ ~closedV2 => Order'
    BY <2>1 DEF TurnsInv, Order
  <2>6. ReadersOK(queue, stage, closedV2) /\ TextsFit(texts, promptsV2)
    BY DEF TurnsInv
  <2> QED BY <2>1, <2>2, <2>3, <2>4, <2>5, <2>6 DEF TurnsInv
<1>3. CASE ~(t.prompt # 0 /\ promptsV2[t.prompt].overlaps)
  <2> DEFINE c == V2!CursorOf(t.prompt)
             k == V2!Dropped(c)
  <2>1. V2!TakeNext(t, k, js)
    BY <1>3 DEF V2!NextAfter
  <2>2. c \in Nat /\ (t.prompt # 0 => c = promptsV2[t.prompt].cursor)
    <3>1. CASE t.prompt = 0
      BY <3>1 DEF V2!CursorOf
    <3>2. CASE t.prompt # 0
      <4>1. t.prompt \in 1 .. Len(promptsV2)
        BY <1>1, <3>2
      <4>2. promptsV2[t.prompt] \in TurnPrompts
        BY <4>1, TurnsTyped, ElementOfSeq
      <4> QED BY <3>2, <4>2 DEF V2!CursorOf, TurnPrompts
    <3> QED BY <3>1, <3>2
  <2> HIDE DEF c
  <2>3. k \in 0 .. Len(queue.values) /\ Drops(queue.values, c, k)
    BY <2>2, DroppedIs
  <2> HIDE DEF k
  <2>4. ASSUME k < Len(queue.values) PROVE t.prompt <= queue.values[k + 1].asked
    <3>1. Len(queue.values) \in Nat /\ queue.values \in Seq(V2!Entries)
      BY TurnsTyped
    <3>2. k + 1 \in 1 .. Len(queue.values)
      BY <2>3, <2>4, <3>1
    <3>3. queue.values[k + 1] \in V2!Entries
      BY <3>1, <3>2, ElementOfSeq
    <3>4. queue.values[k + 1].sequence \in Nat /\ queue.values[k + 1].asked \in Nat
      BY <3>3, ValuesOfTurns
    <3>5. EntryFits(queue.values[k + 1], promptsV2, queue.next)
      BY <3>2 DEF TurnsOK, ValuesFit
    <3>6. queue.values[k + 1].sequence >= c
      BY <2>3, <2>4 DEF Drops
    <3>7. ASSUME queue.values[k + 1].asked < t.prompt PROVE FALSE
      <4>1. t.prompt # 0 /\ t.prompt \in 1 .. Len(promptsV2)
        BY <1>1, <3>4, <3>7
      <4>2. queue.values[k + 1].sequence < promptsV2[t.prompt].cursor
        BY <3>5, <3>7, <4>1 DEF EntryFits
      <4> QED BY <2>2, <3>4, <3>6, <4>1, <4>2
    <3> QED BY <1>1, <3>4, <3>7
  <2> QED BY <1>3, <2>1, <2>3, <2>4, TakeNextKeeps
<1> QED BY <1>2, <1>3

LEMMA TurnTextKeeps == ASSUME TurnsInv, V2!TextGoesOn PROVE TurnsInv'
<1> DEFINE T == Tail(jobsV2)
           h == jobsV2[1]
           e == h.entry
<1>1. /\ jobsV2 # <<>> /\ Head(jobsV2).at = "text"
      /\ UNCHANGED <<stage, wireV2, promptsV2, closedV2, updatesV2, dueV2>>
  BY DEF V2!TextGoesOn, V2!Runs
<1>2. /\ jobsV2 \in Seq(TurnJobs) /\ TurnsOK(jobsV2, queue, promptsV2, text)
      /\ StagesOK(stage, wireV2, jobsV2, promptsV2, closedV2)
      /\ ReadersOK(queue, stage, closedV2) /\ TextsFit(texts, promptsV2)
      /\ queue.next \in Nat /\ Len(promptsV2) \in Nat
  BY TurnsTyped DEF TurnsInv
<1>3. /\ T \in Seq(TurnJobs) /\ TurnsOK(T, queue, promptsV2, text) /\ Head(jobsV2) = h
      /\ JobFits(h, promptsV2, queue.next, text)
      /\ h.at = "text" =>
            /\ \A i \in 1 .. Len(T) : T[i].at # "text"
            /\ \A i \in 1 .. Len(queue.waiters) : queue.waiters[i] # "text"
  BY <1>1, <1>2, TurnsTail
<1>4. h.at = "text"
  BY <1>1, <1>3
<1>5. /\ e \in V2!Values /\ EntryFits(e, promptsV2, queue.next)
      /\ text.on /\ text.prompt <= e.asked
      /\ text.prompt # 0 /\ e.kind = "stop" => ~promptsV2[text.prompt].overlaps
  BY <1>3, <1>4 DEF JobFits
<1>6. text \in TextTypes /\ ~text.early /\ text.prompt <= Len(promptsV2) /\ text.prompt \in Nat
  <2>1. text \in TextTypes
    BY TurnsTyped DEF TextTypes
  <2>2. ~text.early /\ text.prompt <= Len(promptsV2)
    BY <1>2 DEF TurnsOK, TextFits
  <2> QED BY <2>1, <2>2 DEF TextTypes
<1>7. StagesOK(stage, wireV2, T, promptsV2, closedV2)
  <2>1. jobsV2[1].at \notin {"adopt", "attach"}
    BY <1>4
  <2> QED BY <1>1, <1>2, <2>1, StagesTail
<1>8. Guarded(T) = Guarded(jobsV2)
  <2>1. jobsV2[1] \notin Routed
    BY <1>4 DEF Routed
  <2> QED BY <1>1, <1>2, <2>1, GuardedTail
<1>9. stage \in {"attached", "over"}
  BY <1>5 DEF TurnsInv
<1> DEFINE early == text.early \/ e.asked < text.prompt
<1>10. early = FALSE
  <2>1. e.asked \in Nat
    BY <1>5, ValuesOfTurns
  <2> QED BY <1>5, <1>6, <2>1
<1>11. IF e.kind = "stop"
       THEN /\ texts' = texts \cup {[prompt |-> text.prompt, early |-> early]}
            /\ text' = V2!NoText /\ jobsV2' = T /\ UNCHANGED <<queue, seenV2>>
       ELSE /\ V2!NextAfter([text EXCEPT !.early = early], T)
            /\ UNCHANGED texts
  BY <1>3, Zenon DEF V2!TextGoesOn
<1> HIDE DEF early, T, e, h
<1>12. CASE e.kind = "stop"
  <2> DEFINE x == [prompt |-> text.prompt, early |-> FALSE]
  <2>1. /\ texts' = texts \cup {x}
        /\ text' = V2!NoText /\ jobsV2' = T /\ UNCHANGED <<queue, seenV2>>
    BY <1>10, <1>11, <1>12
  <2>2. x \in [prompt : Nat, early : BOOLEAN] /\ ~x.early /\ x.prompt = text.prompt
    BY <1>6
  <2> HIDE DEF x
  <2>3. text.prompt # 0 => ~promptsV2[text.prompt].active /\ ~promptsV2[text.prompt].overlaps
    <3>1. ASSUME text.prompt # 0
          PROVE  ~promptsV2[text.prompt].active /\ ~promptsV2[text.prompt].overlaps
      <4>1. text.prompt \in 1 .. Len(promptsV2)
        BY <1>2, <1>6, <3>1
      <4> QED BY <1>5, <1>12, <3>1, <4>1 DEF EntryFits
    <3> QED BY <3>1
  <2>4. TextsFit(texts', promptsV2)
    BY <1>2, <1>6, <2>1, <2>2, <2>3 DEF TextsFit
  <2>5. texts' \in SUBSET [prompt : Nat, early : BOOLEAN]
    BY <2>1, <2>2, TurnsTyped
  <2>6. /\ V2!NoText \in [on : BOOLEAN, prompt : Nat, early : BOOLEAN] /\ ~V2!NoText.on
        /\ text \in [on : BOOLEAN, prompt : Nat, early : BOOLEAN]
    BY <1>6 DEF V2!NoText, TextTypes
  <2>7. TurnsOK(T, queue, promptsV2, V2!NoText)
    BY <1>3, <1>4, <2>6, TurnsTyped, TurnsTextGone
  <2>8. V2!TypeOK'
    BY <1>1, <1>3, <2>1, <2>5, <2>6, TurnsTyped, TurnTypesNext
  <2>9. stage # "over" /\ ~closedV2 => Order'
    BY <1>1, <1>8, <2>1 DEF TurnsInv, Order
  <2> QED BY <1>1, <1>2, <1>7, <2>1, <2>4, <2>6, <2>7, <2>8, <2>9 DEF TurnsInv
<1>13. CASE e.kind # "stop"
  <2>1. [text EXCEPT !.early = early] = text
    BY <1>6, <1>10 DEF TextTypes
  <2>2. V2!NextAfter(text, T) /\ UNCHANGED texts
    BY <1>11, <1>13, <2>1
  <2> QED BY <1>1, <1>3, <1>4, <1>5, <1>6, <1>7, <1>8, <1>9, <2>2, NextAfterKeeps
<1> QED BY <1>12, <1>13

LEMMA TurnNextKeeps == ASSUME TurnsInv, V2!NextUpdate PROVE TurnsInv'
<1>1. /\ stage \in {"attached", "over"} /\ V2!TakeNext(V2!NoText, 0, jobsV2)
      /\ UNCHANGED <<stage, wireV2, promptsV2, closedV2, updatesV2, dueV2, texts>>
  BY DEF V2!NextUpdate
<1>2. V2!NoText \in TextTypes /\ ~V2!NoText.on
  BY DEF V2!NoText, TextTypes
<1>3. /\ jobsV2 \in Seq(TurnJobs) /\ TurnsOK(jobsV2, queue, promptsV2, text)
      /\ StagesOK(stage, wireV2, jobsV2, promptsV2, closedV2)
      /\ text \in TextTypes /\ 0 \in 0 .. Len(queue.values)
  <2>1. Len(queue.values) \in Nat
    <3>1. queue.values \in Seq(V2!Entries)
      BY TurnsTyped
    <3> QED BY <3>1
  <2> QED BY <2>1, TurnsTyped DEF TurnsInv, TextTypes
<1> QED BY <1>1, <1>2, <1>3, TakeNextKeeps

LEMMA TurnReadTextKeeps == ASSUME TurnsInv, V2!ReadText PROVE TurnsInv'
<1> DEFINE t == [on |-> TRUE, prompt |-> Len(promptsV2), early |-> FALSE]
<1>1. /\ stage \in {"attached", "over"} /\ ~text.on /\ V2!NextAfter(t, jobsV2)
      /\ UNCHANGED <<stage, wireV2, promptsV2, closedV2, updatesV2, dueV2, texts>>
  BY DEF V2!ReadText
<1>2. /\ jobsV2 \in Seq(TurnJobs) /\ TurnsOK(jobsV2, queue, promptsV2, text)
      /\ StagesOK(stage, wireV2, jobsV2, promptsV2, closedV2)
      /\ Len(promptsV2) \in Nat
  BY TurnsTyped DEF TurnsInv
<1>3. t \in TextTypes /\ t.on /\ ~t.early /\ t.prompt = Len(promptsV2)
  BY <1>2 DEF TextTypes
<1> HIDE DEF t
<1>4. \A i \in 1 .. Len(jobsV2) : jobsV2[i].at # "text"
  BY <1>1, <1>2 DEF TurnsOK, JobsFit, JobFits
<1>5. \A i \in 1 .. Len(queue.waiters) : queue.waiters[i] # "text"
  BY <1>1, <1>2 DEF TurnsOK, TextFits
<1>6. TurnsOK(jobsV2, queue, promptsV2, t)
  <2>1. JobsFit(jobsV2, promptsV2, queue.next, t)
    BY <1>2, <1>4 DEF TurnsOK, JobsFit, JobFits
  <2>2. TextFits(t, queue.waiters, promptsV2)
    BY <1>2, <1>3, <1>5 DEF TextFits
  <2> QED BY <1>2, <2>1, <2>2 DEF TurnsOK
<1> QED BY <1>1, <1>2, <1>3, <1>4, <1>5, <1>6, NextAfterKeeps

(* beginPrompt: the prompts afterwards, when those of a were active.       *)
Begun(ps, qs, a, next) ==
    /\ qs \in Seq(TurnPrompts) /\ Len(qs) = Len(ps) + 1
    /\ \A p \in 1 .. Len(ps) :
           /\ qs[p].cursor = ps[p].cursor /\ qs[p].active = ps[p].active
           /\ qs[p].overlaps <=> ps[p].overlaps \/ p \in a
           /\ qs[p].beside = IF p \in a THEN ps[p].beside \cup {Len(ps) + 1} ELSE ps[p].beside
    /\ qs[Len(ps) + 1].cursor = next
    /\ qs[Len(ps) + 1].overlaps <=> a # {}
    /\ qs[Len(ps) + 1].beside = a

LEMMA BegunIs ==
    ASSUME TurnsInv, V2!Prompt
    PROVE  Begun(promptsV2, promptsV2', {p \in 1 .. Len(promptsV2) : promptsV2[p].active},
                 queue.next)
<1> DEFINE n == Len(promptsV2) + 1
           a == {p \in 1 .. Len(promptsV2) : promptsV2[p].active}
           x == [cursor |-> queue.next, active |-> TRUE, overlaps |-> FALSE,
                 refused |-> FALSE, beside |-> a]
           b == Append(promptsV2, x)
           f(p) == [b[p] EXCEPT !.overlaps = @ \/ V2!Overlaps(a, p),
                                !.beside = IF p \in a THEN @ \cup {n} ELSE @]
<1>1. promptsV2' = [p \in 1 .. n |-> f(p)]
  BY DEF V2!Prompt, V2!Numbers
<1>2. promptsV2 \in Seq(TurnPrompts) /\ Len(promptsV2) \in Nat /\ n \in Nat /\ queue.next \in Nat
  BY TurnsTyped
<1>3. a \in SUBSET (1 .. Len(promptsV2)) /\ a \in SUBSET Nat
  BY <1>2
<1>4. /\ x \in TurnPrompts /\ x.cursor = queue.next /\ x.beside = a /\ x.overlaps = FALSE
  BY <1>2, <1>3 DEF TurnPrompts
<1>5. \A p : V2!Overlaps(a, p) <=> p \in a \/ (p = n /\ a # {})
  BY DEF V2!Overlaps
<1> HIDE DEF x, a
<1>6. /\ b \in Seq(TurnPrompts) /\ b[n] = x /\ x \in TurnPrompts
      /\ \A p \in 1 .. Len(promptsV2) : b[p] = promptsV2[p] /\ promptsV2[p] \in TurnPrompts
      /\ \A p \in 1 .. n : p = n \/ p \in 1 .. Len(promptsV2)
  BY <1>2, <1>4, AppendFacts
<1>7. \A p \in 1 .. n : b[p] \in TurnPrompts
  BY <1>6
<1> HIDE DEF b
<1>8. \A p \in 1 .. n :
         /\ f(p) \in TurnPrompts /\ f(p).cursor = b[p].cursor /\ f(p).active = b[p].active
         /\ f(p).overlaps <=> b[p].overlaps \/ V2!Overlaps(a, p)
         /\ f(p).beside = IF p \in a THEN b[p].beside \cup {n} ELSE b[p].beside
  <2> TAKE p \in 1 .. n
  <2> DEFINE o == b[p].overlaps \/ V2!Overlaps(a, p)
             s == IF p \in a THEN b[p].beside \cup {n} ELSE b[p].beside
             y == b[p]
  <2>1. y \in TurnPrompts
    BY <1>7
  <2>2. o \in BOOLEAN
    BY <2>1, <1>5 DEF TurnPrompts
  <2>3. s \in SUBSET Nat
    BY <1>2, <2>1 DEF TurnPrompts
  <2>4. f(p) = [y EXCEPT !.overlaps = o, !.beside = s]
    BY <2>1 DEF TurnPrompts
  <2> HIDE DEF o, s, y, f
  <2>5. /\ f(p) \in TurnPrompts /\ f(p).cursor = y.cursor /\ f(p).active = y.active
        /\ f(p).overlaps = o /\ f(p).beside = s
    BY <2>1, <2>2, <2>3, <2>4 DEF TurnPrompts
  <2> QED BY <2>5 DEF o, s, y
<1> HIDE DEF f
<1>9. promptsV2' \in Seq(TurnPrompts) /\ Len(promptsV2') = n /\ \A p \in 1 .. n : promptsV2'[p] = f(p)
  <2>1. promptsV2' \in [1 .. n -> TurnPrompts]
    BY <1>1, <1>8
  <2> QED BY <1>1, <1>2, <2>1, FunctionIsSeq
<1>10. n \in 1 .. n /\ n \notin a /\ \A p \in 1 .. Len(promptsV2) : p \in 1 .. n /\ p # n
  BY <1>2, <1>3
<1>11. \A p \in 1 .. Len(promptsV2) :
          /\ promptsV2'[p].cursor = promptsV2[p].cursor
          /\ promptsV2'[p].active = promptsV2[p].active
          /\ promptsV2'[p].overlaps <=> promptsV2[p].overlaps \/ p \in a
          /\ promptsV2'[p].beside
                = IF p \in a THEN promptsV2[p].beside \cup {n} ELSE promptsV2[p].beside
  <2> TAKE p \in 1 .. Len(promptsV2)
  <2>1. p \in 1 .. n /\ p # n /\ b[p] = promptsV2[p] /\ promptsV2'[p] = f(p)
    BY <1>6, <1>9, <1>10
  <2> QED BY <1>5, <1>8, <2>1
<1>12. /\ promptsV2'[n].cursor = queue.next
       /\ promptsV2'[n].overlaps <=> a # {}
       /\ promptsV2'[n].beside = a
  <2>1. promptsV2'[n] = f(n) /\ b[n] = x /\ n \in 1 .. n /\ n \notin a
    BY <1>6, <1>9, <1>10
  <2>2. /\ f(n).cursor = x.cursor /\ f(n).beside = x.beside
        /\ f(n).overlaps <=> x.overlaps \/ V2!Overlaps(a, n)
    BY <1>8, <2>1
  <2> QED BY <1>4, <1>5, <2>1, <2>2
<1> QED BY <1>9, <1>11, <1>12 DEF Begun, a

(* What was there fits the prompts afterwards.                             *)
LEMMA BegunFits ==
    ASSUME NEW ps \in Seq(TurnPrompts), NEW qs, NEW next \in Nat, NEW a, Begun(ps, qs, a, next),
           a = {p \in 1 .. Len(ps) : ps[p].active}, PromptsFit(ps, next)
    PROVE  GoesOn(ps, qs, next) /\ PromptsFit(qs, next)
<1>1. /\ Len(ps) \in Nat /\ qs \in Seq(TurnPrompts) /\ Len(qs) = Len(ps) + 1
      /\ \A p \in 1 .. Len(qs) : p \in 1 .. Len(ps) \/ p = Len(ps) + 1
  BY DEF Begun
<1>2. GoesOn(ps, qs, next)
  <2>1. Len(ps) <= Len(qs)
    BY <1>1
  <2>2. ASSUME NEW p \in 1 .. Len(ps)
        PROVE  /\ qs[p].cursor = ps[p].cursor /\ (qs[p].active => ps[p].active)
               /\ ~ps[p].active => qs[p].overlaps = ps[p].overlaps
    <3>1. ps[p] \in TurnPrompts /\ qs[p] \in TurnPrompts
      BY <1>1, ElementOfSeq
    <3>2. ps[p].overlaps \in BOOLEAN /\ qs[p].overlaps \in BOOLEAN
      BY <3>1 DEF TurnPrompts
    <3>3. /\ qs[p].cursor = ps[p].cursor /\ qs[p].active = ps[p].active
          /\ qs[p].overlaps <=> ps[p].overlaps \/ p \in a
      BY DEF Begun
    <3>4. ~ps[p].active => p \notin a
      OBVIOUS
    <3> QED BY <3>2, <3>3, <3>4
  <2>3. \A p \in Len(ps) + 1 .. Len(qs) : qs[p].cursor >= next
    <3>1. \A p \in Len(ps) + 1 .. Len(qs) : p = Len(ps) + 1
      BY <1>1
    <3>2. qs[Len(ps) + 1].cursor = next
      BY DEF Begun
    <3> QED BY <3>1, <3>2
  <2> QED BY <2>1, <2>2, <2>3 DEF GoesOn
<1>3. \A p \in 1 .. Len(qs) : qs[p].cursor <= next
  <2>1. qs[Len(ps) + 1].cursor = next
    BY DEF Begun
  <2>2. \A p \in 1 .. Len(ps) : qs[p].cursor <= next
    BY DEF Begun, PromptsFit
  <2> QED BY <1>1, <2>1, <2>2
<1>4. ASSUME NEW p \in 1 .. Len(qs) PROVE qs[p].overlaps <=> qs[p].beside # {}
  <2>1. CASE p = Len(ps) + 1
    BY <2>1 DEF Begun
  <2>2. CASE p \in 1 .. Len(ps)
    <3>1. ps[p].overlaps <=> ps[p].beside # {}
      BY <2>2 DEF PromptsFit
    <3>2. /\ qs[p].overlaps <=> ps[p].overlaps \/ p \in a
          /\ p \in a => qs[p].beside = ps[p].beside \cup {Len(ps) + 1}
          /\ p \notin a => qs[p].beside = ps[p].beside
      BY <2>2 DEF Begun
    <3>3. CASE p \in a
      BY <3>2, <3>3
    <3>4. CASE p \notin a
      BY <3>1, <3>2, <3>4
    <3> QED BY <3>3, <3>4
  <2> QED BY <1>1, <2>1, <2>2
<1> QED BY <1>2, <1>3, <1>4 DEF PromptsFit

LEMMA ClearedFits ==
    ASSUME NEW values \in Seq(V2!Entries), NEW ps, NEW next, ValuesFit(values, ps, next)
    PROVE  ValuesFit(V2!ClearErrors(values), ps, next)
<1> DEFINE S == {e \in V2!Entries : EntryFits(e, ps, next)}
           c == Filter(values, V2!Values)
<1>1. values \in Seq(S)
  <2>1. \A i \in 1 .. Len(values) : values[i] \in S
    BY DEF ValuesFit
  <2> HIDE DEF S
  <2> QED BY <2>1, SeqDef, Len(values) \in Nat, values \in [1 .. Len(values) -> S]
<1>2. c \in Seq(S)
  <2> HIDE DEF S
  <2> QED BY <1>1, FilterType
<1>3. V2!ClearErrors(values) = c
  BY FilterOfTurns DEF V2!ClearErrors
<1> HIDE DEF c
<1>4. \A i \in 1 .. Len(c) : c[i] \in S
  BY <1>2
<1> QED BY <1>3, <1>4 DEF ValuesFit

(* Only readers of another kind still wait. *)
LEMMA OthersWait ==
    ASSUME NEW w \in Seq({"text", "next"})
    PROVE  /\ V2!Filter(w, {"next"}) \in Seq({"text", "next"})
           /\ \A i \in 1 .. Len(V2!Filter(w, {"next"})) : V2!Filter(w, {"next"})[i] # "text"
           /\ w = <<>> => V2!Filter(w, {"next"}) = <<>>
<1> DEFINE f == Filter(w, {"next"})
<1>1. V2!Filter(w, {"next"}) = f
  BY FilterOfTurns
<1>2. f \in Seq({"text", "next"}) /\ f \in Seq({"next"}) /\ (w = <<>> => f = <<>>)
  BY FilterType, FilterEmpty
<1> HIDE DEF f
<1>3. \A i \in 1 .. Len(f) : f[i] # "text"
  <2>1. \A i \in 1 .. Len(f) : f[i] \in {"next"}
    BY <1>2
  <2> QED BY <2>1
<1> QED BY <1>1, <1>2, <1>3

LEMMA TurnPromptKeeps == ASSUME TurnsInv, V2!Prompt PROVE TurnsInv'
<1> DEFINE a == {p \in 1 .. Len(promptsV2) : promptsV2[p].active}
           aborts == V2!Contains(queue.waiters, "text") /\ V2!Overlaps(a, text.prompt)
           v == V2!ClearErrors(queue.values)
           w == IF aborts THEN V2!Filter(queue.waiters, {"next"}) ELSE queue.waiters
<1>1. /\ stage \in {"attached", "over"} /\ ~closedV2
      /\ queue' = [queue EXCEPT !.values = V2!ClearErrors(@),
                      !.waiters = IF aborts THEN V2!Filter(@, {"next"}) ELSE @]
      /\ text' = IF aborts THEN V2!NoText ELSE text
      /\ UNCHANGED <<stage, wireV2, jobsV2, closedV2, updatesV2, dueV2, seenV2, texts>>
  BY DEF V2!Prompt, V2!Numbers
<1>2. /\ queue \in TurnQueues /\ queue.values \in Seq(V2!Entries) /\ queue.next \in Nat
      /\ queue.waiters \in Seq({"text", "next"}) /\ promptsV2 \in Seq(TurnPrompts)
      /\ text \in [on : BOOLEAN, prompt : Nat, early : BOOLEAN]
      /\ jobsV2 \in Seq(TurnJobs) /\ Len(promptsV2) \in Nat
      /\ texts \in SUBSET [prompt : Nat, early : BOOLEAN]
  BY TurnsTyped
<1>3. /\ StagesOK(stage, wireV2, jobsV2, promptsV2, closedV2)
      /\ ReadersOK(queue, stage, closedV2) /\ TextsFit(texts, promptsV2)
      /\ PromptsFit(promptsV2, queue.next) /\ ValuesFit(queue.values, promptsV2, queue.next)
      /\ JobsFit(jobsV2, promptsV2, queue.next, text)
      /\ OneText(jobsV2, queue.waiters) /\ TextFits(text, queue.waiters, promptsV2)
  BY DEF TurnsInv, TurnsOK
<1>4. Begun(promptsV2, promptsV2', a, queue.next)
  BY BegunIs
<1>5. /\ promptsV2' \in Seq(TurnPrompts) /\ Len(promptsV2') = Len(promptsV2) + 1
      /\ GoesOn(promptsV2, promptsV2', queue.next) /\ PromptsFit(promptsV2', queue.next)
  <2>1. GoesOn(promptsV2, promptsV2', queue.next) /\ PromptsFit(promptsV2', queue.next)
    BY <1>2, <1>3, <1>4, BegunFits
  <2> QED BY <1>4, <2>1 DEF Begun
<1>6. \A p \in 1 .. Len(promptsV2) :
         promptsV2'[p].overlaps <=> promptsV2[p].overlaps \/ p \in a
  BY <1>4 DEF Begun
<1>7. \A p : V2!Overlaps(a, p) <=> p \in a \/ (p = Len(promptsV2) + 1 /\ a # {})
  BY DEF V2!Overlaps
<1> HIDE DEF a
<1>8. /\ V2!Filter(queue.waiters, {"next"}) \in Seq({"text", "next"})
      /\ \A i \in 1 .. Len(V2!Filter(queue.waiters, {"next"})) :
            V2!Filter(queue.waiters, {"next"})[i] # "text"
      /\ queue.waiters = <<>> => V2!Filter(queue.waiters, {"next"}) = <<>>
  BY <1>2, OthersWait
<1>9. /\ v \in Seq(V2!Entries) /\ Queued(v) = Queued(queue.values)
      /\ v = Filter(queue.values, V2!Values)
  BY <1>2, QueuedCleared
<1>10. ValuesFit(v, promptsV2', queue.next)
  <2>1. ValuesFit(queue.values, promptsV2', queue.next)
    BY <1>2, <1>3, <1>5, ValuesLater
  <2> QED BY <1>2, <2>1, ClearedFits
<1>11. w \in Seq({"text", "next"}) /\ (queue.waiters = <<>> => w = <<>>)
       /\ queue' = [queue EXCEPT !.values = v, !.waiters = w]
  BY <1>1, <1>2, <1>8
<1>12. JobsFit(jobsV2, promptsV2', queue.next, text)
  BY <1>2, <1>3, <1>5, JobsLater
<1>13. V2!Contains(queue.waiters, "text") <=> \E i \in 1 .. Len(queue.waiters) : queue.waiters[i] = "text"
  BY HasText
<1>14. /\ JobsFit(jobsV2, promptsV2', queue.next, text') /\ OneText(jobsV2, w)
       /\ TextFits(text', w, promptsV2') /\ (text'.on => text.on)
       /\ text' \in [on : BOOLEAN, prompt : Nat, early : BOOLEAN]
  <2>1. CASE aborts
    <3>1. w = V2!Filter(queue.waiters, {"next"}) /\ text' = V2!NoText
      BY <1>1, <2>1
    <3>2. \A i \in 1 .. Len(w) : w[i] # "text"
      BY <1>8, <3>1
    <3>3. \A i \in 1 .. Len(jobsV2) : jobsV2[i].at # "text"
      BY <1>3, <1>13, <2>1 DEF OneText
    <3> HIDE DEF w, v, aborts
    <3>4. JobsFit(jobsV2, promptsV2', queue.next, V2!NoText)
      BY <1>12, <3>3 DEF JobsFit, JobFits
    <3>5. OneText(jobsV2, w)
      BY <3>2, <3>3 DEF OneText
    <3>6. TextFits(V2!NoText, w, promptsV2')
      BY <1>2, <1>5, <3>2 DEF TextFits, V2!NoText
    <3>7. /\ V2!NoText \in [on : BOOLEAN, prompt : Nat, early : BOOLEAN] /\ ~V2!NoText.on
      BY DEF V2!NoText
    <3> QED BY <3>1, <3>4, <3>5, <3>6, <3>7
  <2>2. CASE ~aborts
    <3>1. w = queue.waiters /\ text' = text
      BY <1>1, <2>2
    <3>2. ASSUME NEW i \in 1 .. Len(queue.waiters), queue.waiters[i] = "text"
          PROVE  text.on /\ (text.prompt # 0 => ~promptsV2'[text.prompt].overlaps)
      <4>1. text.on /\ (text.prompt # 0 => ~promptsV2[text.prompt].overlaps)
        BY <1>3, <3>2 DEF TextFits
      <4>2. text.prompt \notin a
        BY <1>7, <1>13, <2>2, <3>2
      <4>3. text.prompt # 0 => text.prompt \in 1 .. Len(promptsV2)
        BY <1>2, <1>3 DEF TextFits
      <4> QED BY <1>6, <4>1, <4>2, <4>3
    <3>3. TextFits(text, queue.waiters, promptsV2')
      BY <1>2, <1>3, <1>5, <3>2 DEF TextFits
    <3> QED BY <1>2, <1>3, <1>12, <3>1, <3>3
  <2> QED BY <2>1, <2>2
<1> HIDE DEF w, v, aborts
<1>15. /\ queue' \in TurnQueues /\ queue'.values = v /\ queue'.waiters = w
       /\ queue'.next = queue.next /\ queue'.failed = queue.failed
  BY <1>2, <1>9, <1>11 DEF TurnQueues
<1>16. TurnsOK(jobsV2, queue', promptsV2', text')
  BY <1>5, <1>10, <1>14, <1>15 DEF TurnsOK
<1>17. ReadersOK(queue', stage, closedV2)
  <2>1. queue.values = <<>> => v = <<>>
    BY <1>9, FilterEmpty
  <2> QED BY <1>3, <1>11, <1>15, <2>1 DEF ReadersOK
<1>18. StagesOK(stage, wireV2, jobsV2, promptsV2', closedV2)
  <2>1. \A p \in 1 .. Len(promptsV2) : p \in 1 .. Len(promptsV2')
    BY <1>2, <1>5
  <2> QED BY <1>1, <1>3, <2>1 DEF StagesOK
<1>19. TextsFit(texts, promptsV2')
  BY <1>2, <1>3, <1>5, TextsLater
<1>20. V2!TypeOK'
  BY <1>1, <1>5, <1>14, <1>15, TurnsTyped, TurnTypesNext
<1>21. stage # "over" /\ ~closedV2 => Order'
  BY <1>1, <1>9, <1>15 DEF TurnsInv, Order
<1> QED BY <1>1, <1>14, <1>16, <1>17, <1>18, <1>19, <1>20, <1>21 DEF TurnsInv

(* Every step preserves it. *)
LEMMA TurnsStep == TurnsInv /\ [V2!Next]_(V2!vars) => TurnsInv'
<1> SUFFICES ASSUME TurnsInv, [V2!Next]_(V2!vars) PROVE TurnsInv'
  OBVIOUS
<1>1. CASE V2!AgentStarts \/ V2!Read \/ V2!Adopt \/ V2!Attach \/ V2!Route \/ V2!CancelPrompt
  BY <1>1, TurnStartsKeeps, TurnReadKeeps, TurnAdoptKeeps, TurnAttachKeeps, TurnRouteKeeps,
     TurnCancelKeeps
<1>2. CASE \E idle \in BOOLEAN : V2!AgentUpdates(idle)
  BY <1>2, TurnUpdatesKeeps
<1>3. CASE \E p \in V2!Numbers : V2!AgentRefuses(p)
  BY <1>3, TurnRefusesKeeps DEF V2!Numbers
<1>4. CASE V2!TextGoesOn \/ V2!NewSession \/ V2!Prompt \/ V2!NextUpdate \/ V2!ReadText
           \/ V2!Dispose \/ V2!Close
  BY <1>4, TurnTextKeeps, TurnNewSessionKeeps, TurnPromptKeeps, TurnNextKeeps,
     TurnReadTextKeeps, TurnDisposeKeeps, TurnCloseKeeps
<1>5. CASE UNCHANGED V2!vars
  <2>1. UNCHANGED <<stage, wireV2, jobsV2, queue, promptsV2, text, closedV2, updatesV2,
                    dueV2, seenV2, texts>>
    BY <1>5 DEF V2!vars
  <2>2. V2!TypeOK'
    BY <2>1, TurnsTyped, TurnTypesNext
  <2> QED BY <2>1, <2>2 DEF TurnsInv, Order
<1> QED BY <1>1, <1>2, <1>3, <1>4, <1>5, Zenon DEF V2!Next

THEOREM TurnsInvariance == V2!Spec => []TurnsInv
BY TurnsInit, TurnsStep, PTL DEF V2!Spec

(* The variables keep their types, for any number of prompts and updates,  *)
(* whatever the agent sends and whatever the user calls.                   *)
THEOREM SessionV2TypeCorrect == V2!Spec => []V2!TypeOK
<1>1. TurnsInv => V2!TypeOK
  BY DEF TurnsInv
<1> QED BY <1>1, TurnsInvariance, PTL

(* SessionUpdateRouter and AsyncQueue of v2/acp.ts: what the agent sends   *)
(* from the session's response on is given, skipped, queued or with the    *)
(* guard of initialize, in the order of the wire, and nothing is missed    *)
(* between the response and the attaching of the session.                  *)
THEOREM SessionV2KeepsOrder == V2!Spec => []InOrderOfTheWireV2
<1>1. V2!InGuard = Filter(jobsV2, Routed)
  BY FilterOfTurns DEF V2!InGuard, Routed
<1>2. [i \in 1 .. Len(V2!InGuard) |-> V2!InGuard[i].entry.number] = Guarded(jobsV2)
  BY <1>1 DEF Guarded, JobNumbers
<1>3. V2!Updates(queue.values) = Queued(queue.values)
  BY UpdatesAre
<1>4. ASSUME TurnsInv, stage = "attached", ~closedV2
      PROVE  seenV2 \o V2!Updates(queue.values)
                \o [i \in 1 .. Len(V2!InGuard) |-> V2!InGuard[i].entry.number] = dueV2
  <2>1. seenV2 \o Queued(queue.values) \o Guarded(jobsV2) = dueV2
    BY <1>4 DEF TurnsInv, Order
  <2> QED BY <1>2, <1>3, <2>1
<1>5. TurnsInv => InOrderOfTheWireV2
  BY <1>4 DEF InOrderOfTheWireV2, V2!InOrderOfTheWire
<1> QED BY <1>5, TurnsInvariance, PTL

(* ActiveSession.readText of v2/acp.ts: it returns with a stop that came   *)
(* after its prompt, and only when no other prompt was active with that    *)
(* one, with any number of prompts that overlap, are refused or end.       *)
THEOREM TextsAreOfOneTurn == V2!Spec => []TextIsOfOneTurn
<1>1. ASSUME TurnsInv, NEW t \in texts
      PROVE  ~t.early /\ (t.prompt # 0 => promptsV2[t.prompt].beside = {})
  <2>1. /\ ~t.early /\ t.prompt <= Len(promptsV2)
        /\ t.prompt # 0 => ~promptsV2[t.prompt].overlaps
    BY <1>1 DEF TurnsInv, TextsFit
  <2>2. t.prompt \in Nat /\ Len(promptsV2) \in Nat
    BY <1>1, TurnsTyped
  <2>3. ASSUME t.prompt # 0 PROVE promptsV2[t.prompt].beside = {}
    <3>1. t.prompt \in 1 .. Len(promptsV2)
      BY <2>1, <2>2, <2>3
    <3> QED BY <1>1, <2>1, <2>3, <3>1 DEF TurnsInv, TurnsOK, PromptsFit
  <2> QED BY <2>1, <2>3
<1>2. TurnsInv => TextIsOfOneTurn
  BY <1>1 DEF TextIsOfOneTurn, V2!TextIsOfOneTurn
<1> QED BY <1>2, TurnsInvariance, PTL

(* AsyncQueue of v2/acp.ts: no reader waits for what is there already, or  *)
(* when the session is disposed of or the connection closed, even before   *)
(* it was attached, and no readText() of a prompt that overlaps.           *)
THEOREM ReadersAreServedV2 == V2!Spec => []NoReaderWaitsV2
<1>1. ASSUME TurnsInv, queue.waiters # <<>>
      PROVE  /\ queue.values = <<>>
             /\ ~queue.failed /\ stage = "attached" /\ ~closedV2
             /\ V2!Contains(queue.waiters, "text") /\ text.prompt # 0 =>
                   ~promptsV2[text.prompt].overlaps
  <2>1. /\ queue.values = <<>> /\ ~queue.failed /\ stage = "attached" /\ ~closedV2
    BY <1>1 DEF TurnsInv, ReadersOK
  <2>2. ASSUME V2!Contains(queue.waiters, "text"), text.prompt # 0
        PROVE  ~promptsV2[text.prompt].overlaps
    BY <1>1, <2>2, HasText DEF TurnsInv, TurnsOK, TextFits
  <2> QED BY <2>1, <2>2
<1>2. TurnsInv => NoReaderWaitsV2
  BY <1>1 DEF NoReaderWaitsV2, V2!NoReaderWaits
<1> QED BY <1>2, TurnsInvariance, PTL

-----------------------------------------------------------------------------
(* InitializationV2: what waits for initialize.                            *)

(* The bounds are numbers. *)
LEMMA BoundsAreNumbers == /\ {MaxSessions, MaxPrompts, MaxUpdates, MaxWaiters} \subseteq Nat
                          /\ MaxItems \in Nat /\ {MaxUpdatesV2, MaxWaitersV2} \subseteq Nat
BY ApplicationBoundsAssumption

JobRecords ==
    [at : {"settled", "guard", "pass"}, dir : Initialization!Directions,
     item : 1 .. MaxItems, ok : BOOLEAN]

WaitingRecords == [dir : Initialization!Directions, item : 1 .. MaxItems]

(* How far a microtask has come: one of a call starts where one of a       *)
(* message has been through the guard.                                     *)
Rank(j) ==
    CASE j.at = "settled" -> (IF j.dir = "in" THEN 0 ELSE 1)
      [] j.at = "guard" -> 1
      [] OTHER -> 2

(* Nothing has begun to pass before initialize is over, and then nothing   *)
(* waits any more.                                                         *)
Stages ==
    /\ phase \in {"uninitialized", "initializing"} =>
           jobs = <<>> /\ \A d \in Initialization!Directions : passed[d] = <<>>
    /\ phase # "initializing" => waiting = <<>>
    /\ phase # "initialized" =>
           /\ \A i \in 1 .. Len(jobs) : ~jobs[i].ok
           /\ \A d \in Initialization!Directions : passed[d] = <<>>

(* Items are numbered as they come.                                        *)
Numbered ==
    /\ \A d \in Initialization!Directions : \A n \in waited[d] : n <= count[d]
    /\ \A i \in 1 .. Len(waiting) : waiting[i].item <= count[waiting[i].dir]
    /\ \A i, j \in 1 .. Len(waiting) :
           i < j /\ waiting[i].dir = waiting[j].dir => waiting[i].item < waiting[j].item

Waited(j) == j.item \in waited[j.dir]

(* Of two microtasks, the one behind is behind in its order or one ahead   *)
(* of it: which is how those that waited stay in their order.              *)
Follows(j, k) ==
    \/ Rank(k) = Rank(j) /\ j.item < k.item
    \/ Rank(k) = Rank(j) + 1 /\ k.item < j.item

JobsInOrder ==
    \A i, j \in 1 .. Len(jobs) :
        i < j /\ jobs[i].dir = jobs[j].dir /\ Waited(jobs[i]) /\ Waited(jobs[j])
            => Follows(jobs[i], jobs[j])

PassedInOrder ==
    \A d \in Initialization!Directions :
        /\ \A i, j \in 1 .. Len(passed[d]) :
               i < j /\ {passed[d][i], passed[d][j]} \subseteq waited[d]
                   => passed[d][i] < passed[d][j]
        /\ \A i \in 1 .. Len(passed[d]), j \in 1 .. Len(jobs) :
               passed[d][i] \in waited[d] /\ jobs[j].dir = d /\ Waited(jobs[j])
                   => passed[d][i] < jobs[j].item

(* What is on its way has arrived, or Waited could come to hold of it.     *)
Arrived ==
    /\ \A i \in 1 .. Len(jobs) : jobs[i].item <= count[jobs[i].dir]
    /\ \A d \in Initialization!Directions :
           \A i \in 1 .. Len(passed[d]) : passed[d][i] <= count[d]

(* The inductive invariant. *)
InitInv ==
    /\ Initialization!TypeOK
    /\ Stages
    /\ Numbered
    /\ JobsInOrder
    /\ PassedInOrder
    /\ Arrived

-----------------------------------------------------------------------------
(* The initial states satisfy it. *)
LEMMA InitializationInit == Initialization!Init => InitInv
<1> SUFFICES ASSUME Initialization!Init PROVE InitInv
  OBVIOUS
<1> USE DEF Initialization!Init
<1>1. <<>> \in Seq(JobRecords) /\ <<>> \in Seq(WaitingRecords) /\ <<>> \in Seq(1 .. MaxItems)
  BY EmptySeq
<1>2. Initialization!TypeOK
  <2>1. 0 \in 0 .. MaxItems
    BY BoundsAreNumbers
  <2> QED BY <1>1, <2>1 DEF Initialization!TypeOK, Initialization!JobsTypeOK, JobRecords, WaitingRecords
<1>3. Stages /\ Numbered
  BY DEF Stages, Numbered
<1>4. JobsInOrder /\ PassedInOrder /\ Arrived
  BY DEF JobsInOrder, PassedInOrder, Arrived
<1> QED BY <1>2, <1>3, <1>4 DEF InitInv

(* The types of what is in the sequences. *)
LEMMA ItemTypes ==
    ASSUME Initialization!TypeOK
    PROVE  /\ jobs \in Seq(JobRecords) /\ Len(jobs) \in Nat
           /\ waiting \in Seq(WaitingRecords) /\ Len(waiting) \in Nat
           /\ count \in [Initialization!Directions -> 0 .. MaxItems]
           /\ waited \in [Initialization!Directions -> SUBSET (1 .. MaxItems)]
           /\ passed \in [Initialization!Directions -> Seq(1 .. MaxItems)]
           /\ refused \in [Initialization!Directions -> SUBSET (1 .. MaxItems)]
<1>1. jobs \in Seq(JobRecords) /\ waiting \in Seq(WaitingRecords)
  BY DEF Initialization!TypeOK, Initialization!JobsTypeOK, JobRecords, WaitingRecords
<1>2. Len(jobs) \in Nat /\ Len(waiting) \in Nat
  BY <1>1, LenProperties
<1> QED BY <1>1, <1>2 DEF Initialization!TypeOK

LEMMA JobTypes ==
    ASSUME Initialization!TypeOK, NEW i \in 1 .. Len(jobs)
    PROVE  /\ jobs[i] \in JobRecords /\ jobs[i].dir \in Initialization!Directions
           /\ jobs[i].item \in 1 .. MaxItems /\ jobs[i].item \in Nat
<1>1. jobs[i] \in JobRecords
  BY ItemTypes, ElementOfSeq
<1> QED BY <1>1, BoundsAreNumbers DEF JobRecords

LEMMA WaitingTypes ==
    ASSUME Initialization!TypeOK, NEW i \in 1 .. Len(waiting)
    PROVE  /\ waiting[i] \in WaitingRecords /\ waiting[i].dir \in Initialization!Directions
           /\ waiting[i].item \in 1 .. MaxItems /\ waiting[i].item \in Nat
<1>1. waiting[i] \in WaitingRecords
  BY ItemTypes, ElementOfSeq
<1> QED BY <1>1, BoundsAreNumbers DEF WaitingRecords

LEMMA DirectionTypes ==
    ASSUME Initialization!TypeOK, NEW d \in Initialization!Directions
    PROVE  /\ count[d] \in 0 .. MaxItems /\ count[d] \in Nat
           /\ passed[d] \in Seq(1 .. MaxItems) /\ Len(passed[d]) \in Nat
           /\ \A i \in 1 .. Len(passed[d]) : passed[d][i] \in 1 .. MaxItems /\ passed[d][i] \in Nat
           /\ \A n \in waited[d] : n \in 1 .. MaxItems /\ n \in Nat
<1>1. /\ count[d] \in 0 .. MaxItems /\ passed[d] \in Seq(1 .. MaxItems)
      /\ waited[d] \in SUBSET (1 .. MaxItems)
  BY ItemTypes
<1>2. \A n \in 0 .. MaxItems : n \in Nat
  BY BoundsAreNumbers
<1>3. \A n \in 1 .. MaxItems : n \in Nat
  BY BoundsAreNumbers
<1>4. Len(passed[d]) \in Nat /\ \A i \in 1 .. Len(passed[d]) : passed[d][i] \in 1 .. MaxItems
  BY <1>1, ElementOfSeq, LenProperties
<1> QED BY <1>1, <1>2, <1>3, <1>4

(* What waits becomes microtasks, in its order. *)
LEMMA SettleJobs ==
    ASSUME Initialization!TypeOK, NEW ok \in BOOLEAN, Initialization!Settle(ok), jobs = <<>>
    PROVE  /\ jobs' \in Seq(JobRecords) /\ Len(jobs') = Len(waiting)
           /\ \A i \in 1 .. Len(jobs') :
                 /\ jobs'[i].at = "settled" /\ jobs'[i].ok = ok
                 /\ jobs'[i].dir = waiting[i].dir /\ jobs'[i].item = waiting[i].item
<1> DEFINE J == [i \in 1 .. Len(waiting) |-> Initialization!Job("settled", waiting[i], ok)]
<1>1. waiting \in Seq(WaitingRecords) /\ Len(waiting) \in Nat
  BY ItemTypes
<1>2. \A i \in 1 .. Len(waiting) : Initialization!Job("settled", waiting[i], ok) \in JobRecords
  BY WaitingTypes DEF Initialization!Job, JobRecords
<1>3. J \in Seq(JobRecords) /\ Len(J) = Len(waiting)
  BY <1>1, <1>2
<1>4. jobs' = J
  BY <1>3 DEF Initialization!Settle
<1>5. ASSUME NEW i \in 1 .. Len(waiting)
      PROVE  /\ J[i].at = "settled" /\ J[i].ok = ok
             /\ J[i].dir = waiting[i].dir /\ J[i].item = waiting[i].item
  <2>1. J[i] = Initialization!Job("settled", waiting[i], ok)
    OBVIOUS
  <2> HIDE DEF J
  <2>2. J[i].at = "settled" /\ J[i].dir = waiting[i].dir /\ J[i].item = waiting[i].item
    BY <2>1 DEF Initialization!Job
  <2>3. J[i].ok = ok
    BY <2>1 DEF Initialization!Job
  <2> QED BY <2>2, <2>3
<1> HIDE DEF J
<1> QED BY <1>3, <1>4, <1>5, Zenon

(* The barrier settles, and phase says how it did.                         *)
LEMMA SettleKeeps ==
    ASSUME InitInv, NEW ok \in BOOLEAN, Initialization!Settle(ok), UNCHANGED <<count, waited, passed>>,
           phase' \in {"initialized", "failed"}, ok => phase' = "initialized",
           phase = "initialized" => phase' = "initialized"
    PROVE  /\ waiting' \in Seq(WaitingRecords) /\ jobs' \in Seq(JobRecords)
           /\ Stages' /\ Numbered' /\ JobsInOrder' /\ PassedInOrder' /\ Arrived'
<1> USE DEF InitInv
<1>1. waiting' = <<>> /\ waiting' \in Seq(WaitingRecords)
  BY EmptySeq DEF Initialization!Settle
<1>2. Numbered'
  BY <1>1 DEF Numbered
<1>3. CASE waiting = <<>>
  <2>1. [i \in 1 .. Len(waiting) |-> Initialization!Job("settled", waiting[i], ok)] = <<>>
    BY <1>3
  <2>2. jobs' = jobs
    <3>1. jobs' = jobs \o <<>>
      BY <2>1 DEF Initialization!Settle
    <3>2. jobs \in Seq(JobRecords)
      BY ItemTypes
    <3> QED BY <3>1, <3>2
  <2>3. Stages'
    BY <1>1, <2>2 DEF Stages
  <2>4. JobsInOrder' /\ PassedInOrder' /\ Arrived'
    BY <2>2 DEF JobsInOrder, PassedInOrder, Arrived, Waited, Follows, Rank
  <2> QED BY <1>1, <1>2, <2>2, <2>3, <2>4, ItemTypes
<1>4. CASE waiting # <<>>
  <2>1. phase = "initializing" /\ jobs = <<>>
        /\ \A d \in Initialization!Directions : passed'[d] = <<>>
    BY <1>4 DEF Stages
  <2>2. jobs' \in Seq(JobRecords) /\ Len(jobs') = Len(waiting)
    BY <2>1, SettleJobs
  <2>3. /\ Len(waiting) \in Nat
        /\ \A i \in 1 .. Len(waiting) :
              waiting[i].dir \in Initialization!Directions /\ waiting[i].item \in 1 .. MaxItems
    BY ItemTypes, WaitingTypes
  <2>8. \A i \in 1 .. Len(jobs') :
           /\ jobs'[i].at = "settled" /\ jobs'[i].ok = ok
           /\ jobs'[i].dir = waiting[i].dir /\ jobs'[i].item = waiting[i].item
    BY <2>1, SettleJobs
  <2>4. Stages'
    <3>1. phase' # "initialized" => \A i \in 1 .. Len(jobs') : ~jobs'[i].ok
      BY <2>8
    <3> QED BY <1>1, <2>1, <3>1, Zenon DEF Stages
  <2>5. JobsInOrder'
    <3> SUFFICES ASSUME NEW i \in 1 .. Len(jobs'), NEW j \in 1 .. Len(jobs'), i < j,
                        jobs'[i].dir = jobs'[j].dir
                 PROVE  Follows(jobs'[i], jobs'[j])
      BY DEF JobsInOrder
    <3>1. waiting[i].item < waiting[j].item
      BY <2>2, <2>8 DEF Numbered
    <3>2. jobs'[i].item < jobs'[j].item
      BY <2>8, <3>1
    <3>3. Rank(jobs'[i]) = Rank(jobs'[j])
      BY <2>8 DEF Rank
    <3> QED BY <3>2, <3>3 DEF Follows
  <2>6. PassedInOrder'
    BY <2>1 DEF PassedInOrder
  <2>7. Arrived'
    BY <2>1, <2>2, <2>8 DEF Arrived, Numbered
  <2> QED BY <1>1, <1>2, <2>2, <2>4, <2>5, <2>6, <2>7
<1> QED BY <1>3, <1>4

(* The four parts that do not speak of a step that leaves the items alone. *)
LEMMA FailStateKeeps ==
    ASSUME InitInv, Initialization!FailState, UNCHANGED <<count, waited, passed>>
    PROVE  /\ phase' \in {"uninitialized", "initializing", "initialized", "failed"}
           /\ waiting' \in Seq(WaitingRecords) /\ jobs' \in Seq(JobRecords)
           /\ Stages' /\ Numbered' /\ JobsInOrder' /\ PassedInOrder' /\ Arrived'
<1>1. CASE Initialization!MayFail
  <2>1. phase' = "failed" /\ Initialization!Settle(FALSE)
    BY <1>1 DEF Initialization!FailState
  <2>2. phase # "initialized"
    BY <1>1 DEF Initialization!MayFail
  <2> QED BY <2>1, <2>2, SettleKeeps
<1>2. CASE ~Initialization!MayFail
  <2>1. UNCHANGED <<phase, jobs, waiting>>
    BY <1>2 DEF Initialization!FailState
  <2>2. phase' \in {"uninitialized", "initializing", "initialized", "failed"}
        /\ waiting' \in Seq(WaitingRecords) /\ jobs' \in Seq(JobRecords)
    BY <2>1, ItemTypes DEF InitInv, Initialization!TypeOK
  <2>3. Stages' /\ Numbered'
    BY <2>1 DEF InitInv, Stages, Numbered
  <2>4. JobsInOrder' /\ PassedInOrder' /\ Arrived'
    BY <2>1 DEF InitInv, JobsInOrder, PassedInOrder, Arrived, Waited, Follows, Rank
  <2> QED BY <2>2, <2>3, <2>4
<1> QED BY <1>1, <1>2

(* What reaches TypeOK beside the items. *)
LEMMA InitializationTypes ==
    ASSUME InitInv,
           role' \in {"agent", "client"},
           phase' \in {"uninitialized", "initializing", "initialized", "failed"},
           exchange' \in {"none", "handled", "answered", "sent", "rejected", "over"},
           waiting' \in Seq(WaitingRecords), jobs' \in Seq(JobRecords), initClosed' \in BOOLEAN,
           UNCHANGED <<count, waited, passed, refused>>
    PROVE  Initialization!TypeOK'
BY DEF InitInv, Initialization!TypeOK, Initialization!JobsTypeOK, JobRecords, WaitingRecords

(* The steps of initialize and of the connection move no item but through  *)
(* the barrier.                                                            *)
LEMMA ExchangeKeeps ==
    ASSUME InitInv, NEW ok \in BOOLEAN,
           \/ Initialization!ReceiveInitialize(ok) \/ Initialization!InitializeHandled(ok)
           \/ Initialization!ResponseWritten(ok) \/ Initialization!InitializeAnswered(ok)
           \/ Initialization!CallInitialize \/ Initialization!InitializeRejected
           \/ Initialization!ReceiveCancel \/ Initialization!Close
    PROVE  InitInv'
<1>1. /\ role' \in {"agent", "client"} /\ initClosed' \in BOOLEAN
      /\ exchange' \in {"none", "handled", "answered", "sent", "rejected", "over"}
      /\ UNCHANGED <<count, waited, passed, refused>>
  <2>1. role \in {"agent", "client"} /\ initClosed \in BOOLEAN
        /\ exchange \in {"none", "handled", "answered", "sent", "rejected", "over"}
    BY DEF InitInv, Initialization!TypeOK
  <2> QED BY <2>1 DEF Initialization!ReceiveInitialize, Initialization!InitializeHandled,
             Initialization!ResponseWritten, Initialization!InitializeAnswered,
             Initialization!CallInitialize, Initialization!InitializeRejected,
             Initialization!ReceiveCancel, Initialization!Close, Initialization!items
<1>2. \/ Initialization!FailState
      \/ Initialization!CompleteState
      \/ UNCHANGED <<phase, jobs, waiting>>
      \/ phase = "uninitialized" /\ phase' = "initializing" /\ UNCHANGED <<jobs, waiting>>
  BY Zenon DEF Initialization!ReceiveInitialize, Initialization!InitializeHandled,
             Initialization!ResponseWritten, Initialization!InitializeAnswered,
             Initialization!CallInitialize, Initialization!InitializeRejected,
             Initialization!ReceiveCancel, Initialization!Close, Initialization!items
<1>3. /\ phase' \in {"uninitialized", "initializing", "initialized", "failed"}
      /\ waiting' \in Seq(WaitingRecords) /\ jobs' \in Seq(JobRecords)
      /\ Stages' /\ Numbered' /\ JobsInOrder' /\ PassedInOrder' /\ Arrived'
  <2>1. CASE Initialization!FailState
    BY <1>1, <2>1, FailStateKeeps
  <2>2. CASE Initialization!CompleteState
    BY <1>1, <2>2, SettleKeeps DEF Initialization!CompleteState
  <2>3. ASSUME UNCHANGED <<jobs, waiting>>,
               phase' \in {"uninitialized", "initializing", "initialized", "failed"},
               phase' = phase \/ (phase = "uninitialized" /\ phase' = "initializing")
        PROVE  /\ waiting' \in Seq(WaitingRecords) /\ jobs' \in Seq(JobRecords)
               /\ Stages' /\ Numbered' /\ JobsInOrder' /\ PassedInOrder' /\ Arrived'
    <3>1. waiting' \in Seq(WaitingRecords) /\ jobs' \in Seq(JobRecords)
      BY <2>3, ItemTypes DEF InitInv
    <3>2. Stages' /\ Numbered'
      BY <1>1, <2>3 DEF InitInv, Stages, Numbered
    <3>3. JobsInOrder' /\ PassedInOrder' /\ Arrived'
      BY <1>1, <2>3 DEF InitInv, JobsInOrder, PassedInOrder, Arrived, Waited, Follows, Rank
    <3> QED BY <3>1, <3>2, <3>3
  <2>4. phase \in {"uninitialized", "initializing", "initialized", "failed"}
    BY DEF InitInv, Initialization!TypeOK
  <2> QED BY <1>2, <2>1, <2>2, <2>3, <2>4
<1>4. Initialization!TypeOK'
  BY <1>1, <1>3, InitializationTypes
<1> QED BY <1>3, <1>4 DEF InitInv

(* A message or a call comes. *)
LEMMA ArriveKeeps ==
    ASSUME InitInv, NEW dir \in Initialization!Directions, Initialization!Arrive(dir)
    PROVE  InitInv'
<1> DEFINE n == count[dir] + 1
           w == [dir |-> dir, item |-> n]
<1>1. /\ count[dir] \in 0 .. MaxItems /\ n \in 1 .. MaxItems
      /\ count' = [count EXCEPT ![dir] = n]
      /\ UNCHANGED <<role, exchange, passed, initClosed>>
  BY BoundsAreNumbers, DirectionTypes DEF InitInv, Initialization!Arrive
<1>2. /\ \A d \in Initialization!Directions :
            count[d] \in Nat /\ count'[d] \in Nat /\ count[d] <= count'[d]
      /\ count'[dir] = n /\ count' \in [Initialization!Directions -> 0 .. MaxItems]
  <2>1. count' \in [Initialization!Directions -> 0 .. MaxItems]
    BY <1>1, ItemTypes DEF InitInv
  <2>2. ASSUME NEW d \in Initialization!Directions
        PROVE  /\ count[d] \in Nat /\ count'[d] \in Nat /\ count[d] <= count'[d]
               /\ d = dir => count'[d] = n
    BY <1>1, <2>2, ItemTypes, DirectionTypes DEF InitInv
  <2> QED BY <2>1, <2>2
<1>3. w \in WaitingRecords
  BY <1>1 DEF WaitingRecords
<1>types. ASSUME phase' \in {"uninitialized", "initializing", "initialized", "failed"},
               waiting' \in Seq(WaitingRecords), jobs' \in Seq(JobRecords),
               waited' \in [Initialization!Directions -> SUBSET (1 .. MaxItems)],
               refused' \in [Initialization!Directions -> SUBSET (1 .. MaxItems)]
        PROVE  Initialization!TypeOK'
  BY <1>1, <1>2, <1>types DEF InitInv, Initialization!TypeOK, Initialization!JobsTypeOK, JobRecords, WaitingRecords
<1>4. CASE Initialization!Passes
  <2> DEFINE j == [at |-> "pass", dir |-> dir, item |-> n, ok |-> TRUE]
  <2>1. /\ jobs' = Append(jobs, j) /\ UNCHANGED <<phase, waiting, waited, refused>>
        /\ phase = "initialized"
    BY <1>4 DEF Initialization!Arrive, Initialization!Passes, Initialization!Job
  <2>2. j \in JobRecords /\ j.dir = dir /\ j.item = n
    BY <1>1 DEF JobRecords
  <2> HIDE DEF j
  <2>3. /\ jobs' \in Seq(JobRecords) /\ Len(jobs) \in Nat /\ Len(jobs') = Len(jobs) + 1
        /\ jobs'[Len(jobs) + 1] = j
        /\ \A i \in 1 .. Len(jobs) : jobs'[i] = jobs[i]
    BY <2>1, <2>2, ItemTypes, AppendFacts DEF InitInv
  <2>4. n \notin waited[dir]
    <3>1. n \in waited[dir] => n <= count[dir]
      BY DEF InitInv, Numbered
    <3> QED BY <1>1, <3>1
  <2>5. Initialization!TypeOK'
    BY <1>types, <2>1, <2>3 DEF InitInv, Initialization!TypeOK, WaitingRecords
  <2>6. Stages'
    BY <1>1, <2>1 DEF InitInv, Stages
  <2>7. Numbered'
    <3>1. waiting = <<>>
      BY <2>1 DEF InitInv, Stages
    <3>2. ASSUME NEW d \in Initialization!Directions, NEW m \in waited[d] PROVE m <= count'[d]
      <4>1. m \in Nat /\ m <= count[d]
        BY DirectionTypes DEF InitInv, Numbered
      <4> QED BY <1>2, <4>1
    <3> QED BY <2>1, <3>1, <3>2 DEF Numbered
  <2>8. ASSUME NEW i \in 1 .. Len(jobs'), jobs'[i].item \in waited[jobs'[i].dir]
        PROVE  i \in 1 .. Len(jobs) /\ jobs'[i] = jobs[i]
    <3>1. i # Len(jobs) + 1
      BY <2>2, <2>3, <2>4, <2>8
    <3> QED BY <2>3, <2>8, <3>1
  <2>9. JobsInOrder'
    <3> SUFFICES ASSUME NEW i \in 1 .. Len(jobs'), NEW k \in 1 .. Len(jobs'), i < k,
                        jobs'[i].dir = jobs'[k].dir,
                        jobs'[i].item \in waited[jobs'[i].dir], jobs'[k].item \in waited[jobs'[k].dir]
                 PROVE  Follows(jobs'[i], jobs'[k])
      BY <2>1 DEF JobsInOrder, Waited, Follows, Rank
    <3>1. /\ i \in 1 .. Len(jobs) /\ jobs'[i] = jobs[i]
          /\ k \in 1 .. Len(jobs) /\ jobs'[k] = jobs[k]
      BY <2>8
    <3> QED BY <3>1 DEF InitInv, JobsInOrder, Waited
  <2>11. PassedInOrder'
    <3>1. ASSUME NEW d \in Initialization!Directions,
                 NEW i \in 1 .. Len(passed[d]), NEW k \in 1 .. Len(jobs'),
                 passed[d][i] \in waited[d], jobs'[k].dir = d, jobs'[k].item \in waited[d]
          PROVE  passed[d][i] < jobs'[k].item
      <4>1. k \in 1 .. Len(jobs) /\ jobs'[k] = jobs[k]
        BY <2>8, <3>1
      <4> QED BY <3>1, <4>1 DEF InitInv, PassedInOrder, Waited
    <3> QED BY <1>1, <2>1, <3>1 DEF InitInv, PassedInOrder, Waited
  <2>10. Arrived'
    <3>1. ASSUME NEW d \in Initialization!Directions, NEW i \in 1 .. Len(passed[d])
          PROVE  passed[d][i] <= count'[d]
      <4>1. passed[d][i] \in Nat
        BY DirectionTypes DEF InitInv
      <4>2. passed[d][i] <= count[d]
        BY DEF InitInv, Arrived
      <4> QED BY <1>2, <4>1, <4>2
    <3>2. ASSUME NEW i \in 1 .. Len(jobs') PROVE jobs'[i].item <= count'[jobs'[i].dir]
      <4>1. CASE i = Len(jobs) + 1
        BY <1>1, <1>2, <2>2, <2>3, <4>1
      <4>2. CASE i \in 1 .. Len(jobs)
        <5>1. jobs[i].dir \in Initialization!Directions /\ jobs[i].item \in Nat
          BY <4>2, JobTypes DEF InitInv
        <5>2. jobs[i].item <= count[jobs[i].dir]
          BY <4>2 DEF InitInv, Arrived
        <5>3. jobs[i].item <= count'[jobs[i].dir]
          BY <1>2, <5>1, <5>2
        <5> QED BY <2>3, <4>2, <5>3
      <4> QED BY <2>3, <4>1, <4>2
    <3> QED BY <1>1, <3>1, <3>2 DEF Arrived
  <2> QED BY <2>5, <2>6, <2>7, <2>9, <2>10, <2>11 DEF InitInv
<1>5. CASE ~Initialization!Passes /\ phase = "initializing"
  <2>1. /\ waiting' = Append(waiting, w)
        /\ waited' = [waited EXCEPT ![dir] = @ \cup {n}]
        /\ UNCHANGED <<phase, jobs, refused>>
    BY <1>5 DEF Initialization!Arrive
  <2>2. jobs = <<>> /\ \A d \in Initialization!Directions : passed[d] = <<>>
    BY <1>5 DEF InitInv, Stages
  <2>3. w.dir = dir /\ w.item = n
    OBVIOUS
  <2> HIDE DEF w
  <2>4. /\ waiting' \in Seq(WaitingRecords) /\ Len(waiting) \in Nat /\ Len(waiting') = Len(waiting) + 1
        /\ waiting'[Len(waiting) + 1] = w
        /\ \A i \in 1 .. Len(waiting) : waiting'[i] = waiting[i]
    BY <1>3, <2>1, ItemTypes, AppendFacts DEF InitInv
  <2>5. /\ waited' \in [Initialization!Directions -> SUBSET (1 .. MaxItems)]
        /\ \A d \in Initialization!Directions : \A m \in waited'[d] : m \in waited[d] \/ (d = dir /\ m = n)
    BY <1>1, <2>1, ItemTypes DEF InitInv
  <2>6. Initialization!TypeOK'
    BY <1>types, <2>1, <2>4, <2>5, ItemTypes DEF InitInv, Initialization!TypeOK
  <2>7. Stages'
    BY <1>1, <1>5, <2>1, <2>2 DEF Stages
  <2>8. Numbered'
    <3>1. ASSUME NEW d \in Initialization!Directions, NEW m \in waited'[d] PROVE m <= count'[d]
      <4>1. m \in waited[d] => m <= count[d] /\ m \in Nat
        BY DirectionTypes DEF InitInv, Numbered
      <4>2. CASE d = dir /\ m = n
        BY <1>1, <1>2, <4>2
      <4>3. CASE m \in waited[d]
        BY <1>2, <4>1, <4>3
      <4> QED BY <2>5, <3>1, <4>2, <4>3
    <3>2. ASSUME NEW i \in 1 .. Len(waiting)
          PROVE  /\ waiting[i].dir \in Initialization!Directions /\ waiting[i].item \in Nat
                 /\ waiting[i].item <= count[waiting[i].dir]
                 /\ waiting[i].item <= count'[waiting[i].dir]
      <4>1. waiting[i].dir \in Initialization!Directions /\ waiting[i].item \in Nat
        BY WaitingTypes DEF InitInv
      <4>2. waiting[i].item <= count[waiting[i].dir]
        BY DEF InitInv, Numbered
      <4> QED BY <1>2, <4>1, <4>2
    <3>3. ASSUME NEW i \in 1 .. Len(waiting') PROVE waiting'[i].item <= count'[waiting'[i].dir]
      <4>1. CASE i = Len(waiting) + 1
        BY <1>1, <1>2, <2>3, <2>4, <4>1
      <4>2. CASE i \in 1 .. Len(waiting)
        BY <2>4, <3>2, <4>2
      <4> QED BY <2>4, <4>1, <4>2
    <3>4. ASSUME NEW i \in 1 .. Len(waiting'), NEW k \in 1 .. Len(waiting'), i < k,
                 waiting'[i].dir = waiting'[k].dir
          PROVE  waiting'[i].item < waiting'[k].item
      <4>1. i \in 1 .. Len(waiting) /\ waiting'[i] = waiting[i]
        BY <2>4, <3>4
      <4>2. CASE k = Len(waiting) + 1
        <5>1. waiting[i].dir = dir /\ waiting'[k].item = n
          BY <2>3, <2>4, <3>4, <4>1, <4>2
        <5>2. waiting[i].item <= count[dir] /\ waiting[i].item \in Nat
          BY <3>2, <4>1, <5>1
        <5>3. waiting[i].item < n
          BY <1>1, <5>2
        <5> QED BY <4>1, <5>1, <5>3
      <4>3. CASE k \in 1 .. Len(waiting)
        BY <2>4, <3>4, <4>1, <4>3 DEF InitInv, Numbered
      <4> QED BY <2>4, <4>2, <4>3
    <3> QED BY <3>1, <3>3, <3>4 DEF Numbered
  <2>9. JobsInOrder' /\ PassedInOrder' /\ Arrived'
    BY <1>1, <2>1, <2>2 DEF JobsInOrder, PassedInOrder, Arrived
  <2> QED BY <2>6, <2>7, <2>8, <2>9 DEF InitInv
<1>6. CASE ~Initialization!Passes /\ phase # "initializing"
  <2>1. /\ refused' = [refused EXCEPT ![dir] = @ \cup {n}]
        /\ Initialization!FailState \/ UNCHANGED <<phase, jobs, waiting>>
        /\ UNCHANGED waited
    BY <1>6 DEF Initialization!Arrive
  <2>2. refused' \in [Initialization!Directions -> SUBSET (1 .. MaxItems)]
    BY <1>1, <2>1, ItemTypes DEF InitInv
  <2>3. waiting = <<>> /\ waiting' = <<>> /\ jobs' = jobs
        /\ phase' \in {"uninitialized", "initializing", "initialized", "failed"}
        /\ (phase' = phase \/ (phase = "uninitialized" /\ phase' = "failed"))
    <3>1. waiting = <<>>
      BY <1>6 DEF InitInv, Stages
    <3>2. phase \in {"uninitialized", "initializing", "initialized", "failed"}
      BY DEF InitInv, Initialization!TypeOK
    <3>3. CASE UNCHANGED <<phase, jobs, waiting>>
      BY <3>1, <3>2, <3>3
    <3>4. CASE Initialization!FailState /\ Initialization!MayFail
      <4>1. phase = "uninitialized" /\ phase' = "failed" /\ Initialization!Settle(FALSE) /\ jobs = <<>>
        BY <1>6, <3>4 DEF Initialization!FailState, Initialization!MayFail, InitInv, Stages
      <4>2. Len(jobs') = 0 /\ jobs' \in Seq(JobRecords)
        BY <3>1, <4>1, SettleJobs DEF InitInv
      <4>3. waiting' = <<>>
        BY <4>1 DEF Initialization!Settle
      <4> QED BY <3>1, <4>1, <4>2, <4>3
    <3>5. CASE Initialization!FailState /\ ~Initialization!MayFail
      BY <3>1, <3>2, <3>5 DEF Initialization!FailState
    <3> QED BY <2>1, <3>3, <3>4, <3>5
  <2>4. Initialization!TypeOK'
    BY <1>types, <2>1, <2>2, <2>3, ItemTypes DEF InitInv
  <2>5. Stages'
    BY <1>1, <2>3 DEF InitInv, Stages
  <2>6. Numbered'
    <3>1. ASSUME NEW d \in Initialization!Directions, NEW m \in waited[d] PROVE m <= count'[d]
      <4>1. m \in Nat /\ m <= count[d]
        BY DirectionTypes DEF InitInv, Numbered
      <4> QED BY <1>2, <4>1
    <3> QED BY <2>1, <2>3, <3>1 DEF Numbered
  <2>7. JobsInOrder' /\ PassedInOrder'
    BY <1>1, <2>1, <2>3 DEF InitInv, JobsInOrder, PassedInOrder, Waited, Follows, Rank
  <2>8. Arrived'
    <3>1. ASSUME NEW d \in Initialization!Directions, NEW i \in 1 .. Len(passed[d])
          PROVE  passed[d][i] <= count'[d]
      <4>1. passed[d][i] \in Nat
        BY DirectionTypes DEF InitInv
      <4>2. passed[d][i] <= count[d]
        BY DEF InitInv, Arrived
      <4> QED BY <1>2, <4>1, <4>2
    <3>3. ASSUME NEW i \in 1 .. Len(jobs) PROVE jobs[i].item <= count'[jobs[i].dir]
      <4>1. jobs[i].dir \in Initialization!Directions /\ jobs[i].item \in Nat
        BY JobTypes DEF InitInv
      <4>2. jobs[i].item <= count[jobs[i].dir]
        BY DEF InitInv, Arrived
      <4> QED BY <1>2, <4>1, <4>2
    <3> QED BY <1>1, <2>3, <3>1, <3>3 DEF Arrived
  <2> QED BY <2>4, <2>5, <2>6, <2>7, <2>8 DEF InitInv
<1> QED BY <1>4, <1>5, <1>6

(* The next microtask: its item goes on, behind the others, or passes.     *)
LEMMA JobMovesOn ==
    ASSUME InitInv, jobs # <<>>, NEW moved \in JobRecords,
           jobs' = Append(Tail(jobs), moved),
           moved.dir = jobs[1].dir, moved.item = jobs[1].item, moved.ok = jobs[1].ok,
           Rank(moved) = Rank(jobs[1]) + 1,
           UNCHANGED <<role, phase, exchange, waiting, count, waited, passed, refused, initClosed>>
    PROVE  InitInv'
<1>1. /\ Len(jobs) \in Nat \ {0} /\ Tail(jobs) \in Seq(JobRecords) /\ Len(Tail(jobs)) = Len(jobs) - 1
      /\ \A i \in 1 .. Len(Tail(jobs)) : Tail(jobs)[i] = jobs[i + 1]
      /\ \A i \in 1 .. Len(jobs) : jobs[i] \in JobRecords
  BY ItemTypes, JobTypes, TailFacts DEF InitInv
<1>2. /\ jobs' \in Seq(JobRecords) /\ Len(jobs') = Len(jobs)
      /\ jobs'[Len(jobs)] = moved
      /\ \A i \in 1 .. Len(jobs) - 1 : jobs'[i] = jobs[i + 1] /\ i + 1 \in 1 .. Len(jobs)
  BY <1>1, AppendFacts
<1>3. Initialization!TypeOK'
  BY <1>2, ItemTypes, InitializationTypes DEF InitInv, Initialization!TypeOK
<1>4. \A i \in 1 .. Len(jobs') : \E k \in 1 .. Len(jobs) :
         /\ jobs'[i].dir = jobs[k].dir /\ jobs'[i].item = jobs[k].item /\ jobs'[i].ok = jobs[k].ok
  <2> SUFFICES ASSUME NEW i \in 1 .. Len(jobs')
               PROVE  \E k \in 1 .. Len(jobs) :
         /\ jobs'[i].dir = jobs[k].dir /\ jobs'[i].item = jobs[k].item /\ jobs'[i].ok = jobs[k].ok
    OBVIOUS
  <2>1. CASE i = Len(jobs)
    BY <1>1, <1>2, <2>1
  <2>2. CASE i \in 1 .. Len(jobs) - 1
    BY <1>2, <2>2
  <2>3. i \in 1 .. Len(jobs) /\ Len(jobs) \in Nat
    BY <1>1, <1>2, Zenon
  <2>4. i = Len(jobs) \/ i \in 1 .. Len(jobs) - 1
    BY <2>3
  <2> QED BY <2>1, <2>2, <2>4
<1>5. Stages' /\ Numbered'
  <2>1. phase \notin {"uninitialized", "initializing"}
    BY DEF InitInv, Stages
  <2>2. phase # "initialized" => \A i \in 1 .. Len(jobs') : ~jobs'[i].ok
    BY <1>4, Zenon DEF InitInv, Stages
  <2>3. Stages'
    BY <2>1, <2>2 DEF InitInv, Stages
  <2> QED BY <2>3 DEF InitInv, Numbered
<1>6. JobsInOrder'
  <2> SUFFICES ASSUME NEW i \in 1 .. Len(jobs'), NEW k \in 1 .. Len(jobs'), i < k,
                      jobs'[i].dir = jobs'[k].dir,
                      jobs'[i].item \in waited[jobs'[i].dir], jobs'[k].item \in waited[jobs'[k].dir]
               PROVE  Follows(jobs'[i], jobs'[k])
    BY DEF JobsInOrder, Waited, Follows, Rank
  <2>1. i \in 1 .. Len(jobs) - 1 /\ i + 1 \in 1 .. Len(jobs) /\ jobs'[i] = jobs[i + 1]
    <3>1. i \in 1 .. Len(jobs) /\ k \in 1 .. Len(jobs) /\ Len(jobs) \in Nat
      BY <1>1, <1>2, Zenon
    <3>2. i \in 1 .. Len(jobs) - 1
      BY <3>1
    <3> QED BY <1>2, <3>2, Zenon
  <2>2. CASE k = Len(jobs)
    <3>1. Follows(jobs[1], jobs[i + 1])
      <4>1. 1 \in 1 .. Len(jobs) /\ 1 < i + 1 /\ Len(jobs) \in Nat
        BY <1>1, <2>1
      <4>2. /\ jobs[1].dir = jobs[i + 1].dir
            /\ jobs[1].item \in waited[jobs[1].dir] /\ jobs[i + 1].item \in waited[jobs[i + 1].dir]
        BY <1>2, <2>1, <2>2
      <4> QED BY <2>1, <4>1, <4>2 DEF InitInv, JobsInOrder, Waited
    <3>2. \A j \in JobRecords : Rank(j) \in Nat /\ j.item \in Nat
      BY BoundsAreNumbers DEF Rank, JobRecords
    <3> QED BY <1>1, <1>2, <2>1, <2>2, <3>1, <3>2 DEF Follows
  <2>3. CASE k \in 1 .. Len(jobs) - 1
    <3>1. /\ k + 1 \in 1 .. Len(jobs) /\ jobs'[k] = jobs[k + 1] /\ i + 1 < k + 1
      BY <1>2, <2>1, <2>3
    <3> QED BY <2>1, <3>1 DEF InitInv, JobsInOrder, Waited
  <2>4. k = Len(jobs) \/ k \in 1 .. Len(jobs) - 1
    <3>1. k \in 1 .. Len(jobs) /\ Len(jobs) \in Nat
      BY <1>1, <1>2, Zenon
    <3> QED BY <3>1
  <2> QED BY <2>2, <2>3, <2>4
<1>7. PassedInOrder'
  <2>1. ASSUME NEW d \in Initialization!Directions,
               NEW i \in 1 .. Len(passed[d]), NEW k \in 1 .. Len(jobs'),
               passed[d][i] \in waited[d], jobs'[k].dir = d, jobs'[k].item \in waited[d]
        PROVE  passed[d][i] < jobs'[k].item
    <3>1. PICK l \in 1 .. Len(jobs) : jobs'[k].dir = jobs[l].dir /\ jobs'[k].item = jobs[l].item
      BY <1>4
    <3> QED BY <2>1, <3>1 DEF InitInv, PassedInOrder, Waited
  <2> QED BY <2>1 DEF InitInv, PassedInOrder, Waited
<1>8. Arrived'
  <2>1. ASSUME NEW i \in 1 .. Len(jobs') PROVE jobs'[i].item <= count[jobs'[i].dir]
    <3>1. PICK l \in 1 .. Len(jobs) : jobs'[i].dir = jobs[l].dir /\ jobs'[i].item = jobs[l].item
      BY <1>4
    <3> QED BY <3>1 DEF InitInv, Arrived
  <2> QED BY <2>1 DEF InitInv, Arrived
<1> QED BY <1>3, <1>5, <1>6, <1>7, <1>8 DEF InitInv

LEMMA JobPasses ==
    ASSUME InitInv, jobs # <<>>, jobs[1].at = "pass", jobs' = Tail(jobs),
           \/ /\ jobs[1].ok /\ UNCHANGED refused
              /\ passed' = [passed EXCEPT ![jobs[1].dir] = Append(@, jobs[1].item)]
           \/ /\ refused' = [refused EXCEPT ![jobs[1].dir] = @ \cup {jobs[1].item}]
              /\ UNCHANGED passed,
           UNCHANGED <<role, phase, exchange, waiting, count, waited, initClosed>>
    PROVE  InitInv'
<1> DEFINE j == jobs[1]
<1>1. /\ Len(jobs) \in Nat \ {0} /\ jobs' \in Seq(JobRecords) /\ Len(jobs') = Len(jobs) - 1
      /\ \A i \in 1 .. Len(jobs') : jobs'[i] = jobs[i + 1] /\ i + 1 \in 2 .. Len(jobs)
      /\ \A i \in 1 .. Len(jobs) : jobs[i] \in JobRecords
      /\ j \in JobRecords /\ j.dir \in Initialization!Directions /\ j.item \in 1 .. MaxItems
      /\ 1 \in 1 .. Len(jobs)
  <2>1. jobs \in Seq(JobRecords)
    BY ItemTypes DEF InitInv
  <2>2. /\ Len(jobs) \in Nat \ {0} /\ jobs' \in Seq(JobRecords) /\ Len(jobs') = Len(jobs) - 1
        /\ \A i \in 1 .. Len(jobs') : jobs'[i] = jobs[i + 1] /\ i + 1 \in 2 .. Len(jobs)
    BY <2>1, TailFacts
  <2>3. 1 \in 1 .. Len(jobs)
    BY <2>2
  <2> QED BY <2>2, <2>3, JobTypes DEF InitInv
<1>2. /\ passed' \in [Initialization!Directions -> Seq(1 .. MaxItems)]
      /\ refused' \in [Initialization!Directions -> SUBSET (1 .. MaxItems)]
  <2>1. /\ passed \in [Initialization!Directions -> Seq(1 .. MaxItems)]
        /\ refused \in [Initialization!Directions -> SUBSET (1 .. MaxItems)]
    BY ItemTypes DEF InitInv
  <2>2. passed[j.dir] \in Seq(1 .. MaxItems) /\ refused[j.dir] \in SUBSET (1 .. MaxItems)
    BY <1>1, <2>1
  <2>3. Append(passed[j.dir], j.item) \in Seq(1 .. MaxItems)
    BY <1>1, <2>2, AppendFacts
  <2>4. refused[j.dir] \cup {j.item} \in SUBSET (1 .. MaxItems)
    BY <1>1, <2>2
  <2> QED BY <1>1, <2>1, <2>3, <2>4
<1>3. Initialization!TypeOK'
  BY <1>1, <1>2, ItemTypes DEF InitInv, Initialization!TypeOK, Initialization!JobsTypeOK, JobRecords
<1>4. phase \notin {"uninitialized", "initializing"} /\ (j.ok => phase = "initialized")
  BY <1>1 DEF InitInv, Stages
(* The items that have passed are those before, and perhaps this one. *)
<1>5. ASSUME NEW d \in Initialization!Directions
      PROVE  \/ passed'[d] = passed[d]
             \/ /\ d = j.dir /\ j.ok
                /\ Len(passed[d]) \in Nat /\ Len(passed'[d]) = Len(passed[d]) + 1
                /\ passed'[d][Len(passed[d]) + 1] = j.item
                /\ \A i \in 1 .. Len(passed[d]) : passed'[d][i] = passed[d][i]
  <2>1. CASE UNCHANGED passed
    BY <2>1
  <2>2. CASE d # j.dir
    BY <1>1, <2>2, ItemTypes DEF InitInv
  <2>3. CASE j.ok /\ passed' = [passed EXCEPT ![j.dir] = Append(@, j.item)] /\ d = j.dir
    <3>1. passed'[d] = Append(passed[d], j.item) /\ passed[d] \in Seq(1 .. MaxItems)
      BY <2>3, ItemTypes DEF InitInv
    <3> QED BY <1>1, <2>3, <3>1, AppendFacts
  <2> QED BY <2>1, <2>2, <2>3
<1>6. Stages'
  <2>1. ASSUME phase # "initialized"
        PROVE  /\ \A i \in 1 .. Len(jobs') : ~jobs'[i].ok
               /\ \A d \in Initialization!Directions : passed'[d] = <<>>
    BY <1>1, <1>4, <1>5, <2>1 DEF InitInv, Stages
  <2> QED BY <1>4, <2>1 DEF InitInv, Stages
<1>7. Numbered'
  BY DEF InitInv, Numbered
<1>8. JobsInOrder'
  <2> SUFFICES ASSUME NEW i \in 1 .. Len(jobs'), NEW k \in 1 .. Len(jobs'), i < k,
                      jobs'[i].dir = jobs'[k].dir,
                      jobs'[i].item \in waited[jobs'[i].dir], jobs'[k].item \in waited[jobs'[k].dir]
               PROVE  Follows(jobs'[i], jobs'[k])
    BY DEF JobsInOrder, Waited, Follows, Rank
  <2>1. /\ i + 1 \in 1 .. Len(jobs) /\ jobs'[i] = jobs[i + 1]
        /\ k + 1 \in 1 .. Len(jobs) /\ jobs'[k] = jobs[k + 1] /\ i + 1 < k + 1
    BY <1>1
  <2> QED BY <2>1 DEF InitInv, JobsInOrder, Waited
(* It is the first of those that waited. *)
<1>9. ASSUME NEW k \in 2 .. Len(jobs), jobs[k].dir = j.dir, Waited(j), Waited(jobs[k])
      PROVE  j.item < jobs[k].item
  <2>1. Follows(j, jobs[k])
    BY <1>1, <1>9 DEF InitInv, JobsInOrder
  <2>2. Rank(j) = 2 /\ Rank(jobs[k]) \in 0 .. 2
    BY <1>1, <1>9 DEF Rank, JobRecords
  <2> QED BY <2>1, <2>2 DEF Follows
<1>10. PassedInOrder'
  <2>1. ASSUME NEW d \in Initialization!Directions, NEW i \in 1 .. Len(passed'[d]), passed'[d][i] \in waited[d]
        PROVE  \/ i \in 1 .. Len(passed[d]) /\ passed'[d][i] = passed[d][i]
               \/ i = Len(passed[d]) + 1 /\ d = j.dir /\ passed'[d][i] = j.item /\ Waited(j)
    <3>1. CASE passed'[d] = passed[d]
      BY <2>1, <3>1
    <3>2. CASE /\ d = j.dir /\ Len(passed[d]) \in Nat /\ Len(passed'[d]) = Len(passed[d]) + 1
               /\ passed'[d][Len(passed[d]) + 1] = j.item
               /\ \A n \in 1 .. Len(passed[d]) : passed'[d][n] = passed[d][n]
      <4>1. i = Len(passed[d]) + 1 \/ i \in 1 .. Len(passed[d])
        BY <3>2
      <4> QED BY <2>1, <3>2, <4>1 DEF Waited
    <3> QED BY <1>5, <3>1, <3>2
  <2>2. ASSUME NEW d \in Initialization!Directions,
               NEW i \in 1 .. Len(passed'[d]), NEW k \in 1 .. Len(jobs'),
               passed'[d][i] \in waited[d], jobs'[k].dir = d, jobs'[k].item \in waited[d]
        PROVE  passed'[d][i] < jobs'[k].item
    <3>1. k + 1 \in 2 .. Len(jobs) /\ k + 1 \in 1 .. Len(jobs) /\ jobs'[k] = jobs[k + 1]
      BY <1>1
    <3>2. CASE i \in 1 .. Len(passed[d]) /\ passed'[d][i] = passed[d][i]
      BY <2>2, <3>1, <3>2 DEF InitInv, PassedInOrder, Waited
    <3>3. CASE d = j.dir /\ passed'[d][i] = j.item /\ Waited(j)
      BY <1>9, <2>2, <3>1, <3>3 DEF Waited
    <3> QED BY <2>1, <2>2, <3>2, <3>3
  <2>3. ASSUME NEW d \in Initialization!Directions,
               NEW i \in 1 .. Len(passed'[d]), NEW k \in 1 .. Len(passed'[d]), i < k,
               {passed'[d][i], passed'[d][k]} \subseteq waited[d]
        PROVE  passed'[d][i] < passed'[d][k]
    <3>1. i \in 1 .. Len(passed[d]) /\ passed'[d][i] = passed[d][i]
      <4>1. i # Len(passed[d]) + 1
        <5>1. Len(passed'[d]) \in Nat /\ Len(passed[d]) \in Nat /\ Len(passed'[d]) <= Len(passed[d]) + 1
          <6>1. passed'[d] \in Seq(1 .. MaxItems) /\ passed[d] \in Seq(1 .. MaxItems)
            BY <1>2, ItemTypes DEF InitInv
          <6>2. Len(passed'[d]) = Len(passed[d]) \/ Len(passed'[d]) = Len(passed[d]) + 1
            BY <1>5
          <6>3. Len(passed'[d]) \in Nat
            BY <6>1, LenProperties
          <6>4. Len(passed[d]) \in Nat
            BY <6>1, LenProperties
          <6> QED BY <6>2, <6>3, <6>4
        <5> QED BY <2>3, <5>1
      <4> QED BY <2>1, <2>3, <4>1
    <3>2. CASE k \in 1 .. Len(passed[d]) /\ passed'[d][k] = passed[d][k]
      BY <2>3, <3>1, <3>2 DEF InitInv, PassedInOrder
    <3>3. CASE d = j.dir /\ passed'[d][k] = j.item /\ Waited(j)
      BY <1>1, <2>3, <3>1, <3>3 DEF InitInv, PassedInOrder, Waited
    <3> QED BY <2>1, <2>3, <3>2, <3>3
  <2> QED BY <2>2, <2>3 DEF PassedInOrder, Waited
<1>11. Arrived'
  <2>1. \A i \in 1 .. Len(jobs') : jobs'[i].item <= count[jobs'[i].dir]
    BY <1>1 DEF InitInv, Arrived
  <2>2. ASSUME NEW d \in Initialization!Directions, NEW i \in 1 .. Len(passed'[d])
        PROVE  passed'[d][i] <= count[d]
    <3>1. CASE passed'[d] = passed[d]
      BY <2>2, <3>1 DEF InitInv, Arrived
    <3>2. CASE /\ d = j.dir /\ Len(passed[d]) \in Nat /\ Len(passed'[d]) = Len(passed[d]) + 1
               /\ passed'[d][Len(passed[d]) + 1] = j.item
               /\ \A n \in 1 .. Len(passed[d]) : passed'[d][n] = passed[d][n]
      <4>1. i = Len(passed[d]) + 1 \/ i \in 1 .. Len(passed[d])
        BY <3>2
      <4>2. j.item <= count[j.dir] /\ \A n \in 1 .. Len(passed[d]) : passed[d][n] <= count[d]
        BY <1>1 DEF InitInv, Arrived
      <4> QED BY <3>2, <4>1, <4>2, Zenon
    <3> QED BY <1>5, <3>1, <3>2
  <2> QED BY <2>1, <2>2 DEF Arrived
<1> QED BY <1>3, <1>6, <1>7, <1>8, <1>10, <1>11 DEF InitInv

LEMMA RunJobKeeps == ASSUME InitInv, Initialization!RunJob PROVE InitInv'
<1> DEFINE j == jobs[1]
<1>1. jobs # <<>> /\ j \in JobRecords /\ Head(jobs) = j
  BY ItemTypes, TailFacts DEF InitInv, Initialization!RunJob
<1>2. UNCHANGED <<role, phase, exchange, waiting, count, waited, initClosed>>
  BY DEF Initialization!RunJob
<1>3. ASSUME NEW at \in {"guard", "pass"}, jobs' = Append(Tail(jobs), [j EXCEPT !.at = at]),
             UNCHANGED <<passed, refused>>, Rank([j EXCEPT !.at = at]) = Rank(j) + 1
      PROVE  InitInv'
  <2> DEFINE moved == [j EXCEPT !.at = at]
  <2>1. moved \in JobRecords /\ moved.dir = j.dir /\ moved.item = j.item
    BY <1>1 DEF JobRecords
  <2>2. moved.ok = j.ok
    BY <1>1 DEF JobRecords
  <2> HIDE DEF moved
  <2>3. jobs' = Append(Tail(jobs), moved) /\ Rank(moved) = Rank(j) + 1
    BY <1>3 DEF moved
  <2> QED BY <1>1, <1>2, <1>3, <2>1, <2>2, <2>3, JobMovesOn
<1>4. CASE j.at = "settled"
  <2> DEFINE at == IF j.dir = "in" THEN "guard" ELSE "pass"
  <2>1. jobs' = Append(Tail(jobs), [j EXCEPT !.at = at]) /\ UNCHANGED <<passed, refused>>
    BY <1>1, <1>4 DEF Initialization!RunJob
  <2>2. at \in {"guard", "pass"} /\ Rank([j EXCEPT !.at = at]) = Rank(j) + 1
    BY <1>1, <1>4 DEF Rank, JobRecords, Initialization!Directions
  <2> HIDE DEF at
  <2> QED BY <1>3, <2>1, <2>2
<1>5. CASE j.at = "guard"
  <2>1. jobs' = Append(Tail(jobs), [j EXCEPT !.at = "pass"]) /\ UNCHANGED <<passed, refused>>
    BY <1>1, <1>5 DEF Initialization!RunJob
  <2>2. Rank([j EXCEPT !.at = "pass"]) = Rank(j) + 1
    BY <1>1, <1>5 DEF Rank, JobRecords
  <2> QED BY <1>3, <2>1, <2>2
<1>6. CASE j.at = "pass"
  <2>1. /\ jobs' = Tail(jobs)
        /\ \/ /\ j.ok /\ UNCHANGED refused
              /\ passed' = [passed EXCEPT ![j.dir] = Append(@, j.item)]
           \/ /\ refused' = [refused EXCEPT ![j.dir] = @ \cup {j.item}]
              /\ UNCHANGED passed
    BY <1>1, <1>6 DEF Initialization!RunJob
  <2> QED BY <1>1, <1>2, <1>6, <2>1, JobPasses
<1>7. j.at \in {"settled", "guard", "pass"}
  BY <1>1 DEF JobRecords
<1> QED BY <1>4, <1>5, <1>6, <1>7

LEMMA InitializationStep == InitInv /\ [Initialization!Next]_(Initialization!vars) => InitInv'
<1> SUFFICES ASSUME InitInv, [Initialization!Next]_(Initialization!vars) PROVE InitInv'
  OBVIOUS
<1>1. CASE \E dir \in Initialization!Directions : Initialization!Arrive(dir)
  BY <1>1, ArriveKeeps
<1>2. CASE Initialization!RunJob
  BY <1>2, RunJobKeeps
<1>3. CASE \E ok \in BOOLEAN :
              \/ Initialization!ReceiveInitialize(ok) \/ Initialization!InitializeHandled(ok)
              \/ Initialization!ResponseWritten(ok) \/ Initialization!InitializeAnswered(ok)
              \/ Initialization!CallInitialize \/ Initialization!InitializeRejected
              \/ Initialization!ReceiveCancel \/ Initialization!Close
  BY <1>3, ExchangeKeeps
<1>4. CASE UNCHANGED Initialization!vars
  <2>1. /\ UNCHANGED <<role, phase, exchange, waiting, jobs>>
        /\ UNCHANGED <<count, waited, passed, refused, initClosed>>
    BY <1>4 DEF Initialization!vars
  <2>2. Initialization!TypeOK'
    BY <2>1 DEF InitInv, Initialization!TypeOK, Initialization!JobsTypeOK
  <2>3. Stages' /\ Numbered'
    BY <2>1 DEF InitInv, Stages, Numbered
  <2>4. JobsInOrder' /\ PassedInOrder' /\ Arrived'
    BY <2>1 DEF InitInv, JobsInOrder, PassedInOrder, Arrived, Waited, Follows, Rank
  <2> QED BY <2>2, <2>3, <2>4 DEF InitInv
<1> QED BY <1>1, <1>2, <1>3, <1>4, Zenon DEF Initialization!Next

THEOREM InitializationInvariance == Initialization!Spec => []InitInv
BY InitializationInit, InitializationStep, PTL DEF Initialization!Spec

(* The variables keep their types, for any number of messages and calls.   *)
THEOREM InitializationTypeCorrect == Initialization!Spec => []Initialization!TypeOK
<1>1. InitInv => Initialization!TypeOK
  BY DEF InitInv
<1> QED BY <1>1, InitializationInvariance, PTL

(* The guards of v2/acp.ts: nothing passes a connection which is not       *)
(* initialized, and what waited passes in its order, each way, for any     *)
(* number of messages and calls.                                           *)
THEOREM NothingPassesBefore == Initialization!Spec => []PassesInitialized
<1>1. InitInv => PassesInitialized
  BY DEF InitInv, Stages, PassedInOrder, PassesInitialized, Initialization!PassesInitialized
<1> QED BY <1>1, InitializationInvariance, PTL

(* While the barrier holds, the exchange that ends it is under way.        *)
BarrierEnds == phase = "initializing" => exchange \in {"handled", "answered", "sent", "rejected"}

IsAmong(s, d, n) == \E i \in 1 .. Len(s) : s[i].dir = d /\ s[i].item = n

(* What had to wait has passed or was refused, or is on its way to that,   *)
(* or waits for an exchange that is under way.                             *)
WaiterFits(d, n) ==
    \/ n \in refused[d] \/ \E i \in 1 .. Len(passed[d]) : passed[d][i] = n
    \/ IsAmong(jobs, d, n)
    \/ IsAmong(waiting, d, n) /\ phase = "initializing"

NoWaiterIsLost ==
    BarrierEnds /\ \A d \in Initialization!Directions : \A n \in waited[d] : WaiterFits(d, n)

(* What is among two sequences is in the one after the other.              *)
LEMMA AmongBoth ==
    ASSUME NEW S, NEW s \in Seq(S), NEW t \in Seq(S), NEW d, NEW n
    PROVE  IsAmong(s, d, n) \/ IsAmong(t, d, n) => IsAmong(s \o t, d, n)
<1>1. Len(s) \in Nat /\ Len(t) \in Nat /\ Len(s \o t) = Len(s) + Len(t)
  BY ConcatProperties, LenProperties
<1>2. ASSUME IsAmong(s, d, n) PROVE IsAmong(s \o t, d, n)
  <2>1. PICK i \in 1 .. Len(s) : s[i].dir = d /\ s[i].item = n
    BY <1>2 DEF IsAmong
  <2>2. i \in 1 .. Len(s \o t) /\ (s \o t)[i] = s[i]
    BY <1>1, ConcatProperties
  <2> QED BY <2>1, <2>2 DEF IsAmong
<1>3. ASSUME IsAmong(t, d, n) PROVE IsAmong(s \o t, d, n)
  <2>1. PICK i \in 1 .. Len(t) : t[i].dir = d /\ t[i].item = n
    BY <1>3 DEF IsAmong
  <2>2. /\ Len(s) + i \in 1 .. Len(s \o t) /\ Len(s) + i > Len(s)
        /\ (Len(s) + i) - Len(s) = i
    BY <1>1
  <2>3. (s \o t)[Len(s) + i] = t[i]
    BY <1>1, <2>2, ConcatProperties
  <2> QED BY <2>1, <2>2, <2>3 DEF IsAmong
<1> QED BY <1>2, <1>3

(* An item stays among a sequence to which another is added, which is, too.*)
LEMMA AmongMore ==
    ASSUME NEW S, NEW s \in Seq(S), NEW e \in S, NEW d, NEW n
    PROVE  /\ IsAmong(s, d, n) => IsAmong(Append(s, e), d, n)
           /\ e.dir = d /\ e.item = n => IsAmong(Append(s, e), d, n)
<1>1. Len(s) + 1 \in 1 .. Len(Append(s, e)) /\ \A i \in 1 .. Len(s) : i \in 1 .. Len(Append(s, e))
  BY AppendFacts
<1> QED BY <1>1, AppendFacts DEF IsAmong

(* An item among a sequence is the first, or stays when that is taken.     *)
LEMMA AmongFirst ==
    ASSUME NEW S, NEW s \in Seq(S), s # <<>>, NEW d, NEW n, IsAmong(s, d, n)
    PROVE  (s[1].dir = d /\ s[1].item = n) \/ IsAmong(Tail(s), d, n)
<1>1. PICK i \in 1 .. Len(s) : s[i].dir = d /\ s[i].item = n
  BY DEF IsAmong
<1>2. CASE i # 1
  <2>1. i - 1 \in 1 .. Len(Tail(s)) /\ (i - 1) + 1 = i
    BY <1>2, TailFacts
  <2>2. Tail(s)[i - 1] = s[i]
    BY <2>1, TailFacts
  <2> QED BY <1>1, <2>1, <2>2 DEF IsAmong
<1> QED BY <1>1, <1>2

(* The barrier takes nobody who waits with it: they are microtasks then.   *)
LEMMA SettleWaiters ==
    ASSUME InitInv, NoWaiterIsLost, NEW ok \in BOOLEAN, Initialization!Settle(ok),
           UNCHANGED <<waited, passed>>,
           \A d \in Initialization!Directions : refused[d] \subseteq refused'[d]
    PROVE  \A d \in Initialization!Directions : \A n \in waited'[d] : WaiterFits(d, n)'
<1> DEFINE J == [i \in 1 .. Len(waiting) |-> Initialization!Job("settled", waiting[i], ok)]
<1>1. /\ waiting \in Seq(WaitingRecords) /\ Len(waiting) \in Nat /\ jobs \in Seq(JobRecords)
  BY ItemTypes DEF InitInv
<1>2. \A i \in 1 .. Len(waiting) :
         /\ Initialization!Job("settled", waiting[i], ok) \in JobRecords
         /\ Initialization!Job("settled", waiting[i], ok).dir = waiting[i].dir
         /\ Initialization!Job("settled", waiting[i], ok).item = waiting[i].item
  BY WaitingTypes DEF Initialization!Job, JobRecords, InitInv
<1>3. J \in Seq(JobRecords) /\ Len(J) = Len(waiting)
  BY <1>1, <1>2
<1>4. \A i \in 1 .. Len(waiting) : J[i].dir = waiting[i].dir /\ J[i].item = waiting[i].item
  BY <1>2
<1>5. jobs' = jobs \o J
  BY DEF Initialization!Settle
<1> HIDE DEF J
<1>6. ASSUME NEW d \in Initialization!Directions, NEW n \in waited[d] PROVE WaiterFits(d, n)'
  <2>1. WaiterFits(d, n)
    BY DEF NoWaiterIsLost
  <2>2. IsAmong(waiting, d, n) => IsAmong(J, d, n)
    BY <1>3, <1>4 DEF IsAmong
  <2>3. IsAmong(waiting, d, n) \/ IsAmong(jobs, d, n) => IsAmong(jobs \o J, d, n)
    BY <1>1, <1>3, <2>2, AmongBoth
  <2>4. IsAmong(jobs \o J, d, n) => IsAmong(jobs, d, n)'
    BY <1>5 DEF IsAmong
  <2> QED BY <2>1, <2>3, <2>4 DEF WaiterFits
<1> QED BY <1>6

LEMMA FailStateWaiters ==
    ASSUME InitInv, NoWaiterIsLost, Initialization!FailState, UNCHANGED <<waited, passed>>,
           \A d \in Initialization!Directions : refused[d] \subseteq refused'[d]
    PROVE  NoWaiterIsLost'
<1>1. CASE Initialization!MayFail
  <2>1. phase' = "failed" /\ Initialization!Settle(FALSE)
    BY <1>1 DEF Initialization!FailState
  <2>2. \A d \in Initialization!Directions : \A n \in waited'[d] : WaiterFits(d, n)'
    BY <2>1, SettleWaiters
  <2> QED BY <2>1, <2>2 DEF NoWaiterIsLost, BarrierEnds
<1>2. CASE ~Initialization!MayFail
  <2>1. UNCHANGED <<phase, jobs, waiting>> /\ phase # "initializing"
    BY <1>2 DEF Initialization!FailState, Initialization!MayFail
  <2>2. \A d \in Initialization!Directions : \A n \in waited'[d] : WaiterFits(d, n)'
    BY <2>1 DEF NoWaiterIsLost, WaiterFits, IsAmong
  <2> QED BY <2>1, <2>2 DEF NoWaiterIsLost, BarrierEnds
<1> QED BY <1>1, <1>2

(* The exchange goes on, or ends and with it the barrier.                  *)
LEMMA ExchangeWaiters ==
    ASSUME InitInv, NoWaiterIsLost, NEW ok \in BOOLEAN,
           \/ Initialization!ReceiveInitialize(ok) \/ Initialization!InitializeHandled(ok)
           \/ Initialization!ResponseWritten(ok) \/ Initialization!InitializeAnswered(ok)
           \/ Initialization!CallInitialize \/ Initialization!InitializeRejected
           \/ Initialization!ReceiveCancel \/ Initialization!Close
    PROVE  NoWaiterIsLost'
<1>1. UNCHANGED <<waited, passed, refused>>
  BY DEF Initialization!ReceiveInitialize, Initialization!InitializeHandled,
         Initialization!ResponseWritten, Initialization!InitializeAnswered,
         Initialization!CallInitialize, Initialization!InitializeRejected,
         Initialization!ReceiveCancel, Initialization!Close, Initialization!items
<1>2. CASE Initialization!FailState
  BY <1>1, <1>2, FailStateWaiters
<1>3. CASE Initialization!CompleteState
  <2>1. phase' = "initialized" /\ Initialization!Settle(TRUE)
    BY <1>3 DEF Initialization!CompleteState
  <2>2. \A d \in Initialization!Directions : \A n \in waited'[d] : WaiterFits(d, n)'
    BY <1>1, <2>1, SettleWaiters
  <2> QED BY <2>1, <2>2 DEF NoWaiterIsLost, BarrierEnds
<1>4. CASE /\ UNCHANGED <<jobs, waiting>> /\ (phase' = phase \/ phase = "uninitialized")
           /\ exchange' \in {"handled", "answered", "sent", "rejected"}
  <2>1. \A d \in Initialization!Directions : \A n \in waited'[d] : WaiterFits(d, n)'
    BY <1>1, <1>4 DEF NoWaiterIsLost, WaiterFits, IsAmong
  <2> QED BY <1>4, <2>1 DEF NoWaiterIsLost, BarrierEnds
<1>5. \/ Initialization!FailState \/ Initialization!CompleteState
      \/ /\ UNCHANGED <<jobs, waiting>> /\ (phase' = phase \/ phase = "uninitialized")
         /\ exchange' \in {"handled", "answered", "sent", "rejected"}
  <2>1. CASE \/ Initialization!ReceiveInitialize(ok) \/ Initialization!InitializeHandled(ok)
             \/ Initialization!CallInitialize \/ Initialization!InitializeAnswered(ok)
    BY <2>1 DEF Initialization!ReceiveInitialize, Initialization!InitializeHandled,
                Initialization!CallInitialize, Initialization!InitializeAnswered,
                Initialization!items
  <2>2. CASE \/ Initialization!ResponseWritten(ok) \/ Initialization!InitializeRejected
             \/ Initialization!ReceiveCancel \/ Initialization!Close
    BY <2>2 DEF Initialization!ResponseWritten, Initialization!InitializeRejected,
                Initialization!ReceiveCancel, Initialization!Close
  <2> QED BY <2>1, <2>2
<1> QED BY <1>2, <1>3, <1>4, <1>5

LEMMA ArriveWaiters ==
    ASSUME InitInv, NoWaiterIsLost, NEW dir \in Initialization!Directions,
           Initialization!Arrive(dir)
    PROVE  NoWaiterIsLost'
<1> DEFINE m == count[dir] + 1
           w == [dir |-> dir, item |-> m]
<1>1. UNCHANGED <<exchange, passed>> /\ w \in WaitingRecords
  <2>1. count[dir] \in 0 .. MaxItems /\ count[dir] < MaxItems
    BY DirectionTypes DEF InitInv, Initialization!Arrive
  <2>2. m \in 1 .. MaxItems
    BY <2>1, BoundsAreNumbers
  <2> QED BY <2>2 DEF Initialization!Arrive, WaitingRecords
<1>2. CASE Initialization!Passes
  <2> DEFINE j == [at |-> "pass", dir |-> dir, item |-> m, ok |-> TRUE]
  <2>1. /\ jobs' = Append(jobs, j) /\ UNCHANGED <<phase, waiting, waited, refused>>
        /\ phase = "initialized"
    BY <1>2 DEF Initialization!Arrive, Initialization!Passes, Initialization!Job
  <2>2. j \in JobRecords /\ jobs \in Seq(JobRecords)
    BY <1>1, ItemTypes DEF JobRecords, WaitingRecords, InitInv
  <2> HIDE DEF j
  <2>3. ASSUME NEW d \in Initialization!Directions, NEW n \in waited[d] PROVE WaiterFits(d, n)'
    <3>1. IsAmong(jobs, d, n) => IsAmong(Append(jobs, j), d, n)
      BY <2>2, AmongMore
    <3>2. IsAmong(jobs, d, n) => IsAmong(jobs, d, n)'
      BY <2>1, <3>1 DEF IsAmong
    <3>3. WaiterFits(d, n)
      BY DEF NoWaiterIsLost
    <3> QED BY <1>1, <2>1, <3>2, <3>3 DEF WaiterFits, IsAmong
  <2> QED BY <2>1, <2>3 DEF NoWaiterIsLost, BarrierEnds
<1>3. CASE phase = "initializing"
  <2>1. /\ waiting' = Append(waiting, w) /\ UNCHANGED <<phase, jobs, refused>>
        /\ waited' = [waited EXCEPT ![dir] = @ \cup {m}]
    BY <1>3 DEF Initialization!Arrive, Initialization!Passes
  <2>2. waiting \in Seq(WaitingRecords) /\ waited \in [Initialization!Directions -> SUBSET (1 .. MaxItems)]
        /\ w.dir = dir /\ w.item = m
    BY ItemTypes DEF InitInv
  <2> HIDE DEF w
  <2>3. ASSUME NEW d \in Initialization!Directions, NEW n \in waited'[d] PROVE WaiterFits(d, n)'
    <3>1. /\ IsAmong(waiting, d, n) => IsAmong(Append(waiting, w), d, n)
          /\ w.dir = d /\ w.item = n => IsAmong(Append(waiting, w), d, n)
      BY <1>1, <2>2, AmongMore
    <3>2. IsAmong(Append(waiting, w), d, n) => IsAmong(waiting, d, n)'
      BY <2>1 DEF IsAmong
    <3>3. n \in waited[d] \/ (d = dir /\ n = m)
      BY <2>1, <2>2
    <3>4. n \in waited[d] => WaiterFits(d, n)
      BY DEF NoWaiterIsLost
    <3> QED BY <1>1, <1>3, <2>1, <2>2, <3>1, <3>2, <3>3, <3>4 DEF WaiterFits, IsAmong
  <2> QED BY <1>1, <1>3, <2>1, <2>3 DEF NoWaiterIsLost, BarrierEnds
<1>4. CASE ~Initialization!Passes /\ phase # "initializing"
  <2>1. /\ refused' = [refused EXCEPT ![dir] = @ \cup {m}] /\ UNCHANGED waited
        /\ Initialization!FailState \/ UNCHANGED <<phase, jobs, waiting>>
    BY <1>4 DEF Initialization!Arrive, Initialization!Passes
  <2>2. \A d \in Initialization!Directions : refused[d] \subseteq refused'[d]
    BY <2>1, ItemTypes DEF InitInv
  <2>3. CASE Initialization!FailState
    BY <1>1, <2>1, <2>2, <2>3, FailStateWaiters
  <2>4. CASE UNCHANGED <<phase, jobs, waiting>>
    <3>1. \A d \in Initialization!Directions : \A n \in waited'[d] : WaiterFits(d, n)'
      BY <1>1, <2>1, <2>2, <2>4 DEF NoWaiterIsLost, WaiterFits, IsAmong
    <3> QED BY <1>4, <2>4, <3>1 DEF NoWaiterIsLost, BarrierEnds
  <2> QED BY <2>1, <2>3, <2>4
<1> QED BY <1>2, <1>3, <1>4

LEMMA RunJobWaiters ==
    ASSUME InitInv, NoWaiterIsLost, Initialization!RunJob
    PROVE  NoWaiterIsLost'
<1> DEFINE j == jobs[1]
<1>1. /\ jobs # <<>> /\ jobs \in Seq(JobRecords) /\ Head(jobs) = j
      /\ Tail(jobs) \in Seq(JobRecords) /\ j \in JobRecords
      /\ UNCHANGED <<phase, exchange, waiting, waited>>
  BY ItemTypes, TailFacts DEF InitInv, Initialization!RunJob
<1>2. /\ passed \in [Initialization!Directions -> Seq(1 .. MaxItems)]
      /\ refused \in [Initialization!Directions -> SUBSET (1 .. MaxItems)]
      /\ j.dir \in Initialization!Directions /\ j.item \in 1 .. MaxItems
  BY <1>1, ItemTypes DEF InitInv, JobRecords
<1>3. ASSUME NEW at, at \in {"guard", "pass"}, jobs' = Append(Tail(jobs), [j EXCEPT !.at = at]),
             UNCHANGED <<passed, refused>>
      PROVE  NoWaiterIsLost'
  <2> DEFINE moved == [j EXCEPT !.at = at]
  <2>1. moved \in JobRecords /\ moved.dir = j.dir /\ moved.item = j.item
    BY <1>1, <1>3 DEF JobRecords
  <2>2. jobs' = Append(Tail(jobs), moved)
    BY <1>3
  <2> HIDE DEF moved
  <2>3. ASSUME NEW d \in Initialization!Directions, NEW n \in waited[d] PROVE WaiterFits(d, n)'
    <3>1. WaiterFits(d, n)
      BY DEF NoWaiterIsLost
    <3>2. IsAmong(jobs, d, n) => IsAmong(Append(Tail(jobs), moved), d, n)
      BY <1>1, <2>1, AmongFirst, AmongMore
    <3>3. IsAmong(jobs, d, n) => IsAmong(jobs, d, n)'
      BY <2>2, <3>2 DEF IsAmong
    <3> QED BY <1>1, <1>3, <3>1, <3>3 DEF WaiterFits, IsAmong
  <2> QED BY <1>1, <2>3 DEF NoWaiterIsLost, BarrierEnds
<1>4. ASSUME jobs' = Tail(jobs),
             \A d \in Initialization!Directions :
                /\ refused[d] \subseteq refused'[d]
                /\ \A n : (\E i \in 1 .. Len(passed[d]) : passed[d][i] = n)
                          => \E i \in 1 .. Len(passed'[d]) : passed'[d][i] = n,
             \/ j.item \in refused'[j.dir]
             \/ \E i \in 1 .. Len(passed'[j.dir]) : passed'[j.dir][i] = j.item
      PROVE  NoWaiterIsLost'
  <2>1. ASSUME NEW d \in Initialization!Directions, NEW n \in waited[d] PROVE WaiterFits(d, n)'
    <3>1. WaiterFits(d, n)
      BY DEF NoWaiterIsLost
    <3>2. IsAmong(jobs, d, n) => (j.dir = d /\ j.item = n) \/ IsAmong(Tail(jobs), d, n)
      BY <1>1, AmongFirst
    <3>3. IsAmong(jobs, d, n) => (j.dir = d /\ j.item = n) \/ IsAmong(jobs, d, n)'
      BY <1>4, <3>2 DEF IsAmong
    <3> QED BY <1>1, <1>4, <3>1, <3>3 DEF WaiterFits, IsAmong
  <2> QED BY <1>1, <2>1 DEF NoWaiterIsLost, BarrierEnds
<1>5. CASE j.at \in {"settled", "guard"}
  <2>1. \E at \in {"guard", "pass"} :
           jobs' = Append(Tail(jobs), [j EXCEPT !.at = at]) /\ UNCHANGED <<passed, refused>>
    BY <1>1, <1>5 DEF Initialization!RunJob
  <2> QED BY <1>3, <2>1
<1>6. CASE j.at = "pass"
  <2>1. /\ jobs' = Tail(jobs)
        /\ \/ /\ UNCHANGED refused
              /\ passed' = [passed EXCEPT ![j.dir] = Append(@, j.item)]
           \/ /\ refused' = [refused EXCEPT ![j.dir] = @ \cup {j.item}]
              /\ UNCHANGED passed
    BY <1>1, <1>6 DEF Initialization!RunJob
  <2>2. CASE UNCHANGED refused /\ passed' = [passed EXCEPT ![j.dir] = Append(@, j.item)]
    <3>1. /\ passed'[j.dir] = Append(passed[j.dir], j.item)
          /\ \A d \in Initialization!Directions \ {j.dir} : passed'[d] = passed[d]
      BY <1>2, <2>2
    <3>2. /\ Len(passed[j.dir]) \in Nat /\ Len(passed'[j.dir]) = Len(passed[j.dir]) + 1
          /\ passed'[j.dir][Len(passed[j.dir]) + 1] = j.item
          /\ \A i \in 1 .. Len(passed[j.dir]) : passed'[j.dir][i] = passed[j.dir][i]
      BY <1>2, <3>1, AppendFacts
    <3>3. /\ \A i \in 1 .. Len(passed[j.dir]) : i \in 1 .. Len(passed'[j.dir])
          /\ Len(passed[j.dir]) + 1 \in 1 .. Len(passed'[j.dir])
      BY <3>2
    <3>4. \A d \in Initialization!Directions : \A n :
             (\E i \in 1 .. Len(passed[d]) : passed[d][i] = n)
             => \E i \in 1 .. Len(passed'[d]) : passed'[d][i] = n
      BY <3>1, <3>2, <3>3, Zenon
    <3>5. \E i \in 1 .. Len(passed'[j.dir]) : passed'[j.dir][i] = j.item
      BY <3>2, <3>3
    <3> QED BY <1>4, <2>1, <2>2, <3>4, <3>5
  <2>3. CASE UNCHANGED passed /\ refused' = [refused EXCEPT ![j.dir] = @ \cup {j.item}]
    <3>1. j.item \in refused'[j.dir]
          /\ \A d \in Initialization!Directions : refused[d] \subseteq refused'[d]
      BY <1>2, <2>3
    <3> QED BY <1>4, <2>1, <2>3, <3>1
  <2> QED BY <2>1, <2>2, <2>3
<1> QED BY <1>1, <1>5, <1>6 DEF JobRecords

LEMMA WaitersStep ==
    ASSUME InitInv, NoWaiterIsLost, [Initialization!Next]_(Initialization!vars)
    PROVE  NoWaiterIsLost'
<1>1. CASE \E dir \in Initialization!Directions : Initialization!Arrive(dir)
  BY <1>1, ArriveWaiters
<1>2. CASE Initialization!RunJob
  BY <1>2, RunJobWaiters
<1>3. CASE \E ok \in BOOLEAN :
              \/ Initialization!ReceiveInitialize(ok) \/ Initialization!InitializeHandled(ok)
              \/ Initialization!ResponseWritten(ok) \/ Initialization!InitializeAnswered(ok)
              \/ Initialization!CallInitialize \/ Initialization!InitializeRejected
              \/ Initialization!ReceiveCancel \/ Initialization!Close
  BY <1>3, ExchangeWaiters
<1>4. CASE UNCHANGED Initialization!vars
  BY <1>4 DEF Initialization!vars, NoWaiterIsLost, BarrierEnds, WaiterFits, IsAmong
<1> QED BY <1>1, <1>2, <1>3, <1>4, Zenon DEF Initialization!Next

(* However initialize, its failure and the close race, and whoever arrives *)
(* meanwhile: what had to wait has passed, was refused, is a microtask     *)
(* that will do either, or waits for an exchange that is under way.  The   *)
(* safety part of WaitersSettle, for any number of messages and calls.     *)
THEOREM WaitersCanSettle == Initialization!Spec => []NoWaiterIsLost
<1>1. Initialization!Init => NoWaiterIsLost
  BY DEF Initialization!Init, NoWaiterIsLost, BarrierEnds
<1>2. InitInv /\ NoWaiterIsLost /\ [Initialization!Next]_(Initialization!vars) => NoWaiterIsLost'
  BY WaitersStep
<1> QED BY <1>1, <1>2, InitializationInvariance, PTL DEF Initialization!Spec

-----------------------------------------------------------------------------
(* ProtocolRouter: what an agent is given, and what the client is told.    *)

(* An agent is attached while route awaits its end, and no other agent     *)
(* comes; before that nothing of it is set.                                *)
AttachedOnce ==
    /\ agent # 0 <=> pc = "attached"
    /\ agent # 0 => Selects /\ agent = HighestCompatible(first.version)
    /\ agent = 0 => lifecycle = {} /\ starts = 0 /\ routed = "first"

(* What is refused is refused once, with the reason that there is.         *)
RefusedOnce ==
    /\ pc \in {"read", "write"} => replies = <<>>
    /\ pc = "write" => ~Selects
    /\ agent = 0 => Len(replies) <= 1 /\ (replies # <<>> => ~Selects)

(* A v1 agent's writer frames the first response, which is the one to      *)
(* initialize, and knows that it did.                                      *)
FramedOnce == agent = 1 => (responseFramed <=> first.batched /\ replies # <<>>)

NotFramedBefore == agent = 0 => ~responseFramed

(* The inductive invariant. *)
IInv ==
    /\ TypeOK
    /\ RoutedAsAsked
    /\ AttachedOnce
    /\ RefusedOnce
    /\ FramedOnce
    /\ NotFramedBefore

-----------------------------------------------------------------------------
Replies == [framed : BOOLEAN]

(* highestCompatible finds the highest version that is configured and does *)
(* not exceed the one requested, or 0 when there is none.                  *)
LEMMA HighestIsHighest ==
    ASSUME configured \subseteq {1, 2}, first.version \in Nat
    PROVE  LET v == HighestCompatible(first.version) IN
           /\ v \in {0, 1, 2}
           /\ v # 0 => IsHighest(v)
           /\ v = 0 => ~\E w \in configured : IsHighest(w)
BY DEF HighestCompatible, IsHighest

LEMMA FirstTypes ==
    ASSUME TypeOK
    PROVE  /\ configured \subseteq {1, 2} /\ first.version \in Nat
           /\ first.batched \in BOOLEAN /\ first.convertible \in BOOLEAN
BY VersionsAssumption DEF TypeOK, FirstItems

LEMMA BooleanTypes ==
    ASSUME TypeOK
    PROVE  /\ failed \in BOOLEAN /\ holdsReader \in BOOLEAN /\ outputLocked \in BOOLEAN
           /\ agentClosed \in BOOLEAN /\ responseFramed \in BOOLEAN
           /\ startRequested \in BOOLEAN /\ isFinished \in BOOLEAN
BY DEF TypeOK

(* The initial states satisfy it. *)
THEOREM InitIInv == Init => IInv
<1> SUFFICES ASSUME Init PROVE IInv OBVIOUS
<1> USE DEF Init
<1>1. TypeOK
  <2>1. <<>> \in Seq([framed : BOOLEAN]) BY EmptySeq
  <2>2. 0 \in 0 .. 1 /\ {} \subseteq {"closed", "start"} OBVIOUS
  <2>3. configured \subseteq {1, 2} OBVIOUS
  <2>4. {failed, holdsReader, outputLocked, agentClosed, responseFramed, startRequested,
         isFinished} \subseteq BOOLEAN
    OBVIOUS
  <2> QED BY <2>1, <2>2, <2>3, <2>4, Zenon DEF TypeOK
<1>2. RoutedAsAsked BY DEF RoutedAsAsked
<1>3. AttachedOnce BY DEF AttachedOnce
<1>4. RefusedOnce BY DEF RefusedOnce
<1>5. FramedOnce /\ NotFramedBefore BY DEF FramedOnce, NotFramedBefore
<1> QED BY <1>1, <1>2, <1>3, <1>4, <1>5 DEF IInv

(* Steps that change neither what was asked, nor the agent, nor what it    *)
(* offers and answered; what remains may go from one end of route to the   *)
(* other.                                                                  *)
LEMMA RouteGoesOn ==
    ASSUME IInv, UNCHANGED <<setup, agent, lifecycle, responseFramed, handlers, replies>>,
           TypeOK',
           pc' = pc \/ (pc \notin {"attached", "read"} /\ pc' \in {"cancel", "abort", "end", "close"})
                    \/ (pc = "read" /\ pc' \in {"close", "abort", "cancel"}),
           routed' = routed \/ pc = "attached"
    PROVE  IInv'
<1> USE DEF IInv, setup, handlers
<1>1. RoutedAsAsked' BY DEF RoutedAsAsked, IsHighest
<1>2. AttachedOnce' BY DEF AttachedOnce, Selects, HighestCompatible
<1>3. RefusedOnce' BY DEF RefusedOnce, Selects, HighestCompatible
<1>4. FramedOnce' /\ NotFramedBefore' BY DEF FramedOnce, NotFramedBefore
<1> QED BY <1>1, <1>2, <1>3, <1>4

(* The agent that is selected gets the connection, and its handlers start  *)
(* if they were asked for.                                                 *)
LEMMA AttachKeepsIInv ==
    ASSUME IInv, pc = "read", Selects, Attach, UNCHANGED <<setup, replies>> PROVE IInv'
<1> USE DEF IInv, setup
<1>1. /\ agent = 0 /\ starts = 0 /\ replies = <<>> /\ responseFramed = FALSE
  BY BooleanTypes DEF AttachedOnce, RefusedOnce, NotFramedBefore
<1>2. /\ agent' = HighestCompatible(first.version) /\ agent' \in {1, 2} /\ IsHighest(agent')
  BY FirstTypes, HighestIsHighest DEF Attach, Selects
<1>3. /\ lifecycle' \subseteq {"closed", "start"} /\ outputLocked' = TRUE /\ pc' = "attached"
      /\ UNCHANGED <<isFinished, failed, input, output, holdsReader, agentClosed, routed,
                     responseFramed, startRequested>>
  BY DEF Attach, GoOn
<1>4. starts' = IF startRequested /\ "start" \in lifecycle' THEN 1 ELSE 0
  BY <1>1 DEF Attach, MaybeStart
<1>5. TypeOK'
  <2>1. starts' \in 0 .. 1 BY <1>4
  <2>2. {failed, holdsReader, outputLocked, agentClosed, responseFramed, startRequested,
         isFinished}' \subseteq BOOLEAN
    BY <1>3, BooleanTypes
  <2>3. agent' \in {0, 1, 2} BY <1>2
  <2> QED BY <1>3, <2>1, <2>2, <2>3, Zenon DEF TypeOK
<1>6. RoutedAsAsked'
  <2>1. IsHighest(agent)' BY <1>2 DEF IsHighest
  <2>2. agent' # 0 /\ replies' = <<>> BY <1>1, <1>2
  <2> QED BY <1>3, <1>4, <2>1, <2>2 DEF RoutedAsAsked
<1>7. AttachedOnce'
  <2>1. Selects' /\ HighestCompatible(first.version)' = HighestCompatible(first.version)
    BY DEF Selects, HighestCompatible
  <2> QED BY <1>2, <1>3, <2>1 DEF AttachedOnce
<1>8. RefusedOnce' BY <1>1, <1>2, <1>3 DEF RefusedOnce
<1>9. FramedOnce' /\ NotFramedBefore' BY <1>1, <1>2, <1>3 DEF FramedOnce, NotFramedBefore
<1> QED BY <1>5, <1>6, <1>7, <1>8, <1>9

(* route takes the first item, or finds that there is none.                *)
LEMMA ReadKeepsIInv == ASSUME IInv, ReadFirst \/ ReadNothing PROVE IInv'
<1> USE DEF IInv
<1>1. CASE ReadNothing
  <2>1. /\ pc = "read" /\ pc' \in {"close", "abort"} /\ holdsReader' = FALSE
        /\ UNCHANGED <<setup, ends, routing, handlers, replies, isFinished>>
        /\ failed' \in BOOLEAN
    BY <1>1, BooleanTypes DEF ReadNothing, GoOn, Throw
  <2>2. TypeOK'
    <3>1. {failed, holdsReader, outputLocked, agentClosed, responseFramed, startRequested,
           isFinished}' \subseteq BOOLEAN
      BY <2>1, BooleanTypes DEF ends, routing, handlers
    <3>2. pc' \in {"read", "write", "close", "cancel", "abort", "attached", "end"} BY <2>1
    <3> QED BY <2>1, <3>1, <3>2 DEF TypeOK, setup, ends, routing, handlers
  <2> QED BY <2>1, <2>2, RouteGoesOn DEF routing
<1>2. CASE ReadFirst
  <2>1. pc = "read" /\ UNCHANGED <<setup, replies>> BY <1>2 DEF ReadFirst
  <2>2. CASE first.kind = "quiet"
    <3>1. GoOn("close") /\ UNCHANGED <<ends, holdsReader, routing, handlers>>
      BY <1>2, <2>2 DEF ReadFirst, Selects
    <3>2. TypeOK' BY <2>1, <3>1 DEF TypeOK, GoOn, setup, ends, routing, handlers
    <3> QED BY <2>1, <3>1, <3>2, RouteGoesOn DEF GoOn, routing
  <2>3. CASE Selects
    <3>1. Attach \/ ConnectFails BY <1>2, <2>3 DEF ReadFirst, Selects
    <3>2. CASE Attach BY <2>1, <2>3, <3>2, AttachKeepsIInv
    <3>3. CASE ConnectFails
      <4>1. /\ outputLocked' \in BOOLEAN /\ pc' = "cancel" /\ failed' = TRUE
            /\ UNCHANGED <<isFinished, input, output, holdsReader, routing, handlers>>
        BY <3>3 DEF ConnectFails, Throw
      <4>2. TypeOK' BY <2>1, <4>1, BooleanTypes DEF TypeOK, setup, routing, handlers
      <4> QED BY <2>1, <4>1, <4>2, RouteGoesOn DEF routing
    <3> QED BY <3>1, <3>2, <3>3
  <2>4. CASE first.kind # "quiet" /\ ~Selects
    <3>1. /\ pc' = "write" /\ UNCHANGED <<isFinished, failed, ends, holdsReader, routing, handlers>>
      BY <1>2, <2>4 DEF ReadFirst, GoOn
    <3> USE DEF setup, routing, handlers
    <3>2. TypeOK' BY <2>1, <3>1 DEF TypeOK, ends
    <3>3. RoutedAsAsked' BY <2>1, <3>1 DEF RoutedAsAsked, IsHighest
    <3>4. AttachedOnce' BY <2>1, <3>1 DEF AttachedOnce, Selects, HighestCompatible
    <3>5. RefusedOnce' BY <2>1, <2>4, <3>1 DEF RefusedOnce, Selects, HighestCompatible
    <3>6. FramedOnce' /\ NotFramedBefore' BY <2>1, <3>1 DEF FramedOnce, NotFramedBefore
    <3> QED BY <3>2, <3>3, <3>4, <3>5, <3>6
  <2> QED BY <2>2, <2>3, <2>4
<1> QED BY <1>1, <1>2

(* The error is written, in the framing of the request.                    *)
LEMMA WriteErrorKeepsIInv == ASSUME IInv, WriteError PROVE IInv'
<1> USE DEF IInv
<1>1. /\ pc = "write" /\ UNCHANGED <<setup, ends, holdsReader, routing, handlers, isFinished>>
  BY DEF WriteError, GoOn, Throw
<1>2. CASE output # "open"
  <2>1. pc' = "cancel" /\ failed' = TRUE /\ UNCHANGED replies BY <1>2 DEF WriteError, Throw
  <2>2. TypeOK' BY <1>1, <2>1, BooleanTypes DEF TypeOK, setup, ends, routing, handlers
  <2> QED BY <1>1, <2>1, <2>2, RouteGoesOn DEF routing
<1>3. CASE output = "open"
  <2> DEFINE reply == [framed |-> first.batched /\ first.kind = "initialize"]
  <2>1. pc' = "close" /\ UNCHANGED failed /\ replies' = Append(replies, reply)
    BY <1>3 DEF WriteError, GoOn
  <2>2. /\ replies = <<>> /\ ~Selects /\ agent = 0
    BY <1>1 DEF RefusedOnce, AttachedOnce
  <2>3. reply \in Replies /\ replies \in Seq(Replies) BY DEF Replies, TypeOK
  <2>4. replies' \in Seq(Replies) /\ Len(replies') = 1 /\ replies'[1] = reply
    BY <2>1, <2>2, <2>3, AppendFacts
  <2> USE DEF setup, routing, handlers
  <2>5. TypeOK' BY <1>1, <2>1, <2>4 DEF TypeOK, ends, Replies
  <2>6. RoutedAsAsked'
    <3>1. first.kind = "initialize" =>
              \/ ~\E v \in configured : IsHighest(v)
              \/ first.version > MaxProtocolVersion
              \/ ~first.convertible
      <4> SUFFICES ASSUME first.kind = "initialize", ~(first.version > MaxProtocolVersion),
                          first.convertible
                   PROVE  ~\E v \in configured : IsHighest(v)
        OBVIOUS
      <4>1. first.version <= MaxProtocolVersion BY FirstTypes DEF MaxProtocolVersion
      <4>2. HighestCompatible(first.version) = 0 BY <2>2, <4>1 DEF Selects
      <4> QED BY <4>2, FirstTypes, HighestIsHighest
    <3>2. \A i \in 1 .. Len(replies') :
              replies'[i].framed <=> i = 1 /\ first.batched /\ first.kind = "initialize"
      <4>1. reply.framed <=> first.batched /\ first.kind = "initialize" OBVIOUS
      <4>2. \A i \in 1 .. Len(replies') : i = 1 BY <2>4
      <4> QED BY <2>4, <4>1, <4>2
    <3> QED BY <1>1, <2>2, <3>1, <3>2 DEF RoutedAsAsked, IsHighest
  <2>7. AttachedOnce' BY <1>1, <2>1 DEF AttachedOnce, Selects, HighestCompatible
  <2>8. RefusedOnce' BY <1>1, <2>1, <2>2, <2>4 DEF RefusedOnce, Selects, HighestCompatible
  <2>9. FramedOnce' /\ NotFramedBefore' BY <1>1, <2>2 DEF FramedOnce, NotFramedBefore
  <2> QED BY <2>5, <2>6, <2>7, <2>8, <2>9
<1> QED BY <1>2, <1>3

(* The server asks for the handlers, early or late or again.               *)
LEMMA StartKeepsIInv == ASSUME IInv, StartConnectHandlers PROVE IInv'
<1> USE DEF IInv, setup, routing
<1>1. /\ startRequested' = TRUE
      /\ starts' = IF starts = 0 /\ "start" \in lifecycle THEN 1 ELSE starts
      /\ UNCHANGED <<setup, pc, failed, holdsReader, ends, routing, isFinished, replies>>
  BY DEF StartConnectHandlers, MaybeStart
<1>2. TypeOK' BY <1>1, BooleanTypes DEF TypeOK, ends
<1>3. starts' = IF agent # 0 /\ "start" \in lifecycle THEN 1 ELSE 0
  BY <1>1 DEF RoutedAsAsked, AttachedOnce
<1>4. RoutedAsAsked' BY <1>1, <1>3 DEF RoutedAsAsked, IsHighest
<1>5. AttachedOnce' BY <1>1, <1>3 DEF AttachedOnce, Selects, HighestCompatible
<1>6. RefusedOnce' BY <1>1 DEF RefusedOnce, Selects, HighestCompatible
<1>7. FramedOnce' /\ NotFramedBefore' BY <1>1 DEF FramedOnce, NotFramedBefore
<1> QED BY <1>2, <1>4, <1>5, <1>6, <1>7

(* The agent answers initialize, and then other requests.                  *)
LEMMA AgentWritesKeepsIInv ==
    ASSUME IInv, NEW toInitialize \in BOOLEAN, AgentWrites(toInitialize) PROVE IInv'
<1> USE DEF IInv, setup, handlers
<1> DEFINE reply == [framed |-> IF agent = 2 THEN Frames /\ toInitialize ELSE Frames]
<1>1. /\ pc = "attached" /\ (toInitialize <=> replies = <<>>)
      /\ replies' = Append(replies, reply)
      /\ responseFramed' = (responseFramed \/ (agent = 1 /\ Frames))
      /\ UNCHANGED <<setup, pc, failed, holdsReader, ends, agent, lifecycle, agentClosed,
                     routed, handlers, isFinished>>
  BY DEF AgentWrites
<1>2. agent \in {1, 2} /\ first.kind = "initialize" BY <1>1 DEF AttachedOnce, TypeOK, Selects
<1>3. reply.framed <=> replies = <<>> /\ first.batched
  BY <1>1, <1>2 DEF Frames, FramedOnce
<1>4. reply \in Replies /\ replies \in Seq(Replies)
  BY FirstTypes, BooleanTypes DEF Replies, TypeOK, Frames
<1> HIDE DEF reply
<1>5. /\ replies' \in Seq(Replies) /\ Len(replies') = Len(replies) + 1
      /\ replies'[Len(replies) + 1] = reply /\ \A i \in 1 .. Len(replies) : replies'[i] = replies[i]
  BY <1>1, <1>4, AppendFacts
<1>6. Len(replies) \in Nat /\ (replies = <<>> <=> Len(replies) = 0) BY <1>4, EmptySeq
<1>7. TypeOK'
  <2>1. responseFramed' \in BOOLEAN BY <1>1
  <2> QED BY <1>1, <1>5, <2>1, BooleanTypes DEF TypeOK, ends, Replies
<1>8. RoutedAsAsked'
  <2>1. \A i \in 1 .. Len(replies') : replies'[i].framed <=> i = 1 /\ first.batched
    <3> SUFFICES ASSUME NEW i \in 1 .. Len(replies')
                 PROVE  replies'[i].framed <=> i = 1 /\ first.batched
      OBVIOUS
    <3>1. CASE i \in 1 .. Len(replies) BY <1>2, <1>5, <3>1 DEF RoutedAsAsked
    <3>2. CASE i = Len(replies) + 1
      <4>1. replies'[i] = reply BY <1>5, <3>2
      <4>2. i = 1 <=> replies = <<>> BY <1>6, <3>2
      <4> QED BY <1>3, <4>1, <4>2
    <3> QED BY <1>5, <1>6, <3>1, <3>2
  <2> QED BY <1>1, <1>2, <2>1 DEF RoutedAsAsked, IsHighest
<1>9. AttachedOnce' BY <1>1, <1>2 DEF AttachedOnce, Selects, HighestCompatible
<1>10. RefusedOnce' BY <1>1, <1>2 DEF RefusedOnce
<1>11. FramedOnce' /\ NotFramedBefore'
  <2>1. replies' # <<>> BY <1>5, <1>6
  <2>2. agent = 1 => (responseFramed' <=> first.batched)
    BY <1>1, BooleanTypes, FirstTypes DEF FramedOnce, Frames
  <2> QED BY <1>1, <1>2, <2>1, <2>2 DEF FramedOnce, NotFramedBefore
<1> QED BY <1>7, <1>8, <1>9, <1>10, <1>11

(* Every step keeps it. *)
THEOREM NextIInv == ASSUME IInv, [Next]_vars PROVE IInv'
<1> USE DEF IInv
<1>1. CASE ReadFirst \/ ReadNothing BY <1>1, ReadKeepsIInv
<1>2. CASE WriteError BY <1>2, WriteErrorKeepsIInv
<1>3. CASE CloseOutput
  <2>1. /\ pc = "close" /\ pc' \in {"cancel", "abort", "end"} /\ failed' \in BOOLEAN
        /\ isFinished' \in BOOLEAN /\ output' \in {"open", "closed", "aborted", "errored"}
        /\ UNCHANGED <<setup, input, outputLocked, holdsReader, routing, handlers, replies>>
    BY <1>3, BooleanTypes DEF CloseOutput, GoOn, Throw, Return, TypeOK
  <2>2. TypeOK' BY <2>1, BooleanTypes DEF TypeOK, setup, routing, handlers
  <2> QED BY <2>1, <2>2, RouteGoesOn DEF routing
<1>4. CASE CancelInput
  <2>1. /\ pc = "cancel" /\ pc' \in {"abort", "end"} /\ failed' \in BOOLEAN
        /\ isFinished' \in BOOLEAN /\ input' \in {"open", "ended", "errored", "cancelled"}
        /\ holdsReader' = FALSE
        /\ UNCHANGED <<setup, output, outputLocked, routing, handlers, replies>>
    BY <1>4, BooleanTypes DEF CancelInput, GoOn, Throw, Return, TypeOK
  <2>3. {failed, holdsReader, outputLocked, agentClosed, responseFramed, startRequested,
         isFinished}' \subseteq BOOLEAN
    BY <2>1, BooleanTypes DEF routing, handlers
  <2>2. TypeOK'
    <3>1. /\ configured' \subseteq {1, 2} /\ first' \in FirstItems
          /\ agent' \in {0, 1, 2} /\ lifecycle' \subseteq {"closed", "start"}
          /\ routed' \in {"first", "open", "over"} /\ starts' \in 0 .. 1
          /\ replies' \in Seq([framed : BOOLEAN])
          /\ output' \in {"open", "closed", "aborted", "errored"}
      BY <2>1 DEF TypeOK, setup, routing, handlers
    <3> QED BY <2>1, <2>3, <3>1, Zenon DEF TypeOK
  <2> QED BY <2>1, <2>2, RouteGoesOn DEF routing
<1>5. CASE AbortOutput
  <2>1. /\ pc = "abort" /\ pc' = "end" /\ isFinished' \in BOOLEAN
        /\ output' \in {"open", "closed", "aborted", "errored"}
        /\ UNCHANGED <<setup, failed, holdsReader, input, outputLocked, routing, handlers, replies>>
    BY <1>5 DEF AbortOutput, OverAfterAbort, TypeOK
  <2>2. TypeOK' BY <2>1, BooleanTypes DEF TypeOK, setup, routing, handlers
  <2> QED BY <2>1, <2>2, RouteGoesOn DEF routing
<1>6. CASE StartConnectHandlers BY <1>6, StartKeepsIInv
<1>7. CASE TakeInitialize \/ RoutedEnds \/ RoutedCancelled
  <2>1. /\ pc = "attached" /\ pc' = pc /\ routed' \in {"first", "open", "over"}
        /\ input' \in {"open", "ended", "errored", "cancelled"}
        /\ holdsReader' \in BOOLEAN /\ isFinished' \in BOOLEAN
        /\ UNCHANGED <<setup, failed, output, outputLocked, agent, lifecycle, agentClosed,
                       responseFramed, handlers, replies>>
    BY <1>7, BooleanTypes DEF TakeInitialize, RoutedEnds, RoutedCancelled, ends, TypeOK
  <2>2. TypeOK' BY <2>1, BooleanTypes DEF TypeOK, setup, handlers
  <2> QED BY <2>1, <2>2, RouteGoesOn
<1>8. CASE AgentCloses
  <2>1. /\ pc' = pc /\ agentClosed' = TRUE /\ isFinished' = TRUE
        /\ UNCHANGED <<setup, failed, holdsReader, ends, agent, lifecycle, routed,
                       responseFramed, handlers, replies>>
    BY <1>8 DEF AgentCloses
  <2>2. TypeOK' BY <2>1, BooleanTypes DEF TypeOK, setup, ends, handlers
  <2> QED BY <2>1, <2>2, RouteGoesOn
<1>9. ASSUME NEW toInitialize \in BOOLEAN, AgentWrites(toInitialize) PROVE IInv'
  BY <1>9, AgentWritesKeepsIInv
<1>10. CASE OutputFails \/ \E how \in {"ended", "errored"} : InputEnds(how)
  <2>1. /\ pc' = pc /\ input' \in {"open", "ended", "errored", "cancelled"}
        /\ output' \in {"open", "closed", "aborted", "errored"}
        /\ UNCHANGED <<setup, failed, holdsReader, outputLocked, routing, handlers,
                       isFinished, replies>>
    BY <1>10 DEF OutputFails, InputEnds, TypeOK
  <2>2. TypeOK' BY <2>1, BooleanTypes DEF TypeOK, setup, routing, handlers
  <2> QED BY <2>1, <2>2, RouteGoesOn DEF routing
<1>11. CASE UNCHANGED vars
  <2>1. TypeOK' BY <1>11 DEF TypeOK, vars
  <2> QED BY <1>11, <2>1, RouteGoesOn DEF vars, setup, handlers
<1> QED
  BY <1>1, <1>2, <1>3, <1>4, <1>5, <1>6, <1>7, <1>8, <1>9, <1>10, <1>11 DEF Next

(* The invariant holds in every state. *)
THEOREM Invariance == Spec => []IInv
<1>1. Init => IInv BY InitIInv
<1>2. IInv /\ [Next]_vars => IInv' BY NextIInv
<1> QED BY <1>1, <1>2, PTL DEF Spec

(* The variables of the router keep their types, for any versions. *)
THEOREM TypeCorrect == Spec => []TypeOK
<1>1. IInv => TypeOK BY DEF IInv
<1> QED BY <1>1, Invariance, PTL

(* For any versions and any number of answers: the highest agent that      *)
(* suits gets the connection, its handlers start once, and a batched       *)
(* initialize, and nothing else, is answered with a batch.                 *)
THEOREM RoutesAsAsked == Spec => []RoutedAsAsked
<1>1. IInv => RoutedAsAsked BY DEF IInv
<1> QED BY <1>1, Invariance, PTL

(* route holds the reader of the input until it is done with it, or the    *)
(* agent is; the router's own `closed` has resolved when route has         *)
(* returned or, once it has attached an agent, when the client's messages  *)
(* or the agent's connection have ended: then, and not before.             *)
ClosedWhenOver ==
    /\ isFinished <=> pc = "end" \/ (pc = "attached" /\ (routed = "over" \/ agentClosed))
    /\ pc \in {"abort", "end"} \/ routed = "over" => ~holdsReader
    /\ agentClosed => pc = "attached"

LEMMA OverStep ==
    ASSUME IInv, ClosedWhenOver, [Next]_vars
    PROVE  ClosedWhenOver'
<1> USE DEF ClosedWhenOver, setup, ends, routing, handlers, GoOn, Throw, Return
<1>1. routed = "over" => pc = "attached"
  BY DEF IInv, AttachedOnce, TypeOK
<1>2. CASE ReadFirst
  BY <1>1, <1>2 DEF ReadFirst, Attach, ConnectFails
<1>3. CASE ReadNothing \/ WriteError
  BY <1>1, <1>3 DEF ReadNothing, WriteError
<1>4. CASE CloseOutput
  BY <1>1, <1>4, BooleanTypes DEF CloseOutput, IInv
<1>5. CASE CancelInput \/ AbortOutput
  BY <1>1, <1>5 DEF CancelInput, AbortOutput, OverAfterAbort
<1>6. CASE StartConnectHandlers
  <2>1. UNCHANGED <<pc, holdsReader, routed, agentClosed, isFinished>>
    BY <1>6 DEF StartConnectHandlers
  <2> QED BY <2>1
<1>7. ASSUME NEW toInitialize \in BOOLEAN, AgentWrites(toInitialize)
      PROVE  ClosedWhenOver'
  <2>1. UNCHANGED <<pc, holdsReader, routed, agentClosed, isFinished>>
    BY <1>7 DEF AgentWrites
  <2> QED BY <2>1
<1>8. CASE TakeInitialize \/ RoutedEnds \/ RoutedCancelled \/ AgentCloses
  BY <1>8 DEF TakeInitialize, RoutedEnds, RoutedCancelled, AgentCloses
<1>9. CASE OutputFails \/ \E how \in {"ended", "errored"} : InputEnds(how)
  BY <1>9 DEF OutputFails, InputEnds, IInv, TypeOK
<1>10. CASE UNCHANGED vars
  BY <1>10 DEF vars
<1> QED BY <1>2, <1>3, <1>4, <1>5, <1>6, <1>7, <1>8, <1>9, <1>10 DEF Next

(* "`closed` always resolves once the routed connection ends", and only    *)
(* then, with the reader released, however reads, writes and cancels fail: *)
(* the safety part of ClosedResolves, for any versions.                    *)
THEOREM ClosedOnlyWhenOver == Spec => []ClosedWhenOver
<1>1. Init => ClosedWhenOver
  BY DEF Init, ClosedWhenOver
<1>2. IInv /\ ClosedWhenOver /\ [Next]_vars => ClosedWhenOver'
  BY OverStep
<1> QED BY <1>1, <1>2, Invariance, PTL DEF Spec

-----------------------------------------------------------------------------
(* MCApplications: one of the parts runs, and what is proved of each holds.   *)

LEMMA StepOfPart ==
    [ApplicationsNext]_<<part, vars, sessionVars, initVars, sessionV2Vars>>
        => [V1!Next]_(V1!vars) /\ [Initialization!Next]_(Initialization!vars)
            /\ [V2!Next]_(V2!vars) /\ [Next]_vars
<1> SUFFICES ASSUME [ApplicationsNext]_<<part, vars, sessionVars, initVars, sessionV2Vars>>
             PROVE  [V1!Next]_(V1!vars) /\ [Initialization!Next]_(Initialization!vars)
                     /\ [V2!Next]_(V2!vars) /\ [Next]_vars
  OBVIOUS
<1> USE DEF V1!vars, Initialization!vars, V2!vars, sessionVars, initVars, sessionV2Vars
<1>1. CASE RouterNext
  BY <1>1 DEF RouterNext
<1>2. CASE SessionNext
  BY <1>2 DEF SessionNext
<1>3. CASE InitializationNext
  BY <1>3 DEF InitializationNext
<1>4. CASE SessionV2Next
  BY <1>4 DEF SessionV2Next
<1>5. CASE UNCHANGED <<part, vars, sessionVars, initVars, sessionV2Vars>>
  BY <1>5
<1> QED BY <1>1, <1>2, <1>3, <1>4, <1>5 DEF ApplicationsNext

(* Whichever part of the application APIs runs, it runs by its own module. *)
THEOREM PartsAreThere ==
    ApplicationsSpec => Spec /\ V1!Spec /\ Initialization!Spec /\ V2!Spec
<1>1. ApplicationsInit => Init /\ V1!Init /\ Initialization!Init /\ V2!Init
  BY DEF ApplicationsInit
<1> QED BY <1>1, StepOfPart, PTL
    DEF ApplicationsSpec, Spec, V1!Spec, Initialization!Spec, V2!Spec

(* All the invariants of the application APIs hold of the specification    *)
(* that is model-checked, for any values of its bounds.                    *)
THEOREM ApplicationsAreSafe ==
    ApplicationsSpec =>
        [](/\ RoutedAsAsked /\ PassesInitialized
           /\ InOrderOfTheWire /\ NoReaderWaits
           /\ InOrderOfTheWireV2 /\ TextIsOfOneTurn /\ NoReaderWaitsV2)
<1>1. /\ ApplicationsSpec => []RoutedAsAsked
      /\ ApplicationsSpec => []PassesInitialized
      /\ ApplicationsSpec => []InOrderOfTheWire
      /\ ApplicationsSpec => []NoReaderWaits
      /\ ApplicationsSpec => []InOrderOfTheWireV2
      /\ ApplicationsSpec => []TextIsOfOneTurn
      /\ ApplicationsSpec => []NoReaderWaitsV2
  BY PartsAreThere, RoutesAsAsked, NothingPassesBefore, SessionKeepsOrder, ReadersAreServed,
     SessionV2KeepsOrder, TextsAreOfOneTurn, ReadersAreServedV2, PTL
<1> QED BY <1>1, PTL
=============================================================================

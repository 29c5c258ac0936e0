--------------------------- MODULE SequenceFacts ---------------------------
(* What Append and Tail do to the elements of a sequence without repetitions, and *)
(* to the places where given elements stand: so counts of them can be compared.   *)
EXTENDS Sequences, Integers, Functions, FiniteSetTheorems, TLAPS

\* The elements of a queue after a push, and of a queue before and after a pop.
LEMMA RangeOfAppend ==
  ASSUME NEW S, NEW s \in Seq(S), NEW m \in S
  PROVE  Range(Append(s, m)) = Range(s) \cup {m}
<1>1. DOMAIN s = 1 .. Len(s) /\ DOMAIN Append(s, m) = 1 .. Len(s) + 1
  OBVIOUS
<1>2. \A i \in 1 .. Len(s) : Append(s, m)[i] = s[i]
  OBVIOUS
<1>3. Append(s, m)[Len(s) + 1] = m
  OBVIOUS
<1>4. 1 .. Len(s) + 1 = (1 .. Len(s)) \cup {Len(s) + 1}
  OBVIOUS
<1> QED
  BY <1>1, <1>2, <1>3, <1>4 DEF Range

LEMMA RangeOfTail ==
  ASSUME NEW S, NEW s \in Seq(S), s # <<>>
  PROVE  Range(s) = {Head(s)} \cup Range(Tail(s))
<1>1. DOMAIN s = 1 .. Len(s) /\ DOMAIN Tail(s) = 1 .. Len(s) - 1 /\ Len(s) \in Nat \ {0}
  OBVIOUS
<1>2. \A i \in 1 .. Len(s) - 1 : Tail(s)[i] = s[i + 1]
  OBVIOUS
<1>3. Head(s) = s[1]
  OBVIOUS
<1>4. ASSUME NEW i \in 1 .. Len(s) PROVE s[i] \in {Head(s)} \cup Range(Tail(s))
  <2>1. CASE i = 1
    BY <2>1, <1>3
  <2>2. CASE i # 1
    <3>1. i - 1 \in 1 .. Len(s) - 1 /\ Tail(s)[i - 1] = s[i]
      BY <2>2, <1>1, <1>2
    <3> QED
      BY <3>1, <1>1 DEF Range
  <2> QED
    BY <2>1, <2>2
<1>5. ASSUME NEW i \in 1 .. Len(s) - 1 PROVE Tail(s)[i] \in Range(s)
  <2>1. i + 1 \in DOMAIN s
    BY <1>1
  <2> QED
    BY <2>1, <1>2 DEF Range
<1>6. Head(s) \in Range(s)
  BY <1>1, <1>3 DEF Range
<1> QED
  BY <1>1, <1>4, <1>5, <1>6 DEF Range

\* Pushing a new element keeps a sequence free of repetitions, popping keeps it
\* free of them too, and what is popped is no longer there.
LEMMA InjectiveAppend ==
  ASSUME NEW S, NEW s \in Seq(S), NEW m \in S, IsInjective(s), m \notin Range(s)
  PROVE  IsInjective(Append(s, m))
<1>1. DOMAIN s = 1 .. Len(s) /\ DOMAIN Append(s, m) = 1 .. Len(s) + 1 /\ Len(s) \in Nat
  OBVIOUS
<1>2. \A i \in 1 .. Len(s) : Append(s, m)[i] = s[i] /\ s[i] # m
  BY <1>1 DEF Range
<1>3. Append(s, m)[Len(s) + 1] = m
  OBVIOUS
<1> SUFFICES ASSUME NEW a \in 1 .. Len(s) + 1, NEW b \in 1 .. Len(s) + 1,
                    Append(s, m)[a] = Append(s, m)[b]
             PROVE  a = b
  BY <1>1 DEF IsInjective
<1>4. CASE a \in 1 .. Len(s) /\ b \in 1 .. Len(s)
  BY <1>4, <1>1, <1>2 DEF IsInjective
<1>5. CASE a = Len(s) + 1 \/ b = Len(s) + 1
  BY <1>5, <1>1, <1>2, <1>3
<1> QED
  BY <1>4, <1>5, <1>1

LEMMA InjectiveTail ==
  ASSUME NEW S, NEW s \in Seq(S), s # <<>>, IsInjective(s)
  PROVE  IsInjective(Tail(s)) /\ Head(s) \notin Range(Tail(s))
<1>1. DOMAIN s = 1 .. Len(s) /\ DOMAIN Tail(s) = 1 .. Len(s) - 1 /\ Len(s) \in Nat \ {0}
  OBVIOUS
<1>2. \A i \in 1 .. Len(s) - 1 : Tail(s)[i] = s[i + 1] /\ i + 1 \in 1 .. Len(s)
  BY <1>1
<1>3. Head(s) = s[1] /\ 1 \in 1 .. Len(s)
  BY <1>1
<1>4. IsInjective(Tail(s))
  <2> SUFFICES ASSUME NEW a \in 1 .. Len(s) - 1, NEW b \in 1 .. Len(s) - 1,
                      Tail(s)[a] = Tail(s)[b]
               PROVE  a = b
    BY <1>1 DEF IsInjective
  <2>1. a + 1 = b + 1
    BY <1>1, <1>2 DEF IsInjective
  <2> QED
    BY <2>1
<1>5. ASSUME NEW i \in 1 .. Len(s) - 1 PROVE Tail(s)[i] # Head(s)
  <2>1. i + 1 # 1
    OBVIOUS
  <2> QED
    BY <2>1, <1>1, <1>2, <1>3 DEF IsInjective
<1> QED
  BY <1>1, <1>4, <1>5 DEF Range
-----------------------------------------------------------------------------
\* The places of a sequence where an element of E stands.
Places(s, E) == { i \in 1 .. Len(s) : s[i] \in E }

\* They can be counted.
LEMMA PlacesFinite ==
  ASSUME NEW S, NEW s \in Seq(S), NEW E
  PROVE  IsFiniteSet(Places(s, E)) /\ Places(s, E) \subseteq Nat \ {0}
<1>1. IsFiniteSet(1 .. Len(s)) /\ 1 .. Len(s) \subseteq Nat \ {0}
  BY FS_Interval
<1> QED
  BY <1>1, FS_Subset DEF Places

\* Appending adds the last place, or none.
LEMMA PlacesOfAppend ==
  ASSUME NEW S, NEW s \in Seq(S), NEW m \in S, NEW E
  PROVE  /\ Places(Append(s, m), E) = Places(s, E) \cup (IF m \in E THEN {Len(s) + 1} ELSE {})
         /\ Len(s) + 1 \notin Places(s, E)
<1>1. /\ Len(Append(s, m)) = Len(s) + 1 /\ Len(s) \in Nat
      /\ \A i \in 1 .. Len(s) : Append(s, m)[i] = s[i]
      /\ Append(s, m)[Len(s) + 1] = m
  OBVIOUS
<1>2. 1 .. Len(s) + 1 = (1 .. Len(s)) \cup {Len(s) + 1} /\ Len(s) + 1 \notin 1 .. Len(s)
  BY <1>1
<1> QED
  BY <1>1, <1>2 DEF Places

\* What is left after a pop stood one place further, and not at the front.
LEMMA PlacesOfTail ==
  ASSUME NEW S, NEW s \in Seq(S), s # <<>>, NEW E
  PROVE  /\ \A i \in Places(Tail(s), E) : i + 1 \in Places(s, E) /\ i + 1 # 1
         /\ Head(s) \in E => 1 \in Places(s, E)
<1>1. /\ Len(s) \in Nat \ {0} /\ Len(Tail(s)) = Len(s) - 1 /\ Head(s) = s[1]
      /\ \A i \in 1 .. Len(s) - 1 : Tail(s)[i] = s[i + 1]
  OBVIOUS
<1>2. ASSUME NEW i \in 1 .. Len(s) - 1 PROVE i + 1 \in 1 .. Len(s) /\ i + 1 # 1
  BY <1>1
<1> QED
  BY <1>1, <1>2 DEF Places

\* A set that maps into a finite one without collisions is no larger.
LEMMA NoMoreThan ==
  ASSUME NEW S, NEW T, IsFiniteSet(T), NEW f \in [S -> T],
         \A a, b \in S : f[a] = f[b] => a = b
  PROVE  IsFiniteSet(S) /\ Cardinality(S) <= Cardinality(T)
<1>1. f \in Injection(S, T)
  BY DEF Injection, IsInjective
<1> QED
  BY <1>1, FS_Injection

\* A set whose elements are all the same has at most one.
LEMMA AtMostOne ==
  ASSUME NEW S, \A a, b \in S : a = b
  PROVE  IsFiniteSet(S) /\ Cardinality(S) <= 1
<1>1. CASE S = {}
  BY <1>1, FS_EmptySet
<1>2. ASSUME NEW x \in S PROVE IsFiniteSet(S) /\ Cardinality(S) <= 1
  <2>1. S = {x}
    BY <1>2
  <2>2. IsFiniteSet({x}) /\ Cardinality({x}) = 1
    BY FS_Singleton
  <2> QED
    BY <2>1, <2>2
<1> QED
  BY <1>1, <1>2

\* Pairs of an element of D and a number, of which each element has one at most, or two:
\* the smaller and the greater one.
LEMMA FewPairs ==
  ASSUME NEW D, IsFiniteSet(D), NEW n \in {1, 2}, NEW u \in [D -> SUBSET Nat],
         \A w \in D : /\ \A i, j, k \in u[w] : i = j \/ j = k \/ i = k
                      /\ n = 1 => \A i, j \in u[w] : i = j
  PROVE  LET W == { p \in D \X Nat : p[2] \in u[p[1]] }
         IN /\ IsFiniteSet(W) /\ Cardinality(W) \in Nat
            /\ Cardinality(D) \in Nat /\ Cardinality(W) <= Cardinality(D) * n
<1> DEFINE W == { p \in D \X Nat : p[2] \in u[p[1]] }
           rank(p) == IF \E j \in u[p[1]] : j < p[2] THEN n ELSE 1
           T == D \X (1 .. n)
           f == [p \in W |-> <<p[1], rank(p)>>]
<1>1. IsFiniteSet(T) /\ Cardinality(T) = Cardinality(D) * n
  <2>1. IsFiniteSet(1 .. n) /\ Cardinality(1 .. n) = n
    <3>1. 1 \in Int /\ n \in Int /\ ~(1 > n) /\ n - 1 + 1 = n
      OBVIOUS
    <3> HIDE DEF W, rank, T, f
    <3>2. \A a, b \in Int : /\ IsFiniteSet(a .. b)
                           /\ Cardinality(a .. b) = IF a > b THEN 0 ELSE b - a + 1
      BY FS_Interval
    <3> QED
      BY <3>1, <3>2
  <2> QED
    BY <2>1, FS_Product
<1>2. f \in [W -> T]
  <2>1. ASSUME NEW p \in W PROVE p[1] \in D /\ rank(p) \in 1 .. n
    <3>1. n \in 1 .. n /\ 1 \in 1 .. n
      OBVIOUS
    <3>2. rank(p) = n \/ rank(p) = 1
      OBVIOUS
    <3> QED
      BY <3>1, <3>2
  <2> HIDE DEF W, rank
  <2> QED
    BY <2>1
<1>3. ASSUME NEW a \in W, NEW b \in W, f[a] = f[b] PROVE a = b
  <2>1. /\ a = <<a[1], a[2]>> /\ a[1] \in D /\ a[2] \in Nat /\ a[2] \in u[a[1]]
        /\ b = <<b[1], b[2]>> /\ b[1] \in D /\ b[2] \in Nat /\ b[2] \in u[b[1]]
    OBVIOUS
  <2>2. a[1] = b[1] /\ rank(a) = rank(b)
    <3> HIDE DEF W, rank
    <3> QED
      BY <1>3
  <2>3. CASE n = 1
    <3>1. a[2] = b[2]
      BY <2>1, <2>2, <2>3
    <3> QED
      BY <2>1, <2>2, <3>1
  <2>4. CASE n = 2
    <3>1. \A j \in u[a[1]] : j \in Nat
      BY <2>1
    <3>2. (\E j \in u[a[1]] : j < a[2]) <=> (\E j \in u[a[1]] : j < b[2])
      BY <2>2, <2>4
    <3>3. a[2] = b[2]
      BY <2>1, <2>2, <3>1, <3>2
    <3> QED
      BY <2>1, <2>2, <3>3
  <2> QED
    BY <2>3, <2>4
<1>4. Cardinality(D) \in Nat
  BY FS_CardinalityType
<1> HIDE DEF W, T, f
<1>5. IsFiniteSet(W) /\ Cardinality(W) <= Cardinality(T)
  BY <1>1, <1>2, <1>3, NoMoreThan
<1>6. Cardinality(W) \in Nat
  BY <1>5, FS_CardinalityType
<1> QED
  BY <1>1, <1>4, <1>5, <1>6 DEF W
=============================================================================

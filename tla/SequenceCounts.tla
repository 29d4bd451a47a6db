---------------------------- MODULE SequenceCounts ----------------------------
(* How often a value occurs in a sequence, the question every property about   *)
(* an audit trail asks.                                                        *)
EXTENDS Sequences, Integers, FiniteSets, FiniteSetTheorems, SequenceTheorems, TLAPS

\* The places at which a sequence holds a value.
Places(s, x) == {i \in DOMAIN s : s[i] = x}

LEMMA PlacesFinite ==
  ASSUME NEW T, NEW s \in Seq(T), NEW x
  PROVE  IsFiniteSet(Places(s, x)) /\ Cardinality(Places(s, x)) \in Nat
<1>1. DOMAIN s = 1..Len(s) /\ Len(s) \in Nat
  BY LenProperties
<1>2. Places(s, x) \subseteq 1..Len(s)
  BY <1>1 DEF Places
<1>3. IsFiniteSet(Places(s, x))
  <2>1. IsFiniteSet(1..Len(s))
    BY <1>1, FS_Interval
  <2>2. QED BY <1>2, <2>1, FS_Subset
<1>4. QED BY <1>3, FS_CardinalityType

\* Append adds one occurrence of what it appends and none of anything else.
LEMMA AppendCount ==
  ASSUME NEW T, NEW s \in Seq(T), NEW e \in T, NEW x
  PROVE  Cardinality(Places(Append(s, e), x)) =
           IF e = x THEN Cardinality(Places(s, x)) + 1 ELSE Cardinality(Places(s, x))
<1> DEFINE t == Append(s, e)
           n == Len(s) + 1
<1>1. /\ DOMAIN s = 1..Len(s) /\ Len(s) \in Nat
      /\ DOMAIN t = 1..n
      /\ \A i \in 1..Len(s) : t[i] = s[i]
      /\ t[n] = e
  <2>1. t \in Seq(T) /\ Len(t) = n
    BY AppendProperties
  <2>2. DOMAIN t = 1..n
    BY <2>1, LenProperties
  <2>3. QED BY <2>2, AppendProperties, LenProperties
<1> HIDE DEF t
<1>2. DOMAIN t = (DOMAIN s) \cup {n} /\ n \notin DOMAIN s
  BY <1>1
<1>3. CASE e = x
  <2>1. Places(t, x) = Places(s, x) \cup {n} /\ n \notin Places(s, x)
    BY <1>1, <1>2, <1>3 DEF Places
  <2>2. QED BY <1>3, <2>1, PlacesFinite, FS_AddElement DEF t
<1>4. CASE e # x
  <2>1. Places(t, x) = Places(s, x)
    BY <1>1, <1>2, <1>4 DEF Places
  <2>2. QED BY <1>4, <2>1 DEF t
<1>5. QED BY <1>3, <1>4

\* The sequence without what it holds at place k.
Without(s, k) == SubSeq(s, 1, k - 1) \o SubSeq(s, k + 1, Len(s))

LEMMA WithoutProperties ==
  ASSUME NEW T, NEW s \in Seq(T), NEW k \in 1..Len(s)
  PROVE  /\ Without(s, k) \in Seq(T)
         /\ Len(Without(s, k)) = Len(s) - 1
         /\ \A i \in 1..Len(s) - 1 : Without(s, k)[i] = IF i < k THEN s[i] ELSE s[i + 1]
<1> DEFINE n == Len(s)
           a == SubSeq(s, 1, k - 1)
           b == SubSeq(s, k + 1, n)
<1>1. n \in Nat /\ k \in Int /\ 1 <= k /\ k <= n /\ \A i \in 1..n : s[i] \in T
  BY LenProperties
<1>2. a \in Seq(T) /\ Len(a) = k - 1 /\ \A i \in 1..k - 1 : a[i] = s[i]
  <2>1. \A i \in 1..k - 1 : s[i] \in T
    BY <1>1
  <2>2. /\ a \in Seq(T)
        /\ Len(a) = IF 1 <= k - 1 THEN k - 1 - 1 + 1 ELSE 0
        /\ \A i \in 1..k - 1 - 1 + 1 : a[i] = s[1 + i - 1]
    BY <1>1, <2>1, SubSeqProperties
  <2> HIDE DEF a
  <2>3. QED BY <1>1, <2>2
<1>3. b \in Seq(T) /\ Len(b) = n - k /\ \A i \in 1..n - k : b[i] = s[k + i]
  <2>1. \A i \in k + 1..n : s[i] \in T
    BY <1>1
  <2>2. /\ b \in Seq(T)
        /\ Len(b) = IF k + 1 <= n THEN n - (k + 1) + 1 ELSE 0
        /\ \A i \in 1..n - (k + 1) + 1 : b[i] = s[k + 1 + i - 1]
    BY <1>1, <2>1, SubSeqProperties
  <2> HIDE DEF b
  <2>3. QED BY <1>1, <2>2
<1>4. Without(s, k) = a \o b
  BY DEF Without
<1> HIDE DEF a, b
<1>5. /\ a \o b \in Seq(T)
      /\ Len(a \o b) = Len(a) + Len(b)
      /\ \A i \in 1..Len(a) + Len(b) : (a \o b)[i] = IF i <= Len(a) THEN a[i] ELSE b[i - Len(a)]
  BY <1>2, <1>3, ConcatProperties
<1>6. QED BY <1>1, <1>2, <1>3, <1>4, <1>5

\* It holds one less of that and as many of anything else.
LEMMA WithoutCount ==
  ASSUME NEW T, NEW s \in Seq(T), NEW k \in 1..Len(s), NEW x
  PROVE  Cardinality(Places(Without(s, k), x)) =
           IF s[k] = x THEN Cardinality(Places(s, x)) - 1 ELSE Cardinality(Places(s, x))
<1> DEFINE r == Without(s, k)
           P == Places(s, x) \ {k}
           Q == Places(r, x)
           f == [i \in P |-> IF i < k THEN i ELSE i - 1]
<1>1. Len(s) \in Nat /\ DOMAIN s = 1..Len(s) /\ k \in Int /\ 1 <= k /\ k <= Len(s)
  BY LenProperties
<1>2. /\ DOMAIN r = 1..Len(s) - 1
      /\ \A i \in 1..Len(s) - 1 : r[i] = IF i < k THEN s[i] ELSE s[i + 1]
  <2>1. /\ r \in Seq(T) /\ Len(r) = Len(s) - 1
        /\ \A i \in 1..Len(s) - 1 : r[i] = IF i < k THEN s[i] ELSE s[i + 1]
    BY WithoutProperties
  <2> HIDE DEF r
  <2>2. DOMAIN r = 1..Len(r)
    BY <2>1, LenProperties
  <2>3. QED BY <2>1, <2>2
<1> HIDE DEF r
<1>3. \A i : i \in P <=> i \in 1..Len(s) /\ s[i] = x /\ i # k
  BY <1>1 DEF Places
<1>4. \A i : i \in Q <=> i \in 1..Len(s) - 1 /\ r[i] = x
  BY <1>2 DEF Places
<1> HIDE DEF P, Q
<1>5. \A i \in P : f[i] = (IF i < k THEN i ELSE i - 1) /\ f[i] \in Q
  BY <1>1, <1>2, <1>3, <1>4
<1>6. f \in Injection(P, Q)
  <2>1. \A i, j \in P : f[i] = f[j] => i = j
    BY <1>1, <1>3, <1>5
  <2>2. QED BY <1>5, <2>1 DEF Injection, IsInjective
<1>7. f \in Surjection(P, Q)
  <2>1. ASSUME NEW j \in Q PROVE \E i \in P : f[i] = j
    <3>1. CASE j < k
      <4>1. j \in P /\ f[j] = j
        BY <1>1, <1>2, <1>3, <1>4, <1>5, <3>1
      <4>2. QED BY <4>1
    <3>2. CASE ~(j < k)
      <4>1. j + 1 \in P /\ f[j + 1] = j
        BY <1>1, <1>2, <1>3, <1>4, <1>5, <3>2
      <4>2. QED BY <4>1
    <3>3. QED BY <3>1, <3>2
  <2>2. QED BY <1>5, <2>1 DEF Surjection
<1>8. ExistsBijection(P, Q)
  BY <1>6, <1>7 DEF ExistsBijection, Bijection
<1>9. IsFiniteSet(Places(s, x)) /\ Cardinality(Places(s, x)) \in Nat
  BY PlacesFinite
<1>10. /\ IsFiniteSet(P)
       /\ Cardinality(P) = IF k \in Places(s, x) THEN Cardinality(Places(s, x)) - 1
                                                 ELSE Cardinality(Places(s, x))
  BY <1>9, FS_RemoveElement DEF P
<1>11. Cardinality(Q) = Cardinality(P)
  BY <1>8, <1>10, FS_Bijection
<1>12. k \in Places(s, x) <=> s[k] = x
  BY <1>1 DEF Places
<1>13. QED BY <1>10, <1>11, <1>12 DEF Q, r
===============================================================================

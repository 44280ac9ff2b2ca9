----------------------------- MODULE QueueLemmas -----------------------------
(* What Append, Tail, RemoveFirst and a rotation do to the members of a    *)
(* duplicate-free sequence.                                                *)
EXTENDS SequencesExt, SequenceTheorems, TLAPS

LEMMA EmptyContainsNothing ==
  ASSUME NEW S, NEW s \in Seq(S)
  PROVE  s = <<>> <=> \A x \in S : ~ Contains(s, x)
<1>1. CASE s = <<>>
  BY <1>1 DEF Contains
<1>2. CASE s # <<>>
  <2>1. Len(s) \in Nat \ {0} /\ 1 \in 1 .. Len(s) /\ s[1] \in S
    BY <1>2, EmptySeq, LenProperties
  <2>2. Contains(s, s[1])
    BY <2>1 DEF Contains
  <2> QED
    BY <1>2, <2>1, <2>2
<1> QED
  BY <1>1, <1>2

LEMMA AppendMembers ==
  ASSUME NEW S, NEW s \in Seq(S), NEW e \in S, IsInjective(s), ~ Contains(s, e)
  PROVE  /\ Append(s, e) \in Seq(S)
         /\ IsInjective(Append(s, e))
         /\ \A x \in S : Contains(Append(s, e), x) <=> Contains(s, x) \/ x = e
<1> DEFINE t == Append(s, e)
<1>1. /\ t \in Seq(S)
      /\ Len(t) = Len(s) + 1
      /\ \A i \in 1 .. Len(s) : t[i] = s[i]
      /\ t[Len(s) + 1] = e
  BY AppendProperties
<1>2. /\ Len(s) \in Nat
      /\ DOMAIN s = 1 .. Len(s)
      /\ DOMAIN t = 1 .. Len(t)
  BY <1>1, LenProperties
<1> HIDE DEF t
<1>3. IsInjective(t)
  BY <1>1, <1>2 DEF IsInjective, Contains
<1>4. ASSUME NEW x \in S
      PROVE  Contains(t, x) <=> Contains(s, x) \/ x = e
  BY <1>1, <1>2 DEF Contains
<1> QED
  BY <1>1, <1>3, <1>4 DEF t

LEMMA TailMembers ==
  ASSUME NEW S, NEW s \in Seq(S), s # <<>>, IsInjective(s)
  PROVE  /\ Tail(s) \in Seq(S)
         /\ Head(s) \in S
         /\ Contains(s, Head(s))
         /\ IsInjective(Tail(s))
         /\ \A x \in S : Contains(Tail(s), x) <=> Contains(s, x) /\ x # Head(s)
<1> DEFINE t == Tail(s)
<1>1. /\ t \in Seq(S)
      /\ Len(t) = Len(s) - 1
      /\ \A i \in 1 .. Len(t) : t[i] = s[i + 1]
  BY HeadTailProperties
<1>2. /\ Len(s) \in Nat \ {0}
      /\ DOMAIN s = 1 .. Len(s)
      /\ DOMAIN t = 1 .. Len(t)
  BY <1>1, LenProperties, EmptySeq
<1>3. Head(s) = s[1] /\ s[1] \in S
  BY <1>2, LenProperties
<1> HIDE DEF t
<1>4. IsInjective(t)
  BY <1>1, <1>2 DEF IsInjective
<1>5. Contains(s, s[1])
  BY <1>2 DEF Contains
<1>6. ASSUME NEW x \in S
      PROVE  Contains(t, x) <=> Contains(s, x) /\ x # s[1]
  <2>1. ASSUME Contains(t, x)
        PROVE  Contains(s, x) /\ x # s[1]
    <3>1. PICK i \in 1 .. Len(t) : t[i] = x
      BY <2>1 DEF Contains
    <3>2. i + 1 \in 1 .. Len(s) /\ s[i + 1] = x /\ i + 1 # 1
      BY <3>1, <1>1, <1>2
    <3> QED
      BY <3>2, <1>2 DEF Contains, IsInjective
  <2>2. ASSUME Contains(s, x), x # s[1]
        PROVE  Contains(t, x)
    <3>1. PICK i \in 1 .. Len(s) : s[i] = x
      BY <2>2 DEF Contains
    <3>2. i - 1 \in 1 .. Len(t) /\ t[i - 1] = x
      BY <3>1, <2>2, <1>1, <1>2
    <3> QED
      BY <3>2 DEF Contains
  <2> QED
    BY <2>1, <2>2
<1> QED
  BY <1>1, <1>3, <1>4, <1>5, <1>6 DEF t

LEMMA SuffixElements ==
  ASSUME NEW S, NEW s \in Seq(S), NEW k \in 1 .. Len(s)
  PROVE  /\ SubSeq(s, k + 1, Len(s)) \in Seq(S)
         /\ Len(SubSeq(s, k + 1, Len(s))) = Len(s) - k
         /\ \A i \in 1 .. Len(s) - k : SubSeq(s, k + 1, Len(s))[i] = s[k + i]
<1>1. Len(s) \in Nat /\ \A i \in 1 .. Len(s) : s[i] \in S
  BY LenProperties
<1> QED
  BY <1>1, SubSeqProperties

LEMMA RemoveFirstMembers ==
  ASSUME NEW S, NEW s \in Seq(S), NEW e \in S, IsInjective(s)
  PROVE  /\ RemoveFirst(s, e) \in Seq(S)
         /\ IsInjective(RemoveFirst(s, e))
         /\ \A x \in S : Contains(RemoveFirst(s, e), x) <=> Contains(s, x) /\ x # e
         /\ \A i \in DOMAIN RemoveFirst(s, e), j \in DOMAIN s :
              RemoveFirst(s, e)[i] = s[j] => i <= j
<1>1. CASE ~ Contains(s, e)
  <2>1. RemoveFirst(s, e) = s
    BY <1>1 DEF RemoveFirst, Contains
  <2>2. \A i, j \in DOMAIN s : s[i] = s[j] => i <= j
    BY LenProperties DEF IsInjective
  <2> QED
    BY <2>1, <2>2, <1>1
<1>2. CASE Contains(s, e)
  <2>1. PICK k \in 1 .. Len(s) : s[k] = e
    BY <1>2 DEF Contains
  <2> DEFINE l == SubSeq(s, 1, k - 1)
             r == SubSeq(s, k + 1, Len(s))
             t == l \o r
  <2>2. Len(s) \in Nat /\ DOMAIN s = 1 .. Len(s) /\ \A i \in 1 .. Len(s) : s[i] \in S
    BY LenProperties
  <2>3. RemoveFirst(s, e) = t
    <3>1. {i \in 1 .. Len(s) : s[i] = e} = {k}
      BY <2>1, <2>2 DEF IsInjective
    <3>2. Min({k}) = k
      BY <2>2 DEF Min
    <3>3. SelectInSeq(s, LAMBDA v : v = e) = k
      BY <3>1, <3>2 DEF SelectInSeq
    <3> QED
      BY <2>1, <3>3 DEF RemoveFirst, RemoveAt
  <2>4. l \in Seq(S) /\ Len(l) = k - 1 /\ \A i \in 1 .. k - 1 : l[i] = s[i]
    BY <2>1, <2>2, SubSeqProperties
  <2>5. /\ r \in Seq(S) /\ Len(r) = Len(s) - k
        /\ \A i \in 1 .. Len(s) - k : r[i] = s[k + i]
    BY SuffixElements
  <2> HIDE DEF l, r
  <2>6. /\ t \in Seq(S) /\ Len(t) = Len(s) - 1
        /\ \A i \in 1 .. Len(s) - 1 : t[i] = IF i < k THEN s[i] ELSE s[i + 1]
    <3>1. /\ t \in Seq(S)
          /\ Len(t) = Len(l) + Len(r)
          /\ \A i \in 1 .. Len(l) + Len(r) : t[i] = IF i <= Len(l) THEN l[i] ELSE r[i - Len(l)]
      BY <2>4, <2>5, ConcatProperties
    <3> HIDE DEF t
    <3>2. ASSUME NEW i \in 1 .. Len(s) - 1
          PROVE  t[i] = IF i < k THEN s[i] ELSE s[i + 1]
      <4>1. CASE i < k
        <5>1. i \in 1 .. Len(l) + Len(r) /\ i <= Len(l) /\ i \in 1 .. k - 1
          BY <4>1, <2>1, <2>2, <2>4, <2>5
        <5> QED
          BY <5>1, <4>1, <3>1, <2>4
      <4>2. CASE i >= k
        <5>1. i - (k - 1) \in 1 .. Len(s) - k /\ k + (i - (k - 1)) = i + 1
          BY <4>2, <2>1, <2>2
        <5>2. /\ i \in 1 .. Len(l) + Len(r) /\ ~ (i <= Len(l))
              /\ i - Len(l) = i - (k - 1)
          BY <4>2, <2>1, <2>2, <2>4, <2>5
        <5>3. t[i] = r[i - (k - 1)]
          BY <5>2, <3>1
        <5>4. t[i] = s[i + 1]
          BY <5>1, <5>3, <2>5
        <5>5. ~ (i < k)
          BY <4>2, <2>1, <2>2
        <5> QED
          BY <5>4, <5>5
      <4> QED
        BY <4>1, <4>2, <2>1, <2>2
    <3> QED
      BY <3>1, <3>2, <2>1, <2>2, <2>4, <2>5
  <2>7. DOMAIN t = 1 .. Len(t)
    BY <2>6, LenProperties
  <2> HIDE DEF t
  <2>8. IsInjective(t)
    <3> SUFFICES ASSUME NEW i \in 1 .. Len(s) - 1, NEW j \in 1 .. Len(s) - 1, t[i] = t[j]
                 PROVE  i = j
      BY <2>6, <2>7 DEF IsInjective
    <3> DEFINE at(x) == IF x < k THEN x ELSE x + 1
    <3>1. /\ at(i) \in DOMAIN s /\ at(j) \in DOMAIN s
          /\ t[i] = s[at(i)] /\ t[j] = s[at(j)]
      BY <2>1, <2>2, <2>6
    <3>2. at(i) = at(j)
      <4> HIDE DEF at
      <4> QED
        BY <3>1 DEF IsInjective
    <3> QED
      BY <3>2, <2>1
  <2>9. ASSUME NEW x \in S
        PROVE  Contains(t, x) <=> Contains(s, x) /\ x # e
    <3>1. ASSUME Contains(t, x)
          PROVE  Contains(s, x) /\ x # e
      <4>1. PICK i \in 1 .. Len(t) : t[i] = x
        BY <3>1 DEF Contains
      <4>2. \E j \in 1 .. Len(s) : j # k /\ s[j] = x
        BY <4>1, <2>1, <2>2, <2>6
      <4> QED
        BY <4>2, <2>1, <2>2 DEF Contains, IsInjective
    <3>2. ASSUME Contains(s, x), x # e
          PROVE  Contains(t, x)
      <4>1. PICK i \in 1 .. Len(s) : s[i] = x
        BY <3>2 DEF Contains
      <4>2. i # k
        BY <4>1, <2>1, <3>2
      <4>3. \E j \in 1 .. Len(t) : t[j] = x
        <5>1. CASE i < k
          BY <5>1, <4>1, <2>1, <2>2, <2>6
        <5>2. CASE i > k
          <6>1. i - 1 \in 1 .. Len(t) /\ t[i - 1] = x
            BY <5>2, <4>1, <2>1, <2>2, <2>6
          <6> QED
            BY <6>1
        <5> QED
          BY <4>2, <5>1, <5>2, <2>1, <2>2
      <4> QED
        BY <4>3 DEF Contains
    <3> QED
      BY <3>1, <3>2
  <2>10. ASSUME NEW i \in DOMAIN t, NEW j \in DOMAIN s, t[i] = s[j]
         PROVE  i <= j
    <3>1. i \in 1 .. Len(s) - 1
      BY <2>6, <2>7
    <3>2. CASE i < k
      BY <3>1, <3>2, <2>1, <2>2, <2>6, <2>10 DEF IsInjective
    <3>3. CASE ~ (i < k)
      <4>1. s[i + 1] = s[j] /\ i + 1 \in DOMAIN s
        BY <3>1, <3>3, <2>2, <2>6, <2>10
      <4>2. j = i + 1
        BY <4>1 DEF IsInjective
      <4> QED
        BY <4>2, <3>1
    <3> QED
      BY <3>2, <3>3
  <2> QED
    BY <2>3, <2>6, <2>8, <2>9, <2>10
<1> QED
  BY <1>1, <1>2

LEMMA RotationMembers ==
  ASSUME NEW S, NEW s \in Seq(S), NEW k \in DOMAIN s, IsInjective(s)
  PROVE  LET t == SubSeq(s, k + 1, Len(s)) \o SubSeq(s, 1, k) IN
         /\ t \in Seq(S)
         /\ IsInjective(t)
         /\ \A x \in S : Contains(t, x) <=> Contains(s, x)
         /\ \A i \in DOMAIN t, j \in DOMAIN s : t[i] = s[j] /\ j > k => i = j - k
<1> DEFINE l == SubSeq(s, k + 1, Len(s))
           r == SubSeq(s, 1, k)
           t == l \o r
           n == Len(s) - k
<1>2. /\ Len(s) \in Nat /\ DOMAIN s = 1 .. Len(s) /\ k \in 1 .. Len(s)
      /\ \A i \in 1 .. Len(s) : s[i] \in S
  BY LenProperties
<1>3. n \in 0 .. Len(s) /\ k + n = Len(s) /\ k \in Nat /\ n \in Nat
  BY <1>2
<1>4. l \in Seq(S) /\ Len(l) = n /\ \A i \in 1 .. n : l[i] = s[k + i]
  BY <1>2, SuffixElements
<1>5. r \in Seq(S) /\ Len(r) = k /\ \A i \in 1 .. k : r[i] = s[i]
  BY <1>2, SubSeqProperties
<1> HIDE DEF l, r, n
<1>6. /\ t \in Seq(S) /\ Len(t) = Len(s)
      /\ \A i \in 1 .. Len(s) : t[i] = IF i <= n THEN s[k + i] ELSE s[i - n]
  <2>1. /\ t \in Seq(S)
        /\ Len(t) = Len(l) + Len(r)
        /\ \A i \in 1 .. Len(l) + Len(r) : t[i] = IF i <= Len(l) THEN l[i] ELSE r[i - Len(l)]
    BY <1>4, <1>5, ConcatProperties
  <2> HIDE DEF t
  <2>2. Len(l) + Len(r) = Len(s)
    BY <1>2, <1>3, <1>4, <1>5
  <2>3. ASSUME NEW i \in 1 .. Len(s)
        PROVE  t[i] = IF i <= n THEN s[k + i] ELSE s[i - n]
    <3>1. CASE i <= n
      BY <3>1, <2>1, <2>2, <1>2, <1>3, <1>4
    <3>2. CASE i > n
      <4>1. i - n \in 1 .. k
        BY <3>2, <1>2, <1>3
      <4>2. t[i] = r[i - n]
        BY <3>2, <2>1, <2>2, <1>2, <1>3, <1>4
      <4> QED
        BY <4>1, <4>2, <3>2, <1>2, <1>3, <1>5
    <3> QED
      BY <3>1, <3>2, <1>2, <1>3
  <2> QED
    BY <2>1, <2>2, <2>3
<1>7. DOMAIN t = 1 .. Len(t)
  BY <1>6, LenProperties
<1> HIDE DEF t
<1>8. IsInjective(t)
  <2>1. ASSUME NEW i \in 1 .. Len(s), NEW j \in 1 .. Len(s), i < j, t[i] = t[j]
        PROVE  FALSE
    <3>1. CASE j <= n
      <4>1. s[k + i] = s[k + j] /\ k + i \in DOMAIN s /\ k + j \in DOMAIN s
        BY <2>1, <3>1, <1>2, <1>3, <1>6
      <4> QED
        BY <4>1, <2>1, <1>3 DEF IsInjective
    <3>2. CASE i <= n /\ j > n
      <4>1. s[k + i] = s[j - n] /\ k + i \in DOMAIN s /\ j - n \in DOMAIN s
        <5>1. t[i] = s[k + i]
          BY <3>2, <1>6
        <5>2. t[j] = s[j - n]
          BY <3>2, <1>3, <1>6
        <5>3. k + i \in 1 .. Len(s) /\ j - n \in 1 .. Len(s)
          BY <3>2, <1>2, <1>3
        <5> QED
          BY <2>1, <5>1, <5>2, <5>3, <1>2
      <4>2. j - n <= k /\ k < k + i
        BY <2>1, <3>2, <1>2, <1>3
      <4> QED
        BY <4>1, <4>2, <1>2, <1>3 DEF IsInjective
    <3>3. CASE i > n
      <4>1. s[i - n] = s[j - n] /\ i - n \in DOMAIN s /\ j - n \in DOMAIN s
        BY <2>1, <3>3, <1>2, <1>3, <1>6
      <4> QED
        BY <4>1, <2>1, <1>2, <1>3 DEF IsInjective
    <3> QED
      BY <3>1, <3>2, <3>3, <1>2, <1>3
  <2> QED
    BY <2>1, <1>2, <1>6, <1>7 DEF IsInjective
<1>9. ASSUME NEW x \in S
      PROVE  Contains(t, x) <=> Contains(s, x)
  <2>1. ASSUME Contains(t, x)
        PROVE  Contains(s, x)
    <3>1. PICK i \in 1 .. Len(s) : t[i] = x
      BY <2>1, <1>6 DEF Contains
    <3>2. CASE i <= n
      <4>1. k + i \in 1 .. Len(s) /\ s[k + i] = x
        BY <3>1, <3>2, <1>2, <1>3, <1>6
      <4> QED
        BY <4>1 DEF Contains
    <3>3. CASE i > n
      <4>1. i - n \in 1 .. Len(s) /\ s[i - n] = x
        BY <3>1, <3>3, <1>2, <1>3, <1>6
      <4> QED
        BY <4>1 DEF Contains
    <3> QED
      BY <3>1, <3>2, <3>3, <1>2, <1>3
  <2>2. ASSUME Contains(s, x)
        PROVE  Contains(t, x)
    <3>1. PICK i \in 1 .. Len(s) : s[i] = x
      BY <2>2 DEF Contains
    <3>2. CASE i <= k
      <4>1. i + n \in 1 .. Len(t) /\ (i + n) - n = i /\ i + n > n
        BY <3>1, <3>2, <1>2, <1>3, <1>6
      <4>2. t[i + n] = x
        BY <4>1, <3>1, <1>2, <1>3, <1>6
      <4> QED
        BY <4>1, <4>2 DEF Contains
    <3>3. CASE i > k
      <4>1. i - k \in 1 .. Len(t) /\ k + (i - k) = i /\ i - k <= n
        BY <3>1, <3>3, <1>2, <1>3, <1>6
      <4>2. t[i - k] = x
        BY <4>1, <3>1, <1>2, <1>3, <1>6
      <4> QED
        BY <4>1, <4>2 DEF Contains
    <3> QED
      BY <3>1, <3>2, <3>3, <1>2
  <2> QED
    BY <2>1, <2>2
<1>10. ASSUME NEW i \in DOMAIN t, NEW j \in DOMAIN s, t[i] = s[j], j > k
       PROVE  i = j - k
  <2>1. j - k \in DOMAIN t /\ j - k <= n /\ k + (j - k) = j
    BY <1>2, <1>3, <1>6, <1>7, <1>10
  <2>2. t[j - k] = s[j]
    BY <2>1, <1>2, <1>6, <1>7
  <2> QED
    BY <2>1, <2>2, <1>8, <1>10 DEF IsInjective
<1> QED
  BY <1>6, <1>8, <1>9, <1>10 DEF t, l, r
=============================================================================

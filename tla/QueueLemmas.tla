----------------------------- MODULE QueueLemmas -----------------------------
(* What KeepOnly returns, for every sequence. *)
EXTENDS QueueOps, WellFoundedInduction, TLAPS

\* A non-empty set of natural numbers has a least element.
LEMMA LeastElement ==
  ASSUME NEW S \in SUBSET Nat, S # {}
  PROVE  \E m \in S : \A n \in S : m <= n
<1>1. \E R : IsWellFoundedOn(R, Nat) /\ \A a, b \in Nat : a < b => <<a, b>> \in R
  <2>1. \A a, b \in Nat : a < b => <<a, b>> \in OpToRel(<, Nat)
    BY Zenon DEF OpToRel
  <2>2. QED BY <2>1, NatLessThanWellFounded, Zenon
<1>2. PICK R : IsWellFoundedOn(R, Nat) /\ \A a, b \in Nat : a < b => <<a, b>> \in R
  BY <1>1
<1>3. \E m \in S : \A n \in S : ~ (<<n, m>> \in R)
  <2>1. IsWellFoundedOn(R, Nat) /\ S \subseteq Nat /\ S # {}
    BY <1>2
  <2>2. QED BY ONLY <2>1, WFMin
<1>4. PICK m \in S : \A n \in S : ~ (<<n, m>> \in R)
  BY <1>3
<1>5. ASSUME NEW n \in S PROVE m <= n
  <2>1. n \in Nat /\ m \in Nat
    OBVIOUS
  <2>2. ~ (n < m)
    BY <1>2, <1>4, <2>1, Zenon
  <2>3. QED BY <2>1, <2>2
<1>6. QED BY <1>5

\* Induction over the natural numbers, stated with a set.
LEMMA NatSetInduction ==
  ASSUME NEW S, 0 \in S, \A n \in Nat : n \in S => n + 1 \in S
  PROVE  Nat \subseteq S
<1>1. SUFFICES ASSUME Nat \ S # {} PROVE FALSE
  OBVIOUS
<1>2. PICK m \in Nat \ S : \A n \in Nat \ S : m <= n
  BY <1>1, LeastElement
<1>3. m - 1 \in Nat /\ m - 1 \in S
  BY <1>2
<1>4. QED BY <1>2, <1>3

-----------------------------------------------------------------------------

\* f lists what is kept of the first 0, 1, ..., n elements of q.
KeptBy(f, q, S, n) ==
  f = [i \in 0..n |-> IF i = 0 THEN <<>>
                      ELSE IF q[i] \in S THEN Append(f[i - 1], q[i]) ELSE f[i - 1]]

LEMMA KeptPointwise ==
  ASSUME NEW f, NEW q, NEW S, NEW n \in Nat, KeptBy(f, q, S, n)
  PROVE  \A i \in 0..n :
           f[i] = IF i = 0 THEN <<>>
                  ELSE IF q[i] \in S THEN Append(f[i - 1], q[i]) ELSE f[i - 1]
<1> DEFINE h == [i \in 0..n |-> IF i = 0 THEN <<>>
                               ELSE IF q[i] \in S THEN Append(f[i - 1], q[i]) ELSE f[i - 1]]
<1>1. TAKE i \in 0..n
<1>2. f[i] = h[i]
  BY Zenon DEF KeptBy
<1>3. QED BY <1>2

LEMMA KeptExists ==
  ASSUME NEW q, NEW S
  PROVE  \A n \in Nat : \E f : KeptBy(f, q, S, n)
<1> DEFINE N == {n \in Nat : \E f : KeptBy(f, q, S, n)}
<1>1. 0 \in N
  <2>1. KeptBy([i \in 0..0 |-> <<>>], q, S, 0)
    BY DEF KeptBy
  <2>2. QED BY <2>1
<1>2. ASSUME NEW n \in Nat, n \in N PROVE n + 1 \in N
  <2>1. PICK f : KeptBy(f, q, S, n)
    BY <1>2
  <2> DEFINE last == IF q[n + 1] \in S THEN Append(f[n], q[n + 1]) ELSE f[n]
             g == [i \in 0..(n + 1) |-> IF i = n + 1 THEN last ELSE f[i]]
             h == [i \in 0..(n + 1) |-> IF i = 0 THEN <<>>
                      ELSE IF q[i] \in S THEN Append(g[i - 1], q[i]) ELSE g[i - 1]]
  <2>2. ASSUME NEW i \in 0..(n + 1) PROVE g[i] = h[i]
    <3>1. CASE i = n + 1
      <4>1. g[i] = last /\ g[i - 1] = f[n]
        BY <3>1
      <4>2. QED BY <3>1, <4>1
    <3>2. CASE i = 0
      <4>1. g[i] = f[0] /\ f[0] = <<>>
        BY <2>1, <3>2, KeptPointwise
      <4>2. QED BY <3>2, <4>1
    <3>3. CASE i \in 1..n
      <4>1. g[i] = f[i] /\ g[i - 1] = f[i - 1]
        BY <3>3
      <4>2. f[i] = IF q[i] \in S THEN Append(f[i - 1], q[i]) ELSE f[i - 1]
        BY <2>1, <3>3, KeptPointwise
      <4>3. QED BY <3>3, <4>1, <4>2
    <3>4. QED BY <3>1, <3>2, <3>3
  <2>3. g = h
    <3> HIDE DEF last
    <3>1. QED BY <2>2
  <2>4. KeptBy(g, q, S, n + 1)
    BY <2>3 DEF KeptBy
  <2>5. QED BY <2>4
<1>3. Nat \subseteq N
  <2> HIDE DEF N
  <2>1. QED BY <1>1, <1>2, NatSetInduction
<1>4. QED BY <1>3

-----------------------------------------------------------------------------

\* e places k in the first n elements of q, in their order, and misses none
\* that is in S.
Places(e, k, q, S, n) ==
  /\ e \in [1..Len(k) -> 1..n]
  /\ \A i \in 1..Len(k) : k[i] = q[e[i]] /\ k[i] \in S
  /\ \A i, j \in 1..Len(k) : i < j => e[i] < e[j]
  /\ \A m \in 1..n : q[m] \in S => \E i \in 1..Len(k) : e[i] = m

\* What KeepOnly(q, S) keeps: exactly the elements in S, in their order.
LEMMA KeepOnlyPlaces ==
  ASSUME NEW T, NEW q \in Seq(T), NEW S
  PROVE  /\ KeepOnly(q, S) \in Seq(T)
         /\ \E e : Places(e, KeepOnly(q, S), q, S, Len(q))
<1> DEFINE f == CHOOSE g : KeptBy(g, q, S, Len(q))
<1>1. KeptBy(f, q, S, Len(q))
  BY KeptExists
<1>2. KeepOnly(q, S) = f[Len(q)]
  BY DEF KeepOnly, KeptBy
<1> HIDE DEF f
<1>3. \A i \in 0..Len(q) :
        f[i] = IF i = 0 THEN <<>>
               ELSE IF q[i] \in S THEN Append(f[i - 1], q[i]) ELSE f[i - 1]
  BY <1>1, KeptPointwise
<1> DEFINE N == {n \in Nat : n <= Len(q) =>
                   f[n] \in Seq(T) /\ \E e : Places(e, f[n], q, S, n)}
<1>4. 0 \in N
  <2>1. f[0] = <<>>
    BY <1>3
  <2>2. Places(<<>>, <<>>, q, S, 0)
    BY DEF Places
  <2>3. f[0] \in Seq(T) /\ \E e : Places(e, f[0], q, S, 0)
    BY <2>1, <2>2
  <2>4. QED BY <2>3
<1>5. ASSUME NEW n \in Nat, n \in N PROVE n + 1 \in N
  <2>1. SUFFICES ASSUME n + 1 <= Len(q)
                 PROVE  f[n + 1] \in Seq(T) /\ \E e : Places(e, f[n + 1], q, S, n + 1)
    OBVIOUS
  <2>2. f[n] \in Seq(T)
    BY <1>5, <2>1
  <2>3. PICK e : Places(e, f[n], q, S, n)
    BY <1>5, <2>1
  <2>4. q[n + 1] \in T
    BY <2>1
  <2>5. f[n + 1] = IF q[n + 1] \in S THEN Append(f[n], q[n + 1]) ELSE f[n]
    BY <1>3, <2>1
  <2>6. CASE q[n + 1] \notin S
    <3>1. f[n + 1] = f[n]
      BY <2>5, <2>6
    <3>2. Places(e, f[n], q, S, n + 1)
      BY <2>2, <2>3, <2>6 DEF Places
    <3>3. QED BY <2>2, <3>1, <3>2
  <2>7. CASE q[n + 1] \in S
    <3> DEFINE k == Append(f[n], q[n + 1])
               L == Len(f[n])
               d == [i \in 1..(L + 1) |-> IF i = L + 1 THEN n + 1 ELSE e[i]]
    <3>1. k \in Seq(T) /\ L \in Nat /\ Len(k) = L + 1
      BY <2>2, <2>4
    <3>2. /\ \A i \in 1..L : k[i] = f[n][i]
          /\ k[L + 1] = q[n + 1]
      BY <2>2, <2>4
    <3>3. /\ \A i \in 1..L : e[i] \in 1..n /\ f[n][i] = q[e[i]] /\ f[n][i] \in S
          /\ \A i, j \in 1..L : i < j => e[i] < e[j]
          /\ \A m \in 1..n : q[m] \in S => \E i \in 1..L : e[i] = m
      BY <2>3 DEF Places
    <3> HIDE DEF k, L
    <3>4. /\ \A i \in 1..L : d[i] = e[i]
          /\ d[L + 1] = n + 1
      BY <3>1
    <3>5. d \in [1..(L + 1) -> 1..(n + 1)]
      BY <3>1, <3>3
    <3> HIDE DEF d
    <3>6. \A i \in 1..(L + 1) : k[i] = q[d[i]] /\ k[i] \in S
      <4>1. TAKE i \in 1..(L + 1)
      <4>2. CASE i \in 1..L
        BY <4>2, <3>2, <3>3, <3>4
      <4>3. CASE i = L + 1
        BY <4>3, <2>7, <3>2, <3>4
      <4>4. QED BY <3>1, <4>2, <4>3
    <3>7. \A i, j \in 1..(L + 1) : i < j => d[i] < d[j]
      <4>1. TAKE i, j \in 1..(L + 1)
      <4>2. HAVE i < j
      <4>3. i \in 1..L /\ d[i] = e[i] /\ e[i] \in 1..n
        BY <3>1, <3>3, <3>4, <4>2
      <4>4. CASE j = L + 1
        BY <3>4, <4>3, <4>4
      <4>5. CASE j \in 1..L
        BY <3>3, <3>4, <4>2, <4>3, <4>5
      <4>6. QED BY <3>1, <4>4, <4>5
    <3>8. \A m \in 1..(n + 1) : q[m] \in S => \E i \in 1..(L + 1) : d[i] = m
      <4>1. TAKE m \in 1..(n + 1)
      <4>2. HAVE q[m] \in S
      <4>3. CASE m = n + 1
        BY <3>1, <3>4, <4>3
      <4>4. CASE m \in 1..n
        <5>1. PICK i \in 1..L : e[i] = m
          BY <3>3, <4>2, <4>4
        <5>2. QED BY <3>1, <3>4, <5>1
      <4>5. QED BY <4>3, <4>4
    <3>9. Places(d, k, q, S, n + 1)
      BY <3>1, <3>5, <3>6, <3>7, <3>8 DEF Places
    <3>10. f[n + 1] = k
      BY <2>5, <2>7 DEF k
    <3>11. QED BY <3>1, <3>9, <3>10
  <2>8. QED BY <2>6, <2>7
<1>6. Nat \subseteq N
  <2> HIDE DEF N
  <2>1. QED BY <1>4, <1>5, NatSetInduction
<1>7. QED
  <2>1. Len(q) \in Nat /\ Len(q) \in N
    BY <1>6
  <2>2. QED BY <1>2, <2>1

-----------------------------------------------------------------------------

LEMMA KeepOnlyElems ==
  ASSUME NEW T, NEW q \in Seq(T), NEW S
  PROVE  /\ KeepOnly(q, S) \in Seq(T)
         /\ ToSet(KeepOnly(q, S)) = ToSet(q) \cap S
<1> DEFINE k == KeepOnly(q, S)
<1>1. PICK e : Places(e, k, q, S, Len(q))
  BY KeepOnlyPlaces
<1>2. k \in Seq(T)
  BY KeepOnlyPlaces
<1> HIDE DEF k
<1>3. \A i \in 1..Len(k) : k[i] \in ToSet(q) \cap S
  BY <1>1 DEF Places, ToSet
<1>4. \A m \in 1..Len(q) : q[m] \in S => \E i \in 1..Len(k) : k[i] = q[m]
  BY <1>1 DEF Places
<1>5. ToSet(k) = ToSet(q) \cap S
  BY <1>2, <1>3, <1>4 DEF ToSet
<1>6. QED BY <1>2, <1>5 DEF k

LEMMA KeepOnlyDistinct ==
  ASSUME NEW T, NEW q \in Seq(T), NEW S, Distinct(q)
  PROVE  Distinct(KeepOnly(q, S))
<1> DEFINE k == KeepOnly(q, S)
<1>1. PICK e : Places(e, k, q, S, Len(q))
  BY KeepOnlyPlaces
<1>2. k \in Seq(T)
  BY KeepOnlyPlaces
<1> HIDE DEF k
<1>3. ASSUME NEW i \in 1..Len(k), NEW j \in 1..Len(k), k[i] = k[j] PROVE i = j
  <2>1. e[i] \in 1..Len(q) /\ e[j] \in 1..Len(q) /\ q[e[i]] = q[e[j]]
    BY <1>1, <1>3 DEF Places
  <2>2. e[i] = e[j]
    BY <2>1 DEF Distinct
  <2>3. (i < j => e[i] < e[j]) /\ (j < i => e[j] < e[i])
    BY <1>1 DEF Places
  <2>4. QED BY <1>2, <2>1, <2>2, <2>3
<1>4. QED BY <1>3 DEF Distinct, k

LEMMA KeepOnlyAhead ==
  ASSUME NEW T, NEW q \in Seq(T), NEW S, NEW a \in S, NEW b, WaitsAhead(q, a, b)
  PROVE  WaitsAhead(KeepOnly(q, S), a, b)
<1> DEFINE k == KeepOnly(q, S)
<1>1. PICK e : Places(e, k, q, S, Len(q))
  BY KeepOnlyPlaces
<1>2. k \in Seq(T)
  BY KeepOnlyPlaces
<1> HIDE DEF k
<1>3. PICK m \in 1..Len(q) : q[m] = a /\ \A j \in 1..m : q[j] # b
  BY DEF WaitsAhead
<1>4. PICK i \in 1..Len(k) : e[i] = m
  BY <1>1, <1>3 DEF Places
<1>5. k[i] = a
  BY <1>1, <1>3, <1>4 DEF Places
<1>6. ASSUME NEW j \in 1..i PROVE k[j] # b
  <2>1. j \in 1..Len(k) /\ (j < i \/ j = i)
    BY <1>2
  <2>2. e[j] \in 1..Len(q) /\ k[j] = q[e[j]] /\ (j < i => e[j] < e[i])
    BY <1>1, <2>1 DEF Places
  <2>3. e[j] \in 1..m
    BY <1>4, <2>1, <2>2
  <2>4. QED BY <1>3, <2>2, <2>3
<1>7. QED BY <1>5, <1>6 DEF WaitsAhead, k

LEMMA AppendElems ==
  ASSUME NEW T, NEW q \in Seq(T), NEW t \in T
  PROVE  /\ Append(q, t) \in Seq(T)
         /\ ToSet(Append(q, t)) = ToSet(q) \cup {t}
         /\ Distinct(q) /\ t \notin ToSet(q) => Distinct(Append(q, t))
         /\ \A a, b : WaitsAhead(q, a, b) => WaitsAhead(Append(q, t), a, b)
<1> DEFINE r == Append(q, t)
<1>1. /\ r \in Seq(T) /\ Len(r) = Len(q) + 1
      /\ \A i \in 1..Len(q) : r[i] = q[i]
      /\ r[Len(q) + 1] = t
  OBVIOUS
<1> HIDE DEF r
<1>2. ToSet(r) = ToSet(q) \cup {t}
  BY <1>1 DEF ToSet
<1>3. Distinct(q) /\ t \notin ToSet(q) => Distinct(r)
  BY <1>1 DEF Distinct, ToSet
<1>4. \A a, b : WaitsAhead(q, a, b) => WaitsAhead(r, a, b)
  BY <1>1 DEF WaitsAhead
<1>5. QED BY <1>1, <1>2, <1>3, <1>4 DEF r

LEMMA JoinElems ==
  ASSUME NEW T, NEW p \in Seq(T), NEW q \in Seq(T)
  PROVE  /\ p \o q \in Seq(T)
         /\ ToSet(p \o q) = ToSet(p) \cup ToSet(q)
         /\ Distinct(p) /\ Distinct(q) /\ ToSet(p) \cap ToSet(q) = {} => Distinct(p \o q)
         /\ \A a, b : WaitsAhead(p, a, b) => WaitsAhead(p \o q, a, b)
<1> DEFINE r == p \o q
<1>1. /\ r \in Seq(T) /\ Len(r) = Len(p) + Len(q)
      /\ \A i \in 1..Len(p) : r[i] = p[i]
      /\ \A i \in 1..Len(q) : r[Len(p) + i] = q[i]
      /\ \A i \in 1..Len(r) : i \in 1..Len(p) \/ \E j \in 1..Len(q) : i = Len(p) + j
  <2>1. ASSUME NEW i \in 1..(Len(p) + Len(q)), i \notin 1..Len(p)
        PROVE  \E j \in 1..Len(q) : i = Len(p) + j
    <3>1. i - Len(p) \in 1..Len(q) /\ i = Len(p) + (i - Len(p))
      BY <2>1
    <3>2. QED BY <3>1
  <2>2. QED BY <2>1
<1>2. /\ \A i \in 1..Len(p) : i \in 1..Len(r)
      /\ \A i \in 1..Len(q) : Len(p) + i \in 1..Len(r)
  OBVIOUS
<1> HIDE DEF r
<1>3. ToSet(r) = ToSet(p) \cup ToSet(q)
  <2>1. DOMAIN r = 1..Len(r) /\ DOMAIN p = 1..Len(p) /\ DOMAIN q = 1..Len(q)
    BY <1>1
  <2>2. \A i \in 1..Len(r) : r[i] \in ToSet(p) \cup ToSet(q)
    <3>1. TAKE i \in 1..Len(r)
    <3>2. CASE i \in 1..Len(p)
      BY <1>1, <2>1, <3>2, Zenon DEF ToSet
    <3>3. CASE \E j \in 1..Len(q) : i = Len(p) + j
      BY <1>1, <2>1, <3>3, Zenon DEF ToSet
    <3>4. QED BY <1>1, <3>2, <3>3, Zenon
  <2>3. \A i \in 1..Len(p) : p[i] \in ToSet(r)
    BY <1>1, <1>2, <2>1, Zenon DEF ToSet
  <2>4. \A i \in 1..Len(q) : q[i] \in ToSet(r)
    BY <1>1, <1>2, <2>1, Zenon DEF ToSet
  <2>5. QED BY <2>1, <2>2, <2>3, <2>4 DEF ToSet
<1>4. ASSUME Distinct(p), Distinct(q), ToSet(p) \cap ToSet(q) = {},
             NEW i \in 1..Len(r), NEW j \in 1..Len(r), r[i] = r[j]
      PROVE  i = j
  <2>1. ASSUME NEW m \in 1..Len(p), NEW n \in 1..Len(q) PROVE p[m] # q[n]
    <3>1. p[m] \in ToSet(p) /\ q[n] \in ToSet(q)
      BY DEF ToSet
    <3>2. QED BY <1>4, <3>1
  <2>2. CASE i \in 1..Len(p) /\ j \in 1..Len(p)
    BY <1>1, <1>4, <2>2, Zenon DEF Distinct
  <2>3. CASE i \in 1..Len(p) /\ \E n \in 1..Len(q) : j = Len(p) + n
    <3>1. PICK n \in 1..Len(q) : j = Len(p) + n
      BY <2>3
    <3>2. r[j] = q[n] /\ r[i] = p[i]
      BY <1>1, <2>3, <3>1, Zenon
    <3>3. QED BY <1>4, <2>1, <2>3, <3>2
  <2>4. CASE j \in 1..Len(p) /\ \E n \in 1..Len(q) : i = Len(p) + n
    <3>1. PICK n \in 1..Len(q) : i = Len(p) + n
      BY <2>4
    <3>2. r[i] = q[n] /\ r[j] = p[j]
      BY <1>1, <2>4, <3>1, Zenon
    <3>3. QED BY <1>4, <2>1, <2>4, <3>2
  <2>5. CASE /\ \E m \in 1..Len(q) : i = Len(p) + m
             /\ \E n \in 1..Len(q) : j = Len(p) + n
    <3>1. PICK m \in 1..Len(q), n \in 1..Len(q) : i = Len(p) + m /\ j = Len(p) + n
      BY <2>5
    <3>2. r[i] = q[m] /\ r[j] = q[n]
      BY <1>1, <3>1, Zenon
    <3>3. m = n
      BY <1>4, <3>2, Zenon DEF Distinct
    <3>4. QED BY <3>1, <3>3
  <2>6. QED BY <1>1, <2>2, <2>3, <2>4, <2>5, Zenon
<1>5. \A a, b : WaitsAhead(p, a, b) => WaitsAhead(r, a, b)
  <2>1. \A i \in 1..Len(p) : \A j \in 1..i : j \in 1..Len(p) /\ r[j] = p[j]
    BY <1>1
  <2>2. SUFFICES ASSUME NEW a, NEW b, WaitsAhead(p, a, b) PROVE WaitsAhead(r, a, b)
    OBVIOUS
  <2>3. PICK i \in 1..Len(p) : p[i] = a /\ \A j \in 1..i : p[j] # b
    BY <2>2 DEF WaitsAhead
  <2>4. i \in 1..Len(r) /\ r[i] = a /\ \A j \in 1..i : r[j] # b
    BY <1>1, <1>2, <2>1, <2>3, Zenon
  <2>5. QED BY <2>4 DEF WaitsAhead
<1>6. QED BY <1>1, <1>3, <1>4, <1>5 DEF r, Distinct
=============================================================================

------------------------------- MODULE TalkProofs -------------------------------
(***************************************************************************)
(* What sessions hear of each other, for any sizes: the answer to a call   *)
(* is the answer to that call; a message that was answered is on its way   *)
(* or there, in order; a full inbox lets a cry for help go last; nobody    *)
(* says or takes more than a share in a window; work stops being handed    *)
(* on; and nobody is waited for who went, nor said to be what it was not.  *)
(***************************************************************************)
EXTENDS MCTalk, Retaining, FiniteSetTheorems, WellFoundedInduction, TLAPS

----------------------------------------------------------------------------
\* Sequences.

\* A set of naturals that is not empty has a least element.
LEMMA LeastNat ==
  ASSUME NEW X \in SUBSET Nat, X # {}
  PROVE  \E n \in X : \A m \in X : n <= m
<1> DEFINE R == {pair \in Nat \X Nat : pair[1] < pair[2]}
<1>1. IsWellFoundedOn(R, Nat)
  BY NatLessThanWellFounded DEF OpToRel
<1>2. PICK n \in X : \A m \in X : ~(<<m, n>> \in R)
  <2> HIDE DEF R
  <2>1. QED
    BY <1>1, WFMin
<1>3. \A m \in X : ~(m < n)
  <2>1. SUFFICES ASSUME NEW m \in X, m < n
                 PROVE  FALSE
    OBVIOUS
  <2>2. <<m, n>> \in R
    BY <2>1
  <2>3. QED
    BY <2>2, <1>2
<1>4. QED
  BY <1>3

----------------------------------------------------------------------------
\* What Vec::retain leaves.

\* The places that are kept of a sequence of n.
LEMMA Ranked ==
  ASSUME NEW n \in Nat, NEW P \in SUBSET (1..n)
  PROVE  /\ IsFiniteSet(P) /\ Cardinality(P) \in 0..n
         /\ \A p \in P : Rank(p, P) \in 1..Cardinality(P)
         /\ \A p, q \in P : p < q => Rank(p, P) < Rank(q, P)
         /\ \A k \in 1..Cardinality(P) : \E p \in P : Rank(p, P) = k
<1> DEFINE UpTo(p) == {q \in P : q <= p}
<1>1. IsFiniteSet(P) /\ Cardinality(P) \in Nat /\ Cardinality(P) <= n
  <2>1. IsFiniteSet(1..n) /\ Cardinality(1..n) = n
    BY FS_Interval
  <2>2. IsFiniteSet(P) /\ Cardinality(P) <= Cardinality(1..n)
    BY <2>1, FS_Subset
  <2>3. QED
    BY <2>1, <2>2, FS_CardinalityType
<1>2. ASSUME NEW p \in P
      PROVE  IsFiniteSet(UpTo(p)) /\ Cardinality(UpTo(p)) \in 1..Cardinality(P)
  <2>1. UpTo(p) \subseteq P /\ p \in UpTo(p)
    OBVIOUS
  <2>2. IsFiniteSet(UpTo(p)) /\ Cardinality(UpTo(p)) <= Cardinality(P)
    BY <1>1, <2>1, FS_Subset
  <2>3. Cardinality(UpTo(p)) \in Nat /\ Cardinality(UpTo(p)) # 0
    BY <2>1, <2>2, FS_CardinalityType, FS_EmptySet
  <2>4. QED
    BY <1>1, <2>2, <2>3
<1>3. ASSUME NEW p \in P, NEW q \in P, p < q
      PROVE  Rank(p, P) < Rank(q, P)
  <2>1. UpTo(p) \subseteq UpTo(q) /\ q \in UpTo(q) /\ q \notin UpTo(p)
    <3>1. P \subseteq Nat
      OBVIOUS
    <3>2. \A r \in P : r <= p => r <= q
      BY <1>3, <3>1
    <3>3. ~(q <= p) /\ q <= q
      BY <1>3, <3>1
    <3>4. QED
      BY <3>2, <3>3
  <2>2. Cardinality(UpTo(p)) <= Cardinality(UpTo(q)) /\ Cardinality(UpTo(p)) # Cardinality(UpTo(q))
    <3> HIDE DEF UpTo
    <3>1. QED
      BY <1>2, <2>1, FS_Subset
  <2>3. QED
    BY <1>2, <2>2 DEF Rank
<1>4. \A p \in P : Rank(p, P) \in 1..Cardinality(P)
  BY <1>2 DEF Rank
<1> DEFINE rank == [p \in P |-> Rank(p, P)]
<1>5. rank \in Injection(P, 1..Cardinality(P))
  BY <1>3, <1>4 DEF Injection, IsInjective
<1>6. IsFiniteSet(1..Cardinality(P)) /\ Cardinality(1..Cardinality(P)) = Cardinality(P)
  BY <1>1, FS_Interval
<1>7. rank \in Surjection(P, 1..Cardinality(P))
  BY <1>5, <1>6, FS_Injection
<1>8. \A k \in 1..Cardinality(P) : \E p \in P : Rank(p, P) = k
  BY <1>7 DEF Surjection
<1>9. QED
  BY <1>1, <1>3, <1>4, <1>8

\* It is a sequence of what stood there, in the order it stood, and nothing kept is missing.
LEMMA Retained ==
  ASSUME NEW T, NEW s \in Seq(T), NEW P \in SUBSET (1..Len(s))
  PROVE  /\ Retain(s, P) \in Seq(T) /\ Len(Retain(s, P)) = Cardinality(P)
         /\ Len(Retain(s, P)) <= Len(s)
         /\ \E f \in [1..Cardinality(P) -> P] :
              /\ \A k \in 1..Cardinality(P) : Retain(s, P)[k] = s[f[k]]
              /\ \A k, l \in 1..Cardinality(P) : k < l => f[k] < f[l]
              /\ \A p \in P : \E k \in 1..Cardinality(P) : f[k] = p
<1> DEFINE f == [k \in 1..Cardinality(P) |-> CHOOSE p \in P : Rank(p, P) = k]
<1>0. /\ Len(s) \in Nat /\ Cardinality(P) \in 0..Len(s)
      /\ \A p \in P : p \in Nat /\ Rank(p, P) \in 1..Cardinality(P)
      /\ \A p, q \in P : p < q => Rank(p, P) < Rank(q, P)
      /\ \A k \in 1..Cardinality(P) : \E p \in P : Rank(p, P) = k
  <2>1. Len(s) \in Nat
    OBVIOUS
  <2>2. QED
    BY <2>1, Ranked
<1>1. \A p, q \in P : Rank(p, P) = Rank(q, P) => p = q
  BY <1>0
<1>2. \A k \in 1..Cardinality(P) : f[k] \in P /\ Rank(f[k], P) = k
  BY <1>0
<1>3. \A k \in 1..Cardinality(P) : Retain(s, P)[k] = s[f[k]]
  BY DEF Retain
<1>4. \A k, l \in 1..Cardinality(P) : k < l => f[k] < f[l]
  <2>1. SUFFICES ASSUME NEW k \in 1..Cardinality(P), NEW l \in 1..Cardinality(P), k < l
                 PROVE  f[k] < f[l]
    OBVIOUS
  <2>2. f[k] \in P /\ f[l] \in P /\ Rank(f[k], P) = k /\ Rank(f[l], P) = l
    BY <1>2
  <2> HIDE DEF f
  <2>3. f[k] \in Nat /\ f[l] \in Nat
    BY <1>0, <2>2
  <2>4. f[l] < f[k] => Rank(f[l], P) < Rank(f[k], P)
    BY <1>0, <2>2
  <2>5. QED
    BY <2>1, <2>2, <2>3, <2>4
<1>5. \A p \in P : \E k \in 1..Cardinality(P) : f[k] = p
  <2>1. SUFFICES ASSUME NEW p \in P
                 PROVE  \E k \in 1..Cardinality(P) : f[k] = p
    OBVIOUS
  <2>2. Rank(p, P) \in 1..Cardinality(P)
    BY <1>0
  <2>3. f[Rank(p, P)] \in P /\ Rank(f[Rank(p, P)], P) = Rank(p, P)
    BY <1>2, <2>2
  <2> HIDE DEF f
  <2>4. f[Rank(p, P)] = p
    BY <1>1, <2>3
  <2>5. QED
    BY <2>2, <2>4
<1>6. Retain(s, P) \in Seq(T) /\ Len(Retain(s, P)) = Cardinality(P)
  <2>1. \A k \in 1..Cardinality(P) : s[f[k]] \in T
    <3>1. \A p \in P : s[p] \in T
      OBVIOUS
    <3>2. QED
      BY <1>2, <3>1
  <2>2. Retain(s, P) \in [1..Cardinality(P) -> T]
    BY <1>3, <2>1 DEF Retain
  <2>3. QED
    BY <1>0, <2>2
<1>7. QED
  <2>1. f \in [1..Cardinality(P) -> P]
    BY <1>2
  <2> HIDE DEF f
  <2>2. \E g \in [1..Cardinality(P) -> P] :
          /\ \A k \in 1..Cardinality(P) : Retain(s, P)[k] = s[g[k]]
          /\ \A k, l \in 1..Cardinality(P) : k < l => g[k] < g[l]
          /\ \A p \in P : \E k \in 1..Cardinality(P) : g[k] = p
    BY <1>3, <1>4, <1>5, <2>1
  <2>3. Len(Retain(s, P)) <= Len(s)
    BY <1>0, <1>6
  <2>4. QED
    BY <1>6, <2>2, <2>3

\* What is kept of a sequence from some place on is the rest of it from there.
LEMMA RetainedTail ==
  ASSUME NEW T, NEW s \in Seq(T), NEW d \in 0..Len(s)
  PROVE  /\ Len(Retain(s, d + 1..Len(s))) = Len(s) - d
         /\ \A k \in 1..Len(s) - d : Retain(s, d + 1..Len(s))[k] = s[d + k]
<1> DEFINE P == d + 1..Len(s)
<1>1. P \in SUBSET (1..Len(s)) /\ Cardinality(P) = Len(s) - d /\ Len(s) \in Nat
  <2>1. Len(s) \in Nat /\ d \in Nat /\ d <= Len(s)
    OBVIOUS
  <2>2. Cardinality(P) = Len(s) - d
    <3>1. d + 1 \in Int /\ Len(s) \in Int
      BY <2>1
    <3>2. Cardinality(P) = IF d + 1 > Len(s) THEN 0 ELSE Len(s) - (d + 1) + 1
      BY <3>1, FS_Interval
    <3>3. QED
      BY <2>1, <3>2
  <2>3. QED
    BY <2>1, <2>2
<1>2. Len(Retain(s, P)) = Cardinality(P)
  BY <1>1, Retained
<1>3. ASSUME NEW k \in 1..Len(s) - d
      PROVE  Retain(s, P)[k] = s[d + k]
  <2>1. d + k \in P
    OBVIOUS
  <2>2. {q \in P : q <= d + k} = d + 1..d + k
    OBVIOUS
  <2>3. Rank(d + k, P) = k
    <3>1. d + 1 \in Int /\ d + k \in Int /\ ~(d + 1 > d + k) /\ (d + k) - (d + 1) + 1 = k
      OBVIOUS
    <3>2. Cardinality(d + 1..d + k) = k
      BY <3>1, FS_Interval
    <3>3. QED
      BY <2>2, <3>2 DEF Rank
  <2>4. \A p \in P : Rank(p, P) = k => p = d + k
    <3>1. \A p, q \in P : p < q => Rank(p, P) < Rank(q, P)
      BY <1>1, Ranked
    <3>2. \A p \in P : p \in Nat
      BY <1>1
    <3> HIDE DEF P
    <3>3. QED
      BY <2>1, <2>3, <3>1, <3>2
  <2>5. (CHOOSE p \in P : Rank(p, P) = k) = d + k
    BY <2>1, <2>3, <2>4
  <2>6. k \in 1..Cardinality(P)
    BY <1>1
  <2>7. QED
    BY <2>5, <2>6 DEF Retain
<1>4. QED
  BY <1>1, <1>2, <1>3

\* If whatever comes after a kept place is kept, it is the tail of the sequence.
LEMMA RetainedLate ==
  ASSUME NEW T, NEW s \in Seq(T), NEW P \in SUBSET (1..Len(s)),
         \A p \in P : \A q \in 1..Len(s) : p <= q => q \in P
  PROVE  \E d \in 0..Len(s) :
           /\ Retain(s, P) \in Seq(T) /\ Len(Retain(s, P)) = Len(s) - d
           /\ \A k \in 1..Len(s) - d : Retain(s, P)[k] = s[d + k]
           /\ \A i \in 1..Len(s) : i \in P <=> d < i
<1>0. Len(s) \in Nat /\ Retain(s, P) \in Seq(T)
  BY Retained
<1>1. PICK d \in 0..Len(s) : P = d + 1..Len(s)
  <2>1. CASE P = {}
    <3>1. Len(s) \in 0..Len(s) /\ P = Len(s) + 1..Len(s)
      BY <1>0, <2>1
    <3>2. QED
      BY <3>1
  <2>2. CASE P # {}
    <3>1. P \in SUBSET Nat
      OBVIOUS
    <3>2. PICK m \in P : \A p \in P : m <= p
      BY <2>2, <3>1, LeastNat
    <3>3. m - 1 \in 0..Len(s) /\ m \in 1..Len(s)
      BY <1>0, <3>2
    <3>4. \A q \in 1..Len(s) : m <= q => q \in P
      BY <3>2
    <3>5. P = (m - 1) + 1..Len(s)
      <4>1. m \in Int /\ (m - 1) + 1 = m
        BY <3>3
      <4>2. \A x \in P : x \in m..Len(s)
        BY <1>0, <3>2
      <4>3. \A x \in m..Len(s) : x \in P
        BY <1>0, <3>3, <3>4
      <4>4. QED
        BY <4>1, <4>2, <4>3
    <3>6. QED
      BY <3>3, <3>5
  <2>3. QED
    BY <2>1, <2>2
<1>2. /\ Len(Retain(s, P)) = Len(s) - d
      /\ \A k \in 1..Len(s) - d : Retain(s, P)[k] = s[d + k]
  BY <1>1, RetainedTail
<1>3. \A i \in 1..Len(s) : i \in P <=> d < i
  BY <1>0, <1>1
<1>4. QED
  BY <1>0, <1>2, <1>3

\* Two sequences one after the other, and one more at the end of a sequence.
LEMMA Joined ==
  ASSUME NEW T, NEW u \in Seq(T), NEW v \in Seq(T)
  PROVE  /\ u \o v \in Seq(T) /\ Len(u \o v) = Len(u) + Len(v)
         /\ \A k \in 1..Len(u) : (u \o v)[k] = u[k]
         /\ \A k \in 1..Len(v) : (u \o v)[Len(u) + k] = v[k]
OBVIOUS

\* A sequence with one more at its end.
LEMMA Added ==
  ASSUME NEW T, NEW s \in Seq(T), NEW x \in T
  PROVE  /\ Append(s, x) \in Seq(T) /\ Len(Append(s, x)) = Len(s) + 1
         /\ \A k \in 1..Len(s) : Append(s, x)[k] = s[k]
         /\ Append(s, x)[Len(s) + 1] = x
OBVIOUS

\* A sequence without its first.
LEMMA Rest ==
  ASSUME NEW T, NEW s \in Seq(T), s # <<>>
  PROVE  /\ Len(s) \in Nat \ {0} /\ Head(s) = s[1] /\ Head(s) \in T
         /\ Tail(s) \in Seq(T) /\ Len(Tail(s)) = Len(s) - 1
         /\ \A k \in 1..Len(s) - 1 : Tail(s)[k] = s[k + 1]
OBVIOUS

\* A sequence without one of its places.
Less(s, p) == SubSeq(s, 1, p - 1) \o SubSeq(s, p + 1, Len(s))

\* Everything but that place stands, in its order.
LEMMA Without ==
  ASSUME NEW T, NEW s \in Seq(T), NEW p \in 1..Len(s)
  PROVE  /\ Less(s, p) \in Seq(T) /\ Len(Less(s, p)) = Len(s) - 1
         /\ \A k \in 1..p - 1 : Less(s, p)[k] = s[k]
         /\ \A k \in p..Len(s) - 1 : Less(s, p)[k] = s[k + 1]
<1>1. Len(s) \in Nat /\ p \in Nat /\ 1 <= p /\ p <= Len(s)
  OBVIOUS
<1>2. /\ SubSeq(s, 1, p - 1) \in Seq(T) /\ Len(SubSeq(s, 1, p - 1)) = p - 1
      /\ \A k \in 1..p - 1 : SubSeq(s, 1, p - 1)[k] = s[k]
  BY <1>1
<1>3. /\ SubSeq(s, p + 1, Len(s)) \in Seq(T) /\ Len(SubSeq(s, p + 1, Len(s))) = Len(s) - p
      /\ \A k \in 1..Len(s) - p : SubSeq(s, p + 1, Len(s))[k] = s[p + k]
  BY <1>1
<1> DEFINE front == SubSeq(s, 1, p - 1)
           rest == SubSeq(s, p + 1, Len(s))
<1>a. front \in Seq(T) /\ rest \in Seq(T)
  BY <1>2, <1>3
<1>4. /\ front \o rest \in Seq(T) /\ Len(front \o rest) = Len(front) + Len(rest)
      /\ \A k \in 1..Len(front) : (front \o rest)[k] = front[k]
      /\ \A k \in 1..Len(rest) : (front \o rest)[Len(front) + k] = rest[k]
  <2> HIDE DEF front, rest
  <2>1. QED
    BY <1>a, Joined
<1>5. /\ Less(s, p) = front \o rest /\ Len(front) = p - 1 /\ Len(rest) = Len(s) - p
      /\ \A k \in 1..p - 1 : front[k] = s[k]
      /\ \A k \in 1..Len(s) - p : rest[k] = s[p + k]
  BY <1>2, <1>3 DEF Less
<1> HIDE DEF front, rest
<1>6. Less(s, p) \in Seq(T) /\ Len(Less(s, p)) = Len(s) - 1
  <2>1. (p - 1) + (Len(s) - p) = Len(s) - 1
    BY <1>1
  <2>2. QED
    BY <1>4, <1>5, <2>1
<1>7. \A k \in 1..p - 1 : Less(s, p)[k] = s[k]
  BY <1>4, <1>5
<1>8. ASSUME NEW k \in p..Len(s) - 1
      PROVE  Less(s, p)[k] = s[k + 1]
  <2>1. /\ k - (p - 1) \in 1..Len(s) - p /\ (p - 1) + (k - (p - 1)) = k
        /\ p + (k - (p - 1)) = k + 1
    BY <1>1
  <2>2. rest[k - (p - 1)] = s[k + 1]
    BY <1>5, <2>1
  <2>3. Less(s, p)[k] = rest[k - (p - 1)]
    BY <1>4, <1>5, <2>1
  <2>4. QED
    BY <2>2, <2>3
<1>9. QED
  BY <1>6, <1>7, <1>8

\* u is w with some of it left out.
Part(u, w) ==
  \E f \in [1..Len(u) -> 1..Len(w)] :
    /\ \A k, l \in 1..Len(u) : k < l => f[k] < f[l]
    /\ \A k \in 1..Len(u) : u[k] = w[f[k]]

\* What is retained of a sequence is a part of it ...
LEMMA PartRetained ==
  ASSUME NEW T, NEW s \in Seq(T), NEW P \in SUBSET (1..Len(s))
  PROVE  Part(Retain(s, P), s)
<1> DEFINE u == Retain(s, P)
<1>1. PICK f \in [1..Cardinality(P) -> P] :
        /\ \A k \in 1..Cardinality(P) : u[k] = s[f[k]]
        /\ \A k, l \in 1..Cardinality(P) : k < l => f[k] < f[l]
  BY Retained
<1>2. Len(u) = Cardinality(P)
  BY Retained
<1> HIDE DEF u
<1>3. f \in [1..Len(u) -> 1..Len(s)]
  BY <1>2
<1>4. Part(u, s)
  BY <1>1, <1>2, <1>3 DEF Part
<1>5. QED
  BY <1>4 DEF u

\* ... and so is what is left without one place ...
LEMMA PartLess ==
  ASSUME NEW T, NEW s \in Seq(T), NEW p \in 1..Len(s)
  PROVE  Part(Less(s, p), s)
<1> DEFINE u == Less(s, p)
           f == [k \in 1..Len(s) - 1 |-> IF k < p THEN k ELSE k + 1]
<1>1. Len(s) \in Nat /\ p \in Nat /\ p <= Len(s)
  OBVIOUS
<1>2. /\ Len(u) = Len(s) - 1
      /\ \A k \in 1..p - 1 : u[k] = s[k]
      /\ \A k \in p..Len(s) - 1 : u[k] = s[k + 1]
  BY Without
<1> HIDE DEF u
<1>3. f \in [1..Len(u) -> 1..Len(s)]
  BY <1>1, <1>2
<1>4. \A k, l \in 1..Len(u) : k < l => f[k] < f[l]
  BY <1>1, <1>2
<1>5. \A k \in 1..Len(u) : u[k] = s[f[k]]
  <2>1. SUFFICES ASSUME NEW k \in 1..Len(u)
                 PROVE  u[k] = s[f[k]]
    OBVIOUS
  <2>2. CASE k < p
    BY <1>1, <1>2, <2>2
  <2>3. CASE ~(k < p)
    BY <1>1, <1>2, <2>3
  <2>4. QED
    BY <2>2, <2>3
<1> HIDE DEF f
<1>6. Part(u, s)
  BY <1>3, <1>4, <1>5 DEF Part
<1>7. QED
  BY <1>6 DEF u

\* ... and what there is from some place on.
LEMMA PartFrom ==
  ASSUME NEW T, NEW s \in Seq(T), NEW n \in 0..Len(s)
  PROVE  /\ SubSeq(s, n + 1, Len(s)) \in Seq(T) /\ Len(SubSeq(s, n + 1, Len(s))) = Len(s) - n
         /\ Part(SubSeq(s, n + 1, Len(s)), s)
<1> DEFINE u == SubSeq(s, n + 1, Len(s))
           f == [k \in 1..Len(s) - n |-> n + k]
<1>1. Len(s) \in Nat /\ n \in Nat /\ n <= Len(s)
  OBVIOUS
<1>2. u \in Seq(T) /\ Len(u) = Len(s) - n /\ \A k \in 1..Len(s) - n : u[k] = s[n + k]
  BY <1>1
<1> HIDE DEF u
<1>3. f \in [1..Len(u) -> 1..Len(s)]
  BY <1>1, <1>2
<1>4. /\ \A k, l \in 1..Len(u) : k < l => f[k] < f[l]
      /\ \A k \in 1..Len(u) : u[k] = s[f[k]]
  BY <1>1, <1>2
<1> HIDE DEF f
<1>5. Part(u, s)
  BY <1>3, <1>4 DEF Part
<1>6. QED
  BY <1>2, <1>5 DEF u

\* A part of a sequence, with more after both, is a part of it with more.
LEMMA PartJoined ==
  ASSUME NEW T, NEW u \in Seq(T), NEW w \in Seq(T), NEW v \in Seq(T), Part(u, w)
  PROVE  Part(u \o v, w \o v)
<1> DEFINE a == u \o v
           b == w \o v
<1>1. /\ a \in Seq(T) /\ Len(a) = Len(u) + Len(v)
      /\ \A k \in 1..Len(u) : a[k] = u[k]
      /\ \A k \in 1..Len(v) : a[Len(u) + k] = v[k]
  BY Joined
<1>2. /\ b \in Seq(T) /\ Len(b) = Len(w) + Len(v)
      /\ \A k \in 1..Len(w) : b[k] = w[k]
      /\ \A k \in 1..Len(v) : b[Len(w) + k] = v[k]
  BY Joined
<1>3. Len(u) \in Nat /\ Len(w) \in Nat /\ Len(v) \in Nat
  OBVIOUS
<1>4. PICK f \in [1..Len(u) -> 1..Len(w)] :
        /\ \A k, l \in 1..Len(u) : k < l => f[k] < f[l]
        /\ \A k \in 1..Len(u) : u[k] = w[f[k]]
  BY DEF Part
<1> DEFINE g == [k \in 1..Len(u) + Len(v) |-> IF k <= Len(u) THEN f[k] ELSE Len(w) + (k - Len(u))]
<1> HIDE DEF a, b
<1>5. g \in [1..Len(a) -> 1..Len(b)]
  BY <1>1, <1>2, <1>3, <1>4
<1>6. \A k, l \in 1..Len(a) : k < l => g[k] < g[l]
  <2>1. SUFFICES ASSUME NEW k \in 1..Len(a), NEW l \in 1..Len(a), k < l
                 PROVE  g[k] < g[l]
    OBVIOUS
  <2>2. CASE l <= Len(u)
    BY <1>1, <1>3, <1>4, <2>1, <2>2
  <2>3. CASE k <= Len(u) /\ l > Len(u)
    <3>1. f[k] \in 1..Len(w) /\ g[k] = f[k] /\ g[l] = Len(w) + (l - Len(u))
      BY <1>1, <1>3, <1>4, <2>3
    <3>2. QED
      BY <1>1, <1>3, <2>3, <3>1
  <2>4. CASE k > Len(u)
    BY <1>1, <1>3, <2>1, <2>4
  <2>5. QED
    BY <1>1, <1>3, <2>2, <2>3, <2>4
<1>7. \A k \in 1..Len(a) : a[k] = b[g[k]]
  <2>1. SUFFICES ASSUME NEW k \in 1..Len(a)
                 PROVE  a[k] = b[g[k]]
    OBVIOUS
  <2>2. CASE k <= Len(u)
    <3>a. k \in 1..Len(u) /\ k \in 1..Len(u) + Len(v)
      BY <1>1, <1>3, <2>2
    <3>1. k \in 1..Len(u) /\ g[k] = f[k] /\ f[k] \in 1..Len(w)
      BY <1>4, <2>2, <3>a
    <3> HIDE DEF g
    <3>2. a[k] = u[k] /\ u[k] = w[f[k]] /\ b[f[k]] = w[f[k]]
      BY <1>1, <1>2, <1>4, <3>1
    <3>3. QED
      BY <3>1, <3>2
  <2>3. CASE k > Len(u)
    <3>1. k - Len(u) \in 1..Len(v) /\ Len(u) + (k - Len(u)) = k /\ g[k] = Len(w) + (k - Len(u))
      BY <1>1, <1>3, <2>3
    <3> HIDE DEF g
    <3>2. a[Len(u) + (k - Len(u))] = v[k - Len(u)] /\ b[Len(w) + (k - Len(u))] = v[k - Len(u)]
      BY <1>1, <1>2, <3>1
    <3>3. QED
      BY <3>1, <3>2
  <2>4. QED
    BY <1>1, <1>3, <2>2, <2>3
<1> HIDE DEF g
<1>8. Part(a, b)
  BY <1>5, <1>6, <1>7 DEF Part
<1>9. QED
  BY <1>8 DEF a, b

\* To move the first of one sequence to the end of the one before changes nothing.
LEMMA Moved ==
  ASSUME NEW T, NEW u \in Seq(T), NEW v \in Seq(T), v # <<>>
  PROVE  Append(u, Head(v)) \o Tail(v) = u \o v
<1> DEFINE a == Append(u, Head(v))
           r == Tail(v)
           x == u \o v
<1>1. /\ Len(v) \in Nat \ {0} /\ Head(v) = v[1] /\ Head(v) \in T
      /\ r \in Seq(T) /\ Len(r) = Len(v) - 1 /\ \A k \in 1..Len(v) - 1 : r[k] = v[k + 1]
  BY Rest
<1>2. /\ a \in Seq(T) /\ Len(a) = Len(u) + 1 /\ \A k \in 1..Len(u) : a[k] = u[k]
      /\ a[Len(u) + 1] = v[1]
  BY <1>1, Added
<1>3. /\ x \in Seq(T) /\ Len(x) = Len(u) + Len(v)
      /\ \A k \in 1..Len(u) : x[k] = u[k]
      /\ \A k \in 1..Len(v) : x[Len(u) + k] = v[k]
  BY Joined
<1>4. Len(u) \in Nat
  OBVIOUS
<1> HIDE DEF a, r, x
<1> DEFINE y == a \o r
<1>5. /\ y \in Seq(T) /\ Len(y) = Len(a) + Len(r)
      /\ \A k \in 1..Len(a) : y[k] = a[k]
      /\ \A k \in 1..Len(r) : y[Len(a) + k] = r[k]
  <2>1. a \in Seq(T) /\ r \in Seq(T)
    BY <1>1, <1>2
  <2>2. QED
    BY <2>1, Joined
<1> HIDE DEF y
<1>6. Len(y) = Len(x)
  BY <1>1, <1>2, <1>3, <1>4, <1>5
<1>7. ASSUME NEW k \in 1..Len(x)
      PROVE  y[k] = x[k]
  <2>1. CASE k <= Len(u)
    BY <1>1, <1>2, <1>3, <1>4, <1>5, <2>1
  <2>2. CASE k = Len(u) + 1
    <3>1. k \in 1..Len(a) /\ 1 \in 1..Len(v)
      BY <1>1, <1>2, <1>4, <2>2
    <3>2. QED
      BY <1>2, <1>3, <1>5, <2>2, <3>1
  <2>3. CASE k > Len(u) + 1
    <3>1. /\ k - Len(a) \in 1..Len(r) /\ Len(a) + (k - Len(a)) = k
          /\ k - Len(a) \in 1..Len(v) - 1 /\ k - Len(u) = k - Len(a) + 1 /\ k - Len(u) \in 1..Len(v)
          /\ Len(u) + (k - Len(u)) = k
      BY <1>1, <1>2, <1>3, <1>4, <2>3
    <3>2. y[Len(a) + (k - Len(a))] = r[k - Len(a)] /\ x[Len(u) + (k - Len(u))] = v[k - Len(u)]
      BY <1>3, <1>5, <3>1
    <3>3. r[k - Len(a)] = v[(k - Len(a)) + 1]
      BY <1>1, <3>1
    <3>4. QED
      BY <3>1, <3>2, <3>3
  <2>4. QED
    BY <1>3, <1>4, <2>1, <2>2, <2>3
<1>8. y = x
  BY <1>3, <1>5, <1>6, <1>7
<1>9. QED
  BY <1>8 DEF a, r, x, y

----------------------------------------------------------------------------
\* Connection.

Kinds ==
  /\ turn \in 1..Calls + 1 /\ near \in {"idle", "writing", "reading"}
  /\ near # "idle" => turn \in 1..Calls /\ adrift
  /\ adrift \in BOOLEAN
  /\ far \in {"reading", "answering", "delivering", "full", "closed"}
  /\ result \in [1..Calls -> 0..Busy]

\* Before a call is sent nothing is on its way but the reply of a far end that is full.
Quiet ==
  /\ back = <<>> \/ (back = <<Busy>> /\ far = "closed")
  /\ far # "answering"
  /\ far \in {"reading", "delivering"} => there = <<>>
  /\ far = "full" => back = <<>>

\* While a reply is waited for, only this call is on its way, or only its reply.
Owed ==
  /\ back \in {<<>>, <<turn>>} \/ (back = <<Busy>> /\ far = "closed")
  /\ far \in {"reading", "delivering"} => there = <<>> \/ (there = <<turn>> /\ back = <<>>)
  /\ far = "answering" => call = turn /\ there = <<>> /\ back = <<>>
  /\ far = "full" => back = <<>>

\* What the two ends know of each other.
Inv ==
  /\ Kinds
  /\ near = "idle" /\ ~adrift => Quiet
  /\ near = "writing" => Quiet
  /\ near = "reading" => Owed
  /\ OwnAnswer

\* What the marks of Connection are, beside its calls.
LEMMA Within ==
  /\ Calls \in Nat /\ 1 \in 1..Calls
  /\ Pending \in 0..Busy /\ Failed \in 0..Busy /\ Busy \in 0..Busy
  /\ Busy \notin 1..Calls /\ \A c \in 1..Calls : c \in 0..Busy
BY ConnectionKinds DEF Pending, Failed, Busy

\* What a connection carries at once is a frame or nothing.
LEMMA OneFrame ==
  /\ \A x : <<x>> # <<>>
  /\ \A x : Append(<<>>, x) = <<x>>
  /\ \A x : Head(<<x>>) = x
  /\ \A x : Tail(<<x>>) = <<>>
OBVIOUS

\* Nothing is on its way before the first call.
LEMMA InitInv == Init => Inv
<1> SUFFICES ASSUME Init PROVE Inv
  OBVIOUS
<1>1. Kinds
  <2>1. result \in [1..Calls -> 0..Busy]
    BY Within DEF Init
  <2>2. turn \in 1..Calls + 1
    BY ConnectionKinds DEF Init
  <2>3. QED
    BY <2>1, <2>2 DEF Init, Kinds
<1>2. Quiet
  BY DEF Init, Quiet
<1>3. OwnAnswer
  BY DEF Init, OwnAnswer
<1>4. QED
  BY <1>1, <1>2, <1>3 DEF Init, Inv

\* What is settled is settled for the call the near end is at, and it goes on to the next.
LEMMA Settled ==
  ASSUME NEW outcome \in {Failed, Busy, turn}, Kinds, OwnAnswer, near # "idle" \/ turn <= Calls,
         Settle(outcome), adrift' \in BOOLEAN,
         far' \in {"reading", "answering", "delivering", "full", "closed"}
  PROVE  Kinds' /\ OwnAnswer' /\ near' = "idle"
<1>1. turn \in 1..Calls /\ turn' \in 1..Calls + 1
  BY ConnectionKinds DEF Kinds, Settle
<1>2. outcome \in 0..Busy
  BY <1>1, Within
<1>3. result' \in [1..Calls -> 0..Busy]
  BY <1>1, <1>2 DEF Kinds, Settle
<1>4. OwnAnswer'
  BY <1>1 DEF Kinds, Settle, OwnAnswer
<1>5. QED
  BY <1>1, <1>3, <1>4 DEF Kinds, Settle

\* A step of the far end keeps quiet what is quiet.
LEMMA StaysQuiet ==
  ASSUME Quiet, TurnAway \/ Hear \/ HearNothing \/ Answer \/ AnswerFails \/ Deliver
  PROVE  Quiet'
BY OneFrame DEF Quiet, TurnAway, Hear, HearNothing, Answer, AnswerFails, Deliver

\* ... and sends back, of what is owed, the reply to this call or nothing.
LEMMA StaysOwed ==
  ASSUME Owed, turn' = turn, turn # Half,
         TurnAway \/ Hear \/ HearNothing \/ Answer \/ AnswerFails \/ Deliver
  PROVE  Owed'
<1> USE OneFrame DEF Owed
<1>1. CASE TurnAway
  BY <1>1 DEF TurnAway
<1>2. CASE Hear
  BY <1>2 DEF Hear
<1>3. CASE HearNothing
  BY <1>3 DEF HearNothing
<1>4. CASE Answer
  BY <1>4 DEF Answer
<1>5. CASE AnswerFails
  BY <1>5 DEF AnswerFails
<1>6. CASE Deliver
  BY <1>6 DEF Deliver
<1>7. QED
  BY <1>1, <1>2, <1>3, <1>4, <1>5, <1>6

\* Every step of either end keeps what is on its way in step with the call.
LEMMA StepInv == Inv /\ [Next]_vars => Inv'
<1> SUFFICES ASSUME Inv, [Next]_vars
             PROVE  Inv'
  OBVIOUS
<1>1. CASE Begin
  <2>1. CASE adrift
    <3>1. Settle(Failed) /\ adrift' = adrift /\ far' = far
      BY <1>1, <2>1 DEF Begin, farEnd
    <3>2. Kinds' /\ OwnAnswer' /\ near' = "idle"
      BY <1>1, <3>1, Settled DEF Inv, Kinds, Begin
    <3>3. QED
      BY <2>1, <3>1, <3>2 DEF Inv
  <2>2. CASE ~adrift
    <3>1. Quiet'
      BY <1>1, <2>2 DEF Inv, Begin, farEnd, Quiet
    <3>2. Kinds' /\ OwnAnswer'
      BY <1>1, <2>2, ConnectionKinds DEF Inv, Kinds, Begin, farEnd, OwnAnswer
    <3>3. QED
      BY <1>1, <2>2, <3>1, <3>2 DEF Inv, Begin
  <2>3. QED
    BY <2>1, <2>2
<1>2. CASE Write
  <2>1. Quiet
    BY <1>2 DEF Inv, Write
  <2>2. Owed'
    BY <1>2, <2>1, OneFrame DEF Quiet, Owed, Write, farEnd
  <2>3. Kinds' /\ OwnAnswer'
    BY <1>2 DEF Inv, Kinds, OwnAnswer, Write, farEnd
  <2>4. QED
    BY <1>2, <2>2, <2>3 DEF Inv, Write
<1>3. CASE WriteFails \/ ReadFails
  <2>1. Settle(Failed) /\ near # "idle" /\ adrift /\ adrift' = adrift /\ far' = far
    BY <1>3 DEF Inv, Kinds, WriteFails, ReadFails, farEnd
  <2>2. Kinds' /\ OwnAnswer' /\ near' = "idle"
    BY <2>1, Settled DEF Inv, Kinds
  <2>3. QED
    BY <2>1, <2>2 DEF Inv
<1>4. CASE Read
  <2>1. Owed /\ back # <<>>
    BY <1>4 DEF Inv, Read
  <2>2. Head(back) \in {turn, Busy} /\ Tail(back) = <<>>
    BY <2>1, OneFrame DEF Owed
  <2>3. PICK outcome \in {Failed, Busy, turn} : Settle(outcome)
    BY <1>4, <2>2 DEF Read
  <2>4. near # "idle" /\ adrift' = FALSE /\ far' = far /\ there' = there /\ back' = Tail(back)
    BY <1>4 DEF Read, farEnd
  <2>5. Kinds' /\ OwnAnswer' /\ near' = "idle"
    BY <2>3, <2>4, Settled DEF Inv, Kinds
  <2>6. Quiet'
    BY <2>1, <2>2, <2>4 DEF Owed, Quiet
  <2>7. QED
    BY <2>5, <2>6 DEF Inv
<1>5. CASE TurnAway \/ Hear \/ HearNothing \/ Answer \/ AnswerFails \/ Deliver
  <2>1. UNCHANGED nearEnd
    BY <1>5 DEF TurnAway, Hear, HearNothing, Answer, AnswerFails, Deliver
  <2>2. Kinds' /\ OwnAnswer'
    BY <1>5, <2>1 DEF Inv, Kinds, OwnAnswer, nearEnd,
                      TurnAway, Hear, HearNothing, Answer, AnswerFails, Deliver
  <2>3. Quiet => Quiet'
    BY <1>5, StaysQuiet
  <2>4. near # "idle" => turn # Half
    BY ConnectionKinds DEF Inv, Kinds, Half
  <2>5. near = "reading" => Owed'
    BY <1>5, <2>1, <2>4, StaysOwed DEF Inv, nearEnd
  <2>6. QED
    BY <2>1, <2>2, <2>3, <2>5 DEF Inv, nearEnd
<1>6. CASE UNCHANGED vars
  BY <1>6 DEF vars, Inv, Kinds, Quiet, Owed, OwnAnswer
<1>7. QED
  BY <1>1, <1>2, <1>3, <1>4, <1>5, <1>6 DEF Next

\* Whatever fails and whatever comes late, a caller is given the answer to the call it made, a
\* failure, or the word of a session that is busy (Held::ask, asking.rs).
THEOREM AnswersItsOwn == Spec => []OwnAnswer
<1>1. Init => Inv
  BY InitInv
<1>2. Inv /\ [Next]_vars => Inv'
  BY StepInv
<1>3. Inv => OwnAnswer
  BY DEF Inv
<1>4. QED
  BY <1>1, <1>2, <1>3, PTL DEF Spec

\* A call is written on a connection only when no answer to an earlier one can still come.
THEOREM WritesInStep == Spec => []InStep
<1>1. Init => Inv
  BY InitInv
<1>2. Inv /\ [Next]_vars => Inv'
  BY StepInv
<1>3. Inv => InStep
  BY DEF Inv, Quiet, InStep
<1>4. QED
  BY <1>1, <1>2, <1>3, PTL DEF Spec

----------------------------------------------------------------------------
\* The books of both ends.  The far end answers the call the near end is at, once, and never
\* after the near end shut the connection.
Books ==
  /\ \A c \in 1..Calls : result[c] = Pending <=> turn <= c
  /\ near # "idle" => ~shut
  /\ near = "idle" => (adrift <=> shut)
  /\ answered \subseteq 1..Calls /\ \A c \in answered : c <= turn
  /\ near # "reading" => turn \notin answered
  /\ near = "reading" /\ (there # <<>> \/ far = "answering") => turn \notin answered
  /\ near = "reading" /\ back = <<turn>> => turn \in answered
  /\ far = "delivering" => call \in answered

\* The books are right before the first call ...
LEMMA InitBooks == Init => Books
BY ConnectionKinds DEF Init, Books, Pending

\* Settling a call closes the near end's books on it and opens them on the next.
LEMMA BooksSettled ==
  ASSUME Inv, Books, near # "idle" \/ turn <= Calls, NEW outcome \in {Failed, Busy, turn},
         Settle(outcome), (adrift' <=> shut'), far' = far, call' = call, answered' = answered
  PROVE  Books'
<1>1. /\ turn \in 1..Calls /\ turn' = turn + 1 /\ near' = "idle"
      /\ result \in [1..Calls -> 0..Busy] /\ result' = [result EXCEPT ![turn] = outcome]
  BY ConnectionKinds DEF Inv, Kinds, Settle
<1>2. outcome # Pending
  BY <1>1, ConnectionKinds DEF Pending, Failed, Busy
<1>3. \A c \in 1..Calls : result'[c] = Pending <=> turn' <= c
  BY <1>1, <1>2, ConnectionKinds DEF Books
<1>4. answered' \subseteq 1..Calls /\ \A c \in answered' : c <= turn' /\ c # turn'
  BY <1>1, ConnectionKinds DEF Books
<1>5. far' = "delivering" => call' \in answered'
  BY DEF Books
<1>6. QED
  BY <1>1, <1>3, <1>4, <1>5 DEF Books

\* ... and every step keeps them.
LEMMA StepBooks == Inv /\ Books /\ [Next]_vars => Books'
<1> SUFFICES ASSUME Inv, Books, [Next]_vars
             PROVE  Books'
  OBVIOUS
<1>1. CASE Begin
  <2>1. CASE adrift
    <3>1. near = "idle" /\ shut
      BY <1>1, <2>1 DEF Begin, Books
    <3>2. Settle(Failed) /\ turn <= Calls /\ (adrift' <=> shut')
      BY <1>1, <2>1, <3>1 DEF Begin, Books
    <3>3. QED
      BY <1>1, <3>2, BooksSettled DEF Begin, farEnd
  <2>2. CASE ~adrift
    BY <1>1, <2>2 DEF Begin, farEnd, Books
  <2>3. QED
    BY <2>1, <2>2
<1>2. CASE Write
  <2>1. Quiet /\ turn \in 1..Calls
    BY <1>2 DEF Inv, Kinds, Write
  <2>2. back # <<turn>>
    BY <2>1, OneFrame, ConnectionKinds DEF Quiet, Busy
  <2>3. QED
    BY <1>2, <2>2 DEF Write, farEnd, Books
<1>3. CASE WriteFails \/ ReadFails
  <2>1. Settle(Failed) /\ near # "idle" /\ (adrift' <=> shut')
    BY <1>3 DEF Inv, Kinds, WriteFails, ReadFails
  <2>2. UNCHANGED farEnd
    BY <1>3 DEF WriteFails, ReadFails
  <2>3. QED
    BY <2>1, <2>2, BooksSettled DEF farEnd
<1>4. CASE Read
  <2>1. Head(back) \in {turn, Busy}
    BY <1>4, OneFrame DEF Inv, Read, Owed
  <2>2. PICK outcome \in {Failed, Busy, turn} : Settle(outcome)
    BY <1>4, <2>1 DEF Read
  <2>3. near # "idle" /\ (adrift' <=> shut')
    BY <1>4 DEF Read, Books
  <2>4. QED
    BY <1>4, <2>2, <2>3, BooksSettled DEF Read, farEnd
<1>5. CASE TurnAway
  <2>1. Busy # turn
    BY ConnectionKinds DEF Inv, Kinds, Busy
  <2>2. near = "reading" => back = <<>>
    BY <1>5 DEF Inv, Owed, TurnAway
  <2>3. near' = "reading" => back' # <<turn'>>
    BY <1>5, <2>1, <2>2, OneFrame DEF TurnAway, nearEnd
  <2>4. QED
    BY <1>5, <2>3 DEF TurnAway, nearEnd, Books
<1>6. CASE Hear
  <2>1. near = "reading" => there # <<>>
    BY <1>6 DEF Hear
  <2>2. QED
    BY <1>6, <2>1 DEF Hear, nearEnd, Books
<1>7. CASE Answer
  <2>1. near = "reading" /\ call = turn /\ there = <<>> /\ turn \in 1..Calls
    BY <1>7 DEF Inv, Kinds, Books, Answer, Quiet, Owed
  <2>2. QED
    BY <1>7, <2>1 DEF Answer, nearEnd, Books
<1>8. CASE Deliver
  BY <1>8 DEF Deliver, nearEnd, Books
<1>9. CASE HearNothing \/ AnswerFails
  <2>1. far' = "closed" /\ UNCHANGED <<turn, near, adrift, shut, result, there, back, call, answered>>
    BY <1>9 DEF HearNothing, AnswerFails, nearEnd
  <2>2. QED
    BY <2>1 DEF Books
<1>10. CASE UNCHANGED vars
  BY <1>10 DEF vars, Books
<1>11. QED
  BY <1>1, <1>2, <1>3, <1>4, <1>5, <1>6, <1>7, <1>8, <1>9, <1>10 DEF Next

\* What the caller was given, as Exchange says it.
Given == [c \in 1..Calls |-> IF result[c] = Busy THEN Failed ELSE result[c]]

\* To settle a call is to return its answer or to fail it.
LEMMA SettlesAsPromised ==
  ASSUME Inv, Books, near # "idle" \/ turn <= Calls, NEW outcome \in {Failed, Busy, turn},
         Settle(outcome), outcome = turn => turn \in answered, UNCHANGED <<answered, done>>
  PROVE  Ex!Next
<1>1. /\ turn \in 1..Calls /\ result \in [1..Calls -> 0..Busy]
      /\ result' = [result EXCEPT ![turn] = outcome]
  BY ConnectionKinds DEF Inv, Kinds, Settle
<1>2. /\ Busy # Pending /\ Failed # Pending /\ Busy # turn /\ Failed # turn
      /\ turn # Pending /\ Failed # Busy
  BY <1>1, ConnectionKinds DEF Pending, Failed, Busy
<1>3. Given[turn] = Pending /\ \A b \in 1..turn - 1 : Given[b] # Pending
  BY <1>1, <1>2, ConnectionKinds DEF Given, Books
<1>4. Given' = [Given EXCEPT ![turn] = IF outcome = turn THEN turn ELSE Failed]
  BY <1>1, <1>2 DEF Given, Failed, Busy
<1>5. Ex!Turn(turn)
  BY <1>3 DEF Ex!Turn, Ex!Pending, Pending, Given
<1>6. PICK c \in 1..Calls : c = turn
  BY <1>1
<1>7. CASE outcome = turn
  <2>1. Ex!Return(c)
    BY <1>3, <1>4, <1>5, <1>6, <1>7 DEF Ex!Return, Ex!Turn, Ex!Pending, Pending, Given
  <2>2. QED
    BY <2>1 DEF Ex!Next
<1>8. CASE outcome # turn
  <2>1. Ex!Fail(c)
    BY <1>3, <1>4, <1>5, <1>6, <1>8
       DEF Ex!Fail, Ex!Turn, Ex!Pending, Pending, Ex!Failed, Failed, Given
  <2>2. QED
    BY <2>1 DEF Ex!Next
<1>9. QED
  BY <1>7, <1>8

\* A step of the connection is a step of what it promises, or none.
LEMMA StepAsPromised == Inv /\ Books /\ [Next]_vars => [Ex!Next]_(Ex!vars)
<1> SUFFICES ASSUME Inv, Books, [Next]_vars
             PROVE  Ex!Next \/ UNCHANGED <<Given, answered, done>>
  BY DEF Ex!vars, Given
<1>1. CASE Begin
  <2>1. CASE adrift
    BY <1>1, <2>1, SettlesAsPromised, ConnectionKinds DEF Begin, farEnd, Failed, Inv, Kinds
  <2>2. CASE ~adrift
    BY <1>1, <2>2 DEF Begin, farEnd, Given
  <2>3. QED
    BY <2>1, <2>2
<1>2. CASE WriteFails \/ ReadFails
  <2>1. Settle(Failed) /\ near # "idle" /\ UNCHANGED <<answered, done>> /\ Failed # turn
    BY <1>2, ConnectionKinds DEF Inv, Kinds, WriteFails, ReadFails, farEnd, Failed
  <2>2. QED
    BY <2>1, SettlesAsPromised
<1>3. CASE Read
  <2>1. Owed /\ near # "idle" /\ near = "reading" /\ back # <<>> /\ turn \in 1..Calls
    BY <1>3 DEF Inv, Read, Kinds
  <2>2. Head(back) = Busy \/ (back = <<turn>> /\ Head(back) = turn)
    BY <2>1, OneFrame DEF Owed
  <2>3. turn # Failed /\ turn # Busy
    BY <2>1, ConnectionKinds DEF Failed, Busy
  <2>4. PICK outcome \in {Failed, Busy, turn} :
          Settle(outcome) /\ (outcome = turn => turn \in answered)
    BY <1>3, <2>1, <2>2, <2>3 DEF Read, Books
  <2>5. UNCHANGED <<answered, done>>
    BY <1>3 DEF Read, farEnd
  <2>6. QED
    BY <2>1, <2>4, <2>5, SettlesAsPromised
<1>4. CASE Answer
  <2>1. near = "reading" /\ call = turn /\ turn \in 1..Calls /\ turn \notin answered
    BY <1>4 DEF Inv, Kinds, Books, Answer, Quiet, Owed
  <2>2. \A b \in 1..turn - 1 : Given[b] # Pending
    BY <2>1, ConnectionKinds DEF Given, Books, Pending, Failed, Busy
  <2>3. Ex!Answer(turn)
    BY <1>4, <2>1, <2>2 DEF Answer, nearEnd, Given, Ex!Answer, Ex!Turn, Ex!Pending, Pending
  <2>4. QED
    BY <2>1, <2>3 DEF Ex!Next
<1>5. CASE Deliver
  <2>1. call \in answered /\ call \in 1..Calls
    BY <1>5 DEF Deliver, Books
  <2>2. Ex!Do(call)
    BY <1>5, <2>1 DEF Deliver, nearEnd, Ex!Do, Given
  <2>3. QED
    BY <2>1, <2>2 DEF Ex!Next
<1>6. CASE Write \/ TurnAway \/ Hear \/ HearNothing \/ AnswerFails
  BY <1>6 DEF Write, TurnAway, Hear, HearNothing, AnswerFails, nearEnd, farEnd, Given
<1>7. CASE UNCHANGED vars
  BY <1>7 DEF vars, Given
<1>8. QED
  BY <1>1, <1>2, <1>3, <1>4, <1>5, <1>6, <1>7 DEF Next

\* A connection keeps what Exchange promises: a call is answered at most once, done only after it
\* was answered, and the caller is given its answer or a failure, call after call
\* (Held::ask, asking.rs; talk, talking.rs).
THEOREM KeepsThePromise == Spec => Exchanges
<1>1. Init => Ex!Init
  BY ConnectionKinds DEF Init, Ex!Init, Ex!Pending, Pending, Busy
<1>2. Init => Inv /\ Books
  BY InitInv, InitBooks
<1>3. Inv /\ Books /\ [Next]_vars => (Inv /\ Books)' /\ [Ex!Next]_(Ex!vars)
  BY StepInv, StepBooks, StepAsPromised
<1>4. QED
  BY <1>1, <1>2, <1>3, PTL DEF Spec, Exchanges, Ex!Spec

----------------------------------------------------------------------------
\* Inbox.

Messages == I!Msgs
Tellings == [ids : SUBSET Messages, waiting : Nat]
Pagings == [at : {"none", "open", "done"}, seen : Nat, got : Seq(Messages), first : SUBSET Messages]

\* The shape of an inbox's state; what the harness knows is finite, and it says only what it read.
InboxShape ==
  /\ next \in [Callers -> Nat \ {0}] /\ holding \in [Callers -> Messages \cup {NoMessage}]
  /\ arrived \in Seq(Messages) /\ Len(arrived) <= Room
  /\ inbox \in Seq(Messages) /\ Len(inbox) <= AtMost
  /\ pipe \in Seq(Messages) /\ dropped \subseteq Messages
  /\ known \subseteq Messages /\ IsFiniteSet(known) /\ read \subseteq known
  /\ sayings \in 0..Sayings /\ byId \in BOOLEAN
  /\ told \in Seq(Tellings) /\ \A i \in 1..Len(told) : told[i].ids \subseteq read
  /\ paging \in Pagings /\ paging.seen = Len(paging.got)

\* What is assumed of the messages and of the bounds.
LEMMA InboxConstants ==
  /\ \A c \in Callers : Said[c] \in Seq(Messages)
  /\ \A c, d \in Callers : \A i \in 1..Len(Said[c]), j \in 1..Len(Said[d]) :
       Said[c][i] = Said[d][j] => c = d /\ i = j
  /\ NoMessage \notin Messages /\ Urgent \subseteq Messages /\ Sayings \in Nat
  /\ AtMost \in Nat \ {0} /\ Room \in Nat \ {0} /\ Page \in Nat \ {0}
<1>1. I!InboxKinds
  BY TalkKinds
<1>2. \A c \in Callers : Said[c] \in Seq(Messages)
  BY <1>1 DEF I!InboxKinds, Messages
<1>3. \A c \in Callers : DOMAIN Said[c] = 1..Len(Said[c])
  BY <1>2
<1>4. QED
  BY <1>1, <1>2, <1>3 DEF I!InboxKinds, Messages

\* The helpers of the community modules, as the proofs use them.
LEMMA SameHelpers ==
  /\ \A s : I!ToSet(s) = {s[i] : i \in DOMAIN s}
  /\ \A s, p : I!RemoveAt(s, p) = Less(s, p)
  /\ \A s, P : I!Retain(s, P) = Retain(s, P) /\ S!Retain(s, P) = Retain(s, P)
<1>1. \A s : I!ToSet(s) = {s[i] : i \in DOMAIN s}
  BY DEF I!ToSet
<1>2. \A s, p : I!RemoveAt(s, p) = Less(s, p)
  BY DEF I!RemoveAt, Less
<1>3. ASSUME NEW s, NEW P
      PROVE  I!Retain(s, P) = Retain(s, P)
  BY DEF I!Retain, Retain, I!Rank, Rank, I!Cardinality, Cardinality
<1>4. ASSUME NEW s, NEW P
      PROVE  S!Retain(s, P) = Retain(s, P)
  BY DEF S!Retain, Retain, S!Rank, Rank, S!Cardinality, Cardinality
<1>5. QED
  BY <1>1, <1>2, <1>3, <1>4

\* A full inbox is left without one of its messages; without one that does not interrupt, if there
\* is such a one among them and the newcomer.
LEMMA OneLetGo ==
  ASSUME NEW s \in Seq(Messages), Len(s) <= AtMost, NEW m \in Messages
  PROVE  /\ I!Kept(s, m) \in Seq(Messages) /\ Len(I!Kept(s, m)) <= AtMost
         /\ Part(I!Kept(s, m), Append(s, m))
         /\ \/ I!Kept(s, m) = Append(s, m)
            \/ \E p \in 1..Len(s) + 1 :
                 /\ I!Kept(s, m) = Less(Append(s, m), p)
                 /\ \/ Append(s, m)[p] \notin Urgent
                    \/ \A k \in 1..Len(s) + 1 : Append(s, m)[k] \in Urgent
<1> DEFINE all == Append(s, m)
           idle == {i \in DOMAIN all : all[i] \notin Urgent}
<1>1. /\ all \in Seq(Messages) /\ Len(all) = Len(s) + 1 /\ Len(s) \in Nat
      /\ AtMost \in Nat \ {0}
  BY Added, InboxConstants
<1>2. DOMAIN all = 1..Len(s) + 1
  BY <1>1
<1> HIDE DEF all
<1>3. CASE Len(all) <= AtMost
  <2>1. I!Kept(s, m) = all
    BY <1>3 DEF I!Kept, all
  <2>2. Part(all, all)
    <3> DEFINE f == [k \in 1..Len(all) |-> k]
    <3>1. f \in [1..Len(all) -> 1..Len(all)]
      OBVIOUS
    <3>2. \A k \in 1..Len(all) : f[k] = k
      OBVIOUS
    <3> HIDE DEF f
    <3>3. QED
      BY <3>1, <3>2 DEF Part
  <2>3. QED
    BY <1>1, <1>3, <2>1, <2>2 DEF all
<1>4. CASE ~(Len(all) <= AtMost)
  <2> DEFINE p == IF idle = {} THEN 1 ELSE CHOOSE i \in idle : \A j \in idle : i <= j
  <2>1. I!Kept(s, m) = Less(all, p)
    BY <1>4, SameHelpers DEF I!Kept, all
  <2>2. idle # {} => p \in idle
    <3>1. ASSUME idle # {}
          PROVE  p \in idle
      <4>1. idle \in SUBSET Nat
        BY <1>1, <1>2
      <4> HIDE DEF idle
      <4>2. PICK n \in idle : \A j \in idle : n <= j
        BY <3>1, <4>1, LeastNat
      <4>3. QED
        BY <3>1, <4>2
    <3>2. QED
      BY <3>1
  <2>3. p \in 1..Len(all)
    <3>1. 1 \in 1..Len(all)
      BY <1>1
    <3>2. idle \subseteq 1..Len(all)
      BY <1>1, <1>2
    <3> HIDE DEF idle
    <3>3. QED
      BY <2>2, <3>1, <3>2
  <2>4. all[p] \notin Urgent \/ \A k \in 1..Len(s) + 1 : all[k] \in Urgent
    BY <1>2, <2>2
  <2> HIDE DEF p, idle
  <2>5. Less(all, p) \in Seq(Messages) /\ Len(Less(all, p)) = Len(all) - 1 /\ Part(Less(all, p), all)
    BY <1>1, <2>3, Without, PartLess
  <2>6. Len(Less(all, p)) <= AtMost /\ p \in 1..Len(s) + 1
    BY <1>1, <2>3, <2>5
  <2>7. QED
    BY <2>1, <2>4, <2>5, <2>6 DEF all
<1>5. QED
  BY <1>3, <1>4

\* What was read is taken out, and nothing comes in.
LEMMA TakenOut ==
  ASSUME NEW s \in Seq(Messages), Len(s) <= AtMost, NEW telling \in Tellings
  PROVE  /\ I!Consumed(s, telling) \in Seq(Messages) /\ Len(I!Consumed(s, telling)) <= AtMost
         /\ Part(I!Consumed(s, telling), s)
         /\ byId => \A k \in 1..Len(s) :
              s[k] \notin telling.ids =>
                \E l \in 1..Len(I!Consumed(s, telling)) : I!Consumed(s, telling)[l] = s[k]
<1>0. Len(s) \in Nat /\ AtMost \in Nat /\ telling.waiting \in Nat
  BY InboxConstants DEF Tellings
<1>1. CASE byId
  <2> DEFINE P == {i \in DOMAIN s : s[i] \notin telling.ids}
             t == Retain(s, P)
  <2>1. I!Consumed(s, telling) = t
    BY <1>1, SameHelpers DEF I!Consumed
  <2>2. P \in SUBSET (1..Len(s)) /\ \A k \in 1..Len(s) : s[k] \notin telling.ids => k \in P
    OBVIOUS
  <2> HIDE DEF P
  <2>3. t \in Seq(Messages) /\ Len(t) = Cardinality(P) /\ Len(t) <= Len(s)
    BY <2>2, Retained
  <2>8. PICK f \in [1..Cardinality(P) -> P] :
          /\ \A k \in 1..Cardinality(P) : t[k] = s[f[k]]
          /\ \A p \in P : \E k \in 1..Cardinality(P) : f[k] = p
    BY <2>2, Retained
  <2>4. Part(t, s)
    BY <2>2, PartRetained
  <2> HIDE DEF t
  <2>5. \A k \in P : \E l \in 1..Len(t) : t[l] = s[k]
    BY <2>3, <2>8
  <2>6. Len(t) <= AtMost
    BY <1>0, <2>3
  <2>7. QED
    BY <2>1, <2>2, <2>3, <2>4, <2>5, <2>6
<1>2. CASE ~byId
  <2> DEFINE n == I!Beyond(s, telling.waiting)
  <2>1. I!Consumed(s, telling) = SubSeq(s, n + 1, Len(s))
    BY <1>2 DEF I!Consumed
  <2>2. n \in 0..Len(s)
    BY <1>0 DEF I!Beyond
  <2> HIDE DEF n
  <2>3. /\ SubSeq(s, n + 1, Len(s)) \in Seq(Messages) /\ Len(SubSeq(s, n + 1, Len(s))) = Len(s) - n
        /\ Part(SubSeq(s, n + 1, Len(s)), s)
    BY <2>2, PartFrom
  <2>4. Len(s) - n <= AtMost
    BY <1>0, <2>2
  <2>5. QED
    BY <1>2, <2>1, <2>3, <2>4
<1>3. QED
  BY <1>1, <1>2

\* What is in the inbox and on the way there.
Way == inbox \o arrived

\* Nothing in w stands before what its connection told earlier.
AsTold(w) ==
  \A c \in Callers : \A i, j \in 1..Len(Said[c]) :
    i < j => \A k, l \in 1..Len(w) : w[k] = Said[c][i] /\ w[l] = Said[c][j] => k < l

\* Of what a connection tells, w holds only what it told before what it holds.
Behind(w) ==
  \A c \in Callers : \A i \in 1..Len(Said[c]), k \in 1..Len(w) :
    w[k] = Said[c][i] => i < next[c] /\ (holding[c] # NoMessage => i < next[c] - 1)

\* What a connection holds is the last it answered.
HoldsTheLast ==
  \A c \in Callers :
    /\ next[c] <= Len(Said[c]) + 1
    /\ holding[c] # NoMessage => next[c] - 1 \in 1..Len(Said[c]) /\ holding[c] = Said[c][next[c] - 1]

InboxInv == /\ InboxShape /\ HoldsTheLast /\ AsTold(Way) /\ Behind(Way)
            /\ I!NoneLost /\ I!NothingUnreadTaken

\* What is left of messages in order is in order ...
LEMMA AsToldPart ==
  ASSUME NEW u, NEW w, Len(u) \in Nat, Len(w) \in Nat, Part(u, w), AsTold(w)
  PROVE  AsTold(u)
<1>1. PICK f \in [1..Len(u) -> 1..Len(w)] :
        /\ \A k, l \in 1..Len(u) : k < l => f[k] < f[l]
        /\ \A k \in 1..Len(u) : u[k] = w[f[k]]
  BY DEF Part
<1>2. SUFFICES ASSUME NEW c \in Callers, NEW i \in 1..Len(Said[c]), NEW j \in 1..Len(Said[c]), i < j,
                      NEW k \in 1..Len(u), NEW l \in 1..Len(u), u[k] = Said[c][i], u[l] = Said[c][j]
               PROVE  k < l
  BY DEF AsTold
<1>3. f[k] \in 1..Len(w) /\ f[l] \in 1..Len(w) /\ w[f[k]] = Said[c][i] /\ w[f[l]] = Said[c][j]
  BY <1>1, <1>2
<1>4. f[k] < f[l]
  BY <1>2, <1>3 DEF AsTold
<1>5. k = l \/ l < k => ~(f[k] < f[l])
  BY <1>1, <1>3
<1>6. QED
  BY <1>4, <1>5

\* ... and no newer than they were.
LEMMA BehindPart ==
  ASSUME NEW u, NEW w, Part(u, w), Behind(w)
  PROVE  Behind(u)
<1>1. PICK f \in [1..Len(u) -> 1..Len(w)] : \A k \in 1..Len(u) : u[k] = w[f[k]]
  BY DEF Part
<1>2. SUFFICES ASSUME NEW c \in Callers, NEW i \in 1..Len(Said[c]), NEW k \in 1..Len(u), u[k] = Said[c][i]
               PROVE  i < next[c] /\ (holding[c] # NoMessage => i < next[c] - 1)
  BY DEF Behind
<1>3. f[k] \in 1..Len(w) /\ w[f[k]] = Said[c][i]
  BY <1>1, <1>2
<1>4. QED
  BY <1>3 DEF Behind

\* An inbox begins empty, and nothing was told.
LEMMA InitInbox == I!Init => InboxInv
<1> SUFFICES ASSUME I!Init
             PROVE  InboxInv
  OBVIOUS
<1>1. /\ next = [c \in Callers |-> 1] /\ holding = [c \in Callers |-> NoMessage]
      /\ arrived = <<>> /\ inbox = <<>> /\ dropped = {} /\ pipe = <<>> /\ told = <<>>
      /\ known = {} /\ read = {} /\ sayings = 0 /\ byId \in BOOLEAN
      /\ paging = [at |-> "none", seen |-> 0, got |-> <<>>, first |-> {}]
  BY DEF I!Init
<1>2. InboxShape
  <2>1. /\ next \in [Callers -> Nat \ {0}] /\ holding \in [Callers -> Messages \cup {NoMessage}]
        /\ arrived \in Seq(Messages) /\ Len(arrived) <= Room
        /\ inbox \in Seq(Messages) /\ Len(inbox) <= AtMost
        /\ pipe \in Seq(Messages) /\ dropped \subseteq Messages
    BY <1>1, InboxConstants
  <2>2. /\ known \subseteq Messages /\ read \subseteq known /\ sayings \in 0..Sayings
        /\ told \in Seq(Tellings) /\ Len(told) = 0
    BY <1>1, InboxConstants
  <2>3. IsFiniteSet(known)
    BY <1>1, FS_EmptySet
  <2>4. paging \in Pagings /\ paging.seen = Len(paging.got)
    BY <1>1 DEF Pagings
  <2>5. \A i \in 1..Len(told) : told[i].ids \subseteq read
    BY <2>2
  <2>6. QED
    BY <1>1, <2>1, <2>2, <2>3, <2>4, <2>5 DEF InboxShape
<1>3. HoldsTheLast
  <2>1. \A c \in Callers : Len(Said[c]) \in Nat
    BY InboxConstants
  <2>2. QED
    BY <1>1, <2>1 DEF HoldsTheLast
<1>4. Way = <<>> /\ Len(Way) = 0
  BY <1>1 DEF Way
<1>5. AsTold(Way) /\ Behind(Way)
  BY <1>4 DEF AsTold, Behind
<1>6. I!NoneLost
  BY <1>1 DEF I!NoneLost
<1>7. I!NothingUnreadTaken
  <2>1. I!ToSet(pipe) = {}
    BY <1>1, SameHelpers
  <2>2. QED
    BY <1>1, <2>1 DEF I!NothingUnreadTaken
<1>8. QED
  BY <1>2, <1>3, <1>5, <1>6, <1>7 DEF InboxInv

\* What the inbox and the way there keep is kept by whatever leaves them alone.
LEMMA WayLeftAlone ==
  ASSUME HoldsTheLast, AsTold(Way), Behind(Way), UNCHANGED <<inbox, arrived, next, holding>>
  PROVE  HoldsTheLast' /\ AsTold(Way)' /\ Behind(Way)'
BY DEF HoldsTheLast, AsTold, Behind, Way

\* What a sequence holds, as a set.
LEMMA InSet ==
  ASSUME NEW T, NEW s \in Seq(T)
  PROVE  \A x : x \in I!ToSet(s) <=> \E i \in 1..Len(s) : s[i] = x
<1>1. DOMAIN s = 1..Len(s)
  OBVIOUS
<1>2. I!ToSet(s) = {s[i] : i \in 1..Len(s)}
  BY <1>1, SameHelpers
<1>3. QED
  BY <1>2

\* tell: what is answered is held by its connection, and newer than all before it.
LEMMA StepTell ==
  ASSUME InboxInv, NEW c \in Callers, I!Tell(c)
  PROVE  InboxInv'
<1>1. /\ InboxShape /\ HoldsTheLast /\ AsTold(Way) /\ Behind(Way)
      /\ I!NoneLost /\ I!NothingUnreadTaken
  BY DEF InboxInv
<1>2. /\ next[c] <= Len(Said[c]) /\ holding[c] = NoMessage
      /\ holding' = [holding EXCEPT ![c] = Said[c][next[c]]]
      /\ next' = [next EXCEPT ![c] = next[c] + 1]
      /\ UNCHANGED <<arrived, inbox, dropped, pipe, known, read, sayings, byId, told, paging>>
  BY DEF I!Tell, I!harness
<1>3. /\ next \in [Callers -> Nat \ {0}] /\ holding \in [Callers -> Messages \cup {NoMessage}]
      /\ Said[c] \in Seq(Messages) /\ Len(Said[c]) \in Nat
  BY <1>1, InboxConstants DEF InboxShape
<1>4. next[c] \in 1..Len(Said[c]) /\ Said[c][next[c]] \in Messages
  BY <1>2, <1>3
<1>5. next' \in [Callers -> Nat \ {0}] /\ holding' \in [Callers -> Messages \cup {NoMessage}]
  BY <1>2, <1>3, <1>4
<1>6. /\ next'[c] = next[c] + 1 /\ holding'[c] = Said[c][next[c]]
      /\ \A d \in Callers : d # c => next'[d] = next[d] /\ holding'[d] = holding[d]
  BY <1>2, <1>3
<1>7. InboxShape'
  BY <1>1, <1>2, <1>5 DEF InboxShape
<1>8. HoldsTheLast'
  <2>1. \A d \in Callers :
          /\ next'[d] <= Len(Said[d]) + 1
          /\ holding'[d] # NoMessage => next'[d] - 1 \in 1..Len(Said[d]) /\ holding'[d] = Said[d][next'[d] - 1]
    <3>1. SUFFICES ASSUME NEW d \in Callers
                   PROVE /\ next'[d] <= Len(Said[d]) + 1
                         /\ holding'[d] # NoMessage =>
                              next'[d] - 1 \in 1..Len(Said[d]) /\ holding'[d] = Said[d][next'[d] - 1]
      OBVIOUS
    <3>2. CASE d = c
      <4>1. next[c] + 1 - 1 = next[c] /\ next[c] + 1 <= Len(Said[c]) + 1
        BY <1>3, <1>4
      <4>2. QED
        BY <1>4, <1>6, <3>2, <4>1
    <3>3. CASE d # c
      BY <1>1, <1>6, <3>3 DEF HoldsTheLast
    <3>4. QED
      BY <3>2, <3>3
  <2>2. QED
    BY <2>1 DEF HoldsTheLast
<1>9. Way' = Way
  BY <1>2 DEF Way
<1>10. AsTold(Way)'
  BY <1>1, <1>9 DEF AsTold
<1>11. Behind(Way)'
  <2>1. SUFFICES ASSUME NEW d \in Callers, NEW i \in 1..Len(Said[d]), NEW k \in 1..Len(Way), Way[k] = Said[d][i]
                 PROVE  i < next'[d] /\ (holding'[d] # NoMessage => i < next'[d] - 1)
    BY <1>9 DEF Behind
  <2>2. i < next[d] /\ (holding[d] # NoMessage => i < next[d] - 1)
    BY <1>1, <2>1 DEF Behind
  <2>3. CASE d = c
    BY <1>3, <1>6, <2>2, <2>3
  <2>4. CASE d # c
    BY <1>6, <2>2, <2>4
  <2>5. QED
    BY <2>3, <2>4
<1>12. I!NoneLost'
  <2>1. SUFFICES ASSUME NEW d \in Callers, NEW i \in 1..next'[d] - 1
                 PROVE  Said[d][i] \in {holding'[d]} \cup I!ToSet(arrived) \cup I!ToSet(pipe) \cup known
    <3>1. I!ToSet(arrived)' = I!ToSet(arrived) /\ I!ToSet(pipe)' = I!ToSet(pipe)
      BY <1>2, SameHelpers
    <3>2. QED
      BY <1>2, <3>1 DEF I!NoneLost
  <2>2. CASE d = c /\ i = next[c]
    BY <1>6, <2>2
  <2>3. CASE d = c /\ i # next[c]
    <3>1. i \in 1..next[c] - 1 /\ i \in 1..Len(Said[c])
      BY <1>3, <1>4, <1>6, <2>1, <2>3
    <3>2. Said[c][i] # NoMessage
      <4>1. Said[c][i] \in Messages
        BY <1>3, <3>1
      <4>2. QED
        BY <4>1, InboxConstants
    <3>3. Said[c][i] \in {holding[c]} \cup I!ToSet(arrived) \cup I!ToSet(pipe) \cup known
      BY <1>1, <3>1 DEF I!NoneLost
    <3>4. QED
      BY <1>2, <2>3, <3>2, <3>3
  <2>4. CASE d # c
    <3>1. next'[d] = next[d] /\ holding'[d] = holding[d]
      BY <1>6, <2>4
    <3>2. i \in 1..next[d] - 1
      BY <2>1, <3>1
    <3>3. Said[d][i] \in {holding[d]} \cup I!ToSet(arrived) \cup I!ToSet(pipe) \cup known
      BY <1>1, <3>2 DEF I!NoneLost
    <3>4. QED
      BY <3>1, <3>3
  <2>5. QED
    BY <2>2, <2>3, <2>4
<1>13. I!NothingUnreadTaken'
  BY <1>1, <1>2, SameHelpers DEF I!NothingUnreadTaken
<1>14. QED
  BY <1>7, <1>8, <1>10, <1>11, <1>12, <1>13 DEF InboxInv

\* deliver: what was held is the last on the way, and behind nothing its connection tells later.
LEMMA StepDeliver ==
  ASSUME InboxInv, NEW c \in Callers, I!Deliver(c)
  PROVE  InboxInv'
<1>1. /\ InboxShape /\ HoldsTheLast /\ AsTold(Way) /\ Behind(Way)
      /\ I!NoneLost /\ I!NothingUnreadTaken
  BY DEF InboxInv
<1>2. /\ holding[c] # NoMessage /\ Len(arrived) < Room
      /\ arrived' = Append(arrived, holding[c])
      /\ holding' = [holding EXCEPT ![c] = NoMessage]
      /\ UNCHANGED <<next, inbox, dropped, pipe, known, read, sayings, byId, told, paging>>
  BY DEF I!Deliver, I!harness
<1>3. /\ next \in [Callers -> Nat \ {0}] /\ holding \in [Callers -> Messages \cup {NoMessage}]
      /\ arrived \in Seq(Messages) /\ inbox \in Seq(Messages) /\ Room \in Nat
  BY <1>1, InboxConstants DEF InboxShape
<1>4. holding[c] \in Messages
  BY <1>2, <1>3
<1>5. /\ holding'[c] = NoMessage
      /\ \A d \in Callers : d # c => holding'[d] = holding[d]
      /\ holding' \in [Callers -> Messages \cup {NoMessage}]
  BY <1>2, <1>3
<1> DEFINE m == holding[c]
<1>6. /\ arrived' \in Seq(Messages) /\ Len(arrived') = Len(arrived) + 1
      /\ \A k \in 1..Len(arrived) : arrived'[k] = arrived[k]
      /\ arrived'[Len(arrived) + 1] = m
  BY <1>2, <1>3, <1>4, Added
<1>7. InboxShape'
  <2>1. Len(arrived') <= Room
    BY <1>2, <1>3, <1>6
  <2>2. QED
    BY <1>1, <1>2, <1>5, <1>6, <2>1 DEF InboxShape
<1>8. HoldsTheLast'
  BY <1>1, <1>2, <1>5 DEF HoldsTheLast
<1>a. next[c] - 1 \in 1..Len(Said[c]) /\ m = Said[c][next[c] - 1]
  BY <1>1, <1>2 DEF HoldsTheLast
<1>9. /\ Way \in Seq(Messages) /\ Way' \in Seq(Messages) /\ Len(Way) \in Nat /\ Len(Way') = Len(Way) + 1
      /\ \A k \in 1..Len(Way) : Way'[k] = Way[k]
      /\ Way'[Len(Way) + 1] = m
  <2>1. Way' = Append(Way, m)
    <3>1. Way' = inbox \o Append(arrived, m)
      BY <1>2 DEF Way
    <3>2. inbox \o Append(arrived, m) = Append(inbox \o arrived, m)
      BY <1>3, <1>4
    <3>3. QED
      BY <3>1, <3>2 DEF Way
  <2>2. Way \in Seq(Messages)
    BY <1>3 DEF Way
  <2>3. Len(Way) \in Nat
    BY <2>2
  <2>4. QED
    BY <1>4, <2>1, <2>2, <2>3, Added
<1>10. Behind(Way)'
  <2>1. SUFFICES ASSUME NEW d \in Callers, NEW i \in 1..Len(Said[d]), NEW k \in 1..Len(Way'), Way'[k] = Said[d][i]
                 PROVE  i < next[d] /\ (holding'[d] # NoMessage => i < next[d] - 1)
    BY <1>2 DEF Behind
  <2>2. CASE k = Len(Way) + 1
    <3>1. d = c /\ i = next[c] - 1
      BY <1>9, <1>a, <2>1, <2>2, InboxConstants
    <3>2. next[c] \in Nat /\ holding'[c] = NoMessage
      BY <1>3, <1>5
    <3>3. QED
      BY <3>1, <3>2
  <2>3. CASE k # Len(Way) + 1
    <3>1. k \in 1..Len(Way)
      BY <1>9, <2>1, <2>3
    <3>2. i < next[d] /\ (holding[d] # NoMessage => i < next[d] - 1)
      BY <1>1, <1>9, <2>1, <3>1 DEF Behind
    <3>3. QED
      BY <1>5, <3>2
  <2>4. QED
    BY <2>2, <2>3
<1>11. AsTold(Way)'
  <2>1. SUFFICES ASSUME NEW d \in Callers, NEW i \in 1..Len(Said[d]), NEW j \in 1..Len(Said[d]), i < j,
                        NEW k \in 1..Len(Way'), NEW l \in 1..Len(Way'),
                        Way'[k] = Said[d][i], Way'[l] = Said[d][j]
                 PROVE  k < l
    BY DEF AsTold
  <2>2. CASE k \in 1..Len(Way) /\ l \in 1..Len(Way)
    BY <1>1, <1>9, <2>1, <2>2 DEF AsTold
  <2>3. CASE l = Len(Way) + 1 /\ k # l
    BY <1>9, <2>3
  <2>4. CASE k = Len(Way) + 1
    <3>1. d = c /\ i = next[c] - 1
      BY <1>9, <1>a, <2>1, <2>4, InboxConstants
    <3>2. CASE l \in 1..Len(Way)
      <4>1. j < next[c] - 1
        BY <1>1, <1>2, <1>9, <2>1, <3>1, <3>2 DEF Behind
      <4>2. QED
        BY <1>3, <2>1, <3>1, <4>1
    <3>3. CASE l = Len(Way) + 1
      <4>1. i = j
        BY <2>1, <2>4, <3>3, InboxConstants
      <4>2. QED
        BY <2>1, <4>1
    <3>4. QED
      BY <1>9, <3>2, <3>3
  <2>5. QED
    BY <1>9, <2>2, <2>3, <2>4
<1>12. \A x : x \in I!ToSet(arrived) \cup {m} => x \in I!ToSet(arrived)'
  <2>1. \A x : x \in I!ToSet(arrived) <=> \E i \in 1..Len(arrived) : arrived[i] = x
    BY <1>3, InSet
  <2>2. \A x : x \in I!ToSet(arrived') <=> \E i \in 1..Len(arrived') : arrived'[i] = x
    BY <1>6, InSet
  <2>3. Len(arrived) \in Nat
    BY <1>3
  <2>4. QED
    BY <1>6, <2>1, <2>2, <2>3
<1>13. I!NoneLost'
  <2>1. SUFFICES ASSUME NEW d \in Callers, NEW i \in 1..next[d] - 1
                 PROVE  Said[d][i] \in {holding'[d]} \cup I!ToSet(arrived)' \cup I!ToSet(pipe) \cup known
    <3>1. I!ToSet(pipe)' = I!ToSet(pipe)
      BY <1>2, SameHelpers
    <3>2. QED
      BY <1>2, <3>1 DEF I!NoneLost
  <2>2. Said[d][i] \in {holding[d]} \cup I!ToSet(arrived) \cup I!ToSet(pipe) \cup known
    BY <1>1 DEF I!NoneLost
  <2>3. QED
    BY <1>5, <1>12, <2>2
<1>14. I!NothingUnreadTaken'
  BY <1>1, <1>2, SameHelpers DEF I!NothingUnreadTaken
<1>15. QED
  BY <1>7, <1>8, <1>10, <1>11, <1>13, <1>14 DEF InboxInv

\* What stood in a sequence and does not stand where one place is left out stood at that place.
LEMMA OnlyThatPlace ==
  ASSUME NEW T, NEW s \in Seq(T), NEW p \in 1..Len(s)
  PROVE  \A x : x \in I!ToSet(s) /\ x \notin I!ToSet(Less(s, p)) => x = s[p]
<1>1. /\ Len(s) \in Nat /\ Less(s, p) \in Seq(T) /\ Len(Less(s, p)) = Len(s) - 1
      /\ \A k \in 1..p - 1 : Less(s, p)[k] = s[k]
      /\ \A k \in p..Len(s) - 1 : Less(s, p)[k] = s[k + 1]
  <2>1. Len(s) \in Nat
    OBVIOUS
  <2>2. QED
    BY <2>1, Without
<1> DEFINE t == Less(s, p)
<1>a. \A x : x \in I!ToSet(s) <=> \E i \in 1..Len(s) : s[i] = x
  BY InSet
<1>b. \A x : x \in I!ToSet(t) <=> \E i \in 1..Len(t) : t[i] = x
  BY <1>1, InSet
<1>2. SUFFICES ASSUME NEW i \in 1..Len(s), i # p
               PROVE  \E j \in 1..Len(Less(s, p)) : Less(s, p)[j] = s[i]
  <2> HIDE DEF t
  <2>1. QED
    BY <1>a, <1>b DEF t
<1>3. CASE i < p
  <2>1. i \in 1..p - 1 /\ i \in 1..Len(Less(s, p))
    BY <1>1, <1>3
  <2>2. QED
    BY <1>1, <2>1
<1>4. CASE p < i
  <2>1. i - 1 \in p..Len(s) - 1 /\ i - 1 \in 1..Len(Less(s, p)) /\ (i - 1) + 1 = i
    BY <1>1, <1>4
  <2>2. QED
    BY <1>1, <2>1
<1>5. QED
  BY <1>2, <1>3, <1>4

\* The loop's step on a message: what the channel and the inbox hold before and after it.
LEMMA TakeDoes ==
  ASSUME InboxShape, I!Take
  PROVE  /\ Head(arrived) \in Messages /\ arrived \in Seq(Messages) /\ arrived # <<>>
         /\ arrived' \in Seq(Messages) /\ Len(arrived') <= Room
         /\ arrived' = Tail(arrived) /\ pipe' = Append(pipe, Head(arrived))
         /\ inbox' = I!Kept(inbox, Head(arrived))
         /\ inbox \in Seq(Messages) /\ Len(inbox) <= AtMost
         /\ dropped' = dropped \cup ((I!ToSet(inbox) \cup {Head(arrived)}) \ I!ToSet(inbox'))
         /\ \A x : x \in I!ToSet(Append(inbox, Head(arrived))) <=>
                     x \in I!ToSet(inbox) \cup {Head(arrived)}
         /\ UNCHANGED <<next, holding, known, read, sayings, byId, told, paging>>
<1>1. /\ arrived # <<>> /\ arrived' = Tail(arrived) /\ pipe' = Append(pipe, Head(arrived))
      /\ inbox' = I!Kept(inbox, Head(arrived))
      /\ dropped' = dropped \cup ((I!ToSet(inbox) \cup {Head(arrived)}) \ I!ToSet(inbox'))
      /\ UNCHANGED <<next, holding, known, read, sayings, byId, told, paging>>
  BY DEF I!Take, I!harness
<1>2. arrived \in Seq(Messages) /\ Len(arrived) <= Room /\ inbox \in Seq(Messages) /\ Len(inbox) <= AtMost
  BY DEF InboxShape
<1>3. /\ Head(arrived) \in Messages /\ Tail(arrived) \in Seq(Messages)
      /\ Len(arrived) \in Nat /\ Len(Tail(arrived)) = Len(arrived) - 1
  BY <1>1, <1>2, Rest
<1>4. Len(arrived') <= Room
  BY <1>1, <1>2, <1>3, InboxConstants
<1>5. \A x : x \in I!ToSet(Append(inbox, Head(arrived))) <=> x \in I!ToSet(inbox) \cup {Head(arrived)}
  <2> DEFINE m == Head(arrived)
             all == Append(inbox, m)
  <2>1. /\ all \in Seq(Messages) /\ Len(all) = Len(inbox) + 1 /\ Len(inbox) \in Nat
        /\ \A k \in 1..Len(inbox) : all[k] = inbox[k]
        /\ all[Len(inbox) + 1] = m
    BY <1>2, <1>3, Added
  <2>2. \A x : x \in I!ToSet(all) <=> \E i \in 1..Len(all) : all[i] = x
    BY <2>1, InSet
  <2>3. \A x : x \in I!ToSet(inbox) <=> \E i \in 1..Len(inbox) : inbox[i] = x
    BY <1>2, InSet
  <2> HIDE DEF all, m
  <2>4. ASSUME NEW x
        PROVE  x \in I!ToSet(all) <=> x \in I!ToSet(inbox) \cup {m}
    <3>1. x \in I!ToSet(all) => x \in I!ToSet(inbox) \cup {m}
      <4>1. \A i \in 1..Len(all) : i \in 1..Len(inbox) \/ i = Len(inbox) + 1
        BY <2>1
      <4>2. QED
        BY <2>1, <2>2, <2>3, <4>1
    <3>2. x \in I!ToSet(inbox) \cup {m} => x \in I!ToSet(all)
      <4>1. Len(inbox) + 1 \in 1..Len(all) /\ \A i \in 1..Len(inbox) : i \in 1..Len(all)
        BY <2>1
      <4>2. QED
        BY <2>1, <2>2, <2>3, <4>1
    <3>3. QED
      BY <3>1, <3>2
  <2>5. QED
    BY <2>4 DEF all, m
<1>6. QED
  BY <1>1, <1>2, <1>3, <1>4, <1>5

\* The loop takes a message and lets at most one go: what is left is in its order.
LEMMA StepTakeWay ==
  ASSUME InboxInv, I!Take
  PROVE  HoldsTheLast' /\ AsTold(Way)' /\ Behind(Way)'
<1>1. InboxShape /\ HoldsTheLast /\ AsTold(Way) /\ Behind(Way)
  BY DEF InboxInv
<1> DEFINE m == Head(arrived)
           all == Append(inbox, m)
<1>2. /\ m \in Messages /\ arrived \in Seq(Messages) /\ arrived # <<>>
      /\ arrived' \in Seq(Messages) /\ arrived' = Tail(arrived)
      /\ inbox' = I!Kept(inbox, m) /\ inbox \in Seq(Messages) /\ Len(inbox) <= AtMost
      /\ UNCHANGED <<next, holding>>
  BY <1>1, TakeDoes
<1>3. inbox' \in Seq(Messages) /\ Part(inbox', all) /\ all \in Seq(Messages)
  <2>1. I!Kept(inbox, m) \in Seq(Messages) /\ Part(I!Kept(inbox, m), Append(inbox, m))
    BY <1>2, OneLetGo
  <2>2. all \in Seq(Messages)
    BY <1>2
  <2>3. QED
    BY <1>2, <2>1, <2>2
<1>4. all \o arrived' = Way
  BY <1>2, Moved DEF Way
<1> HIDE DEF all, m
<1>5. Part(Way', Way)
  <2>1. Part(inbox' \o arrived', all \o arrived')
    BY <1>2, <1>3, PartJoined
  <2>2. QED
    BY <1>4, <2>1 DEF Way
<1>6. Len(Way') \in Nat /\ Len(Way) \in Nat
  <2>1. Way' \in Seq(Messages)
    BY <1>2, <1>3 DEF Way
  <2>2. Way \in Seq(Messages)
    BY <1>2 DEF Way
  <2>3. QED
    BY <2>1, <2>2
<1>7. HoldsTheLast'
  BY <1>1, <1>2 DEF HoldsTheLast
<1> DEFINE before == Way
           after == Way'
<1>8. AsTold(after) /\ Behind(after)
  <2>1. Part(after, before) /\ Len(after) \in Nat /\ Len(before) \in Nat /\ AsTold(before) /\ Behind(before)
    BY <1>1, <1>5, <1>6
  <2> HIDE DEF before, after
  <2>2. QED
    BY <2>1, AsToldPart, BehindPart
<1>9. AsTold(Way)' /\ Behind(Way)'
  BY <1>2, <1>8 DEF AsTold, Behind
<1>10. QED
  BY <1>7, <1>9

\* The loop takes a message: it is on its way to the harness before the inbox may let it go.
LEMMA StepTake ==
  ASSUME InboxInv, I!Take
  PROVE  InboxInv'
<1>1. InboxShape /\ I!NoneLost /\ I!NothingUnreadTaken
  BY DEF InboxInv
<1> DEFINE m == Head(arrived)
           all == Append(inbox, m)
<1>2. /\ m \in Messages /\ arrived \in Seq(Messages) /\ arrived # <<>>
      /\ arrived' \in Seq(Messages) /\ Len(arrived') <= Room
      /\ arrived' = Tail(arrived) /\ pipe' = Append(pipe, m)
      /\ inbox' = I!Kept(inbox, m) /\ inbox \in Seq(Messages) /\ Len(inbox) <= AtMost
      /\ dropped' = dropped \cup ((I!ToSet(inbox) \cup {m}) \ I!ToSet(inbox'))
      /\ UNCHANGED <<next, holding, known, read, sayings, byId, told, paging>>
  BY <1>1, TakeDoes
<1>3. inbox' \in Seq(Messages) /\ Len(inbox') <= AtMost
  BY <1>2, OneLetGo
<1> HIDE DEF m
<1>4. pipe \in Seq(Messages) /\ pipe' \in Seq(Messages)
  BY <1>1, <1>2 DEF InboxShape
<1>5. \A x : x \in I!ToSet(pipe') <=> x \in I!ToSet(pipe) \cup {m}
  <2>1. /\ Len(pipe') = Len(pipe) + 1 /\ Len(pipe) \in Nat
        /\ \A k \in 1..Len(pipe) : pipe'[k] = pipe[k]
        /\ pipe'[Len(pipe) + 1] = m
    BY <1>2, <1>4, Added
  <2>2. \A x : x \in I!ToSet(pipe') <=> \E i \in 1..Len(pipe') : pipe'[i] = x
    BY <1>4, InSet
  <2>3. \A x : x \in I!ToSet(pipe) <=> \E i \in 1..Len(pipe) : pipe[i] = x
    BY <1>4, InSet
  <2>4. \A i \in 1..Len(pipe') : i \in 1..Len(pipe) \/ i = Len(pipe) + 1
    BY <2>1
  <2>5. Len(pipe) + 1 \in 1..Len(pipe') /\ \A i \in 1..Len(pipe) : i \in 1..Len(pipe')
    BY <2>1
  <2>6. \A x : x \in I!ToSet(pipe') => x \in I!ToSet(pipe) \cup {m}
    BY <2>1, <2>2, <2>3, <2>4
  <2>7. \A x : x \in I!ToSet(pipe) \cup {m} => x \in I!ToSet(pipe')
    BY <2>1, <2>2, <2>3, <2>5
  <2>8. QED
    BY <2>6, <2>7
<1>6. \A x : x \in I!ToSet(arrived) => x \in I!ToSet(arrived') \cup {m}
  <2>1. /\ Len(arrived) \in Nat \ {0} /\ m = arrived[1] /\ Len(arrived') = Len(arrived) - 1
        /\ \A k \in 1..Len(arrived) - 1 : arrived'[k] = arrived[k + 1]
    BY <1>2, Rest DEF m
  <2>a. \A x : x \in I!ToSet(arrived) <=> \E i \in 1..Len(arrived) : arrived[i] = x
    BY <1>2, InSet
  <2>b. \A x : x \in I!ToSet(arrived') <=> \E i \in 1..Len(arrived') : arrived'[i] = x
    BY <1>2, InSet
  <2>2. SUFFICES ASSUME NEW i \in 1..Len(arrived), i # 1
                 PROVE  \E j \in 1..Len(arrived') : arrived'[j] = arrived[i]
    BY <2>1, <2>a, <2>b
  <2>3. i - 1 \in 1..Len(arrived') /\ i - 1 \in 1..Len(arrived) - 1 /\ (i - 1) + 1 = i
    BY <2>1, <2>2
  <2>4. QED
    BY <2>1, <2>3
<1>7. InboxShape'
  <2>1. I!ToSet(inbox) \cup {m} \subseteq Messages
    <3>1. \A x \in I!ToSet(inbox) : x \in Messages
      BY <1>2, InSet
    <3>2. QED
      BY <1>2, <3>1
  <2>2. dropped' \subseteq Messages
    BY <1>1, <1>2, <2>1 DEF InboxShape
  <2>3. QED
    BY <1>1, <1>2, <1>3, <1>4, <2>2 DEF InboxShape
<1>8. I!NoneLost'
  <2>1. SUFFICES ASSUME NEW d \in Callers, NEW i \in 1..next[d] - 1
                 PROVE  Said[d][i] \in {holding[d]} \cup I!ToSet(arrived') \cup I!ToSet(pipe') \cup known
    BY <1>2 DEF I!NoneLost
  <2>2. Said[d][i] \in {holding[d]} \cup I!ToSet(arrived) \cup I!ToSet(pipe) \cup known
    BY <1>1 DEF I!NoneLost
  <2>3. QED
    BY <1>5, <1>6, <2>2
<1>9. I!NothingUnreadTaken'
  <2>1. SUFFICES ASSUME byId, NEW x \in known \cup I!ToSet(pipe')
                 PROVE  x \in I!ToSet(inbox') \cup read \cup dropped'
    BY <1>2 DEF I!NothingUnreadTaken
  <2>2. x \in known \cup I!ToSet(pipe) => x \in I!ToSet(inbox) \cup read \cup dropped
    BY <1>1, <2>1 DEF I!NothingUnreadTaken
  <2>3. QED
    BY <1>2, <1>5, <2>1, <2>2
<1>10. QED
  BY <1>7, <1>8, <1>9, StepTakeWay DEF InboxInv

\* Told::Doing: what goes by its id was read.
LEMMA StepTakeTold ==
  ASSUME InboxInv, I!TakeTold
  PROVE  InboxInv'
<1>1. /\ InboxShape /\ HoldsTheLast /\ AsTold(Way) /\ Behind(Way)
      /\ I!NoneLost /\ I!NothingUnreadTaken
  BY DEF InboxInv
<1>2. /\ told # <<>> /\ told' = Tail(told) /\ inbox' = I!Consumed(inbox, Head(told))
      /\ UNCHANGED <<next, holding, arrived, dropped, pipe, known, read, sayings, byId, paging>>
  BY DEF I!TakeTold, I!harness
<1>3. /\ told \in Seq(Tellings) /\ inbox \in Seq(Messages) /\ Len(inbox) <= AtMost
      /\ arrived \in Seq(Messages) /\ \A i \in 1..Len(told) : told[i].ids \subseteq read
  BY <1>1 DEF InboxShape
<1> DEFINE said1 == Head(told)
<1>4. /\ Len(told) \in Nat \ {0} /\ said1 = told[1] /\ said1 \in Tellings
      /\ told' \in Seq(Tellings) /\ Len(told') = Len(told) - 1
      /\ \A k \in 1..Len(told) - 1 : told'[k] = told[k + 1]
  BY <1>2, <1>3, Rest
<1>5. said1.ids \subseteq read
  BY <1>3, <1>4
<1> HIDE DEF said1
<1>6. /\ inbox' \in Seq(Messages) /\ Len(inbox') <= AtMost /\ Part(inbox', inbox)
      /\ byId => \A k \in 1..Len(inbox) :
           inbox[k] \notin said1.ids => \E l \in 1..Len(inbox') : inbox'[l] = inbox[k]
  <2> DEFINE left == I!Consumed(inbox, said1)
  <2>1. inbox' = left
    BY <1>2 DEF said1
  <2>2. /\ left \in Seq(Messages) /\ Len(left) <= AtMost /\ Part(left, inbox)
        /\ byId => \A k \in 1..Len(inbox) :
             inbox[k] \notin said1.ids => \E l \in 1..Len(left) : left[l] = inbox[k]
    BY <1>3, <1>4, TakenOut
  <2> HIDE DEF left
  <2>3. QED
    BY <2>1, <2>2
<1>7. InboxShape'
  <2>1. \A i \in 1..Len(told') : told'[i].ids \subseteq read'
    <3>1. SUFFICES ASSUME NEW i \in 1..Len(told')
                   PROVE  told'[i].ids \subseteq read
      BY <1>2
    <3>2. i \in 1..Len(told) - 1 /\ i + 1 \in 1..Len(told)
      BY <1>4
    <3>3. QED
      BY <1>3, <1>4, <3>2
  <2>2. QED
    BY <1>1, <1>2, <1>4, <1>6, <2>1 DEF InboxShape
<1>8. HoldsTheLast'
  BY <1>1, <1>2 DEF HoldsTheLast
<1>9. Part(Way', Way)
  <2>1. Part(inbox' \o arrived, inbox \o arrived)
    BY <1>3, <1>6, PartJoined
  <2>2. QED
    BY <1>2, <2>1 DEF Way
<1>10. Len(Way') \in Nat /\ Len(Way) \in Nat
  <2>1. Way' \in Seq(Messages)
    BY <1>2, <1>3, <1>6 DEF Way
  <2>2. Way \in Seq(Messages)
    BY <1>3 DEF Way
  <2>3. QED
    BY <2>1, <2>2
<1> DEFINE before == Way
           after == Way'
<1>11. AsTold(after) /\ Behind(after)
  <2>1. Part(after, before) /\ Len(after) \in Nat /\ Len(before) \in Nat /\ AsTold(before) /\ Behind(before)
    BY <1>1, <1>9, <1>10
  <2> HIDE DEF before, after
  <2>2. QED
    BY <2>1, AsToldPart, BehindPart
<1>12. AsTold(Way)' /\ Behind(Way)'
  BY <1>2, <1>11 DEF AsTold, Behind
<1>13. I!NoneLost'
  BY <1>1, <1>2, SameHelpers DEF I!NoneLost
<1>14. I!NothingUnreadTaken'
  <2>1. SUFFICES ASSUME byId, NEW x \in known \cup I!ToSet(pipe)
                 PROVE  x \in I!ToSet(inbox') \cup read \cup dropped
    <3>1. I!ToSet(pipe)' = I!ToSet(pipe)
      BY <1>2, SameHelpers
    <3>2. QED
      BY <1>2, <3>1 DEF I!NothingUnreadTaken
  <2>2. x \in I!ToSet(inbox) \cup read \cup dropped
    BY <1>1, <2>1 DEF I!NothingUnreadTaken
  <2>3. x \in I!ToSet(inbox) => x \in read \/ x \in I!ToSet(inbox')
    <3>1. SUFFICES ASSUME NEW k \in 1..Len(inbox), inbox[k] = x, x \notin read
                   PROVE  x \in I!ToSet(inbox')
      BY <1>3, InSet
    <3>2. \E l \in 1..Len(inbox') : inbox'[l] = x
      BY <1>5, <1>6, <2>1, <3>1
    <3>3. QED
      BY <1>6, <3>2, InSet
  <2>4. QED
    BY <2>2, <2>3
<1>15. QED
  BY <1>7, <1>8, <1>12, <1>13, <1>14 DEF InboxInv

\* The harness hears of a message.
LEMMA StepHear ==
  ASSUME InboxInv, I!Hear
  PROVE  InboxInv'
<1>1. /\ InboxShape /\ HoldsTheLast /\ AsTold(Way) /\ Behind(Way)
      /\ I!NoneLost /\ I!NothingUnreadTaken
  BY DEF InboxInv
<1>2. /\ pipe # <<>> /\ known' = known \cup {Head(pipe)} /\ pipe' = Tail(pipe)
      /\ UNCHANGED <<next, holding, arrived, inbox, dropped, read, told, sayings, byId, paging>>
  BY DEF I!Hear
<1>3. pipe \in Seq(Messages) /\ known \subseteq Messages /\ IsFiniteSet(known)
  BY <1>1 DEF InboxShape
<1>4. /\ Len(pipe) \in Nat \ {0} /\ Head(pipe) = pipe[1] /\ Head(pipe) \in Messages
      /\ pipe' \in Seq(Messages) /\ Len(pipe') = Len(pipe) - 1
      /\ \A k \in 1..Len(pipe) - 1 : pipe'[k] = pipe[k + 1]
  BY <1>2, <1>3, Rest
<1>5. InboxShape'
  <2>1. IsFiniteSet(known')
    BY <1>2, <1>3, FS_AddElement
  <2>2. QED
    BY <1>1, <1>2, <1>4, <2>1 DEF InboxShape
<1>6. \A x : x \in known \cup I!ToSet(pipe) <=> x \in known' \cup I!ToSet(pipe')
  <2>1. \A x : x \in I!ToSet(pipe) <=> \E i \in 1..Len(pipe) : pipe[i] = x
    BY <1>3, InSet
  <2>2. \A x : x \in I!ToSet(pipe') <=> \E i \in 1..Len(pipe') : pipe'[i] = x
    BY <1>4, InSet
  <2>3. 1 \in 1..Len(pipe) /\ \A i \in 1..Len(pipe') : i \in 1..Len(pipe) - 1 /\ i + 1 \in 1..Len(pipe)
    BY <1>4
  <2>4. \A i \in 1..Len(pipe) : i = 1 \/ (i - 1 \in 1..Len(pipe') /\ (i - 1) + 1 = i)
    BY <1>4
  <2>5. ASSUME NEW x, x \in I!ToSet(pipe)
        PROVE  x \in known' \cup I!ToSet(pipe')
    <3>1. PICK i \in 1..Len(pipe) : pipe[i] = x
      BY <2>1, <2>5
    <3>2. CASE i = 1
      BY <1>2, <1>4, <3>1, <3>2
    <3>3. CASE i # 1
      <4>1. i - 1 \in 1..Len(pipe) - 1 /\ i - 1 \in 1..Len(pipe') /\ (i - 1) + 1 = i
        BY <1>4, <2>4, <3>3
      <4>2. pipe'[i - 1] = x
        BY <1>4, <3>1, <4>1
      <4>3. QED
        BY <2>2, <4>1, <4>2
    <3>4. QED
      BY <3>2, <3>3
  <2>6. \A x : x \in I!ToSet(pipe') => x \in I!ToSet(pipe)
    BY <1>4, <2>1, <2>2, <2>3
  <2>7. Head(pipe) \in I!ToSet(pipe)
    BY <1>4, <2>1, <2>3
  <2>8. QED
    BY <1>2, <2>5, <2>6, <2>7
<1>7. I!NoneLost'
  <2>1. SUFFICES ASSUME NEW d \in Callers, NEW i \in 1..next[d] - 1
                 PROVE  Said[d][i] \in {holding[d]} \cup I!ToSet(arrived) \cup I!ToSet(pipe') \cup known'
    <3>1. I!ToSet(arrived)' = I!ToSet(arrived)
      BY <1>2, SameHelpers
    <3>2. QED
      BY <1>2, <3>1 DEF I!NoneLost
  <2>2. Said[d][i] \in {holding[d]} \cup I!ToSet(arrived) \cup I!ToSet(pipe) \cup known
    BY <1>1 DEF I!NoneLost
  <2>3. QED
    BY <1>6, <2>2
<1>8. I!NothingUnreadTaken'
  <2>1. SUFFICES ASSUME byId, NEW x \in known' \cup I!ToSet(pipe')
                 PROVE  x \in I!ToSet(inbox) \cup read \cup dropped
    <3>1. I!ToSet(inbox)' = I!ToSet(inbox)
      BY <1>2, SameHelpers
    <3>2. QED
      BY <1>2, <3>1 DEF I!NothingUnreadTaken
  <2>2. x \in known \cup I!ToSet(pipe)
    BY <1>6, <2>1
  <2>3. QED
    BY <1>1, <2>1, <2>2 DEF I!NothingUnreadTaken
<1>9. QED
  BY <1>1, <1>2, <1>5, <1>7, <1>8, WayLeftAlone DEF InboxInv

\* The harness says what it read.
LEMMA StepSayRead ==
  ASSUME InboxInv, I!Say
  PROVE  InboxInv'
<1>1. /\ InboxShape /\ HoldsTheLast /\ AsTold(Way) /\ Behind(Way)
      /\ I!NoneLost /\ I!NothingUnreadTaken
  BY DEF InboxInv
<1>2. /\ sayings < Sayings /\ sayings' = sayings + 1
      /\ UNCHANGED <<next, holding, arrived, inbox, dropped, pipe, known, byId, paging>>
  BY DEF I!Say
<1>3. PICK some \in SUBSET (known \ read) :
        /\ read' = read \cup some
        /\ told' = Append(told, [ids |-> some, waiting |-> I!Cardinality(known \ read')])
  BY DEF I!Say
<1>4. /\ known \subseteq Messages /\ IsFiniteSet(known) /\ read \subseteq known
      /\ told \in Seq(Tellings) /\ \A i \in 1..Len(told) : told[i].ids \subseteq read
      /\ sayings \in 0..Sayings /\ Sayings \in Nat
  BY <1>1, InboxConstants DEF InboxShape
<1> DEFINE waits == I!Cardinality(known \ read')
<1>5. waits \in Nat
  <2>1. IsFiniteSet(known \ read')
    <3>1. known \ read' \subseteq known
      OBVIOUS
    <3>2. QED
      BY <1>4, <3>1, FS_Subset
  <2>2. Cardinality(known \ read') \in Nat
    BY <2>1, FS_CardinalityType
  <2>3. QED
    BY <2>2 DEF I!Cardinality, Cardinality
<1> HIDE DEF waits
<1>6. [ids |-> some, waiting |-> waits] \in Tellings
  <2>1. some \in SUBSET Messages
    BY <1>3, <1>4
  <2>2. QED
    BY <1>5, <2>1 DEF Tellings
<1>7. /\ told' \in Seq(Tellings) /\ Len(told') = Len(told) + 1 /\ Len(told) \in Nat
      /\ \A k \in 1..Len(told) : told'[k] = told[k]
      /\ told'[Len(told) + 1].ids = some
  <2>1. told' = Append(told, [ids |-> some, waiting |-> waits])
    BY <1>3 DEF waits
  <2> DEFINE new == [ids |-> some, waiting |-> waits]
  <2>2. new \in Tellings /\ new.ids = some
    BY <1>6
  <2> HIDE DEF new
  <2>3. told' = Append(told, new)
    BY <2>1 DEF new
  <2>4. QED
    BY <1>4, <2>2, <2>3, Added
<1>8. InboxShape'
  <2>1. \A i \in 1..Len(told') : told'[i].ids \subseteq read'
    <3>1. \A i \in 1..Len(told') : i \in 1..Len(told) \/ i = Len(told) + 1
      BY <1>7
    <3>2. QED
      BY <1>3, <1>4, <1>7, <3>1
  <2>2. read' \subseteq known' /\ sayings' \in 0..Sayings
    BY <1>2, <1>3, <1>4
  <2>3. QED
    BY <1>1, <1>2, <1>7, <2>1, <2>2 DEF InboxShape
<1>9. I!NoneLost'
  BY <1>1, <1>2, SameHelpers DEF I!NoneLost
<1>10. I!NothingUnreadTaken'
  <2>1. read \subseteq read'
    BY <1>3
  <2>2. QED
    BY <1>1, <1>2, <2>1, SameHelpers DEF I!NothingUnreadTaken
<1>11. QED
  BY <1>1, <1>2, <1>8, <1>9, <1>10, WayLeftAlone DEF InboxInv

\* A tool that reads the inbox takes nothing from it.
LEMMA StepPaging ==
  ASSUME InboxInv, I!Open \/ I!Turn
  PROVE  InboxInv'
<1>1. /\ InboxShape /\ HoldsTheLast /\ AsTold(Way) /\ Behind(Way)
      /\ I!NoneLost /\ I!NothingUnreadTaken
  BY DEF InboxInv
<1>2. UNCHANGED <<next, holding, arrived, inbox, dropped, pipe, known, read, sayings, byId, told>>
  BY DEF I!Open, I!Turn, I!harness
<1>3. paging \in Pagings /\ paging.seen = Len(paging.got) /\ inbox \in Seq(Messages)
  BY <1>1 DEF InboxShape
<1>4. paging' \in Pagings /\ paging'.seen = Len(paging'.got)
  <2>1. CASE I!Open
    <3>1. paging' = [at |-> "open", seen |-> 0, got |-> <<>>, first |-> I!ToSet(inbox)]
      BY <2>1 DEF I!Open
    <3>2. I!ToSet(inbox) \subseteq Messages
      <4>1. \A x \in I!ToSet(inbox) : x \in Messages
        BY <1>3, InSet
      <4>2. QED
        BY <4>1
    <3>3. QED
      BY <3>1, <3>2 DEF Pagings
  <2>2. CASE I!Turn
    <3> DEFINE page == I!Paged(inbox, paging.seen)
    <3>1. paging' = IF page = <<>> THEN [paging EXCEPT !.at = "done"]
                    ELSE [paging EXCEPT !.seen = paging.seen + Len(page), !.got = paging.got \o page]
      BY <2>2 DEF I!Turn
    <3>2. page \in Seq(Messages)
      <4>1. paging.seen \in Nat /\ Len(inbox) \in Nat /\ Page \in Nat
        BY <1>3, InboxConstants DEF Pagings
      <4> DEFINE end == IF paging.seen + Page < Len(inbox) THEN paging.seen + Page ELSE Len(inbox)
      <4>2. page = SubSeq(inbox, paging.seen + 1, end)
        BY DEF I!Paged
      <4>3. end \in Nat /\ end <= Len(inbox)
        BY <4>1
      <4>4. paging.seen + 1 \in Nat \ {0}
        BY <4>1
      <4> HIDE DEF end, page
      <4>5. \A k \in paging.seen + 1..end : inbox[k] \in Messages
        <5>1. \A k \in paging.seen + 1..end : k \in 1..Len(inbox)
          BY <4>1, <4>3
        <5>2. QED
          BY <1>3, <5>1
      <4>6. SubSeq(inbox, paging.seen + 1, end) \in Seq(Messages)
        BY <1>3, <4>3, <4>4, <4>5
      <4>7. QED
        BY <4>2, <4>6
    <3> HIDE DEF page
    <3>3. CASE page = <<>>
      BY <1>3, <3>1, <3>3 DEF Pagings
    <3>4. CASE page # <<>>
      <4>1. /\ paging.got \in Seq(Messages) /\ paging.got \o page \in Seq(Messages)
            /\ Len(paging.got \o page) = Len(paging.got) + Len(page)
        BY <1>3, <3>2, Joined DEF Pagings
      <4>2. paging.seen + Len(page) \in Nat /\ paging.seen + Len(page) = Len(paging.got \o page)
        BY <1>3, <3>2, <4>1
      <4>3. paging' = [paging EXCEPT !.seen = paging.seen + Len(page), !.got = paging.got \o page]
        BY <3>1, <3>4
      <4> DEFINE new == paging.got \o page
                 n == paging.seen + Len(page)
      <4>4. new \in Seq(Messages) /\ n \in Nat /\ n = Len(new)
            /\ paging' = [paging EXCEPT !.seen = n, !.got = new]
        BY <4>1, <4>2, <4>3
      <4> HIDE DEF new, n
      <4>5. QED
        BY <1>3, <4>4 DEF Pagings
    <3>5. QED
      BY <3>3, <3>4
  <2>3. QED
    BY <2>1, <2>2
<1>5. InboxShape'
  BY <1>1, <1>2, <1>4 DEF InboxShape
<1>6. I!NoneLost' /\ I!NothingUnreadTaken'
  <2>1. I!NoneLost'
    BY <1>1, <1>2, SameHelpers DEF I!NoneLost
  <2>2. I!NothingUnreadTaken'
    BY <1>1, <1>2, SameHelpers DEF I!NothingUnreadTaken
  <2>3. QED
    BY <2>1, <2>2
<1>7. QED
  BY <1>1, <1>2, <1>5, <1>6, WayLeftAlone DEF InboxInv

\* Every step keeps what holds of an inbox.
LEMMA StepInbox == InboxInv /\ [I!Next]_inboxVars => InboxInv'
<1> SUFFICES ASSUME InboxInv, [I!Next]_inboxVars
             PROVE  InboxInv'
  OBVIOUS
<1>1. CASE UNCHANGED inboxVars
  <2>1. UNCHANGED <<next, holding, arrived, inbox, dropped, pipe, known, read, told, sayings, byId, paging>>
    BY <1>1 DEF inboxVars
  <2>2. /\ InboxShape /\ HoldsTheLast /\ AsTold(Way) /\ Behind(Way)
        /\ I!NoneLost /\ I!NothingUnreadTaken
    BY DEF InboxInv
  <2>3. InboxShape'
    BY <2>1, <2>2 DEF InboxShape
  <2>4. I!NoneLost'
    BY <2>1, <2>2, SameHelpers DEF I!NoneLost
  <2>5. I!NothingUnreadTaken'
    BY <2>1, <2>2, SameHelpers DEF I!NothingUnreadTaken
  <2>6. QED
    BY <2>1, <2>2, <2>3, <2>4, <2>5, WayLeftAlone DEF InboxInv
<1>2. CASE I!Next
  <2>1. ASSUME NEW c \in Callers, I!Tell(c) \/ I!Deliver(c)
        PROVE  InboxInv'
    BY <2>1, StepTell, StepDeliver
  <2>2. CASE I!Take
    BY <2>2, StepTake
  <2>3. CASE I!TakeTold
    BY <2>3, StepTakeTold
  <2>4. CASE I!Hear
    BY <2>4, StepHear
  <2>5. CASE I!Say
    BY <2>5, StepSayRead
  <2>6. CASE I!Open \/ I!Turn
    BY <2>6, StepPaging
  <2>7. QED
    BY <1>2, <2>1, <2>2, <2>3, <2>4, <2>5, <2>6 DEF I!Next
<1>3. QED
  BY <1>1, <1>2

\* A cry for help goes only where the inbox holds nothing else.
LEMMA UrgentKept ==
  ASSUME InboxShape, [I!Next]_inboxVars
  PROVE  [I!UrgentStays]_dropped
<1>1. CASE dropped' = dropped
  BY <1>1
<1>2. CASE I!Take
  <2> DEFINE m == Head(arrived)
             all == Append(inbox, m)
  <2>1. /\ m \in Messages /\ inbox' = I!Kept(inbox, m) /\ inbox \in Seq(Messages) /\ Len(inbox) <= AtMost
        /\ dropped' = dropped \cup ((I!ToSet(inbox) \cup {m}) \ I!ToSet(inbox'))
        /\ \A x : x \in I!ToSet(all) <=> x \in I!ToSet(inbox) \cup {m}
    BY <1>2, TakeDoes
  <2>2. /\ all \in Seq(Messages) /\ Len(all) = Len(inbox) + 1 /\ Len(inbox) \in Nat
        /\ \A k \in 1..Len(inbox) : all[k] = inbox[k]
    BY <2>1, Added
  <2>3. \/ inbox' = all
        \/ \E p \in 1..Len(inbox) + 1 :
             /\ inbox' = Less(all, p)
             /\ all[p] \notin Urgent \/ \A k \in 1..Len(inbox) + 1 : all[k] \in Urgent
    BY <2>1, OneLetGo
  <2> HIDE DEF all, m
  <2>4. SUFFICES ASSUME NEW x \in Urgent, x \in dropped' \ dropped
                 PROVE  I!ToSet(inbox) \subseteq Urgent
    BY DEF I!UrgentStays
  <2>5. x \in I!ToSet(all) /\ x \notin I!ToSet(inbox')
    BY <2>1, <2>4
  <2>6. PICK p \in 1..Len(inbox) + 1 :
          /\ inbox' = Less(all, p)
          /\ all[p] \notin Urgent \/ \A k \in 1..Len(inbox) + 1 : all[k] \in Urgent
    BY <2>3, <2>5
  <2>7. x = all[p]
    <3>1. p \in 1..Len(all)
      BY <2>2
    <3>2. QED
      BY <2>2, <2>5, <2>6, <3>1, OnlyThatPlace
  <2>8. \A k \in 1..Len(inbox) + 1 : all[k] \in Urgent
    BY <2>4, <2>6, <2>7
  <2>9. \A k \in 1..Len(inbox) : inbox[k] \in Urgent
    BY <2>2, <2>8
  <2>10. QED
    BY <2>1, <2>9, InSet
<1>3. dropped' = dropped \/ I!Take
  BY DEF I!Next, I!Tell, I!Deliver, I!TakeTold, I!Hear, I!Say, I!Open, I!Turn, inboxVars
<1>4. QED
  BY <1>1, <1>2, <1>3

\* ... and that is what was to be shown of it.
LEMMA InboxGood ==
  InboxInv => I!TypeOK /\ I!NoneLost /\ I!InOrder /\ I!NothingUnreadTaken
<1> SUFFICES ASSUME InboxInv
             PROVE  I!TypeOK /\ I!NoneLost /\ I!InOrder /\ I!NothingUnreadTaken
  OBVIOUS
<1>1. InboxShape /\ AsTold(Way) /\ I!NoneLost /\ I!NothingUnreadTaken
  BY DEF InboxInv
<1>2. I!TypeOK
  <2>1. paging.got \in Seq(Messages) /\ paging.first \subseteq Messages
    BY <1>1 DEF InboxShape, Pagings
  <2>2. told \in Seq([ids : SUBSET Messages, waiting : Nat])
    BY <1>1 DEF InboxShape, Tellings
  <2>3. next \in [Callers -> Nat]
    BY <1>1 DEF InboxShape
  <2>4. QED
    BY <1>1, <2>1, <2>2, <2>3 DEF InboxShape, I!TypeOK, Messages
<1>3. I!InOrder
  <2>1. inbox \in Seq(Messages) /\ arrived \in Seq(Messages)
    BY <1>1 DEF InboxShape
  <2>2. Way \in Seq(Messages)
    BY <2>1 DEF Way
  <2>3. DOMAIN Way = 1..Len(Way)
    BY <2>2
  <2>4. \A c \in Callers : DOMAIN Said[c] = 1..Len(Said[c])
    BY InboxConstants
  <2>5. \A c \in Callers : \A i, j \in DOMAIN Said[c] :
          i < j => \A k, l \in DOMAIN Way : Way[k] = Said[c][i] /\ Way[l] = Said[c][j] => k < l
    BY <1>1, <2>3, <2>4 DEF AsTold
  <2>6. QED
    BY <2>5 DEF I!InOrder, Way
<1>4. QED
  BY <1>1, <1>2, <1>3

----------------------------------------------------------------------------
\* Sending.

\* u is what w has after its first d.
TailFrom(u, w, d) ==
  d \in 0..Len(w) /\ Len(u) = Len(w) - d /\ \A k \in 1..Len(u) : u[k] = w[d + k]

\* One more at the end of both leaves a tail a tail.
LEMMA TailAdded ==
  ASSUME NEW T, NEW u \in Seq(T), NEW w \in Seq(T), NEW x \in T, NEW d, TailFrom(u, w, d)
  PROVE  TailFrom(Append(u, x), Append(w, x), d)
<1> DEFINE a == Append(u, x)
           b == Append(w, x)
<1>1. /\ Len(a) = Len(u) + 1 /\ a[Len(u) + 1] = x /\ \A k \in 1..Len(u) : a[k] = u[k]
  BY Added
<1>2. /\ Len(b) = Len(w) + 1 /\ b[Len(w) + 1] = x /\ \A k \in 1..Len(w) : b[k] = w[k]
  BY Added
<1>3. /\ d \in 0..Len(w) /\ Len(u) = Len(w) - d /\ \A k \in 1..Len(u) : u[k] = w[d + k]
  BY DEF TailFrom
<1>4. Len(u) \in Nat /\ Len(w) \in Nat
  OBVIOUS
<1> HIDE DEF a, b
<1>5. d \in 0..Len(b) /\ Len(a) = Len(b) - d
  BY <1>1, <1>2, <1>3, <1>4
<1>6. ASSUME NEW k \in 1..Len(a)
      PROVE  a[k] = b[d + k]
  <2>1. CASE k \in 1..Len(u)
    <3>1. d + k \in 1..Len(w)
      BY <1>3, <1>4, <2>1
    <3>2. QED
      BY <1>1, <1>2, <1>3, <2>1, <3>1
  <2>2. CASE k = Len(u) + 1
    <3>1. d + k = Len(w) + 1
      BY <1>3, <1>4, <2>2
    <3>2. QED
      BY <1>1, <1>2, <2>2, <3>1
  <2>3. QED
    BY <1>1, <1>4, <2>1, <2>2
<1>7. TailFrom(a, b, d)
  BY <1>5, <1>6 DEF TailFrom
<1>8. QED
  BY <1>7 DEF a, b

\* A tail of a tail is a tail.
LEMMA TailOfTail ==
  ASSUME NEW T, NEW v \in Seq(T), NEW u \in Seq(T), NEW w \in Seq(T), NEW d, NEW e,
         TailFrom(u, w, d), TailFrom(v, u, e)
  PROVE  TailFrom(v, w, d + e)
<1>1. Len(v) \in Nat /\ Len(u) \in Nat /\ Len(w) \in Nat
  OBVIOUS
<1>2. /\ d \in 0..Len(w) /\ Len(u) = Len(w) - d /\ \A k \in 1..Len(u) : u[k] = w[d + k]
      /\ e \in 0..Len(u) /\ Len(v) = Len(u) - e /\ \A k \in 1..Len(v) : v[k] = u[e + k]
  BY DEF TailFrom
<1>3. d + e \in 0..Len(w) /\ Len(v) = Len(w) - (d + e)
  BY <1>1, <1>2
<1>4. ASSUME NEW k \in 1..Len(v)
      PROVE  v[k] = w[d + e + k]
  <2>1. e + k \in 1..Len(u) /\ d + (e + k) = d + e + k
    BY <1>1, <1>2
  <2>2. v[k] = u[e + k] /\ u[e + k] = w[d + (e + k)]
    BY <1>2, <2>1
  <2>3. QED
    BY <2>1, <2>2
<1>5. QED
  BY <1>3, <1>4 DEF TailFrom

\* Of things in the order of their times, what is fresh is a tail, and whatever is before it is not.
LEMMA FreshTail ==
  ASSUME NEW T, NEW s \in Seq(T), NEW at \in [1..Len(s) -> Nat], NEW n \in Nat,
         \A i, j \in 1..Len(s) : i < j => at[i] <= at[j]
  PROVE  LET fresh == Retain(s, {i \in 1..Len(s) : n - at[i] < Window})
         IN /\ fresh \in Seq(T) /\ Len(fresh) <= Len(s)
            /\ \E e \in 0..Len(s) : TailFrom(fresh, s, e) /\ \A i \in 1..e : n - at[i] >= Window
<1> DEFINE P == {i \in 1..Len(s) : n - at[i] < Window}
           fresh == Retain(s, P)
<1>1. Len(s) \in Nat /\ Window \in Nat
  BY TalkKinds DEF S!SendingKinds
<1>2. P \in SUBSET (1..Len(s)) /\ \A i \in 1..Len(s) : i \in P <=> n - at[i] < Window
  OBVIOUS
<1>3. \A p \in P : \A q \in 1..Len(s) : p <= q => q \in P
  <2>1. SUFFICES ASSUME NEW p \in P, NEW q \in 1..Len(s), p <= q
                 PROVE  q \in P
    OBVIOUS
  <2>2. p \in 1..Len(s) /\ at[p] \in Nat /\ at[q] \in Nat /\ at[p] <= at[q] /\ n - at[p] < Window
    BY <1>2, <2>1
  <2>3. n - at[q] < Window
    BY <1>1, <2>2
  <2>4. QED
    BY <1>2, <2>3
<1> HIDE DEF P
<1>4. PICK d \in 0..Len(s) :
        /\ fresh \in Seq(T) /\ Len(fresh) = Len(s) - d
        /\ \A k \in 1..Len(s) - d : fresh[k] = s[d + k]
        /\ \A i \in 1..Len(s) : i \in P <=> d < i
  BY <1>2, <1>3, RetainedLate
<1> HIDE DEF fresh
<1>5. TailFrom(fresh, s, d) /\ Len(fresh) <= Len(s)
  BY <1>1, <1>4 DEF TailFrom
<1>6. \A i \in 1..d : n - at[i] >= Window
  <2>1. SUFFICES ASSUME NEW i \in 1..d
                 PROVE  n - at[i] >= Window
    OBVIOUS
  <2>2. i \in 1..Len(s) /\ ~(d < i)
    BY <1>1, <1>4
  <2>3. ~(n - at[i] < Window) /\ at[i] \in Nat
    BY <1>2, <1>4, <2>2
  <2>4. QED
    BY <1>1, <2>3
<1>7. QED
  BY <1>4, <1>5, <1>6 DEF fresh, P

Sendings == [at : 0..MaxTime, mark : Marks]
Toolings == [at : S!Places, held : Seq(Sendings)]

SendShape ==
  /\ now \in 0..MaxTime /\ up \in BOOLEAN /\ apart \in BOOLEAN
  /\ note \in Seq(Sendings) /\ Len(note) <= InAWindow
  /\ tool \in [Tools -> Toolings] /\ \A t \in Tools : Len(tool[t].held) <= InAWindow
  /\ \A t \in Tools : tool[t].at \in {"emptying", "filling"} => Len(tool[t].held) > 0
  /\ sent \in Seq(Sendings)
  /\ heard \in Seq(0..MaxTime) /\ Len(heard) <= InAWindow /\ taken \in Seq(0..MaxTime)

\* The peer's count is the last of what it took, and what it forgot is too old to count.
HeardInv ==
  /\ \A i \in 1..Len(taken) : taken[i] <= now
  /\ \A i, j \in 1..Len(taken) : i < j => taken[i] <= taken[j]
  /\ \E d \in 0..Len(taken) : TailFrom(heard, taken, d) /\ \A i \in 1..d : now - taken[i] >= Window
  /\ \A i, j \in 1..Len(taken) : j - i >= InAWindow => taken[j] - taken[i] >= Window

\* What is assumed of the window.
LEMMA SendingConstants ==
  /\ InAWindow \in Nat \ {0} /\ Window \in Nat /\ MaxTime \in Nat
BY TalkKinds DEF S!SendingKinds

\* FreshTimes, of the peer's count.
LEMMA HeardFresh ==
  ASSUME SendShape, HeardInv
  PROVE  LET times == S!FreshTimes(heard)
         IN /\ times \in Seq(0..MaxTime) /\ Len(times) <= InAWindow /\ Len(times) \in Nat
            /\ \E d \in 0..Len(taken) : TailFrom(times, taken, d) /\ \A i \in 1..d : now - taken[i] >= Window
<1> DEFINE times == S!FreshTimes(heard)
           P == {i \in 1..Len(heard) : now - heard[i] < Window}
<1>1. /\ now \in 0..MaxTime /\ heard \in Seq(0..MaxTime) /\ Len(heard) <= InAWindow /\ taken \in Seq(0..MaxTime)
      /\ Len(heard) \in Nat /\ Len(taken) \in Nat /\ InAWindow \in Nat /\ Window \in Nat /\ MaxTime \in Nat
  BY SendingConstants DEF SendShape
<1>2. times = Retain(heard, P)
  <2>1. DOMAIN heard = 1..Len(heard)
    BY <1>1
  <2>2. times = S!Retain(heard, P)
    BY <2>1 DEF S!FreshTimes
  <2>3. QED
    BY <2>2, SameHelpers
<1>3. PICK d \in 0..Len(taken) : TailFrom(heard, taken, d) /\ \A i \in 1..d : now - taken[i] >= Window
  BY DEF HeardInv
<1>4. d \in Nat /\ Len(heard) = Len(taken) - d /\ \A k \in 1..Len(heard) : heard[k] = taken[d + k]
  BY <1>1, <1>3 DEF TailFrom
<1>5. \A i, j \in 1..Len(heard) : i < j => heard[i] <= heard[j]
  <2>1. SUFFICES ASSUME NEW i \in 1..Len(heard), NEW j \in 1..Len(heard), i < j
                 PROVE  heard[i] <= heard[j]
    OBVIOUS
  <2>2. d + i \in 1..Len(taken) /\ d + j \in 1..Len(taken) /\ d + i < d + j
    BY <1>1, <1>4, <2>1
  <2>3. taken[d + i] <= taken[d + j]
    BY <2>2 DEF HeardInv
  <2>4. QED
    BY <1>4, <2>3
<1>6. \A i \in 1..Len(heard) : heard[i] \in Nat
  BY <1>1
<1> DEFINE at == [i \in 1..Len(heard) |-> heard[i]]
<1>7. at \in [1..Len(heard) -> Nat] /\ \A i \in 1..Len(heard) : at[i] = heard[i]
  BY <1>6
<1> HIDE DEF at
<1>8. {i \in 1..Len(heard) : now - at[i] < Window} = P
  BY <1>7
<1>9. \A i, j \in 1..Len(heard) : i < j => at[i] <= at[j]
  BY <1>5, <1>7
<1> HIDE DEF P, times
<1>10. /\ times \in Seq(0..MaxTime) /\ Len(times) <= Len(heard)
       /\ \E e \in 0..Len(heard) : TailFrom(times, heard, e) /\ \A i \in 1..e : now - at[i] >= Window
  <2>1. LET fresh == Retain(heard, {i \in 1..Len(heard) : now - at[i] < Window})
        IN /\ fresh \in Seq(0..MaxTime) /\ Len(fresh) <= Len(heard)
           /\ \E e \in 0..Len(heard) : TailFrom(fresh, heard, e) /\ \A i \in 1..e : now - at[i] >= Window
    <3>1. now \in Nat
      BY <1>1
    <3>2. QED
      BY <1>1, <1>7, <1>9, <3>1, FreshTail
  <2>2. QED
    BY <1>2, <1>8, <2>1
<1>11. PICK e \in 0..Len(heard) : TailFrom(times, heard, e) /\ \A i \in 1..e : now - at[i] >= Window
  BY <1>10
<1>12. TailFrom(times, taken, d + e)
  BY <1>1, <1>3, <1>10, <1>11, TailOfTail
<1>13. \A i \in 1..d + e : now - taken[i] >= Window
  <2>1. SUFFICES ASSUME NEW i \in 1..d + e, ~(i <= d)
                 PROVE  now - taken[i] >= Window
    BY <1>1, <1>3, <1>4
  <2>2. i - d \in 1..e /\ i - d \in 1..Len(heard) /\ d + (i - d) = i
    BY <1>1, <1>4, <1>11, <2>1
  <2>3. now - at[i - d] >= Window /\ at[i - d] = heard[i - d] /\ heard[i - d] = taken[d + (i - d)]
    BY <1>4, <1>7, <1>11, <2>2
  <2>4. QED
    BY <2>2, <2>3
<1>14. Len(times) <= InAWindow /\ Len(times) \in Nat
  BY <1>1, <1>10
<1>15. d + e \in 0..Len(taken)
  BY <1>12 DEF TailFrom
<1>16. QED
  BY <1>10, <1>12, <1>13, <1>14, <1>15 DEF times

\* heard_from: what the peer takes when its count has room is a window after what the count forgot.
LEMMA StepHeard == SendShape /\ HeardInv /\ [S!Next]_sendingVars => HeardInv'
<1> SUFFICES ASSUME SendShape, HeardInv, [S!Next]_sendingVars
             PROVE  HeardInv'
  OBVIOUS
<1>1. /\ now \in 0..MaxTime /\ taken \in Seq(0..MaxTime) /\ heard \in Seq(0..MaxTime)
      /\ Len(taken) \in Nat /\ InAWindow \in Nat \ {0} /\ Window \in Nat /\ MaxTime \in Nat
      /\ \A i \in 1..Len(taken) : taken[i] \in 0..MaxTime
  BY SendingConstants DEF SendShape
<1>2. CASE UNCHANGED <<now, heard, taken>>
  BY <1>2 DEF HeardInv
<1>3. CASE now' = now + 1 /\ UNCHANGED <<heard, taken>>
  <2>1. \A i \in 1..Len(taken) : taken[i] <= now'
    BY <1>1, <1>3 DEF HeardInv
  <2>2. \E d \in 0..Len(taken) : TailFrom(heard, taken, d) /\ \A i \in 1..d : now' - taken[i] >= Window
    <3>1. PICK d \in 0..Len(taken) : TailFrom(heard, taken, d) /\ \A i \in 1..d : now - taken[i] >= Window
      BY DEF HeardInv
    <3>2. \A i \in 1..d : now' - taken[i] >= Window
      BY <1>1, <1>3, <3>1
    <3>3. QED
      BY <3>1, <3>2
  <2>3. QED
    BY <1>3, <2>1, <2>2 DEF HeardInv
<1>4. ASSUME NEW t \in Tools, S!Say(t)
      PROVE  HeardInv'
  <2> DEFINE times == S!FreshTimes(heard)
  <2>1. /\ times \in Seq(0..MaxTime) /\ Len(times) <= InAWindow /\ Len(times) \in Nat
        /\ \E d \in 0..Len(taken) : TailFrom(times, taken, d) /\ \A i \in 1..d : now - taken[i] >= Window
    BY HeardFresh
  <2>2. now' = now
    BY <1>4 DEF S!Say
  <2>3. \/ Len(times) >= InAWindow /\ heard' = times /\ taken' = taken
        \/ /\ ~(Len(times) >= InAWindow)
           /\ heard' = Append(times, now) /\ taken' = Append(taken, now)
    BY <1>4 DEF S!Say
  <2> HIDE DEF times
  <2>4. CASE heard' = times /\ taken' = taken
    BY <2>1, <2>2, <2>4 DEF HeardInv
  <2>5. CASE /\ ~(Len(times) >= InAWindow)
             /\ heard' = Append(times, now) /\ taken' = Append(taken, now)
    <3>1. /\ Len(taken') = Len(taken) + 1 /\ taken'[Len(taken) + 1] = now
          /\ \A i \in 1..Len(taken) : taken'[i] = taken[i]
      BY <1>1, <2>5, Added
    <3>2. \A i \in 1..Len(taken') : i \in 1..Len(taken) \/ i = Len(taken) + 1
      BY <1>1, <3>1
    <3>3. PICK d \in 0..Len(taken) : TailFrom(times, taken, d) /\ \A i \in 1..d : now - taken[i] >= Window
      BY <2>1
    <3>4. TailFrom(heard', taken', d)
      BY <1>1, <2>1, <2>5, <3>3, TailAdded
    <3>5. d \in 0..Len(taken') /\ \A i \in 1..d : i \in 1..Len(taken) /\ now - taken'[i] >= Window
      <4>1. d \in Nat /\ d <= Len(taken)
        BY <1>1
      <4>2. d \in 0..Len(taken') /\ \A i \in 1..d : i \in 1..Len(taken)
        BY <1>1, <3>1, <4>1
      <4>3. QED
        BY <3>1, <3>3, <4>2
    <3>6. \A i \in 1..Len(taken') : taken'[i] <= now
      BY <1>1, <3>1, <3>2 DEF HeardInv
    <3>7. \A i, j \in 1..Len(taken') : i < j => taken'[i] <= taken'[j]
      <4>1. SUFFICES ASSUME NEW i \in 1..Len(taken'), NEW j \in 1..Len(taken'), i < j
                     PROVE  taken'[i] <= taken'[j]
        OBVIOUS
      <4>2. i \in 1..Len(taken)
        BY <1>1, <3>1, <3>2, <4>1
      <4>3. QED
        BY <1>1, <3>1, <3>2, <3>6, <4>1, <4>2 DEF HeardInv
    <3>8. \A i, j \in 1..Len(taken') : j - i >= InAWindow => taken'[j] - taken'[i] >= Window
      <4>1. SUFFICES ASSUME NEW i \in 1..Len(taken'), NEW j \in 1..Len(taken'), j - i >= InAWindow
                     PROVE  taken'[j] - taken'[i] >= Window
        OBVIOUS
      <4>2. i \in 1..Len(taken)
        BY <1>1, <3>1, <3>2, <4>1
      <4>3. CASE j \in 1..Len(taken)
        BY <3>1, <4>1, <4>2, <4>3 DEF HeardInv
      <4>4. CASE j = Len(taken) + 1
        <5>1. Len(times) = Len(taken) - d /\ d \in Nat
          BY <3>3 DEF TailFrom
        <5>2. Len(times) < InAWindow
          BY <1>1, <2>1, <2>5
        <5>3. i \in 1..d
          BY <1>1, <2>1, <4>1, <4>2, <4>4, <5>1, <5>2
        <5>4. QED
          BY <3>1, <3>5, <4>4, <5>3
      <4>5. QED
        BY <3>2, <4>3, <4>4
    <3>9. QED
      BY <2>2, <3>4, <3>5, <3>6, <3>7, <3>8 DEF HeardInv
  <2>6. QED
    BY <2>3, <2>4, <2>5
<1>5. CASE S!Tick \/ S!End
  BY <1>2, <1>3, <1>5 DEF S!Tick, S!End
<1>6. ASSUME NEW t \in Tools,
             \/ S!Begin(t) \/ S!Empty(t) \/ S!Fill(t) \/ S!Killed(t) \/ S!Unheard(t)
             \/ \E m \in Marks : S!Read(t, m)
      PROVE  UNCHANGED <<now, heard, taken>>
  BY <1>6 DEF S!Begin, S!Empty, S!Fill, S!Killed, S!Unheard, S!Read
<1>7. CASE UNCHANGED sendingVars
  BY <1>2, <1>7 DEF sendingVars
<1>8. QED
  BY <1>2, <1>4, <1>5, <1>6, <1>7 DEF S!Next

\* Fresh, of the note.
LEMMA NoteFresh ==
  ASSUME SendShape, \A i, j \in 1..Len(note) : i < j => note[i].at <= note[j].at
  PROVE  LET held == S!Fresh(note)
         IN /\ held \in Seq(Sendings) /\ Len(held) <= InAWindow /\ Len(held) \in Nat
            /\ \E e \in 0..Len(note) : TailFrom(held, note, e) /\ \A i \in 1..e : now - note[i].at >= Window
<1> DEFINE held == S!Fresh(note)
           P == {i \in 1..Len(note) : now - note[i].at < Window}
<1>1. /\ now \in Nat /\ note \in Seq(Sendings) /\ Len(note) <= InAWindow
      /\ Len(note) \in Nat /\ InAWindow \in Nat
  BY SendingConstants DEF SendShape
<1>2. held = Retain(note, P)
  <2>1. DOMAIN note = 1..Len(note)
    BY <1>1
  <2>2. held = S!Retain(note, P)
    BY <2>1 DEF S!Fresh
  <2>3. QED
    BY <2>2, SameHelpers
<1>3. \A i \in 1..Len(note) : note[i].at \in Nat
  <2>1. \A i \in 1..Len(note) : note[i] \in Sendings
    BY <1>1
  <2>2. QED
    BY <2>1, SendingConstants DEF Sendings
<1> DEFINE at == [i \in 1..Len(note) |-> note[i].at]
<1>4. at \in [1..Len(note) -> Nat] /\ \A i \in 1..Len(note) : at[i] = note[i].at
  BY <1>3
<1> HIDE DEF at
<1>5. {i \in 1..Len(note) : now - at[i] < Window} = P
  BY <1>4
<1>6. \A i, j \in 1..Len(note) : i < j => at[i] <= at[j]
  BY <1>4
<1> HIDE DEF P, held
<1>7. /\ held \in Seq(Sendings) /\ Len(held) <= Len(note)
      /\ \E e \in 0..Len(note) : TailFrom(held, note, e) /\ \A i \in 1..e : now - at[i] >= Window
  <2>1. LET fresh == Retain(note, {i \in 1..Len(note) : now - at[i] < Window})
        IN /\ fresh \in Seq(Sendings) /\ Len(fresh) <= Len(note)
           /\ \E e \in 0..Len(note) : TailFrom(fresh, note, e) /\ \A i \in 1..e : now - at[i] >= Window
    BY <1>1, <1>4, <1>6, FreshTail
  <2>2. QED
    BY <1>2, <1>5, <2>1
<1>8. PICK e \in 0..Len(note) : TailFrom(held, note, e) /\ \A i \in 1..e : now - at[i] >= Window
  BY <1>7
<1>9. \A i \in 1..e : now - note[i].at >= Window
  <2>1. \A i \in 1..e : i \in 1..Len(note)
    BY <1>1, <1>8
  <2>2. QED
    BY <1>4, <1>8, <2>1
<1>10. Len(held) \in Nat /\ Len(held) <= InAWindow
  BY <1>1, <1>7
<1>11. QED
  BY <1>7, <1>8, <1>9, <1>10 DEF held

\* Fresh keeps the note's kind and grows it by nothing, in whatever order it is.
LEMMA FreshKind ==
  ASSUME SendShape
  PROVE  S!Fresh(note) \in Seq(Sendings) /\ Len(S!Fresh(note)) <= InAWindow
<1> DEFINE P == {i \in DOMAIN note : now - note[i].at < Window}
<1>1. note \in Seq(Sendings) /\ Len(note) <= InAWindow /\ Len(note) \in Nat /\ InAWindow \in Nat
  BY SendingConstants DEF SendShape
<1>2. S!Fresh(note) = Retain(note, P)
  BY SameHelpers DEF S!Fresh
<1>3. P \in SUBSET (1..Len(note))
  BY <1>1
<1> HIDE DEF P
<1>4. Retain(note, P) \in Seq(Sendings) /\ Len(Retain(note, P)) <= Len(note)
  BY <1>1, <1>3, Retained
<1>5. Len(Retain(note, P)) \in Nat
  BY <1>4
<1>6. QED
  BY <1>1, <1>2, <1>4, <1>5

\* A tool moves on, and holds what it held.
LEMMA ToolMoves ==
  ASSUME SendShape, NEW t \in Tools, NEW place \in S!Places, S!Moves(t, place),
         place \in {"emptying", "filling"} => Len(tool[t].held) > 0
  PROVE  /\ tool' \in [Tools -> Toolings] /\ \A u \in Tools : Len(tool'[u].held) <= InAWindow
         /\ \A u \in Tools : tool'[u].at \in {"emptying", "filling"} => Len(tool'[u].held) > 0
         /\ tool'[t].at = place /\ tool'[t].held = tool[t].held
         /\ \A u \in Tools : u # t => tool'[u] = tool[u]
<1>1. tool \in [Tools -> Toolings] /\ tool' = [tool EXCEPT ![t].at = place]
  BY DEF SendShape, S!Moves
<1>2. tool[t] \in Toolings
  BY <1>1
<1>3. tool'[t] = [tool[t] EXCEPT !.at = place] /\ \A u \in Tools : u # t => tool'[u] = tool[u]
  BY <1>1
<1>4. [tool[t] EXCEPT !.at = place] \in Toolings
  BY <1>2 DEF Toolings
<1>5. tool'[t].at = place /\ tool'[t].held = tool[t].held
  BY <1>2, <1>3 DEF Toolings
<1>6. tool' \in [Tools -> Toolings]
  BY <1>1, <1>3, <1>4
<1>7. \A u \in Tools : Len(tool'[u].held) <= InAWindow
  BY <1>3, <1>5 DEF SendShape
<1>8. \A u \in Tools : tool'[u].at \in {"emptying", "filling"} => Len(tool'[u].held) > 0
  BY <1>3, <1>5 DEF SendShape
<1>9. QED
  BY <1>3, <1>5, <1>6, <1>7, <1>8

\* A tool is given something to hold.
LEMMA ToolTakes ==
  ASSUME SendShape, NEW t \in Tools, NEW place \in S!Places, NEW h \in Seq(Sendings), Len(h) <= InAWindow,
         place \in {"emptying", "filling"} => Len(h) > 0,
         tool' = [tool EXCEPT ![t] = [at |-> place, held |-> h]]
  PROVE  /\ tool' \in [Tools -> Toolings] /\ \A u \in Tools : Len(tool'[u].held) <= InAWindow
         /\ \A u \in Tools : tool'[u].at \in {"emptying", "filling"} => Len(tool'[u].held) > 0
         /\ tool'[t].at = place /\ tool'[t].held = h
         /\ \A u \in Tools : u # t => tool'[u] = tool[u]
<1>1. tool \in [Tools -> Toolings]
  BY DEF SendShape
<1> DEFINE new == [at |-> place, held |-> h]
<1>2. new \in Toolings /\ new.at = place /\ new.held = h
  BY DEF Toolings
<1> HIDE DEF new
<1>3. tool' = [tool EXCEPT ![t] = new]
  BY DEF new
<1>4. tool'[t] = new /\ \A u \in Tools : u # t => tool'[u] = tool[u]
  BY <1>1, <1>3
<1>5. tool' \in [Tools -> Toolings]
  BY <1>1, <1>2, <1>3
<1>6. \A u \in Tools : Len(tool'[u].held) <= InAWindow
  BY <1>2, <1>4 DEF SendShape
<1>7. \A u \in Tools : tool'[u].at \in {"emptying", "filling"} => Len(tool'[u].held) > 0
  BY <1>2, <1>4 DEF SendShape
<1>8. QED
  BY <1>2, <1>4, <1>5, <1>6, <1>7

\* Nothing was said, and nothing heard.
LEMMA InitSending ==
  S!Init => SendShape /\ HeardInv
<1> SUFFICES ASSUME S!Init
             PROVE  SendShape /\ HeardInv
  OBVIOUS
<1>1. /\ now = 0 /\ up = TRUE /\ note = <<>> /\ tool = [t \in Tools |-> S!Idle]
      /\ sent = <<>> /\ heard = <<>> /\ taken = <<>> /\ apart = TRUE
  BY DEF S!Init
<1>2. /\ Len(note) = 0 /\ Len(heard) = 0 /\ Len(taken) = 0
      /\ note \in Seq(Sendings) /\ sent \in Seq(Sendings)
      /\ heard \in Seq(0..MaxTime) /\ taken \in Seq(0..MaxTime)
  BY <1>1
<1>3. S!Idle \in Toolings /\ S!Idle.at = "idle" /\ Len(S!Idle.held) = 0
  <2>1. S!Idle = [at |-> "idle", held |-> <<>>] /\ <<>> \in Seq(Sendings) /\ "idle" \in S!Places
    BY DEF S!Idle, S!Places
  <2>2. QED
    BY <2>1 DEF Toolings
<1>4. tool \in [Tools -> Toolings] /\ \A t \in Tools : tool[t] = S!Idle
  BY <1>1, <1>3
<1>5. SendShape
  BY <1>1, <1>2, <1>3, <1>4, SendingConstants DEF SendShape
<1>6. HeardInv
  <2>1. TailFrom(heard, taken, 0)
    BY <1>1, <1>2 DEF TailFrom
  <2>2. 0 \in 0..Len(taken)
    BY <1>2
  <2>3. QED
    BY <1>2, <2>1, <2>2 DEF HeardInv
<1>7. QED
  BY <1>5, <1>6

\* What is written over a note: the longer of the two, and no longer.
LEMMA WrittenOver ==
  ASSUME NEW T, NEW h \in Seq(T), NEW s \in Seq(T), NEW most \in Nat, Len(h) <= most, Len(s) <= most
  PROVE  /\ h \o SubSeq(s, Len(h) + 1, Len(s)) \in Seq(T)
         /\ Len(h \o SubSeq(s, Len(h) + 1, Len(s))) <= most
         /\ s = <<>> => h \o SubSeq(s, Len(h) + 1, Len(s)) = h
<1> DEFINE rest == SubSeq(s, Len(h) + 1, Len(s))
<1>1. Len(h) \in Nat /\ Len(s) \in Nat
  OBVIOUS
<1>2. CASE Len(h) <= Len(s)
  <2>1. Len(h) \in 0..Len(s)
    BY <1>1, <1>2
  <2>2. rest \in Seq(T) /\ Len(rest) = Len(s) - Len(h)
    BY <2>1, PartFrom
  <2> HIDE DEF rest
  <2>3. h \o rest \in Seq(T) /\ Len(h \o rest) = Len(h) + Len(rest)
    BY <2>2, Joined
  <2>4. s = <<>> => h \o rest = h
    <3>1. s = <<>> => Len(rest) = 0
      BY <1>1, <1>2, <2>2
    <3>2. Len(rest) = 0 => h \o rest = h
      BY <2>2
    <3>3. QED
      BY <3>1, <3>2
  <2>5. Len(h \o rest) <= most
    BY <1>1, <2>2, <2>3
  <2>6. QED
    BY <2>3, <2>4, <2>5 DEF rest
<1>3. CASE ~(Len(h) <= Len(s))
  <2>1. rest = <<>>
    BY <1>1, <1>3
  <2> HIDE DEF rest
  <2>2. h \o rest = h
    BY <2>1
  <2>3. QED
    BY <2>2 DEF rest
<1>4. QED
  BY <1>2, <1>3

\* What a tool writes: what it holds, over the rest of the note.
LEMMA FillDoes ==
  ASSUME SendShape, NEW t \in Tools, S!Fill(t)
  PROVE  /\ tool[t].at = "filling" /\ tool[t].held \in Seq(Sendings)
         /\ Len(tool[t].held) \in Nat \ {0} /\ Len(tool[t].held) <= InAWindow
         /\ tool[t].held[Len(tool[t].held)] \in Sendings
         /\ note' \in Seq(Sendings) /\ Len(note') <= InAWindow
         /\ note = <<>> => note' = tool[t].held
         /\ sent' = Append(sent, tool[t].held[Len(tool[t].held)])
         /\ S!Moves(t, "saying") /\ UNCHANGED <<now, up, heard, taken, apart>>
<1> DEFINE held == tool[t].held
<1>1. /\ tool[t].at = "filling" /\ note' = held \o SubSeq(note, Len(held) + 1, Len(note))
      /\ sent' = Append(sent, S!Last(held))
      /\ S!Moves(t, "saying") /\ UNCHANGED <<now, up, heard, taken, apart>>
  BY DEF S!Fill, S!At
<1>2. /\ note \in Seq(Sendings) /\ Len(note) <= InAWindow /\ tool[t] \in Toolings /\ Len(held) <= InAWindow
      /\ Len(held) > 0 /\ InAWindow \in Nat
  BY <1>1, SendingConstants DEF SendShape
<1>3. held \in Seq(Sendings)
  BY <1>2 DEF Toolings
<1> HIDE DEF held
<1>4. /\ note' \in Seq(Sendings) /\ Len(note') <= InAWindow /\ (note = <<>> => note' = held)
  BY <1>1, <1>2, <1>3, WrittenOver
<1>5. Len(held) \in Nat \ {0} /\ held[Len(held)] \in Sendings
  BY <1>2, <1>3
<1>6. S!Last(held) = held[Len(held)]
  BY DEF S!Last
<1>7. QED
  BY <1>1, <1>2, <1>3, <1>4, <1>5, <1>6 DEF held

\* What a reading tool does: it is refused, or goes on to write the fresh sends and its own.
LEMMA ReadDoes ==
  ASSUME SendShape, NEW t \in Tools, NEW m \in Marks, S!Read(t, m)
  PROVE  /\ tool[t].at = "reading" /\ UNCHANGED <<now, up, note, sent, heard, taken, apart>>
         /\ \/ S!Moves(t, "idle")
            \/ LET held == S!Fresh(note)
                   new  == [at |-> now, mark |-> m]
               IN /\ held \in Seq(Sendings) /\ Len(held) < InAWindow /\ Len(held) \in Nat
                  /\ \A k \in 1..Len(held) : held[k].mark # m
                  /\ new \in Sendings /\ Append(held, new) \in Seq(Sendings)
                  /\ Len(Append(held, new)) <= InAWindow /\ Len(Append(held, new)) > 0
                  /\ tool' = [tool EXCEPT ![t] = [at |-> "emptying", held |-> Append(held, new)]]
<1> DEFINE held == S!Fresh(note)
           new == [at |-> now, mark |-> m]
<1>1. tool[t].at = "reading" /\ UNCHANGED <<now, up, note, sent, heard, taken, apart>>
  BY DEF S!Read, S!At
<1>2. /\ held \in Seq(Sendings) /\ Len(held) <= InAWindow /\ InAWindow \in Nat /\ Len(held) \in Nat
  <2>1. held \in Seq(Sendings) /\ Len(held) <= InAWindow
    BY FreshKind
  <2> HIDE DEF held
  <2>2. QED
    BY <2>1, SendingConstants
<1>3. new \in Sendings
  BY DEF SendShape, Sendings
<1>4. \/ S!Moves(t, "idle")
      \/ /\ ~S!Echo(held, m) /\ S!RoomIn(held)
         /\ tool' = [tool EXCEPT ![t] = [at |-> "emptying", held |-> Append(held, new)]]
  BY DEF S!Read, S!Allowed
<1> HIDE DEF held, new
<1>5. CASE /\ ~S!Echo(held, m) /\ S!RoomIn(held)
           /\ tool' = [tool EXCEPT ![t] = [at |-> "emptying", held |-> Append(held, new)]]
  <2>1. Len(held) < InAWindow
    BY <1>5 DEF S!RoomIn
  <2>2. \A k \in 1..Len(held) : held[k].mark # m
    <3>1. DOMAIN held = 1..Len(held)
      BY <1>2
    <3>2. QED
      BY <1>5, <3>1 DEF S!Echo
  <2>3. Append(held, new) \in Seq(Sendings) /\ Len(Append(held, new)) = Len(held) + 1
    BY <1>2, <1>3, Added
  <2>4. Len(Append(held, new)) <= InAWindow /\ Len(Append(held, new)) > 0
    BY <1>2, <2>1, <2>3
  <2>5. QED
    BY <1>1, <1>2, <1>3, <1>5, <2>1, <2>2, <2>3, <2>4 DEF held, new
<1>6. QED
  BY <1>1, <1>4, <1>5

\* Every step keeps the shape, and neither count outgrows a window.
LEMMA StepShape == SendShape /\ HeardInv /\ [S!Next]_sendingVars => SendShape'
<1> SUFFICES ASSUME SendShape, HeardInv, [S!Next]_sendingVars
             PROVE  SendShape'
  OBVIOUS
<1>0. {"idle", "reading", "emptying", "filling", "saying"} = S!Places
  BY DEF S!Places
<1>1. ASSUME NEW t \in Tools, S!Begin(t)
      PROVE  SendShape'
  <2>1. /\ tool[t].at = "idle" /\ UNCHANGED <<now, up, note, sent, heard, taken>>
        /\ \E place \in {"reading", "saying"} : S!Moves(t, place)
    BY <1>1 DEF S!Begin, S!At
  <2>2. apart' \in BOOLEAN
    BY <1>1 DEF S!Begin
  <2>3. PICK place \in {"reading", "saying"} : S!Moves(t, place)
    BY <2>1
  <2>4. /\ tool' \in [Tools -> Toolings] /\ \A u \in Tools : Len(tool'[u].held) <= InAWindow
        /\ \A u \in Tools : tool'[u].at \in {"emptying", "filling"} => Len(tool'[u].held) > 0
    BY <1>0, <2>3, ToolMoves
  <2>5. QED
    BY <2>1, <2>2, <2>4 DEF SendShape
<1>2. ASSUME NEW t \in Tools, S!Empty(t)
      PROVE  SendShape'
  <2>1. /\ tool[t].at = "emptying" /\ note' = <<>> /\ UNCHANGED <<now, up, sent, heard, taken, apart>>
        /\ S!Moves(t, "filling")
    BY <1>2 DEF S!Empty, S!At
  <2>2. Len(tool[t].held) > 0
    BY <2>1 DEF SendShape
  <2>3. /\ tool' \in [Tools -> Toolings] /\ \A u \in Tools : Len(tool'[u].held) <= InAWindow
        /\ \A u \in Tools : tool'[u].at \in {"emptying", "filling"} => Len(tool'[u].held) > 0
    BY <1>0, <2>1, <2>2, ToolMoves
  <2>4. note' \in Seq(Sendings) /\ Len(note') <= InAWindow
    BY <2>1, SendingConstants
  <2>5. QED
    BY <2>1, <2>3, <2>4 DEF SendShape
<1>3. ASSUME NEW t \in Tools, S!Fill(t)
      PROVE  SendShape'
  <2> DEFINE new == tool[t].held[Len(tool[t].held)]
  <2>1. /\ new \in Sendings /\ note' \in Seq(Sendings) /\ Len(note') <= InAWindow
        /\ sent' = Append(sent, new) /\ S!Moves(t, "saying") /\ UNCHANGED <<now, up, heard, taken, apart>>
    BY <1>3, FillDoes
  <2> HIDE DEF new
  <2>2. /\ tool' \in [Tools -> Toolings] /\ \A u \in Tools : Len(tool'[u].held) <= InAWindow
        /\ \A u \in Tools : tool'[u].at \in {"emptying", "filling"} => Len(tool'[u].held) > 0
    BY <1>0, <2>1, ToolMoves
  <2>3. sent' \in Seq(Sendings)
    BY <2>1 DEF SendShape
  <2>4. QED
    BY <2>1, <2>2, <2>3 DEF SendShape
<1>4. ASSUME NEW t \in Tools, tool' = [tool EXCEPT ![t] = S!Idle]
      PROVE  /\ tool' \in [Tools -> Toolings] /\ \A u \in Tools : Len(tool'[u].held) <= InAWindow
             /\ \A u \in Tools : tool'[u].at \in {"emptying", "filling"} => Len(tool'[u].held) > 0
  <2>1. <<>> \in Seq(Sendings) /\ Len(<<>>) <= InAWindow /\ tool' = [tool EXCEPT ![t] = [at |-> "idle", held |-> <<>>]]
    BY <1>4, SendingConstants DEF S!Idle
  <2>2. QED
    BY <1>0, <2>1, ToolTakes
<1>5. ASSUME NEW t \in Tools, S!Killed(t) \/ S!Unheard(t)
      PROVE  SendShape'
  <2>1. tool' = [tool EXCEPT ![t] = S!Idle] /\ UNCHANGED <<now, up, note, sent, heard, taken>>
    BY <1>5 DEF S!Killed, S!Unheard
  <2>2. apart' \in BOOLEAN
    BY <1>5 DEF S!Killed, S!Unheard, SendShape
  <2>3. QED
    BY <1>4, <2>1, <2>2 DEF SendShape
<1>6. ASSUME NEW t \in Tools, S!Say(t)
      PROVE  SendShape'
  <2> DEFINE times == S!FreshTimes(heard)
  <2>1. times \in Seq(0..MaxTime) /\ Len(times) <= InAWindow /\ Len(times) \in Nat
    BY HeardFresh
  <2>2. /\ tool' = [tool EXCEPT ![t] = S!Idle] /\ UNCHANGED <<now, up, note, sent, apart>>
        /\ \/ heard' = times /\ taken' = taken
           \/ /\ ~(Len(times) >= InAWindow)
              /\ heard' = Append(times, now) /\ taken' = Append(taken, now)
    BY <1>6 DEF S!Say
  <2> HIDE DEF times
  <2>3. heard' \in Seq(0..MaxTime) /\ Len(heard') <= InAWindow /\ taken' \in Seq(0..MaxTime)
    <3>1. now \in 0..MaxTime /\ taken \in Seq(0..MaxTime) /\ InAWindow \in Nat
      BY SendingConstants DEF SendShape
    <3>2. Append(times, now) \in Seq(0..MaxTime) /\ Len(Append(times, now)) = Len(times) + 1
      BY <2>1, <3>1, Added
    <3>3. Append(taken, now) \in Seq(0..MaxTime)
      BY <3>1
    <3>4. ~(Len(times) >= InAWindow) => Len(times) + 1 <= InAWindow
      BY <2>1, <3>1
    <3>5. QED
      BY <2>1, <2>2, <3>1, <3>2, <3>3, <3>4
  <2>4. QED
    BY <1>4, <2>2, <2>3 DEF SendShape
<1>7. ASSUME NEW t \in Tools, NEW m \in Marks, S!Read(t, m)
      PROVE  SendShape'
  <2>1. UNCHANGED <<now, up, note, sent, heard, taken, apart>>
    BY <1>7, ReadDoes
  <2>2. /\ tool' \in [Tools -> Toolings] /\ \A u \in Tools : Len(tool'[u].held) <= InAWindow
        /\ \A u \in Tools : tool'[u].at \in {"emptying", "filling"} => Len(tool'[u].held) > 0
    <3>1. CASE S!Moves(t, "idle")
      BY <1>0, <3>1, ToolMoves
    <3> DEFINE h == Append(S!Fresh(note), [at |-> now, mark |-> m])
    <3>2. CASE h \in Seq(Sendings) /\ Len(h) <= InAWindow /\ Len(h) > 0
               /\ tool' = [tool EXCEPT ![t] = [at |-> "emptying", held |-> h]]
      <4> HIDE DEF h
      <4>1. QED
        BY <1>0, <3>2, ToolTakes
    <3>3. \/ S!Moves(t, "idle")
          \/ h \in Seq(Sendings) /\ Len(h) <= InAWindow /\ Len(h) > 0
             /\ tool' = [tool EXCEPT ![t] = [at |-> "emptying", held |-> h]]
      BY <1>7, ReadDoes
    <3>4. QED
      BY <3>1, <3>2, <3>3
  <2>3. QED
    BY <2>1, <2>2 DEF SendShape
<1>8. CASE S!End
  <2>1. up' = FALSE /\ note' = <<>> /\ UNCHANGED <<now, tool, sent, heard, taken>>
    BY <1>8 DEF S!End
  <2>2. apart' \in BOOLEAN
    BY <1>8 DEF S!End
  <2>3. note' \in Seq(Sendings) /\ Len(note') <= InAWindow
    BY <2>1, SendingConstants
  <2>4. QED
    BY <2>1, <2>2, <2>3 DEF SendShape
<1>9. CASE S!Tick
  <2>1. now < MaxTime /\ now' = now + 1 /\ UNCHANGED <<up, note, tool, sent, heard, taken, apart>>
    BY <1>9 DEF S!Tick
  <2>2. now' \in 0..MaxTime
    BY <2>1, SendingConstants DEF SendShape
  <2>3. QED
    BY <2>1, <2>2 DEF SendShape
<1>10. CASE UNCHANGED sendingVars
  BY <1>10 DEF sendingVars, SendShape
<1>11. QED
  BY <1>1, <1>2, <1>3, <1>5, <1>6, <1>7, <1>8, <1>9, <1>10 DEF S!Next

\* What was sent is in the order of its times, none of them to come.
SentInOrder ==
  /\ \A i \in 1..Len(sent) : sent[i].at <= now
  /\ \A i, j \in 1..Len(sent) : i < j => sent[i].at <= sent[j].at

SentApart ==
  \A i, j \in 1..Len(sent) :
    /\ j - i >= InAWindow => sent[j].at - sent[i].at >= Window
    /\ i < j /\ sent[i].mark = sent[j].mark => sent[j].at - sent[i].at >= Window

\* One tool is at the note, and none once the session has ended.
OneAtNote ==
  /\ \A t, u \in Tools : S!AtNote(t) /\ S!AtNote(u) => t = u
  /\ up \/ \A t \in Tools : ~S!AtNote(t)

\* The note is the last of what was sent, and what it forgot is too old to count.
NoteIsRight ==
  up /\ (\A t \in Tools : tool[t].at # "filling") =>
    \E d \in 0..Len(sent) : TailFrom(note, sent, d) /\ \A i \in 1..d : now - sent[i].at >= Window

\* What a tool is to write: the last of what was sent, too old before that when its own send was
\* read in, and that send, no echo of what is before it.
HeldFrom(h, d, all, time) ==
  LET n == Len(h)
  IN /\ d \in 0..Len(all) /\ n - 1 = Len(all) - d
     /\ \A k \in 1..n - 1 : h[k] = all[d + k] /\ h[k].mark # h[n].mark
     /\ \A i \in 1..d : h[n].at - all[i].at >= Window
     /\ \A i \in 1..Len(all) : all[i].at <= h[n].at
     /\ h[n].at <= time

HeldIsRight ==
  \A t \in Tools :
    /\ tool[t].at \in {"emptying", "filling"} => \E d \in 0..Len(sent) : HeldFrom(tool[t].held, d, sent, now)
    /\ tool[t].at = "filling" => note = <<>>

SentInv ==
  apart => SentInOrder /\ SentApart /\ OneAtNote /\ NoteIsRight /\ HeldIsRight

\* What was sent has times.
LEMMA SentTyped ==
  SendShape => /\ sent \in Seq(Sendings) /\ Len(sent) \in Nat
               /\ \A i \in 1..Len(sent) : sent[i].at \in Nat /\ sent[i].at <= MaxTime
               /\ now \in Nat /\ InAWindow \in Nat \ {0} /\ Window \in Nat /\ MaxTime \in Nat
<1> SUFFICES ASSUME SendShape
             PROVE  /\ sent \in Seq(Sendings) /\ Len(sent) \in Nat
                    /\ \A i \in 1..Len(sent) : sent[i].at \in Nat /\ sent[i].at <= MaxTime
                    /\ now \in Nat /\ InAWindow \in Nat \ {0} /\ Window \in Nat /\ MaxTime \in Nat
  OBVIOUS
<1>1. sent \in Seq(Sendings) /\ now \in Nat /\ InAWindow \in Nat \ {0} /\ Window \in Nat /\ MaxTime \in Nat
  BY SendingConstants DEF SendShape
<1>2. \A i \in 1..Len(sent) : sent[i] \in Sendings
  BY <1>1
<1>3. \A i \in 1..Len(sent) : sent[i].at \in Nat /\ sent[i].at <= MaxTime
  BY <1>1, <1>2 DEF Sendings
<1>4. QED
  BY <1>1, <1>3

\* Nothing was sent.
LEMMA InitSent == S!Init => SentInv
<1> SUFFICES ASSUME S!Init
             PROVE  SentInv
  OBVIOUS
<1>1. /\ now = 0 /\ up = TRUE /\ note = <<>> /\ tool = [t \in Tools |-> S!Idle] /\ sent = <<>>
      /\ \A t \in Tools : tool[t].at = "idle"
  BY DEF S!Init, S!Idle
<1>2. Len(sent) = 0 /\ TailFrom(note, sent, 0)
  BY <1>1 DEF TailFrom
<1>3. SentInOrder /\ SentApart
  BY <1>2 DEF SentInOrder, SentApart
<1>4. OneAtNote /\ HeldIsRight
  BY <1>1 DEF OneAtNote, HeldIsRight, S!AtNote
<1>5. NoteIsRight
  <2>1. 0 \in 0..Len(sent) /\ \A i \in 1..0 : now - sent[i].at >= Window
    BY <1>2
  <2>2. QED
    BY <1>2, <2>1 DEF NoteIsRight
<1>6. QED
  BY <1>3, <1>4, <1>5 DEF SentInv

\* A tool that was not at the note and is not, or comes to it where nobody is.
LEMMA SentOne ==
  ASSUME SendShape, SentInv, apart, NEW t \in Tools, UNCHANGED <<now, up, note, sent>>,
         \A u \in Tools : u # t => tool'[u] = tool[u],
         ~S!AtNote(t), tool'[t].at \in {"idle", "reading", "saying"},
         tool'[t].at = "reading" => up /\ \A u \in Tools : ~S!AtNote(u)
  PROVE  SentInv'
<1>1. SentInOrder /\ SentApart /\ OneAtNote /\ NoteIsRight /\ HeldIsRight
  BY DEF SentInv
<1>2. SentInOrder' /\ SentApart'
  BY <1>1 DEF SentInOrder, SentApart
<1>3. OneAtNote'
  BY <1>1 DEF OneAtNote, S!AtNote
<1>4. NoteIsRight'
  <2>1. (\A u \in Tools : tool'[u].at # "filling") => \A u \in Tools : tool[u].at # "filling"
    BY DEF S!AtNote
  <2>2. QED
    BY <1>1, <2>1 DEF NoteIsRight
<1>5. HeldIsRight'
  <2>1. SUFFICES ASSUME NEW u \in Tools
                 PROVE  /\ tool'[u].at \in {"emptying", "filling"} =>
                             \E d \in 0..Len(sent) : HeldFrom(tool'[u].held, d, sent, now)
                        /\ tool'[u].at = "filling" => note = <<>>
    BY DEF HeldIsRight
  <2>2. CASE u = t
    BY <2>2
  <2>3. CASE u # t
    <3>1. tool'[u] = tool[u]
      BY <2>3
    <3>2. /\ tool[u].at \in {"emptying", "filling"} => \E d \in 0..Len(sent) : HeldFrom(tool[u].held, d, sent, now)
          /\ tool[u].at = "filling" => note = <<>>
      BY <1>1 DEF HeldIsRight
    <3>3. QED
      BY <3>1, <3>2
  <2>4. QED
    BY <2>2, <2>3
<1>6. QED
  BY <1>2, <1>3, <1>4, <1>5 DEF SentInv

\* Where the one tool at the note is, it is the one there.
LEMMA NoOther ==
  ASSUME OneAtNote, NEW t \in Tools, tool[t].at \in {"reading", "emptying", "filling"}
  PROVE  up /\ \A u \in Tools : u # t => ~S!AtNote(u)
BY DEF OneAtNote, S!AtNote

\* allow: what the tool that reads is to write is the fresh sends and its own.
LEMMA SentRead ==
  ASSUME SendShape, SentInv, apart, NEW t \in Tools, NEW m \in Marks, S!Read(t, m)
  PROVE  SentInv'
<1>0. SentInOrder /\ SentApart /\ OneAtNote /\ NoteIsRight /\ HeldIsRight
  BY DEF SentInv
<1>1. /\ sent \in Seq(Sendings) /\ Len(sent) \in Nat
      /\ \A i \in 1..Len(sent) : sent[i].at \in Nat
      /\ now \in Nat /\ Window \in Nat
  BY SentTyped
<1>2. tool[t].at = "reading" /\ UNCHANGED <<now, up, note, sent, heard, taken, apart>>
  BY ReadDoes
<1>3. up /\ (\A u \in Tools : u # t => ~S!AtNote(u)) /\ \A u \in Tools : tool[u].at # "filling"
  <2>1. up /\ \A u \in Tools : u # t => ~S!AtNote(u)
    BY <1>0, <1>2, NoOther
  <2>2. QED
    BY <1>2, <2>1 DEF S!AtNote
<1>4. PICK d \in 0..Len(sent) : TailFrom(note, sent, d) /\ \A i \in 1..d : now - sent[i].at >= Window
  BY <1>0, <1>3 DEF NoteIsRight
<1>5. SentInOrder' /\ SentApart'
  BY <1>0, <1>2 DEF SentInOrder, SentApart
<1>6. CASE S!Moves(t, "idle")
  <2>1. tool'[t].at = "idle" /\ \A u \in Tools : u # t => tool'[u] = tool[u]
    <3>1. "idle" \in S!Places
      BY DEF S!Places
    <3>2. QED
      BY <1>6, <3>1, ToolMoves
  <2>2. \A u \in Tools : ~S!AtNote(u)'
    BY <1>3, <2>1 DEF S!AtNote
  <2>3. OneAtNote'
    BY <2>2 DEF OneAtNote
  <2>4. NoteIsRight'
    BY <1>2, <1>4 DEF NoteIsRight
  <2>5. HeldIsRight'
    BY <2>2 DEF HeldIsRight, S!AtNote
  <2>6. QED
    BY <1>5, <2>3, <2>4, <2>5 DEF SentInv
<1> DEFINE held == S!Fresh(note)
           new  == [at |-> now, mark |-> m]
           h    == Append(held, new)
<1>7. CASE /\ held \in Seq(Sendings) /\ Len(held) < InAWindow /\ Len(held) \in Nat
           /\ \A k \in 1..Len(held) : held[k].mark # m
           /\ new \in Sendings /\ h \in Seq(Sendings) /\ Len(h) <= InAWindow /\ Len(h) > 0
           /\ tool' = [tool EXCEPT ![t] = [at |-> "emptying", held |-> h]]
  <2>1. new.at = now /\ new.mark = m
    OBVIOUS
  <2>2. \E e \in 0..Len(note) : TailFrom(held, note, e) /\ \A i \in 1..e : now - note[i].at >= Window
    <3>1. /\ note \in Seq(Sendings) /\ Len(note) \in Nat /\ d \in Nat
          /\ Len(note) = Len(sent) - d /\ \A k \in 1..Len(note) : note[k] = sent[d + k]
      BY <1>1, <1>4 DEF SendShape, TailFrom
    <3>2. \A i, j \in 1..Len(note) : i < j => note[i].at <= note[j].at
      <4>1. SUFFICES ASSUME NEW i \in 1..Len(note), NEW j \in 1..Len(note), i < j
                     PROVE  note[i].at <= note[j].at
        OBVIOUS
      <4>2. d + i \in 1..Len(sent) /\ d + j \in 1..Len(sent) /\ d + i < d + j
        BY <1>1, <3>1, <4>1
      <4>3. sent[d + i].at <= sent[d + j].at
        BY <1>0, <4>2 DEF SentInOrder
      <4>4. QED
        BY <3>1, <4>3
    <3>3. QED
      BY <3>2, NoteFresh
  <2> HIDE DEF held, new
  <2>3. PICK e \in 0..Len(note) : TailFrom(held, note, e) /\ \A i \in 1..e : now - note[i].at >= Window
    BY <2>2
  <2>4. note \in Seq(Sendings) /\ Len(note) \in Nat
    BY DEF SendShape
  <2>5. TailFrom(held, sent, d + e)
    BY <1>1, <1>4, <1>7, <2>3, <2>4, TailOfTail
  <2>6. \A i \in 1..d + e : now - sent[i].at >= Window
    <3>1. SUFFICES ASSUME NEW i \in 1..d + e, ~(i \in 1..d)
                   PROVE  now - sent[i].at >= Window
      BY <1>4
    <3>2. d \in Nat /\ e \in Nat /\ e <= Len(note)
      BY <1>1, <2>4
    <3>3. i - d \in 1..e /\ i - d \in 1..Len(note) /\ d + (i - d) = i
      BY <2>4, <3>1, <3>2
    <3>4. now - note[i - d].at >= Window /\ note[i - d] = sent[d + (i - d)]
      BY <1>4, <2>3, <3>3 DEF TailFrom
    <3>5. QED
      BY <3>3, <3>4
  <2>7. /\ Len(h) = Len(held) + 1 /\ h[Len(held) + 1] = new
        /\ \A k \in 1..Len(held) : h[k] = held[k]
    BY <1>7, Added
  <2> HIDE DEF h
  <2>8. HeldFrom(h, d + e, sent, now)
    <3>1. /\ d + e \in 0..Len(sent) /\ Len(held) = Len(sent) - (d + e)
          /\ \A k \in 1..Len(held) : held[k] = sent[d + e + k]
      BY <2>5 DEF TailFrom
    <3>2. Len(h) - 1 = Len(held) /\ h[Len(h)] = new
      BY <1>7, <2>7
    <3>3. \A k \in 1..Len(held) : h[k] = sent[d + e + k] /\ h[k].mark # new.mark
      BY <1>7, <2>1, <2>7, <3>1
    <3>4. \A i \in 1..Len(sent) : sent[i].at <= now
      BY <1>0 DEF SentInOrder
    <3>5. \A k \in 1..Len(h) - 1 : h[k] = sent[d + e + k] /\ h[k].mark # h[Len(h)].mark
      BY <3>2, <3>3
    <3>6. \A i \in 1..d + e : h[Len(h)].at - sent[i].at >= Window
      BY <2>1, <2>6, <3>2
    <3>7. (\A i \in 1..Len(sent) : sent[i].at <= h[Len(h)].at) /\ h[Len(h)].at <= now
      BY <1>1, <2>1, <3>2, <3>4
    <3>8. Len(h) - 1 = Len(sent) - (d + e)
      BY <3>1, <3>2
    <3>9. QED
      BY <3>1, <3>5, <3>6, <3>7, <3>8 DEF HeldFrom
  <2>9. /\ tool'[t].at = "emptying" /\ tool'[t].held = h
        /\ \A u \in Tools : u # t => tool'[u] = tool[u]
    <3>1. "emptying" \in S!Places
      BY DEF S!Places
    <3>2. QED
      BY <1>7, <3>1, ToolTakes
  <2>10. OneAtNote'
    BY <1>2, <1>3, <2>9 DEF OneAtNote, S!AtNote
  <2>11. NoteIsRight'
    BY <1>2, <1>4 DEF NoteIsRight
  <2>12. HeldIsRight'
    <3>2. d + e \in 0..Len(sent) /\ HeldFrom(tool'[t].held, d + e, sent, now)
      BY <2>8, <2>9 DEF HeldFrom
    <3>3. \A u \in Tools : u # t => tool'[u].at \notin {"emptying", "filling"}
      BY <1>3, <2>9 DEF S!AtNote
    <3>4. \E c \in 0..Len(sent') : HeldFrom(tool'[t].held, c, sent', now')
      BY <1>2, <3>2
    <3>5. QED
      BY <2>9, <3>3, <3>4 DEF HeldIsRight
  <2>13. QED
    BY <1>5, <2>10, <2>11, <2>12 DEF SentInv
<1>8. QED
  BY <1>6, <1>7, ReadDoes

\* The note is emptied by the tool that is to fill it.
LEMMA SentEmpty ==
  ASSUME SendShape, SentInv, apart, NEW t \in Tools, S!Empty(t)
  PROVE  SentInv'
<1>0. SentInOrder /\ SentApart /\ OneAtNote /\ NoteIsRight /\ HeldIsRight
  BY DEF SentInv
<1>1. /\ tool[t].at = "emptying" /\ note' = <<>> /\ S!Moves(t, "filling")
      /\ UNCHANGED <<now, up, sent, apart>>
  BY DEF S!Empty, S!At
<1>2. /\ tool'[t].at = "filling" /\ tool'[t].held = tool[t].held
      /\ \A u \in Tools : u # t => tool'[u] = tool[u]
  <2>1. "filling" \in S!Places /\ Len(tool[t].held) > 0
    BY <1>1 DEF S!Places, SendShape
  <2>2. QED
    BY <1>1, <2>1, ToolMoves
<1>3. up /\ \A u \in Tools : u # t => ~S!AtNote(u)
  BY <1>0, <1>1, NoOther
<1>4. SentInOrder' /\ SentApart'
  BY <1>0, <1>1 DEF SentInOrder, SentApart
<1>5. OneAtNote'
  BY <1>1, <1>2, <1>3 DEF OneAtNote, S!AtNote
<1>6. NoteIsRight'
  BY <1>2 DEF NoteIsRight
<1>7. HeldIsRight'
  <2>1. \E d \in 0..Len(sent) : HeldFrom(tool[t].held, d, sent, now)
    BY <1>0, <1>1 DEF HeldIsRight
  <2>2. \E d \in 0..Len(sent') : HeldFrom(tool'[t].held, d, sent', now')
    BY <1>1, <1>2, <2>1
  <2>3. \A u \in Tools : u # t => tool'[u].at \notin {"emptying", "filling"}
    BY <1>2, <1>3 DEF S!AtNote
  <2>4. QED
    BY <1>1, <2>2, <2>3 DEF HeldIsRight
<1>8. QED
  BY <1>4, <1>5, <1>6, <1>7 DEF SentInv

\* What was sent is in the note with what is fresh before it, and no more than a share of it.
LEMMA SentFill ==
  ASSUME SendShape, SentInv, apart, NEW t \in Tools, S!Fill(t)
  PROVE  SentInv'
<1>0. SentInOrder /\ SentApart /\ OneAtNote /\ NoteIsRight /\ HeldIsRight
  BY DEF SentInv
<1>a. /\ sent \in Seq(Sendings) /\ Len(sent) \in Nat
      /\ \A i \in 1..Len(sent) : sent[i].at \in Nat
      /\ now \in Nat /\ InAWindow \in Nat \ {0} /\ Window \in Nat
  BY SentTyped
<1> DEFINE h == tool[t].held
           new == h[Len(h)]
<1>1. /\ tool[t].at = "filling" /\ h \in Seq(Sendings) /\ Len(h) \in Nat \ {0} /\ Len(h) <= InAWindow
      /\ new \in Sendings /\ (note = <<>> => note' = h) /\ sent' = Append(sent, new)
      /\ S!Moves(t, "saying") /\ UNCHANGED <<now, up, heard, taken, apart>>
  BY FillDoes
<1>2. tool'[t].at = "saying" /\ \A u \in Tools : u # t => tool'[u] = tool[u]
  <2>1. "saying" \in S!Places
    BY DEF S!Places
  <2>2. QED
    BY <1>1, <2>1, ToolMoves
<1>3. up /\ \A u \in Tools : u # t => ~S!AtNote(u)
  BY <1>0, <1>1, NoOther
<1>4. note' = h
  BY <1>0, <1>1 DEF HeldIsRight
<1>b. \E d \in 0..Len(sent) : HeldFrom(h, d, sent, now)
  BY <1>0, <1>1 DEF HeldIsRight
<1> HIDE DEF h
<1>5. PICK d \in 0..Len(sent) : HeldFrom(h, d, sent, now)
  BY <1>b
<1>6. /\ Len(h) - 1 = Len(sent) - d /\ d \in Nat /\ d <= Len(sent)
      /\ \A k \in 1..Len(h) - 1 : h[k] = sent[d + k] /\ h[k].mark # new.mark
      /\ \A i \in 1..d : new.at - sent[i].at >= Window
      /\ \A i \in 1..Len(sent) : sent[i].at <= new.at
      /\ new.at <= now
  BY <1>a, <1>5 DEF HeldFrom
<1>c. new.at \in Nat
  BY <1>1, SendingConstants DEF Sendings
<1>7. h[Len(h)] = new
  OBVIOUS
<1> HIDE DEF new
<1>8. /\ Len(sent') = Len(sent) + 1 /\ sent'[Len(sent) + 1] = new
      /\ \A i \in 1..Len(sent) : sent'[i] = sent[i]
  BY <1>1, <1>a, Added
<1>9. \A i \in 1..Len(sent') : i \in 1..Len(sent) \/ i = Len(sent) + 1
  BY <1>a, <1>8
<1>10. SentInOrder'
  <2>1. \A i \in 1..Len(sent') : sent'[i].at <= now
    <3>1. \A i \in 1..Len(sent) : sent[i].at <= now
      BY <1>0 DEF SentInOrder
    <3>2. QED
      BY <1>6, <1>8, <1>9, <3>1
  <2>2. ASSUME NEW i \in 1..Len(sent'), NEW j \in 1..Len(sent'), i < j
        PROVE  sent'[i].at <= sent'[j].at
    <3>1. i \in 1..Len(sent)
      BY <1>a, <1>8, <1>9, <2>2
    <3>2. CASE j \in 1..Len(sent)
      BY <1>0, <1>8, <2>2, <3>1, <3>2 DEF SentInOrder
    <3>3. CASE j = Len(sent) + 1
      BY <1>6, <1>8, <3>1, <3>3
    <3>4. QED
      BY <1>9, <3>2, <3>3
  <2>3. QED
    BY <1>1, <2>1, <2>2 DEF SentInOrder
<1>11. SentApart'
  <2>1. ASSUME NEW i \in 1..Len(sent'), NEW j \in 1..Len(sent'), i < j,
               j - i >= InAWindow \/ sent'[i].mark = sent'[j].mark
        PROVE  sent'[j].at - sent'[i].at >= Window
    <3>1. i \in 1..Len(sent)
      BY <1>a, <1>8, <1>9, <2>1
    <3>2. CASE j \in 1..Len(sent)
      BY <1>0, <1>8, <2>1, <3>1, <3>2 DEF SentApart
    <3>3. CASE j = Len(sent) + 1
      <4>1. i <= d
        <5>1. SUFFICES ASSUME ~(i <= d)
                       PROVE  FALSE
          BY <1>6, <3>1
        <5>2. i - d \in 1..Len(h) - 1 /\ d + (i - d) = i
          BY <1>a, <1>1, <1>6, <3>1, <5>1
        <5>3. sent[i].mark # new.mark
          BY <1>6, <5>2
        <5>4. j - i >= InAWindow
          BY <1>8, <2>1, <3>1, <3>3, <5>3
        <5>5. QED
          BY <1>a, <1>1, <1>6, <3>1, <3>3, <5>1, <5>4
      <4>2. i \in 1..d
        BY <1>6, <3>1, <4>1
      <4>3. QED
        BY <1>6, <1>8, <3>1, <3>3, <4>2
    <3>4. QED
      BY <1>9, <3>2, <3>3
  <2>2. \A i, j \in 1..Len(sent') : j - i >= InAWindow => i < j
    BY <1>a, <1>8
  <2>3. QED
    BY <2>1, <2>2 DEF SentApart
<1>12. OneAtNote'
  BY <1>1, <1>2, <1>3 DEF OneAtNote, S!AtNote
<1>13. NoteIsRight'
  <2>1. TailFrom(h, sent', d)
    <3>1. d \in 0..Len(sent') /\ Len(h) = Len(sent') - d
      BY <1>a, <1>1, <1>6, <1>8
    <3>2. ASSUME NEW k \in 1..Len(h)
          PROVE  h[k] = sent'[d + k]
      <4>1. CASE k = Len(h)
        <5>1. d + k = Len(sent) + 1
          BY <1>a, <1>1, <1>6, <4>1
        <5>2. QED
          BY <1>7, <1>8, <4>1, <5>1
      <4>2. CASE k # Len(h)
        <5>1. k \in 1..Len(h) - 1 /\ d + k \in 1..Len(sent)
          BY <1>a, <1>1, <1>6, <4>2
        <5>2. QED
          BY <1>6, <1>8, <5>1
      <4>3. QED
        BY <4>1, <4>2
    <3>3. QED
      BY <3>1, <3>2 DEF TailFrom
  <2>2. \A i \in 1..d : now - sent'[i].at >= Window
    <3>1. SUFFICES ASSUME NEW i \in 1..d
                   PROVE  now - sent'[i].at >= Window
      OBVIOUS
    <3>2. i \in 1..Len(sent)
      BY <1>a, <1>6
    <3>3. new.at - sent[i].at >= Window /\ sent'[i] = sent[i] /\ sent[i].at \in Nat
      BY <1>a, <1>6, <1>8, <3>2
    <3>4. QED
      BY <1>a, <1>6, <1>c, <3>3
  <2>3. d \in 0..Len(sent') /\ TailFrom(note', sent', d)
    BY <1>4, <2>1 DEF TailFrom
  <2>4. \E c \in 0..Len(sent') : TailFrom(note', sent', c) /\ \A i \in 1..c : now' - sent'[i].at >= Window
    BY <1>1, <2>2, <2>3
  <2>5. QED
    BY <2>4 DEF NoteIsRight
<1>14. HeldIsRight'
  <2>1. \A u \in Tools : tool'[u].at \notin {"emptying", "filling"}
    BY <1>2, <1>3 DEF S!AtNote
  <2>2. QED
    BY <2>1 DEF HeldIsRight
<1>15. QED
  BY <1>10, <1>11, <1>12, <1>13, <1>14 DEF SentInv

\* What is too old stays too old.
LEMMA SentTick ==
  ASSUME SendShape, SentInv, apart, S!Tick
  PROVE  SentInv'
<1>0. SentInOrder /\ SentApart /\ OneAtNote /\ NoteIsRight /\ HeldIsRight
  BY DEF SentInv
<1>1. now' = now + 1 /\ UNCHANGED <<up, note, tool, sent, apart>>
  BY DEF S!Tick
<1>2. /\ sent \in Seq(Sendings) /\ Len(sent) \in Nat
      /\ \A i \in 1..Len(sent) : sent[i].at \in Nat
      /\ now \in Nat /\ Window \in Nat
  BY SentTyped
<1>3. SentInOrder'
  BY <1>0, <1>1, <1>2 DEF SentInOrder
<1>4. SentApart'
  BY <1>0, <1>1 DEF SentApart
<1>5. OneAtNote'
  BY <1>0, <1>1 DEF OneAtNote, S!AtNote
<1>6. NoteIsRight'
  <2>1. SUFFICES ASSUME up, \A t \in Tools : tool[t].at # "filling"
                 PROVE  \E d \in 0..Len(sent) : TailFrom(note, sent, d) /\ \A i \in 1..d : now' - sent[i].at >= Window
    BY <1>1 DEF NoteIsRight
  <2>2. PICK d \in 0..Len(sent) : TailFrom(note, sent, d) /\ \A i \in 1..d : now - sent[i].at >= Window
    BY <1>0, <2>1 DEF NoteIsRight
  <2>3. \A i \in 1..d : i \in 1..Len(sent)
    BY <1>2
  <2>4. \A i \in 1..d : now' - sent[i].at >= Window
    BY <1>1, <1>2, <2>2, <2>3
  <2>5. QED
    BY <2>2, <2>4
<1>7. HeldIsRight'
  <2>1. SUFFICES ASSUME NEW t \in Tools
                 PROVE  /\ tool[t].at \in {"emptying", "filling"} =>
                             \E d \in 0..Len(sent) : HeldFrom(tool[t].held, d, sent, now')
                        /\ tool[t].at = "filling" => note = <<>>
    BY <1>1 DEF HeldIsRight
  <2>2. /\ tool[t].at \in {"emptying", "filling"} => \E d \in 0..Len(sent) : HeldFrom(tool[t].held, d, sent, now)
        /\ tool[t].at = "filling" => note = <<>>
    BY <1>0 DEF HeldIsRight
  <2>3. ASSUME NEW d \in 0..Len(sent), HeldFrom(tool[t].held, d, sent, now),
               tool[t].at \in {"emptying", "filling"}
        PROVE  HeldFrom(tool[t].held, d, sent, now')
    <3>1. tool[t].held[Len(tool[t].held)].at \in Nat
      <4>1. tool[t] \in Toolings /\ Len(tool[t].held) > 0
        BY <2>3 DEF SendShape
      <4>2. tool[t].held \in Seq(Sendings) /\ Len(tool[t].held) > 0
        BY <4>1 DEF Toolings
      <4>3. tool[t].held[Len(tool[t].held)] \in Sendings
        BY <4>2
      <4>4. QED
        BY <4>3, SendingConstants DEF Sendings
    <3>2. tool[t].held[Len(tool[t].held)].at <= now
      BY <2>3 DEF HeldFrom
    <3>3. tool[t].held[Len(tool[t].held)].at <= now'
      BY <1>1, <1>2, <3>1, <3>2
    <3>4. QED
      BY <2>3, <3>3 DEF HeldFrom
  <2>4. QED
    BY <2>2, <2>3
<1>8. QED
  BY <1>3, <1>4, <1>5, <1>6, <1>7 DEF SentInv

\* Every step keeps it, as long as the note is one tool's at a time.
LEMMA StepSent == SendShape /\ SentInv /\ [S!Next]_sendingVars => SentInv'
<1> SUFFICES ASSUME SendShape, SentInv, [S!Next]_sendingVars, apart'
             PROVE  SentInv'
  BY DEF SentInv
<1>1. apart
  BY DEF S!Next, S!Begin, S!Read, S!Empty, S!Fill, S!Killed, S!Unheard, S!Say, S!End, S!Tick,
         sendingVars, SendShape
<1>2. SentInOrder /\ SentApart /\ OneAtNote /\ NoteIsRight /\ HeldIsRight
  BY <1>1 DEF SentInv
<1>0. {"idle", "reading", "emptying", "filling", "saying"} = S!Places
  BY DEF S!Places
<1>3. ASSUME NEW t \in Tools, S!Begin(t)
      PROVE  SentInv'
  <2>1. /\ tool[t].at = "idle" /\ S!Moves(t, IF up THEN "reading" ELSE "saying")
        /\ apart' = (apart /\ (up => \A u \in Tools : ~S!AtNote(u)))
        /\ UNCHANGED <<now, up, note, sent, heard, taken>>
    BY <1>3 DEF S!Begin, S!At
  <2> DEFINE place == IF up THEN "reading" ELSE "saying"
  <2>2. place \in S!Places /\ place \notin {"emptying", "filling"}
    BY <1>0
  <2>3. tool'[t].at = place /\ \A u \in Tools : u # t => tool'[u] = tool[u]
    BY <2>1, <2>2, ToolMoves
  <2>4. ~S!AtNote(t)
    BY <2>1 DEF S!AtNote
  <2>5. tool'[t].at = "reading" => up /\ \A u \in Tools : ~S!AtNote(u)
    BY <2>1, <2>3
  <2>6. QED
    BY <1>1, <2>1, <2>3, <2>4, <2>5, SentOne
<1>4. ASSUME NEW t \in Tools, S!Say(t) \/ S!Unheard(t)
      PROVE  SentInv'
  <2>1. tool[t].at = "saying" /\ tool' = [tool EXCEPT ![t] = S!Idle] /\ UNCHANGED <<now, up, note, sent>>
    BY <1>4 DEF S!Say, S!Unheard, S!At
  <2>2. tool'[t].at = "idle" /\ \A u \in Tools : u # t => tool'[u] = tool[u]
    <3>1. tool \in [Tools -> Toolings]
      BY DEF SendShape
    <3>2. QED
      BY <2>1, <3>1 DEF S!Idle
  <2>3. ~S!AtNote(t)
    BY <2>1 DEF S!AtNote
  <2>4. QED
    BY <1>1, <2>1, <2>2, <2>3, SentOne
<1>5. ASSUME NEW t \in Tools, S!Killed(t)
      PROVE  FALSE
  BY <1>5 DEF S!Killed
<1>6. CASE S!End
  <2>1. /\ up' = FALSE /\ UNCHANGED <<now, tool, sent>>
        /\ \A t \in Tools : ~S!AtNote(t)
    BY <1>6 DEF S!End
  <2>2. SentInOrder' /\ SentApart'
    BY <1>2, <2>1 DEF SentInOrder, SentApart
  <2>3. OneAtNote'
    BY <2>1 DEF OneAtNote, S!AtNote
  <2>4. NoteIsRight'
    BY <2>1 DEF NoteIsRight
  <2>5. HeldIsRight'
    BY <2>1 DEF HeldIsRight, S!AtNote
  <2>6. QED
    BY <2>2, <2>3, <2>4, <2>5 DEF SentInv
<1>7. CASE UNCHANGED sendingVars
  <2>1. UNCHANGED <<now, up, note, tool, sent>>
    BY <1>7 DEF sendingVars
  <2>2. SentInOrder' /\ SentApart'
    BY <1>2, <2>1 DEF SentInOrder, SentApart
  <2>3. OneAtNote'
    BY <1>2, <2>1 DEF OneAtNote, S!AtNote
  <2>4. NoteIsRight'
    BY <1>2, <2>1 DEF NoteIsRight
  <2>5. HeldIsRight'
    BY <1>2, <2>1 DEF HeldIsRight
  <2>6. QED
    BY <2>2, <2>3, <2>4, <2>5 DEF SentInv
<1>8. ASSUME NEW t \in Tools, S!Empty(t) \/ S!Fill(t)
      PROVE  SentInv'
  BY <1>1, <1>8, SentEmpty, SentFill
<1>9. ASSUME NEW t \in Tools, NEW m \in Marks, S!Read(t, m)
      PROVE  SentInv'
  BY <1>1, <1>9, SentRead
<1>10. CASE S!Tick
  BY <1>1, <1>10, SentTick
<1>11. QED
  BY <1>3, <1>4, <1>5, <1>6, <1>7, <1>8, <1>9, <1>10 DEF S!Next

\* ... and that is what was to be shown of what is sent and taken.
LEMMA SendingGood ==
  SendShape /\ HeardInv /\ SentInv => CapKept
<1> SUFFICES ASSUME SendShape, HeardInv, SentInv
             PROVE  CapKept
  OBVIOUS
<1>1. /\ note \in Seq(Sendings) /\ sent \in Seq(Sendings) /\ heard \in Seq(0..MaxTime)
      /\ taken \in Seq(0..MaxTime) /\ tool \in [Tools -> Toolings]
  BY DEF SendShape
<1>2. S!TypeOK
  <2>1. S!Sends = Sendings
    BY DEF S!Sends, Sendings
  <2>2. \A s : S!ToSet(s) = {s[i] : i \in DOMAIN s}
    BY DEF S!ToSet
  <2>3. S!ToSet(note) \subseteq Sendings
    <3>1. \A i \in DOMAIN note : note[i] \in Sendings
      BY <1>1
    <3>2. QED
      BY <2>2, <3>1
  <2>4. S!ToSet(sent) \subseteq Sendings
    <3>1. \A i \in DOMAIN sent : sent[i] \in Sendings
      BY <1>1
    <3>2. QED
      BY <2>2, <3>1
  <2>5. S!ToSet(heard) \subseteq 0..MaxTime
    <3>1. \A i \in DOMAIN heard : heard[i] \in 0..MaxTime
      <4> DEFINE times == 0..MaxTime
      <4>1. heard \in Seq(times)
        BY <1>1
      <4> HIDE DEF times
      <4>2. \A i \in DOMAIN heard : heard[i] \in times
        BY <4>1
      <4>3. QED
        BY <4>2 DEF times
    <3>2. QED
      BY <2>2, <3>1
  <2>6. \A t \in Tools : tool[t].at \in S!Places
    <3>1. \A t \in Tools : tool[t] \in Toolings
      BY <1>1
    <3>2. QED
      BY <3>1 DEF Toolings
  <2>7. QED
    BY <2>1, <2>3, <2>4, <2>5, <2>6 DEF SendShape, S!TypeOK
<1>3. DOMAIN sent = 1..Len(sent) /\ DOMAIN taken = 1..Len(taken)
  BY <1>1
<1>4. S!CapKept /\ S!NoEcho
  BY <1>3 DEF SentInv, SentApart, S!CapKept, S!NoEcho
<1>5. S!HeardCap
  BY <1>3 DEF HeardInv, S!HeardCap
<1>6. QED
  BY <1>2, <1>4, <1>5 DEF CapKept

----------------------------------------------------------------------------
\* Handoff.

Task == [work : Works, passed : Nat]
Handoffs == [work : Works, hops : 0..HopLimit, passed : Nat, shown : BOOLEAN]

\* No handoff counts fewer hops than its work was passed on.
Counted(messages) == \A i \in 1..Len(messages) : messages[i].passed <= messages[i].hops

\* Work that was handed on to a session is there with the handoff that brought it.
Covered(messages, work) ==
  \A t \in work : t.passed > 0 => \E i \in 1..Len(messages) : H!Task(messages[i]) = t

HandInv ==
  /\ tasks \in [Agents -> Seq(Handoffs)] /\ doing \in [Agents -> SUBSET Task]
  /\ \A a \in Agents : Len(tasks[a]) <= Held
  /\ begun \subseteq Works /\ missed \in BOOLEAN
  /\ ~missed => \A a \in Agents : Counted(tasks[a]) /\ Covered(tasks[a], doing[a])

\* Nothing was handed on.
LEMMA InitHand == H!Init => HandInv
<1> SUFFICES ASSUME H!Init
             PROVE  HandInv
  OBVIOUS
<1>1. Held \in Nat /\ 0 <= Held
  BY TalkKinds DEF H!HandoffKinds
<1>2. <<>> \in Seq(Handoffs) /\ {} \in SUBSET Task /\ Len(<<>>) = 0
  OBVIOUS
<1>3. /\ tasks \in [Agents -> Seq(Handoffs)] /\ doing \in [Agents -> SUBSET Task]
      /\ \A a \in Agents : tasks[a] = <<>> /\ doing[a] = {}
      /\ begun = {} /\ missed = FALSE
  BY <1>2 DEF H!Init
<1>4. Counted(<<>>) /\ Covered(<<>>, {})
  BY <1>2 DEF Counted, Covered
<1>5. \A a \in Agents : Len(tasks[a]) <= Held /\ Counted(tasks[a]) /\ Covered(tasks[a], doing[a])
  BY <1>1, <1>2, <1>3, <1>4
<1>6. QED
  BY <1>3, <1>5 DEF HandInv

\* What happens to a session's handoffs keeps them counted, and what it has before it covered.
LEMMA OneGone ==
  ASSUME NEW s \in Seq(Handoffs), Counted(s), Len(s) <= Held, NEW p \in 1..Len(s)
  PROVE  /\ Less(s, p) \in Seq(Handoffs) /\ Counted(Less(s, p)) /\ Len(Less(s, p)) <= Held
         /\ \A work \in SUBSET Task :
              Covered(s, work) /\ H!Task(s[p]) \notin work => Covered(Less(s, p), work)
<1>0. Held \in Nat /\ Len(s) \in Nat /\ p \in Nat /\ p <= Len(s)
  BY TalkKinds DEF H!HandoffKinds
<1>1. /\ Less(s, p) \in Seq(Handoffs) /\ Len(Less(s, p)) = Len(s) - 1
      /\ \A k \in 1..p - 1 : Less(s, p)[k] = s[k]
      /\ \A k \in p..Len(s) - 1 : Less(s, p)[k] = s[k + 1]
  BY Without
<1>2. Counted(Less(s, p))
  BY <1>0, <1>1 DEF Counted
<1>3. ASSUME NEW work \in SUBSET Task, Covered(s, work), H!Task(s[p]) \notin work,
             NEW t \in work, t.passed > 0
      PROVE  \E k \in 1..Len(Less(s, p)) : H!Task(Less(s, p)[k]) = t
  <2>1. PICK k \in 1..Len(s) : H!Task(s[k]) = t
    BY <1>3 DEF Covered
  <2>2. k # p
    BY <1>3, <2>1
  <2>3. CASE k < p
    BY <1>0, <1>1, <2>1, <2>3
  <2>4. CASE k > p
    <3>1. k - 1 \in p..Len(s) - 1 /\ (k - 1) + 1 = k /\ k - 1 \in 1..Len(s) - 1
      BY <1>0, <2>4
    <3>2. QED
      BY <1>1, <2>1, <3>1
  <2>5. QED
    BY <1>0, <2>2, <2>3, <2>4
<1>4. QED
  BY <1>0, <1>1, <1>2, <1>3 DEF Covered

\* A handoff that comes is counted, and covers what it brought.
LEMMA OneMore ==
  ASSUME NEW s \in Seq(Handoffs), Counted(s), NEW m \in Handoffs, m.passed <= m.hops
  PROVE  /\ Append(s, m) \in Seq(Handoffs) /\ Counted(Append(s, m))
         /\ \A work \in SUBSET Task : Covered(s, work) => Covered(Append(s, m), work)
<1>1. /\ Append(s, m) \in Seq(Handoffs) /\ Len(Append(s, m)) = Len(s) + 1 /\ Len(s) \in Nat
      /\ \A k \in 1..Len(s) : Append(s, m)[k] = s[k]
      /\ Append(s, m)[Len(s) + 1] = m
  BY Added
<1>2. Counted(Append(s, m))
  BY <1>1 DEF Counted
<1>3. \A work \in SUBSET Task : Covered(s, work) => Covered(Append(s, m), work)
  BY <1>1 DEF Covered
<1>4. QED
  BY <1>1, <1>2, <1>3

\* A full inbox holds handoffs, and no more than it may.
LEMMA KeptShape ==
  ASSUME NEW s \in Seq(Handoffs), Len(s) <= Held, NEW m \in Handoffs
  PROVE  H!Kept(s, m) \in Seq(Handoffs) /\ Len(H!Kept(s, m)) <= Held
<1>0. Held \in Nat \ {0} /\ Len(s) \in Nat
  BY TalkKinds DEF H!HandoffKinds
<1>1. CASE Len(s) < Held
  <2>1. H!Kept(s, m) = Append(s, m)
    BY <1>1 DEF H!Kept
  <2>2. QED
    BY <1>0, <1>1, <2>1, Added
<1>2. CASE ~(Len(s) < Held)
  <2>1. H!Kept(s, m) = Append(Tail(s), m) /\ s # <<>>
    BY <1>0, <1>2 DEF H!Kept
  <2>2. Tail(s) \in Seq(Handoffs) /\ Len(Tail(s)) = Len(s) - 1
    BY <2>1, Rest
  <2>3. Append(Tail(s), m) \in Seq(Handoffs) /\ Len(Append(Tail(s), m)) = Len(Tail(s)) + 1
    BY <2>2, Added
  <2>4. QED
    BY <1>0, <2>1, <2>2, <2>3
<1>3. QED
  BY <1>1, <1>2

\* A full inbox keeps its handoffs counted, and what it did not let go covered.
LEMMA KeptWell ==
  ASSUME NEW s \in Seq(Handoffs), Counted(s), Len(s) <= Held, NEW m \in Handoffs, m.passed <= m.hops
  PROVE  /\ H!Kept(s, m) \in Seq(Handoffs) /\ Counted(H!Kept(s, m)) /\ Len(H!Kept(s, m)) <= Held
         /\ \A work \in SUBSET Task :
              Covered(s, work) /\ ~(Len(s) >= Held /\ H!Task(Head(s)) \in work)
                => Covered(H!Kept(s, m), work)
<1>0. Held \in Nat \ {0} /\ Len(s) \in Nat
  BY TalkKinds DEF H!HandoffKinds
<1>1. CASE Len(s) < Held
  <2>1. H!Kept(s, m) = Append(s, m) /\ Len(Append(s, m)) <= Held
    BY <1>0, <1>1, Added DEF H!Kept
  <2>2. QED
    BY <2>1, OneMore
<1>2. CASE ~(Len(s) < Held)
  <2>1. H!Kept(s, m) = Append(Tail(s), m) /\ s # <<>> /\ 1 \in 1..Len(s) /\ Len(s) >= Held
    BY <1>0, <1>2 DEF H!Kept
  <2>2. /\ Tail(s) \in Seq(Handoffs) /\ Len(Tail(s)) = Len(s) - 1 /\ Head(s) = s[1]
        /\ \A k \in 1..Len(s) - 1 : Tail(s)[k] = s[k + 1]
    BY <2>1, Rest
  <2>3. Tail(s) = Less(s, 1)
    <3>1. /\ Less(s, 1) \in Seq(Handoffs) /\ Len(Less(s, 1)) = Len(s) - 1
          /\ \A k \in 1..Len(s) - 1 : Less(s, 1)[k] = s[k + 1]
      BY <2>1, Without
    <3>2. QED
      BY <2>2, <3>1
  <2>4. /\ Counted(Tail(s))
        /\ \A work \in SUBSET Task :
             Covered(s, work) /\ H!Task(s[1]) \notin work => Covered(Tail(s), work)
    BY <2>1, <2>3, OneGone
  <2>5. Len(Append(Tail(s), m)) <= Held
    <3>1. Len(Append(Tail(s), m)) = Len(Tail(s)) + 1
      BY <2>2, Added
    <3>2. QED
      BY <1>0, <2>2, <3>1
  <2>6. /\ Append(Tail(s), m) \in Seq(Handoffs) /\ Counted(Append(Tail(s), m))
        /\ \A work \in SUBSET Task : Covered(Tail(s), work) => Covered(Append(Tail(s), m), work)
    BY <2>2, <2>4, OneMore
  <2>7. QED
    BY <2>1, <2>2, <2>4, <2>5, <2>6
<1>3. QED
  BY <1>1, <1>2

\* The deepest of some handoffs is as deep as any, and no deeper than the deepest allowed.
LEMMA DeepestIsDeepest ==
  ASSUME NEW messages \in SUBSET Handoffs
  PROVE  /\ H!Deepest(messages) \in 0..HopLimit
         /\ \A m \in messages : m.hops <= H!Deepest(messages)
<1> DEFINE depths == {m.hops : m \in messages} \cup {0}
<1>1. HopLimit \in Nat
  BY TalkKinds DEF H!HandoffKinds
<1>2. depths \subseteq 0..HopLimit /\ 0 \in depths
  <2>1. \A m \in messages : m.hops \in 0..HopLimit
    BY DEF Handoffs
  <2>2. QED
    BY <1>1, <2>1
<1>3. \A m \in messages : m.hops \in depths
  OBVIOUS
<1> HIDE DEF depths
<1>4. PICK n \in {HopLimit - d : d \in depths} : \A m \in {HopLimit - d : d \in depths} : n <= m
  <2>1. {HopLimit - d : d \in depths} \in SUBSET Nat /\ {HopLimit - d : d \in depths} # {}
    BY <1>1, <1>2
  <2>2. QED
    BY <2>1, LeastNat
<1>5. PICK x \in depths : n = HopLimit - x
  OBVIOUS
<1>6. ASSUME NEW y \in depths
      PROVE  x >= y
  <2>1. HopLimit - x <= HopLimit - y
    BY <1>4, <1>5
  <2>2. QED
    BY <1>1, <1>2, <2>1
<1>7. H!Max(depths) \in depths /\ \A y \in depths : H!Max(depths) >= y
  BY <1>6 DEF H!Max
<1>8. H!Deepest(messages) = H!Max(depths)
  BY DEF H!Deepest, depths
<1>9. QED
  BY <1>1, <1>2, <1>3, <1>7, <1>8

\* What a session holds are handoffs.
LEMMA HeldHandoffs ==
  ASSUME NEW s \in Seq(Handoffs)
  PROVE  H!ToSet(s) \in SUBSET Handoffs /\ \A i \in 1..Len(s) : s[i] \in H!ToSet(s)
BY DEF H!ToSet

\* The next count over some handoffs is past each of theirs, and in range if it is not too far.
LEMMA NextCount ==
  ASSUME NEW messages \in SUBSET Handoffs
  PROVE  /\ H!Hopped(messages) \in Nat \ {0} /\ \A m \in messages : m.hops < H!Hopped(messages)
         /\ ~H!TooFar(H!Hopped(messages)) => H!Hopped(messages) \in 1..HopLimit
<1>1. HopLimit \in Nat
  BY TalkKinds DEF H!HandoffKinds
<1>2. \A m \in messages : m.hops \in Nat
  BY <1>1 DEF Handoffs
<1>3. /\ H!Deepest(messages) \in 0..HopLimit
      /\ \A m \in messages : m.hops <= H!Deepest(messages)
  BY DeepestIsDeepest
<1>4. H!Hopped(messages) = H!Deepest(messages) + 1
  BY DEF H!Hopped
<1>5. H!TooFar(H!Hopped(messages)) <=> H!Hopped(messages) > HopLimit
  BY DEF H!TooFar
<1>6. QED
  BY <1>1, <1>2, <1>3, <1>4, <1>5

\* A session takes a handoff in, and another is done with its work: they are handoffs as before,
\* and counted and covered if the new one is counted and nothing is let go that is worked on.
LEMMA DeliverDoes ==
  ASSUME HandInv, ~missed, NEW a \in Agents, NEW b \in Agents, NEW t \in Task, NEW m \in Handoffs,
         H!Deliver(b, m), doing' = [doing EXCEPT ![a] = @ \ {t}], begun' = begun,
         missed' \in BOOLEAN,
         ~missed' => (m.passed <= m.hops /\ ~H!LetGo(b))
  PROVE  HandInv'
<1>1. tasks' = [tasks EXCEPT ![b] = H!Kept(@, m)]
  BY DEF H!Deliver
<1>2. tasks'[b] = H!Kept(tasks[b], m) /\ \A c \in Agents \ {b} : tasks'[c] = tasks[c]
  BY <1>1 DEF HandInv
<1>3. (\A c \in Agents : doing'[c] \subseteq doing[c]) /\ doing' \in [Agents -> SUBSET Task]
  BY DEF HandInv
<1>4. /\ tasks[b] \in Seq(Handoffs) /\ Len(tasks[b]) <= Held /\ doing[b] \in SUBSET Task
      /\ Counted(tasks[b]) /\ Covered(tasks[b], doing[b])
  BY DEF HandInv
<1>5. tasks'[b] \in Seq(Handoffs) /\ Len(tasks'[b]) <= Held
  BY <1>2, <1>4, KeptShape
<1>6. tasks' \in [Agents -> Seq(Handoffs)] /\ \A c \in Agents : Len(tasks'[c]) <= Held
  BY <1>1, <1>2, <1>5 DEF HandInv
<1>7. ASSUME ~missed'
      PROVE  \A c \in Agents : Counted(tasks'[c]) /\ Covered(tasks'[c], doing'[c])
  <2>1. m.passed <= m.hops /\ ~(Len(tasks[b]) >= Held /\ H!Task(Head(tasks[b])) \in doing[b])
    BY <1>7 DEF H!LetGo
  <2>2. Counted(tasks'[b]) /\ Covered(tasks'[b], doing[b])
    BY <1>2, <1>4, <2>1, KeptWell
  <2>3. \A c \in Agents : Counted(tasks'[c]) /\ Covered(tasks'[c], doing[c])
    BY <1>2, <2>2 DEF HandInv
  <2>4. QED
    BY <1>3, <2>3 DEF Covered
<1>8. QED
  BY <1>3, <1>6, <1>7 DEF HandInv

\* Every step keeps it.
LEMMA StepHand == HandInv /\ [H!Next]_handoffVars => HandInv'
<1> SUFFICES ASSUME HandInv, [H!Next]_handoffVars
             PROVE  HandInv'
  OBVIOUS
<1>0. HopLimit \in Nat /\ Held \in Nat /\ Held > 0
  BY TalkKinds DEF H!HandoffKinds
<1>1. ASSUME NEW a \in Agents, H!Show(a), ~missed
      PROVE  HandInv'
  <2>1. PICK i \in DOMAIN tasks[a] :
               /\ doing' = [doing EXCEPT ![a] = @ \cup {H!Task(tasks[a][i])}]
               /\ tasks' = [tasks EXCEPT ![a][i].shown = TRUE]
    BY <1>1 DEF H!Show
  <2>2. tasks[a] \in Seq(Handoffs) /\ i \in 1..Len(tasks[a]) /\ tasks[a][i] \in Handoffs
    BY DEF HandInv
  <2>3. UNCHANGED <<begun, missed>>
    BY <1>1 DEF H!Show
  <2>4. H!Task(tasks[a][i]) \in Task
    BY <2>2 DEF H!Task, Task, Handoffs
  <2>5. doing' \in [Agents -> SUBSET Task]
    BY <2>1, <2>4 DEF HandInv
  <2>6. /\ tasks'[a] = [tasks[a] EXCEPT ![i].shown = TRUE]
        /\ \A b \in Agents \ {a} : tasks'[b] = tasks[b] /\ doing'[b] = doing[b]
        /\ tasks' = [tasks EXCEPT ![a] = tasks'[a]]
    BY <2>1 DEF HandInv
  <2>7. /\ tasks'[a] \in Seq(Handoffs) /\ Len(tasks'[a]) = Len(tasks[a])
        /\ \A k \in 1..Len(tasks[a]) :
             /\ H!Task(tasks'[a][k]) = H!Task(tasks[a][k])
             /\ tasks'[a][k].passed = tasks[a][k].passed /\ tasks'[a][k].hops = tasks[a][k].hops
    <3>1. [tasks[a][i] EXCEPT !.shown = TRUE] \in Handoffs
      BY <2>2 DEF Handoffs
    <3>2. tasks'[a] = [tasks[a] EXCEPT ![i] = [tasks[a][i] EXCEPT !.shown = TRUE]]
      BY <2>6
    <3>3. tasks'[a] \in Seq(Handoffs) /\ Len(tasks'[a]) = Len(tasks[a])
      BY <2>2, <3>1, <3>2
    <3>4. \A k \in 1..Len(tasks[a]) :
            tasks'[a][k] = IF k = i THEN [tasks[a][i] EXCEPT !.shown = TRUE] ELSE tasks[a][k]
      BY <2>2, <3>2
    <3>5. /\ [tasks[a][i] EXCEPT !.shown = TRUE].work = tasks[a][i].work
          /\ [tasks[a][i] EXCEPT !.shown = TRUE].passed = tasks[a][i].passed
          /\ [tasks[a][i] EXCEPT !.shown = TRUE].hops = tasks[a][i].hops
      BY <2>2 DEF Handoffs
    <3>6. QED
      BY <3>3, <3>4, <3>5 DEF H!Task
  <2>8. tasks' \in [Agents -> Seq(Handoffs)]
    BY <2>6, <2>7 DEF HandInv
  <2>9. Counted(tasks'[a]) /\ Covered(tasks'[a], doing'[a])
    <3>1. doing'[a] = doing[a] \cup {H!Task(tasks[a][i])}
      BY <2>1 DEF HandInv
    <3>2. Counted(tasks[a]) /\ Covered(tasks[a], doing[a])
      BY <1>1 DEF HandInv
    <3>3. QED
      BY <2>2, <2>7, <3>1, <3>2 DEF Counted, Covered
  <2>10. \A b \in Agents : /\ Len(tasks'[b]) <= Held /\ Counted(tasks'[b])
                           /\ Covered(tasks'[b], doing'[b])
    BY <1>1, <2>6, <2>7, <2>9 DEF HandInv
  <2>11. QED
    BY <2>3, <2>5, <2>8, <2>10 DEF HandInv, Covered, Counted
<1>2. ASSUME NEW a \in Agents, NEW w \in Works, H!Start(a, w), ~missed
      PROVE  HandInv'
  <2>1. /\ begun' = begun \cup {w} /\ UNCHANGED <<tasks, missed>>
        /\ doing' = [doing EXCEPT ![a] = @ \cup {[work |-> w, passed |-> 0]}]
    BY <1>2 DEF H!Start
  <2>2. [work |-> w, passed |-> 0] \in Task
    BY DEF Task
  <2>3. doing' \in [Agents -> SUBSET Task]
    BY <2>1, <2>2 DEF HandInv
  <2>4. \A b \in Agents : doing'[b] \subseteq doing[b] \cup {[work |-> w, passed |-> 0]}
    BY <2>1 DEF HandInv
  <2>5. \A b \in Agents : Covered(tasks[b], doing'[b])
    BY <1>2, <2>4 DEF HandInv, Covered
  <2>6. QED
    BY <2>1, <2>3, <2>5 DEF HandInv
<1>3. ASSUME NEW a \in Agents, H!Do(a), ~missed
      PROVE  HandInv'
  <2>1. PICK t \in doing[a] : doing' = [doing EXCEPT ![a] = @ \ {t}]
    BY <1>3 DEF H!Do
  <2>2. UNCHANGED <<tasks, begun, missed>>
    BY <1>3 DEF H!Do
  <2>3. doing' \in [Agents -> SUBSET Task] /\ \A b \in Agents : doing'[b] \subseteq doing[b]
    BY <2>1 DEF HandInv
  <2>4. \A b \in Agents : Covered(tasks[b], doing'[b])
    BY <1>3, <2>3 DEF HandInv, Covered
  <2>5. QED
    BY <2>2, <2>3, <2>4 DEF HandInv
<1>4. ASSUME NEW a \in Agents, H!Read(a), ~missed
      PROVE  HandInv'
  <2>1. PICK i \in DOMAIN tasks[a] :
          /\ tasks' = [tasks EXCEPT ![a] = H!RemoveAt(@, i)]
          /\ missed' = (missed \/ H!Task(tasks[a][i]) \in doing[a])
    BY <1>4 DEF H!Read
  <2>2. tasks[a] \in Seq(Handoffs) /\ i \in 1..Len(tasks[a]) /\ UNCHANGED <<doing, begun>>
    BY <1>4 DEF H!Read, HandInv
  <2>3. tasks'[a] = Less(tasks[a], i)
    BY <2>1 DEF HandInv, H!RemoveAt, Less
  <2>4. Counted(tasks[a]) /\ Len(tasks[a]) <= Held /\ doing[a] \in SUBSET Task
    BY <1>4 DEF HandInv
  <2>5. \A b \in Agents \ {a} : tasks'[b] = tasks[b]
    BY <2>1 DEF HandInv
  <2>7. /\ tasks'[a] \in Seq(Handoffs) /\ Counted(tasks'[a]) /\ Len(tasks'[a]) <= Held
        /\ Covered(tasks[a], doing[a]) /\ H!Task(tasks[a][i]) \notin doing[a]
             => Covered(tasks'[a], doing[a])
    BY <2>2, <2>3, <2>4, OneGone
  <2>6. tasks' \in [Agents -> Seq(Handoffs)]
    BY <2>1, <2>7 DEF HandInv
  <2>8. ~missed' => Covered(tasks'[a], doing[a])
    BY <1>4, <2>1, <2>7 DEF HandInv
  <2>9. ~missed' => \A b \in Agents : Covered(tasks'[b], doing[b])
    BY <1>4, <2>5, <2>8 DEF HandInv
  <2>10. \A b \in Agents : Counted(tasks'[b]) /\ Len(tasks'[b]) <= Held
    BY <1>4, <2>5, <2>7 DEF HandInv
  <2>11. missed' \in BOOLEAN
    BY <1>4, <2>1
  <2>12. QED
    BY <2>2, <2>6, <2>9, <2>10, <2>11 DEF HandInv
<1>5. ASSUME NEW a \in Agents, NEW b \in Agents, H!HandOn(a, b), ~missed
      PROVE  HandInv'
  <2> DEFINE message(t, hops) ==
               [work |-> t.work, hops |-> hops, passed |-> t.passed + 1, shown |-> FALSE]
             all == H!Hopped(H!ToSet(tasks[a]))
  <2>1. PICK t \in doing[a], copy \in SUBSET H!ToSet(tasks[a]) :
          /\ ~H!TooFar(H!Hopped(copy))
          /\ H!Deliver(b, message(t, H!Hopped(copy)))
          /\ doing' = [doing EXCEPT ![a] = @ \ {t}]
          /\ missed' = (missed \/ H!LetGo(b) \/ H!Hopped(copy) < all)
    BY <1>5 DEF H!HandOn
  <2>2. begun' = begun
    BY <1>5 DEF H!HandOn
  <2>3. tasks[a] \in Seq(Handoffs) /\ t \in Task /\ Counted(tasks[a]) /\ Covered(tasks[a], doing[a])
    BY <1>5 DEF HandInv
  <2>4. /\ H!ToSet(tasks[a]) \in SUBSET Handoffs
        /\ \A i \in 1..Len(tasks[a]) : tasks[a][i] \in H!ToSet(tasks[a])
    BY <2>3, HeldHandoffs
  <2> DEFINE hops == H!Hopped(copy)
  <2>5. hops \in 1..HopLimit
    BY <2>1, <2>4, NextCount
  <2>6. all \in Nat /\ \A i \in 1..Len(tasks[a]) : tasks[a][i].hops < all
    BY <2>4, NextCount
  <2> HIDE DEF hops, all
  <2>7. ASSUME ~missed'
        PROVE  t.passed < hops
    <3>1. ~(hops < all)
      BY <2>1, <2>7 DEF hops, all
    <3>2. CASE t.passed > 0
      <4>1. PICK i \in 1..Len(tasks[a]) : H!Task(tasks[a][i]) = t
        BY <2>3, <3>2 DEF Covered
      <4>2. tasks[a][i].passed = t.passed /\ tasks[a][i].passed <= tasks[a][i].hops
        BY <2>3, <4>1 DEF H!Task, Counted
      <4>3. tasks[a][i].hops \in Nat
        <5>1. tasks[a][i] \in Handoffs
          BY <2>3
        <5>2. QED
          BY <1>0, <5>1 DEF Handoffs
      <4>4. QED
        BY <1>0, <2>3, <2>5, <2>6, <3>1, <4>2, <4>3 DEF Task
    <3>3. CASE ~(t.passed > 0)
      BY <1>0, <2>3, <2>5, <3>3 DEF Task
    <3>4. QED
      BY <3>2, <3>3
  <2> DEFINE m == message(t, hops)
  <2>8. m \in Handoffs /\ m.hops = hops /\ m.passed = t.passed + 1
    BY <1>0, <2>3, <2>5 DEF Task, Handoffs
  <2>9. H!Deliver(b, m) /\ doing' = [doing EXCEPT ![a] = @ \ {t}]
    BY <2>1 DEF hops
  <2> HIDE DEF m
  <2>10. missed' \in BOOLEAN /\ (~missed' => ~H!LetGo(b))
    BY <1>5, <2>1
  <2>11. ~missed' => m.passed <= m.hops
    BY <1>0, <2>3, <2>5, <2>7, <2>8 DEF Task
  <2>12. QED
    BY <1>5, <2>2, <2>3, <2>8, <2>9, <2>10, <2>11, DeliverDoes
<1>6. ASSUME NEW a \in Agents, NEW b \in Agents, H!SendOn(a, b), ~missed
      PROVE  HandInv'
  <2> DEFINE message(t) == [work |-> t.work, hops |-> 0, passed |-> 0, shown |-> FALSE]
  <2>1. PICK t \in doing[a] :
          H!Deliver(b, message(t)) /\ doing' = [doing EXCEPT ![a] = @ \ {t}]
    BY <1>6 DEF H!SendOn
  <2>2. begun' = begun /\ missed' = (missed \/ H!LetGo(b))
    BY <1>6 DEF H!SendOn
  <2>3. t \in Task
    BY DEF HandInv
  <2> DEFINE m == message(t)
  <2>4. m \in Handoffs /\ m.passed <= m.hops
    BY <1>0, <2>3 DEF Task, Handoffs
  <2>5. H!Deliver(b, m)
    BY <2>1
  <2> HIDE DEF m
  <2>6. missed' \in BOOLEAN /\ (~missed' => ~H!LetGo(b))
    BY <1>6, <2>2
  <2>7. QED
    BY <1>6, <2>1, <2>2, <2>3, <2>4, <2>5, <2>6, DeliverDoes
<1>7. CASE UNCHANGED handoffVars
  BY <1>7 DEF handoffVars, HandInv
<1>8. QED
  BY <1>1, <1>2, <1>3, <1>4, <1>5, <1>6, <1>7 DEF H!Next

\* ... and work that is covered by a counted handoff was not passed on too often.
LEMMA HandStops == HandInv => StopsInTime
<1> SUFFICES ASSUME HandInv
             PROVE  StopsInTime
  OBVIOUS
<1>1. \A a \in Agents : Len(tasks[a]) <= Held
  BY DEF HandInv
<1>2. ASSUME NEW m \in H!Handed
      PROVE  m.work \in Works /\ m.hops \in 0..HopLimit /\ (~missed => m.passed <= HopLimit)
  <2>1. PICK a \in Agents : \E i \in 1..Len(tasks[a]) : m = tasks[a][i]
    BY DEF H!Handed, H!ToSet, HandInv
  <2>2. PICK i \in 1..Len(tasks[a]) : m = tasks[a][i]
    BY <2>1
  <2>3. m \in Handoffs /\ (~missed => m.passed <= m.hops)
    BY <2>2 DEF HandInv, Counted
  <2>4. HopLimit \in Nat
    BY TalkKinds DEF H!HandoffKinds
  <2>5. QED
    BY <2>3, <2>4 DEF Handoffs
<1>3. QED
  BY <1>1, <1>2 DEF StopsInTime, H!TypeOK, H!StopsInTime, HandInv

\* What is on its way, and what the far end has read of it.
Frames ==
  /\ shut \in BOOLEAN
  /\ there \in Seq(1..Calls \cup {Half}) /\ back \in Seq(1..Calls \cup {Busy})
  /\ call \in 0..Calls /\ answered \subseteq 1..Calls /\ done \subseteq 1..Calls
  /\ far \in {"answering", "delivering"} => call \in 1..Calls

\* Nothing is on its way at first ...
LEMMA InitFrames == Init => Frames
<1> SUFFICES ASSUME Init
             PROVE  Frames
  OBVIOUS
<1>1. there \in Seq(1..Calls \cup {Half}) /\ back \in Seq(1..Calls \cup {Busy})
  BY DEF Init
<1>2. call \in 0..Calls /\ far \notin {"answering", "delivering"}
  BY ConnectionKinds DEF Init, Pending
<1>3. QED
  BY <1>1, <1>2 DEF Init, Frames

\* ... and every step puts on its way what it should.
LEMMA StepFrames == Kinds /\ Frames /\ [Next]_vars => Frames'
<1> SUFFICES ASSUME Kinds, Frames, [Next]_vars
             PROVE  Frames'
  OBVIOUS
<1> DEFINE Calling == 1..Calls \cup {Half}
           Replying == 1..Calls \cup {Busy}
<1>1. /\ there \in Seq(Calling) /\ back \in Seq(Replying) /\ Half \in Calling /\ Busy \in Replying
      /\ 1..Calls \subseteq Calling /\ 1..Calls \subseteq Replying
      /\ \A x \in Calling : x # Half => x \in 1..Calls
      /\ 1..Calls \subseteq 0..Calls /\ Pending \in 0..Calls
  <2>1. 1..Calls \subseteq 0..Calls /\ Pending \in 0..Calls
    BY ConnectionKinds DEF Pending
  <2>2. QED
    BY <2>1 DEF Frames
<1>2. /\ shut \in BOOLEAN /\ call \in 0..Calls /\ answered \subseteq 1..Calls /\ done \subseteq 1..Calls
      /\ far \in {"answering", "delivering"} => call \in 1..Calls
  BY DEF Frames
<1>3. near # "idle" => turn \in 1..Calls
  BY DEF Kinds
<1>4. there # <<>> => Head(there) \in Calling /\ Tail(there) \in Seq(Calling)
  <2> HIDE DEF Calling
  <2>1. QED
    BY <1>1, Rest
<1>5. back # <<>> => Tail(back) \in Seq(Replying)
  <2> HIDE DEF Replying
  <2>1. QED
    BY <1>1, Rest
<1> HIDE DEF Calling, Replying
<1>6. SUFFICES /\ shut' \in BOOLEAN /\ there' \in Seq(Calling) /\ back' \in Seq(Replying)
               /\ call' \in 0..Calls /\ answered' \subseteq 1..Calls /\ done' \subseteq 1..Calls
               /\ far' \in {"answering", "delivering"} => call' \in 1..Calls
  BY DEF Frames, Calling, Replying
<1>7. CASE Begin
  BY <1>1, <1>2, <1>7 DEF Begin, farEnd
<1>8. CASE Write
  <2>1. Append(there, turn) \in Seq(Calling)
    <3>1. turn \in Calling
      BY <1>1, <1>3, <1>8 DEF Write
    <3>2. QED
      BY <1>1, <3>1, Added
  <2>2. QED
    BY <1>1, <1>2, <1>8, <2>1 DEF Write, farEnd
<1>9. CASE WriteFails
  <2>1. Append(there, Half) \in Seq(Calling)
    BY <1>1, Added
  <2>2. QED
    BY <1>1, <1>2, <1>9, <2>1 DEF WriteFails, farEnd
<1>10. CASE Read
  BY <1>1, <1>2, <1>5, <1>10 DEF Read, farEnd
<1>11. CASE ReadFails
  BY <1>1, <1>2, <1>11 DEF ReadFails, farEnd
<1>12. CASE TurnAway
  <2>1. Append(back, Busy) \in Seq(Replying)
    BY <1>1, Added
  <2>2. QED
    BY <1>1, <1>2, <1>12, <2>1 DEF TurnAway, nearEnd
<1>13. CASE Hear
  <2>1. Head(there) \in 1..Calls
    BY <1>1, <1>4, <1>13 DEF Hear
  <2>2. QED
    BY <1>1, <1>2, <1>4, <1>13, <2>1 DEF Hear, nearEnd
<1>14. CASE HearNothing
  BY <1>1, <1>2, <1>14 DEF HearNothing, nearEnd
<1>15. CASE Answer
  <2>1. call \in 1..Calls
    BY <1>2, <1>15 DEF Answer
  <2>2. Append(back, call) \in Seq(Replying)
    <3>1. call \in Replying
      BY <1>1, <2>1
    <3>2. QED
      BY <1>1, <3>1, Added
  <2>3. QED
    BY <1>1, <1>2, <1>15, <2>1, <2>2 DEF Answer, nearEnd
<1>16. CASE AnswerFails
  BY <1>1, <1>2, <1>16 DEF AnswerFails, nearEnd
<1>17. CASE Deliver
  <2>1. far' \notin {"answering", "delivering"}
    BY <1>17 DEF Deliver
  <2>2. QED
    BY <1>1, <1>2, <1>17, <2>1 DEF Deliver, nearEnd
<1>18. CASE UNCHANGED vars
  BY <1>1, <1>2, <1>18 DEF vars
<1>19. QED
  BY <1>7, <1>8, <1>9, <1>10, <1>11, <1>12, <1>13, <1>14, <1>15, <1>16, <1>17, <1>18 DEF Next

\* That is the shape of a connection.
LEMMA ConnectionTyped == Inv /\ Frames => TypeOK
BY DEF Inv, Kinds, Frames, TypeOK

----------------------------------------------------------------------------
\* Signals: the rosters on their way.

Spoken == Phases \cup {NoPhase}
SheetRow == [child : BOOLEAN, phase : Spoken]
Sheet == UNION {[of -> SheetRow] : of \in SUBSET Peers}

\* What a roster says of somebody, which is nothing of whom it lacks.
Says(sheet, x) == IF x \in DOMAIN sheet THEN sheet[x].phase ELSE NoPhase

\* The rosters from the one shown to the last one sent.
Nth(i) == IF i = 0 THEN listed ELSE queue[i]
Newest == Nth(Len(queue))

\* Somebody is said to be in a phase by a roster.
Appears(x) == (\E i \in 0..Len(queue) : Says(Nth(i), x) # NoPhase) \/ Says(rows, x) # NoPhase

PeersTyped ==
  /\ life \in [Peers -> {"none", "coming", "up", "leaving", "dead"}] /\ mine \subseteq Peers
  /\ phase \in [Peers -> Spoken] /\ said \in [Peers -> Nat] /\ made \in [Peers -> Nat]

RostersTyped == listed \in Sheet /\ queue \in Seq(Sheet)

\* The poller goes through names it has yet to write a row of.
PollerTyped ==
  /\ look \in {"resting", "dialling", "reading", "sending"}
  /\ todo \subseteq Peers /\ last \in [Peers -> Spoken] /\ rows \in Sheet
  /\ look \in {"dialling", "reading"} <=> todo # {}
  /\ look = "resting" => DOMAIN rows = {}
  /\ DOMAIN rows \cap todo = {}
  /\ look = "reading" => got = last[G!Next1]

\* A name whose phase is known is still in a roster; a phase is that of a session that is up; and
\* whoever is no more the parent, though the loop has yet to read so, passed on.
SigPlain ==
  /\ \A x \in Peers : last[x] # NoPhase =>
       IF look = "resting" THEN x \in DOMAIN Newest ELSE x \in todo \cup DOMAIN rows
  /\ \A x \in Peers : phase[x] # NoPhase => life[x] \in {"up", "leaving"}
  /\ \A x \in Peers : life[x] = "coming" => x \notin born
  /\ above # over /\ above \in Peers => above \in excused

\* What the assumptions say of the constants.
LEMMA SigConstants ==
  Peers \subseteq Nat /\ Nobody \notin Peers /\ NoPhase \notin Phases /\ "lost" \notin Phases
BY TalkKinds DEF G!SignalsKinds

\* The name the poller is at is one it has yet to go through.
LEMMA NextOne ==
  ASSUME todo \subseteq Peers, todo # {}
  PROVE  G!Next1 \in todo
<1>1. todo \in SUBSET Nat
  BY SigConstants
<1>2. \E x \in todo : \A y \in todo : x <= y
  BY <1>1, LeastNat
<1>3. QED
  BY <1>2 DEF G!Next1

\* A roster has rows of sessions.
LEMMA SheetRows ==
  ASSUME NEW sheet \in Sheet
  PROVE  /\ DOMAIN sheet \subseteq Peers
         /\ \A x \in DOMAIN sheet :
              sheet[x] \in SheetRow /\ sheet[x].child \in BOOLEAN /\ sheet[x].phase \in Spoken
         /\ \A x : Says(sheet, x) \in Spoken
<1>1. PICK of \in SUBSET Peers : sheet \in [of -> SheetRow]
  BY DEF Sheet
<1>2. \A x \in DOMAIN sheet : sheet[x] \in SheetRow
  BY <1>1
<1>3. \A row \in SheetRow : row.child \in BOOLEAN /\ row.phase \in Spoken
  BY DEF SheetRow
<1>4. \A x : Says(sheet, x) \in Spoken
  BY <1>2, <1>3 DEF Says, Spoken
<1>5. QED
  BY <1>1, <1>2, <1>3, <1>4

\* One more row makes a roster of a roster.
LEMMA OneMoreRow ==
  ASSUME NEW sheet \in Sheet, NEW x \in Peers, NEW row \in SheetRow, NEW longer,
         longer = [y \in DOMAIN sheet \cup {x} |-> IF y = x THEN row ELSE sheet[y]]
  PROVE  longer \in Sheet
<1>1. /\ DOMAIN sheet \subseteq Peers
      /\ \A y \in DOMAIN sheet : sheet[y] \in SheetRow
  BY SheetRows
<1>2. longer \in [DOMAIN sheet \cup {x} -> SheetRow]
  BY <1>1
<1>3. DOMAIN sheet \cup {x} \in SUBSET Peers
  BY <1>1
<1>4. QED
  BY <1>2, <1>3 DEF Sheet

\* The empty roster is one.
LEMMA EmptySheet == <<>> \in Sheet /\ DOMAIN <<>> = {} /\ \A x : Says(<<>>, x) = NoPhase
<1>1. DOMAIN <<>> = {}
  OBVIOUS
<1>2. <<>> \in [{} -> SheetRow]
  OBVIOUS
<1>3. QED
  BY <1>1, <1>2 DEF Sheet, Says

\* A roster that is sent comes last, and the others stay in their places ...
LEMMA NthSent ==
  ASSUME queue \in Seq(Sheet), queue' = Append(queue, rows), listed' = listed, rows \in Sheet
  PROVE  /\ Len(queue) \in Nat /\ Len(queue') = Len(queue) + 1
         /\ \A i \in 0..Len(queue) : Nth(i)' = Nth(i)
         /\ \A i \in Nat : i = Len(queue) + 1 => Nth(i)' = rows
         /\ Newest' = rows
<1>1. /\ Len(queue) \in Nat /\ Len(queue') = Len(queue) + 1
      /\ \A i \in 1..Len(queue) : queue'[i] = queue[i]
      /\ queue'[Len(queue) + 1] = rows
  OBVIOUS
<1>2. \A i \in 0..Len(queue) : i # 0 => i \in 1..Len(queue)
  BY <1>1
<1>3. Len(queue) + 1 # 0
  BY <1>1
<1>4. \A i \in 0..Len(queue) : Nth(i)' = Nth(i)
  BY <1>1, <1>2 DEF Nth
<1>5. \A i \in Nat : i = Len(queue) + 1 => Nth(i)' = rows
  BY <1>1, <1>3 DEF Nth
<1>6. Newest' = rows
  BY <1>1, <1>3 DEF Nth, Newest
<1>7. QED
  BY <1>1, <1>4, <1>5, <1>6

\* ... and when the first comes out of the channel each is one place nearer to being shown.
LEMMA NthTaken ==
  ASSUME queue \in Seq(Sheet), queue # <<>>, queue' = Tail(queue), listed' = Head(queue)
  PROVE  /\ Len(queue) \in Nat /\ Len(queue) > 0 /\ Len(queue') = Len(queue) - 1
         /\ \A i \in 0..Len(queue) - 1 : Nth(i)' = Nth(i + 1)
         /\ Newest' = Newest
<1>1. /\ Len(queue) \in Nat /\ Len(queue) > 0 /\ Len(queue') = Len(queue) - 1
      /\ \A i \in 1..Len(queue) - 1 : queue'[i] = queue[i + 1]
      /\ listed' = queue[1]
  OBVIOUS
<1>2. \A i \in 0..Len(queue) - 1 : Nth(i)' = Nth(i + 1)
  <2>1. SUFFICES ASSUME NEW i \in 0..Len(queue) - 1
                 PROVE  Nth(i)' = Nth(i + 1)
    OBVIOUS
  <2>2. i + 1 # 0
    BY <1>1
  <2>3. CASE i = 0
    BY <1>1, <2>2, <2>3 DEF Nth
  <2>4. CASE i # 0
    <3>1. i \in 1..Len(queue) - 1
      BY <1>1, <2>4
    <3>2. QED
      BY <1>1, <2>2, <2>4, <3>1 DEF Nth
  <2>5. QED
    BY <2>3, <2>4
<1>3. Newest' = Newest
  <2>1. \A i \in Nat : i = Len(queue) - 1 => Newest' = Nth(i)'
    BY <1>1 DEF Newest, Nth
  <2>2. Len(queue) - 1 \in 0..Len(queue) - 1 /\ (Len(queue) - 1) + 1 = Len(queue)
    BY <1>1
  <2>3. Len(queue) - 1 \in Nat
    BY <1>1
  <2>4. QED
    BY <1>2, <2>1, <2>2, <2>3 DEF Newest
<1>4. QED
  BY <1>1, <1>2, <1>3

\* Each is a roster.
LEMMA NthTyped ==
  ASSUME RostersTyped
  PROVE  Len(queue) \in Nat /\ Newest \in Sheet /\ \A i \in 0..Len(queue) : Nth(i) \in Sheet
<1>1. Len(queue) \in Nat /\ \A i \in 1..Len(queue) : queue[i] \in Sheet
  BY DEF RostersTyped
<1>2. \A i \in 0..Len(queue) : Nth(i) \in Sheet
  <2>1. \A i \in 0..Len(queue) : i # 0 => i \in 1..Len(queue)
    BY <1>1
  <2>2. QED
    BY <1>1, <2>1 DEF Nth, RostersTyped
<1>3. QED
  BY <1>1, <1>2 DEF Newest

SigShape == PeersTyped /\ RostersTyped /\ PollerTyped

\* Every step leaves the sessions what they are ...
LEMMA StepPeers == PeersTyped /\ [G!Next]_signalVars => PeersTyped'
<1> SUFFICES ASSUME PeersTyped, [G!Next]_signalVars
             PROVE  PeersTyped'
  OBVIOUS
<1> USE DEF PeersTyped
<1>1. CASE G!Others
  <2>1. PICK x \in Peers : \/ G!Start(x) \/ G!Announce(x) \/ G!Enter(x) \/ G!Graft(x) \/ G!Forget(x)
                           \/ G!Release(x) \/ G!Kill(x) \/ G!Sweep(x) \/ G!Adopted(x)
    BY <1>1 DEF G!Others
  <2>2. CASE G!Start(x)
    BY <2>2 DEF G!Start
  <2>3. CASE G!Announce(x)
    BY <2>3 DEF G!Announce
  <2>4. CASE G!Enter(x)
    BY <2>4 DEF G!Enter, Spoken
  <2>5. CASE G!Graft(x)
    BY <2>5 DEF G!Graft
  <2>6. CASE G!Forget(x)
    BY <2>6 DEF G!Forget, G!ghosts
  <2>7. CASE G!Release(x)
    BY <2>7 DEF G!Release, G!ghosts, Spoken
  <2>8. CASE G!Kill(x)
    BY <2>8 DEF G!Kill, G!ghosts, Spoken
  <2>9. CASE G!Sweep(x)
    BY <2>9 DEF G!Sweep, G!ghosts
  <2>10. CASE G!Adopted(x)
    BY <2>10 DEF G!Adopted
  <2>11. QED
    BY <2>1, <2>2, <2>3, <2>4, <2>5, <2>6, <2>7, <2>8, <2>9, <2>10
<1>2. CASE G!Watching
  BY <1>2 DEF G!Watching, G!ReadWatches, G!WriteWatches
<1>3. CASE G!List
  BY <1>3 DEF G!List, G!Listening, G!ghosts
<1>4. CASE G!Answer \/ G!Silent \/ G!Read \/ G!Send
  BY <1>4 DEF G!Answer, G!Silent, G!Read, G!Send, G!world, G!ghosts
<1>5. CASE G!Take
  <2>1. said' \in [Peers -> Nat]
    BY <1>5 DEF G!Take
  <2>2. QED
    BY <1>5, <2>1 DEF G!Take, G!world, G!ghosts
<1>6. CASE G!Tick
  BY <1>6 DEF G!Tick, G!world, G!ghosts
<1>7. CASE UNCHANGED signalVars
  BY <1>7 DEF signalVars
<1>8. QED
  BY <1>1, <1>2, <1>3, <1>4, <1>5, <1>6, <1>7 DEF G!Next, G!Poll, G!Loop

\* The sessions, and the tools of one, leave its poller and its rosters alone.
LEMMA OutsideLooks ==
  ASSUME G!Others \/ G!Watching \/ G!Tick \/ UNCHANGED signalVars
  PROVE  /\ UNCHANGED <<look, todo, got, rows, last, queue, listed, signal, said, torn>>
<1>1. CASE G!Others
  BY <1>1 DEF G!Others, G!Start, G!Announce, G!Enter, G!Graft, G!Forget, G!Release, G!Kill,
              G!Sweep, G!Adopted, G!poller, G!ghosts
<1>2. CASE G!Watching
  BY <1>2 DEF G!Watching, G!ReadWatches, G!WriteWatches, G!poller
<1>3. CASE G!Tick
  BY <1>3 DEF G!Tick, G!poller, G!ghosts
<1>4. CASE UNCHANGED signalVars
  BY <1>4 DEF signalVars
<1>5. QED
  BY <1>1, <1>2, <1>3, <1>4

\* ... its poller a poller, and what it sends rosters.
LEMMA StepPoller == SigShape /\ [G!Next]_signalVars => PollerTyped'
<1> SUFFICES ASSUME SigShape, [G!Next]_signalVars
             PROVE  PollerTyped'
  OBVIOUS
<1>0. todo' = todo => G!Next1' = G!Next1
  BY DEF G!Next1
<1>1. CASE G!Others \/ G!Watching \/ G!Tick \/ G!Take \/ UNCHANGED signalVars
  <2>1. UNCHANGED <<look, todo, got, rows, last>>
    BY <1>1, OutsideLooks DEF G!Take, G!poller
  <2>2. QED
    BY <1>0, <2>1 DEF SigShape, PollerTyped
<1>2. CASE G!List
  <2>1. G!Listening \subseteq Peers
    BY DEF G!Listening
  <2>2. last' \in [Peers -> Spoken]
    BY <1>2 DEF G!List, SigShape, PollerTyped, Spoken
  <2>3. rows' \in Sheet /\ DOMAIN rows' = {}
    BY <1>2, EmptySheet DEF G!List, G!Empty
  <2>4. QED
    BY <1>2, <2>1, <2>2, <2>3 DEF G!List, G!On, PollerTyped
<1>3. CASE G!Answer \/ G!Silent
  <2>1. look = "dialling" /\ look' = "reading" /\ todo' = todo /\ rows' = rows
    BY <1>3 DEF G!Answer, G!Silent
  <2>2. todo # {} /\ todo \subseteq Peers
    BY <2>1 DEF SigShape, PollerTyped
  <2>3. G!Next1 \in todo /\ G!Next1 \in Peers
    BY <2>2, NextOne
  <2>4. last' \in [Peers -> Spoken]
    BY <1>3, <2>3 DEF G!Answer, G!Silent, SigShape, PollerTyped, PeersTyped
  <2>5. got' = last'[G!Next1]
    BY <1>3, <2>3 DEF G!Answer, G!Silent, SigShape, PollerTyped
  <2>6. QED
    BY <1>0, <2>1, <2>2, <2>4, <2>5 DEF SigShape, PollerTyped
<1>4. CASE G!Read
  <2>1. look = "reading" /\ todo # {} /\ todo \subseteq Peers /\ got = last[G!Next1]
    BY <1>4 DEF G!Read, SigShape, PollerTyped
  <2>2. G!Next1 \in todo /\ G!Next1 \in Peers /\ G!Next1 \notin DOMAIN rows
    BY <2>1, NextOne DEF SigShape, PollerTyped
  <2> DEFINE row == [child |-> G!Next1 \in mine, phase |-> got]
  <2>3. row \in SheetRow
    <3>1. got \in Spoken
      BY <2>1, <2>2 DEF SigShape, PollerTyped
    <3>2. (G!Next1 \in mine) \in BOOLEAN
      OBVIOUS
    <3>3. QED
      BY <3>1, <3>2 DEF SheetRow
  <2>4. rows' = [y \in DOMAIN rows \cup {G!Next1} |-> IF y = G!Next1 THEN row ELSE rows[y]]
    BY <1>4 DEF G!Read
  <2>5. rows' \in Sheet
    <3> HIDE DEF row
    <3>1. QED
      BY <2>2, <2>3, <2>4, OneMoreRow DEF SigShape, PollerTyped
  <2>6. DOMAIN rows' = DOMAIN rows \cup {G!Next1}
    BY <2>4
  <2>7. todo' = todo \ {G!Next1} /\ look' = (IF todo' = {} THEN "sending" ELSE "dialling")
        /\ last' = last
    BY <1>4 DEF G!Read, G!On
  <2>8. QED
    BY <2>1, <2>2, <2>5, <2>6, <2>7 DEF SigShape, PollerTyped
<1>5. CASE G!Send
  <2>1. look = "sending" /\ look' = "resting" /\ todo' = todo /\ last' = last /\ rows' = <<>>
    BY <1>5 DEF G!Send, G!Empty
  <2>2. QED
    BY <2>1, EmptySheet DEF SigShape, PollerTyped
<1>6. QED
  BY <1>1, <1>2, <1>3, <1>4, <1>5 DEF G!Next, G!Poll, G!Loop

LEMMA StepRosters == SigShape /\ [G!Next]_signalVars => RostersTyped'
<1> SUFFICES ASSUME SigShape, [G!Next]_signalVars
             PROVE  RostersTyped'
  OBVIOUS
<1> USE DEF SigShape, RostersTyped
<1>1. CASE G!Others \/ G!Watching \/ G!Tick \/ UNCHANGED signalVars
  BY <1>1, OutsideLooks
<1>2. CASE G!List \/ G!Answer \/ G!Silent \/ G!Read
  BY <1>2 DEF G!List, G!Answer, G!Silent, G!Read
<1>3. CASE G!Send
  <2>1. rows \in Sheet
    BY DEF PollerTyped
  <2>2. Append(queue, rows) \in Seq(Sheet)
    BY <2>1, Added
  <2>3. QED
    BY <1>3, <2>2 DEF G!Send
<1>4. CASE G!Take
  <2>1. queue # <<>> /\ queue' = Tail(queue) /\ listed' = Head(queue)
    BY <1>4 DEF G!Take
  <2>2. Head(queue) \in Sheet /\ Tail(queue) \in Seq(Sheet)
    BY <2>1, Rest
  <2>3. QED
    BY <2>1, <2>2
<1>5. QED
  BY <1>1, <1>2, <1>3, <1>4 DEF G!Next, G!Poll, G!Loop

\* Who passed on stays so.
LEMMA StaysExcused ==
  ASSUME [G!Next]_signalVars
  PROVE  excused \subseteq excused' /\ torn \subseteq torn'
<1>1. CASE G!Others
  BY <1>1 DEF G!Others, G!Start, G!Announce, G!Enter, G!Graft, G!Forget, G!Release, G!Kill,
              G!Sweep, G!Adopted, G!ghosts
<1>2. CASE G!Watching
  BY <1>2 DEF G!Watching, G!ReadWatches, G!WriteWatches
<1>3. CASE G!Poll
  BY <1>3 DEF G!Poll, G!List, G!Answer, G!Silent, G!Read, G!Send, G!ghosts
<1>4. CASE G!Loop \/ UNCHANGED signalVars
  BY <1>4 DEF G!Loop, G!Take, G!Tick, G!ghosts, signalVars
<1>5. QED
  BY <1>1, <1>2, <1>3, <1>4 DEF G!Next

\* A name whose phase is known stays in a roster ...
LatestIn(x) ==
  last[x] # NoPhase => IF look = "resting" THEN x \in DOMAIN Newest ELSE x \in todo \cup DOMAIN rows

LEMMA StepLatest ==
  ASSUME SigShape, [G!Next]_signalVars, NEW x \in Peers, LatestIn(x)
  PROVE  LatestIn(x)'
<1>1. CASE G!Others \/ G!Watching \/ G!Tick \/ UNCHANGED signalVars
  <2>1. UNCHANGED <<look, todo, rows, last, queue, listed>>
    BY <1>1, OutsideLooks
  <2>2. QED
    BY <2>1 DEF LatestIn, Newest, Nth
<1>2. CASE G!List
  <2>1. look' # "resting" /\ todo' = G!Listening /\ (x \notin G!Listening => last'[x] = NoPhase)
    BY <1>2 DEF G!List, G!On
  <2>2. QED
    BY <2>1 DEF LatestIn
<1>3. CASE G!Answer \/ G!Silent
  <2>1. /\ look = "dialling" /\ look' = "reading" /\ UNCHANGED <<todo, rows>>
        /\ x # G!Next1 => last'[x] = last[x]
    BY <1>3 DEF G!Answer, G!Silent, SigShape, PollerTyped
  <2>2. G!Next1 \in todo
    BY <2>1, NextOne DEF SigShape, PollerTyped
  <2>3. QED
    BY <2>1, <2>2 DEF LatestIn
<1>4. CASE G!Read
  <2>1. /\ look = "reading" /\ look' # "resting" /\ last' = last
        /\ todo' = todo \ {G!Next1} /\ DOMAIN rows' = DOMAIN rows \cup {G!Next1}
    BY <1>4 DEF G!Read, G!On
  <2>2. QED
    BY <2>1 DEF LatestIn
<1>5. CASE G!Send
  <2>1. look = "sending" /\ look' = "resting" /\ last' = last /\ todo = {}
    BY <1>5 DEF G!Send, SigShape, PollerTyped
  <2>2. queue' = Append(queue, rows) /\ listed' = listed
    BY <1>5 DEF G!Send
  <2>3. Newest' = rows
    BY <2>2, NthSent DEF SigShape, RostersTyped, PollerTyped
  <2>4. QED
    BY <2>1, <2>3 DEF LatestIn
<1>6. CASE G!Take
  <2>1. queue # <<>> /\ queue' = Tail(queue) /\ listed' = Head(queue)
    BY <1>6 DEF G!Take
  <2>2. Newest' = Newest
    BY <2>1, NthTaken DEF SigShape, RostersTyped
  <2>3. UNCHANGED <<look, todo, rows, last>>
    BY <1>6 DEF G!Take, G!poller
  <2>4. QED
    BY <2>2, <2>3 DEF LatestIn
<1>7. QED
  BY <1>1, <1>2, <1>3, <1>4, <1>5, <1>6 DEF G!Next, G!Poll, G!Loop

\* ... and the rest of what is plain stays too.
LEMMA StepPlain == SigShape /\ SigPlain /\ [G!Next]_signalVars => SigPlain'
<1> SUFFICES ASSUME SigShape, SigPlain, [G!Next]_signalVars
             PROVE  SigPlain'
  OBVIOUS
<1>1. \A x \in Peers : LatestIn(x)'
  <2>1. \A x \in Peers : LatestIn(x)
    BY DEF SigPlain, LatestIn
  <2>2. QED
    BY <2>1, StepLatest
<1> DEFINE Up(x) == phase[x] # NoPhase => life[x] \in {"up", "leaving"}
           Unborn(x) == life[x] = "coming" => x \notin born
<1>2. ASSUME NEW x \in Peers
      PROVE  Up(x)' /\ Unborn(x)'
  <2>1. Up(x) /\ Unborn(x)
    BY DEF SigPlain
  <2>2. /\ life \in [Peers -> {"none", "coming", "up", "leaving", "dead"}]
        /\ phase \in [Peers -> Spoken]
    BY DEF SigShape, PeersTyped
  <2>3. CASE G!Others
    <3>1. PICK y \in Peers : \/ G!Start(y) \/ G!Announce(y) \/ G!Enter(y) \/ G!Graft(y) \/ G!Forget(y)
                             \/ G!Release(y) \/ G!Kill(y) \/ G!Sweep(y) \/ G!Adopted(y)
      BY <2>3 DEF G!Others
    <3>2. CASE G!Start(y)
      BY <2>1, <2>2, <3>2 DEF G!Start
    <3>3. CASE G!Announce(y)
      BY <2>1, <2>2, <3>3 DEF G!Announce
    <3>4. CASE G!Enter(y)
      BY <2>1, <2>2, <3>4 DEF G!Enter
    <3>5. CASE G!Graft(y)
      BY <2>1, <2>2, <3>5 DEF G!Graft
    <3>6. CASE G!Forget(y)
      BY <2>1, <2>2, <3>6 DEF G!Forget, G!ghosts
    <3>7. CASE G!Release(y)
      BY <2>1, <2>2, <3>7 DEF G!Release, G!ghosts
    <3>8. CASE G!Kill(y)
      BY <2>1, <2>2, <3>8 DEF G!Kill, G!ghosts
    <3>9. CASE G!Sweep(y)
      BY <2>1, <2>2, <3>9 DEF G!Sweep, G!ghosts
    <3>10. CASE G!Adopted(y)
      BY <2>1, <2>2, <3>10 DEF G!Adopted
    <3>11. QED
      BY <3>1, <3>2, <3>3, <3>4, <3>5, <3>6, <3>7, <3>8, <3>9, <3>10
  <2>4. CASE G!Watching
    BY <2>1, <2>2, <2>4 DEF G!Watching, G!ReadWatches, G!WriteWatches
  <2>5. CASE G!List
    BY <2>1, <2>2, <2>5 DEF G!List, G!ghosts
  <2>6. CASE G!Answer \/ G!Silent \/ G!Read \/ G!Send
    BY <2>1, <2>2, <2>6 DEF G!Answer, G!Silent, G!Read, G!Send, G!world, G!ghosts
  <2>7. CASE G!Loop \/ UNCHANGED signalVars
    BY <2>1, <2>2, <2>7 DEF G!Loop, G!Take, G!Tick, G!world, G!ghosts, signalVars
  <2>8. QED
    BY <2>3, <2>4, <2>5, <2>6, <2>7 DEF G!Next, G!Poll
<1>3. (above # over /\ above \in Peers => above \in excused)'
  <2>1. above # over /\ above \in Peers => above \in excused
    BY DEF SigPlain
  <2>2. excused \subseteq excused'
    BY StaysExcused
  <2>3. CASE \E x \in Peers : G!Adopted(x)
    BY <2>1, <2>3 DEF G!Adopted
  <2>4. CASE G!Tick
    BY <2>4 DEF G!Tick, G!world
  <2>5. CASE UNCHANGED <<above, over>>
    BY <2>1, <2>2, <2>5
  <2>6. CASE G!Others
    BY <2>3, <2>5, <2>6 DEF G!Others, G!Start, G!Announce, G!Enter, G!Graft, G!Forget, G!Release,
                            G!Kill, G!Sweep
  <2>7. CASE G!Watching
    <3>1. UNCHANGED <<above, over>>
      BY <2>7 DEF G!Watching, G!ReadWatches, G!WriteWatches
    <3>2. QED
      BY <2>5, <3>1
  <2>8. CASE G!Poll \/ G!Take \/ UNCHANGED signalVars
    <3>1. UNCHANGED <<above, over>>
      BY <2>8 DEF G!Poll, G!List, G!Answer, G!Silent, G!Read, G!Send, G!Take, G!world, signalVars
    <3>2. QED
      BY <2>5, <3>1
  <2>9. QED
    BY <2>4, <2>6, <2>7, <2>8 DEF G!Next, G!Loop
<1>4. QED
  BY <1>1, <1>2, <1>3 DEF SigPlain, LatestIn

\* A count goes up where somebody is said to be in another phase than before.
Rises(a, b, v, w) == a <= b /\ (w # NoPhase /\ w # v => a < b)

\* What the poller's next roster says, or will have to be held against.
Coming(x) == IF look # "resting" /\ x \notin todo THEN Says(rows, x) ELSE Says(Newest, x)

\* The phases of a name are counted along its way, from the roster that is shown to the session:
\* up to the newest roster there are those said and those its rosters will have said ...
Before(x, a) ==
  \E steps \in [0..Len(queue) -> Nat] :
    /\ said[x] <= steps[0] /\ steps[Len(queue)] = a
    /\ \A i \in 1..Len(queue) : Rises(steps[i - 1], steps[i], Says(Nth(i - 1), x), Says(Nth(i), x))

\* ... and past it those of the roster to come, of the last answer and of the session.
Ahead(x, a) ==
  \E r, k \in Nat :
    /\ Rises(a, r, Says(Newest, x), Coming(x))
    /\ Rises(r, k, Coming(x), last[x])
    /\ Rises(k, made[x], last[x], phase[x])

PhasesCounted == \A x \in Peers : \E a \in Nat : Before(x, a) /\ Ahead(x, a)

\* Counts go up over two steps as they do over one.
LEMMA RisesOn ==
  ASSUME NEW a \in Nat, NEW b \in Nat, NEW c \in Nat, NEW v, NEW w, NEW u,
         Rises(a, b, v, w), Rises(b, c, w, u)
  PROVE  Rises(a, c, v, u)
BY DEF Rises

\* What is on its way alone counts.
LEMMA SameBefore ==
  ASSUME UNCHANGED <<queue, listed, said>>, NEW x, NEW a, Before(x, a)
  PROVE  Before(x, a)'
BY DEF Before, Nth

\* A phase is counted as it is entered.
LEMMA PhaseRises ==
  ASSUME SigShape, [G!Next]_signalVars, NEW x \in Peers
  PROVE  /\ made[x] \in Nat /\ made'[x] \in Nat
         /\ Rises(made[x], made'[x], phase[x], phase'[x])
<1>1. made \in [Peers -> Nat] /\ phase \in [Peers -> Spoken]
  BY DEF SigShape, PeersTyped
<1>2. made' \in [Peers -> Nat]
  BY StepPeers DEF SigShape, PeersTyped
<1>3. CASE UNCHANGED <<made, phase>>
  BY <1>1, <1>3 DEF Rises
<1>4. CASE G!Others
  <2>1. PICK y \in Peers : \/ G!Start(y) \/ G!Announce(y) \/ G!Enter(y) \/ G!Graft(y) \/ G!Forget(y)
                           \/ G!Release(y) \/ G!Kill(y) \/ G!Sweep(y) \/ G!Adopted(y)
    BY <1>4 DEF G!Others
  <2>2. CASE G!Enter(y)
    <3>1. made' = [made EXCEPT ![y] = @ + 1] /\ (x # y => phase'[x] = phase[x])
      BY <1>1, <2>2 DEF G!Enter
    <3>2. QED
      BY <1>1, <3>1 DEF Rises
  <2>3. CASE G!Release(y) \/ G!Kill(y)
    <3>1. made' = made /\ (phase'[x] = phase[x] \/ phase'[x] = NoPhase)
      BY <1>1, <2>3 DEF G!Release, G!Kill, G!ghosts
    <3>2. QED
      BY <1>1, <3>1 DEF Rises
  <2>4. CASE G!Start(y) \/ G!Announce(y) \/ G!Graft(y) \/ G!Forget(y) \/ G!Sweep(y) \/ G!Adopted(y)
    BY <1>3, <2>4 DEF G!Start, G!Announce, G!Graft, G!Forget, G!Sweep, G!Adopted, G!ghosts
  <2>5. QED
    BY <1>1, <1>2, <2>1, <2>2, <2>3, <2>4
<1>5. CASE G!Watching \/ G!Poll \/ G!Loop \/ UNCHANGED signalVars
  <2>1. UNCHANGED <<made, phase>>
    BY <1>5 DEF G!Watching, G!ReadWatches, G!WriteWatches, G!Poll, G!List, G!Answer, G!Silent,
                G!Read, G!Send, G!Loop, G!Take, G!Tick, G!world, G!ghosts, signalVars
  <2>2. QED
    BY <1>1, <1>3, <2>1
<1>6. QED
  BY <1>1, <1>2, <1>4, <1>5 DEF G!Next

\* A roster that is sent is one more place on the way.
LEMMA SentBefore ==
  ASSUME SigShape, G!Send, NEW x \in Peers, NEW a \in Nat, NEW r \in Nat,
         Before(x, a), Rises(a, r, Says(Newest, x), Says(rows, x))
  PROVE  Before(x, r)'
<1> DEFINE n == Len(queue)
<1>1. queue' = Append(queue, rows) /\ listed' = listed /\ said' = said
  BY DEF G!Send
<1>2. /\ n \in Nat /\ Len(queue') = n + 1
      /\ \A i \in 0..n : Nth(i)' = Nth(i)
      /\ \A i \in Nat : i = n + 1 => Nth(i)' = rows
  BY <1>1, NthSent DEF SigShape, RostersTyped, PollerTyped
<1>3. PICK steps \in [0..n -> Nat] :
        /\ said[x] <= steps[0] /\ steps[n] = a
        /\ \A i \in 1..n : Rises(steps[i - 1], steps[i], Says(Nth(i - 1), x), Says(Nth(i), x))
  BY DEF Before
<1>4. Newest = Nth(n)
  BY DEF Newest
<1> DEFINE more == [i \in 0..n + 1 |-> IF i = n + 1 THEN r ELSE steps[i]]
<1> HIDE DEF n
<1>5. /\ more \in [0..n + 1 -> Nat] /\ more[n + 1] = r
      /\ \A i \in 0..n : more[i] = steps[i]
  BY <1>2
<1> HIDE DEF more
<1>6. said'[x] <= more[0]
  BY <1>1, <1>2, <1>3, <1>5
<1>7. ASSUME NEW i \in 1..n + 1
      PROVE  Rises(more[i - 1], more[i], Says(Nth(i - 1)', x), Says(Nth(i)', x))
  <2>1. i \in Nat /\ i - 1 \in 0..n /\ Nth(i - 1)' = Nth(i - 1) /\ more[i - 1] = steps[i - 1]
    BY <1>2, <1>5
  <2>2. CASE i = n + 1
    <3>1. Nth(i)' = rows /\ i - 1 = n /\ more[i] = r
      BY <1>2, <1>5, <2>1, <2>2
    <3>2. QED
      BY <1>3, <1>4, <2>1, <3>1
  <2>3. CASE i # n + 1
    <3>1. i \in 1..n
      BY <1>2, <2>3
    <3>2. Nth(i)' = Nth(i) /\ more[i] = steps[i]
      BY <1>2, <1>5, <3>1
    <3>3. QED
      BY <1>3, <2>1, <3>1, <3>2
  <2>4. QED
    BY <2>2, <2>3
<1>8. Says(rows, x)' = Says(rows', x) /\ \A i \in Nat : Says(Nth(i), x)' = Says(Nth(i)', x)
  BY DEF Says
<1>9. QED
  <2>1. ASSUME NEW i \in 1..Len(queue')
        PROVE  Rises(more[i - 1], more[i], Says(Nth(i - 1), x)', Says(Nth(i), x)')
    <3>1. i \in Nat /\ i - 1 \in Nat /\ i \in 1..n + 1
      BY <1>2
    <3>2. QED
      BY <1>7, <1>8, <3>1
  <2>2. more \in [0..Len(queue') -> Nat] /\ more[Len(queue')] = r
    BY <1>2, <1>5
  <2>3. QED
    BY <1>6, <2>1, <2>2 DEF Before, Rises

\* One that is taken out is one less, and what is said of it was counted.
LEMMA TakenBefore ==
  ASSUME SigShape, G!Take, NEW x \in Peers, NEW a \in Nat, Before(x, a)
  PROVE  Before(x, a)'
<1> DEFINE n == Len(queue)
<1>1. queue # <<>> /\ queue' = Tail(queue) /\ listed' = Head(queue)
  BY DEF G!Take
<1>2. /\ n \in Nat /\ n > 0 /\ Len(queue') = n - 1
      /\ \A i \in 0..n - 1 : Nth(i)' = Nth(i + 1)
  BY <1>1, NthTaken DEF SigShape, RostersTyped
<1>3. PICK steps \in [0..n -> Nat] :
        /\ said[x] <= steps[0] /\ steps[n] = a
        /\ \A i \in 1..n : Rises(steps[i - 1], steps[i], Says(Nth(i - 1), x), Says(Nth(i), x))
  BY DEF Before
<1>4. Nth(0) = listed /\ Nth(1) = Head(queue) /\ said[x] \in Nat
  <2>1. Head(queue) = queue[1]
    BY <1>1, Rest DEF SigShape, RostersTyped
  <2>2. QED
    BY <2>1 DEF Nth, SigShape, PeersTyped
<1> HIDE DEF n
<1>5. Rises(steps[0], steps[1], Says(listed, x), Says(Head(queue), x))
  <2>1. 1 \in 1..n /\ 1 - 1 = 0
    BY <1>2
  <2>2. QED
    BY <1>3, <1>4, <2>1
<1>6. said'[x] <= steps[1]
  <2>1. /\ said'[x] = said[x] \/ said'[x] = said[x] + 1
        /\ said'[x] # said[x] => Says(Head(queue), x) # NoPhase /\ Says(Head(queue), x) # Says(listed, x)
    BY DEF G!Take, G!Moved, Says, SigShape, PeersTyped
  <2>2. steps[0] \in Nat /\ steps[1] \in Nat
    BY <1>2, <1>3
  <2>3. QED
    BY <1>3, <1>4, <1>5, <2>1, <2>2 DEF Rises
<1> DEFINE fewer == [i \in 0..n - 1 |-> steps[i + 1]]
<1>7. fewer \in [0..n - 1 -> Nat] /\ fewer[0] = steps[1] /\ fewer[n - 1] = a
      /\ \A i \in 0..n - 1 : fewer[i] = steps[i + 1]
  BY <1>2, <1>3
<1> HIDE DEF fewer
<1>8. ASSUME NEW i \in 1..n - 1
      PROVE  Rises(fewer[i - 1], fewer[i], Says(Nth(i - 1), x)', Says(Nth(i), x)')
  <2>1. i \in 0..n - 1 /\ i - 1 \in 0..n - 1 /\ (i - 1) + 1 = i /\ i + 1 \in 1..n /\ (i + 1) - 1 = i
    BY <1>2
  <2>2. Nth(i)' = Nth(i + 1) /\ Nth(i - 1)' = Nth(i) /\ fewer[i] = steps[i + 1] /\ fewer[i - 1] = steps[i]
    BY <1>2, <1>7, <2>1
  <2>3. Rises(steps[i], steps[i + 1], Says(Nth(i), x), Says(Nth(i + 1), x))
    BY <1>3, <2>1
  <2>4. Says(Nth(i - 1), x)' = Says(Nth(i), x) /\ Says(Nth(i), x)' = Says(Nth(i + 1), x)
    BY <2>2 DEF Says
  <2>5. QED
    BY <2>2, <2>3, <2>4
<1>9. QED
  BY <1>2, <1>6, <1>7, <1>8 DEF Before, Rises

\* Past the newest roster the phases are counted at every step.
LEMMA StepCounted ==
  ASSUME SigShape, SigPlain, [G!Next]_signalVars, PhasesCounted
  PROVE  PhasesCounted'
<1> SUFFICES ASSUME NEW x \in Peers
             PROVE  (\E a \in Nat : Before(x, a) /\ Ahead(x, a))'
  BY DEF PhasesCounted
<1>1. PICK a \in Nat : Before(x, a) /\ Ahead(x, a)
  BY DEF PhasesCounted
<1>2. PICK r \in Nat, k \in Nat :
        /\ Rises(a, r, Says(Newest, x), Coming(x))
        /\ Rises(r, k, Coming(x), last[x])
        /\ Rises(k, made[x], last[x], phase[x])
  BY <1>1 DEF Ahead
<1>3. /\ made[x] \in Nat /\ made'[x] \in Nat
      /\ Rises(made[x], made'[x], phase[x], phase'[x])
  BY PhaseRises
<1>4. Rises(k, made'[x], last[x], phase'[x])
  BY <1>2, <1>3, RisesOn
<1>5. CASE G!Others \/ G!Watching \/ G!Tick \/ UNCHANGED signalVars
  <2>1. UNCHANGED <<look, todo, rows, last, queue, listed, said>>
    BY <1>5, OutsideLooks
  <2>2. Before(x, a)'
    BY <1>1, <2>1, SameBefore
  <2>3. Says(Newest, x)' = Says(Newest, x) /\ Coming(x)' = Coming(x) /\ last'[x] = last[x]
    BY <2>1 DEF Newest, Nth, Coming, Says
  <2>4. Ahead(x, a)'
    BY <1>2, <1>4, <2>3 DEF Ahead
  <2>5. QED
    BY <2>2, <2>4
<1>6. CASE G!List
  <2>1. UNCHANGED <<queue, listed, said>> /\ look = "resting" /\ look' # "resting"
    BY <1>6 DEF G!List, G!On
  <2>2. Before(x, a)'
    BY <1>1, <2>1, SameBefore
  <2>3. Says(Newest, x)' = Says(Newest, x) /\ Coming(x) = Says(Newest, x)
    BY <2>1 DEF Newest, Nth, Coming, Says
  <2>4. CASE x \in G!Listening
    <3>1. x \in todo' /\ last'[x] = last[x]
      BY <1>6, <2>4 DEF G!List
    <3>2. Coming(x)' = Coming(x)
      BY <2>3, <3>1 DEF Coming
    <3>3. Ahead(x, a)'
      BY <1>2, <1>4, <2>3, <3>1, <3>2 DEF Ahead
    <3>4. QED
      BY <2>2, <3>3
  <2>5. CASE x \notin G!Listening
    <3>1. x \notin todo' /\ last'[x] = NoPhase /\ rows' = <<>> /\ phase'[x] = phase[x]
      BY <1>6, <2>5 DEF G!List, G!Empty
    <3>2. phase'[x] = NoPhase
      BY <2>5, <3>1 DEF SigPlain, G!Listening
    <3>3. Coming(x)' = NoPhase
      <4>1. Says(rows', x) = NoPhase
        BY <3>1, EmptySheet
      <4>2. Says(rows, x)' = NoPhase
        BY <4>1 DEF Says
      <4>3. QED
        BY <2>1, <3>1, <4>2 DEF Coming
    <3>4. Rises(a, a, Says(Newest, x)', Coming(x)') /\ Rises(a, a, Coming(x)', last'[x])
      BY <3>1, <3>3 DEF Rises
    <3>5. Rises(a, made'[x], last'[x], phase'[x])
      BY <1>2, <1>3, <3>2 DEF Rises
    <3>6. Ahead(x, a)'
      BY <3>4, <3>5 DEF Ahead
    <3>7. QED
      BY <2>2, <3>6
  <2>6. QED
    BY <2>4, <2>5
<1>7. CASE G!Answer \/ G!Silent
  <2>1. UNCHANGED <<queue, listed, said, rows, todo, made, phase>> /\ look # "resting" /\ look' # "resting"
    BY <1>7 DEF G!Answer, G!Silent, G!world, G!ghosts
  <2>2. Before(x, a)'
    BY <1>1, <2>1, SameBefore
  <2>3. Says(Newest, x)' = Says(Newest, x) /\ Coming(x)' = Coming(x)
    BY <2>1 DEF Newest, Nth, Coming, Says
  <2>4. CASE last'[x] = last[x]
    <3>1. Ahead(x, a)'
      BY <1>2, <1>4, <2>3, <2>4 DEF Ahead
    <3>2. QED
      BY <2>2, <3>1
  <2>5. CASE last'[x] # last[x]
    <3>1. last'[x] = phase[x]
      BY <1>7, <2>5 DEF G!Answer, G!Silent, SigShape, PollerTyped
    <3>2. Rises(r, made[x], Coming(x), phase[x])
      BY <1>2, <1>3, RisesOn
    <3>3. Rises(made[x], made'[x], last'[x], phase'[x])
      BY <1>3, <2>1, <3>1 DEF Rises
    <3>4. Ahead(x, a)'
      BY <1>2, <1>3, <2>3, <3>1, <3>2, <3>3 DEF Ahead
    <3>5. QED
      BY <2>2, <3>4
  <2>6. QED
    BY <2>4, <2>5
<1>8. CASE G!Read
  <2>1. UNCHANGED <<queue, listed, said, last>> /\ look = "reading" /\ look' # "resting"
        /\ todo' = todo \ {G!Next1}
    BY <1>8 DEF G!Read, G!On
  <2>2. Before(x, a)'
    BY <1>1, <2>1, SameBefore
  <2>3. Says(Newest, x)' = Says(Newest, x) /\ last'[x] = last[x]
    BY <2>1 DEF Newest, Nth, Says
  <2>4. G!Next1 \in todo /\ got = last[G!Next1]
    BY <2>1, NextOne DEF SigShape, PollerTyped
  <2>5. CASE x = G!Next1
    <3>1. Coming(x) = Says(Newest, x) /\ x \notin todo'
      BY <2>1, <2>4, <2>5 DEF Coming
    <3>2. Says(rows, x)' = last[x]
      <4>1. x \in DOMAIN rows' /\ rows'[x] = [child |-> x \in mine, phase |-> got]
        BY <1>8, <2>5 DEF G!Read
      <4>2. QED
        BY <2>4, <2>5, <4>1 DEF Says
    <3>3. Coming(x)' = last[x]
      BY <2>1, <3>1, <3>2 DEF Coming
    <3>4. Rises(a, k, Says(Newest, x)', Coming(x)')
      BY <1>2, <2>3, <3>1, <3>3, RisesOn
    <3>5. Rises(k, k, Coming(x)', last'[x])
      BY <2>3, <3>3 DEF Rises
    <3>6. Ahead(x, a)'
      BY <1>2, <1>4, <2>3, <3>4, <3>5 DEF Ahead
    <3>7. QED
      BY <2>2, <3>6
  <2>6. CASE x # G!Next1
    <3>1. x \in todo' <=> x \in todo
      BY <2>1, <2>6
    <3>2. Says(rows, x)' = Says(rows, x)
      <4>1. DOMAIN rows' = DOMAIN rows \cup {G!Next1} /\ (x \in DOMAIN rows => rows'[x] = rows[x])
        BY <1>8, <2>6 DEF G!Read
      <4>2. QED
        BY <2>6, <4>1 DEF Says
    <3>3. Coming(x)' = Coming(x)
      BY <2>1, <2>3, <3>1, <3>2 DEF Coming
    <3>4. Ahead(x, a)'
      BY <1>2, <1>4, <2>3, <3>3 DEF Ahead
    <3>5. QED
      BY <2>2, <3>4
  <2>7. QED
    BY <2>5, <2>6
<1>9. CASE G!Send
  <2>1. look = "sending" /\ look' = "resting" /\ last' = last /\ todo = {}
    BY <1>9 DEF G!Send, SigShape, PollerTyped
  <2>2. Coming(x) = Says(rows, x)
    BY <2>1 DEF Coming
  <2>3. Before(x, r)'
    BY <1>1, <1>2, <1>9, <2>2, SentBefore
  <2>4. Newest' = rows
    BY <1>9, NthSent DEF G!Send, SigShape, RostersTyped, PollerTyped
  <2>5. Says(Newest, x)' = Says(rows, x) /\ Coming(x)' = Says(rows, x)
    BY <2>1, <2>4 DEF Coming, Says
  <2>6. Rises(r, r, Says(Newest, x)', Coming(x)') /\ Rises(r, k, Coming(x)', last'[x])
    BY <1>2, <2>1, <2>2, <2>5 DEF Rises
  <2>7. Ahead(x, r)'
    BY <1>2, <1>4, <2>1, <2>6 DEF Ahead
  <2>8. QED
    BY <2>3, <2>7
<1>10. CASE G!Take
  <2>1. Before(x, a)'
    BY <1>1, <1>10, TakenBefore
  <2>2. UNCHANGED <<look, todo, rows, last>>
    BY <1>10 DEF G!Take, G!poller
  <2>3. Newest' = Newest
    BY <1>10, NthTaken DEF G!Take, SigShape, RostersTyped
  <2>4. Says(Newest, x)' = Says(Newest, x) /\ Coming(x)' = Coming(x)
    BY <2>2, <2>3 DEF Coming, Says
  <2>5. Ahead(x, a)'
    BY <1>2, <1>4, <2>2, <2>4 DEF Ahead
  <2>6. QED
    BY <2>1, <2>5
<1>11. QED
  BY <1>5, <1>6, <1>7, <1>8, <1>9, <1>10 DEF G!Next, G!Poll, G!Loop

\* No more phases were said than entered.
LEMMA CountedSaid == SigShape /\ PhasesCounted => G!OnlyRealChanges
<1> SUFFICES ASSUME SigShape, PhasesCounted, NEW x \in Peers
             PROVE  said[x] <= made[x]
  BY DEF G!OnlyRealChanges
<1>1. PICK a \in Nat : Before(x, a) /\ Ahead(x, a)
  BY DEF PhasesCounted
<1>2. PICK steps \in [0..Len(queue) -> Nat] :
        /\ said[x] <= steps[0] /\ steps[Len(queue)] = a
        /\ \A i \in 1..Len(queue) : Rises(steps[i - 1], steps[i], Says(Nth(i - 1), x), Says(Nth(i), x))
  BY <1>1 DEF Before
<1>3. Len(queue) \in Nat /\ said[x] \in Nat /\ made[x] \in Nat
  BY DEF SigShape, RostersTyped, PeersTyped
<1> DEFINE n == Len(queue)
           Higher == {i \in 0..n : steps[i] < said[x]}
<1>4. \A i \in 1..n : steps[i - 1] <= steps[i]
  BY <1>2 DEF Rises
<1>5. Higher = {}
  <2>1. SUFFICES ASSUME Higher # {}
                 PROVE  FALSE
    OBVIOUS
  <2>2. Higher \in SUBSET Nat
    BY <1>3
  <2>3. PICK i \in Higher : \A j \in Higher : i <= j
    <3> HIDE DEF Higher
    <3>1. QED
      BY <2>1, <2>2, LeastNat
  <2>4. i # 0
    BY <1>2, <1>3, <2>3
  <2>5. i \in 1..n /\ i - 1 \in 0..n /\ i - 1 < i
    BY <1>3, <2>3, <2>4
  <2>6. steps[i - 1] \in Nat /\ steps[i] \in Nat /\ steps[i - 1] <= steps[i] /\ steps[i] < said[x]
    BY <1>2, <1>4, <2>3, <2>5
  <2>7. i - 1 \in Higher
    BY <1>3, <2>5, <2>6
  <2>8. QED
    BY <2>3, <2>5, <2>7
<1>6. said[x] <= a
  <2>1. n \in 0..n
    BY <1>3
  <2>2. steps[n] \in Nat /\ ~(steps[n] < said[x])
    BY <1>2, <1>5, <2>1
  <2>3. QED
    BY <1>2, <1>3, <2>2
<1>7. a <= made[x]
  BY <1>1, <1>3 DEF Ahead, Rises
<1>8. QED
  BY <1>3, <1>6, <1>7

\* A session that comes up is told of by no roster; a note left by one that was there before names
\* a parent only until it comes up; of one whose phase is known, and that is up, there is one; and
\* one that rosters tell of is known, or is gone and not to be looked at.
Fresh(x) == life[x] = "coming" => last[x] = NoPhase /\ ~Appears(x)
Leftover(x) == x \in mine \ born => life[x] \in {"coming", "dead"} /\ last[x] = NoPhase
Speaks(x) == last[x] # NoPhase /\ life[x] = "up" => phase[x] # NoPhase
Looked(x) == Appears(x) => last[x] # NoPhase \/ x \notin G!Listening \cup todo
Known(x) == Fresh(x) /\ Leftover(x) /\ Speaks(x) /\ Looked(x)

\* Whom one roster says to be in a phase the next does not say to be in none.
Follows(sheet, later, x) == x \in DOMAIN later /\ Says(sheet, x) # NoPhase => Says(later, x) # NoPhase
Chain(x) ==
  /\ \A i \in 1..Len(queue) : Follows(Nth(i - 1), Nth(i), x)
  /\ Follows(Newest, rows, x)

\* Rosters that say which phase a session is in say whose child it is.
RightlyChild(sheet, x) == Says(sheet, x) # NoPhase => (sheet[x].child <=> x \in born)
Whose(x) == (\A i \in 0..Len(queue) : RightlyChild(Nth(i), x)) /\ RightlyChild(rows, x)

\* Who was last said to be at work is shown so, and is waited for.
AtWork(x) ==
  signal[x] \in Phases \ G!Over =>
    /\ x \in DOMAIN listed /\ listed[x].phase = signal[x]
    /\ x = above \/ x \in watched \/ x \in born

Marked == \A x \in Peers \ excused : Known(x) /\ Chain(x)
WaitedFor == \A x \in Peers \ (excused \cup torn) : Whose(x) /\ AtWork(x)

\* Only a look at the notes of a name makes a roster say more of it, and then what was known.
LEMMA AppearsLess ==
  ASSUME SigShape, [G!Next]_signalVars, NEW x \in Peers, Appears(x)'
  PROVE  Appears(x) \/ (G!Read /\ x = G!Next1 /\ last[x] # NoPhase)
<1>0. Len(queue) \in Nat
  BY DEF SigShape, RostersTyped
<1>1. CASE UNCHANGED <<queue, listed, rows>>
  BY <1>1 DEF Appears, Nth, Says
<1>2. CASE G!Others \/ G!Watching \/ G!Tick \/ UNCHANGED signalVars
  BY <1>1, <1>2, OutsideLooks
<1>3. CASE G!Answer \/ G!Silent
  BY <1>1, <1>3 DEF G!Answer, G!Silent
<1>4. CASE G!List
  <2>1. queue' = queue /\ listed' = listed /\ rows' = <<>>
    BY <1>4 DEF G!List, G!Empty
  <2>2. Says(rows, x)' = NoPhase
    BY <2>1, EmptySheet DEF Says
  <2>3. QED
    BY <2>1, <2>2 DEF Appears, Nth, Says
<1>5. CASE G!Read
  <2>1. /\ queue' = queue /\ listed' = listed
        /\ rows' = [y \in DOMAIN rows \cup {G!Next1} |->
                      IF y = G!Next1 THEN [child |-> y \in mine, phase |-> got] ELSE rows[y]]
        /\ look = "reading"
    BY <1>5 DEF G!Read
  <2>2. got = last[G!Next1]
    BY <2>1 DEF SigShape, PollerTyped
  <2>3. CASE x = G!Next1
    <3>1. Says(rows, x)' = last[x]
      <4>1. x \in DOMAIN rows' /\ rows'[x] = [child |-> x \in mine, phase |-> got]
        BY <2>1, <2>3
      <4>2. QED
        BY <2>2, <2>3, <4>1 DEF Says
    <3>2. QED
      BY <1>5, <2>1, <2>3, <3>1 DEF Appears, Nth, Says
  <2>4. CASE x # G!Next1
    <3>1. Says(rows, x)' = Says(rows, x)
      <4>1. DOMAIN rows' = DOMAIN rows \cup {G!Next1} /\ (x \in DOMAIN rows => rows'[x] = rows[x])
        BY <2>1, <2>4
      <4>2. QED
        BY <2>4, <4>1 DEF Says
    <3>2. QED
      BY <2>1, <3>1 DEF Appears, Nth, Says
  <2>5. QED
    BY <2>3, <2>4
<1>6. CASE G!Send
  <2>1. queue' = Append(queue, rows) /\ listed' = listed /\ rows' = <<>>
    BY <1>6 DEF G!Send, G!Empty
  <2>2. /\ Len(queue') = Len(queue) + 1
        /\ \A i \in 0..Len(queue) : Nth(i)' = Nth(i)
        /\ \A i \in Nat : i = Len(queue) + 1 => Nth(i)' = rows
    BY <2>1, NthSent DEF SigShape, RostersTyped, PollerTyped
  <2>3. Says(rows, x)' = NoPhase
    BY <2>1, EmptySheet DEF Says
  <2>4. PICK i \in 0..Len(queue') : Says(Nth(i), x)' # NoPhase
    BY <2>3 DEF Appears
  <2>5. Says(Nth(i), x)' = Says(Nth(i)', x)
    BY DEF Says
  <2>6. CASE i = Len(queue) + 1
    BY <1>0, <2>2, <2>4, <2>5, <2>6 DEF Appears
  <2>7. CASE i # Len(queue) + 1
    <3>1. i \in 0..Len(queue)
      BY <1>0, <2>2, <2>7
    <3>2. QED
      BY <2>2, <2>4, <2>5, <3>1 DEF Appears
  <2>8. QED
    BY <2>6, <2>7
<1>7. CASE G!Take
  <2>1. queue # <<>> /\ queue' = Tail(queue) /\ listed' = Head(queue) /\ rows' = rows
    BY <1>7 DEF G!Take, G!poller
  <2>2. Len(queue') = Len(queue) - 1 /\ \A i \in 0..Len(queue) - 1 : Nth(i)' = Nth(i + 1)
    BY <2>1, NthTaken DEF SigShape, RostersTyped
  <2>3. Says(rows, x)' = Says(rows, x)
    BY <2>1 DEF Says
  <2>4. ASSUME NEW i \in 0..Len(queue'), Says(Nth(i), x)' # NoPhase
        PROVE  Appears(x)
    <3>1. i \in 0..Len(queue) - 1 /\ i + 1 \in 0..Len(queue)
      BY <1>0, <2>2
    <3>2. Says(Nth(i), x)' = Says(Nth(i)', x)
      BY DEF Says
    <3>3. QED
      BY <2>2, <2>4, <3>1, <3>2 DEF Appears
  <2>5. QED
    BY <2>3, <2>4 DEF Appears
<1>8. QED
  BY <1>2, <1>3, <1>4, <1>5, <1>6, <1>7 DEF G!Next, G!Poll, G!Loop

\* A name that nothing happens to stays known.
LEMMA Untouched ==
  ASSUME NEW x \in Peers, Known(x),
         life'[x] = life[x], phase'[x] = phase[x], last'[x] = last[x],
         x \in mine' <=> x \in mine, x \in born' <=> x \in born, x \in todo' <=> x \in todo,
         Appears(x)' => Appears(x)
  PROVE  Known(x)'
<1>1. x \in G!Listening' <=> x \in G!Listening
  BY DEF G!Listening
<1>2. Fresh(x)' /\ Leftover(x)' /\ Speaks(x)'
  BY DEF Known, Fresh, Leftover, Speaks
<1>3. Looked(x)'
  BY <1>1 DEF Known, Looked
<1>4. QED
  BY <1>2, <1>3 DEF Known

\* A name that is not shown is known to nobody.
LEMMA NotShown ==
  ASSUME SigShape, SigPlain, NEW x \in Peers, x \notin G!Shown
  PROVE  ~Appears(x) /\ x \notin todo /\ last[x] = NoPhase /\ x \notin DOMAIN listed
<1>1. /\ x \notin DOMAIN listed /\ x \notin DOMAIN rows /\ x \notin todo
      /\ \A i \in DOMAIN queue : x \notin DOMAIN queue[i]
  BY DEF G!Shown
<1>2. Len(queue) \in Nat /\ DOMAIN queue = 1..Len(queue)
  BY DEF SigShape, RostersTyped
<1>3. \A i \in 0..Len(queue) : x \notin DOMAIN Nth(i)
  <2>1. \A i \in 0..Len(queue) : i # 0 => i \in DOMAIN queue
    BY <1>2
  <2>2. QED
    BY <1>1, <2>1 DEF Nth
<1>4. ~Appears(x)
  BY <1>1, <1>3 DEF Appears, Says
<1>5. x \notin DOMAIN Newest
  BY <1>2, <1>3 DEF Newest
<1>6. last[x] = NoPhase
  BY <1>1, <1>5 DEF SigPlain
<1>7. QED
  BY <1>1, <1>4, <1>6

\* What others do to a name leaves it known, unless it passes on.
LEMMA OthersKnown ==
  ASSUME SigShape, SigPlain, G!Others, NEW x \in Peers, x \notin excused', Known(x)
  PROVE  Known(x)'
<1>0. /\ life \in [Peers -> {"none", "coming", "up", "leaving", "dead"}]
      /\ phase \in [Peers -> Spoken] /\ NoPhase \notin Phases
      /\ UNCHANGED <<todo, last>>
  BY SigConstants, OutsideLooks DEF SigShape, PeersTyped
<1>1. Appears(x)' => Appears(x)
  <2>1. ~G!Read
    BY OutsideLooks DEF G!Read, G!On
  <2>2. G!Next
    BY DEF G!Next
  <2>3. QED
    BY <2>1, <2>2, AppearsLess
<1>2. PICK y \in Peers : \/ G!Start(y) \/ G!Announce(y) \/ G!Enter(y) \/ G!Graft(y) \/ G!Forget(y)
                         \/ G!Release(y) \/ G!Kill(y) \/ G!Sweep(y) \/ G!Adopted(y)
  BY DEF G!Others
<1>3. CASE x # y \/ G!Adopted(y)
  <2>1. /\ life'[x] = life[x] /\ phase'[x] = phase[x]
        /\ (x \in mine' <=> x \in mine) /\ (x \in born' <=> x \in born)
    BY <1>0, <1>2, <1>3 DEF G!Start, G!Announce, G!Enter, G!Graft, G!Forget, G!Release, G!Kill,
                            G!Sweep, G!Adopted, G!ghosts
  <2>2. QED
    BY <1>0, <1>1, <2>1, Untouched
<1>4. ASSUME x = y
      PROVE  x \in G!Listening' <=> life'[x] \in {"coming", "up", "leaving"}
  BY DEF G!Listening
<1>5. CASE x = y /\ G!Start(x)
  <2>1. x \notin G!Shown
    BY <1>5 DEF G!Start
  <2>2. ~Appears(x)' /\ last'[x] = NoPhase
    BY <1>0, <1>1, <2>1, NotShown
  <2>3. life'[x] = "coming"
    BY <1>0, <1>5 DEF G!Start
  <2>4. QED
    BY <2>2, <2>3 DEF Known, Fresh, Leftover, Speaks, Looked
<1>6. CASE x = y /\ G!Announce(x)
  <2>1. life[x] = "coming" /\ life'[x] = "up" /\ (x \in mine' => x \in born')
    BY <1>0, <1>6 DEF G!Announce
  <2>2. last'[x] = NoPhase /\ ~Appears(x)'
    BY <1>0, <1>1, <2>1 DEF Known, Fresh
  <2>3. QED
    BY <2>1, <2>2 DEF Known, Fresh, Leftover, Speaks, Looked
<1>7. CASE x = y /\ G!Enter(x)
  <2>1. life' = life /\ mine' = mine /\ born' = born /\ life[x] = "up" /\ phase'[x] \in Phases
    BY <1>0, <1>7 DEF G!Enter
  <2>2. Fresh(x)' /\ Leftover(x)' /\ Speaks(x)'
    BY <1>0, <2>1 DEF Known, Fresh, Leftover, Speaks
  <2>3. Looked(x)'
    BY <1>0, <1>1, <2>1 DEF Known, Looked, G!Listening
  <2>4. QED
    BY <2>2, <2>3 DEF Known
<1>8. CASE x = y /\ G!Graft(x)
  BY <1>8 DEF G!Graft
<1>9. CASE x = y /\ (G!Forget(x) \/ G!Release(x) \/ G!Kill(x) \/ G!Sweep(x))
  <2>1. /\ born' = born /\ mine' \subseteq mine /\ phase'[x] \in {phase[x], NoPhase}
        /\ \/ life[x] = "up" /\ life'[x] = "leaving" /\ x \notin mine'
           \/ life[x] = "leaving" /\ life'[x] = "none"
           \/ x \in G!Listening /\ life'[x] = "dead"
           \/ life[x] = "dead" /\ life'[x] = "none" /\ x \notin mine'
    BY <1>0, <1>9 DEF G!Forget, G!Release, G!Kill, G!Sweep, G!ghosts
  <2>2. Fresh(x)' /\ Leftover(x)' /\ Speaks(x)'
    BY <1>0, <2>1 DEF Known, Fresh, Leftover, Speaks
  <2>3. x \in G!Listening' => x \in G!Listening
    BY <2>1 DEF G!Listening
  <2>4. Looked(x)'
    BY <1>0, <1>1, <2>3 DEF Known, Looked
  <2>5. QED
    BY <2>2, <2>4 DEF Known
<1>10. QED
  BY <1>2, <1>3, <1>5, <1>6, <1>7, <1>8, <1>9

\* Names stay known.
LEMMA StepKnown ==
  ASSUME SigShape, SigPlain, [G!Next]_signalVars, NEW x \in Peers, x \notin excused', Known(x)
  PROVE  Known(x)'
<1>1. CASE G!Others
  BY <1>1, OthersKnown
<1>2. CASE G!Watching \/ G!Tick \/ G!Silent \/ G!Send \/ G!Take \/ UNCHANGED signalVars
  <2>1. UNCHANGED <<life, phase, mine, born, todo, last>>
    BY <1>2 DEF G!Watching, G!ReadWatches, G!WriteWatches, G!Tick, G!Silent, G!Send, G!Take,
                G!world, G!poller, G!ghosts, signalVars
  <2>2. CASE ~G!Read
    BY <2>1, <2>2, AppearsLess, Untouched
  <2>3. CASE G!Read
    BY <2>3, <2>1, NextOne DEF G!Read, SigShape, PollerTyped
  <2>4. QED
    BY <2>2, <2>3
<1>3. CASE G!List
  <2>1. Appears(x)' => Appears(x)
    BY <1>3, AppearsLess DEF G!List, G!Read
  <2>2. /\ todo' = G!Listening /\ mine' = mine \cap G!Listening /\ phase' = phase /\ born' = born
        /\ life'[x] = (IF life[x] = "dead" THEN "none" ELSE life[x])
        /\ last'[x] = (IF x \in G!Listening THEN last[x] ELSE NoPhase)
    BY <1>3 DEF G!List, G!ghosts
  <2>3. life \in [Peers -> {"none", "coming", "up", "leaving", "dead"}]
    BY DEF SigShape, PeersTyped
  <2>4. (x \in G!Listening <=> life[x] \in {"coming", "up", "leaving"})
        /\ (x \in G!Listening' <=> life'[x] \in {"coming", "up", "leaving"})
    BY DEF G!Listening
  <2>5. Fresh(x)' /\ Leftover(x)' /\ Speaks(x)'
    BY <2>1, <2>2, <2>3, <2>4 DEF Known, Fresh, Leftover, Speaks
  <2>6. Looked(x)'
    BY <2>1, <2>2, <2>3, <2>4 DEF Known, Looked
  <2>7. QED
    BY <2>5, <2>6 DEF Known
<1>4. CASE G!Answer
  <2>1. /\ look = "dialling" /\ look' = "reading" /\ life[G!Next1] = "up"
        /\ UNCHANGED <<life, phase, mine, born, todo>>
        /\ last' = [last EXCEPT ![G!Next1] = phase[G!Next1]]
    BY <1>4 DEF G!Answer, G!world, G!ghosts
  <2>2. Appears(x)' => Appears(x)
    BY <2>1, AppearsLess DEF G!Read
  <2>3. G!Next1 \in todo /\ last \in [Peers -> Spoken]
    BY <2>1, NextOne DEF SigShape, PollerTyped
  <2>4. CASE x # G!Next1
    <3>1. last'[x] = last[x]
      BY <2>1, <2>4
    <3>2. QED
      BY <2>1, <2>2, <3>1, Untouched
  <2>5. CASE x = G!Next1
    <3>1. last'[x] = phase[x] /\ life[x] = "up"
      BY <2>1, <2>3, <2>5
    <3>2. Fresh(x)' /\ Leftover(x)' /\ Speaks(x)'
      BY <2>1, <3>1 DEF Known, Fresh, Leftover, Speaks
    <3>3. Looked(x)'
      <4>1. Appears(x) => last[x] # NoPhase
        BY <2>3, <2>5 DEF Known, Looked
      <4>2. last[x] # NoPhase => phase[x] # NoPhase
        BY <3>1 DEF Known, Speaks
      <4>3. QED
        BY <2>2, <3>1, <4>1, <4>2 DEF Looked
    <3>4. QED
      BY <3>2, <3>3 DEF Known
  <2>6. QED
    BY <2>4, <2>5
<1>5. CASE G!Read
  <2>1. /\ look = "reading" /\ UNCHANGED <<life, phase, mine, born, last>>
        /\ todo' = todo \ {G!Next1}
    BY <1>5 DEF G!Read, G!world, G!ghosts
  <2>2. G!Next1 \in todo
    BY <2>1, NextOne DEF SigShape, PollerTyped
  <2>3. CASE x # G!Next1
    <3>1. Appears(x)' => Appears(x)
      BY <2>3, AppearsLess
    <3>2. x \in todo' <=> x \in todo
      BY <2>1, <2>3
    <3>3. QED
      BY <2>1, <3>1, <3>2, Untouched
  <2>4. CASE x = G!Next1
    <3>1. Appears(x)' => Appears(x) \/ last[x] # NoPhase
      BY AppearsLess
    <3>2. Appears(x) => last[x] # NoPhase
      BY <2>2, <2>4 DEF Known, Looked
    <3>3. Fresh(x)' /\ Leftover(x)' /\ Speaks(x)' /\ Looked(x)'
      BY <2>1, <3>1, <3>2 DEF Known, Fresh, Leftover, Speaks, Looked
    <3>4. QED
      BY <3>3 DEF Known
  <2>5. QED
    BY <2>3, <2>4
<1>6. QED
  BY <1>1, <1>2, <1>3, <1>4, <1>5 DEF G!Next, G!Poll, G!Loop

\* What the rosters say of a name stays a chain.
LEMMA StepChain ==
  ASSUME SigShape, [G!Next]_signalVars, NEW x \in Peers, Known(x), Chain(x)
  PROVE  Chain(x)'
<1>0. Len(queue) \in Nat
  BY DEF SigShape, RostersTyped
<1>1. CASE UNCHANGED <<queue, listed, rows>>
  BY <1>1 DEF Chain, Follows, Newest, Nth, Says
<1>2. CASE G!Others \/ G!Watching \/ G!Tick \/ G!Answer \/ G!Silent \/ UNCHANGED signalVars
  <2>1. UNCHANGED <<queue, listed, rows>>
    BY <1>2, OutsideLooks DEF G!Answer, G!Silent
  <2>2. QED
    BY <1>1, <2>1
<1>3. CASE G!List
  <2>1. queue' = queue /\ listed' = listed /\ rows' = <<>>
    BY <1>3 DEF G!List, G!Empty
  <2>2. Follows(Newest, rows, x)'
    BY <2>1, EmptySheet DEF Follows
  <2>3. \A i \in 1..Len(queue) : Follows(Nth(i - 1), Nth(i), x)'
    BY <2>1 DEF Chain, Follows, Nth, Says
  <2>4. QED
    BY <2>1, <2>2, <2>3 DEF Chain
<1>4. CASE G!Read
  <2>1. /\ queue' = queue /\ listed' = listed /\ look = "reading"
        /\ rows' = [y \in DOMAIN rows \cup {G!Next1} |->
                      IF y = G!Next1 THEN [child |-> y \in mine, phase |-> got] ELSE rows[y]]
    BY <1>4 DEF G!Read
  <2>2. got = last[G!Next1] /\ G!Next1 \in todo
    BY <2>1, NextOne DEF SigShape, PollerTyped
  <2>3. \A i \in 1..Len(queue) : Follows(Nth(i - 1), Nth(i), x)'
    BY <2>1 DEF Chain, Follows, Nth, Says
  <2>4. Says(Newest, x)' = Says(Newest, x)
    BY <2>1 DEF Newest, Nth, Says
  <2>5. Follows(Newest, rows, x)'
    <3>1. CASE x = G!Next1
      <4>1. Says(rows, x)' = last[x]
        <5>1. x \in DOMAIN rows' /\ rows'[x] = [child |-> x \in mine, phase |-> got]
          BY <2>1, <3>1
        <5>2. QED
          BY <2>2, <3>1, <5>1 DEF Says
      <4>2. Says(Newest, x) # NoPhase => Appears(x)
        BY <1>0 DEF Appears, Newest
      <4>3. QED
        BY <2>2, <2>4, <3>1, <4>1, <4>2 DEF Follows, Known, Looked
    <3>2. CASE x # G!Next1
      <4>1. /\ DOMAIN rows' = DOMAIN rows \cup {G!Next1}
            /\ x \in DOMAIN rows => rows'[x] = rows[x]
        BY <2>1, <3>2
      <4>2. Says(rows, x)' = Says(rows, x) /\ (x \in DOMAIN rows' <=> x \in DOMAIN rows)
        BY <3>2, <4>1 DEF Says
      <4>3. QED
        BY <2>4, <4>2 DEF Chain, Follows
    <3>3. QED
      BY <3>1, <3>2
  <2>6. QED
    BY <2>1, <2>3, <2>5 DEF Chain
<1>5. CASE G!Send
  <2>1. queue' = Append(queue, rows) /\ listed' = listed /\ rows' = <<>>
    BY <1>5 DEF G!Send, G!Empty
  <2>2. /\ Len(queue') = Len(queue) + 1
        /\ \A i \in 0..Len(queue) : Nth(i)' = Nth(i)
        /\ \A i \in Nat : i = Len(queue) + 1 => Nth(i)' = rows
    BY <2>1, NthSent DEF SigShape, RostersTyped, PollerTyped
  <2>3. Follows(Newest, rows, x)'
    BY <2>1, EmptySheet DEF Follows
  <2>4. ASSUME NEW i \in 1..Len(queue')
        PROVE  Follows(Nth(i - 1), Nth(i), x)'
    <3>1. i \in Nat /\ i - 1 \in 0..Len(queue) /\ Nth(i - 1)' = Nth(i - 1)
      BY <1>0, <2>2
    <3>2. CASE i = Len(queue) + 1
      <4>1. i - 1 = Len(queue) /\ Nth(i)' = rows
        BY <1>0, <2>2, <3>1, <3>2
      <4>2. Follows(Nth(i - 1), rows, x)
        BY <4>1 DEF Chain, Newest
      <4>3. QED
        BY <3>1, <4>1, <4>2 DEF Follows, Says
    <3>3. CASE i # Len(queue) + 1
      <4>1. i \in 1..Len(queue)
        BY <1>0, <2>2, <3>3
      <4>2. Nth(i)' = Nth(i)
        BY <2>2, <4>1
      <4>3. Follows(Nth(i - 1), Nth(i), x)
        BY <4>1 DEF Chain
      <4>4. QED
        BY <3>1, <4>2, <4>3 DEF Follows, Says
    <3>4. QED
      BY <3>2, <3>3
  <2>5. QED
    BY <2>3, <2>4 DEF Chain
<1>6. CASE G!Take
  <2>1. queue # <<>> /\ queue' = Tail(queue) /\ listed' = Head(queue) /\ rows' = rows
    BY <1>6 DEF G!Take, G!poller
  <2>2. /\ Len(queue') = Len(queue) - 1 /\ \A i \in 0..Len(queue) - 1 : Nth(i)' = Nth(i + 1)
        /\ Newest' = Newest
    BY <2>1, NthTaken DEF SigShape, RostersTyped
  <2>3. Follows(Newest, rows, x)'
    BY <2>1, <2>2 DEF Chain, Follows, Says
  <2>4. ASSUME NEW i \in 1..Len(queue')
        PROVE  Follows(Nth(i - 1), Nth(i), x)'
    <3>1. /\ i \in 0..Len(queue) - 1 /\ i - 1 \in 0..Len(queue) - 1 /\ (i - 1) + 1 = i
          /\ i + 1 \in 1..Len(queue) /\ (i + 1) - 1 = i
      BY <1>0, <2>2
    <3>2. Nth(i)' = Nth(i + 1) /\ Nth(i - 1)' = Nth(i)
      BY <2>2, <3>1
    <3>3. Follows(Nth(i), Nth(i + 1), x)
      BY <3>1 DEF Chain
    <3>4. QED
      BY <3>2, <3>3 DEF Follows, Says
  <2>5. QED
    BY <2>3, <2>4 DEF Chain
<1>7. QED
  BY <1>2, <1>3, <1>4, <1>5, <1>6 DEF G!Next, G!Poll, G!Loop

\* Rosters say rightly whose child a session is, but where it went while its notes were looked at.
LEMMA StepWhose ==
  ASSUME SigShape, SigPlain, [G!Next]_signalVars, NEW x \in Peers, x \notin excused', x \notin torn',
         Known(x), Whose(x)
  PROVE  Whose(x)'
<1>0. Len(queue) \in Nat
  BY DEF SigShape, RostersTyped
<1>1. ~Appears(x)' => Whose(x)'
  BY DEF Appears, Whose, RightlyChild
<1>2. CASE UNCHANGED <<queue, listed, rows>> /\ (x \in born' <=> x \in born)
  BY <1>2 DEF Whose, RightlyChild, Nth, Says
<1>3. CASE G!Others
  <2>1. UNCHANGED <<queue, listed, rows>> /\ (Appears(x)' <=> Appears(x))
    BY <1>3, OutsideLooks DEF Appears, Nth, Says
  <2>2. PICK y \in Peers : \/ G!Start(y) \/ G!Announce(y) \/ G!Enter(y) \/ G!Graft(y) \/ G!Forget(y)
                           \/ G!Release(y) \/ G!Kill(y) \/ G!Sweep(y) \/ G!Adopted(y)
    BY <1>3 DEF G!Others
  <2>3. CASE x = y /\ G!Start(y)
    <3>1. x \notin G!Shown
      BY <2>3 DEF G!Start
    <3>2. QED
      BY <1>1, <2>1, <3>1, NotShown
  <2>4. CASE x = y /\ G!Announce(y)
    <3>1. life[x] = "coming"
      BY <2>4 DEF G!Announce
    <3>2. QED
      BY <1>1, <2>1, <3>1 DEF Known, Fresh
  <2>5. CASE ~(x = y /\ (G!Start(y) \/ G!Announce(y)))
    <3>1. x \in born' <=> x \in born
      BY <2>2, <2>5 DEF G!Start, G!Announce, G!Enter, G!Graft, G!Forget, G!Release, G!Kill,
                        G!Sweep, G!Adopted, G!ghosts
    <3>2. QED
      BY <1>2, <2>1, <3>1
  <2>6. QED
    BY <2>3, <2>4, <2>5
<1>4. CASE G!Watching \/ G!Tick \/ G!Answer \/ G!Silent \/ UNCHANGED signalVars
  <2>1. UNCHANGED <<queue, listed, rows, born>>
    BY <1>4 DEF G!Watching, G!ReadWatches, G!WriteWatches, G!Tick, G!Answer, G!Silent, G!poller,
                G!ghosts, signalVars
  <2>2. QED
    BY <1>2, <2>1
<1>5. CASE G!List
  <2>1. queue' = queue /\ listed' = listed /\ rows' = <<>> /\ born' = born
    BY <1>5 DEF G!List, G!Empty, G!ghosts
  <2>2. RightlyChild(rows, x)'
    BY <2>1, EmptySheet DEF RightlyChild, Says
  <2>3. \A i \in 0..Len(queue) : RightlyChild(Nth(i), x)'
    BY <2>1 DEF Whose, RightlyChild, Nth, Says
  <2>4. QED
    BY <2>1, <2>2, <2>3 DEF Whose
<1>6. CASE G!Read
  <2>1. /\ queue' = queue /\ listed' = listed /\ born' = born /\ look = "reading"
        /\ rows' = [y \in DOMAIN rows \cup {G!Next1} |->
                      IF y = G!Next1 THEN [child |-> y \in mine, phase |-> got] ELSE rows[y]]
        /\ torn' = (IF G!Next1 \in born \ mine THEN torn \cup {G!Next1} ELSE torn)
    BY <1>6 DEF G!Read
  <2>2. got = last[G!Next1]
    BY <2>1 DEF SigShape, PollerTyped
  <2>3. \A i \in 0..Len(queue) : RightlyChild(Nth(i), x)'
    BY <2>1 DEF Whose, RightlyChild, Nth, Says
  <2>4. RightlyChild(rows, x)'
    <3>1. CASE x = G!Next1
      <4>1. rows'[x] = [child |-> x \in mine, phase |-> got] /\ x \in DOMAIN rows'
        BY <2>1, <3>1
      <4>2. (rows'[x].child <=> x \in mine) /\ rows'[x].phase = last[x]
        <5>1. rows'[x].child = (x \in mine)
          BY <4>1
        <5>2. rows'[x].phase = got
          BY <4>1
        <5>3. QED
          BY <2>2, <3>1, <5>1, <5>2
      <4>3. Says(rows, x)' = last[x]
        BY <4>1, <4>2 DEF Says
      <4>4. x \notin born \ mine
        BY <2>1, <3>1
      <4>5. last[x] # NoPhase => x \notin mine \ born
        BY DEF Known, Leftover
      <4>6. QED
        BY <2>1, <4>2, <4>3, <4>4, <4>5 DEF RightlyChild
    <3>2. CASE x # G!Next1
      <4>1. /\ DOMAIN rows' = DOMAIN rows \cup {G!Next1}
            /\ x \in DOMAIN rows => rows'[x] = rows[x]
        BY <2>1, <3>2
      <4>2. (x \in DOMAIN rows' <=> x \in DOMAIN rows) /\ RightlyChild(rows, x)
        BY <3>2, <4>1 DEF Whose
      <4>3. QED
        BY <2>1, <4>1, <4>2 DEF RightlyChild, Says
    <3>3. QED
      BY <3>1, <3>2
  <2>5. QED
    BY <2>1, <2>3, <2>4 DEF Whose
<1>7. CASE G!Send
  <2>1. queue' = Append(queue, rows) /\ listed' = listed /\ rows' = <<>> /\ born' = born
    BY <1>7 DEF G!Send, G!Empty, G!ghosts
  <2>2. /\ Len(queue') = Len(queue) + 1
        /\ \A i \in 0..Len(queue) : Nth(i)' = Nth(i)
        /\ \A i \in Nat : i = Len(queue) + 1 => Nth(i)' = rows
    BY <2>1, NthSent DEF SigShape, RostersTyped, PollerTyped
  <2>3. RightlyChild(rows, x)'
    BY <2>1, EmptySheet DEF RightlyChild, Says
  <2>4. ASSUME NEW i \in 0..Len(queue')
        PROVE  RightlyChild(Nth(i), x)'
    <3>1. CASE i = Len(queue) + 1
      <4>1. Nth(i)' = rows
        BY <1>0, <2>2, <3>1
      <4>2. QED
        BY <2>1, <4>1 DEF Whose, RightlyChild, Says
    <3>2. CASE i # Len(queue) + 1
      <4>1. i \in 0..Len(queue)
        BY <1>0, <2>2, <3>2
      <4>2. Nth(i)' = Nth(i) /\ RightlyChild(Nth(i), x)
        BY <2>2, <4>1 DEF Whose
      <4>3. QED
        BY <2>1, <4>2 DEF RightlyChild, Says
    <3>3. QED
      BY <3>1, <3>2
  <2>5. QED
    BY <2>3, <2>4 DEF Whose
<1>8. CASE G!Take
  <2>1. queue # <<>> /\ queue' = Tail(queue) /\ listed' = Head(queue) /\ rows' = rows /\ born' = born
    BY <1>8 DEF G!Take, G!poller, G!ghosts
  <2>2. Len(queue') = Len(queue) - 1 /\ \A i \in 0..Len(queue) - 1 : Nth(i)' = Nth(i + 1)
    BY <2>1, NthTaken DEF SigShape, RostersTyped
  <2>3. RightlyChild(rows, x)'
    BY <2>1 DEF Whose, RightlyChild, Says
  <2>4. ASSUME NEW i \in 0..Len(queue')
        PROVE  RightlyChild(Nth(i), x)'
    <3>1. i \in 0..Len(queue) - 1 /\ i + 1 \in 0..Len(queue)
      BY <1>0, <2>2
    <3>2. Nth(i)' = Nth(i + 1) /\ RightlyChild(Nth(i + 1), x)
      BY <2>2, <3>1 DEF Whose
    <3>3. QED
      BY <2>1, <3>2 DEF RightlyChild, Says
  <2>5. QED
    BY <2>3, <2>4 DEF Whose
<1>9. QED
  BY <1>3, <1>4, <1>5, <1>6, <1>7, <1>8 DEF G!Next, G!Poll, G!Loop

\* Who was last said to be at work stays shown so, and waited for.
LEMMA StepAtWork ==
  ASSUME SigShape, SigPlain, [G!Next]_signalVars, NEW x \in Peers, x \notin excused', x \notin torn',
         Chain(x), Whose(x), AtWork(x)
  PROVE  AtWork(x)'
<1>1. CASE /\ UNCHANGED <<signal, listed>>
           /\ x = above => x = above'
           /\ x \in watched => x \in watched'
           /\ x \in born => x \in born' \/ x \notin DOMAIN listed
  BY <1>1 DEF AtWork
<1>2. CASE G!Others
  <2>1. UNCHANGED <<signal, listed>>
    BY <1>2, OutsideLooks
  <2>2. UNCHANGED <<above, watched>>
    BY <1>2 DEF G!Others, G!Start, G!Announce, G!Enter, G!Graft, G!Forget, G!Release, G!Kill,
                G!Sweep, G!Adopted
  <2>3. x \in born => x \in born' \/ x \notin DOMAIN listed
    <3>1. PICK y \in Peers : \/ G!Start(y) \/ G!Announce(y) \/ G!Enter(y) \/ G!Graft(y) \/ G!Forget(y)
                             \/ G!Release(y) \/ G!Kill(y) \/ G!Sweep(y) \/ G!Adopted(y)
      BY <1>2 DEF G!Others
    <3>2. CASE x = y /\ G!Start(y)
      <4>1. x \notin G!Shown
        BY <3>2 DEF G!Start
      <4>2. QED
        BY <4>1 DEF G!Shown
    <3>3. CASE ~(x = y /\ G!Start(y))
      BY <3>1, <3>3 DEF G!Start, G!Announce, G!Enter, G!Graft, G!Forget, G!Release, G!Kill,
                        G!Sweep, G!Adopted, G!ghosts
    <3>4. QED
      BY <3>2, <3>3
  <2>4. QED
    BY <1>1, <2>1, <2>2, <2>3
<1>3. CASE G!Watching
  <2>1. UNCHANGED <<signal, listed, above, born>>
    BY <1>3 DEF G!Watching, G!ReadWatches, G!WriteWatches
  <2>2. x \in watched => x \in watched'
    BY <1>3 DEF G!Watching, G!ReadWatches, G!WriteWatches
  <2>3. QED
    BY <1>1, <2>1, <2>2
<1>4. CASE G!Tick
  <2>1. UNCHANGED <<signal, listed, watched, born, excused>> /\ above # over
    BY <1>4 DEF G!Tick, G!world, G!ghosts
  <2>2. x # above
    BY <2>1 DEF SigPlain
  <2>3. QED
    BY <1>1, <2>1, <2>2
<1>5. CASE G!Poll \/ UNCHANGED signalVars
  <2>1. UNCHANGED <<signal, listed, above, watched, born>>
    BY <1>5 DEF G!Poll, G!List, G!Answer, G!Silent, G!Read, G!Send, G!world, G!ghosts, signalVars
  <2>2. QED
    BY <1>1, <2>1
<1>6. CASE G!Take
  <2> DEFINE here == Head(queue)
  <2>1. /\ queue # <<>> /\ listed' = here /\ UNCHANGED <<above, watched, born>>
        /\ \/ here = listed /\ signal' = signal
           \/ /\ here # listed
              /\ signal' = [y \in Peers |-> IF y \in G!Moved(listed, here) THEN here[y].phase
                                            ELSE IF y \in G!Lost(listed, here) THEN "lost"
                                            ELSE signal[y]]
    BY <1>6 DEF G!Take, G!world, G!ghosts
  <2>2. CASE here = listed /\ signal' = signal
    BY <1>1, <2>1, <2>2
  <2>3. CASE here # listed
    <3>1. Len(queue) \in Nat \ {0} /\ here = queue[1]
      BY <2>1, Rest DEF SigShape, RostersTyped
    <3>2. Nth(0) = listed /\ Nth(1) = here /\ 0 \in 0..Len(queue) /\ 1 \in 0..Len(queue)
          /\ 1 \in 1..Len(queue) /\ 1 - 1 = 0
      BY <3>1 DEF Nth
    <3> HIDE DEF here
    <3>3. Follows(listed, here, x) /\ RightlyChild(listed, x) /\ RightlyChild(here, x)
      BY <3>2 DEF Chain, Whose
    <3>4. SUFFICES ASSUME signal'[x] \in Phases \ G!Over
                   PROVE  /\ x \in DOMAIN here /\ here[x].phase = signal'[x]
                          /\ x = above \/ x \in watched \/ x \in born
      BY <2>1 DEF AtWork, G!Over
    <3>5. NoPhase \notin Phases /\ "lost" \notin Phases
      BY SigConstants
    <3>6. signal'[x] = IF x \in G!Moved(listed, here) THEN here[x].phase
                       ELSE IF x \in G!Lost(listed, here) THEN "lost" ELSE signal[x]
      BY <2>1, <2>3
    <3>7. CASE x \in G!Moved(listed, here)
      <4>1. /\ x \in DOMAIN here /\ here[x].phase # NoPhase
            /\ here[x].child \/ x = above \/ x \in watched
        BY <3>7 DEF G!Moved, G!Kin
      <4>2. here[x].child => x \in born
        BY <3>3, <4>1 DEF RightlyChild, Says
      <4>3. QED
        BY <3>6, <3>7, <4>1, <4>2
    <3>8. CASE x \notin G!Moved(listed, here)
      <4>1. x \notin G!Lost(listed, here) /\ signal'[x] = signal[x]
        BY <3>4, <3>5, <3>6, <3>8
      <4>2. /\ x \in DOMAIN listed /\ listed[x].phase = signal[x] /\ signal[x] \in Phases \ G!Over
            /\ x = above \/ x \in watched \/ x \in born
        BY <3>4, <4>1 DEF AtWork
      <4>3. Says(listed, x) = listed[x].phase /\ Says(listed, x) # NoPhase
        BY <3>5, <4>2 DEF Says
      <4>4. listed[x].child \/ x = above \/ x \in watched
        BY <3>3, <4>2, <4>3 DEF RightlyChild
      <4>5. x \in DOMAIN here
        BY <4>1, <4>2, <4>4 DEF G!Lost, G!Kin
      <4>6. Says(here, x) = here[x].phase /\ here[x].phase # NoPhase
        BY <3>3, <4>3, <4>5 DEF Follows, Says
      <4>7. here[x].child \/ x = above \/ x \in watched
        BY <3>3, <4>2, <4>6 DEF RightlyChild
      <4>8. listed[x].phase = here[x].phase
        BY <3>8, <4>5, <4>6, <4>7 DEF G!Moved, G!Kin
      <4>9. QED
        BY <4>1, <4>2, <4>5, <4>8
    <3>9. QED
      BY <3>7, <3>8
  <2>4. QED
    BY <2>1, <2>2, <2>3
<1>7. QED
  BY <1>2, <1>3, <1>4, <1>5, <1>6 DEF G!Next, G!Loop

SigInv == SigShape /\ SigPlain /\ PhasesCounted /\ Marked /\ WaitedFor

\* At first nobody is there and nothing is said.
LEMMA InitSig == G!Init => SigInv
<1> SUFFICES ASSUME G!Init
             PROVE  SigInv
  OBVIOUS
<1> USE DEF G!Init
<1>1. PeersTyped
  BY DEF PeersTyped, Spoken
<1>2. RostersTyped /\ PollerTyped
  <2>1. queue \in Seq(Sheet) /\ listed \in Sheet /\ rows \in Sheet /\ DOMAIN rows = {}
    BY EmptySheet DEF G!Empty
  <2>2. last \in [Peers -> Spoken]
    BY DEF Spoken
  <2>3. QED
    BY <2>1, <2>2 DEF RostersTyped, PollerTyped
<1>3. SigPlain
  BY SigConstants DEF SigPlain
<1>4. Len(queue) = 0
  OBVIOUS
<1>5. \A x \in Peers : Says(listed, x) = NoPhase /\ Says(rows, x) = NoPhase
  BY EmptySheet DEF G!Empty
<1>6. Nth(0) = listed /\ Newest = listed /\ 0..Len(queue) = {0} /\ 1..Len(queue) = {}
  BY <1>4 DEF Nth, Newest
<1>7. \A x \in Peers : ~Appears(x)
  BY <1>5, <1>6 DEF Appears
<1>8. ASSUME NEW x \in Peers
      PROVE  \E a \in Nat : Before(x, a) /\ Ahead(x, a)
  <2> DEFINE steps == [i \in 0..0 |-> 0]
  <2>1. steps \in [0..Len(queue) -> Nat] /\ steps[0] = 0
    BY <1>4
  <2> HIDE DEF steps
  <2>2. Before(x, 0)
    BY <1>4, <1>6, <2>1 DEF Before
  <2>3. Coming(x) = NoPhase /\ Says(Newest, x) = NoPhase
    BY <1>5, <1>6 DEF Coming
  <2>4. last[x] = NoPhase /\ phase[x] = NoPhase /\ made[x] = 0
    OBVIOUS
  <2>5. /\ Rises(0, 0, Says(Newest, x), Coming(x)) /\ Rises(0, 0, Coming(x), last[x])
        /\ Rises(0, made[x], last[x], phase[x])
    BY <2>3, <2>4 DEF Rises
  <2>6. Ahead(x, 0)
    BY <2>5 DEF Ahead
  <2>7. QED
    BY <2>2, <2>6
<1>9. ASSUME NEW x \in Peers
      PROVE  Known(x) /\ Chain(x) /\ Whose(x) /\ AtWork(x)
  <2>1. Known(x)
    BY <1>7 DEF Known, Fresh, Leftover, Speaks, Looked
  <2>2. Chain(x)
    BY <1>5, <1>6 DEF Chain, Follows
  <2>3. Whose(x)
    BY <1>5, <1>6 DEF Whose, RightlyChild
  <2>4. AtWork(x)
    BY SigConstants DEF AtWork
  <2>5. QED
    BY <2>1, <2>2, <2>3, <2>4
<1>10. QED
  BY <1>1, <1>2, <1>3, <1>8, <1>9 DEF SigInv, SigShape, PhasesCounted, Marked, WaitedFor

\* Every step keeps all of it.
LEMMA StepSig == SigInv /\ [G!Next]_signalVars => SigInv'
<1> SUFFICES ASSUME SigInv, [G!Next]_signalVars
             PROVE  SigInv'
  OBVIOUS
<1>1. SigShape /\ SigPlain /\ PhasesCounted /\ Marked /\ WaitedFor
  BY DEF SigInv
<1>2. SigShape'
  BY <1>1, StepPeers, StepRosters, StepPoller DEF SigShape
<1>3. SigPlain' /\ PhasesCounted'
  BY <1>1, StepPlain, StepCounted
<1>4. excused \subseteq excused' /\ torn \subseteq torn'
  BY StaysExcused
<1>5. ASSUME NEW x \in Peers \ excused'
      PROVE  Known(x)' /\ Chain(x)'
  <2>1. Known(x) /\ Chain(x)
    BY <1>1, <1>4 DEF Marked
  <2>2. QED
    BY <1>1, <2>1, StepKnown, StepChain
<1>6. ASSUME NEW x \in Peers \ (excused' \cup torn')
      PROVE  Whose(x)' /\ AtWork(x)'
  <2>1. Known(x) /\ Chain(x) /\ Whose(x) /\ AtWork(x)
    BY <1>1, <1>4 DEF Marked, WaitedFor
  <2>2. QED
    BY <1>1, <2>1, StepWhose, StepAtWork
<1>7. Marked' /\ WaitedFor'
  BY <1>5, <1>6 DEF Marked, WaitedFor
<1>8. QED
  BY <1>2, <1>3, <1>7 DEF SigInv

\* Nobody is left waiting, and nothing is said that did not happen.
LEMMA SigGood == SigInv => RightlyTold
<1> SUFFICES ASSUME SigInv
             PROVE  G!LostTold /\ G!OnlyRealChanges
  BY DEF RightlyTold
<1>1. G!OnlyRealChanges
  BY CountedSaid DEF SigInv
<1>2. G!LostTold
  BY DEF SigInv, WaitedFor, AtWork, G!LostTold, G!WaitedFor
<1>3. QED
  BY <1>1, <1>2

----------------------------------------------------------------------------
\* The five parts, of which one moves and the others are left alone.

\* A step of the whole is a step of each part, or leaves it alone.
LEMMA PartsAlone ==
  /\ Begins => Init /\ I!Init /\ S!Init /\ H!Init /\ G!Init
  /\ [Goes]_<<part, vars, inboxVars, sendingVars, handoffVars, signalVars>> =>
       /\ [Next]_vars /\ [I!Next]_inboxVars /\ [S!Next]_sendingVars /\ [H!Next]_handoffVars
       /\ [G!Next]_signalVars
<1>1. Begins => Init /\ I!Init /\ S!Init /\ H!Init /\ G!Init
  BY DEF Begins
<1>2. ASSUME [Goes]_<<part, vars, inboxVars, sendingVars, handoffVars, signalVars>>
      PROVE  /\ [Next]_vars /\ [I!Next]_inboxVars /\ [S!Next]_sendingVars /\ [H!Next]_handoffVars
             /\ [G!Next]_signalVars
  BY <1>2 DEF Goes, Signalling
<1>3. QED
  BY <1>1, <1>2

\* limits.rs: while handoffs stay in the inbox until their work is handed on or done, none of it is
\* handed on more than HopLimit times.
THEOREM WorkStopsInTime == Talks => []StopsInTime
<1>1. Begins => HandInv
  BY PartsAlone, InitHand
<1>2. HandInv /\ [Goes]_<<part, vars, inboxVars, sendingVars, handoffVars, signalVars>> => HandInv'
  BY PartsAlone, StepHand
<1>3. HandInv => StopsInTime
  BY HandStops
<1>4. QED
  BY <1>1, <1>2, <1>3, PTL DEF Talks

\* keeping.rs's kept: a full inbox lets a cry for help go only where it holds nothing else.
THEOREM CriesStay == Talks => UrgentStays
<1>1. Begins => InboxInv
  BY PartsAlone, InitInbox
<1>2. InboxInv /\ [Goes]_<<part, vars, inboxVars, sendingVars, handoffVars, signalVars>> => InboxInv'
  BY PartsAlone, StepInbox
<1>3. InboxInv /\ [Goes]_<<part, vars, inboxVars, sendingVars, handoffVars, signalVars>> =>
        [I!UrgentStays]_dropped
  BY PartsAlone, UrgentKept DEF InboxInv
<1>4. QED
  BY <1>1, <1>2, <1>3, PTL DEF Talks, UrgentStays

\* serving/talking.rs and the loop: a message whose id was said back is on its way to the harness or
\* with it, stays in the order it was told, and leaves the inbox by being read, or because it was
\* full; and the channel and the inbox keep within their bounds.
THEOREM AllDelivered == Talks => []Delivered
<1> DEFINE All == InboxInv /\ Inv /\ Frames
<1>1. Begins => All
  BY PartsAlone, InitInbox, InitInv, InitFrames
<1>2. All /\ [Goes]_<<part, vars, inboxVars, sendingVars, handoffVars, signalVars>> => All'
  <2>1. Inv => Kinds
    BY DEF Inv
  <2>2. QED
    BY <2>1, PartsAlone, StepInbox, StepInv, StepFrames
<1>3. All => Delivered
  BY InboxGood, ConnectionTyped DEF Delivered
<1>4. QED
  BY <1>1, <1>2, <1>3, PTL DEF Talks

\* sending::allow and keeping::heard_from: while its tools are at the note one at a time a session
\* says no more than its share in any window and nothing twice in one, and whatever they do the
\* peer takes no more than a share.
THEOREM SharesAreKept == Talks => []CapKept
<1> DEFINE All == SendShape /\ HeardInv /\ SentInv
<1>1. Begins => All
  BY PartsAlone, InitSending, InitSent
<1>2. All /\ [Goes]_<<part, vars, inboxVars, sendingVars, handoffVars, signalVars>> => All'
  BY PartsAlone, StepShape, StepHeard, StepSent
<1>3. All => CapKept
  BY SendingGood
<1>4. QED
  BY <1>1, <1>2, <1>3, PTL DEF Talks

\* signal_changes: who was last said to be at work and is shown no more was said to be lost, unless
\* its name passed on, or it went while it was looked at; and only entering a phase is signalled as
\* that phase, however looks fail and rosters come late.
THEOREM ToldRightly == Talks => []RightlyTold
<1>1. Begins => SigInv
  BY PartsAlone, InitSig
<1>2. SigInv /\ [Goes]_<<part, vars, inboxVars, sendingVars, handoffVars, signalVars>> => SigInv'
  BY PartsAlone, StepSig
<1>3. SigInv => RightlyTold
  BY SigGood
<1>4. QED
  BY <1>1, <1>2, <1>3, PTL DEF Talks

=============================================================================

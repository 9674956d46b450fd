-------------------------- MODULE DigestQueueProofs --------------------------
(***************************************************************************)
(* The ordered queue implements the set queue of BatchQueue, for any       *)
(* digests, batch size, priorities and depth of the LTP mempool.           *)
(*                                                                         *)
(* QueueInv: neither the queue nor a batch has a digest twice, and neither *)
(* has the LTP mempool: only then is a batch of n entries a set of n       *)
(* digests, and only then does a drain take away what it put in the batch. *)
(***************************************************************************)
EXTENDS DigestQueue, FiniteSetTheorems, SequenceTheorems, TLAPS

-----------------------------------------------------------------------------
\* Places in an order

\* A total order on a set, as a set of pairs.
Orders(R, S) ==
  /\ \A x \in S : <<x, x>> \in R
  /\ \A x, y \in S : <<x, y>> \in R \/ <<y, x>> \in R
  /\ \A x, y \in S : <<x, y>> \in R /\ <<y, x>> \in R => x = y
  /\ \A x, y, z \in S : <<x, y>> \in R /\ <<y, z>> \in R => <<x, z>> \in R

UpTo(R, S, x) == {y \in S : <<y, x>> \in R}
Place(R, S, x) == Cardinality(UpTo(R, S, x))

\* Places count from one.
LEMMA PlaceType ==
  ASSUME NEW R, NEW S, IsFiniteSet(S), Orders(R, S), NEW x \in S
  PROVE  /\ IsFiniteSet(UpTo(R, S, x))
         /\ Place(R, S, x) \in 1 .. Cardinality(S)
<1>1. UpTo(R, S, x) \in SUBSET S /\ x \in UpTo(R, S, x)
  BY DEF UpTo, Orders
<1>2. PICK T : T = UpTo(R, S, x)
  OBVIOUS
<1>3. IsFiniteSet(T) /\ Cardinality(T) <= Cardinality(S)
  BY <1>1, <1>2, FS_Subset
<1>4. Cardinality(T) \in Nat /\ Cardinality(S) \in Nat /\ (Cardinality(T) = 0 <=> T = {})
  BY <1>3, FS_CardinalityType, FS_EmptySet
<1> QED BY <1>1, <1>2, <1>3, <1>4 DEF Place

\* No two elements have the same place.
LEMMA PlacesDiffer ==
  ASSUME NEW R, NEW S, IsFiniteSet(S), Orders(R, S),
         NEW x \in S, NEW y \in S, Place(R, S, x) = Place(R, S, y)
  PROVE  x = y
<1>1. ASSUME NEW a \in S, NEW b \in S, <<a, b>> \in R, Place(R, S, a) = Place(R, S, b)
      PROVE  a = b
  <2>1. UpTo(R, S, a) \in SUBSET UpTo(R, S, b) /\ b \in UpTo(R, S, b)
    BY <1>1 DEF UpTo, Orders
  <2>2. PICK A, B : A = UpTo(R, S, a) /\ B = UpTo(R, S, b)
    OBVIOUS
  <2>3. IsFiniteSet(B) /\ A \in SUBSET B /\ Cardinality(B) = Cardinality(A)
    BY <1>1, <2>1, <2>2, PlaceType DEF Place
  <2>4. A = B
    BY <2>3, FS_Subset
  <2> QED BY <1>1, <2>1, <2>2, <2>4 DEF UpTo, Orders
<1>2. <<x, y>> \in R \/ <<y, x>> \in R
  BY DEF Orders
<1> QED BY <1>1, <1>2

\* Every place is taken.
LEMMA PlacesTaken ==
  ASSUME NEW R, NEW S, IsFiniteSet(S), Orders(R, S), NEW i \in 1 .. Cardinality(S)
  PROVE  \E x \in S : Place(R, S, x) = i
<1>1. PICK n \in Nat : n = Cardinality(S)
  BY FS_CardinalityType
<1>2. PICK T : T = 1 .. n
  OBVIOUS
<1>3. IsFiniteSet(T) /\ Cardinality(T) = n
  BY <1>2, FS_Interval
<1>4. PICK f : f = [x \in S |-> Place(R, S, x)]
  OBVIOUS
<1>5. f \in [S -> T]
  BY <1>1, <1>2, <1>4, PlaceType
<1>6. \A a, b \in S : f[a] = f[b] => a = b
  BY <1>4, PlacesDiffer
<1>7. f \in Injection(S, T)
  BY <1>5, <1>6 DEF Injection, IsInjective
<1>8. f \in Surjection(S, T)
  BY <1>1, <1>3, <1>7, FS_Injection
<1> QED BY <1>1, <1>2, <1>4, <1>8 DEF Surjection

-----------------------------------------------------------------------------
\* Vectors

\* The positions of a vector are in order, and Nth goes through all of them.
LEMMA NthIs ==
  ASSUME NEW n \in Nat, NEW S \in SUBSET (1 .. n)
  PROVE  /\ IsFiniteSet(S) /\ Cardinality(S) \in Nat /\ Cardinality(S) <= n
         /\ \A i \in 1 .. Cardinality(S) : Nth(S, i) \in S
         /\ \A i, k \in 1 .. Cardinality(S) : Nth(S, i) = Nth(S, k) => i = k
         /\ \A x \in S : \E i \in 1 .. Cardinality(S) : x = Nth(S, i)
<1>1. IsFiniteSet(1 .. n) /\ Cardinality(1 .. n) = n
  BY FS_Interval
<1>2. PICK T : T = 1 .. n
  OBVIOUS
<1>3. IsFiniteSet(S) /\ Cardinality(S) <= n
  BY <1>1, <1>2, FS_Subset
<1>4. Cardinality(S) \in Nat
  BY <1>3, FS_CardinalityType
<1>5. PICK R : R = {p \in S \X S : p[1] <= p[2]}
  OBVIOUS
<1>6. \A x, y \in S : <<x, y>> \in R <=> x <= y
  BY <1>5
<1>7. Orders(R, S)
  BY <1>6 DEF Orders
<1>8. \A k \in S : {x \in S : x <= k} = UpTo(R, S, k)
  BY <1>6 DEF UpTo
<1>9. \A k \in S : Cardinality({x \in S : x <= k}) = Place(R, S, k)
  BY <1>8 DEF Place
<1>10. \A i \in 1 .. Cardinality(S) : \E k \in S : Cardinality({x \in S : x <= k}) = i
  <2>1. \A i \in 1 .. Cardinality(S) : \E k \in S : Place(R, S, k) = i
    BY <1>3, <1>7, PlacesTaken
  <2> HIDE DEF Place
  <2> QED BY <1>9, <2>1, Zenon
<1>11. \A i \in 1 .. Cardinality(S) : Nth(S, i) \in S /\ Cardinality({x \in S : x <= Nth(S, i)}) = i
  BY <1>10 DEF Nth
<1>12. \A i \in 1 .. Cardinality(S) : Nth(S, i) \in S /\ Place(R, S, Nth(S, i)) = i
  BY <1>9, <1>11
<1>13. \A i, k \in 1 .. Cardinality(S) : Nth(S, i) = Nth(S, k) => i = k
  BY <1>12
<1>14. ASSUME NEW x \in S
       PROVE  \E i \in 1 .. Cardinality(S) : x = Nth(S, i)
  <2>1. Place(R, S, x) \in 1 .. Cardinality(S)
    BY <1>3, <1>7, PlaceType
  <2>2. PICK i \in 1 .. Cardinality(S) : i = Place(R, S, x)
    BY <2>1
  <2>3. Nth(S, i) \in S /\ Place(R, S, Nth(S, i)) = Place(R, S, x)
    BY <1>12, <2>2
  <2>4. x = Nth(S, i)
    BY <1>3, <1>7, <2>3, PlacesDiffer
  <2> QED BY <2>2, <2>4
<1> QED BY <1>3, <1>4, <1>12, <1>13, <1>14

\* retain keeps what is asked for, and nothing twice.
LEMMA Retained ==
  ASSUME NEW T, NEW s \in Seq(T), NEW keep \in SUBSET DOMAIN s
  PROVE  /\ retain(s, keep) \in Seq(T)
         /\ Range(retain(s, keep)) = {s[k] : k \in keep}
         /\ IsInjective(s) => IsInjective(retain(s, keep))
<1>1. PICK n \in Nat : n = Len(s) /\ DOMAIN s = 1 .. n
  BY LenProperties
<1>2. keep \in SUBSET (1 .. n)
  BY <1>1
<1>3. PICK m : m = Cardinality(keep)
  OBVIOUS
<1>4. /\ m \in Nat
      /\ \A i \in 1 .. m : Nth(keep, i) \in keep
      /\ \A i, k \in 1 .. m : Nth(keep, i) = Nth(keep, k) => i = k
      /\ \A x \in keep : \E i \in 1 .. m : x = Nth(keep, i)
  BY <1>2, <1>3, NthIs
<1>5. PICK t : t = retain(s, keep)
  OBVIOUS
<1>6. t = [i \in 1 .. m |-> s[Nth(keep, i)]]
  BY <1>3, <1>5 DEF retain
<1>7. DOMAIN t = 1 .. m /\ \A i \in 1 .. m : t[i] = s[Nth(keep, i)] /\ t[i] \in T
  BY <1>1, <1>2, <1>4, <1>6, ElementOfSeq
<1>8. t \in [1 .. m -> T]
  BY <1>6, <1>7
<1>9. t \in Seq(T)
  BY <1>4, <1>8, SeqDef
<1>10. Range(t) = {s[k] : k \in keep}
  <2>1. ASSUME NEW x \in Range(t)
        PROVE  x \in {s[k] : k \in keep}
    BY <1>4, <1>7 DEF Range
  <2>2. ASSUME NEW k \in keep
        PROVE  s[k] \in Range(t)
    BY <1>4, <1>7 DEF Range
  <2> QED BY <2>1, <2>2
<1>11. ASSUME IsInjective(s)
       PROVE  IsInjective(t)
  <2> SUFFICES ASSUME NEW i \in DOMAIN t, NEW k \in DOMAIN t, t[i] = t[k]
               PROVE  i = k
    BY DEF IsInjective
  <2>1. Nth(keep, i) = Nth(keep, k)
    BY <1>4, <1>7, <1>11 DEF IsInjective
  <2> QED BY <1>4, <1>7, <2>1
<1> QED BY <1>5, <1>9, <1>10, <1>11

\* A vector without repetitions has as many elements as entries.
LEMMA CountDistinct ==
  ASSUME NEW T, NEW s \in Seq(T), IsInjective(s)
  PROVE  IsFiniteSet(Range(s)) /\ Cardinality(Range(s)) = Len(s)
<1>1. PICK n \in Nat : n = Len(s) /\ DOMAIN s = 1 .. n
  BY LenProperties
<1>2. PICK D, R : D = 1 .. n /\ R = Range(s)
  OBVIOUS
<1>3. IsFiniteSet(D) /\ Cardinality(D) = n
  BY <1>2, FS_Interval
<1>4. s \in [D -> R] /\ \A x \in R : \E k \in D : s[k] = x
  <2>1. s \in [1 .. n -> T]
    BY <1>1, LenProperties
  <2> QED BY <1>1, <1>2, <2>1 DEF Range
<1>5. s \in Surjection(D, R)
  BY <1>4 DEF Surjection
<1>6. s \in Injection(D, R)
  BY <1>4 DEF Injection
<1> QED BY <1>1, <1>2, <1>3, <1>5, <1>6, FS_Surjection

\* Elements of two vectors one after the other.
LEMMA Joined ==
  ASSUME NEW T, NEW s \in Seq(T), NEW t \in Seq(T), IsInjective(s), IsInjective(t),
         Range(s) \cap Range(t) = {}
  PROVE  /\ s \o t \in Seq(T) /\ Len(s \o t) = Len(s) + Len(t)
         /\ Range(s \o t) = Range(s) \cup Range(t)
         /\ IsInjective(s \o t)
<1>1. PICK u : u = s \o t
  OBVIOUS
<1>2. PICK m \in Nat, n \in Nat : m = Len(s) /\ n = Len(t) /\ DOMAIN s = 1 .. m /\ DOMAIN t = 1 .. n
  BY LenProperties
<1>3. /\ u \in Seq(T) /\ Len(u) = m + n
      /\ \A i \in 1 .. m + n : u[i] = IF i <= m THEN s[i] ELSE t[i - m]
  BY <1>1, <1>2, ConcatProperties
<1>4. DOMAIN u = 1 .. m + n
  BY <1>3, LenProperties
<1>5. Range(u) = Range(s) \cup Range(t)
  BY <1>1, RangeConcatenation
<1>6. \A i \in 1 .. m, k \in 1 .. n : s[i] # t[k]
  BY <1>2 DEF Range
<1>7. IsInjective(u)
  <2> SUFFICES ASSUME NEW i \in 1 .. m + n, NEW k \in 1 .. m + n, u[i] = u[k]
               PROVE  i = k
    BY <1>4 DEF IsInjective
  <2>1. CASE i <= m /\ k <= m
    <3>1. i \in 1 .. m /\ k \in 1 .. m /\ s[i] = s[k]
      BY <1>3, <2>1
    <3> QED BY <1>2, <3>1 DEF IsInjective
  <2>2. CASE ~(i <= m) /\ ~(k <= m)
    <3>1. i - m \in 1 .. n /\ k - m \in 1 .. n /\ t[i - m] = t[k - m]
      BY <1>3, <2>2
    <3>2. PICK a \in 1 .. n, b \in 1 .. n : a = i - m /\ b = k - m
      BY <3>1
    <3>3. a = b
      BY <1>2, <3>1, <3>2 DEF IsInjective
    <3> QED BY <3>2, <3>3
  <2>3. CASE i <= m /\ ~(k <= m)
    BY <1>3, <1>6, <2>3
  <2>4. CASE ~(i <= m) /\ k <= m
    BY <1>3, <1>6, <2>4
  <2> QED BY <2>1, <2>2, <2>3, <2>4
<1> QED BY <1>1, <1>2, <1>3, <1>5, <1>7

-----------------------------------------------------------------------------
\* Drains

\* A drain of at most max entries divides the queue in two.
Divides(d, q, max, T) ==
  /\ d.batch \in Seq(T) /\ d.left \in Seq(T) /\ IsInjective(d.batch) /\ IsInjective(d.left)
  /\ Range(q) = Range(d.batch) \cup Range(d.left) /\ Range(d.batch) \cap Range(d.left) = {}
  /\ Len(d.batch) <= max
  /\ Range(d.left) # {} => Len(d.batch) = max

\* A part of a vector.
LEMMA Part ==
  ASSUME NEW T, NEW s \in Seq(T), IsInjective(s), NEW m \in Nat, NEW n \in Nat, 1 <= m, n <= Len(s), m <= n + 1
  PROVE  /\ SubSeq(s, m, n) \in Seq(T) /\ Len(SubSeq(s, m, n)) = n - m + 1
         /\ Range(SubSeq(s, m, n)) = {s[k] : k \in m .. n}
         /\ IsInjective(SubSeq(s, m, n))
<1>1. PICK t : t = SubSeq(s, m, n)
  OBVIOUS
<1>2. DOMAIN s = 1 .. Len(s) /\ Len(s) \in Nat /\ \A k \in 1 .. Len(s) : s[k] \in T
  BY LenProperties, ElementOfSeq
<1>3. /\ t \in Seq(T) /\ Len(t) = n - m + 1
      /\ \A i \in 1 .. n - m + 1 : t[i] = s[m + i - 1]
  BY <1>1, <1>2, SubSeqProperties
<1>4. DOMAIN t = 1 .. n - m + 1
  BY <1>3, LenProperties
<1>5. Range(t) = {s[k] : k \in m .. n}
  <2>1. ASSUME NEW i \in 1 .. n - m + 1
        PROVE  t[i] \in {s[k] : k \in m .. n}
    <3>1. m + i - 1 \in m .. n
      OBVIOUS
    <3> QED BY <1>3, <3>1
  <2>2. ASSUME NEW k \in m .. n
        PROVE  \E i \in 1 .. n - m + 1 : t[i] = s[k]
    <3>1. k - m + 1 \in 1 .. n - m + 1 /\ m + (k - m + 1) - 1 = k
      OBVIOUS
    <3>2. t[k - m + 1] = s[k]
      BY <1>3, <3>1
    <3> QED BY <3>1, <3>2
  <2> QED BY <1>4, <2>1, <2>2 DEF Range
<1>6. IsInjective(t)
  <2> SUFFICES ASSUME NEW i \in 1 .. n - m + 1, NEW k \in 1 .. n - m + 1, t[i] = t[k]
               PROVE  i = k
    BY <1>4 DEF IsInjective
  <2>1. m + i - 1 \in 1 .. Len(s) /\ m + k - 1 \in 1 .. Len(s)
    BY <1>2
  <2>2. m + i - 1 = m + k - 1
    BY <1>2, <1>3, <2>1 DEF IsInjective
  <2> QED BY <2>2
<1> QED BY <1>1, <1>3, <1>5, <1>6

\* drain_batch takes from the front.
LEMMA FrontDivides ==
  ASSUME NEW T, NEW q \in Seq(T), IsInjective(q), NEW max \in Nat
  PROVE  Divides(drain_batch(q, max), q, max, T)
<1>1. PICK l \in Nat : l = Len(q) /\ DOMAIN q = 1 .. l
  BY LenProperties
<1>2. PICK n \in Nat : n = IF l < max THEN l ELSE max
  BY <1>1
<1>3. PICK d : d = drain_batch(q, max)
  OBVIOUS
<1>4. d.batch = SubSeq(q, 1, n) /\ d.left = SubSeq(q, n + 1, l)
  BY <1>1, <1>2, <1>3 DEF drain_batch
<1>5. /\ d.batch \in Seq(T) /\ Len(d.batch) = n /\ IsInjective(d.batch)
      /\ Range(d.batch) = {q[k] : k \in 1 .. n}
  <2>1. PICK m \in Nat : m = 1
    OBVIOUS
  <2>2. 1 <= m /\ n <= Len(q) /\ m <= n + 1 /\ n - m + 1 = n
    BY <1>1, <1>2, <2>1
  <2>3. /\ SubSeq(q, m, n) \in Seq(T) /\ IsInjective(SubSeq(q, m, n))
        /\ Range(SubSeq(q, m, n)) = {q[k] : k \in m .. n}
    BY <2>2, Part
  <2>4. Len(SubSeq(q, m, n)) = n - m + 1
    BY <1>1, <2>1, <2>2, SubSeqProperties
  <2> QED BY <1>4, <2>1, <2>2, <2>3, <2>4
<1>6. /\ d.left \in Seq(T) /\ IsInjective(d.left)
      /\ Range(d.left) = {q[k] : k \in n + 1 .. l}
  <2>1. PICK m \in Nat : m = n + 1
    OBVIOUS
  <2>2. 1 <= m /\ l <= Len(q) /\ m <= l + 1
    BY <1>1, <1>2, <2>1
  <2>3. /\ SubSeq(q, m, l) \in Seq(T) /\ IsInjective(SubSeq(q, m, l))
        /\ Range(SubSeq(q, m, l)) = {q[k] : k \in m .. l}
    BY <2>2, Part
  <2> QED BY <1>4, <2>1, <2>3
<1>7. Range(q) = Range(d.batch) \cup Range(d.left)
  <2>1. \A k : k \in 1 .. l <=> k \in 1 .. n \/ k \in n + 1 .. l
    BY <1>2
  <2> QED BY <1>1, <1>5, <1>6, <2>1 DEF Range
<1>8. Range(d.batch) \cap Range(d.left) = {}
  <2> SUFFICES ASSUME NEW i \in 1 .. n, NEW k \in n + 1 .. l, q[i] = q[k]
               PROVE  FALSE
    BY <1>5, <1>6
  <2>1. i \in 1 .. l /\ k \in 1 .. l
    BY <1>2
  <2>2. i = k
    BY <1>1, <2>1 DEF IsInjective
  <2> QED BY <2>2
<1>9. Range(d.left) # {} => n = max
  <2>1. n # max => n + 1 .. l = {}
    BY <1>2
  <2> QED BY <1>6, <2>1
<1>10. n <= max
  BY <1>2
<1>11. Divides(d, q, max, T)
  BY <1>5, <1>6, <1>7, <1>8, <1>9, <1>10 DEF Divides
<1> QED BY <1>3, <1>11

\* What is queued of a list, and what is left without some entries.
LEMMA Selected ==
  ASSUME NEW T, NEW p \in Seq(T), NEW q \in Seq(T), IsInjective(p), IsInjective(q)
  PROVE  /\ Queued(p, q) \in Seq(T) /\ IsInjective(Queued(p, q))
         /\ Range(Queued(p, q)) = Range(p) \cap Range(q)
         /\ NotTaken(q, p) \in Seq(T) /\ IsInjective(NotTaken(q, p))
         /\ Range(NotTaken(q, p)) = Range(q) \ Range(p)
<1>1. PICK A : A = {k \in DOMAIN p : p[k] \in Range(q)}
  OBVIOUS
<1>2. PICK B : B = {k \in DOMAIN q : q[k] \notin Range(p)}
  OBVIOUS
<1>3. A \in SUBSET DOMAIN p /\ B \in SUBSET DOMAIN q
  BY <1>1, <1>2
<1>4. Queued(p, q) = retain(p, A) /\ NotTaken(q, p) = retain(q, B)
  BY <1>1, <1>2 DEF Queued, NotTaken
<1>5. {p[k] : k \in A} = Range(p) \cap Range(q)
  BY <1>1 DEF Range
<1>6. {q[k] : k \in B} = Range(q) \ Range(p)
  BY <1>2 DEF Range
<1>7. retain(p, A) \in Seq(T) /\ IsInjective(retain(p, A)) /\ Range(retain(p, A)) = {p[k] : k \in A}
  BY <1>3, Retained
<1>8. retain(q, B) \in Seq(T) /\ IsInjective(retain(q, B)) /\ Range(retain(q, B)) = {q[k] : k \in B}
  BY <1>3, Retained
<1> QED BY <1>4, <1>5, <1>6, <1>7, <1>8

\* drain_batch_prioritized divides the queue as well, and takes nothing that
\* has no priority while it leaves something that has.
LEMMA PrioritizedDivides ==
  ASSUME NEW T, NEW p \in Seq(T), NEW q \in Seq(T), IsInjective(p), IsInjective(q), NEW max \in Nat
  PROVE  LET d == drain_batch_prioritized(q, p, max) IN
         /\ Divides(d, q, max, T)
         /\ Range(d.batch) \cap Range(p) # Range(q) \cap Range(p) => Range(d.batch) \subseteq Range(p)
<1>1. PICK wanted : wanted = Queued(p, q)
  OBVIOUS
<1>2. wanted \in Seq(T) /\ IsInjective(wanted) /\ Range(wanted) = Range(p) \cap Range(q)
  BY <1>1, Selected
<1>3. PICK f : f = drain_batch(wanted, max)
  OBVIOUS
<1>4. Divides(f, wanted, max, T)
  BY <1>2, <1>3, FrontDivides
<1>5. PICK first : first = f.batch
  OBVIOUS
<1>6. /\ first \in Seq(T) /\ IsInjective(first) /\ Len(first) \in Nat /\ Len(first) <= max
      /\ Range(first) \subseteq Range(p) \cap Range(q)
  BY <1>2, <1>4, <1>5, LenProperties DEF Divides
<1>7. Len(first) # max => Range(first) = Range(p) \cap Range(q)
  BY <1>2, <1>4, <1>5 DEF Divides
<1>8. PICK others : others = NotTaken(q, first)
  OBVIOUS
<1>9. others \in Seq(T) /\ IsInjective(others) /\ Range(others) = Range(q) \ Range(first)
  BY <1>6, <1>8, Selected
<1>10. PICK n \in Nat : n = max - Len(first)
  BY <1>6
<1>11. PICK r : r = drain_batch(others, n)
  OBVIOUS
<1>12. Divides(r, others, n, T)
  BY <1>9, <1>11, FrontDivides
<1>13. PICK d : d = drain_batch_prioritized(q, p, max)
  OBVIOUS
<1>14. d.batch = first \o r.batch /\ d.left = r.left
  BY <1>1, <1>3, <1>5, <1>8, <1>10, <1>11, <1>13 DEF drain_batch_prioritized
<1>15. /\ r.batch \in Seq(T) /\ IsInjective(r.batch) /\ r.left \in Seq(T) /\ IsInjective(r.left)
       /\ Range(others) = Range(r.batch) \cup Range(r.left) /\ Range(r.batch) \cap Range(r.left) = {}
       /\ Len(r.batch) \in Nat /\ Len(r.batch) <= n
       /\ Range(r.left) # {} => Len(r.batch) = n
  BY <1>12, LenProperties DEF Divides
<1>16. Range(first) \cap Range(r.batch) = {}
  BY <1>9, <1>15
<1>17. /\ d.batch \in Seq(T) /\ Len(d.batch) = Len(first) + Len(r.batch)
       /\ Range(d.batch) = Range(first) \cup Range(r.batch)
       /\ IsInjective(d.batch)
  BY <1>6, <1>14, <1>15, <1>16, Joined
<1>18. Range(q) = Range(d.batch) \cup Range(d.left) /\ Range(d.batch) \cap Range(d.left) = {}
  BY <1>6, <1>9, <1>14, <1>15, <1>17
<1>19. Len(d.batch) <= max /\ (Range(d.left) # {} => Len(d.batch) = max)
  BY <1>6, <1>10, <1>14, <1>15, <1>17
<1>20. Divides(d, q, max, T)
  BY <1>14, <1>15, <1>17, <1>18, <1>19 DEF Divides
<1>21. ASSUME Range(d.batch) \cap Range(p) # Range(q) \cap Range(p)
       PROVE  Range(d.batch) \subseteq Range(p)
  <2>1. Range(first) # Range(p) \cap Range(q)
    BY <1>17, <1>18, <1>21
  <2>2. Len(first) = max
    BY <1>7, <2>1
  <2>3. Len(r.batch) = 0
    BY <1>10, <1>15, <2>2
  <2>4. r.batch = <<>>
    BY <1>15, <2>3, EmptySeq
  <2>5. Range(r.batch) = {}
    BY <2>4 DEF Range
  <2> QED BY <1>6, <1>17, <2>5
<1> QED BY <1>13, <1>20, <1>21

\* Nothing is lost when a batch is put back, and nothing queued twice.
LEMMA RestoredQueue ==
  ASSUME NEW T, NEW q \in Seq(T), NEW b \in Seq(T), IsInjective(q), IsInjective(b)
  PROVE  /\ restored(q, b) \in Seq(T) /\ IsInjective(restored(q, b))
         /\ Range(restored(q, b)) = Range(q) \cup Range(b)
<1>1. PICK n \in Nat : n = Len(b) /\ DOMAIN b = 1 .. n /\ b \in [1 .. n -> T]
  BY LenProperties
<1>2. PICK r : r = Reverse(b)
  OBVIOUS
<1>3. r = [i \in 1 .. n |-> b[n - i + 1]]
  BY <1>1, <1>2 DEF Reverse
<1>4. \A i \in 1 .. n : n - i + 1 \in 1 .. n /\ n - (n - i + 1) + 1 = i
  OBVIOUS
<1>5. r \in [1 .. n -> T]
  BY <1>1, <1>3, <1>4
<1>6. r \in Seq(T)
  BY <1>5, SeqDef
<1>7. IsInjective(r)
  <2> SUFFICES ASSUME NEW i \in 1 .. n, NEW k \in 1 .. n, r[i] = r[k]
               PROVE  i = k
    BY <1>3 DEF IsInjective
  <2>1. n - i + 1 = n - k + 1
    BY <1>1, <1>3, <1>4 DEF IsInjective
  <2> QED BY <2>1
<1>8. Range(r) = Range(b)
  <2>1. ASSUME NEW x \in Range(r)
        PROVE  x \in Range(b)
    BY <1>1, <1>3, <1>4 DEF Range
  <2>2. ASSUME NEW x \in Range(b)
        PROVE  x \in Range(r)
    <3>1. PICK i \in 1 .. n : x = b[i]
      BY <1>1 DEF Range
    <3>2. r[n - i + 1] = x /\ n - i + 1 \in DOMAIN r
      BY <1>3, <1>4, <3>1
    <3> QED BY <3>2 DEF Range
  <2> QED BY <2>1, <2>2
<1>9. PICK k : k = NotTaken(r, q)
  OBVIOUS
<1>10. k \in Seq(T) /\ IsInjective(k) /\ Range(k) = Range(r) \ Range(q)
  BY <1>6, <1>7, <1>9, Selected
<1>11. restored(q, b) = q \o k
  BY <1>2, <1>9 DEF restored
<1> QED BY <1>8, <1>10, <1>11, Joined

-----------------------------------------------------------------------------
\* The priority list

LtpEntry == [digest : Digests, priority : Priorities]
Distinct(entries) == \A i, k \in DOMAIN entries : entries[i].digest = entries[k].digest => i = k

\* commitment_start_digests is the digests of the mempool, each once: the sort
\* by priority and age is a total order.
LEMMA PriorityList ==
  ASSUME NEW entries \in Seq(LtpEntry), Distinct(entries)
  PROVE  /\ commitment_start_digests(entries) \in Seq(Digests)
         /\ IsInjective(commitment_start_digests(entries))
<1>1. PICK n \in Nat : n = Len(entries) /\ DOMAIN entries = 1 .. n
  BY LenProperties
<1>2. PICK D : D = 1 .. n
  OBVIOUS
<1>3. IsFiniteSet(D) /\ Cardinality(D) = n
  BY <1>2, FS_Interval
<1>4. \A i \in D : entries[i].digest \in Digests /\ entries[i].priority \in Nat
  <2>1. \A i \in D : entries[i] \in LtpEntry
    BY <1>1, <1>2, ElementOfSeq
  <2> QED BY <2>1, DigestQueueAssumption DEF LtpEntry
<1>5. PICK R : R = {e \in D \X D : ~GoesFirst(entries, e[2], e[1])}
  OBVIOUS
<1>6. \A i, j \in D : <<i, j>> \in R <=> ~GoesFirst(entries, j, i)
  BY <1>5
<1>7. Orders(R, D)
  <2>1. PICK prio : prio = [i \in D |-> entries[i].priority]
    OBVIOUS
  <2>2. \A i \in D : prio[i] \in Nat
    BY <1>4, <2>1
  <2>3. ASSUME NEW i \in D, NEW j \in D
        PROVE  <<i, j>> \in R <=> prio[i] > prio[j] \/ (prio[i] = prio[j] /\ i <= j)
    <3>1. PICK a \in Nat, b \in Nat : a = prio[i] /\ b = prio[j]
      BY <2>2
    <3>2. GoesFirst(entries, j, i) <=> b > a \/ (b = a /\ j < i)
      BY <2>1, <3>1 DEF GoesFirst
    <3>3. ~(b > a \/ (b = a /\ j < i)) <=> a > b \/ (a = b /\ i <= j)
      BY <1>2
    <3> QED BY <1>6, <3>1, <3>2, <3>3
  <2>4. \A x \in D : <<x, x>> \in R
    BY <1>2, <2>2, <2>3
  <2>5. ASSUME NEW x \in D, NEW y \in D
        PROVE  <<x, y>> \in R \/ <<y, x>> \in R
    <3>1. PICK a \in Nat, b \in Nat : a = prio[x] /\ b = prio[y]
      BY <2>2
    <3>2. a > b \/ (a = b /\ x <= y) \/ b > a \/ (b = a /\ y <= x)
      BY <1>2
    <3> QED BY <2>3, <3>1, <3>2
  <2>6. \A x, y \in D : <<x, y>> \in R /\ <<y, x>> \in R => x = y
    BY <1>2, <2>2, <2>3
  <2>7. ASSUME NEW x \in D, NEW y \in D, NEW z \in D, <<x, y>> \in R, <<y, z>> \in R
        PROVE  <<x, z>> \in R
    <3>1. prio[x] \in Nat /\ prio[y] \in Nat /\ prio[z] \in Nat
      BY <2>2
    <3>2. prio[x] > prio[y] \/ (prio[x] = prio[y] /\ x <= y)
      BY <2>3, <2>7
    <3>3. prio[y] > prio[z] \/ (prio[y] = prio[z] /\ y <= z)
      BY <2>3, <2>7
    <3>4. prio[x] > prio[z] \/ (prio[x] = prio[z] /\ x <= z)
      BY <1>2, <3>1, <3>2, <3>3
    <3> QED BY <2>3, <3>4
  <2> QED BY <2>4, <2>5, <2>6, <2>7 DEF Orders
<1>8. PICK at : at = [i \in 1 .. n |-> CHOOSE j \in D : Cardinality({k \in D : ~GoesFirst(entries, j, k)}) = i]
  OBVIOUS
<1>9. \A j \in D : Cardinality({k \in D : ~GoesFirst(entries, j, k)}) = Place(R, D, j)
  <2> SUFFICES ASSUME NEW j \in D
               PROVE  {k \in D : ~GoesFirst(entries, j, k)} = {k \in D : <<k, j>> \in R}
    BY DEF Place, UpTo
  <2> QED BY <1>6
<1>10. \A i \in D : at[i] \in D /\ Place(R, D, at[i]) = i
  <2> SUFFICES ASSUME NEW i \in D
               PROVE  at[i] \in D /\ Place(R, D, at[i]) = i
    OBVIOUS
  <2>1. i \in 1 .. Cardinality(D)
    BY <1>2, <1>3
  <2>2. PICK j \in D : Place(R, D, j) = i
    BY <1>3, <1>7, <2>1, PlacesTaken
  <2>3. Cardinality({k \in D : ~GoesFirst(entries, j, k)}) = i
    BY <1>9, <2>2
  <2>4. at[i] = CHOOSE x \in D : Cardinality({k \in D : ~GoesFirst(entries, x, k)}) = i
    BY <1>2, <1>8
  <2>5. at[i] \in D /\ Cardinality({k \in D : ~GoesFirst(entries, at[i], k)}) = i
    BY <2>3, <2>4
  <2> QED BY <1>9, <2>5
<1>11. PICK t : t = commitment_start_digests(entries)
  OBVIOUS
<1>12. t = [i \in D |-> entries[at[i]].digest]
  BY <1>1, <1>2, <1>3, <1>8, <1>11 DEF commitment_start_digests, sorted
<1>13. t \in [1 .. n -> Digests]
  BY <1>2, <1>4, <1>10, <1>12
<1>14. t \in Seq(Digests)
  BY <1>13, SeqDef
<1>15. IsInjective(t)
  <2> SUFFICES ASSUME NEW i \in D, NEW k \in D, t[i] = t[k]
               PROVE  i = k
    BY <1>12 DEF IsInjective
  <2>1. entries[at[i]].digest = entries[at[k]].digest /\ at[i] \in D /\ at[k] \in D
    BY <1>10, <1>12
  <2>2. at[i] = at[k]
    BY <1>1, <1>2, <2>1 DEF Distinct
  <2> QED BY <1>10, <2>2
<1> QED BY <1>11, <1>14, <1>15

\* Retained entries of the LTP mempool are as distinct as before.
LEMMA RetainedDistinct ==
  ASSUME NEW entries \in Seq(LtpEntry), Distinct(entries), NEW keep \in SUBSET DOMAIN entries
  PROVE  retain(entries, keep) \in Seq(LtpEntry) /\ Distinct(retain(entries, keep))
<1>1. PICK n \in Nat : n = Len(entries) /\ DOMAIN entries = 1 .. n
  BY LenProperties
<1>2. keep \in SUBSET (1 .. n)
  BY <1>1
<1>3. PICK m : m = Cardinality(keep)
  OBVIOUS
<1>4. /\ \A i \in 1 .. m : Nth(keep, i) \in keep
      /\ \A i, k \in 1 .. m : Nth(keep, i) = Nth(keep, k) => i = k
  BY <1>2, <1>3, NthIs
<1>5. PICK t : t = retain(entries, keep)
  OBVIOUS
<1>6. t = [i \in 1 .. m |-> entries[Nth(keep, i)]]
  BY <1>3, <1>5 DEF retain
<1>7. t \in Seq(LtpEntry)
  BY <1>5, Retained
<1>8. Distinct(t)
  <2> SUFFICES ASSUME NEW i \in 1 .. m, NEW k \in 1 .. m, t[i].digest = t[k].digest
               PROVE  i = k
    BY <1>6 DEF Distinct
  <2>1. entries[Nth(keep, i)].digest = entries[Nth(keep, k)].digest
    BY <1>6
  <2>2. Nth(keep, i) = Nth(keep, k)
    BY <1>4, <2>1 DEF Distinct
  <2> QED BY <1>4, <2>2
<1> QED BY <1>5, <1>7, <1>8

-----------------------------------------------------------------------------
\* The invariant and the refinement

QueueInv ==
  /\ pending \in Seq(Digests) /\ IsInjective(pending)
  /\ batch \in Seq(Digests) /\ IsInjective(batch)
  /\ ltp \in Seq(LtpEntry) /\ Distinct(ltp)

\* What a tick takes, with or without the LTP mempool.
Drained(prioritized) ==
  IF prioritized
  THEN drain_batch_prioritized(pending, commitment_start_digests(ltp), BatchMax)
  ELSE drain_batch(pending, BatchMax)

\* The drain of a tick divides the queue, and is a batch of the set queue.
LEMMA DrainedBatch ==
  ASSUME QueueInv, NEW prioritized \in BOOLEAN
  PROVE  /\ Divides(Drained(prioritized), pending, BatchMax, Digests)
         /\ \E priority \in SUBSET Digests :
              Range(Drained(prioritized).batch) \in Batches(Range(pending), priority)
<1>1. PICK d : d = Drained(prioritized)
  OBVIOUS
<1>2. BatchMax \in Nat
  BY BatchMaxAssumption
<1>3. PICK p : p = commitment_start_digests(ltp)
  OBVIOUS
<1>4. p \in Seq(Digests) /\ IsInjective(p)
  BY <1>3, PriorityList DEF QueueInv
<1>5. PICK priority : priority = IF prioritized THEN Range(p) ELSE {}
  OBVIOUS
<1>6. /\ Divides(d, pending, BatchMax, Digests)
      /\ Range(d.batch) \cap priority # Range(pending) \cap priority => Range(d.batch) \subseteq priority
  <2>1. CASE prioritized
    <3>1. d = drain_batch_prioritized(pending, p, BatchMax)
      BY <1>1, <1>3, <2>1 DEF Drained
    <3> QED BY <1>2, <1>4, <1>5, <2>1, <3>1, PrioritizedDivides DEF QueueInv
  <2>2. CASE ~prioritized
    <3>1. d = drain_batch(pending, BatchMax)
      BY <1>1, <2>2 DEF Drained
    <3> QED BY <1>2, <1>5, <2>2, <3>1, FrontDivides DEF QueueInv
  <2> QED BY <2>1, <2>2
<1>7. priority \in SUBSET Digests
  <2>1. p \in [1 .. Len(p) -> Digests]
    BY <1>4, LenProperties
  <2> QED BY <1>5, <2>1 DEF Range
<1>8. Cardinality(Range(d.batch)) = Len(d.batch)
  BY <1>6, CountDistinct DEF Divides
<1>9. Range(d.batch) \in Batches(Range(pending), priority)
  BY <1>6, <1>8 DEF Divides, Batches
<1> QED BY <1>1, <1>6, <1>7, <1>9

\* Every step of the ordered queue keeps its vectors free of repetitions, and
\* is a step of the set queue or leaves it alone.
LEMMA QueueStep ==
  ASSUME QueueInv, [QueueNext]_queueVars
  PROVE  QueueInv' /\ [Abstract!Next]_(<<Range(pending), Range(batch)>>)
<1> USE DEF QueueInv
<1>1. ASSUME NEW d \in Digests, SubmitDigest(d)
      PROVE  QueueInv' /\ Abstract!Next
  <2>1. UNCHANGED <<batch, ltp>> /\ pending' = enqueue(pending, d)
    BY <1>1 DEF SubmitDigest
  <2>2. /\ pending' \in Seq(Digests) /\ IsInjective(pending')
        /\ Range(pending') = Range(pending) \cup {d}
    <3>1. CASE d \in Range(pending)
      BY <2>1, <3>1 DEF enqueue
    <3>2. CASE d \notin Range(pending)
      <4>1. PICK t : t = <<d>>
        OBVIOUS
      <4>2. t \in Seq(Digests) /\ IsInjective(t) /\ Range(t) = {d}
        BY <4>1 DEF IsInjective, Range
      <4>3. pending' = pending \o t
        BY <2>1, <3>2, <4>1, AppendIsConcat DEF enqueue
      <4> QED BY <3>2, <4>2, <4>3, Joined
    <3> QED BY <3>1, <3>2
  <2>3. Abstract!Enqueue(d)
    BY <2>1, <2>2 DEF Abstract!Enqueue
  <2> QED BY <2>1, <2>2, <2>3 DEF Abstract!Next
<1>2. ASSUME NEW d \in Digests, NEW p \in Priorities, LtpEnqueue(d, p)
      PROVE  QueueInv' /\ UNCHANGED <<Range(pending), Range(batch)>>
  <2>1. /\ UNCHANGED <<pending, batch>>
        /\ \A i \in DOMAIN ltp : ltp[i].digest # d
        /\ ltp' = Append(ltp, [digest |-> d, priority |-> p])
    BY <1>2 DEF LtpEnqueue
  <2>2. PICK e : e = [digest |-> d, priority |-> p]
    OBVIOUS
  <2>3. e \in LtpEntry /\ e.digest = d
    BY <2>2 DEF LtpEntry
  <2>4. PICK n \in Nat : n = Len(ltp) /\ DOMAIN ltp = 1 .. n
    BY LenProperties
  <2>5. /\ ltp' \in Seq(LtpEntry) /\ Len(ltp') = n + 1
        /\ \A i \in 1 .. n : ltp'[i] = ltp[i]
        /\ ltp'[n + 1] = e
    BY <2>1, <2>2, <2>3, <2>4, AppendProperties
  <2>6. DOMAIN ltp' = 1 .. n + 1
    BY <2>4, <2>5, LenProperties
  <2>7. \A i \in 1 .. n + 1 : i \in 1 .. n \/ i = n + 1
    OBVIOUS
  <2>8. Distinct(ltp')
    BY <2>1, <2>3, <2>4, <2>5, <2>6, <2>7 DEF Distinct
  <2> QED BY <2>1, <2>5, <2>8
<1>3. ASSUME NEW prioritized \in BOOLEAN, Drain(prioritized)
      PROVE  QueueInv' /\ Abstract!Next
  <2>1. PICK d : d = Drained(prioritized)
    OBVIOUS
  <2>2. batch = <<>> /\ pending # <<>> /\ batch' = d.batch /\ pending' = d.left /\ UNCHANGED ltp
    BY <1>3, <2>1 DEF Drain, Drained
  <2>3. Divides(d, pending, BatchMax, Digests)
    BY <2>1, DrainedBatch
  <2>4. PICK priority \in SUBSET Digests : Range(d.batch) \in Batches(Range(pending), priority)
    BY <2>1, DrainedBatch
  <2>5. Range(batch) = {}
    BY <2>2 DEF Range
  <2>6. Range(pending) # {}
    <3>1. Len(pending) \in Nat /\ Len(pending) # 0 /\ DOMAIN pending = 1 .. Len(pending)
      BY <2>2, LenProperties, EmptySeq
    <3>2. 1 \in DOMAIN pending
      BY <3>1
    <3> QED BY <3>2 DEF Range
  <2>7. Range(pending') = Range(pending) \ Range(batch')
    BY <2>2, <2>3 DEF Divides
  <2>8. Abstract!Drain
    <3>1. Range(batch') \in Abstract!Batches(Range(pending), priority)
      <4>1. \A S : Abstract!Cardinality(S) = Cardinality(S)
        BY DEF Cardinality, Abstract!Cardinality
      <4> QED BY <2>2, <2>4, <4>1 DEF Batches, Abstract!Batches
    <3> QED BY <2>5, <2>6, <2>7, <3>1 DEF Abstract!Drain
  <2>9. QueueInv'
    BY <2>2, <2>3 DEF Divides
  <2> QED BY <2>8, <2>9 DEF Abstract!Next
<1>4. Range(batch) # {} <=> batch # <<>>
  <2>1. Len(batch) \in Nat /\ DOMAIN batch = 1 .. Len(batch) /\ (Len(batch) = 0 <=> batch = <<>>)
    BY LenProperties, EmptySeq
  <2>2. batch # <<>> => 1 \in DOMAIN batch
    BY <2>1
  <2> QED BY <2>2 DEF Range
<1>5. ASSUME batch' = <<>>
      PROVE  batch' \in Seq(Digests) /\ IsInjective(batch') /\ Range(batch') = {}
  BY <1>5 DEF IsInjective, Range
<1>6. ASSUME Anchored
      PROVE  QueueInv' /\ Abstract!Next
  <2>1. PICK keep : keep = {k \in DOMAIN ltp : ltp[k].digest \notin Range(batch)}
    OBVIOUS
  <2>2. batch # <<>> /\ batch' = <<>> /\ UNCHANGED pending /\ ltp' = retain(ltp, keep)
    BY <1>6, <2>1 DEF Anchored
  <2>3. ltp' \in Seq(LtpEntry) /\ Distinct(ltp')
    BY <2>1, <2>2, RetainedDistinct
  <2>4. Abstract!Anchored
    BY <1>4, <1>5, <2>2 DEF Abstract!Anchored
  <2> QED BY <1>5, <2>2, <2>3, <2>4 DEF Abstract!Next
<1>7. ASSUME Restore
      PROVE  QueueInv' /\ Abstract!Next
  <2>1. batch # <<>> /\ batch' = <<>> /\ UNCHANGED ltp /\ pending' = restored(pending, batch)
    BY <1>7 DEF Restore
  <2>2. /\ pending' \in Seq(Digests) /\ IsInjective(pending')
        /\ Range(pending') = Range(pending) \cup Range(batch)
    BY <2>1, RestoredQueue
  <2>3. Abstract!Restore
    BY <1>4, <1>5, <2>1, <2>2 DEF Abstract!Restore
  <2> QED BY <1>5, <2>1, <2>2, <2>3 DEF Abstract!Next
<1>8. CASE UNCHANGED queueVars
  BY <1>8 DEF queueVars
<1>9. CASE QueueNext
  BY <1>1, <1>2, <1>3, <1>6, <1>7, <1>9 DEF QueueNext
<1> QED BY <1>8, <1>9

\* QueueInv holds in every state.
THEOREM QueueInvariant == QueueSpec => []QueueInv
<1>1. QueueInit => QueueInv
  BY DEF QueueInit, QueueInv, IsInjective, Distinct
<1>2. QueueInv /\ [QueueNext]_queueVars => QueueInv'
  BY QueueStep
<1> QED BY <1>1, <1>2, PTL DEF QueueSpec

\* The queue of the code implements the set queue, step by step: a batch is as
\* full as it can be, takes what has priority first, and comes back whole.
THEOREM QueueImplementsBatchQueue == QueueSpec => ImplementsBatchQueue
<1>1. QueueInit => Abstract!Init
  BY DEF QueueInit, Abstract!Init, Range
<1>2. QueueInv /\ [QueueNext]_queueVars => [Abstract!Next]_(<<Range(pending), Range(batch)>>)
  BY QueueStep
<1> QED BY <1>1, <1>2, QueueInvariant, PTL DEF QueueSpec, ImplementsBatchQueue, Abstract!Spec
=============================================================================

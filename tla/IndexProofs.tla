----------------------------- MODULE IndexProofs -----------------------------
(***************************************************************************)
(* Proofs about Index, for every setup: any intervals, windows, numbers of *)
(* blocks, reorgs and orphans, and any failures.                           *)
(***************************************************************************)
EXTENDS Index, SequenceTheorems, FiniteSetTheorems, WellFoundedInduction, TLAPS

-----------------------------------------------------------------------------
\* Chains of blocks, on forks that are given as fs

\* Fork f has mined its block at position p.  All have the same genesis block.
Mined(fs, f, p) ==
  /\ f \in 1 .. Len(fs) /\ p \in 1 .. Len(fs[f]) /\ fs[f][p] = f
  /\ p = 1 => f = 1

\* Every block is one that its fork has mined, and all blocks before it are the
\* ancestors it has there.
Ancestral(fs, blocks) ==
  \A p \in 1 .. Len(blocks) :
    /\ Mined(fs, blocks[p], p)
    /\ \A q \in 1 .. p - 1 : blocks[q] = fs[blocks[p]][q]

\* No fork has blocks of a later one.
WellForked(fs) ==
  /\ Len(fs) >= 1
  /\ \A f \in 1 .. Len(fs) :
       /\ Len(fs[f]) >= 1 /\ Ancestral(fs, fs[f])
       /\ \A p \in 1 .. Len(fs[f]) : fs[f][p] <= f

\* Forks only get longer, and more.
Grown(fs, gs) ==
  /\ Len(fs) <= Len(gs)
  /\ \A f \in 1 .. Len(fs) : Len(fs[f]) <= Len(gs[f]) /\ \A p \in 1 .. Len(fs[f]) : gs[f][p] = fs[f][p]

\* The chain that bitcoind follows has these blocks.
IsOn(blocks, c) == Len(blocks) <= Len(c) /\ \A p \in 1 .. Len(blocks) : blocks[p] = c[p]

\* What the provers need to know of a sequence of chains.
Chains(fs) ==
  /\ Len(fs) \in Nat
  /\ \A f \in 1 .. Len(fs) : fs[f] \in Seq(Nat) /\ Len(fs[f]) \in Nat

\* What was mined stays mined.
LEMMA MinedGrows ==
  ASSUME NEW fs, NEW gs, Chains(fs), Chains(gs), Grown(fs, gs),
         NEW f \in Nat, NEW p \in Nat, Mined(fs, f, p)
  PROVE  Mined(gs, f, p)
<1>1. f \in 1 .. Len(fs) /\ p \in 1 .. Len(fs[f]) /\ fs[f][p] = f
  BY DEF Mined
<1>2. Len(fs) \in Nat /\ Len(gs) \in Nat /\ Len(fs) <= Len(gs) /\ f \in 1 .. Len(gs)
  BY <1>1 DEF Chains, Grown
<1>3. Len(fs[f]) \in Nat /\ Len(gs[f]) \in Nat /\ Len(fs[f]) <= Len(gs[f]) /\ gs[f][p] = fs[f][p]
  BY <1>1, <1>2 DEF Chains, Grown
<1> QED BY <1>1, <1>2, <1>3 DEF Mined

\* A chain of ancestors stays one.
LEMMA AncestralGrows ==
  ASSUME NEW fs, NEW gs, Chains(fs), Chains(gs), Grown(fs, gs),
         NEW blocks \in Seq(Nat), Ancestral(fs, blocks)
  PROVE  Ancestral(gs, blocks)
<1> SUFFICES ASSUME NEW p \in 1 .. Len(blocks)
             PROVE  /\ Mined(gs, blocks[p], p)
                    /\ \A q \in 1 .. p - 1 : blocks[q] = gs[blocks[p]][q]
  BY DEF Ancestral
<1>1. Mined(fs, blocks[p], p) /\ \A q \in 1 .. p - 1 : blocks[q] = fs[blocks[p]][q]
  BY DEF Ancestral
<1>2. p \in Nat /\ blocks[p] \in Nat
  BY LenProperties, ElementOfSeq
<1>3. Mined(gs, blocks[p], p)
  BY <1>1, <1>2, MinedGrows
<1>4. \A q \in 1 .. p - 1 : gs[blocks[p]][q] = fs[blocks[p]][q]
  <2>1. blocks[p] \in 1 .. Len(fs) /\ p \in 1 .. Len(fs[blocks[p]])
    BY <1>1 DEF Mined
  <2>2. Len(fs[blocks[p]]) \in Nat
    BY <2>1 DEF Chains
  <2>3. \A q \in 1 .. Len(fs[blocks[p]]) : gs[blocks[p]][q] = fs[blocks[p]][q]
    BY <2>1 DEF Grown
  <2> QED BY <1>2, <2>1, <2>2, <2>3
<1> QED BY <1>1, <1>3, <1>4

\* Two chains of ancestors that agree in one block agree in all before it.
LEMMA SameAncestors ==
  ASSUME NEW fs, NEW b \in Seq(Nat), NEW c \in Seq(Nat), Ancestral(fs, b), Ancestral(fs, c),
         NEW p \in 1 .. Len(b), p \in 1 .. Len(c), b[p] = c[p]
  PROVE  \A q \in 1 .. p : b[q] = c[q]
<1>1. p \in Nat
  BY LenProperties
<1>2. ASSUME NEW q \in 1 .. p - 1
      PROVE  b[q] = c[q]
  <2>1. b[q] = fs[b[p]][q]
    BY DEF Ancestral
  <2>2. c[q] = fs[c[p]][q]
    BY DEF Ancestral
  <2> QED BY <2>1, <2>2
<1>3. \A q \in 1 .. p : q = p \/ q \in 1 .. p - 1
  BY <1>1
<1> QED BY <1>2, <1>3

\* A block that links to the last one extends the chain of its ancestors.
LEMMA LinkedAppend ==
  ASSUME NEW fs, Chains(fs), WellForked(fs), NEW b \in Seq(Nat), Ancestral(fs, b),
         NEW f \in Nat, Mined(fs, f, Len(b) + 1), Len(b) > 0 => b[Len(b)] = fs[f][Len(b)]
  PROVE  Ancestral(fs, Append(b, f))
<1> DEFINE c == Append(b, f)
           n == Len(b)
<1>1. n \in Nat /\ f \in 1 .. Len(fs) /\ n + 1 \in 1 .. Len(fs[f])
  BY LenProperties DEF Mined
<1>2. fs[f] \in Seq(Nat) /\ Ancestral(fs, fs[f]) /\ Len(fs[f]) \in Nat
  BY <1>1 DEF WellForked, Chains
<1>3. Len(c) = n + 1 /\ c[n + 1] = f /\ \A p \in 1 .. n : c[p] = b[p]
  BY AppendProperties
<1>4. \A q \in 1 .. n : b[q] = fs[f][q]
  <2>1. CASE n = 0
    BY <2>1
  <2>2. CASE n > 0
    <3>1. n \in 1 .. Len(b) /\ n \in 1 .. Len(fs[f])
      BY <1>1, <1>2, <2>2
    <3> QED BY <1>2, <2>2, <3>1, SameAncestors
  <2> QED BY <1>1, <2>1, <2>2
<1>5. Mined(fs, f, n + 1)
  OBVIOUS
<1>6. \A p \in 1 .. n : Mined(fs, b[p], p) /\ \A q \in 1 .. p - 1 : b[q] = fs[b[p]][q]
  BY DEF Ancestral
<1> HIDE DEF c, n
<1> SUFFICES ASSUME NEW p \in 1 .. n + 1
             PROVE  Mined(fs, c[p], p) /\ \A q \in 1 .. p - 1 : c[q] = fs[c[p]][q]
  BY <1>3 DEF Ancestral, c
<1>7. CASE p = n + 1
  <2>1. c[p] = f /\ \A q \in 1 .. p - 1 : q \in 1 .. n /\ c[q] = b[q]
    BY <1>1, <1>3, <1>7
  <2> QED BY <1>4, <1>5, <1>7, <2>1
<1>8. CASE p \in 1 .. n
  <2>1. c[p] = b[p]
    BY <1>3, <1>8
  <2>2. \A q \in 1 .. p - 1 : q \in 1 .. n
    BY <1>1, <1>8
  <2>3. \A q \in 1 .. p - 1 : c[q] = b[q]
    BY <1>3, <2>2
  <2> QED BY <1>6, <1>8, <2>1, <2>3
<1> QED BY <1>1, <1>7, <1>8

\* The parent of every block is the one before it.
LEMMA AncestralLinked ==
  ASSUME NEW blocks \in Seq(Nat), Ancestral(forks, blocks)
  PROVE  Linked(blocks)
<1>1. Len(blocks) \in Nat
  BY LenProperties
<1> QED BY <1>1 DEF Linked, Ancestral

\* The chains that agree to the end of the shorter one.
LEMMA OnPrefix ==
  ASSUME NEW b \in Seq(Nat), NEW c \in Seq(Nat), IsOn(b, c)
  PROVE  IsPrefix(b, c)
<1> DEFINE n == Len(b)
<1>1. n \in Nat /\ Len(c) \in Nat /\ n <= Len(c)
  BY LenProperties DEF IsOn
<1>2. \A i \in 1 .. n : b[i] \in Nat /\ c[i] \in Nat /\ b[i] = c[i]
  BY <1>1, ElementOfSeq DEF IsOn
<1>3. /\ SubSeq(b, 1, n) \in Seq(Nat) /\ SubSeq(c, 1, n) \in Seq(Nat)
      /\ Len(SubSeq(b, 1, n)) = n /\ Len(SubSeq(c, 1, n)) = n
      /\ \A i \in 1 .. n : SubSeq(b, 1, n)[i] = b[i] /\ SubSeq(c, 1, n)[i] = c[i]
  <2> HIDE DEF n
  <2>1. /\ SubSeq(b, 1, n) \in Seq(Nat) /\ Len(SubSeq(b, 1, n)) = IF 1 <= n THEN n - 1 + 1 ELSE 0
        /\ \A i \in 1 .. n - 1 + 1 : SubSeq(b, 1, n)[i] = b[1 + i - 1]
    BY <1>1, <1>2, SubSeqProperties
  <2>2. /\ SubSeq(c, 1, n) \in Seq(Nat) /\ Len(SubSeq(c, 1, n)) = IF 1 <= n THEN n - 1 + 1 ELSE 0
        /\ \A i \in 1 .. n - 1 + 1 : SubSeq(c, 1, n)[i] = c[1 + i - 1]
    BY <1>1, <1>2, SubSeqProperties
  <2> QED BY <1>1, <2>1, <2>2
<1>4. SubSeq(b, 1, n) = SubSeq(c, 1, n)
  <2> HIDE DEF n
  <2> QED BY <1>2, <1>3, SeqEqual
<1> QED BY <1>1, <1>4 DEF IsPrefix

-----------------------------------------------------------------------------
\* Forks grow

\* A sequence of sequences of natural numbers is one of chains.
LEMMA SeqChains ==
  ASSUME NEW S \in SUBSET Nat, NEW fs \in Seq(Seq(S))
  PROVE  Chains(fs)
<1> SUFFICES ASSUME NEW f \in 1 .. Len(fs)
             PROVE  fs[f] \in Seq(Nat) /\ Len(fs[f]) \in Nat
  BY LenProperties DEF Chains
<1>1. fs[f] \in Seq(S)
  BY ElementOfSeq
<1> QED BY <1>1, LenProperties, SeqMonotonic

\* Chain d of fork g shares its first k blocks with c, and mined the others.
ForkedFrom(d, g, c, k) ==
  /\ k \in 1 .. Len(c) /\ k <= Len(d)
  /\ \A p \in 1 .. k : d[p] = c[p]
  /\ \A p \in k + 1 .. Len(d) : d[p] = g

\* The blocks of such a fork have their ancestors.
LEMMA ForkAncestral ==
  ASSUME NEW fs, NEW gs, Chains(fs), Chains(gs), Grown(fs, gs),
         NEW c \in Seq(Nat), Ancestral(fs, c), NEW g \in 1 .. Len(gs),
         NEW k \in Nat, ForkedFrom(gs[g], g, c, k)
  PROVE  Ancestral(gs, gs[g])
<1> DEFINE d == gs[g]
<1>1. k >= 1 /\ k \in 1 .. Len(c) /\ g \in Nat /\ Len(d) \in Nat
  BY LenProperties DEF Chains, ForkedFrom
<1>2. Ancestral(gs, c)
  BY AncestralGrows
<1> SUFFICES ASSUME NEW p \in 1 .. Len(d)
             PROVE  Mined(gs, d[p], p) /\ \A q \in 1 .. p - 1 : d[q] = gs[d[p]][q]
  BY DEF Ancestral
<1>3. CASE p \in 1 .. k
  <2>1. p \in 1 .. Len(c)
    BY <1>1, <1>3, LenProperties
  <2>2. Mined(gs, c[p], p) /\ \A q \in 1 .. p - 1 : c[q] = gs[c[p]][q]
    BY <1>2, <2>1 DEF Ancestral
  <2>3. \A q \in 1 .. p - 1 : q \in 1 .. k
    BY <1>1, <1>3
  <2>4. d[p] = c[p] /\ \A q \in 1 .. p - 1 : d[q] = c[q]
    BY <1>3, <2>3 DEF ForkedFrom
  <2> HIDE DEF d
  <2> QED BY <2>2, <2>4
<1>4. CASE p \in k + 1 .. Len(d)
  <2>1. d[p] = g /\ p # 1
    BY <1>1, <1>4 DEF ForkedFrom
  <2> QED BY <2>1 DEF Mined
<1> QED BY <1>1, <1>3, <1>4

\* A new block on the best chain.
LEMMA MineGrows ==
  ASSUME NEW S \in SUBSET Nat, NEW fs \in Seq(Seq(S)), WellForked(fs), Len(fs) \in S
  PROVE  LET gs == [fs EXCEPT ![Len(fs)] = Append(@, Len(fs))] IN
         /\ gs \in Seq(Seq(S)) /\ Len(gs) = Len(fs) /\ Grown(fs, gs) /\ WellForked(gs)
         /\ gs[Len(fs)] = Append(fs[Len(fs)], Len(fs))
         /\ \A f \in 1 .. Len(fs) : f # Len(fs) => gs[f] = fs[f]
<1> DEFINE n == Len(fs)
           c == fs[n]
           d == Append(c, n)
           gs == [fs EXCEPT ![n] = d]
<1>1. n \in Nat /\ n >= 1 /\ n \in 1 .. n
  BY LenProperties DEF WellForked
<1>2. c \in Seq(S) /\ c \in Seq(Nat) /\ Len(c) \in Nat /\ Len(c) >= 1
  BY <1>1, ElementOfSeq, SeqMonotonic, LenProperties DEF WellForked
<1>3. d \in Seq(S) /\ Len(d) = Len(c) + 1 /\ d[Len(c) + 1] = n /\ \A p \in 1 .. Len(c) : d[p] = c[p]
  BY <1>2, AppendProperties
<1>4. gs \in Seq(Seq(S)) /\ Len(gs) = n /\ \A f \in 1 .. n : gs[f] = IF f = n THEN d ELSE fs[f]
  <2> HIDE DEF d
  <2> QED BY <1>1, <1>3, ExceptSeq
<1>5. Chains(fs) /\ Chains(gs)
  <2> HIDE DEF gs
  <2> QED BY <1>4, SeqChains
<1>6. \A f \in 1 .. n : Len(fs[f]) \in Nat
  BY <1>5 DEF Chains
<1> HIDE DEF n, c, d, gs
<1>7. Grown(fs, gs)
  <2>1. ASSUME NEW f \in 1 .. n
        PROVE  Len(fs[f]) <= Len(gs[f]) /\ \A p \in 1 .. Len(fs[f]) : gs[f][p] = fs[f][p]
    <3>1. CASE f # n
      BY <1>4, <1>6, <3>1
    <3>2. CASE f = n
      <4>1. fs[f] = c /\ gs[f] = d
        BY <1>4, <3>2 DEF c
      <4> QED BY <1>2, <1>3, <4>1
    <3> QED BY <3>1, <3>2
  <2> QED BY <1>1, <1>4, <2>1 DEF Grown, n
<1>8. Ancestral(fs, c)
  BY <1>1 DEF WellForked, n, c
<1>9. Ancestral(gs, gs[n])
  <2>1. gs[n] = d /\ Len(c) \in 1 .. Len(c) /\ Len(c) <= Len(d) /\ n \in 1 .. Len(gs)
    BY <1>1, <1>2, <1>3, <1>4
  <2>2. \A p \in Len(c) + 1 .. Len(d) : d[p] = n
    BY <1>2, <1>3
  <2>3. Len(c) <= Len(gs[n]) /\ \A p \in Len(c) + 1 .. Len(gs[n]) : gs[n][p] = n
    BY <2>1, <2>2
  <2>4. \A p \in 1 .. Len(c) : gs[n][p] = c[p]
    BY <1>3, <2>1
  <2>5. ForkedFrom(gs[n], n, c, Len(c))
    BY <2>1, <2>3, <2>4 DEF ForkedFrom
  <2> QED BY <1>2, <1>5, <1>7, <1>8, <2>1, <2>5, ForkAncestral
<1>10. \A f \in 1 .. n : /\ Len(fs[f]) >= 1 /\ Ancestral(fs, fs[f]) /\ fs[f] \in Seq(Nat)
                         /\ \A p \in 1 .. Len(fs[f]) : fs[f][p] <= f
  BY <1>5 DEF WellForked, Chains, n
<1>11. ASSUME NEW f \in 1 .. n
       PROVE  /\ Len(gs[f]) >= 1 /\ Ancestral(gs, gs[f])
              /\ \A p \in 1 .. Len(gs[f]) : gs[f][p] <= f
  <2>1. CASE f # n
    <3>1. gs[f] = fs[f]
      BY <1>4, <2>1
    <3>2. Ancestral(gs, fs[f])
      BY <1>5, <1>7, <1>10, AncestralGrows
    <3> QED BY <1>10, <3>1, <3>2
  <2>2. CASE f = n
    <3>1. gs[f] = d /\ Len(d) >= 1
      BY <1>2, <1>3, <1>4, <2>2
    <3>2. \A p \in 1 .. Len(c) : c[p] <= n
      BY <1>1, <1>10 DEF c
    <3>3. \A p \in 1 .. Len(d) : d[p] <= n
      BY <1>1, <1>2, <1>3, <3>2
    <3> QED BY <1>9, <2>2, <3>1, <3>3
  <2> QED BY <2>1, <2>2
<1>12. WellForked(gs)
  BY <1>1, <1>4, <1>11 DEF WellForked
<1> QED BY <1>1, <1>4, <1>7, <1>12 DEF n, c, d, gs

\* A new fork, which shares the first k blocks of the best chain.
LEMMA ReorgGrows ==
  ASSUME NEW S \in SUBSET Nat, NEW fs \in Seq(Seq(S)), WellForked(fs), Len(fs) + 1 \in S,
         NEW k \in 1 .. Len(fs[Len(fs)]), NEW mined \in Nat
  PROVE  LET d == SubSeq(fs[Len(fs)], 1, k) \o [i \in 1 .. mined |-> Len(fs) + 1]
             gs == Append(fs, d) IN
         /\ gs \in Seq(Seq(S)) /\ Len(gs) = Len(fs) + 1 /\ Grown(fs, gs) /\ WellForked(gs)
         /\ ForkedFrom(gs[Len(fs) + 1], Len(fs) + 1, fs[Len(fs)], k) /\ Len(gs[Len(fs) + 1]) = k + mined
         /\ \A f \in 1 .. Len(fs) : gs[f] = fs[f]
<1> DEFINE n == Len(fs)
           c == fs[n]
           head == SubSeq(c, 1, k)
           new == [i \in 1 .. mined |-> n + 1]
           d == head \o new
           gs == Append(fs, d)
<1>1. n \in Nat /\ n >= 1 /\ n \in 1 .. n
  BY LenProperties DEF WellForked
<1>2. c \in Seq(S) /\ c \in Seq(Nat) /\ Len(c) \in Nat
  BY <1>1, ElementOfSeq, SeqMonotonic, LenProperties
<1>3. k \in Nat /\ k >= 1 /\ k <= Len(c)
  BY <1>2
<1>4. head \in Seq(S) /\ Len(head) = k /\ \A p \in 1 .. k : head[p] = c[p]
  <2> HIDE DEF c
  <2>1. \A i \in 1 .. k : c[i] \in S
    BY <1>2, <1>3, ElementOfSeq
  <2>2. /\ SubSeq(c, 1, k) \in Seq(S) /\ Len(SubSeq(c, 1, k)) = IF 1 <= k THEN k - 1 + 1 ELSE 0
        /\ \A i \in 1 .. k - 1 + 1 : SubSeq(c, 1, k)[i] = c[1 + i - 1]
    BY <1>3, <2>1, SubSeqProperties
  <2> QED BY <1>3, <2>2
<1>5. new \in Seq(S) /\ Len(new) = mined /\ \A i \in 1 .. mined : new[i] = n + 1
  <2>1. new \in [1 .. mined -> S]
    OBVIOUS
  <2> HIDE DEF n, new
  <2>2. new \in Seq(S)
    BY <2>1, SeqDef
  <2>3. Len(new) = mined
    BY <2>1, <2>2
  <2> QED BY <2>2, <2>3 DEF new
<1>6. /\ d \in Seq(S) /\ Len(d) = k + mined
      /\ \A p \in 1 .. k + mined : d[p] = IF p <= k THEN c[p] ELSE n + 1
  <2> HIDE DEF head, new, c, n
  <2>1. /\ d \in Seq(S) /\ Len(d) = k + mined
        /\ \A i \in 1 .. k + mined : d[i] = IF i <= k THEN head[i] ELSE new[i - k]
    <3>1. /\ d \in Seq(S) /\ Len(d) = Len(head) + Len(new)
          /\ \A i \in 1 .. Len(head) + Len(new) : d[i] = IF i <= Len(head) THEN head[i] ELSE new[i - Len(head)]
      BY <1>4, <1>5, ConcatProperties
    <3> HIDE DEF d
    <3> QED BY <1>4, <1>5, <3>1
  <2>2. ASSUME NEW p \in 1 .. k + mined
        PROVE  d[p] = IF p <= k THEN c[p] ELSE n + 1
    <3>1. CASE p <= k
      BY <1>3, <1>4, <2>1, <3>1
    <3>2. CASE ~(p <= k)
      <4>1. p - k \in 1 .. mined
        BY <1>3, <3>2
      <4> QED BY <1>5, <2>1, <3>2, <4>1
    <3> QED BY <3>1, <3>2
  <2> QED BY <2>1, <2>2
<1>7. gs \in Seq(Seq(S)) /\ Len(gs) = n + 1 /\ gs[n + 1] = d /\ \A f \in 1 .. n : gs[f] = fs[f]
  <2> HIDE DEF d
  <2> QED BY <1>6, AppendProperties
<1>8. Chains(fs) /\ Chains(gs)
  <2> HIDE DEF gs
  <2> QED BY <1>7, SeqChains
<1>9. \A f \in 1 .. n : Len(fs[f]) \in Nat
  BY <1>8 DEF Chains
<1> HIDE DEF n, c, d, gs, head, new
<1>10. Grown(fs, gs)
  BY <1>1, <1>7, <1>9 DEF Grown, n
<1>11. Ancestral(fs, c)
  BY <1>1 DEF WellForked, n, c
<1>12. Ancestral(gs, gs[n + 1]) /\ ForkedFrom(gs[n + 1], n + 1, c, k)
  <2>1. k \in 1 .. Len(c) /\ k <= Len(d) /\ n + 1 \in 1 .. Len(gs)
    BY <1>1, <1>2, <1>3, <1>6, <1>7
  <2>2. \A p \in 1 .. k : d[p] = c[p]
    BY <1>3, <1>6
  <2>3. \A p \in k + 1 .. Len(d) : d[p] = n + 1
    BY <1>3, <1>6
  <2>4. k <= Len(gs[n + 1]) /\ \A p \in k + 1 .. Len(gs[n + 1]) : gs[n + 1][p] = n + 1
    BY <1>7, <2>1, <2>3
  <2>5. \A p \in 1 .. k : gs[n + 1][p] = c[p]
    BY <1>7, <2>2
  <2>6. ForkedFrom(gs[n + 1], n + 1, c, k)
    BY <2>1, <2>4, <2>5 DEF ForkedFrom
  <2> QED BY <1>2, <1>3, <1>8, <1>10, <1>11, <2>1, <2>6, ForkAncestral
<1>13. \A f \in 1 .. n : /\ Len(fs[f]) >= 1 /\ Ancestral(fs, fs[f]) /\ fs[f] \in Seq(Nat)
                         /\ \A p \in 1 .. Len(fs[f]) : fs[f][p] <= f
  BY <1>8 DEF WellForked, Chains, n
<1>14. ASSUME NEW f \in 1 .. n + 1
       PROVE  /\ Len(gs[f]) >= 1 /\ Ancestral(gs, gs[f])
              /\ \A p \in 1 .. Len(gs[f]) : gs[f][p] <= f
  <2>1. CASE f \in 1 .. n
    <3>1. gs[f] = fs[f]
      BY <1>7, <2>1
    <3>2. Ancestral(gs, fs[f])
      BY <1>8, <1>10, <1>13, <2>1, AncestralGrows
    <3> QED BY <1>13, <2>1, <3>1, <3>2
  <2>2. CASE f = n + 1
    <3>1. gs[f] = d /\ Len(d) >= 1
      BY <1>3, <1>6, <1>7, <2>2
    <3>2. \A p \in 1 .. k : c[p] \in Nat /\ c[p] <= n
      <4>1. \A p \in 1 .. k : p \in 1 .. Len(c)
        BY <1>2, <1>3
      <4>2. \A p \in 1 .. Len(c) : c[p] \in Nat
        BY <1>2, ElementOfSeq
      <4> QED BY <1>1, <1>13, <4>1, <4>2 DEF c
    <3>3. ASSUME NEW p \in 1 .. k + mined
          PROVE  d[p] <= n + 1
      <4>1. d[p] = IF p <= k THEN c[p] ELSE n + 1
        BY <1>6
      <4>2. p <= k => p \in 1 .. k
        BY <1>3
      <4> QED BY <1>1, <3>2, <4>1, <4>2
    <3> QED BY <1>6, <1>12, <2>2, <3>1, <3>3
  <2> QED BY <1>1, <2>1, <2>2
<1>15. WellForked(gs)
  BY <1>1, <1>7, <1>14 DEF WellForked
<1> QED BY <1>6, <1>7, <1>10, <1>12, <1>15 DEF n, c, d, gs, head, new

-----------------------------------------------------------------------------
\* The index has chains of ancestors

\* An update has a chain of ancestors, and blocks that their forks have mined at
\* the heights that follow; it looks back from a block that is not the genesis
\* block, and restores a savepoint that exists.
UpdateLinked(u) ==
  /\ u \in Updates
  /\ Ancestral(forks, u.blocks)
  /\ \A i \in 1 .. Len(u.rx) : Mined(forks, u.rx[i], Len(u.blocks) + i)
  /\ u.pc = "detect" => u.depth >= 1 /\ Len(u.blocks) >= 1 /\ (Len(u.blocks) = 1 => u.depth = 1)
  /\ u.pc = "restore" => u.target \in DOMAIN savepoints

StoreLinked ==
  /\ Ancestral(forks, db.blocks)
  /\ \A s \in DOMAIN savepoints : Ancestral(forks, savepoints[s].blocks)

LinkedInv ==
  /\ TypeOK /\ WellForked(forks) /\ Len(forks) <= setup.max_reorgs + 1
  /\ StoreLinked /\ UpdateLinked(up)

\* What the types say.
LEMMA Types ==
  ASSUME TypeOK
  PROVE  /\ setup.max_reorgs \in Nat /\ Forks \in SUBSET Nat
         /\ forks \in Seq(Seq(Forks)) /\ Chains(forks)
         /\ db.blocks \in Seq(Forks) /\ db.blocks \in Seq(Nat) /\ db.last \in Nat /\ Len(db.blocks) \in Nat
         /\ \A s \in DOMAIN savepoints :
              /\ s \in Nat /\ savepoints[s].blocks \in Seq(Forks) /\ savepoints[s].blocks \in Seq(Nat)
              /\ savepoints[s] \in Databases
<1>1. setup \in SetupKinds
  BY IndexAssumption DEF TypeOK
<1>2. setup.max_reorgs \in Nat
  BY <1>1 DEF SetupKinds
<1>3. Forks \in SUBSET Nat
  BY <1>2 DEF Forks
<1>4. forks \in Seq(Seq(Forks)) /\ Chains(forks)
  BY <1>3, SeqChains DEF TypeOK
<1>5. \A d \in Databases : d.blocks \in Seq(Forks) /\ d.blocks \in Seq(Nat) /\ d.last \in Nat /\ Len(d.blocks) \in Nat
  <2> TAKE d \in Databases
  <2>1. d.blocks \in Seq(Forks) /\ d.last \in Nat
    BY DEF Databases
  <2> QED BY <1>3, <2>1, SeqMonotonic, LenProperties
<1>6. db.blocks \in Seq(Forks) /\ db.blocks \in Seq(Nat) /\ db.last \in Nat /\ Len(db.blocks) \in Nat
  BY <1>5 DEF TypeOK
<1>7. ASSUME NEW s \in DOMAIN savepoints
      PROVE  /\ s \in Nat /\ savepoints[s].blocks \in Seq(Forks) /\ savepoints[s].blocks \in Seq(Nat)
             /\ savepoints[s] \in Databases
  <2>1. savepoints[s] \in Databases /\ Len(savepoints[s].blocks) = s
    BY DEF TypeOK
  <2> QED BY <1>5, <2>1
<1> QED BY <1>2, <1>3, <1>4, <1>6, <1>7

\* The fields of an update.
LEMMA UpdateTypes ==
  ASSUME TypeOK, NEW u \in Updates
  PROVE  /\ u.pc \in Pcs /\ u.blocks \in Seq(Forks) /\ u.blocks \in Seq(Nat) /\ u.uncommitted \in Nat
         /\ u.rx \in Seq(Forks) /\ u.rx \in Seq(Nat) /\ u.fetching \in BOOLEAN /\ u.depth \in Nat
         /\ u.target \in Nat /\ u.ok \in BOOLEAN /\ Len(u.blocks) \in Nat /\ Len(u.rx) \in Nat
<1>1. /\ u.pc \in Pcs /\ u.blocks \in Seq(Forks) /\ u.uncommitted \in Nat
      /\ u.rx \in Seq(Forks) /\ u.fetching \in BOOLEAN /\ u.depth \in Nat
      /\ u.target \in Nat /\ u.ok \in BOOLEAN
  BY DEF Updates
<1> QED BY <1>1, Types, SeqMonotonic, LenProperties

\* The best chain.
LEMMA BestChain ==
  ASSUME TypeOK, WellForked(forks)
  PROVE  /\ Len(forks) \in Nat /\ Len(forks) >= 1 /\ chain = forks[Len(forks)]
         /\ chain \in Seq(Forks) /\ chain \in Seq(Nat) /\ Len(chain) \in Nat /\ Len(chain) >= 1
         /\ Ancestral(forks, chain)
         /\ \A p \in 1 .. Len(chain) : chain[p] \in Forks /\ chain[p] \in Nat /\ chain[p] <= Len(forks)
<1>1. Len(forks) \in Nat /\ Len(forks) \in 1 .. Len(forks)
  BY Types DEF WellForked, Chains
<1>2. chain = forks[Len(forks)]
  BY DEF chain, Last
<1>3. chain \in Seq(Forks)
  BY <1>1, <1>2, Types, ElementOfSeq
<1>4. \A p \in 1 .. Len(chain) : chain[p] \in Forks /\ chain[p] \in Nat
  BY <1>3, Types, ElementOfSeq
<1>5. chain \in Seq(Nat) /\ Len(chain) \in Nat /\ Len(chain) >= 1 /\ Ancestral(forks, chain)
  BY <1>1, <1>2, Types DEF Chains, WellForked
<1>6. \A p \in 1 .. Len(chain) : chain[p] <= Len(forks)
  BY <1>1, <1>2 DEF WellForked
<1> QED BY <1>1, <1>2, <1>3, <1>4, <1>5, <1>6

\* No update at all is linked.
LEMMA IdleLinked ==
  ASSUME TypeOK, NEW u \in Updates, u.blocks = <<>>, u.rx = <<>>, u.pc \notin {"detect", "restore"}
  PROVE  UpdateLinked(u)
<1>1. Len(u.blocks) = 0 /\ Len(u.rx) = 0
  BY EmptySeq
<1> QED BY <1>1 DEF UpdateLinked, Ancestral

\* Idle is an update, whether it succeeded or not.
LEMMA IdleTyped ==
  ASSUME TypeOK, NEW ok \in BOOLEAN
  PROVE  /\ Idle \in Updates /\ UpdateLinked(Idle)
         /\ [Idle EXCEPT !.ok = ok] \in Updates /\ UpdateLinked([Idle EXCEPT !.ok = ok])
<1>1. <<>> \in Seq(Forks)
  BY EmptySeq
<1>2. Idle \in Updates
  BY <1>1 DEF Idle, Updates, Pcs
<1>3. [Idle EXCEPT !.ok = ok] \in Updates
  BY <1>2 DEF Updates
<1>4. Idle.blocks = <<>> /\ Idle.rx = <<>> /\ Idle.pc = "idle"
  BY DEF Idle
<1>5. [Idle EXCEPT !.ok = ok].blocks = <<>> /\ [Idle EXCEPT !.ok = ok].rx = <<>> /\ [Idle EXCEPT !.ok = ok].pc = "idle"
  BY DEF Idle
<1> QED BY <1>2, <1>3, <1>4, <1>5, IdleLinked

\* The block loop: fetching ahead, indexing what links, noticing what does not.
LEMMA LoopLinked ==
  ASSUME LinkedInv, FetchBlock \/ IndexBlock \/ MeetReorg \/ FinishUpdate
  PROVE  UpdateLinked(up')
<1>1. TypeOK /\ up \in Updates /\ UpdateLinked(up) /\ WellForked(forks)
  BY DEF LinkedInv, TypeOK
<1>2. /\ up.blocks \in Seq(Forks) /\ up.blocks \in Seq(Nat) /\ up.rx \in Seq(Forks) /\ up.rx \in Seq(Nat)
      /\ Len(up.blocks) \in Nat /\ Len(up.rx) \in Nat /\ up.uncommitted \in Nat
  BY <1>1, UpdateTypes
<1>3. Ancestral(forks, up.blocks) /\ \A i \in 1 .. Len(up.rx) : Mined(forks, up.rx[i], Len(up.blocks) + i)
  BY <1>1 DEF UpdateLinked
<1>4. CASE FetchBlock
  <2>1. up.pc \notin {"detect", "restore"}
    BY <1>4 DEF FetchBlock
  <2>2. CASE NextFetch <= Len(chain) /\ up' = [up EXCEPT !.rx = Append(@, chain[NextFetch])]
    <3> DEFINE x == chain[NextFetch]
               rx == Append(up.rx, x)
               u == [up EXCEPT !.rx = rx]
    <3>1. NextFetch \in 1 .. Len(chain) /\ NextFetch = Len(up.blocks) + (Len(up.rx) + 1)
      <4>1. NextFetch \in Nat /\ NextFetch >= 1 /\ NextFetch = Len(up.blocks) + (Len(up.rx) + 1)
        <5> DEFINE n == Len(up.blocks)
                   m == Len(up.rx)
        <5>1. n \in Nat /\ m \in Nat
          BY <1>2
        <5>2. NextFetch = n + m + 1
          BY DEF NextFetch
        <5> HIDE DEF n, m
        <5>3. NextFetch \in Nat /\ NextFetch >= 1 /\ NextFetch = n + (m + 1)
          BY <5>1, <5>2
        <5> QED BY <5>3 DEF n, m
      <4>2. Len(chain) \in Nat /\ NextFetch <= Len(chain)
        BY <1>1, <2>2, BestChain
      <4> DEFINE k == NextFetch
                 l == Len(chain)
      <4>3. k \in Nat /\ k >= 1 /\ l \in Nat /\ k <= l
        BY <4>1, <4>2
      <4> HIDE DEF k, l
      <4>4. k \in 1 .. l
        BY <4>3
      <4> QED BY <4>1, <4>4 DEF k, l
    <3>2. x \in Forks /\ x \in Nat /\ Mined(forks, x, NextFetch)
      BY <1>1, <3>1, BestChain DEF Ancestral
    <3> HIDE DEF x
    <3>3. rx \in Seq(Forks) /\ Len(rx) = Len(up.rx) + 1 /\ rx[Len(up.rx) + 1] = x
          /\ \A i \in 1 .. Len(up.rx) : rx[i] = up.rx[i]
      BY <1>2, <3>2, AppendProperties
    <3> HIDE DEF rx
    <3>4. u \in Updates /\ u.blocks = up.blocks /\ u.rx = rx /\ u.pc = up.pc
      BY <1>1, <3>3 DEF Updates
    <3>5. \A i \in 1 .. Len(rx) : Mined(forks, rx[i], Len(up.blocks) + i)
      <4> TAKE i \in 1 .. Len(rx)
      <4>1. CASE i \in 1 .. Len(up.rx)
        BY <1>3, <3>3, <4>1
      <4>2. CASE i = Len(up.rx) + 1
        BY <3>1, <3>2, <3>3, <4>2
      <4> QED BY <1>2, <3>3, <4>1, <4>2
    <3>6. up' = u
      BY <2>2 DEF x, rx
    <3> HIDE DEF u
    <3> QED BY <1>3, <2>1, <3>4, <3>5, <3>6 DEF UpdateLinked
  <2>3. CASE up' = [up EXCEPT !.fetching = FALSE]
    <3>1. up' \in Updates /\ up'.blocks = up.blocks /\ up'.rx = up.rx /\ up'.pc = up.pc
      BY <1>1, <2>3 DEF Updates
    <3> QED BY <1>3, <2>1, <3>1 DEF UpdateLinked
  <2> QED BY <1>4, <2>2, <2>3 DEF FetchBlock
<1>5. CASE IndexBlock
  <2> DEFINE f == Head(up.rx)
             b == Append(up.blocks, f)
             t == Tail(up.rx)
             pc == IF CommitDue(b) THEN "commit" ELSE "loop"
             more == up.uncommitted + 1
             u == [up EXCEPT !.pc = pc, !.blocks = b, !.rx = t, !.uncommitted = more]
  <2>1. up.rx # <<>> /\ LinksTo(f) /\ up' = u
    BY <1>5 DEF IndexBlock
  <2>2. Len(up.rx) >= 1 /\ f = up.rx[1] /\ f \in Forks /\ f \in Nat
    BY <1>2, <2>1, HeadTailProperties, EmptySeq
  <2>3. Mined(forks, f, Len(up.blocks) + 1)
    BY <1>2, <1>3, <2>2
  <2>4. Len(up.blocks) > 0 => up.blocks[Len(up.blocks)] = forks[f][Len(up.blocks)]
    BY <2>1 DEF LinksTo
  <2>5. Ancestral(forks, b)
    BY <1>1, <1>2, <1>3, <2>2, <2>3, <2>4, LinkedAppend, Types
  <2>6. b \in Seq(Forks) /\ Len(b) = Len(up.blocks) + 1
    BY <1>2, <2>2, AppendProperties
  <2>7. t \in Seq(Forks) /\ Len(t) \in Nat /\ Len(t) = Len(up.rx) - 1 /\ \A i \in 1 .. Len(t) : t[i] = up.rx[i + 1]
    BY <1>2, <2>1, HeadTailProperties, LenProperties
  <2>8. pc \in Pcs /\ pc \notin {"detect", "restore"} /\ more \in Nat
    BY <1>2 DEF Pcs
  <2> HIDE DEF f, b, pc, t, more
  <2>9. u \in Updates /\ u.pc = pc /\ u.blocks = b /\ u.rx = t
    BY <1>1, <2>6, <2>7, <2>8 DEF Updates
  <2>10. \A i \in 1 .. Len(t) : Mined(forks, t[i], Len(b) + i)
    <3> TAKE i \in 1 .. Len(t)
    <3>1. i + 1 \in 1 .. Len(up.rx) /\ Len(b) + i = Len(up.blocks) + (i + 1)
      <4> DEFINE n == Len(up.blocks)
                 m == Len(up.rx)
                 k == Len(t)
      <4>1. n \in Nat /\ m \in Nat /\ k = m - 1 /\ Len(b) = n + 1 /\ i \in 1 .. k
        BY <1>2, <2>6, <2>7
      <4> HIDE DEF n, m, k
      <4>2. i + 1 \in 1 .. m /\ Len(b) + i = n + (i + 1)
        BY <4>1
      <4> QED BY <4>2 DEF n, m
    <3>2. Mined(forks, up.rx[i + 1], Len(up.blocks) + (i + 1))
      BY <1>3, <3>1
    <3> QED BY <2>7, <3>1, <3>2
  <2> HIDE DEF u
  <2> QED BY <2>1, <2>5, <2>8, <2>9, <2>10 DEF UpdateLinked
<1>6. CASE MeetReorg
  <2> DEFINE u == [up EXCEPT !.pc = "detect", !.depth = 1, !.rx = <<>>, !.fetching = FALSE]
  <2>1. <<>> \in Seq(Forks) /\ Len(<<>>) = 0
    BY EmptySeq
  <2>2. u \in Updates /\ u.pc = "detect" /\ u.depth = 1 /\ u.rx = <<>> /\ u.blocks = up.blocks
    BY <1>1, <2>1 DEF Updates, Pcs
  <2>3. Len(up.blocks) >= 1
    BY <1>2, <1>6 DEF MeetReorg, LinksTo
  <2>4. up' = u
    BY <1>6 DEF MeetReorg
  <2> HIDE DEF u
  <2> QED BY <1>3, <2>1, <2>2, <2>3, <2>4 DEF UpdateLinked
<1>7. CASE FinishUpdate
  <2> DEFINE u == [up EXCEPT !.pc = "commit", !.rx = <<>>, !.fetching = FALSE]
  <2>1. <<>> \in Seq(Forks) /\ Len(<<>>) = 0
    BY EmptySeq
  <2>2. u \in Updates /\ u.pc = "commit" /\ u.rx = <<>> /\ u.blocks = up.blocks
    BY <1>1, <2>1 DEF Updates, Pcs
  <2>3. up' = u \/ up' = [Idle EXCEPT !.ok = quiet]
    BY <1>7 DEF FinishUpdate
  <2>4. CASE up' = u
    <3> HIDE DEF u
    <3> QED BY <1>3, <2>1, <2>2, <2>4 DEF UpdateLinked
  <2>5. CASE up' = [Idle EXCEPT !.ok = quiet]
    BY <1>1, <2>5, IdleTyped DEF TypeOK
  <2> QED BY <2>3, <2>4, <2>5
<1> QED BY <1>4, <1>5, <1>6, <1>7

\* A nonempty set of natural numbers below a bound has its maximum.
LEMMA MaxIn ==
  ASSUME NEW n \in Nat, NEW T \in SUBSET (0 .. n), T # {}
  PROVE  Max(T) \in T
<1> DEFINE R == {n - t : t \in T}
<1>1. R \subseteq Nat
  BY DEF R
<1>2. R # {}
  OBVIOUS
<1>3. PICK r \in R : \A s \in R : ~(<<s, r>> \in OpToRel(<, Nat))
  BY <1>1, <1>2, NatLessThanWellFounded, WFMin
<1>4. PICK t \in T : r = n - t
  OBVIOUS
<1>5. ASSUME NEW s \in T
      PROVE  t >= s
  <2>1. n - s \in R
    OBVIOUS
  <2>2. n - s \in Nat /\ r \in Nat
    BY <1>1, <2>1
  <2>3. ~(n - s < r)
    <3> DEFINE q == n - s
    <3>1. q \in R /\ q \in Nat
      BY <2>1, <2>2
    <3> HIDE DEF q, R
    <3>2. ~(q < r)
      BY <1>3, <2>2, <3>1 DEF OpToRel
    <3> QED BY <3>2 DEF q
  <2> QED BY <1>4, <2>3
<1>6. \E x \in T : \A y \in T : x >= y
  BY <1>5
<1> QED BY <1>6 DEF Max

\* An update that only moves on keeps its blocks.
LEMMA GotoLinked ==
  ASSUME LinkedInv, NEW pc \in Pcs \ {"detect", "restore"}, NEW u, NEW n \in Nat,
         u = [up EXCEPT !.pc = pc, !.uncommitted = n]
  PROVE  UpdateLinked(u) /\ u.pc = pc /\ u.blocks = up.blocks
<1>1. UpdateLinked(up) /\ up \in Updates
  BY DEF LinkedInv, TypeOK
<1>2. u \in Updates /\ u.pc = pc /\ u.blocks = up.blocks /\ u.rx = up.rx
  BY <1>1 DEF Updates
<1>3. Ancestral(forks, up.blocks) /\ \A i \in 1 .. Len(up.rx) : Mined(forks, up.rx[i], Len(up.blocks) + i)
  BY <1>1 DEF UpdateLinked
<1> QED BY <1>2, <1>3 DEF UpdateLinked

\* Goto leaves the count of uncommitted blocks.
LEMMA GotoKeeps ==
  ASSUME LinkedInv, NEW pc \in Pcs \ {"detect", "restore"}, Goto(pc)
  PROVE  UpdateLinked(up') /\ up'.pc = pc /\ up'.blocks = up.blocks
<1>1. TypeOK /\ up \in Updates
  BY DEF LinkedInv, TypeOK
<1>2. up.uncommitted \in Nat
  BY <1>1, UpdateTypes
<1>3. up' = [up EXCEPT !.pc = pc, !.uncommitted = up.uncommitted]
  BY <1>1 DEF Goto, Updates
<1> QED BY <1>2, <1>3, GotoLinked

\* Beginning an update, looking for the last common block and for a savepoint.
LEMMA ReorgLinked ==
  ASSUME LinkedInv, BeginUpdate \/ DetectReorg \/ HandleReorg
  PROVE  UpdateLinked(up')
<1>1. TypeOK /\ up \in Updates /\ UpdateLinked(up) /\ WellForked(forks) /\ StoreLinked
  BY DEF LinkedInv, TypeOK
<1>2. /\ up.blocks \in Seq(Nat) /\ Len(up.blocks) \in Nat /\ Len(up.rx) \in Nat
      /\ up.depth \in Nat /\ up.target \in Nat
  BY <1>1, UpdateTypes
<1>3. Ancestral(forks, up.blocks) /\ \A i \in 1 .. Len(up.rx) : Mined(forks, up.rx[i], Len(up.blocks) + i)
  BY <1>1 DEF UpdateLinked
<1>4. UpdateLinked(Idle)
  BY <1>1, IdleTyped
<1>5. CASE BeginUpdate
  <2> DEFINE u == [Idle EXCEPT !.pc = "detect", !.blocks = db.blocks, !.depth = 1]
             v == [Idle EXCEPT !.pc = "loop", !.blocks = db.blocks, !.fetching = TRUE]
  <2>1. <<>> \in Seq(Forks) /\ Len(<<>>) = 0
    BY EmptySeq
  <2>2. /\ db.blocks \in Seq(Forks) /\ Ancestral(forks, db.blocks)
    BY <1>1, Types DEF StoreLinked
  <2>3. CASE TipReorged(db.blocks) /\ up' = u
    <3>1. u \in Updates /\ u.pc = "detect" /\ u.depth = 1 /\ u.rx = <<>> /\ u.blocks = db.blocks
      BY <2>1, <2>2 DEF Updates, Pcs, Idle
    <3>2. Len(db.blocks) >= 1
      BY <1>1, <2>3, BestChain DEF TipReorged
    <3> HIDE DEF u
    <3> QED BY <2>1, <2>2, <2>3, <3>1, <3>2 DEF UpdateLinked
  <2>4. CASE up' = v
    <3>1. v \in Updates /\ v.pc = "loop" /\ v.rx = <<>> /\ v.blocks = db.blocks
      BY <2>1, <2>2 DEF Updates, Pcs, Idle
    <3> HIDE DEF v
    <3> QED BY <2>1, <2>2, <2>4, <3>1 DEF UpdateLinked
  <2> QED BY <1>5, <2>3, <2>4 DEF BeginUpdate
<1>6. CASE DetectReorg
  <2> DEFINE n == Len(up.blocks)
             k == up.depth
             l == Len(chain)
  <2>1. /\ up.pc = "detect" /\ k >= 1 /\ n >= 1 /\ (n = 1 => k = 1)
        /\ n \in Nat /\ k \in Nat /\ l \in Nat /\ l >= 1
    BY <1>1, <1>2, <1>6, BestChain DEF DetectReorg, UpdateLinked
  <2>2. CASE up' = Idle
    BY <1>4, <2>2
  <2>3. CASE SameBlock(n, k) /\ up' = [up EXCEPT !.pc = "recover", !.target = n - k]
    <3>1. k <= n
      <4> HIDE DEF n, k
      <4> QED BY <2>1, <2>3 DEF SameBlock
    <3> DEFINE t == n - k
    <3>2. t \in Nat
      <4> HIDE DEF n, k
      <4> QED BY <2>1, <3>1
    <3> HIDE DEF t
    <3>3. up' = [up EXCEPT !.pc = "recover", !.target = t]
      BY <2>3 DEF t
    <3>4. up' \in Updates /\ up'.pc = "recover" /\ up'.blocks = up.blocks /\ up'.rx = up.rx
      BY <1>1, <3>2, <3>3 DEF Updates, Pcs
    <3> QED BY <1>3, <3>4 DEF UpdateLinked
  <2>4. CASE ~SameBlock(n, k) /\ up' = [up EXCEPT !.depth = @ + 1]
    <3>1. n # 1
      <4> SUFFICES ASSUME n = 1
                   PROVE  SameBlock(n, k)
        BY <2>4
      <4>1. 1 \in 1 .. Len(up.blocks) /\ 1 \in 1 .. Len(chain)
        BY <2>1
      <4>2. up.blocks[1] = 1 /\ chain[1] = 1
        <5>1. Mined(forks, up.blocks[1], 1)
          BY <1>3, <4>1 DEF Ancestral
        <5>2. Mined(forks, chain[1], 1)
          BY <1>1, <4>1, BestChain DEF Ancestral
        <5> QED BY <5>1, <5>2 DEF Mined
      <4>3. n = 1 /\ k = 1 /\ l > 0
        BY <2>1
      <4> HIDE DEF n, k
      <4>4. n - k = 0
        BY <4>3
      <4> QED BY <4>2, <4>3, <4>4 DEF SameBlock
    <3> DEFINE d == k + 1
    <3>2. d \in Nat /\ d >= 1
      <4> HIDE DEF k
      <4> QED BY <2>1
    <3>3. up' = [up EXCEPT !.depth = d]
      BY <2>4
    <3> HIDE DEF d
    <3>4. up' \in Updates /\ up'.pc = up.pc /\ up'.blocks = up.blocks /\ up'.rx = up.rx /\ up'.depth = d
      BY <1>1, <3>2, <3>3 DEF Updates
    <3> QED BY <1>3, <2>1, <3>1, <3>2, <3>4 DEF UpdateLinked
  <2> QED BY <1>6, <2>2, <2>3, <2>4 DEF DetectReorg, ReturnErr
<1>7. CASE HandleReorg
  <2> DEFINE T == SavepointsUpTo(up.target)
             t == Max(T)
  <2>1. CASE T # {} /\ up' = [up EXCEPT !.pc = "restore", !.target = t]
    <3>1. T \in SUBSET (0 .. up.target)
      BY <1>1, <1>2, Types DEF SavepointsUpTo
    <3>2. t \in T
      <4> HIDE DEF T
      <4> QED BY <1>2, <2>1, <3>1, MaxIn
    <3>3. t \in DOMAIN savepoints /\ t \in Nat
      BY <1>1, <3>2, Types DEF SavepointsUpTo
    <3> HIDE DEF t
    <3>4. up' \in Updates /\ up'.pc = "restore" /\ up'.blocks = up.blocks /\ up'.rx = up.rx /\ up'.target = t
      BY <1>1, <2>1, <3>3 DEF Updates, Pcs
    <3> QED BY <1>3, <3>3, <3>4 DEF UpdateLinked
  <2>2. CASE up' = Idle
    BY <1>4, <2>2
  <2> QED BY <1>7, <2>1, <2>2 DEF HandleReorg, ReturnErr, savepoint_height_for_reorg
<1> QED BY <1>5, <1>6, <1>7

\* The database and the savepoints, typed and with chains of ancestors.
StoreOK(d, points, t) ==
  /\ d \in Databases /\ Ancestral(forks, d.blocks)
  /\ \A s \in DOMAIN points :
       /\ points[s] \in Databases /\ Len(points[s].blocks) = s
       /\ Ancestral(forks, points[s].blocks)
  /\ t \subseteq DOMAIN points

\* A snapshot of the database is as good as the database.
LEMMA SnapshotLinked ==
  ASSUME LinkedInv, NEW t, t \subseteq DOMAIN copy_to_savepoint
  PROVE  StoreOK(db, copy_to_savepoint, t)
<1> DEFINE points == copy_to_savepoint
<1>1. /\ db \in Databases /\ Ancestral(forks, db.blocks)
      /\ \A s \in DOMAIN savepoints : /\ savepoints[s] \in Databases /\ Len(savepoints[s].blocks) = s
                                      /\ Ancestral(forks, savepoints[s].blocks)
  BY DEF LinkedInv, TypeOK, StoreLinked
<1>2. \A s \in DOMAIN points :
        \/ s = Len(db.blocks) /\ points[s] = db
        \/ s \in DOMAIN savepoints /\ points[s] = savepoints[s]
  BY DEF copy_to_savepoint, SavepointHeight
<1> HIDE DEF points
<1>3. ASSUME NEW s \in DOMAIN points
      PROVE  /\ points[s] \in Databases /\ Len(points[s].blocks) = s
             /\ Ancestral(forks, points[s].blocks)
  BY <1>1, <1>2
<1> QED BY <1>1, <1>3 DEF StoreOK, points

\* Commits, savepoints, rollbacks and crashes.
LEMMA CommitLinked ==
  ASSUME LinkedInv,
         \/ CommitBlocks \/ DropOldestSavepoint \/ CopyToSavepoint \/ RecordSavepoint
         \/ RestoreFiles \/ Crash
  PROVE  /\ StoreOK(db', savepoints', torn')
         /\ UpdateLinked(up') /\ up'.pc # "restore"
<1>1. /\ TypeOK /\ up \in Updates /\ UpdateLinked(up) /\ StoreOK(db, savepoints, torn)
  BY DEF LinkedInv, TypeOK, StoreLinked, StoreOK
<1>2. db \in Databases /\ db.blocks \in Seq(Forks) /\ db.last \in Nat /\ Len(db.blocks) \in Nat
  BY <1>1, Types DEF TypeOK
<1>3. up.blocks \in Seq(Forks) /\ Ancestral(forks, up.blocks)
  BY <1>1, UpdateTypes DEF UpdateLinked
<1>4. UpdateLinked(Idle) /\ Idle.pc # "restore"
  BY <1>1, IdleTyped DEF Idle
<1>5. \A pc \in {"savepoint", "copy", "record", "loop", "broken"} : Goto(pc) => UpdateLinked(up') /\ up'.pc # "restore"
  <2> SUFFICES ASSUME NEW pc \in {"savepoint", "copy", "record", "loop", "broken"}, Goto(pc)
               PROVE  UpdateLinked(up') /\ up'.pc # "restore"
    OBVIOUS
  <2>1. pc \in Pcs \ {"detect", "restore"}
    BY DEF Pcs
  <2> QED BY <2>1, GotoKeeps
<1>6. CASE CommitBlocks
  <2>1. db' \in Databases /\ db'.blocks = up.blocks
    BY <1>2, <1>3, <1>6 DEF CommitBlocks, Databases
  <2>2. savepoints' = savepoints /\ torn' = torn
    BY <1>6 DEF CommitBlocks
  <2>3. StoreOK(db', savepoints', torn')
    BY <1>1, <1>3, <2>1, <2>2 DEF StoreOK
  <2>4. up' = [up EXCEPT !.pc = "savepoint", !.uncommitted = 0] /\ "savepoint" \in Pcs \ {"detect", "restore"}
    BY <1>6 DEF CommitBlocks, Pcs
  <2>5. UpdateLinked(up') /\ up'.pc # "restore"
    BY <2>4, GotoLinked
  <2> QED BY <2>3, <2>5
<1>7. CASE DropOldestSavepoint
  <2>1. db' = db /\ UpdateLinked(up') /\ up'.pc # "restore"
    BY <1>5, <1>7 DEF DropOldestSavepoint
  <2>2. CASE savepoints' = savepoints /\ torn' = torn
    BY <1>1, <2>1, <2>2
  <2>3. CASE savepoints' = Restrict(savepoints, Kept(savepoints)) /\ torn' = torn \cap Kept(savepoints)
    <3>1. Kept(savepoints) \subseteq DOMAIN savepoints
      BY DEF Kept
    <3>2. /\ DOMAIN savepoints' = Kept(savepoints)
          /\ \A s \in Kept(savepoints) : savepoints'[s] = savepoints[s]
      BY <2>3 DEF Restrict
    <3>3. torn' \subseteq DOMAIN savepoints'
      BY <2>3, <3>2
    <3> QED BY <1>1, <2>1, <3>1, <3>2, <3>3 DEF StoreOK
  <2> QED BY <1>7, <2>2, <2>3 DEF DropOldestSavepoint
<1>8. CASE CopyToSavepoint
  <2>1. db' = db /\ UpdateLinked(up') /\ up'.pc # "restore"
    BY <1>4, <1>5, <1>8 DEF CopyToSavepoint, ReturnErr
  <2>2. CASE savepoints' = savepoints /\ torn' = torn
    BY <1>1, <2>1, <2>2
  <2>3. CASE savepoints' = copy_to_savepoint /\ torn' = torn \ {SavepointHeight}
    <3>1. torn' \subseteq DOMAIN copy_to_savepoint
      BY <1>1, <2>3 DEF StoreOK, copy_to_savepoint
    <3> QED BY <2>1, <2>3, <3>1, SnapshotLinked
  <2> QED BY <1>8, <2>2, <2>3 DEF CopyToSavepoint
<1>9. CASE RecordSavepoint
  <2>1. db' \in Databases /\ db'.blocks = db.blocks
    BY <1>2, <1>9 DEF RecordSavepoint, SavepointHeight, Databases
  <2>2. savepoints' = savepoints /\ torn' = torn /\ UpdateLinked(up') /\ up'.pc # "restore"
    BY <1>5, <1>9 DEF RecordSavepoint
  <2> QED BY <1>1, <2>1, <2>2 DEF StoreOK
<1>10. CASE RestoreFiles
  <2>1. savepoints' = savepoints /\ torn' = torn /\ UpdateLinked(up') /\ up'.pc # "restore"
    BY <1>4, <1>5, <1>10 DEF RestoreFiles
  <2>2. CASE db' = db
    BY <1>1, <2>1, <2>2
  <2>3. CASE db' = savepoints[up.target]
    <3>1. up.target \in DOMAIN savepoints
      BY <1>1, <1>10 DEF UpdateLinked, RestoreFiles
    <3> QED BY <1>1, <2>1, <2>3, <3>1 DEF StoreOK
  <2> QED BY <1>10, <2>2, <2>3 DEF RestoreFiles
<1>11. CASE Crash
  <2>1. UpdateLinked(up') /\ up'.pc # "restore"
    BY <1>4, <1>5, <1>11 DEF Crash, ReturnErr
  <2>2. CASE db' = db /\ savepoints' = savepoints /\ torn' = torn
    BY <1>1, <2>1, <2>2
  <2>3. CASE db' = db /\ savepoints' = copy_to_savepoint /\ torn' = torn \cup {SavepointHeight}
    <3>1. torn' \subseteq DOMAIN copy_to_savepoint
      BY <1>1, <2>3 DEF StoreOK, copy_to_savepoint
    <3> QED BY <2>1, <2>3, <3>1, SnapshotLinked
  <2>4. CASE db' = NewDatabase /\ savepoints' = savepoints /\ torn' = torn
    <3>1. <<>> \in Seq(Forks) /\ Len(<<>>) = 0
      BY EmptySeq
    <3>2. db' \in Databases /\ db'.blocks = <<>>
      BY <2>4, <3>1 DEF NewDatabase, Databases
    <3>3. Ancestral(forks, db'.blocks)
      BY <3>1, <3>2 DEF Ancestral
    <3> QED BY <1>1, <2>1, <2>4, <3>2, <3>3 DEF StoreOK
  <2> QED BY <1>11, <2>2, <2>3, <2>4 DEF Crash
<1> QED BY <1>6, <1>7, <1>8, <1>9, <1>10, <1>11

\* Bitcoind's forks grow, by a block or by a fork.
LEMMA ForksGrow ==
  ASSUME LinkedInv, setup' = setup,
         Mine \/ \E orphans \in 1 .. setup.max_orphans, mined \in 0 .. setup.max_orphans + 1 : Reorg(orphans, mined)
  PROVE  /\ forks' \in Seq(Seq(Forks)) /\ Grown(forks, forks') /\ WellForked(forks')
         /\ Len(forks') <= setup.max_reorgs + 1
<1>1. TypeOK /\ WellForked(forks) /\ Len(forks) <= setup.max_reorgs + 1
  BY DEF LinkedInv
<1>2. setup.max_reorgs \in Nat /\ Forks \in SUBSET Nat /\ forks \in Seq(Seq(Forks))
  BY <1>1, Types
<1>3. Len(forks) \in Nat /\ Len(forks) >= 1 /\ chain = forks[Len(forks)] /\ Len(chain) \in Nat
  BY <1>1, BestChain
<1>4. CASE Mine
  <2>1. Len(forks) \in Forks
    BY <1>1, <1>2, <1>3 DEF Forks
  <2>2. forks' = [forks EXCEPT ![Len(forks)] = Append(@, Len(forks))]
    BY <1>4 DEF Mine
  <2> QED BY <1>1, <1>2, <2>1, <2>2, MineGrows
<1>5. ASSUME NEW orphans \in 1 .. setup.max_orphans, NEW mined \in 0 .. setup.max_orphans + 1, Reorg(orphans, mined)
      PROVE  /\ forks' \in Seq(Seq(Forks)) /\ Grown(forks, forks') /\ WellForked(forks')
             /\ Len(forks') <= setup.max_reorgs + 1
  <2> DEFINE k == Len(chain) - orphans
  <2>1. Len(forks) <= setup.max_reorgs /\ orphans < Len(chain)
    BY <1>5 DEF Reorg
  <2>2. setup.max_orphans \in Nat
    BY <1>1, IndexAssumption DEF TypeOK, SetupKinds
  <2>3. Len(forks) + 1 \in Forks
    BY <1>2, <1>3, <2>1 DEF Forks
  <2>4. k \in 1 .. Len(forks[Len(forks)]) /\ mined \in Nat
    BY <1>3, <2>1, <2>2
  <2>5. forks' = Append(forks, SubSeq(forks[Len(forks)], 1, k) \o [i \in 1 .. mined |-> Len(forks) + 1])
    BY <1>3, <1>5 DEF Reorg
  <2> HIDE DEF k
  <2>6. /\ forks' \in Seq(Seq(Forks)) /\ Len(forks') = Len(forks) + 1
        /\ Grown(forks, forks') /\ WellForked(forks')
    BY <1>1, <1>2, <2>3, <2>4, <2>5, ReorgGrows
  <2>7. Len(forks) + 1 <= setup.max_reorgs + 1
    BY <1>2, <1>3, <2>1
  <2> QED BY <2>6, <2>7
<1> QED BY <1>4, <1>5

\* One step of the index, or of bitcoind, keeps every chain one of ancestors.
LEMMA LinkedStep ==
  ASSUME LinkedInv, [Next]_vars
  PROVE  LinkedInv'
<1>1. /\ TypeOK /\ up \in Updates /\ UpdateLinked(up) /\ StoreOK(db, savepoints, torn) /\ quiet \in BOOLEAN
      /\ WellForked(forks) /\ Len(forks) <= setup.max_reorgs + 1
      /\ forks \in Seq(Seq(Forks)) /\ setup \in Setups
  BY DEF LinkedInv, TypeOK, StoreLinked, StoreOK
<1>2. setup' = setup
  BY DEF Next, vars
<1>3. quiet' \in BOOLEAN
  <2>1. CASE BeginUpdate
    <3>1. quiet' = (Len(db.blocks) <= Len(chain))
      BY <2>1 DEF BeginUpdate
    <3> QED BY <3>1
  <2>2. CASE \E orphans, mined : Reorg(orphans, mined)
    BY <2>2 DEF Reorg
  <2>3. CASE quiet' = quiet
    BY <1>1, <2>3
  <2> QED BY <2>1, <2>2, <2>3 DEF Next, vars, UpdateStep, UpdateLoop, IndexBlock, MeetReorg,
             FinishUpdate, CommitBlocks, DropOldestSavepoint, CopyToSavepoint, RecordSavepoint,
             DetectReorg, HandleReorg, RestoreFiles, FetchBlock, Mine, Crash
<1>4. ASSUME forks' = forks, StoreOK(db', savepoints', torn'), UpdateLinked(up'),
             savepoints' = savepoints \/ up'.pc # "restore"
      PROVE  LinkedInv'
  <2>1. Forks' = Forks /\ Databases' = Databases /\ Updates' = Updates
    BY <1>2 DEF Forks, Databases, Updates
  <2>2. UpdateLinked(up)'
    BY <1>4, <2>1 DEF UpdateLinked
  <2>3. StoreLinked'
    BY <1>4 DEF StoreOK, StoreLinked
  <2>4. TypeOK'
    BY <1>1, <1>2, <1>3, <1>4, <2>1 DEF TypeOK, StoreOK, UpdateLinked
  <2> QED BY <1>1, <1>2, <1>4, <2>2, <2>3, <2>4 DEF LinkedInv
<1>5. CASE BeginUpdate \/ DetectReorg \/ HandleReorg
  <2>1. forks' = forks /\ db' = db /\ savepoints' = savepoints /\ torn' = torn
    BY <1>5 DEF BeginUpdate, DetectReorg, HandleReorg
  <2> QED BY <1>1, <1>4, <1>5, <2>1, ReorgLinked
<1>6. CASE FetchBlock \/ IndexBlock \/ MeetReorg \/ FinishUpdate
  <2>1. forks' = forks /\ db' = db /\ savepoints' = savepoints /\ torn' = torn
    BY <1>6 DEF FetchBlock, IndexBlock, MeetReorg, FinishUpdate
  <2> QED BY <1>1, <1>4, <1>6, <2>1, LoopLinked
<1>7. CASE \/ CommitBlocks \/ DropOldestSavepoint \/ CopyToSavepoint \/ RecordSavepoint
           \/ RestoreFiles \/ Crash
  <2>1. forks' = forks
    BY <1>7 DEF CommitBlocks, DropOldestSavepoint, CopyToSavepoint, RecordSavepoint, RestoreFiles, Crash
  <2> QED BY <1>4, <1>7, <2>1, CommitLinked
<1>8. CASE Mine \/ \E orphans \in 1 .. setup.max_orphans, mined \in 0 .. setup.max_orphans + 1 : Reorg(orphans, mined)
  <2>1. /\ forks' \in Seq(Seq(Forks)) /\ Grown(forks, forks') /\ WellForked(forks')
        /\ Len(forks') <= setup.max_reorgs + 1
    BY <1>2, <1>8, ForksGrow
  <2>2. db' = db /\ savepoints' = savepoints /\ torn' = torn /\ (up' = up \/ up' = [up EXCEPT !.ok = FALSE])
    BY <1>8 DEF Mine, Reorg
  <2>3. /\ up' \in Updates /\ up'.blocks = up.blocks /\ up'.rx = up.rx /\ up'.pc = up.pc
        /\ up'.depth = up.depth /\ up'.target = up.target
    BY <1>1, <2>2 DEF Updates
  <2>4. Forks \in SUBSET Nat /\ Chains(forks) /\ Chains(forks')
    BY <1>1, <2>1, Types, SeqChains
  <2>5. \A b \in Seq(Nat) : Ancestral(forks, b) => Ancestral(forks', b)
    BY <2>1, <2>4, AncestralGrows
  <2>6. /\ db.blocks \in Seq(Nat) /\ up.blocks \in Seq(Nat) /\ up.rx \in Seq(Nat)
        /\ Len(up.blocks) \in Nat /\ Len(up.rx) \in Nat
        /\ \A s \in DOMAIN savepoints : savepoints[s].blocks \in Seq(Nat)
    BY <1>1, Types, UpdateTypes
  <2>7. StoreLinked'
    BY <1>1, <2>2, <2>5, <2>6 DEF StoreOK, StoreLinked
  <2>8. \A i \in 1 .. Len(up.rx) : Mined(forks', up.rx[i], Len(up.blocks) + i)
    <3> TAKE i \in 1 .. Len(up.rx)
    <3>1. Mined(forks, up.rx[i], Len(up.blocks) + i)
      BY <1>1 DEF UpdateLinked
    <3>2. up.rx[i] \in Nat
      BY <2>6, ElementOfSeq
    <3>3. Len(up.blocks) + i \in Nat
      <4> DEFINE n == Len(up.blocks)
                 m == Len(up.rx)
      <4>1. n \in Nat /\ m \in Nat /\ i \in 1 .. m
        BY <2>6
      <4> HIDE DEF n, m
      <4>2. n + i \in Nat
        BY <4>1
      <4> QED BY <4>2 DEF n
    <3> QED BY <2>1, <2>4, <3>1, <3>2, <3>3, MinedGrows
  <2>9. Forks' = Forks /\ Databases' = Databases /\ Updates' = Updates
    BY <1>2 DEF Forks, Databases, Updates
  <2>10. UpdateLinked(up)'
    <3>1. Ancestral(forks', up.blocks)
      BY <1>1, <2>5, <2>6 DEF UpdateLinked
    <3> QED BY <1>1, <2>2, <2>3, <2>8, <2>9, <3>1 DEF UpdateLinked
  <2>11. TypeOK'
    BY <1>1, <1>2, <1>3, <2>1, <2>2, <2>3, <2>9 DEF TypeOK, StoreOK
  <2> QED BY <1>2, <2>1, <2>7, <2>10, <2>11 DEF LinkedInv
<1>9. CASE UNCHANGED vars
  <2>1. forks' = forks /\ db' = db /\ savepoints' = savepoints /\ torn' = torn /\ up' = up
    BY <1>9 DEF vars
  <2> QED BY <1>1, <1>4, <2>1
<1> QED BY <1>5, <1>6, <1>7, <1>8, <1>9 DEF Next, UpdateStep, UpdateLoop

\* The invariant: the types, forks whose blocks have their ancestors, and an
\* index, savepoints and an update that hold chains of them.
THEOREM IndexInvariant == Spec => []LinkedInv
<1>1. Init => LinkedInv
  <2> SUFFICES ASSUME Init
               PROVE  LinkedInv
    OBVIOUS
  <2> DEFINE n == setup.initial_blocks
             c == [h \in 1 .. n |-> 1]
  <2>1. setup \in Setups /\ n \in Nat /\ n >= 1 /\ setup.max_reorgs \in Nat
    BY IndexAssumption DEF Init, SetupKinds, Positive
  <2>2. 1 \in Forks
    BY <2>1 DEF Forks
  <2>3. c \in Seq(Forks) /\ Len(c) = n /\ \A p \in 1 .. n : c[p] = 1
    <3>1. c \in [1 .. n -> Forks]
      BY <2>2
    <3> HIDE DEF n, c
    <3>2. c \in Seq(Forks)
      BY <2>1, <3>1, SeqDef
    <3>3. Len(c) = n
      BY <2>1, <3>1, <3>2
    <3> QED BY <3>2, <3>3 DEF c
  <2>4. forks = <<c>>
    BY DEF Init
  <2> HIDE DEF n, c
  <2>5. forks \in Seq(Seq(Forks)) /\ Len(forks) = 1 /\ forks[1] = c
    BY <2>3, <2>4
  <2>6. Ancestral(forks, c)
    BY <2>1, <2>3, <2>5 DEF Ancestral, Mined
  <2>7. WellForked(forks)
    BY <2>1, <2>3, <2>5, <2>6 DEF WellForked
  <2>8. <<>> \in Seq(Forks) /\ Len(<<>>) = 0
    BY EmptySeq
  <2>9. db = NewDatabase /\ savepoints = <<>> /\ torn = {} /\ up = Idle /\ quiet = TRUE
    BY DEF Init
  <2>10. db \in Databases /\ db.blocks = <<>>
    BY <2>8, <2>9 DEF NewDatabase, Databases
  <2>11. DOMAIN savepoints = {}
    BY <2>9
  <2>12. up \in Updates
    BY <2>8, <2>9 DEF Idle, Updates, Pcs
  <2>13. TypeOK
    BY <2>1, <2>5, <2>9, <2>10, <2>11, <2>12 DEF TypeOK
  <2>14. StoreLinked
    BY <2>8, <2>10, <2>11 DEF StoreLinked, Ancestral
  <2>15. UpdateLinked(up)
    BY <2>9, <2>13, IdleTyped
  <2> QED BY <2>1, <2>5, <2>7, <2>13, <2>14, <2>15 DEF LinkedInv
<1> QED BY <1>1, LinkedStep, PTL DEF Spec

\* Every block of the index and of every snapshot follows its parent, whatever
\* bitcoind does while blocks are fetched ahead of the loop that indexes them,
\* and wherever the process is killed.
THEOREM IndexStaysLinked == Spec => []IndexLinked
<1>1. LinkedInv => IndexLinked
  <2> SUFFICES ASSUME LinkedInv
               PROVE  IndexLinked
    OBVIOUS
  <2>1. TypeOK /\ StoreLinked
    BY DEF LinkedInv
  <2>2. db.blocks \in Seq(Nat) /\ \A s \in DOMAIN savepoints : savepoints[s].blocks \in Seq(Nat)
    BY <2>1, Types
  <2> QED BY <2>1, <2>2, AncestralLinked DEF IndexLinked, StoreLinked
<1> QED BY <1>1, IndexInvariant, PTL

-----------------------------------------------------------------------------
\* An update that succeeds has followed the chain

\* Where update is while the fetch thread may run.
Fetching == {"loop", "commit", "savepoint", "copy", "record"}

\* What was fetched is on the best chain, above the blocks of the update.
FetchedOn(u) ==
  \A i \in 1 .. Len(u.rx) : Len(u.blocks) + i <= Len(chain) /\ u.rx[i] = chain[Len(u.blocks) + i]

\* The update is on the best chain, or has indexed nothing yet and will still
\* compare its tip with the parent of a block.
Following(u) ==
  \/ IsOn(u.blocks, chain)
  \/ /\ u.pc = "loop" /\ u.uncommitted = 0
     /\ Len(u.blocks) < Len(chain) /\ (u.rx # <<>> \/ u.fetching)

\* Without uncommitted blocks the write transaction has what the database has.
CommitInv ==
  /\ up.ok => up.pc = "idle"
  /\ (up.pc \in Fetching \ {"commit"} /\ up.uncommitted = 0 => db.blocks = up.blocks)
  /\ (up.pc \in {"savepoint", "copy", "record"} => up.uncommitted = 0)

OnChainInv ==
  "rpc" \notin setup.faults =>
    /\ up.ok => IsOn(db.blocks, chain)
    /\ (quiet /\ up.pc \in Fetching => FetchedOn(up) /\ Following(up))

\* The chain gets longer under what is on it.
LEMMA MineExtends ==
  ASSUME LinkedInv, Mine
  PROVE  /\ Len(chain) \in Nat /\ Len(chain') = Len(chain) + 1
         /\ \A p \in 1 .. Len(chain) : chain'[p] = chain[p]
<1>1. TypeOK /\ WellForked(forks) /\ Len(forks) <= setup.max_reorgs + 1
  BY DEF LinkedInv
<1>2. setup.max_reorgs \in Nat /\ Forks \in SUBSET Nat /\ forks \in Seq(Seq(Forks))
  BY <1>1, Types
<1>3. Len(forks) \in Nat /\ Len(forks) >= 1 /\ chain = forks[Len(forks)] /\ chain \in Seq(Nat) /\ Len(chain) \in Nat
  BY <1>1, BestChain
<1>4. Len(forks) \in Forks
  BY <1>1, <1>2, <1>3 DEF Forks
<1>5. forks' = [forks EXCEPT ![Len(forks)] = Append(@, Len(forks))]
  BY DEF Mine
<1>6. Len(forks') = Len(forks) /\ forks'[Len(forks)] = Append(forks[Len(forks)], Len(forks))
  BY <1>1, <1>2, <1>4, <1>5, MineGrows
<1>7. chain' = Append(chain, Len(forks))
  BY <1>3, <1>6 DEF chain, Last
<1> QED BY <1>3, <1>7, AppendProperties

\* What is on the chain stays on it when a block is mined.
LEMMA MineOn ==
  ASSUME LinkedInv, Mine
  PROVE  /\ \A b \in Seq(Nat) : IsOn(b, chain) => IsOn(b, chain')
         /\ FetchedOn(up) => FetchedOn(up)'
<1> DEFINE l == Len(chain)
<1>1. l \in Nat /\ Len(chain') = l + 1 /\ \A p \in 1 .. l : chain'[p] = chain[p]
  BY MineExtends
<1>2. up' = up
  BY DEF Mine
<1>3. Len(up.blocks) \in Nat /\ Len(up.rx) \in Nat
  BY UpdateTypes DEF LinkedInv, TypeOK
<1>4. ASSUME NEW b \in Seq(Nat), IsOn(b, chain)
      PROVE  IsOn(b, chain')
  <2> DEFINE n == Len(b)
  <2>1. n \in Nat /\ n <= l /\ \A p \in 1 .. n : b[p] = chain[p]
    BY <1>4, LenProperties DEF IsOn
  <2> HIDE DEF l, n
  <2>2. n <= Len(chain') /\ \A p \in 1 .. n : b[p] = chain'[p]
    BY <1>1, <2>1
  <2> QED BY <2>2 DEF IsOn, n
<1>5. ASSUME FetchedOn(up), NEW i \in 1 .. Len(up.rx)
      PROVE  Len(up.blocks) + i <= Len(chain') /\ up.rx[i] = chain'[Len(up.blocks) + i]
  <2> DEFINE n == Len(up.blocks)
             m == Len(up.rx)
  <2>1. n + i <= l /\ up.rx[i] = chain[n + i] /\ n \in Nat /\ m \in Nat /\ i \in 1 .. m
    BY <1>3, <1>5 DEF FetchedOn
  <2> HIDE DEF n, m, l
  <2>2. n + i <= Len(chain') /\ up.rx[i] = chain'[n + i]
    BY <1>1, <2>1
  <2> QED BY <2>2 DEF n
<1> QED BY <1>2, <1>4, <1>5 DEF FetchedOn

\* An update that has failed, or looks for the point of a reorg, says nothing
\* of the chain.
LEMMA NotFetching ==
  ASSUME up'.ok = FALSE, up'.pc \notin Fetching
  PROVE  CommitInv' /\ OnChainInv'
BY DEF CommitInv, OnChainInv, Fetching

\* What the fetch thread adds is on the chain.
LEMMA FetchOn ==
  ASSUME LinkedInv, FetchBlock, FetchedOn(up)
  PROVE  FetchedOn(up)'
<1> DEFINE n == Len(up.blocks)
           m == Len(up.rx)
           l == Len(chain)
<1>1. TypeOK /\ up \in Updates /\ WellForked(forks)
  BY DEF LinkedInv, TypeOK
<1>2. up.rx \in Seq(Nat) /\ n \in Nat /\ m \in Nat /\ l \in Nat /\ chain \in Seq(Nat)
  BY <1>1, UpdateTypes, BestChain
<1>3. chain' = chain
  BY DEF FetchBlock, chain
<1>4. /\ up'.blocks = up.blocks
      /\ \/ NextFetch <= l /\ up'.rx = Append(up.rx, chain[NextFetch])
         \/ up'.rx = up.rx
  BY <1>1 DEF FetchBlock, Updates
<1>5. NextFetch = n + m + 1 /\ \A i \in 1 .. m : n + i <= l /\ up.rx[i] = chain[n + i]
  BY DEF NextFetch, FetchedOn
<1>6. CASE NextFetch <= l /\ up'.rx = Append(up.rx, chain[NextFetch])
  <2> DEFINE x == chain[NextFetch]
             r == Append(up.rx, x)
  <2>1. NextFetch \in 1 .. l
    <3> HIDE DEF n, m, l
    <3> QED BY <1>2, <1>5, <1>6
  <2>2. x \in Nat
    BY <1>1, <2>1, BestChain
  <2>3. Len(r) = m + 1 /\ r[m + 1] = x /\ (\A i \in 1 .. m : r[i] = up.rx[i])
    <3> HIDE DEF x
    <3> QED BY <1>2, <2>2, AppendProperties
  <2>4. \A i \in 1 .. Len(r) : n + i <= l /\ r[i] = chain[n + i]
    <3> TAKE i \in 1 .. Len(r)
    <3> HIDE DEF n, m, l, r
    <3>1. CASE i \in 1 .. m
      BY <1>5, <2>3, <3>1
    <3>2. CASE i = m + 1
      <4>1. n + i = NextFetch
        BY <1>2, <1>5, <3>2
      <4> QED BY <1>6, <2>3, <3>2, <4>1
    <3> QED BY <1>2, <2>3, <3>1, <3>2
  <2> HIDE DEF r, x
  <2>5. up'.rx = r
    BY <1>6 DEF r, x
  <2> QED BY <1>3, <1>4, <2>4, <2>5 DEF FetchedOn
<1>7. CASE up'.rx = up.rx
  BY <1>3, <1>4, <1>7 DEF FetchedOn
<1> QED BY <1>4, <1>6, <1>7

\* The fetch thread.
LEMMA FetchFollows ==
  ASSUME LinkedInv, CommitInv, OnChainInv, FetchBlock, UNCHANGED setup
  PROVE  CommitInv' /\ OnChainInv'
<1> DEFINE n == Len(up.blocks)
           m == Len(up.rx)
           l == Len(chain)
<1>1. TypeOK /\ up \in Updates /\ WellForked(forks)
  BY DEF LinkedInv, TypeOK
<1>2. up.rx \in Seq(Nat) /\ n \in Nat /\ m \in Nat /\ l \in Nat /\ chain \in Seq(Nat)
  BY <1>1, UpdateTypes, BestChain
<1>3. forks' = forks /\ db' = db /\ quiet' = quiet /\ chain' = chain /\ up.pc \in Fetching
  BY DEF FetchBlock, chain, Fetching
<1>4. /\ up'.pc = up.pc /\ up'.ok = up.ok /\ up'.blocks = up.blocks /\ up'.uncommitted = up.uncommitted
      /\ \/ NextFetch <= l /\ up'.rx = Append(up.rx, chain[NextFetch]) /\ up'.fetching = up.fetching
         \/ (NextFetch > l \/ "rpc" \in setup.faults) /\ up'.rx = up.rx
  BY <1>1 DEF FetchBlock, Updates
<1>5. CommitInv'
  BY <1>3, <1>4 DEF CommitInv
<1>6. NextFetch = n + m + 1
  BY DEF NextFetch
<1>7. ASSUME "rpc" \notin setup.faults, quiet
      PROVE  FetchedOn(up)' /\ Following(up)'
  <2>1. FetchedOn(up) /\ Following(up)
    BY <1>3, <1>7 DEF OnChainInv
  <2>2. FetchedOn(up)'
    BY <2>1, FetchOn
  <2>3. CASE NextFetch <= l /\ up'.rx = Append(up.rx, chain[NextFetch]) /\ up'.fetching = up.fetching
    <3>1. NextFetch \in 1 .. l
      <4> HIDE DEF n, m, l
      <4> QED BY <1>2, <1>6, <2>3
    <3>2. chain[NextFetch] \in Nat
      BY <1>1, <3>1, BestChain
    <3>3. up'.rx # <<>>
      <4> DEFINE x == chain[NextFetch]
      <4>1. x \in Nat /\ up'.rx = Append(up.rx, x)
        BY <2>3, <3>2
      <4> HIDE DEF x
      <4>2. Append(up.rx, x) # <<>>
        BY <1>2, <4>1, AppendProperties
      <4> QED BY <4>1, <4>2
    <3> HIDE DEF n, m, l
    <3>4. Following(up)'
      BY <1>3, <1>4, <2>1, <3>3 DEF Following
    <3> QED BY <2>2, <3>4
  <2>4. CASE NextFetch > l /\ up'.rx = up.rx
    <3>1. n < l => up.rx # <<>>
      <4> SUFFICES ASSUME n < l, up.rx = <<>>
                   PROVE  FALSE
        OBVIOUS
      <4>1. m = 0
        BY EmptySeq
      <4> HIDE DEF n, m, l
      <4> QED BY <1>2, <1>6, <2>4, <4>1
    <3>2. Following(up)'
      BY <1>3, <1>4, <2>1, <2>4, <3>1 DEF Following
    <3> QED BY <2>2, <3>2
  <2> QED BY <1>4, <1>7, <2>3, <2>4
<1>8. OnChainInv'
  <2>1. "rpc" \notin setup.faults => (up'.ok => IsOn(db'.blocks, chain'))
    BY <1>3, <1>4 DEF OnChainInv
  <2> QED BY <1>3, <1>7, <2>1 DEF OnChainInv
<1> QED BY <1>5, <1>8

\* A block whose parent is the tip shows that the tip is on the chain.
LEMMA LinkShowsChain ==
  ASSUME LinkedInv, up.rx # <<>>, FetchedOn(up), LinksTo(Head(up.rx))
  PROVE  IsOn(Append(up.blocks, Head(up.rx)), chain)
<1> DEFINE n == Len(up.blocks)
           m == Len(up.rx)
           l == Len(chain)
           f == Head(up.rx)
           b == Append(up.blocks, f)
<1>1. TypeOK /\ up \in Updates /\ WellForked(forks) /\ Ancestral(forks, up.blocks)
  BY DEF LinkedInv, TypeOK, UpdateLinked
<1>2. /\ up.rx \in Seq(Nat) /\ up.blocks \in Seq(Nat) /\ n \in Nat /\ m \in Nat /\ l \in Nat
      /\ chain \in Seq(Nat) /\ Ancestral(forks, chain)
  BY <1>1, UpdateTypes, BestChain
<1>3. m >= 1 /\ f = up.rx[1] /\ f \in Nat
  BY <1>2, HeadTailProperties, EmptySeq
<1>4. n + 1 <= l /\ f = chain[n + 1]
  <2>1. 1 \in 1 .. m
    <3> HIDE DEF m
    <3> QED BY <1>2, <1>3
  <2> QED BY <1>3, <2>1 DEF FetchedOn
<1>5. Len(b) = n + 1 /\ b[n + 1] = f /\ \A p \in 1 .. n : b[p] = up.blocks[p]
  <2> HIDE DEF f
  <2> QED BY <1>2, <1>3, AppendProperties
<1>6. \A p \in 1 .. n : up.blocks[p] = chain[p]
  <2>1. CASE n = 0
    BY <2>1
  <2>2. CASE n > 0
    <3>1. n \in 1 .. n /\ n \in 1 .. l /\ n + 1 \in 1 .. l /\ n \in 1 .. (n + 1) - 1
      <4> HIDE DEF n, l
      <4> QED BY <1>2, <1>4, <2>2
    <3>2. up.blocks[n] = forks[f][n]
      BY <2>2 DEF LinksTo
    <3>3. chain[n] = forks[chain[n + 1]][n]
      BY <1>2, <3>1 DEF Ancestral
    <3>4. up.blocks[n] = chain[n]
      BY <1>4, <3>2, <3>3
    <3> QED BY <1>1, <1>2, <3>1, <3>4, SameAncestors
  <2> HIDE DEF n
  <2> QED BY <1>2, <2>1, <2>2
<1> HIDE DEF n, m, l, f, b
<1>7. ASSUME NEW p \in 1 .. Len(b)
      PROVE  b[p] = chain[p]
  <2>1. CASE p \in 1 .. n
    BY <1>5, <1>6, <2>1
  <2>2. CASE p = n + 1
    BY <1>4, <1>5, <2>2
  <2> QED BY <1>2, <1>5, <2>1, <2>2
<1> QED BY <1>4, <1>5, <1>7 DEF IsOn, b, f, l

\* A block that was fetched from the chain, and links, leaves the update on it.
LEMMA IndexOn ==
  ASSUME LinkedInv, IndexBlock, FetchedOn(up)
  PROVE  FetchedOn(up)' /\ IsOn(up'.blocks, chain) /\ chain' = chain
<1> DEFINE n == Len(up.blocks)
           m == Len(up.rx)
           l == Len(chain)
           f == Head(up.rx)
           b == Append(up.blocks, f)
           t == Tail(up.rx)
<1>1. TypeOK /\ up \in Updates /\ WellForked(forks)
  BY DEF LinkedInv, TypeOK
<1>2. up.rx \in Seq(Nat) /\ up.blocks \in Seq(Nat) /\ n \in Nat /\ m \in Nat /\ l \in Nat
  BY <1>1, UpdateTypes, BestChain
<1>3. chain' = chain /\ up.rx # <<>> /\ LinksTo(f)
  BY DEF IndexBlock, chain
<1>4. up'.blocks = b /\ up'.rx = t
  BY <1>1 DEF IndexBlock, Updates
<1> HIDE DEF b, t
<1>5. IsOn(b, chain)
  BY <1>3, LinkShowsChain DEF b
<1>6. Len(t) = m - 1 /\ \A i \in 1 .. Len(t) : t[i] = up.rx[i + 1]
  BY <1>2, <1>3, HeadTailProperties, LenProperties DEF t
<1>7. Len(b) = n + 1
  <2>1. f \in Nat
    BY <1>2, <1>3, HeadTailProperties
  <2> HIDE DEF f
  <2> QED BY <1>2, <2>1, AppendProperties DEF b
<1>8. \A i \in 1 .. m : n + i <= l /\ up.rx[i] = chain[n + i]
  BY DEF FetchedOn
<1>9. ASSUME NEW i \in 1 .. Len(t)
      PROVE  Len(b) + i <= l /\ t[i] = chain[Len(b) + i]
  <2> HIDE DEF n, m, l, f
  <2>1. n \in Nat /\ m \in Nat /\ i \in 1 .. m - 1 /\ Len(b) = n + 1
    BY <1>2, <1>6, <1>7
  <2>2. i + 1 \in 1 .. m /\ Len(b) + i = n + (i + 1)
    BY <2>1
  <2> QED BY <1>6, <1>8, <2>2
<1> QED BY <1>3, <1>4, <1>5, <1>9 DEF FetchedOn

\* The block loop.
LEMMA LoopFollows ==
  ASSUME LinkedInv, CommitInv, OnChainInv, IndexBlock \/ FinishUpdate, UNCHANGED setup
  PROVE  CommitInv' /\ OnChainInv'
<1> DEFINE n == Len(up.blocks)
           m == Len(up.rx)
           l == Len(chain)
<1>1. TypeOK /\ up \in Updates /\ WellForked(forks)
  BY DEF LinkedInv, TypeOK
<1>2. /\ up.rx \in Seq(Nat) /\ up.blocks \in Seq(Nat) /\ n \in Nat /\ m \in Nat /\ l \in Nat
      /\ up.uncommitted \in Nat /\ up.ok \in BOOLEAN
  BY <1>1, UpdateTypes, BestChain
<1>3. forks' = forks /\ db' = db /\ quiet' = quiet /\ chain' = chain /\ up.pc = "loop" /\ up.ok = FALSE
  BY <1>2 DEF IndexBlock, FinishUpdate, chain, CommitInv
<1>4. "rpc" \notin setup.faults /\ quiet => FetchedOn(up) /\ Following(up)
  BY <1>3 DEF OnChainInv, Fetching
<1>5. CASE IndexBlock
  <2> DEFINE f == Head(up.rx)
             b == Append(up.blocks, f)
             t == Tail(up.rx)
  <2>1. up.rx # <<>> /\ LinksTo(f)
    BY <1>5 DEF IndexBlock
  <2>2. /\ up'.pc \in {"commit", "loop"} /\ up'.ok = FALSE /\ up'.blocks = b /\ up'.rx = t
        /\ up'.uncommitted = up.uncommitted + 1
    BY <1>1, <1>3, <1>5 DEF IndexBlock, Updates
  <2>3. up'.uncommitted # 0
    BY <1>2, <2>2
  <2> HIDE DEF b, t
  <2>4. CommitInv'
    BY <2>2, <2>3 DEF CommitInv
  <2>5. ASSUME "rpc" \notin setup.faults, quiet
        PROVE  FetchedOn(up)' /\ Following(up)'
    <3>1. FetchedOn(up)
      BY <1>4, <2>5
    <3>2. FetchedOn(up)' /\ IsOn(up'.blocks, chain)
      BY <1>5, <3>1, IndexOn
    <3>3. Following(up)'
      BY <1>3, <2>2, <3>2 DEF Following
    <3> QED BY <3>2, <3>3
  <2>6. OnChainInv'
    BY <1>3, <2>2, <2>5 DEF OnChainInv
  <2> QED BY <2>4, <2>6
<1>6. CASE FinishUpdate /\ up.uncommitted > 0
  <2>1. /\ up'.pc = "commit" /\ up'.ok = FALSE /\ up'.blocks = up.blocks /\ up'.rx = <<>>
    BY <1>1, <1>3, <1>6 DEF FinishUpdate, Updates
  <2>2. CommitInv'
    BY <2>1 DEF CommitInv
  <2>3. ASSUME "rpc" \notin setup.faults, quiet
        PROVE  FetchedOn(up)' /\ Following(up)'
    <3>1. IsOn(up.blocks, chain)
      BY <1>2, <1>4, <1>6, <2>3 DEF Following
    <3>2. Len(up'.rx) = 0
      BY <2>1, EmptySeq
    <3> QED BY <1>3, <2>1, <3>1, <3>2 DEF FetchedOn, Following
  <2>4. OnChainInv'
    BY <1>3, <2>1, <2>3 DEF OnChainInv
  <2> QED BY <2>2, <2>4
<1>7. CASE FinishUpdate /\ ~(up.uncommitted > 0)
  <2>1. up.uncommitted = 0
    BY <1>2, <1>7
  <2>2. up.rx = <<>> /\ ~up.fetching
    BY <1>7 DEF FinishUpdate
  <2>3. up' = [Idle EXCEPT !.ok = quiet]
    BY <1>7 DEF FinishUpdate
  <2>4. up'.pc = "idle" /\ up'.ok = quiet
    BY <2>3 DEF Idle
  <2>5. db.blocks = up.blocks
    BY <1>3, <2>1 DEF CommitInv, Fetching
  <2>6. "rpc" \notin setup.faults /\ quiet => IsOn(db.blocks, chain)
    BY <1>4, <2>2, <2>5 DEF Following
  <2> QED BY <1>3, <2>4, <2>6 DEF CommitInv, OnChainInv, Fetching
<1> QED BY <1>5, <1>6, <1>7

\* Commits and savepoints.
LEMMA CommitFollows ==
  ASSUME LinkedInv, CommitInv, OnChainInv,
         CommitBlocks \/ DropOldestSavepoint \/ CopyToSavepoint \/ RecordSavepoint, UNCHANGED setup
  PROVE  CommitInv' /\ OnChainInv'
<1>1. TypeOK /\ up \in Updates /\ db \in Databases /\ up.ok \in BOOLEAN
  BY DEF LinkedInv, TypeOK, Updates
<1>2. up' = Idle => CommitInv' /\ OnChainInv'
  <2>1. Idle.ok = FALSE /\ Idle.pc \notin Fetching
    BY DEF Idle, Fetching
  <2> QED BY <2>1, NotFetching
<1>3. /\ forks' = forks /\ quiet' = quiet /\ chain' = chain
      /\ up.pc \in {"commit", "savepoint", "copy", "record"} /\ up.ok = FALSE
  BY <1>1 DEF CommitBlocks, DropOldestSavepoint, CopyToSavepoint, RecordSavepoint, chain, CommitInv
<1>4. up.pc # "commit" => db.blocks = up.blocks /\ up.uncommitted = 0
  BY <1>3 DEF CommitInv, Fetching
<1>5. "rpc" \notin setup.faults /\ quiet => FetchedOn(up) /\ IsOn(up.blocks, chain)
  BY <1>3 DEF OnChainInv, Fetching, Following
<1>6. SUFFICES ASSUME up' # Idle
               PROVE  CommitInv' /\ OnChainInv'
  BY <1>2
<1>7. /\ up'.pc \in {"savepoint", "copy", "record", "loop"} /\ up'.ok = FALSE
      /\ up'.blocks = up.blocks /\ up'.rx = up.rx /\ up'.uncommitted = 0 /\ db'.blocks = up.blocks
  <2>1. CASE CommitBlocks
    BY <1>1, <1>3, <2>1 DEF CommitBlocks, Updates, Databases
  <2>2. CASE DropOldestSavepoint
    BY <1>1, <1>3, <1>4, <2>2 DEF DropOldestSavepoint, Goto, Updates
  <2>3. CASE CopyToSavepoint
    BY <1>1, <1>3, <1>4, <1>6, <2>3 DEF CopyToSavepoint, Goto, ReturnErr, Updates
  <2>4. CASE RecordSavepoint
    BY <1>1, <1>3, <1>4, <2>4 DEF RecordSavepoint, Goto, Updates, Databases
  <2> QED BY <2>1, <2>2, <2>3, <2>4
<1>8. CommitInv'
  BY <1>7 DEF CommitInv
<1>9. "rpc" \notin setup.faults /\ quiet => FetchedOn(up)' /\ Following(up)'
  BY <1>3, <1>5, <1>7 DEF FetchedOn, Following
<1>10. OnChainInv'
  BY <1>3, <1>7, <1>9 DEF OnChainInv
<1> QED BY <1>8, <1>10

\* An update begins on the chain, or with a block to compare its tip with, or
\* it has noticed that its tip is not the chain's.
LEMMA BeginFollows ==
  ASSUME LinkedInv, CommitInv, OnChainInv, BeginUpdate, UNCHANGED setup
  PROVE  CommitInv' /\ OnChainInv'
<1> DEFINE n == Len(db.blocks)
           l == Len(chain)
<1>1. TypeOK /\ WellForked(forks) /\ Ancestral(forks, db.blocks)
  BY DEF LinkedInv, StoreLinked
<1>2. /\ db.blocks \in Seq(Nat) /\ n \in Nat /\ l \in Nat /\ l >= 1 /\ chain \in Seq(Nat)
      /\ Ancestral(forks, chain)
  BY <1>1, Types, BestChain
<1>3. db' = db /\ chain' = chain /\ (quiet' => n <= l)
  BY DEF BeginUpdate, chain
<1>4. CASE TipReorged(db.blocks)
  <2>1. up' = [Idle EXCEPT !.pc = "detect", !.blocks = db.blocks, !.depth = 1]
    BY <1>4 DEF BeginUpdate
  <2>2. up'.ok = FALSE /\ up'.pc \notin Fetching
    BY <2>1 DEF Idle, Fetching
  <2> QED BY <2>2, NotFetching
<1>5. CASE ~TipReorged(db.blocks)
  <2>1. up' = [Idle EXCEPT !.pc = "loop", !.blocks = db.blocks, !.fetching = TRUE]
    BY <1>5 DEF BeginUpdate
  <2>2. /\ up'.ok = FALSE /\ up'.pc = "loop" /\ up'.blocks = db.blocks /\ up'.uncommitted = 0
        /\ up'.rx = <<>> /\ up'.fetching = TRUE
    BY <2>1 DEF Idle
  <2>3. CommitInv'
    BY <1>3, <2>2 DEF CommitInv
  <2>4. Len(up'.rx) = 0
    BY <2>2, EmptySeq
  <2>5. FetchedOn(up)'
    BY <2>4 DEF FetchedOn
  <2>6. ASSUME n = l
        PROVE  IsOn(db.blocks, chain)
    <3>1. n \in 1 .. Len(db.blocks) /\ n \in 1 .. Len(chain)
      BY <1>2, <2>6
    <3>2. db.blocks[n] = chain[n]
      BY <1>5, <2>6 DEF TipReorged, Last
    <3>3. \A p \in 1 .. n : db.blocks[p] = chain[p]
      BY <1>1, <1>2, <3>1, <3>2, SameAncestors
    <3>4. n <= l
      BY <1>2, <2>6
    <3> QED BY <3>3, <3>4 DEF IsOn
  <2>7. quiet' => Following(up)'
    <3>1. quiet' => n = l \/ n < l
      <4> HIDE DEF n, l
      <4> QED BY <1>2, <1>3
    <3> QED BY <1>3, <2>2, <2>6, <3>1 DEF Following
  <2>8. OnChainInv'
    BY <2>2, <2>5, <2>7 DEF OnChainInv
  <2> QED BY <2>3, <2>8
<1> QED BY <1>4, <1>5

\* Bitcoind mines a block: what was on its chain still is.
LEMMA MineFollows ==
  ASSUME LinkedInv, CommitInv, OnChainInv, Mine, UNCHANGED setup
  PROVE  CommitInv' /\ OnChainInv'
<1> DEFINE l == Len(chain)
<1>1. l \in Nat /\ Len(chain') = l + 1 /\ \A p \in 1 .. l : chain'[p] = chain[p]
  BY MineExtends
<1>2. db' = db /\ up' = up /\ quiet' = quiet
  BY DEF Mine
<1>3. TypeOK /\ up \in Updates
  BY DEF LinkedInv, TypeOK
<1>4. /\ db.blocks \in Seq(Nat) /\ Len(db.blocks) \in Nat /\ up.blocks \in Seq(Nat) /\ Len(up.blocks) \in Nat
      /\ Len(up.rx) \in Nat
  BY <1>3, Types, UpdateTypes
<1>5. /\ \A b \in Seq(Nat) : IsOn(b, chain) => IsOn(b, chain')
      /\ FetchedOn(up) => FetchedOn(up)'
  BY MineOn
<1>6. Following(up) => Following(up)'
  <2> DEFINE n == Len(up.blocks)
  <2>1. n < l => n < Len(chain')
    <3>1. n \in Nat
      BY <1>4
    <3> HIDE DEF n, l
    <3> QED BY <1>1, <3>1
  <2> QED BY <1>2, <1>4, <1>5, <2>1 DEF Following
<1>7. CommitInv'
  BY <1>2 DEF CommitInv
<1>8. OnChainInv'
  BY <1>2, <1>4, <1>5, <1>6 DEF OnChainInv
<1> QED BY <1>7, <1>8

\* One step keeps what is known of an update, and of one that has returned.
LEMMA FollowStep ==
  ASSUME LinkedInv, CommitInv, OnChainInv, [Next]_vars
  PROVE  CommitInv' /\ OnChainInv'
<1>1. setup' = setup /\ up \in Updates
  BY DEF Next, vars, LinkedInv, TypeOK
<1>2. ASSUME up' = Idle
      PROVE  CommitInv' /\ OnChainInv'
  <2>1. up'.ok = FALSE /\ up'.pc \notin Fetching
    BY <1>2 DEF Idle, Fetching
  <2> QED BY <2>1, NotFetching
<1>3. ASSUME up'.pc \notin Fetching, up'.ok = up.ok, up.pc # "idle"
      PROVE  CommitInv' /\ OnChainInv'
  <2>1. up'.ok = FALSE
    BY <1>1, <1>3 DEF CommitInv, Updates
  <2> QED BY <1>3, <2>1, NotFetching
<1>4. CASE MeetReorg
  <2>1. up'.pc = "detect" /\ up'.ok = up.ok /\ up.pc = "loop"
    BY <1>1, <1>4 DEF MeetReorg, Updates
  <2> QED BY <1>3, <2>1 DEF Fetching
<1>5. CASE DetectReorg
  <2>1. up' = Idle \/ (up'.pc \in {"detect", "recover"} /\ up'.ok = up.ok /\ up.pc = "detect")
    BY <1>1, <1>5 DEF DetectReorg, ReturnErr, Updates
  <2> QED BY <1>2, <1>3, <2>1 DEF Fetching
<1>6. CASE HandleReorg
  <2>1. up' = Idle \/ (up'.pc = "restore" /\ up'.ok = up.ok /\ up.pc = "recover")
    BY <1>1, <1>6 DEF HandleReorg, ReturnErr, Updates
  <2> QED BY <1>2, <1>3, <2>1 DEF Fetching
<1>7. CASE RestoreFiles
  <2>1. up' = Idle \/ (up'.pc = "broken" /\ up'.ok = up.ok /\ up.pc = "restore")
    BY <1>1, <1>7 DEF RestoreFiles, Goto, Updates
  <2> QED BY <1>2, <1>3, <2>1 DEF Fetching
<1>8. CASE Crash
  <2>1. up' = Idle \/ (up'.pc = "broken" /\ up'.ok = up.ok /\ up.pc = "restore")
    BY <1>1, <1>8 DEF Crash, ReturnErr, Goto, Updates
  <2> QED BY <1>2, <1>3, <2>1 DEF Fetching
<1>9. ASSUME NEW orphans, NEW mined, Reorg(orphans, mined)
      PROVE  CommitInv' /\ OnChainInv'
  <2>1. /\ up'.pc = up.pc /\ up'.blocks = up.blocks /\ up'.uncommitted = up.uncommitted /\ up'.ok = FALSE
        /\ db' = db /\ quiet' = FALSE
    BY <1>1, <1>9 DEF Reorg, Updates
  <2>2. CommitInv'
    BY <2>1 DEF CommitInv
  <2>3. OnChainInv'
    BY <2>1 DEF OnChainInv
  <2> QED BY <2>2, <2>3
<1>10. CASE UNCHANGED vars
  <2>1. forks' = forks /\ db' = db /\ up' = up /\ quiet' = quiet /\ chain' = chain
    BY <1>10 DEF vars, chain
  <2>2. CommitInv'
    BY <2>1 DEF CommitInv
  <2>3. FetchedOn(up)' = FetchedOn(up) /\ Following(up)' = Following(up)
    BY <2>1 DEF FetchedOn, Following
  <2>4. OnChainInv'
    BY <1>1, <2>1, <2>3 DEF OnChainInv
  <2> QED BY <2>2, <2>4
<1> QED BY <1>1, <1>4, <1>5, <1>6, <1>7, <1>8, <1>9, <1>10, BeginFollows, FetchFollows, LoopFollows,
           CommitFollows, MineFollows DEF Next, UpdateStep, UpdateLoop

\* An update that returns Ok, and during which bitcoind did not reorg, leaves the
\* index on bitcoind's chain, after any number of earlier reorgs and crashes.
THEOREM UpdatedIndexStaysOnChain == Spec => []UpdatedIndexOnChain
<1>1. Init => CommitInv /\ OnChainInv
  BY DEF Init, Idle, CommitInv, OnChainInv, Fetching
<1>2. Spec => [](CommitInv /\ OnChainInv)
  BY <1>1, IndexInvariant, FollowStep, PTL DEF Spec
<1>3. LinkedInv /\ OnChainInv => UpdatedIndexOnChain
  <2> SUFFICES ASSUME LinkedInv, OnChainInv, up.ok, "rpc" \notin setup.faults
               PROVE  IsPrefix(db.blocks, chain)
    BY DEF UpdatedIndexOnChain
  <2>1. TypeOK /\ WellForked(forks)
    BY DEF LinkedInv
  <2>2. db.blocks \in Seq(Nat) /\ chain \in Seq(Nat)
    BY <2>1, Types, BestChain
  <2> QED BY <2>2, OnPrefix DEF OnChainInv
<1> QED BY <1>2, <1>3, IndexInvariant, PTL

-----------------------------------------------------------------------------
\* A rollback after one reorg

\* All blocks are of the first fork.
Original(blocks) == \A p \in 1 .. Len(blocks) : blocks[p] = 1

\* Once a block of the second fork was fetched, no block of the first one is.
Ordered(u) ==
  \A i \in 1 .. Len(u.rx) : u.rx[i] = 1 => Original(u.blocks) /\ \A j \in 1 .. i : u.rx[j] = 1

\* A reorg is noticed when all blocks of the index are of the first fork, and
\* the savepoint to go back to has only blocks that the chain shares.
RollbackOf(u) ==
  /\ Ordered(u)
  /\ (u.pc \in {"detect", "recover", "restore"} => Len(forks) = 2 /\ Original(u.blocks))
  /\ (u.pc \in {"recover", "restore"} => u.target + 1 \in 1 .. Len(chain) /\ chain[u.target + 1] = 1)

RollbackInv == setup.max_reorgs <= 1 => RollbackOf(up)

\* The ancestors of a block of the first fork are of the first fork.
LEMMA OriginalAncestors ==
  ASSUME LinkedInv, NEW b \in Seq(Nat), Ancestral(forks, b), NEW p \in 1 .. Len(b), b[p] = 1
  PROVE  \A q \in 1 .. p : b[q] = 1
<1>1. WellForked(forks) /\ Chains(forks) /\ p \in Nat
  BY Types, LenProperties DEF LinkedInv
<1>2. 1 \in 1 .. Len(forks) /\ p \in 1 .. Len(forks[1]) /\ \A q \in 1 .. p - 1 : b[q] = forks[1][q]
  BY DEF Ancestral, Mined
<1>3. Len(forks[1]) \in Nat /\ \A q \in 1 .. Len(forks[1]) : forks[1][q] <= 1
  BY <1>1, <1>2 DEF WellForked, Chains
<1>4. ASSUME NEW q \in 1 .. p - 1
      PROVE  b[q] = 1
  <2>1. q \in 1 .. Len(forks[1]) /\ q \in 1 .. Len(b)
    BY <1>1, <1>2, <1>3, LenProperties
  <2>2. b[q] \in 1 .. Len(forks)
    BY <2>1 DEF Ancestral, Mined
  <2>3. b[q] <= 1
    BY <1>2, <1>3, <2>1
  <2> QED BY <1>1, <2>2, <2>3 DEF Chains
<1>5. \A q \in 1 .. p : q = p \/ q \in 1 .. p - 1
  BY <1>1
<1> QED BY <1>4, <1>5

\* With one reorg, a block that is not of the first fork is on the best chain.
LEMMA SecondFork ==
  ASSUME LinkedInv, setup.max_reorgs <= 1, NEW f \in Nat, NEW p \in Nat, Mined(forks, f, p), f # 1
  PROVE  f = 2 /\ Len(forks) = 2 /\ p \in 1 .. Len(chain) /\ chain[p] = 2
<1>1. Len(forks) \in Nat /\ Len(forks) <= setup.max_reorgs + 1 /\ setup.max_reorgs \in Nat
  BY Types DEF LinkedInv, Chains
<1>2. f \in 1 .. Len(forks) /\ p \in 1 .. Len(forks[f]) /\ forks[f][p] = f
  BY DEF Mined
<1>3. f = 2 /\ Len(forks) = 2
  <2> DEFINE n == Len(forks)
             m == setup.max_reorgs
  <2>1. n \in Nat /\ n <= m + 1 /\ m \in Nat /\ m <= 1 /\ f \in 1 .. n /\ f # 1
    BY <1>1, <1>2
  <2> HIDE DEF n, m
  <2>2. f = 2 /\ n = 2
    BY <2>1
  <2> QED BY <2>2 DEF n
<1> QED BY <1>2, <1>3 DEF chain, Last

\* Below a block of the first fork, the best chain is the only one.
LEMMA OnlyOriginal ==
  ASSUME LinkedInv, setup.max_reorgs <= 1, NEW p \in 1 .. Len(chain), chain[p] = 1,
         NEW f \in Nat, NEW q \in 1 .. p, Mined(forks, f, q)
  PROVE  f = 1
<1>1. TypeOK /\ WellForked(forks)
  BY DEF LinkedInv
<1>2. chain \in Seq(Nat) /\ Ancestral(forks, chain) /\ Len(chain) \in Nat
  BY <1>1, BestChain
<1>3. chain[q] = 1
  BY <1>2, OriginalAncestors
<1>4. q \in Nat
  BY <1>2
<1> QED BY <1>3, <1>4, SecondFork

\* The tip of the index is an orphan: all blocks of the index are of the first
\* fork, and there is a second one.
LEMMA OrphanedTip ==
  ASSUME LinkedInv, setup.max_reorgs <= 1, NEW b \in Seq(Nat), Ancestral(forks, b),
         Len(b) \in 1 .. Len(b), Len(b) \in 1 .. Len(forks[Len(forks)]),
         b[Len(b)] # forks[Len(forks)][Len(b)]
  PROVE  Len(forks) = 2 /\ Original(b)
<1> DEFINE n == Len(b)
<1>1. TypeOK /\ WellForked(forks) /\ setup.max_reorgs \in Nat /\ Len(forks) <= setup.max_reorgs + 1
  BY Types DEF LinkedInv
<1>2. /\ Len(forks) \in Nat /\ Len(forks) >= 1 /\ chain = forks[Len(forks)] /\ Ancestral(forks, chain)
      /\ n \in Nat
  BY <1>1, BestChain, LenProperties
<1>3. Mined(forks, b[n], n) /\ b[n] \in Nat
  BY ElementOfSeq DEF Ancestral
<1>4. b[n] = 1
  <2> SUFFICES ASSUME b[n] # 1
               PROVE  FALSE
    OBVIOUS
  <2>1. b[n] = 2 /\ chain[n] = 2
    BY <1>2, <1>3, SecondFork
  <2> QED BY <1>2, <2>1
<1>5. Original(b)
  BY <1>4, OriginalAncestors DEF Original
<1>6. Len(forks) # 1
  <2> SUFFICES ASSUME Len(forks) = 1
               PROVE  FALSE
    OBVIOUS
  <2>1. n \in 1 .. Len(chain) /\ chain[n] # 1
    BY <1>2, <1>4
  <2>2. Mined(forks, chain[n], n) /\ chain[n] \in Nat
    BY <1>1, <1>2, <2>1, BestChain DEF Ancestral
  <2> QED BY <1>2, <2>1, <2>2, SecondFork
<1>7. Len(forks) = 2
  <2> DEFINE m == Len(forks)
             k == setup.max_reorgs
  <2>1. m \in Nat /\ m >= 1 /\ m <= k + 1 /\ k \in Nat /\ k <= 1 /\ m # 1
    BY <1>1, <1>2, <1>6
  <2> HIDE DEF m, k
  <2>2. m = 2
    BY <2>1
  <2> QED BY <2>2 DEF m
<1> QED BY <1>5, <1>7

\* An update without fetched blocks, elsewhere.
LEMMA NoRollback ==
  ASSUME NEW u, u.rx = <<>>, u.pc \notin {"detect", "recover", "restore"}
  PROVE  RollbackOf(u)
<1>1. Len(u.rx) = 0
  BY EmptySeq
<1> QED BY <1>1 DEF RollbackOf, Ordered

\* The fetch thread and the block loop.
LEMMA LoopRollback ==
  ASSUME LinkedInv, setup.max_reorgs <= 1, RollbackOf(up),
         FetchBlock \/ IndexBlock \/ MeetReorg \/ FinishUpdate
  PROVE  RollbackOf(up')
<1> DEFINE n == Len(up.blocks)
           m == Len(up.rx)
           l == Len(chain)
<1>1. TypeOK /\ up \in Updates /\ WellForked(forks) /\ UpdateLinked(up)
  BY DEF LinkedInv, TypeOK
<1>2. /\ up.rx \in Seq(Nat) /\ up.blocks \in Seq(Nat) /\ n \in Nat /\ m \in Nat /\ l \in Nat
      /\ chain \in Seq(Nat) /\ chain = forks[Len(forks)] /\ Len(forks) \in Nat
  BY <1>1, UpdateTypes, BestChain
<1>3. /\ Ancestral(forks, up.blocks) /\ \A i \in 1 .. m : Mined(forks, up.rx[i], n + i)
      /\ \A p \in 1 .. n : Mined(forks, up.blocks[p], p)
  BY <1>1 DEF UpdateLinked, Ancestral
<1>4. \A i \in 1 .. m : up.rx[i] = 1 => Original(up.blocks) /\ \A j \in 1 .. i : up.rx[j] = 1
  BY DEF RollbackOf, Ordered
<1>5. (\A i \in 1 .. m : up.rx[i] \in Nat) /\ (\A p \in 1 .. n : up.blocks[p] \in Nat)
  BY <1>2, ElementOfSeq
<1>6. CASE FetchBlock
  <2>1. up.pc \notin {"detect", "recover", "restore"}
    BY <1>6 DEF FetchBlock
  <2>2. CASE up'.rx = up.rx /\ up'.pc = up.pc /\ up'.blocks = up.blocks
    BY <2>1, <2>2 DEF RollbackOf, Ordered
  <2>3. CASE NextFetch <= l /\ up' = [up EXCEPT !.rx = Append(@, chain[NextFetch])]
    <3> DEFINE x == chain[NextFetch]
               r == Append(up.rx, x)
    <3>1. NextFetch = n + m + 1
      BY DEF NextFetch
    <3>2. NextFetch \in 1 .. l
      <4> HIDE DEF n, m, l
      <4> QED BY <1>2, <2>3, <3>1
    <3>3. x \in Nat
      BY <1>1, <3>2, BestChain
    <3>4. Len(r) = m + 1 /\ r[m + 1] = x /\ (\A i \in 1 .. m : r[i] = up.rx[i])
      <4> HIDE DEF x
      <4> QED BY <1>2, <3>3, AppendProperties
    <3>5. x = 1 => Original(up.blocks) /\ \A j \in 1 .. m : up.rx[j] = 1
      <4> SUFFICES ASSUME x = 1
                   PROVE  Original(up.blocks) /\ \A j \in 1 .. m : up.rx[j] = 1
        OBVIOUS
      <4>1. \A f \in Nat, q \in 1 .. NextFetch : Mined(forks, f, q) => f = 1
        BY <3>2, OnlyOriginal
      <4>2. ASSUME NEW p \in 1 .. n
            PROVE  up.blocks[p] = 1
        <5>1. p \in 1 .. NextFetch
          <6> HIDE DEF n, m, l
          <6> QED BY <1>2, <3>1
        <5> QED BY <1>3, <1>5, <4>1, <5>1
      <4>3. ASSUME NEW j \in 1 .. m
            PROVE  up.rx[j] = 1
        <5>1. n + j \in 1 .. NextFetch
          <6> HIDE DEF n, m, l
          <6> QED BY <1>2, <3>1
        <5> QED BY <1>3, <1>5, <4>1, <5>1
      <4> QED BY <4>2, <4>3 DEF Original
    <3>6. ASSUME NEW i \in 1 .. Len(r), r[i] = 1
          PROVE  Original(up.blocks) /\ \A j \in 1 .. i : r[j] = 1
      <4> HIDE DEF n, m, l, x, r
      <4>1. CASE i \in 1 .. m
        <5>1. \A j \in 1 .. i : j \in 1 .. m
          BY <1>2, <4>1
        <5> QED BY <1>4, <3>4, <3>6, <4>1, <5>1
      <4>2. CASE i = m + 1
        <5>1. \A j \in 1 .. i : j \in 1 .. m \/ j = m + 1
          BY <1>2, <4>2
        <5> QED BY <3>4, <3>5, <3>6, <4>2, <5>1
      <4> QED BY <1>2, <3>4, <4>1, <4>2
    <3>7. up'.rx = r /\ up'.pc = up.pc /\ up'.blocks = up.blocks
      BY <1>1, <2>3 DEF Updates
    <3> HIDE DEF r, x
    <3> QED BY <2>1, <3>6, <3>7 DEF RollbackOf, Ordered
  <2>4. CASE up' = [up EXCEPT !.fetching = FALSE]
    BY <1>1, <2>2, <2>4 DEF Updates
  <2> QED BY <1>6, <2>3, <2>4 DEF FetchBlock
<1>7. CASE IndexBlock
  <2> DEFINE f == Head(up.rx)
             b == Append(up.blocks, f)
             t == Tail(up.rx)
  <2>1. up.rx # <<>>
    BY <1>7 DEF IndexBlock
  <2>2. up'.pc \in {"commit", "loop"} /\ up'.blocks = b /\ up'.rx = t
    BY <1>1, <1>7 DEF IndexBlock, Updates
  <2>3. f = up.rx[1] /\ f \in Nat
    BY <1>2, <2>1, HeadTailProperties
  <2>4. Len(t) = m - 1 /\ \A i \in 1 .. Len(t) : t[i] = up.rx[i + 1]
    BY <1>2, <2>1, HeadTailProperties, LenProperties
  <2>5. Len(b) = n + 1 /\ b[n + 1] = f /\ \A p \in 1 .. n : b[p] = up.blocks[p]
    <3> HIDE DEF f
    <3> QED BY <1>2, <2>3, AppendProperties
  <2> HIDE DEF n, m, l, f, b, t
  <2>6. ASSUME NEW i \in 1 .. Len(t), t[i] = 1
        PROVE  Original(b) /\ \A j \in 1 .. i : t[j] = 1
    <3>1. i + 1 \in 1 .. m /\ up.rx[i + 1] = 1
      BY <1>2, <2>4, <2>6
    <3>2. Original(up.blocks) /\ \A j \in 1 .. i + 1 : up.rx[j] = 1
      BY <1>4, <3>1
    <3>3. f = 1
      <4>1. 1 \in 1 .. i + 1
        BY <1>2, <2>4
      <4> QED BY <2>3, <3>2, <4>1
    <3>4. \A p \in 1 .. n + 1 : p \in 1 .. n \/ p = n + 1
      BY <1>2
    <3>5. \A p \in 1 .. n : up.blocks[p] = 1
      BY <3>2 DEF Original, n
    <3>6. Original(b)
      BY <2>5, <3>3, <3>4, <3>5 DEF Original
    <3>7. \A j \in 1 .. i : j + 1 \in 1 .. i + 1 /\ j \in 1 .. Len(t)
      BY <1>2, <2>4
    <3> QED BY <2>4, <3>2, <3>6, <3>7
  <2> QED BY <2>2, <2>6 DEF RollbackOf, Ordered
<1>8. CASE MeetReorg
  <2> DEFINE f == Head(up.rx)
  <2>1. up.rx # <<>> /\ ~LinksTo(f)
    BY <1>8 DEF MeetReorg
  <2>2. up'.pc = "detect" /\ up'.blocks = up.blocks /\ up'.rx = <<>>
    BY <1>1, <1>8 DEF MeetReorg, Updates
  <2>3. n > 0 /\ up.blocks[n] # forks[f][n]
    BY <2>1 DEF LinksTo
  <2>4. f = up.rx[1] /\ f \in Nat /\ 1 \in 1 .. m
    BY <1>2, <2>1, HeadTailProperties, EmptySeq
  <2>5. Mined(forks, f, n + 1)
    BY <1>3, <2>4
  <2> HIDE DEF f
  <2>6. n \in 1 .. n /\ n + 1 \in Nat /\ n \in Nat
    <3> HIDE DEF n
    <3> QED BY <1>2, <2>3
  <2>7. f # 1
    <3> SUFFICES ASSUME f = 1
                 PROVE  FALSE
      OBVIOUS
    <3>1. up.blocks[n] = 1
      BY <1>4, <2>4, <2>6 DEF Original
    <3>2. /\ 1 \in 1 .. Len(forks) /\ n + 1 \in 1 .. Len(forks[1]) /\ forks[1][n + 1] = 1
          /\ forks[1] \in Seq(Nat) /\ Ancestral(forks, forks[1]) /\ Len(forks[1]) \in Nat
      BY <1>1, <2>5, Types DEF Mined, WellForked, Chains
    <3>3. n \in 1 .. n + 1
      <4> HIDE DEF n
      <4> QED BY <2>6
    <3>4. forks[1][n] = 1
      BY <3>2, <3>3, OriginalAncestors
    <3> QED BY <2>3, <3>1, <3>4
  <2>8. f = 2 /\ Len(forks) = 2 /\ n + 1 \in 1 .. l
    BY <2>4, <2>5, <2>6, <2>7, SecondFork
  <2>9. n \in 1 .. l
    <3> HIDE DEF n, l
    <3> QED BY <1>2, <2>6, <2>8
  <2>10. Original(up.blocks)
    <3>1. n \in 1 .. Len(forks[Len(forks)]) /\ up.blocks[n] # forks[Len(forks)][n]
      BY <1>2, <2>3, <2>8, <2>9
    <3> QED BY <1>2, <1>3, <2>6, <3>1, OrphanedTip
  <2>11. Len(up'.rx) = 0
    BY <2>2, EmptySeq
  <2> QED BY <2>2, <2>8, <2>10, <2>11 DEF RollbackOf, Ordered
<1>9. CASE FinishUpdate
  <2>1. up'.rx = <<>> /\ up'.pc \in {"commit", "idle"}
    BY <1>1, <1>9 DEF FinishUpdate, Updates, Idle
  <2> QED BY <2>1, NoRollback
<1> QED BY <1>6, <1>7, <1>8, <1>9

\* Beginning an update, and going back to a savepoint.
LEMMA DetectRollback ==
  ASSUME LinkedInv, setup.max_reorgs <= 1, RollbackOf(up), BeginUpdate \/ DetectReorg \/ HandleReorg
  PROVE  RollbackOf(up')
<1> DEFINE n == Len(up.blocks)
           l == Len(chain)
<1>1. TypeOK /\ up \in Updates /\ WellForked(forks) /\ UpdateLinked(up) /\ Ancestral(forks, db.blocks)
  BY DEF LinkedInv, TypeOK, StoreLinked
<1>2. /\ up.blocks \in Seq(Nat) /\ n \in Nat /\ l \in Nat /\ l >= 1 /\ up.depth \in Nat /\ up.target \in Nat
      /\ chain \in Seq(Nat) /\ chain = forks[Len(forks)] /\ Len(forks) \in Nat /\ Ancestral(forks, chain)
      /\ db.blocks \in Seq(Nat) /\ Len(db.blocks) \in Nat
  BY <1>1, UpdateTypes, BestChain, Types
<1>3. Idle.rx = <<>> /\ Idle.pc = "idle"
  BY DEF Idle
<1>4. RollbackOf(Idle)
  BY <1>3, NoRollback
<1>5. CASE BeginUpdate
  <2>1. CASE TipReorged(db.blocks)
    <3>1. up' = [Idle EXCEPT !.pc = "detect", !.blocks = db.blocks, !.depth = 1]
      BY <1>5, <2>1 DEF BeginUpdate
    <3>2. up'.pc = "detect" /\ up'.blocks = db.blocks /\ up'.rx = <<>>
      BY <3>1 DEF Idle
    <3>3. Len(db.blocks) = l /\ db.blocks[Len(db.blocks)] # chain[l]
      BY <2>1 DEF TipReorged, Last
    <3>4. Len(db.blocks) \in 1 .. Len(db.blocks) /\ Len(db.blocks) \in 1 .. Len(forks[Len(forks)])
      BY <1>2, <3>3
    <3>5. Len(forks) = 2 /\ Original(db.blocks)
      BY <1>1, <1>2, <3>3, <3>4, OrphanedTip
    <3>6. Len(up'.rx) = 0
      BY <3>2, EmptySeq
    <3> QED BY <3>2, <3>5, <3>6 DEF RollbackOf, Ordered
  <2>2. CASE ~TipReorged(db.blocks)
    <3>1. up' = [Idle EXCEPT !.pc = "loop", !.blocks = db.blocks, !.fetching = TRUE]
      BY <1>5, <2>2 DEF BeginUpdate
    <3>2. up'.pc = "loop" /\ up'.rx = <<>>
      BY <3>1 DEF Idle
    <3> QED BY <3>2, NoRollback
  <2> QED BY <2>1, <2>2
<1>6. CASE DetectReorg
  <2> DEFINE k == up.depth
  <2>1. up.pc = "detect" /\ Len(forks) = 2 /\ Original(up.blocks) /\ Ordered(up)
    BY <1>6 DEF DetectReorg, RollbackOf
  <2>2. k \in Nat /\ k >= 1 /\ (n = 1 => k = 1)
    BY <1>1, <1>2, <2>1 DEF UpdateLinked
  <2>3. CASE up' = Idle
    BY <1>4, <2>3
  <2>4. CASE SameBlock(n, k) /\ up' = [up EXCEPT !.pc = "recover", !.target = n - k]
    <3> DEFINE t == n - k
    <3>1. k <= n /\ t < l /\ up.blocks[t + 1] = chain[t + 1]
      <4> HIDE DEF n, k
      <4> QED BY <2>2, <2>4 DEF SameBlock
    <3>2. t \in Nat /\ t + 1 \in 1 .. n /\ t + 1 \in 1 .. l
      <4>1. n \in Nat /\ l \in Nat
        BY <1>2
      <4> HIDE DEF n, k, l
      <4> QED BY <2>2, <3>1, <4>1
    <3>3. chain[t + 1] = 1
      BY <2>1, <3>1, <3>2 DEF Original
    <3> HIDE DEF t
    <3>4. up'.pc = "recover" /\ up'.target = t /\ up'.rx = up.rx /\ up'.blocks = up.blocks
      BY <1>1, <2>4 DEF Updates, t
    <3> QED BY <2>1, <3>2, <3>3, <3>4 DEF RollbackOf, Ordered
  <2>5. CASE up' = [up EXCEPT !.depth = @ + 1]
    <3>1. up'.pc = "detect" /\ up'.rx = up.rx /\ up'.blocks = up.blocks
      BY <1>1, <2>1, <2>5 DEF Updates
    <3> QED BY <2>1, <3>1 DEF RollbackOf, Ordered
  <2> QED BY <1>6, <2>3, <2>4, <2>5 DEF DetectReorg, ReturnErr
<1>7. CASE HandleReorg
  <2> DEFINE T == SavepointsUpTo(up.target)
             t == Max(T)
  <2>1. /\ up.pc = "recover" /\ Len(forks) = 2 /\ Original(up.blocks) /\ Ordered(up)
        /\ up.target + 1 \in 1 .. l /\ chain[up.target + 1] = 1
    BY <1>7 DEF HandleReorg, RollbackOf
  <2>2. CASE T # {} /\ up' = [up EXCEPT !.pc = "restore", !.target = t]
    <3>1. T \in SUBSET (0 .. up.target)
      BY <1>1, <1>2, Types DEF SavepointsUpTo
    <3>2. t \in 0 .. up.target
      <4> HIDE DEF T
      <4> QED BY <1>2, <2>2, <3>1, MaxIn
    <3> HIDE DEF t
    <3>3. t + 1 \in 1 .. l /\ t + 1 \in 1 .. up.target + 1
      <4> DEFINE s == up.target
      <4>1. s \in Nat /\ s + 1 \in 1 .. l /\ t \in 0 .. s /\ l \in Nat
        BY <1>2, <2>1, <3>2
      <4> HIDE DEF s, l
      <4>2. t + 1 \in 1 .. l /\ t + 1 \in 1 .. s + 1
        BY <4>1
      <4> QED BY <4>2 DEF s
    <3>4. chain[t + 1] = 1
      BY <1>2, <2>1, <3>3, OriginalAncestors
    <3>5. up'.pc = "restore" /\ up'.target = t /\ up'.rx = up.rx /\ up'.blocks = up.blocks
      BY <1>1, <2>2 DEF Updates
    <3> QED BY <2>1, <3>3, <3>4, <3>5 DEF RollbackOf, Ordered
  <2>3. CASE up' = Idle
    BY <1>4, <2>3
  <2> QED BY <1>7, <2>2, <2>3 DEF HandleReorg, ReturnErr, savepoint_height_for_reorg
<1> QED BY <1>5, <1>6, <1>7

\* One step keeps what is known of a rollback.
LEMMA RollbackStep ==
  ASSUME LinkedInv, RollbackInv, [Next]_vars
  PROVE  RollbackInv'
<1>1. setup' = setup /\ up \in Updates
  BY DEF Next, vars, LinkedInv, TypeOK
<1>2. SUFFICES ASSUME setup.max_reorgs <= 1
               PROVE  RollbackOf(up)'
  BY <1>1 DEF RollbackInv
<1>3. RollbackOf(up)
  BY <1>2 DEF RollbackInv
<1>4. forks' = forks /\ RollbackOf(up') => RollbackOf(up)'
  BY DEF RollbackOf, Ordered, Original, chain
<1>5. CASE FetchBlock \/ IndexBlock \/ MeetReorg \/ FinishUpdate
  <2>1. forks' = forks
    BY <1>5 DEF FetchBlock, IndexBlock, MeetReorg, FinishUpdate
  <2> QED BY <1>2, <1>3, <1>4, <1>5, <2>1, LoopRollback
<1>6. CASE BeginUpdate \/ DetectReorg \/ HandleReorg
  <2>1. forks' = forks
    BY <1>6 DEF BeginUpdate, DetectReorg, HandleReorg
  <2> QED BY <1>2, <1>3, <1>4, <1>6, <2>1, DetectRollback
<1>7. CASE \/ CommitBlocks \/ DropOldestSavepoint \/ CopyToSavepoint \/ RecordSavepoint
           \/ RestoreFiles \/ Crash
  <2>1. forks' = forks
    BY <1>7 DEF CommitBlocks, DropOldestSavepoint, CopyToSavepoint, RecordSavepoint, RestoreFiles, Crash
  <2>2. \/ up' = Idle
        \/ /\ up'.rx = up.rx /\ up'.blocks = up.blocks
           /\ up'.pc \in {"savepoint", "copy", "record", "loop", "broken"}
    BY <1>1, <1>7 DEF CommitBlocks, DropOldestSavepoint, CopyToSavepoint, RecordSavepoint, RestoreFiles,
                      Crash, Goto, ReturnErr, Updates
  <2>3. CASE up' = Idle
    <3>1. Idle.rx = <<>> /\ Idle.pc = "idle"
      BY DEF Idle
    <3>2. RollbackOf(up')
      BY <2>3, <3>1, NoRollback
    <3> QED BY <1>4, <2>1, <3>2
  <2>4. CASE /\ up'.rx = up.rx /\ up'.blocks = up.blocks
             /\ up'.pc \in {"savepoint", "copy", "record", "loop", "broken"}
    <3>1. RollbackOf(up')
      BY <1>3, <2>4 DEF RollbackOf, Ordered
    <3> QED BY <1>4, <2>1, <3>1
  <2> QED BY <2>2, <2>3, <2>4
<1>8. CASE Mine
  <2> DEFINE l == Len(chain)
             s == up.target + 1
  <2>1. l \in Nat /\ Len(chain') = l + 1 /\ \A p \in 1 .. l : chain'[p] = chain[p]
    BY <1>8, MineExtends
  <2>2. up' = up /\ Len(forks') = Len(forks)
    <3>1. forks' = [forks EXCEPT ![Len(forks)] = Append(@, Len(forks))] /\ up' = up
      BY <1>8 DEF Mine
    <3>2. forks \in Seq(Seq(Forks)) /\ TypeOK /\ WellForked(forks) /\ Len(forks) <= setup.max_reorgs + 1
      BY DEF LinkedInv, TypeOK
    <3>3. Len(forks) \in Nat /\ Len(forks) >= 1 /\ setup.max_reorgs \in Nat /\ Forks \in SUBSET Nat
      BY <3>2, BestChain, Types
    <3>4. Len(forks) \in Forks
      BY <3>2, <3>3 DEF Forks
    <3> QED BY <3>1, <3>2, <3>3, <3>4, MineGrows
  <2> HIDE DEF l, s
  <2>3. s \in 1 .. l => s \in 1 .. Len(chain')
    BY <2>1
  <2> QED BY <1>3, <2>1, <2>2, <2>3 DEF RollbackOf, Ordered, l, s
<1>9. ASSUME NEW orphans, NEW mined, Reorg(orphans, mined)
      PROVE  RollbackOf(up)'
  <2>1. up'.pc = up.pc /\ up'.rx = up.rx /\ up'.blocks = up.blocks /\ Len(forks) <= setup.max_reorgs
    BY <1>1, <1>9 DEF Reorg, Updates
  <2>2. Len(forks) # 2
    <3> DEFINE n == Len(forks)
               m == setup.max_reorgs
    <3>1. n <= m /\ m <= 1 /\ m \in Nat /\ n \in Nat
      BY <1>2, <2>1, Types DEF LinkedInv, Chains
    <3> HIDE DEF n, m
    <3>2. n # 2
      BY <3>1
    <3> QED BY <3>2 DEF n
  <2>3. up.pc \notin {"detect", "recover", "restore"}
    BY <1>3, <2>2 DEF RollbackOf
  <2> QED BY <1>3, <2>1, <2>3 DEF RollbackOf, Ordered
<1>10. CASE UNCHANGED vars
  BY <1>3, <1>4, <1>10 DEF vars
<1> QED BY <1>5, <1>6, <1>7, <1>8, <1>9, <1>10 DEF Next, UpdateStep, UpdateLoop

\* What is known of a rollback.
LEMMA RollbackInvariant == Spec => []RollbackInv
<1>1. Init => RollbackInv
  <2>1. Init => up.rx = <<>> /\ up.pc = "idle"
    BY DEF Init, Idle
  <2> QED BY <2>1, NoRollback DEF RollbackInv
<1> QED BY <1>1, IndexInvariant, RollbackStep, PTL DEF Spec

\* The savepoint that handle_reorg chooses after one reorg has no orphaned block.
LEMMA SavepointOnChain ==
  ASSUME LinkedInv, setup.max_reorgs <= 1, RollbackOf(up), up.pc = "restore"
  PROVE  /\ IsOn(savepoints[up.target].blocks, chain)
         /\ IsPrefix(savepoints[up.target].blocks, chain)
<1> DEFINE t == up.target
           b == savepoints[up.target].blocks
           l == Len(chain)
<1>1. TypeOK /\ WellForked(forks) /\ up \in Updates /\ t \in DOMAIN savepoints
  BY DEF LinkedInv, TypeOK, UpdateLinked
<1>2. b \in Seq(Nat) /\ Len(b) = t /\ Ancestral(forks, b) /\ t \in Nat
  BY <1>1, Types DEF LinkedInv, TypeOK, StoreLinked
<1>3. chain \in Seq(Nat) /\ Ancestral(forks, chain) /\ l \in Nat
  BY <1>1, BestChain
<1>4. t + 1 \in 1 .. l /\ chain[t + 1] = 1
  BY DEF RollbackOf
<1> HIDE DEF t, b, l
<1>5. t <= l /\ \A p \in 1 .. t : p \in 1 .. t + 1
  BY <1>2, <1>3, <1>4
<1>6. ASSUME NEW p \in 1 .. t
      PROVE  b[p] = chain[p]
  <2>1. p \in 1 .. t + 1 /\ Mined(forks, b[p], p) /\ b[p] \in Nat
    BY <1>2, <1>5, ElementOfSeq DEF Ancestral
  <2>2. b[p] = 1
    BY <1>4, <2>1, OnlyOriginal DEF l
  <2>3. chain[p] = 1
    BY <1>3, <1>4, <2>1, OriginalAncestors DEF l
  <2> QED BY <2>2, <2>3
<1>7. IsOn(b, chain)
  BY <1>2, <1>5, <1>6 DEF IsOn, l
<1> QED BY <1>2, <1>3, <1>7, OnPrefix DEF b

\* Going back to a savepoint after one reorg leaves no orphaned block in the
\* index: blocks indexed and snapshots taken while the reorg happens included.
THEOREM RollbackLeavesNoOrphan == Spec => [][NothingOrphaned]_vars
<1>1. LinkedInv /\ RollbackInv /\ [Next]_vars => [NothingOrphaned]_vars
  <2> SUFFICES ASSUME LinkedInv, RollbackInv, Next, OneReorg, up.pc = "restore", up'.pc = "idle"
               PROVE  IsPrefix(db'.blocks, chain)
    BY DEF NothingOrphaned
  <2>1. db' = savepoints[up.target]
    <3>1. up \in Updates
      BY DEF LinkedInv, TypeOK
    <3>2. ~Crash
      BY DEF Crash, OneReorg
    <3>3. ~FetchBlock /\ ~Mine
      BY DEF FetchBlock, Mine
    <3>4. ~\E orphans, mined : Reorg(orphans, mined)
      BY <3>1 DEF Reorg, Updates
    <3>5. RestoreFiles
      BY <3>2, <3>3, <3>4 DEF Next, UpdateStep, UpdateLoop, BeginUpdate, IndexBlock, MeetReorg, FinishUpdate,
         CommitBlocks, DropOldestSavepoint, CopyToSavepoint, RecordSavepoint, DetectReorg, HandleReorg
    <3>6. ~Goto("broken")
      BY <3>1 DEF Goto, Updates
    <3> QED BY <3>5, <3>6 DEF RestoreFiles
  <2>2. IsPrefix(savepoints[up.target].blocks, chain)
    BY SavepointOnChain DEF RollbackInv, OneReorg
  <2> QED BY <2>1, <2>2
<1> QED BY <1>1, RollbackInvariant, IndexInvariant, PTL DEF Spec
-----------------------------------------------------------------------------
\* There are savepoints enough

\* Everything that the index and the update have is on the best chain.
Settled == IsOn(db.blocks, chain) /\ IsOn(up.blocks, chain) /\ FetchedOn(up)

\* When one reorg can be rolled back.  The blocks it orphans, and the one below
\* them, are within the heights that all savepoints but one span, and bitcoind
\* had an interval of blocks below them; and while the index or the update
\* still has orphaned blocks, the new chain has not outgrown the old one so far
\* that is_savepoint_required takes the index for one that catches up.
Recoverable ==
  OneReorg =>
    /\ setup.max_orphans + 1 <= (MaxSavepoints - 1) * Interval
    /\ Interval + setup.max_orphans + 1 <= setup.initial_blocks
    /\ ~Settled => Len(chain) + setup.max_orphans <= Len(forks[1]) + Interval * MaxSavepoints + 1

\* Of savepoints at heights D, i apart once they are above i, the last one is
\* recorded, for an index of n blocks.
Stored(D, last, n, pc, i) ==
  /\ last <= n
  /\ (pc \notin {"copy", "record"} => last = 0 \/ last \in D)
  /\ (pc = "record" => n \in D)
  /\ (\A s \in D : s <= last \/ (pc = "record" /\ s = n))
  /\ \A s, v \in D : s < v /\ i <= v => s + i <= v

\* An update of u blocks, c of them not committed.
Pending(pc, last, n, u, c, i) ==
  /\ (pc \in Fetching => u = n + c)
  /\ (pc \in {"savepoint", "copy", "record"} => c = 0)
  /\ (pc \in {"detect", "recover", "restore", "broken"} => n <= u)
  /\ (pc \in {"commit", "savepoint", "copy"} => last < u)
  /\ (pc = "copy" => n < i \/ last + i <= n)

\* A savepoint at least r below the height t, where the first fork ends.
Low(D, t, r) == \E s \in D : s + r <= t

\* Once the heights less than r below t are indexed, there is such a savepoint,
\* or all m are there.
Covered(D, pc, n, u, t, r, m) ==
  /\ (pc = "idle" /\ t <= n + r => Low(D, t, r) \/ Cardinality(D) >= m)
  /\ (pc \in {"loop", "record", "detect", "recover", "restore", "broken"} /\ t <= u + r =>
        Low(D, t, r) \/ Cardinality(D) >= m)
  /\ (pc \in {"commit", "savepoint"} /\ t < u + r => Low(D, t, r) \/ Cardinality(D) >= m)
  /\ (pc = "copy" /\ t < u + r => Low(D, t, r) \/ Cardinality(D) + 1 >= m)

\* detect_reorg does not look further back than r below t.
Looking(pc, u, depth, target, t, r) ==
  /\ (pc = "detect" => depth <= u /\ t + depth <= u + r)
  /\ (pc = "recover" => target <= u /\ t <= target + r)

Waits(i, m, r, t, D, last, n, pc, u, c, depth, target) ==
  /\ Stored(D, last, n, pc, i) /\ Pending(pc, last, n, u, c, i)
  /\ Covered(D, pc, n, u, t, r, m) /\ Looking(pc, u, depth, target, t, r)

Reach == setup.max_orphans + 1

Waiting ==
  Waits(Interval, MaxSavepoints, Reach, Len(forks[1]), DOMAIN savepoints, db.last, Len(db.blocks),
        up.pc, Len(up.blocks), up.uncommitted, up.depth, up.target)

\* The reorg is over: nothing orphaned is left, and nothing will come.
Calm == Len(forks) = 2 /\ Settled /\ up.pc \notin {"detect", "recover", "restore"}

SavedInv == OneReorg => Calm \/ Waiting

\* A reorg orphans no more than max_orphans blocks.
ForkedInv ==
  setup.max_reorgs <= 1 =>
    /\ setup.initial_blocks <= Len(forks[1])
    /\ Len(forks) = 2 => \A p \in 1 .. Len(forks[1]) :
         p + setup.max_orphans <= Len(forks[1]) => p <= Len(chain) /\ chain[p] = 1

-----------------------------------------------------------------------------
\* Heights

\* More of the same is more.
LEMMA Product ==
  ASSUME NEW i \in Nat, NEW a \in Nat, NEW b \in Nat, a <= b
  PROVE  i * a <= i * b
<1>1. PICK d \in Nat : b = a + d
  <2>1. b - a \in Nat
    OBVIOUS
  <2> QED BY <2>1
<1>2. i * b = i * a + i * d
  BY <1>1
<1>3. i * d \in Nat /\ i * a \in Nat
  OBVIOUS
<1> QED BY <1>2, <1>3

\* Division with remainder.
LEMMA Divided ==
  ASSUME NEW i \in Nat \ {0}, NEW x \in Nat
  PROVE  \E q \in Nat, e \in Nat : q = x \div i /\ x = i * q + e /\ e < i
<1>1. x \div i \in Nat /\ x % i \in Nat /\ x % i < i
  OBVIOUS
<1>2. x = i * (x \div i) + (x % i)
  OBVIOUS
<1> QED BY <1>1, <1>2

\* Of numbers that are i apart, an interval no longer than k * i has at most k.
LEMMA FewApart ==
  ASSUME NEW i \in Nat \ {0}, NEW k \in Nat, NEW r \in Nat, r <= k * i, NEW t \in Nat,
         NEW D \in SUBSET Nat, \A s \in D : s <= t /\ t < s + r,
         \A s, v \in D : s < v => s + i <= v
  PROVE  IsFiniteSet(D) /\ Cardinality(D) <= k
<1>1. PICK f : f = [s \in D |-> (s + r - t - 1) \div i]
  OBVIOUS
<1>2. PICK B : B = 0 .. k - 1
  OBVIOUS
<1>3. IsFiniteSet(B) /\ Cardinality(B) = k
  <2>1. IsFiniteSet(0 .. k - 1) /\ Cardinality(0 .. k - 1) = IF 0 > k - 1 THEN 0 ELSE k - 1 - 0 + 1
    BY FS_Interval
  <2> QED BY <1>2, <2>1
<1>4. ASSUME NEW s \in D
      PROVE  \E e \in Nat : f[s] \in B /\ s + r = t + 1 + i * f[s] + e /\ e < i
  <2>1. PICK x \in Nat : x = s + r - t - 1
    OBVIOUS
  <2>2. PICK q \in Nat, e \in Nat : q = x \div i /\ x = i * q + e /\ e < i
    BY Divided
  <2>3. f[s] = q
    BY <1>1, <2>1, <2>2
  <2>4. q < k
    <3> SUFFICES ASSUME k <= q
                 PROVE  FALSE
      OBVIOUS
    <3>1. i * k <= i * q /\ i * k = k * i
      BY Product
    <3>2. PICK a \in Nat, b \in Nat : a = i * k /\ b = i * q
      OBVIOUS
    <3>3. x < r /\ r <= a /\ a <= b /\ x = b + e
      BY <2>1, <2>2, <3>1, <3>2
    <3> QED BY <3>3
  <2>5. PICK b \in Nat : b = i * q
    OBVIOUS
  <2>6. s + r = t + 1 + b + e
    BY <2>1, <2>2, <2>5
  <2> QED BY <1>2, <2>2, <2>3, <2>4, <2>5, <2>6
<1>5. ASSUME NEW s \in D, NEW v \in D, f[s] = f[v]
      PROVE  s = v
  <2>1. PICK e \in Nat : f[s] \in B /\ s + r = t + 1 + i * f[s] + e /\ e < i
    BY <1>4
  <2>2. PICK g \in Nat : v + r = t + 1 + i * f[v] + g /\ g < i
    BY <1>4
  <2>3. PICK b \in Nat : b = i * f[s] /\ b = i * f[v]
    BY <1>2, <1>5, <2>1
  <2>4. s + r = t + 1 + b + e /\ v + r = t + 1 + b + g
    BY <2>1, <2>2, <2>3
  <2>5. ~(s < v) /\ ~(v < s)
    BY <2>1, <2>2, <2>4
  <2> QED BY <2>5
<1>6. f \in Injection(D, B)
  <2>1. f \in [D -> B]
    BY <1>1, <1>4
  <2> QED BY <1>5, <2>1 DEF Injection, IsInjective
<1> QED BY <1>3, <1>6, FS_Injection

-----------------------------------------------------------------------------
\* Savepoints while heights move

\* An update begins with what the database has.
LEMMA WaitsBegin ==
  ASSUME NEW i \in Nat, NEW m \in Nat, NEW r \in Nat, NEW t \in Nat, NEW D \in SUBSET Nat, NEW last \in Nat,
         NEW n \in Nat, NEW u \in Nat, NEW c \in Nat, NEW depth, NEW target, NEW d, NEW g,
         Waits(i, m, r, t, D, last, n, "idle", u, c, depth, target)
  PROVE  /\ Waits(i, m, r, t, D, last, n, "loop", n, 0, d, g)
         /\ 1 <= n /\ t + 1 <= n + r => Waits(i, m, r, t, D, last, n, "detect", n, 0, 1, g)
BY DEF Waits, Stored, Pending, Covered, Looking, Fetching

\* The block loop moves on, and leaves off.
LEMMA WaitsLoop ==
  ASSUME NEW i \in Nat, NEW m \in Nat, NEW r \in Nat, NEW t \in Nat, NEW D \in SUBSET Nat, NEW last \in Nat,
         NEW n \in Nat, NEW u \in Nat, NEW c \in Nat, NEW depth, NEW target, NEW d, NEW g, NEW w, NEW x,
         Waits(i, m, r, t, D, last, n, "loop", u, c, depth, target)
  PROVE  /\ Waits(i, m, r, t, D, last, n, "commit", u + 1, c + 1, d, g)
         /\ (t = u + 1 + r => Low(D, t, r)) => Waits(i, m, r, t, D, last, n, "loop", u + 1, c + 1, d, g)
         /\ 1 <= u /\ t + 1 <= u + r => Waits(i, m, r, t, D, last, n, "detect", u, c, 1, g)
         /\ 0 < c => Waits(i, m, r, t, D, last, n, "commit", u, c, d, g)
         /\ Waits(i, m, r, t, D, last, n, "idle", w, x, d, g)
<1> USE DEF Waits, Stored, Pending, Covered, Looking, Fetching
<1>1. Waits(i, m, r, t, D, last, n, "commit", u + 1, c + 1, d, g)
  OBVIOUS
<1>2. (t = u + 1 + r => Low(D, t, r)) => Waits(i, m, r, t, D, last, n, "loop", u + 1, c + 1, d, g)
  OBVIOUS
<1>3. 1 <= u /\ t + 1 <= u + r => Waits(i, m, r, t, D, last, n, "detect", u, c, 1, g)
  OBVIOUS
<1>4. 0 < c => Waits(i, m, r, t, D, last, n, "commit", u, c, d, g)
  OBVIOUS
<1>5. Waits(i, m, r, t, D, last, n, "idle", w, x, d, g)
  OBVIOUS
<1> QED BY <1>1, <1>2, <1>3, <1>4, <1>5

\* A commit, with a savepoint or without.
LEMMA WaitsCommit ==
  ASSUME NEW i \in Nat, NEW m \in Nat, NEW r \in Nat, NEW t \in Nat, NEW D \in SUBSET Nat, NEW last \in Nat,
         NEW n \in Nat, NEW u \in Nat, NEW c \in Nat, NEW depth, NEW target, NEW d, NEW g
  PROVE  /\ Waits(i, m, r, t, D, last, n, "commit", u, c, depth, target) =>
              Waits(i, m, r, t, D, last, u, "savepoint", u, 0, d, g)
         /\ Waits(i, m, r, t, D, last, n, "savepoint", u, c, depth, target) /\ (t = n + r => Low(D, t, r)) =>
              Waits(i, m, r, t, D, last, n, "loop", u, c, d, g)
         /\ Waits(i, m, r, t, D, last, n, "record", u, c, depth, target) =>
              Waits(i, m, r, t, D, n, n, "loop", u, c, d, g)
<1> USE DEF Waits, Stored, Pending, Covered, Looking, Fetching
<1>1. Waits(i, m, r, t, D, last, n, "commit", u, c, depth, target) =>
        Waits(i, m, r, t, D, last, u, "savepoint", u, 0, d, g)
  OBVIOUS
<1>2. Waits(i, m, r, t, D, last, n, "savepoint", u, c, depth, target) /\ (t = n + r => Low(D, t, r)) =>
        Waits(i, m, r, t, D, last, n, "loop", u, c, d, g)
  OBVIOUS
<1>3. Waits(i, m, r, t, D, last, n, "record", u, c, depth, target) =>
        Waits(i, m, r, t, D, n, n, "loop", u, c, d, g)
  OBVIOUS
<1> QED BY <1>1, <1>2, <1>3

\* The oldest savepoint makes room.
LEMMA WaitsDrop ==
  ASSUME NEW i \in Nat, NEW m \in Nat, NEW r \in Nat, NEW t \in Nat, NEW D \in SUBSET Nat, NEW last \in Nat,
         NEW n \in Nat, NEW u \in Nat, NEW c \in Nat, NEW depth, NEW target, NEW d, NEW g, NEW oldest,
         Waits(i, m, r, t, D, last, n, "savepoint", u, c, depth, target), n < i \/ last + i <= n,
         NEW E, E = IF Cardinality(D) >= m THEN D \ {oldest} ELSE D
  PROVE  Waits(i, m, r, t, E, last, n, "copy", u, c, d, g)
<1>1. \A s \in D : s <= last
  BY DEF Waits, Stored
<1>2. IsFiniteSet(D)
  BY <1>1, FS_BoundedSetOfNaturals
<1>3. Cardinality(D) \in Nat /\ Cardinality(D \ {oldest}) \in {Cardinality(D), Cardinality(D) - 1}
  <2>1. Cardinality(D \ {oldest}) = IF oldest \in D THEN Cardinality(D) - 1 ELSE Cardinality(D)
    BY <1>2, FS_RemoveElement
  <2> QED BY <1>2, <2>1, FS_CardinalityType
<1>4. Stored(E, last, n, "copy", i)
  BY DEF Waits, Stored
<1>5. Pending("copy", last, n, u, c, i)
  BY DEF Waits, Pending, Fetching
<1>6. Covered(E, "copy", n, u, t, r, m)
  <2> SUFFICES ASSUME t < u + r
               PROVE  Low(E, t, r) \/ Cardinality(E) + 1 >= m
    BY DEF Covered
  <2>1. Low(D, t, r) \/ Cardinality(D) >= m
    BY DEF Waits, Covered
  <2>2. CASE Cardinality(D) >= m
    BY <1>3, <2>2
  <2>3. CASE ~(Cardinality(D) >= m)
    BY <2>1, <2>3
  <2> QED BY <2>2, <2>3
<1> QED BY <1>4, <1>5, <1>6 DEF Waits, Looking

\* A savepoint of the database joins the others.
LEMMA WaitsCopy ==
  ASSUME NEW i \in Nat, NEW m \in Nat, NEW r \in Nat, NEW t \in Nat, NEW D \in SUBSET Nat, NEW last \in Nat,
         NEW n \in Nat, NEW u \in Nat, NEW c \in Nat, NEW depth, NEW target, NEW d, NEW g,
         Waits(i, m, r, t, D, last, n, "copy", u, c, depth, target)
  PROVE  n \notin D /\ Waits(i, m, r, t, D \cup {n}, last, n, "record", u, c, d, g)
<1>1. (\A s \in D : s <= last) /\ last < n /\ u = n /\ c = 0
  BY DEF Waits, Stored, Pending, Fetching
<1>2. n \notin D
  BY <1>1
<1>3. Cardinality(D) \in Nat /\ Cardinality(D \cup {n}) = Cardinality(D) + 1
  <2>1. IsFiniteSet(D)
    BY <1>1, FS_BoundedSetOfNaturals
  <2> QED BY <1>2, <2>1, FS_AddElement, FS_CardinalityType
<1>4. Stored(D \cup {n}, last, n, "record", i)
  <2>1. \A s, v \in D \cup {n} : s < v /\ i <= v => s + i <= v
    <3> SUFFICES ASSUME NEW s \in D \cup {n}, NEW v \in D \cup {n}, s < v, i <= v
                 PROVE  s + i <= v
      OBVIOUS
    <3>1. s \in D
      BY <1>1
    <3>2. CASE v \in D
      BY <3>1, <3>2 DEF Waits, Stored
    <3>3. CASE v = n
      <4>1. last + i <= n
        BY <3>3 DEF Waits, Pending
      <4> QED BY <1>1, <3>1, <3>3, <4>1
    <3> QED BY <3>2, <3>3
  <2> QED BY <1>1, <2>1 DEF Stored
<1>5. Pending("record", last, n, u, c, i)
  BY <1>1 DEF Pending, Fetching
<1>6. Covered(D \cup {n}, "record", n, u, t, r, m)
  <2> SUFFICES ASSUME t <= n + r
               PROVE  Low(D \cup {n}, t, r) \/ Cardinality(D \cup {n}) >= m
    BY <1>1 DEF Covered
  <2>1. CASE t < n + r
    <3>1. Low(D, t, r) \/ Cardinality(D) + 1 >= m
      BY <1>1, <2>1 DEF Waits, Covered
    <3> QED BY <1>3, <3>1 DEF Low
  <2>2. CASE t = n + r
    BY <2>2 DEF Low
  <2> QED BY <2>1, <2>2
<1> QED BY <1>2, <1>4, <1>5, <1>6 DEF Waits, Looking

\* Looking back, and choosing a savepoint.
LEMMA WaitsReorg ==
  ASSUME NEW i \in Nat, NEW m \in Nat, NEW r \in Nat, NEW t \in Nat, NEW D \in SUBSET Nat, NEW last \in Nat,
         NEW n \in Nat, NEW u \in Nat, NEW c \in Nat, NEW depth \in Nat, NEW target, NEW d, NEW g, NEW w, NEW x,
         NEW pc \in {"detect", "recover", "restore"}, Waits(i, m, r, t, D, last, n, pc, u, c, depth, target)
  PROVE  /\ Waits(i, m, r, t, D, last, n, "idle", w, x, d, g)
         /\ pc = "detect" => u - depth \in Nat /\ Waits(i, m, r, t, D, last, n, "recover", u, c, d, u - depth)
         /\ pc = "detect" /\ depth + 1 <= u /\ t + depth + 1 <= u + r =>
              Waits(i, m, r, t, D, last, n, "detect", u, c, depth + 1, g)
         /\ Waits(i, m, r, t, D, last, n, "restore", u, c, d, g)
         /\ Waits(i, m, r, t, D, last, n, "broken", u, c, d, g)
<1> USE DEF Waits, Stored, Pending, Covered, Looking, Fetching
<1>1. Waits(i, m, r, t, D, last, n, "idle", w, x, d, g)
  OBVIOUS
<1>2. pc = "detect" => u - depth \in Nat /\ Waits(i, m, r, t, D, last, n, "recover", u, c, d, u - depth)
  OBVIOUS
<1>3. pc = "detect" /\ depth + 1 <= u /\ t + depth + 1 <= u + r =>
        Waits(i, m, r, t, D, last, n, "detect", u, c, depth + 1, g)
  OBVIOUS
<1>4. /\ Waits(i, m, r, t, D, last, n, "restore", u, c, d, g)
      /\ Waits(i, m, r, t, D, last, n, "broken", u, c, d, g)
  OBVIOUS
<1> QED BY <1>1, <1>2, <1>3, <1>4

\* The first fork gets longer.
LEMMA WaitsMine ==
  ASSUME NEW i \in Nat, NEW m \in Nat, NEW r \in Nat, NEW t \in Nat, NEW D \in SUBSET Nat, NEW last \in Nat,
         NEW n \in Nat, NEW u \in Nat, NEW c \in Nat, NEW depth, NEW target, NEW pc,
         pc \notin {"detect", "recover"}, Waits(i, m, r, t, D, last, n, pc, u, c, depth, target)
  PROVE  Waits(i, m, r, t + 1, D, last, n, pc, u, c, depth, target)
<1>1. Low(D, t, r) => Low(D, t + 1, r)
  BY DEF Low
<1>2. Covered(D, pc, n, u, t + 1, r, m)
  BY <1>1 DEF Waits, Covered
<1> QED BY <1>2 DEF Waits, Looking

\* At the height r below t, a savepoint that is not required is there.
LEMMA NotRequired ==
  ASSUME NEW i \in Nat, NEW r \in Nat, NEW t \in Nat, NEW w \in Nat, NEW l \in Nat, NEW h \in Nat,
         NEW D \in SUBSET Nat, NEW last \in Nat, last <= h, last = 0 \/ last \in D,
         i + r <= t, l + r <= t + w + 2, t = h + r,
         ~((h < i \/ h - last >= i) /\ l - 1 <= h + w + 1)
  PROVE  Low(D, t, r)
<1>1. last # 0 /\ last + r <= t
  OBVIOUS
<1> QED BY <1>1 DEF Low

\* Where detect_reorg ends there is a savepoint: too many would be needed to
\* have them all above.
LEMMA WaitsFound ==
  ASSUME NEW i \in Nat \ {0}, NEW m \in Nat \ {0}, NEW r \in Nat, NEW t \in Nat, NEW D \in SUBSET Nat,
         NEW last \in Nat, NEW n \in Nat, NEW u \in Nat, NEW c \in Nat, NEW depth, NEW target \in Nat,
         r <= (m - 1) * i, i + r <= t, u <= t,
         Waits(i, m, r, t, D, last, n, "recover", u, c, depth, target)
  PROVE  \E s \in D : s <= target
<1>1. target <= u /\ t <= target + r /\ n <= u /\ last <= n /\ \A s \in D : s <= last
  BY DEF Waits, Looking, Pending, Stored
<1>2. \A s, v \in D : s < v /\ i <= v => s + i <= v
  BY DEF Waits, Stored
<1>3. Low(D, t, r) \/ Cardinality(D) >= m
  BY <1>1 DEF Waits, Covered
<1>4. Low(D, t, r) => \E s \in D : s <= target
  BY <1>1 DEF Low
<1>5. Low(D, t, r)
  <2> SUFFICES ASSUME ~Low(D, t, r)
               PROVE  FALSE
    OBVIOUS
  <2>1. PICK k \in Nat : k = m - 1
    OBVIOUS
  <2>2. \A s \in D : s <= t /\ t < s + r
    BY <1>1 DEF Low
  <2>3. \A s, v \in D : s < v => s + i <= v
    BY <1>2, <2>2
  <2>4. IsFiniteSet(D) /\ Cardinality(D) <= k
    BY <2>1, <2>2, <2>3, FewApart
  <2>5. Cardinality(D) \in Nat
    BY <2>4, FS_CardinalityType
  <2> QED BY <1>3, <2>1, <2>4, <2>5
<1> QED BY <1>4, <1>5

-----------------------------------------------------------------------------
\* Forks after one reorg

\* The sizes of a setup.
LEMMA Sizes ==
  ASSUME TypeOK
  PROVE  /\ Interval \in Nat \ {0} /\ MaxSavepoints \in Nat \ {0} /\ setup.max_orphans \in Nat
         /\ setup.initial_blocks \in Nat \ {0} /\ setup.max_reorgs \in Nat /\ setup.max_blocks \in Nat
BY IndexAssumption DEF TypeOK, SetupKinds, Positive, Interval, MaxSavepoints

\* The first fork has only blocks of its own.
LEMMA FirstFork ==
  ASSUME LinkedInv
  PROVE  /\ forks[1] \in Seq(Nat) /\ Len(forks[1]) \in Nat /\ Original(forks[1])
         /\ Len(forks) = 1 => chain = forks[1]
<1>1. Chains(forks) /\ WellForked(forks) /\ 1 \in 1 .. Len(forks)
  BY Types DEF LinkedInv, WellForked, Chains
<1>2. forks[1] \in Seq(Nat) /\ Len(forks[1]) \in Nat
  BY <1>1 DEF Chains
<1>3. ASSUME NEW p \in 1 .. Len(forks[1])
      PROVE  forks[1][p] = 1
  <2>1. forks[1][p] <= 1 /\ Mined(forks, forks[1][p], p)
    BY <1>1 DEF WellForked, Ancestral
  <2>2. forks[1][p] \in 1 .. Len(forks)
    BY <2>1 DEF Mined
  <2> QED BY <1>1, <2>1, <2>2 DEF Chains
<1> QED BY <1>2, <1>3 DEF Original, chain, Last

\* One reorg makes two forks.
LEMMA TwoForks ==
  ASSUME LinkedInv, setup.max_reorgs <= 1
  PROVE  Len(forks) \in {1, 2} /\ (Len(forks) <= setup.max_reorgs => Len(forks) = 1)
<1> DEFINE n == Len(forks)
           k == setup.max_reorgs
<1>1. n \in Nat /\ n >= 1 /\ n <= k + 1 /\ k \in Nat /\ k <= 1
  BY BestChain, Types DEF LinkedInv
<1> HIDE DEF n, k
<1>2. n \in {1, 2} /\ (n <= k => n = 1)
  BY <1>1
<1> QED BY <1>2 DEF n, k

\* Bitcoind mines a block, on the last fork.
LEMMA MineForks ==
  ASSUME LinkedInv, setup.max_reorgs <= 1, Mine
  PROVE  /\ Len(forks') = Len(forks)
         /\ Len(forks) = 1 => Len(forks'[1]) = Len(forks[1]) + 1
         /\ Len(forks) = 2 => forks'[1] = forks[1]
<1>1. TypeOK /\ WellForked(forks) /\ Len(forks) <= setup.max_reorgs + 1
  BY DEF LinkedInv
<1>2. setup.max_reorgs \in Nat /\ Forks \in SUBSET Nat /\ forks \in Seq(Seq(Forks))
  BY <1>1, Types
<1>3. Len(forks) \in Nat /\ Len(forks) >= 1
  BY <1>1, BestChain
<1>4. Len(forks) \in Forks
  BY <1>1, <1>2, <1>3 DEF Forks
<1>5. forks' = [forks EXCEPT ![Len(forks)] = Append(@, Len(forks))]
  BY DEF Mine
<1>6. /\ Len(forks') = Len(forks) /\ forks'[Len(forks)] = Append(forks[Len(forks)], Len(forks))
      /\ \A f \in 1 .. Len(forks) : f # Len(forks) => forks'[f] = forks[f]
  BY <1>1, <1>2, <1>4, <1>5, MineGrows
<1>7. CASE Len(forks) = 1
  <2>1. forks'[1] = Append(forks[1], 1) /\ forks[1] \in Seq(Nat)
    BY <1>6, <1>7, FirstFork
  <2>2. Len(forks'[1]) = Len(forks[1]) + 1
    BY <2>1, AppendProperties
  <2> QED BY <1>6, <1>7, <2>2
<1>8. CASE Len(forks) = 2
  BY <1>6, <1>8
<1> QED BY <1>6, <1>7, <1>8

\* The one reorg leaves the first fork as it is, and the second shares all of it
\* but the orphans.
LEMMA ReorgForks ==
  ASSUME LinkedInv, setup.max_reorgs <= 1, NEW orphans \in 1 .. setup.max_orphans,
         NEW mined \in 0 .. setup.max_orphans + 1, Reorg(orphans, mined), setup' = setup
  PROVE  /\ Len(forks) = 1 /\ Len(forks') = 2 /\ forks'[1] = forks[1]
         /\ Len(chain') \in Nat /\ Len(forks[1]) - orphans <= Len(chain')
         /\ \A p \in 1 .. Len(forks[1]) : p + orphans <= Len(forks[1]) => chain'[p] = 1
<1> DEFINE l == Len(chain)
           k == l - orphans
<1>1. TypeOK /\ WellForked(forks) /\ Len(forks) <= setup.max_reorgs + 1
  BY DEF LinkedInv
<1>2. setup.max_reorgs \in Nat /\ Forks \in SUBSET Nat /\ forks \in Seq(Seq(Forks)) /\ setup.max_orphans \in Nat
  BY <1>1, Types, Sizes
<1>3. l \in Nat /\ orphans < l /\ Len(forks) <= setup.max_reorgs
  BY <1>1, BestChain DEF Reorg
<1>4. Len(forks) = 1 /\ chain = forks[1] /\ Original(forks[1])
  BY <1>3, TwoForks, FirstFork
<1>5. 2 \in Forks
  BY <1>2, <1>3, <1>4 DEF Forks
<1>6. k \in Nat /\ k \in 1 .. l /\ mined \in Nat
  <2> HIDE DEF l
  <2> QED BY <1>2, <1>3
<1>7. forks' = Append(forks, SubSeq(forks[1], 1, k) \o [i \in 1 .. mined |-> 1 + 1])
  BY <1>4 DEF Reorg
<1> HIDE DEF k
<1>8. Len(forks') = 2 /\ ForkedFrom(forks'[2], 2, forks[1], k) /\ forks'[1] = forks[1]
  <2>1. k \in 1 .. Len(forks[Len(forks)]) /\ Len(forks) + 1 \in Forks /\ 1 \in 1 .. Len(forks)
    BY <1>4, <1>5, <1>6
  <2>2. forks' = Append(forks, SubSeq(forks[Len(forks)], 1, k) \o [i \in 1 .. mined |-> Len(forks) + 1])
    BY <1>4, <1>7
  <2>3. /\ Len(forks') = Len(forks) + 1 /\ \A f \in 1 .. Len(forks) : forks'[f] = forks[f]
        /\ ForkedFrom(forks'[Len(forks) + 1], Len(forks) + 1, forks[Len(forks)], k)
    BY <1>1, <1>2, <1>6, <2>1, <2>2, ReorgGrows
  <2> QED BY <1>4, <2>1, <2>3
<1>9. chain' = forks'[2] /\ Len(chain') \in Nat
  <2>1. chain' = forks'[2]
    BY <1>8 DEF chain, Last
  <2>2. forks' \in Seq(Seq(Forks)) /\ Chains(forks')
    <3>1. setup' = setup
      OBVIOUS
    <3> QED BY <1>2, <3>1, ForksGrow, SeqChains
  <2> QED BY <1>8, <2>1, <2>2 DEF Chains
<1>10. k <= Len(chain') /\ \A p \in 1 .. k : chain'[p] = forks[1][p]
  BY <1>8, <1>9 DEF ForkedFrom
<1>11. ASSUME NEW p \in 1 .. Len(forks[1]), p + orphans <= Len(forks[1])
       PROVE  chain'[p] = 1
  <2>1. p \in 1 .. k
    <3>1. p \in 1 .. l /\ p + orphans <= l /\ orphans \in Nat
      BY <1>2, <1>4, <1>11
    <3> HIDE DEF l
    <3> QED BY <1>3, <3>1 DEF k
  <2> QED BY <1>4, <1>10, <1>11, <2>1 DEF Original
<1> QED BY <1>4, <1>8, <1>9, <1>10, <1>11 DEF k

\* One step keeps the forks as they are, or as far apart as one reorg takes them.
LEMMA ForkedStep ==
  ASSUME LinkedInv, ForkedInv, [Next]_vars
  PROVE  ForkedInv'
<1> DEFINE t == Len(forks[1])
           k == setup.max_orphans
           b == setup.initial_blocks
<1>1. setup' = setup
  BY DEF Next, vars
<1>2. SUFFICES ASSUME setup.max_reorgs <= 1
               PROVE  ForkedInv'
  BY <1>1 DEF ForkedInv
<1>3. /\ b <= t /\ k \in Nat /\ b \in Nat /\ t \in Nat /\ Len(chain) \in Nat
      /\ Len(forks) = 2 => \A p \in 1 .. t : p + k <= t => p <= Len(chain) /\ chain[p] = 1
  BY <1>2, Sizes, FirstFork, BestChain DEF ForkedInv, LinkedInv
<1>4. CASE forks' = forks
  BY <1>1, <1>4 DEF ForkedInv, chain
<1>5. CASE Mine
  <2>1. Len(chain') = Len(chain) + 1 /\ \A p \in 1 .. Len(chain) : chain'[p] = chain[p]
    BY <1>5, MineExtends
  <2>2. CASE Len(forks) = 1
    <3>1. Len(forks') = 1 /\ Len(forks'[1]) = t + 1
      BY <1>2, <1>5, <2>2, MineForks
    <3>2. b <= Len(forks'[1])
      <4> HIDE DEF t, b
      <4> QED BY <1>3, <3>1
    <3> QED BY <1>1, <3>1, <3>2 DEF ForkedInv
  <2>3. CASE Len(forks) = 2
    <3>1. forks'[1] = forks[1]
      BY <1>2, <1>5, <2>3, MineForks
    <3>2. ASSUME NEW p \in 1 .. t, p + k <= t
          PROVE  p <= Len(chain') /\ chain'[p] = 1
      <4>1. p <= Len(chain) /\ chain[p] = 1
        BY <1>3, <2>3, <3>2
      <4>2. p \in 1 .. Len(chain) /\ p <= Len(chain')
        <5> HIDE DEF t
        <5> QED BY <1>3, <2>1, <4>1
      <4> QED BY <2>1, <4>1, <4>2
    <3> QED BY <1>1, <1>3, <3>1, <3>2 DEF ForkedInv
  <2> QED BY <1>2, <2>2, <2>3, TwoForks
<1>6. ASSUME NEW orphans \in 1 .. setup.max_orphans, NEW mined \in 0 .. setup.max_orphans + 1,
             Reorg(orphans, mined)
      PROVE  ForkedInv'
  <2>1. /\ forks'[1] = forks[1] /\ Len(chain') \in Nat /\ t - orphans <= Len(chain')
        /\ \A p \in 1 .. t : p + orphans <= t => chain'[p] = 1
    BY <1>1, <1>2, <1>6, ReorgForks
  <2>2. ASSUME NEW p \in 1 .. t, p + k <= t
        PROVE  p <= Len(chain') /\ chain'[p] = 1
    <3> HIDE DEF t
    <3>1. p + orphans <= t /\ p <= Len(chain')
      BY <1>3, <2>1, <2>2
    <3> QED BY <2>1, <3>1
  <2> QED BY <1>1, <1>3, <2>1, <2>2 DEF ForkedInv
<1> QED BY <1>4, <1>5, <1>6 DEF Next, vars, UpdateStep, UpdateLoop, BeginUpdate, IndexBlock, MeetReorg,
           FinishUpdate, CommitBlocks, DropOldestSavepoint, CopyToSavepoint, RecordSavepoint, DetectReorg,
           HandleReorg, RestoreFiles, FetchBlock, Crash

\* On the chain, every block links.
LEMMA OnChainLinks ==
  ASSUME LinkedInv, up.rx # <<>>, FetchedOn(up), IsOn(up.blocks, chain)
  PROVE  LinksTo(Head(up.rx))
<1> DEFINE n == Len(up.blocks)
           m == Len(up.rx)
           l == Len(chain)
           f == Head(up.rx)
<1>1. TypeOK /\ up \in Updates /\ WellForked(forks)
  BY DEF LinkedInv, TypeOK
<1>2. up.rx \in Seq(Nat) /\ n \in Nat /\ m \in Nat /\ l \in Nat /\ Ancestral(forks, chain)
  BY <1>1, UpdateTypes, BestChain
<1>3. m >= 1 /\ f = up.rx[1]
  BY <1>2, HeadTailProperties, EmptySeq
<1>4. n + 1 <= l /\ f = chain[n + 1]
  <2>1. 1 \in 1 .. m
    <3> HIDE DEF m
    <3> QED BY <1>2, <1>3
  <2> QED BY <1>3, <2>1 DEF FetchedOn
<1> SUFFICES ASSUME n > 0
             PROVE  up.blocks[n] = forks[f][n]
  BY DEF LinksTo
<1>5. n \in 1 .. n /\ n + 1 \in 1 .. l /\ n \in 1 .. (n + 1) - 1
  <2> HIDE DEF n, l
  <2> QED BY <1>2, <1>4
<1>6. chain[n] = forks[chain[n + 1]][n]
  BY <1>2, <1>5 DEF Ancestral
<1>7. up.blocks[n] = chain[n]
  BY <1>5 DEF IsOn
<1> QED BY <1>4, <1>6, <1>7

\* Once nothing orphaned is left after the last reorg, nothing ever is.
LEMMA CalmStep ==
  ASSUME LinkedInv, OneReorg, Calm, [Next]_vars
  PROVE  Calm'
<1>1. /\ up \in Updates /\ TypeOK /\ WellForked(forks) /\ setup.max_reorgs <= 1
      /\ up.pc \notin {"detect", "recover", "restore"} /\ Len(forks) = 2
      /\ IsOn(db.blocks, chain) /\ IsOn(up.blocks, chain) /\ FetchedOn(up)
  BY DEF LinkedInv, TypeOK, OneReorg, Calm, Settled
<1>2. db \in Databases /\ db.blocks \in Seq(Nat) /\ up.blocks \in Seq(Nat) /\ setup' = setup
  BY <1>1, Types, UpdateTypes DEF TypeOK, Next, vars
<1>3. Len(<<>>) = 0
  BY EmptySeq
<1>4. IsOn(<<>>, chain)
  BY <1>1, <1>3, BestChain DEF IsOn
<1>5. ASSUME forks' = forks, IsOn(db'.blocks, chain), IsOn(up'.blocks, chain),
             up'.rx = <<>> \/ (up'.rx = up.rx /\ up'.blocks = up.blocks) \/ FetchedOn(up)',
             up'.pc \notin {"detect", "recover", "restore"}
      PROVE  Calm'
  <2>1. chain' = chain
    BY <1>5 DEF chain
  <2>2. FetchedOn(up)'
    BY <1>1, <1>3, <1>5, <2>1 DEF FetchedOn
  <2> QED BY <1>1, <1>5, <2>1, <2>2 DEF Calm, Settled
<1>6. CASE BeginUpdate
  <2>1. ~TipReorged(db.blocks)
    <3> DEFINE n == Len(db.blocks)
    <3> SUFFICES ASSUME TipReorged(db.blocks)
                 PROVE  FALSE
      OBVIOUS
    <3>1. n = Len(chain) /\ db.blocks[n] # chain[n]
      BY DEF TipReorged, Last
    <3>2. n \in 1 .. n
      BY <1>1, <3>1, BestChain
    <3> QED BY <1>1, <3>1, <3>2 DEF IsOn
  <2>2. up' = [Idle EXCEPT !.pc = "loop", !.blocks = db.blocks, !.fetching = TRUE]
    BY <1>6, <2>1 DEF BeginUpdate
  <2>3. up'.pc = "loop" /\ up'.blocks = db.blocks /\ up'.rx = <<>> /\ db' = db /\ forks' = forks
    BY <1>6, <2>2 DEF Idle, BeginUpdate
  <2> QED BY <1>1, <1>5, <2>3
<1>7. CASE FetchBlock
  <2>1. up'.pc = up.pc /\ up'.blocks = up.blocks /\ db' = db /\ forks' = forks
    BY <1>1, <1>7 DEF FetchBlock, Updates
  <2>2. FetchedOn(up)'
    BY <1>1, <1>7, FetchOn
  <2> QED BY <1>1, <1>5, <2>1, <2>2
<1>8. CASE IndexBlock
  <2>1. up'.pc \in {"commit", "loop"} /\ db' = db /\ forks' = forks
    BY <1>1, <1>8 DEF IndexBlock, Updates
  <2>2. FetchedOn(up)' /\ IsOn(up'.blocks, chain)
    BY <1>1, <1>8, IndexOn
  <2> QED BY <1>1, <1>5, <2>1, <2>2
<1>9. ~MeetReorg
  BY <1>1, OnChainLinks DEF MeetReorg
<1>10. CASE FinishUpdate
  <2>1. /\ up'.pc \in {"commit", "idle"} /\ up'.rx = <<>> /\ up'.blocks \in {up.blocks, <<>>}
        /\ db' = db /\ forks' = forks
    BY <1>1, <1>10 DEF FinishUpdate, Updates, Idle
  <2> QED BY <1>1, <1>4, <1>5, <2>1
<1>11. CASE CommitBlocks \/ DropOldestSavepoint \/ CopyToSavepoint \/ RecordSavepoint
  <2>1. forks' = forks /\ db'.blocks \in {db.blocks, up.blocks}
    BY <1>2, <1>11 DEF CommitBlocks, DropOldestSavepoint, CopyToSavepoint, RecordSavepoint, Databases
  <2>2. \/ up' = Idle
        \/ up'.blocks = up.blocks /\ up'.rx = up.rx /\ up'.pc \in {"savepoint", "copy", "record", "loop"}
    BY <1>1, <1>11 DEF CommitBlocks, DropOldestSavepoint, CopyToSavepoint, RecordSavepoint, Goto, ReturnErr,
                       Updates
  <2>3. Idle.blocks = <<>> /\ Idle.rx = <<>> /\ Idle.pc = "idle"
    BY DEF Idle
  <2> QED BY <1>1, <1>4, <1>5, <2>1, <2>2, <2>3
<1>12. ~DetectReorg /\ ~HandleReorg /\ ~RestoreFiles /\ ~Crash
  BY <1>1 DEF DetectReorg, HandleReorg, RestoreFiles, Crash, OneReorg
<1>13. CASE Mine
  <2>1. up' = up /\ db' = db
    BY <1>13 DEF Mine
  <2>2. Len(forks') = 2
    BY <1>1, <1>13, MineForks
  <2>3. IsOn(db.blocks, chain') /\ IsOn(up.blocks, chain') /\ FetchedOn(up)'
    BY <1>1, <1>2, <1>13, MineOn
  <2> QED BY <1>1, <2>1, <2>2, <2>3 DEF Calm, Settled
<1>14. ASSUME NEW orphans, NEW mined, Reorg(orphans, mined)
       PROVE  FALSE
  <2>1. Len(forks) <= setup.max_reorgs
    BY <1>14 DEF Reorg
  <2> QED BY <1>1, <2>1, TwoForks
<1>15. CASE UNCHANGED vars
  <2>1. forks' = forks /\ db' = db /\ up' = up
    BY <1>15 DEF vars
  <2> QED BY <1>1, <1>5, <2>1
<1> QED BY <1>6, <1>7, <1>8, <1>9, <1>10, <1>11, <1>12, <1>13, <1>14, <1>15 DEF Next, UpdateStep, UpdateLoop

-----------------------------------------------------------------------------
\* One reorg finds its savepoint

\* The numbers that Waiting is about.
LEMMA WaitTypes ==
  ASSUME LinkedInv
  PROVE  /\ Interval \in Nat \ {0} /\ MaxSavepoints \in Nat \ {0} /\ Reach \in Nat /\ Reach = setup.max_orphans + 1
         /\ setup.max_orphans \in Nat /\ Len(forks[1]) \in Nat /\ DOMAIN savepoints \in SUBSET Nat
         /\ db.last \in Nat /\ Len(db.blocks) \in Nat /\ Len(up.blocks) \in Nat /\ up.uncommitted \in Nat
         /\ up.depth \in Nat /\ up.target \in Nat /\ Len(chain) \in Nat /\ up.pc \in Pcs
         /\ up \in Updates /\ db \in Databases /\ Interval * MaxSavepoints \in Nat
<1>1. TypeOK /\ WellForked(forks) /\ up \in Updates /\ db \in Databases
  BY DEF LinkedInv, TypeOK
<1>2. Interval \in Nat \ {0} /\ MaxSavepoints \in Nat \ {0} /\ setup.max_orphans \in Nat
  BY <1>1, Sizes
<1>3. Len(forks[1]) \in Nat
  BY FirstFork
<1>4. DOMAIN savepoints \in SUBSET Nat /\ db.last \in Nat /\ Len(db.blocks) \in Nat
  BY <1>1, Types
<1>5. /\ Len(up.blocks) \in Nat /\ up.uncommitted \in Nat /\ up.depth \in Nat /\ up.target \in Nat
      /\ up.pc \in Pcs /\ Len(chain) \in Nat
  BY <1>1, UpdateTypes, BestChain
<1>6. Reach \in Nat /\ Reach = setup.max_orphans + 1 /\ Interval * MaxSavepoints \in Nat
  BY <1>2 DEF Reach
<1> QED BY <1>1, <1>2, <1>3, <1>4, <1>5, <1>6

\* Without a reorg, or while it is not over, bitcoind's chain is not far ahead of
\* the first fork.
LEMMA ChainNear ==
  ASSUME LinkedInv, ForkedInv, Recoverable, OneReorg
  PROVE  /\ Interval + Reach <= Len(forks[1]) /\ Reach <= (MaxSavepoints - 1) * Interval
         /\ ~Calm /\ up.pc \notin {"detect", "recover", "restore"} =>
              Len(chain) + Reach <= Len(forks[1]) + Interval * MaxSavepoints + 2
<1> DEFINE i == Interval
           m == MaxSavepoints
           k == setup.max_orphans
           t == Len(forks[1])
           l == Len(chain)
           b == setup.initial_blocks
<1>1. i \in Nat /\ m \in Nat /\ m # 0 /\ k \in Nat /\ t \in Nat /\ l \in Nat /\ Reach = k + 1 /\ b \in Nat
  BY WaitTypes, Sizes DEF LinkedInv
<1>2. setup.max_reorgs <= 1 /\ b <= t
  BY DEF OneReorg, ForkedInv
<1>3. /\ k + 1 <= (m - 1) * i /\ i + k + 1 <= b
      /\ ~Settled => l + k <= t + i * m + 1
  BY DEF Recoverable
<1>4. Len(forks) = 1 \/ Len(forks) = 2
  BY <1>2, TwoForks
<1>5. Len(forks) = 1 => l = t
  BY FirstFork
<1>6. Len(forks) = 2 /\ ~Calm /\ up.pc \notin {"detect", "recover", "restore"} => ~Settled
  BY DEF Calm
<1> HIDE DEF i, m, k, t, l, b
<1>7. i + (k + 1) <= t
  BY <1>1, <1>2, <1>3
<1>8. (m - 1) * i <= i * m
  <2>1. m - 1 \in Nat /\ m - 1 <= m
    BY <1>1
  <2>2. i * (m - 1) <= i * m
    BY <1>1, <2>1, Product
  <2> QED BY <1>1, <2>1, <2>2
<1>9. PICK w \in Nat : w = i * m
  BY <1>1
<1>10. PICK v \in Int : v = (m - 1) * i
  BY <1>1
<1>11. l = t => l + (k + 1) <= t + i * m + 2
  BY <1>1, <1>3, <1>8, <1>9, <1>10
<1>12. ~Settled => l + (k + 1) <= t + i * m + 2
  BY <1>1, <1>3, <1>9
<1>13. i + Reach <= t /\ Reach <= (m - 1) * i
  BY <1>1, <1>3, <1>7
<1>14. l = t \/ ~Settled => l + Reach <= t + i * m + 2
  BY <1>1, <1>11, <1>12
<1> QED BY <1>4, <1>5, <1>6, <1>13, <1>14 DEF i, m, t, l

\* A block of the first fork that the chain does not have is near its end.
LEMMA OrphanNear ==
  ASSUME LinkedInv, ForkedInv, setup.max_reorgs <= 1, Len(forks) = 2,
         NEW p \in Nat, 1 <= p, Len(chain) < p \/ chain[p] # 1
  PROVE  Len(forks[1]) + 1 <= p + setup.max_orphans
<1> DEFINE t == Len(forks[1])
           k == setup.max_orphans
           l == Len(chain)
<1>1. t \in Nat /\ k \in Nat /\ l \in Nat
  BY WaitTypes
<1>2. \A q \in 1 .. t : q + k <= t => q <= l /\ chain[q] = 1
  BY DEF ForkedInv
<1> HIDE DEF t, k, l
<1>3. t + 1 <= p + k
  <2> SUFFICES ASSUME p + k <= t
               PROVE  FALSE
    BY <1>1
  <2>1. p \in 1 .. t
    BY <1>1
  <2>2. p <= l /\ chain[p] = 1
    BY <1>2, <2>1
  <2>3. l < p \/ chain[p] # 1
    BY DEF l
  <2> QED BY <1>1, <2>2, <2>3
<1> QED BY <1>3 DEF t, k

\* The fetch thread and the block loop.
LEMMA LoopWaits ==
  ASSUME LinkedInv, RollbackInv, ForkedInv, Recoverable, OneReorg, Waiting, ~Calm, UNCHANGED setup,
         FetchBlock \/ IndexBlock \/ MeetReorg \/ FinishUpdate
  PROVE  Waiting'
<1> DEFINE i == Interval
           m == MaxSavepoints
           r == Reach
           t == Len(forks[1])
           D == DOMAIN savepoints
           last == db.last
           n == Len(db.blocks)
           u == Len(up.blocks)
           c == up.uncommitted
<1>1. /\ i \in Nat /\ m \in Nat /\ r \in Nat /\ t \in Nat /\ D \in SUBSET Nat /\ last \in Nat /\ n \in Nat
      /\ u \in Nat /\ c \in Nat /\ up.depth \in Nat /\ up.target \in Nat /\ up \in Updates
  BY WaitTypes
<1>2. Waits(i, m, r, t, D, last, n, up.pc, u, c, up.depth, up.target)
  BY DEF Waiting
<1>3. forks' = forks /\ savepoints' = savepoints /\ db' = db
  BY DEF FetchBlock, IndexBlock, MeetReorg, FinishUpdate
<1>4. ASSUME Waits(i, m, r, t, D, last, n, up'.pc, Len(up'.blocks), up'.uncommitted, up'.depth, up'.target)
      PROVE  Waiting'
  BY <1>3, <1>4 DEF Waiting, Interval, MaxSavepoints, Reach
<1>5. CASE FetchBlock
  <2>1. /\ up'.pc = up.pc /\ up'.blocks = up.blocks /\ up'.uncommitted = up.uncommitted
        /\ up'.depth = up.depth /\ up'.target = up.target
    BY <1>1, <1>5 DEF FetchBlock, Updates
  <2> QED BY <1>2, <1>4, <2>1
<1>6. CASE IndexBlock
  <2> DEFINE b == Append(up.blocks, Head(up.rx))
  <2>1. up.pc = "loop" /\ up.rx # <<>>
    BY <1>6 DEF IndexBlock
  <2>2. /\ up'.pc = (IF CommitDue(b) THEN "commit" ELSE "loop") /\ up'.blocks = b
        /\ up'.uncommitted = c + 1 /\ up'.depth = up.depth /\ up'.target = up.target
    BY <1>1, <1>6 DEF IndexBlock, Updates
  <2>3. Len(b) = u + 1
    <3>1. up.blocks \in Seq(Nat) /\ up.rx \in Seq(Nat)
      BY <1>1, UpdateTypes DEF LinkedInv
    <3>2. Head(up.rx) \in Nat
      BY <2>1, <3>1, HeadTailProperties
    <3> QED BY <3>1, <3>2, AppendProperties
  <2>4. ASSUME ~CommitDue(b), t = u + 1 + r
        PROVE  Low(D, t, r)
    <3> DEFINE l == Len(chain)
               w == Interval * MaxSavepoints
    <3>1. l \in Nat /\ w \in Nat /\ i + r <= t /\ l + r <= t + w + 2
      BY <2>1, WaitTypes, ChainNear
    <3>2. PICK h \in Nat : h = u + 1
      BY <1>1
    <3>3. ~((h < i \/ h - last >= i) /\ l - 1 <= h + w + 1)
      <4>1. ~is_savepoint_required(last, Len(b))
        BY <2>4 DEF CommitDue
      <4> HIDE DEF b, u, last
      <4>2. ~is_savepoint_required(last, h)
        BY <2>3, <3>2, <4>1
      <4> QED BY <4>2 DEF is_savepoint_required
    <3> HIDE DEF i, m, r, t, D, last, n, u, c, b, l, w
    <3>4. last <= n /\ (last = 0 \/ last \in D) /\ u = n + c
      BY <1>2, <2>1 DEF Waits, Stored, Pending, Fetching
    <3>5. last <= h /\ t = h + r
      BY <1>1, <2>4, <3>2, <3>4
    <3> QED BY <1>1, <3>1, <3>3, <3>4, <3>5, NotRequired
  <2> HIDE DEF i, m, r, t, D, last, n, u, c, b
  <2>5. Waits(i, m, r, t, D, last, n, "loop", u, c, up.depth, up.target)
    BY <1>2, <2>1
  <2>6. CASE CommitDue(b)
    <3>1. Waits(i, m, r, t, D, last, n, "commit", u + 1, c + 1, up.depth, up.target)
      BY <1>1, <2>5, WaitsLoop
    <3> QED BY <1>4, <2>2, <2>3, <2>6, <3>1
  <2>7. CASE ~CommitDue(b)
    <3>1. Waits(i, m, r, t, D, last, n, "loop", u + 1, c + 1, up.depth, up.target)
      BY <1>1, <2>4, <2>5, <2>7, WaitsLoop
    <3> QED BY <1>4, <2>2, <2>3, <2>7, <3>1
  <2> QED BY <2>6, <2>7
<1>7. CASE MeetReorg
  <2> DEFINE f == Head(up.rx)
  <2>1. up.pc = "loop" /\ up.rx # <<>> /\ ~LinksTo(f)
    BY <1>7 DEF MeetReorg
  <2>2. /\ up'.pc = "detect" /\ up'.blocks = up.blocks /\ up'.uncommitted = c /\ up'.depth = 1
        /\ up'.target = up.target
    BY <1>1, <1>7 DEF MeetReorg, Updates
  <2>3. setup.max_reorgs <= 1 /\ Len(forks) = 2 /\ Original(up.blocks)
    <3>1. setup.max_reorgs <= 1 /\ RollbackOf(up)
      BY DEF OneReorg, RollbackInv
    <3>2. RollbackOf(up')
      BY <1>7, <3>1, LoopRollback
    <3> QED BY <2>2, <3>1, <3>2 DEF RollbackOf
  <2>4. 1 <= u /\ u \in 1 .. u /\ up.blocks[u] = 1 /\ forks[f][u] # 1
    <3>1. u > 0 /\ up.blocks[u] # forks[f][u]
      BY <2>1 DEF LinksTo
    <3>2. u \in 1 .. u /\ 1 <= u
      <4> HIDE DEF u
      <4> QED BY <1>1, <3>1
    <3> QED BY <2>3, <3>1, <3>2 DEF Original
  <2>5. f = 2
    <3>1. up.rx \in Seq(Nat) /\ Len(up.rx) \in Nat
      BY <1>1, UpdateTypes DEF LinkedInv
    <3>2. f = up.rx[1] /\ 1 \in 1 .. Len(up.rx)
      BY <2>1, <3>1, HeadTailProperties, EmptySeq
    <3>3. Mined(forks, f, u + 1)
      BY <3>2 DEF LinkedInv, UpdateLinked
    <3> HIDE DEF f, u
    <3>4. f \in 1 .. 2 /\ u + 1 \in 1 .. Len(forks[f])
      BY <2>3, <3>3 DEF Mined
    <3>5. f # 1
      <4> SUFFICES ASSUME f = 1
                   PROVE  FALSE
        OBVIOUS
      <4>1. u \in 1 .. Len(forks[1])
        <5> HIDE DEF t
        <5>1. u + 1 \in 1 .. t
          BY <3>4 DEF t
        <5>2. u \in 1 .. t
          BY <1>1, <2>4, <5>1
        <5> QED BY <5>2 DEF t
      <4> QED BY <2>4, <4>1, FirstFork DEF Original
    <3> QED BY <3>4, <3>5
  <2>6. Len(forks[1]) + 1 <= u + setup.max_orphans
    <3>1. chain[u] # 1
      BY <2>3, <2>4, <2>5 DEF chain, Last
    <3> HIDE DEF u
    <3> QED BY <1>1, <2>3, <2>4, <3>1, OrphanNear
  <2>7. t + 1 <= u + r
    <3>1. r = setup.max_orphans + 1 /\ setup.max_orphans \in Nat /\ t + 1 <= u + setup.max_orphans
      BY <2>6, WaitTypes
    <3> HIDE DEF r, t, u
    <3> QED BY <1>1, <3>1
  <2> HIDE DEF i, m, r, t, D, last, n, u, c, f
  <2>8. Waits(i, m, r, t, D, last, n, "loop", u, c, up.depth, up.target)
    BY <1>2, <2>1
  <2>9. Waits(i, m, r, t, D, last, n, "detect", u, c, 1, up.target)
    BY <1>1, <2>4, <2>7, <2>8, WaitsLoop
  <2> QED BY <1>4, <2>2, <2>9 DEF u
<1>8. CASE FinishUpdate
  <2>1. up.pc = "loop"
    BY <1>8 DEF FinishUpdate
  <2>2. CASE c > 0
    <3>1. /\ up'.pc = "commit" /\ up'.blocks = up.blocks /\ up'.uncommitted = c
          /\ up'.depth = up.depth /\ up'.target = up.target
      BY <1>1, <1>8, <2>2 DEF FinishUpdate, Updates
    <3> HIDE DEF i, m, r, t, D, last, n, u, c
    <3>2. Waits(i, m, r, t, D, last, n, "loop", u, c, up.depth, up.target)
      BY <1>2, <2>1
    <3>3. Waits(i, m, r, t, D, last, n, "commit", u, c, up.depth, up.target)
      BY <1>1, <2>2, <3>2, WaitsLoop
    <3> QED BY <1>4, <3>1, <3>3 DEF u
  <2>3. CASE ~(c > 0)
    <3>1. up'.pc = "idle"
      BY <1>8, <2>3 DEF FinishUpdate, Idle
    <3> HIDE DEF i, m, r, t, D, last, n, u, c
    <3>2. Waits(i, m, r, t, D, last, n, "loop", u, c, up.depth, up.target)
      BY <1>2, <2>1
    <3>3. Waits(i, m, r, t, D, last, n, "idle", Len(up'.blocks), up'.uncommitted, up'.depth, up'.target)
      BY <1>1, <3>2, WaitsLoop
    <3> QED BY <1>4, <3>1, <3>3
  <2> QED BY <2>2, <2>3
<1> QED BY <1>5, <1>6, <1>7, <1>8

\* A commit and its savepoint.
LEMMA CommitWaits ==
  ASSUME LinkedInv, ForkedInv, Recoverable, OneReorg, Waiting, ~Calm, UNCHANGED setup,
         CommitBlocks \/ DropOldestSavepoint \/ CopyToSavepoint \/ RecordSavepoint
  PROVE  Waiting'
<1> DEFINE i == Interval
           m == MaxSavepoints
           r == Reach
           t == Len(forks[1])
           D == DOMAIN savepoints
           last == db.last
           n == Len(db.blocks)
           u == Len(up.blocks)
           c == up.uncommitted
<1>1. /\ i \in Nat /\ m \in Nat /\ r \in Nat /\ t \in Nat /\ D \in SUBSET Nat /\ last \in Nat /\ n \in Nat
      /\ u \in Nat /\ c \in Nat /\ up.depth \in Nat /\ up.target \in Nat /\ up \in Updates
  BY WaitTypes
<1>2. Waits(i, m, r, t, D, last, n, up.pc, u, c, up.depth, up.target)
  BY DEF Waiting
<1>3. forks' = forks /\ db \in Databases
  BY WaitTypes DEF CommitBlocks, DropOldestSavepoint, CopyToSavepoint, RecordSavepoint
<1>4. ASSUME Waits(i, m, r, t, DOMAIN savepoints', db'.last, Len(db'.blocks), up'.pc, u, up'.uncommitted,
                   up.depth, up.target),
             up'.blocks = up.blocks, up'.depth = up.depth, up'.target = up.target
      PROVE  Waiting'
  BY <1>3, <1>4 DEF Waiting, Interval, MaxSavepoints, Reach
<1>5. CASE CommitBlocks
  <2>1. /\ up.pc = "commit" /\ up'.pc = "savepoint" /\ up'.blocks = up.blocks /\ up'.uncommitted = 0
        /\ up'.depth = up.depth /\ up'.target = up.target
    BY <1>1, <1>5 DEF CommitBlocks, Updates
  <2>2. savepoints' = savepoints /\ db'.last = last /\ Len(db'.blocks) = u
    BY <1>3, <1>5 DEF CommitBlocks, Databases
  <2> HIDE DEF i, m, r, t, last, n, u, c, D
  <2>3. Waits(i, m, r, t, D, last, n, "commit", u, c, up.depth, up.target)
    BY <1>2, <2>1
  <2>4. Waits(i, m, r, t, D, last, u, "savepoint", u, 0, up.depth, up.target)
    BY <1>1, <2>3, WaitsCommit
  <2> QED BY <1>4, <2>1, <2>2, <2>4 DEF D
<1>6. CASE DropOldestSavepoint
  <2>1. up.pc = "savepoint" /\ db' = db
    BY <1>6 DEF DropOldestSavepoint
  <2>2. CASE is_savepoint_required(db.last, Len(db.blocks))
    <3>1. n < i \/ n - last >= i
      BY <2>2 DEF is_savepoint_required
    <3>2. savepoints' = Restrict(savepoints, Kept(savepoints)) /\ up' = [up EXCEPT !.pc = "copy"]
      BY <1>6, <2>2 DEF DropOldestSavepoint, Goto
    <3>3. /\ up'.pc = "copy" /\ up'.blocks = up.blocks /\ up'.uncommitted = c
          /\ up'.depth = up.depth /\ up'.target = up.target
      BY <1>1, <3>2 DEF Updates
    <3>4. DOMAIN savepoints' = IF Cardinality(D) >= m THEN D \ {Min(D)} ELSE D
      BY <3>2 DEF Restrict, Kept
    <3> HIDE DEF i, m, r, t, D, last, n, u, c
    <3>5. n < i \/ last + i <= n
      BY <1>1, <3>1
    <3>6. Waits(i, m, r, t, D, last, n, "savepoint", u, c, up.depth, up.target)
      BY <1>2, <2>1
    <3>7. Waits(i, m, r, t, DOMAIN savepoints', last, n, "copy", u, c, up.depth, up.target)
      BY <1>1, <3>4, <3>5, <3>6, WaitsDrop
    <3> QED BY <1>4, <2>1, <3>3, <3>7 DEF last, n
  <2>3. CASE ~is_savepoint_required(db.last, Len(db.blocks))
    <3>1. savepoints' = savepoints /\ up' = [up EXCEPT !.pc = "loop"]
      BY <1>6, <2>3 DEF DropOldestSavepoint, Goto
    <3>2. /\ up'.pc = "loop" /\ up'.blocks = up.blocks /\ up'.uncommitted = c
          /\ up'.depth = up.depth /\ up'.target = up.target
      BY <1>1, <3>1 DEF Updates
    <3>3. ASSUME t = n + r
          PROVE  Low(D, t, r)
      <4> DEFINE l == Len(chain)
                 w == Interval * MaxSavepoints
      <4>1. l \in Nat /\ w \in Nat /\ i + r <= t /\ l + r <= t + w + 2
        BY <2>1, WaitTypes, ChainNear
      <4>2. ~((n < i \/ n - last >= i) /\ l - 1 <= n + w + 1)
        BY <2>3 DEF is_savepoint_required
      <4> HIDE DEF i, m, r, t, D, last, n, u, c, l, w
      <4>3. last <= n /\ (last = 0 \/ last \in D)
        BY <1>2, <2>1 DEF Waits, Stored
      <4> QED BY <1>1, <3>3, <4>1, <4>2, <4>3, NotRequired
    <3> HIDE DEF i, m, r, t, D, last, n, u, c
    <3>4. Waits(i, m, r, t, D, last, n, "savepoint", u, c, up.depth, up.target)
      BY <1>2, <2>1
    <3>5. Waits(i, m, r, t, D, last, n, "loop", u, c, up.depth, up.target)
      BY <1>1, <3>3, <3>4, WaitsCommit
    <3> QED BY <1>4, <2>1, <3>1, <3>2, <3>5 DEF D, last, n
  <2> QED BY <2>2, <2>3
<1>7. CASE CopyToSavepoint
  <2>1. up.pc = "copy" /\ db' = db
    BY <1>7 DEF CopyToSavepoint
  <2>2. n \notin D /\ Waits(i, m, r, t, D \cup {n}, last, n, "record", u, c, up.depth, up.target)
    <3> HIDE DEF i, m, r, t, D, last, n, u, c
    <3>1. Waits(i, m, r, t, D, last, n, "copy", u, c, up.depth, up.target)
      BY <1>2, <2>1
    <3> QED BY <1>1, <3>1, WaitsCopy
  <2>3. savepoints' = copy_to_savepoint /\ up' = [up EXCEPT !.pc = "record"]
    BY <1>7, <2>2 DEF CopyToSavepoint, SavepointHeight, Goto
  <2>4. /\ up'.pc = "record" /\ up'.blocks = up.blocks /\ up'.uncommitted = c
        /\ up'.depth = up.depth /\ up'.target = up.target
    BY <1>1, <2>3 DEF Updates
  <2>5. DOMAIN savepoints' = D \cup {n}
    BY <2>3 DEF copy_to_savepoint, SavepointHeight
  <2> HIDE DEF i, m, r, t, D, u, c
  <2> QED BY <1>4, <2>1, <2>2, <2>4, <2>5
<1>8. CASE RecordSavepoint
  <2>1. up.pc = "record" /\ savepoints' = savepoints
    BY <1>8 DEF RecordSavepoint
  <2>2. db'.last = n /\ db'.blocks = db.blocks
    BY <1>3, <1>8 DEF RecordSavepoint, SavepointHeight, Databases
  <2>3. /\ up'.pc = "loop" /\ up'.blocks = up.blocks /\ up'.uncommitted = c
        /\ up'.depth = up.depth /\ up'.target = up.target
    BY <1>1, <1>8 DEF RecordSavepoint, Goto, Updates
  <2> HIDE DEF i, m, r, t, D, last, n, u, c
  <2>4. Waits(i, m, r, t, D, last, n, "record", u, c, up.depth, up.target)
    BY <1>2, <2>1
  <2>5. Waits(i, m, r, t, D, n, n, "loop", u, c, up.depth, up.target)
    BY <1>1, <2>4, WaitsCommit
  <2> QED BY <1>4, <2>1, <2>2, <2>3, <2>5 DEF D, n
<1> QED BY <1>5, <1>6, <1>7, <1>8

\* Beginning an update, looking back, and going back to a savepoint.
LEMMA DetectWaits ==
  ASSUME LinkedInv, RollbackInv, ForkedInv, Recoverable, OneReorg, Waiting, UNCHANGED setup,
         BeginUpdate \/ DetectReorg \/ HandleReorg \/ RestoreFiles
  PROVE  Waiting' \/ Calm'
<1> DEFINE i == Interval
           m == MaxSavepoints
           r == Reach
           t == Len(forks[1])
           D == DOMAIN savepoints
           last == db.last
           n == Len(db.blocks)
           u == Len(up.blocks)
           c == up.uncommitted
<1>1. /\ i \in Nat /\ m \in Nat /\ r \in Nat /\ t \in Nat /\ D \in SUBSET Nat /\ last \in Nat /\ n \in Nat
      /\ u \in Nat /\ c \in Nat /\ up.depth \in Nat /\ up.target \in Nat /\ up \in Updates
  BY WaitTypes
<1>2. Waits(i, m, r, t, D, last, n, up.pc, u, c, up.depth, up.target)
  BY DEF Waiting
<1>3. forks' = forks /\ savepoints' = savepoints /\ (~RestoreFiles => db' = db)
  BY DEF BeginUpdate, DetectReorg, HandleReorg, RestoreFiles
<1>4. ASSUME Waits(i, m, r, t, D, last, n, up'.pc, Len(up'.blocks), up'.uncommitted, up'.depth, up'.target),
             db' = db
      PROVE  Waiting'
  BY <1>3, <1>4 DEF Waiting, Interval, MaxSavepoints, Reach
<1>5. setup.max_reorgs <= 1 /\ RollbackOf(up)
  BY DEF OneReorg, RollbackInv
<1>6. CASE BeginUpdate
  <2>1. up.pc = "idle" /\ db' = db
    BY <1>6 DEF BeginUpdate
  <2>2. CASE TipReorged(db.blocks)
    <3>1. up' = [Idle EXCEPT !.pc = "detect", !.blocks = db.blocks, !.depth = 1]
      BY <1>6, <2>2 DEF BeginUpdate
    <3>2. up'.pc = "detect" /\ up'.blocks = db.blocks /\ up'.uncommitted = 0 /\ up'.depth = 1
      BY <3>1 DEF Idle
    <3>3. Len(forks) = 2 /\ Original(db.blocks)
      <4>1. RollbackOf(up')
        BY <1>5, <1>6, DetectRollback
      <4> QED BY <3>2, <4>1 DEF RollbackOf
    <3>4. n = Len(chain) /\ db.blocks[n] # chain[n]
      BY <2>2 DEF TipReorged, Last
    <3>5. 1 <= n /\ n \in 1 .. n
      BY <3>4, BestChain DEF LinkedInv
    <3>6. chain[n] # 1
      BY <3>3, <3>4, <3>5 DEF Original
    <3>7. t + 1 <= n + setup.max_orphans
      <4> HIDE DEF n
      <4> QED BY <1>1, <1>5, <3>3, <3>5, <3>6, OrphanNear
    <3>8. r = setup.max_orphans + 1 /\ setup.max_orphans \in Nat
      BY WaitTypes
    <3> HIDE DEF i, m, r, t, D, last, n, u, c
    <3>9. t + 1 <= n + r
      BY <1>1, <3>7, <3>8
    <3>10. Waits(i, m, r, t, D, last, n, "idle", u, c, up.depth, up.target)
      BY <1>2, <2>1
    <3>11. Waits(i, m, r, t, D, last, n, "detect", n, 0, 1, up'.target)
      BY <1>1, <3>5, <3>9, <3>10, WaitsBegin
    <3> QED BY <1>4, <2>1, <3>2, <3>11 DEF n
  <2>3. CASE ~TipReorged(db.blocks)
    <3>1. up' = [Idle EXCEPT !.pc = "loop", !.blocks = db.blocks, !.fetching = TRUE]
      BY <1>6, <2>3 DEF BeginUpdate
    <3>2. up'.pc = "loop" /\ up'.blocks = db.blocks /\ up'.uncommitted = 0
      BY <3>1 DEF Idle
    <3> HIDE DEF i, m, r, t, D, last, n, u, c
    <3>3. Waits(i, m, r, t, D, last, n, "idle", u, c, up.depth, up.target)
      BY <1>2, <2>1
    <3>4. Waits(i, m, r, t, D, last, n, "loop", n, 0, up'.depth, up'.target)
      BY <1>1, <3>3, WaitsBegin
    <3> QED BY <1>4, <2>1, <3>2, <3>4 DEF n
  <2> QED BY <2>2, <2>3
<1>7. CASE DetectReorg
  <2> DEFINE d == up.depth
  <2>1. up.pc = "detect" /\ db' = db /\ Len(forks) = 2 /\ Original(up.blocks)
    BY <1>5, <1>7 DEF DetectReorg, RollbackOf
  <2>2. Waits(i, m, r, t, D, last, n, "detect", u, c, d, up.target)
    BY <1>2, <2>1
  <2>3. CASE up' = Idle
    <3>1. up'.pc = "idle"
      BY <2>3 DEF Idle
    <3> HIDE DEF i, m, r, t, D, last, n, u, c, d
    <3>2. Waits(i, m, r, t, D, last, n, "idle", Len(up'.blocks), up'.uncommitted, up'.depth, up'.target)
      BY <1>1, <2>2, WaitsReorg DEF d
    <3> QED BY <1>4, <2>1, <3>1, <3>2
  <2>4. CASE up' = [up EXCEPT !.pc = "recover", !.target = u - d]
    <3>1. /\ up'.pc = "recover" /\ up'.blocks = up.blocks /\ up'.uncommitted = c /\ up'.target = u - d
          /\ up'.depth = d
      BY <1>1, <2>4 DEF Updates
    <3>2. d \in Nat
      BY <1>1
    <3> HIDE DEF i, m, r, t, D, last, n, u, c, d
    <3>3. Waits(i, m, r, t, D, last, n, "recover", u, c, d, u - d)
      BY <1>1, <2>2, <3>2, WaitsReorg
    <3> QED BY <1>4, <2>1, <3>1, <3>3 DEF u
  <2>5. CASE ~SameBlock(u, d) /\ up' = [up EXCEPT !.depth = @ + 1]
    <3> DEFINE p == u - d + 1
    <3>1. up'.pc = "detect" /\ up'.blocks = up.blocks /\ up'.uncommitted = c /\ up'.depth = d + 1
      BY <1>1, <2>1, <2>5 DEF Updates
    <3>2. d \in Nat /\ d <= u /\ i + r <= t
      BY <1>1, <2>2, ChainNear DEF Waits, Looking
    <3>3. 1 <= d
      BY <2>1 DEF LinkedInv, UpdateLinked
    <3>4. p \in Nat /\ 1 <= p /\ p \in 1 .. u
      <4> HIDE DEF u, d
      <4> QED BY <1>1, <3>2, <3>3
    <3>5. Len(chain) \in Nat /\ r = setup.max_orphans + 1 /\ setup.max_orphans \in Nat
      BY WaitTypes
    <3>6. Len(chain) < p \/ chain[p] # 1
      <4>1. ~(u - d < Len(chain) /\ up.blocks[p] = chain[p])
        <5> HIDE DEF u, d
        <5> QED BY <2>5, <3>2 DEF SameBlock
      <4>2. up.blocks[p] = 1
        BY <2>1, <3>4 DEF Original
      <4> HIDE DEF u, d
      <4>3. ~(u - d < Len(chain)) => Len(chain) < u - d + 1
        BY <1>1, <3>2, <3>5
      <4> QED BY <4>1, <4>2, <4>3
    <3>7. t + 1 <= p + setup.max_orphans
      <4> HIDE DEF p
      <4> QED BY <1>5, <2>1, <3>4, <3>6, OrphanNear
    <3> HIDE DEF i, m, r, t, D, last, n, u, c, d
    <3>8. t + d + 1 <= u + r
      <4>1. PICK k \in Nat : r = k + 1 /\ t + 1 <= u - d + 1 + k
        BY <3>5, <3>7
      <4> QED BY <1>1, <3>2, <4>1
    <3>9. d + 1 <= u
      BY <1>1, <3>2, <3>8
    <3>10. Waits(i, m, r, t, D, last, n, "detect", u, c, d + 1, up'.target)
      BY <1>1, <2>2, <3>2, <3>8, <3>9, WaitsReorg
    <3> QED BY <1>4, <2>1, <3>1, <3>10 DEF u
  <2> QED BY <1>7, <2>3, <2>4, <2>5 DEF DetectReorg, ReturnErr
<1>8. CASE HandleReorg
  <2>1. up.pc = "recover" /\ db' = db
    BY <1>8 DEF HandleReorg
  <2>2. \/ up'.pc = "idle"
        \/ /\ up'.pc = "restore" /\ up'.blocks = up.blocks /\ up'.uncommitted = c
    <3>1. PICK x : up' = [up EXCEPT !.pc = "restore", !.target = x] \/ up' = Idle
      BY <1>8 DEF HandleReorg, ReturnErr
    <3>2. CASE up' = [up EXCEPT !.pc = "restore", !.target = x]
      BY <1>1, <3>2 DEF Updates
    <3>3. CASE up' = Idle
      BY <3>3 DEF Idle
    <3> QED BY <3>1, <3>2, <3>3
  <2> HIDE DEF i, m, r, t, D, last, n, u, c
  <2>3. Waits(i, m, r, t, D, last, n, "recover", u, c, up.depth, up.target)
    BY <1>2, <2>1
  <2>4. CASE up'.pc = "idle"
    <3>1. Waits(i, m, r, t, D, last, n, "idle", Len(up'.blocks), up'.uncommitted, up'.depth, up'.target)
      BY <1>1, <2>3, WaitsReorg
    <3> QED BY <1>4, <2>1, <2>4, <3>1
  <2>5. CASE up'.pc = "restore" /\ up'.blocks = up.blocks /\ up'.uncommitted = c
    <3>1. Waits(i, m, r, t, D, last, n, "restore", u, c, up'.depth, up'.target)
      BY <1>1, <2>3, WaitsReorg
    <3> QED BY <1>4, <2>1, <2>5, <3>1 DEF u
  <2> QED BY <2>2, <2>4, <2>5
<1>9. CASE RestoreFiles
  <2>1. up.pc = "restore" /\ Len(forks) = 2
    BY <1>5, <1>9 DEF RestoreFiles, RollbackOf
  <2>2. CASE up.target \in torn
    <3>1. db' = db /\ up' = [up EXCEPT !.pc = "broken"]
      BY <1>9, <2>2 DEF RestoreFiles, Goto
    <3>2. /\ up'.pc = "broken" /\ up'.blocks = up.blocks /\ up'.uncommitted = c
      BY <1>1, <3>1 DEF Updates
    <3> HIDE DEF i, m, r, t, D, last, n, u, c
    <3>3. Waits(i, m, r, t, D, last, n, "restore", u, c, up.depth, up.target)
      BY <1>2, <2>1
    <3>4. Waits(i, m, r, t, D, last, n, "broken", u, c, up'.depth, up'.target)
      BY <1>1, <3>3, WaitsReorg
    <3> QED BY <1>4, <3>1, <3>2, <3>4 DEF u
  <2>3. CASE up.target \notin torn
    <3>1. db' = savepoints[up.target] /\ up' = Idle
      BY <1>9, <2>3 DEF RestoreFiles
    <3>2. up'.blocks = <<>> /\ up'.rx = <<>> /\ up'.pc = "idle" /\ chain' = chain
      BY <1>3, <3>1 DEF Idle, chain
    <3>3. IsOn(db'.blocks, chain)
      BY <1>5, <2>1, <3>1, SavepointOnChain
    <3>4. Len(<<>>) = 0 /\ Len(chain) \in Nat
      BY EmptySeq, WaitTypes
    <3>5. IsOn(up'.blocks, chain)
      BY <3>2, <3>4 DEF IsOn
    <3>6. FetchedOn(up)'
      BY <3>2, <3>4 DEF FetchedOn
    <3> QED BY <1>3, <2>1, <3>2, <3>3, <3>5, <3>6 DEF Calm, Settled
  <2> QED BY <2>2, <2>3
<1> QED BY <1>6, <1>7, <1>8, <1>9

\* One step leaves savepoints to go back to, or the reorg is over.
LEMMA SavedStep ==
  ASSUME LinkedInv, RollbackInv, ForkedInv, Recoverable, SavedInv, [Next]_vars
  PROVE  SavedInv'
<1>1. setup' = setup
  BY DEF Next, vars
<1>2. SUFFICES ASSUME OneReorg
               PROVE  Calm' \/ Waiting'
  BY <1>1 DEF SavedInv, OneReorg
<1>3. setup.max_reorgs <= 1 /\ RollbackOf(up)
  BY <1>2 DEF OneReorg, RollbackInv
<1>4. CASE Calm
  BY <1>2, <1>4, CalmStep
<1>5. SUFFICES ASSUME ~Calm, Waiting
               PROVE  Calm' \/ Waiting'
  BY <1>2, <1>4 DEF SavedInv
<1>6. CASE FetchBlock \/ IndexBlock \/ MeetReorg \/ FinishUpdate
  BY <1>1, <1>2, <1>5, <1>6, LoopWaits
<1>7. CASE CommitBlocks \/ DropOldestSavepoint \/ CopyToSavepoint \/ RecordSavepoint
  BY <1>1, <1>2, <1>5, <1>7, CommitWaits
<1>8. CASE BeginUpdate \/ DetectReorg \/ HandleReorg \/ RestoreFiles
  BY <1>1, <1>2, <1>5, <1>8, DetectWaits
<1>9. ~Crash
  BY <1>2 DEF Crash, OneReorg
<1>10. ASSUME db' = db, savepoints' = savepoints, forks'[1] = forks[1],
              up'.pc = up.pc, up'.blocks = up.blocks, up'.uncommitted = up.uncommitted,
              up'.depth = up.depth, up'.target = up.target
       PROVE  Waiting'
  BY <1>1, <1>5, <1>10 DEF Waiting, Interval, MaxSavepoints, Reach
<1>11. CASE Mine
  <2>1. db' = db /\ savepoints' = savepoints /\ up' = up
    BY <1>11 DEF Mine
  <2>2. CASE Len(forks) = 2
    <3>1. forks'[1] = forks[1]
      BY <1>3, <1>11, <2>2, MineForks
    <3> QED BY <1>10, <2>1, <3>1
  <2>3. CASE Len(forks) = 1
    <3> DEFINE t == Len(forks[1])
    <3>1. Len(forks'[1]) = t + 1 /\ up.pc \notin {"detect", "recover"}
      BY <1>3, <1>11, <2>3, MineForks DEF RollbackOf
    <3>2. Waits(Interval, MaxSavepoints, Reach, t, DOMAIN savepoints, db.last, Len(db.blocks),
                up.pc, Len(up.blocks), up.uncommitted, up.depth, up.target)
      BY <1>5 DEF Waiting
    <3> HIDE DEF t
    <3>3. Waits(Interval, MaxSavepoints, Reach, t + 1, DOMAIN savepoints, db.last, Len(db.blocks),
                up.pc, Len(up.blocks), up.uncommitted, up.depth, up.target)
      BY <3>1, <3>2, WaitTypes, WaitsMine DEF t
    <3> QED BY <1>1, <2>1, <3>1, <3>3 DEF Waiting, Interval, MaxSavepoints, Reach
  <2> QED BY <1>3, <2>2, <2>3, TwoForks
<1>12. ASSUME NEW orphans \in 1 .. setup.max_orphans, NEW mined \in 0 .. setup.max_orphans + 1,
              Reorg(orphans, mined)
       PROVE  Waiting'
  <2>1. forks'[1] = forks[1]
    BY <1>1, <1>3, <1>12, ReorgForks
  <2>2. up \in Updates
    BY DEF LinkedInv, TypeOK
  <2>3. /\ up'.pc = up.pc /\ up'.blocks = up.blocks /\ up'.uncommitted = up.uncommitted
        /\ up'.depth = up.depth /\ up'.target = up.target /\ db' = db /\ savepoints' = savepoints
    BY <1>12, <2>2 DEF Reorg, Updates
  <2> QED BY <1>10, <2>1, <2>3
<1>13. CASE UNCHANGED vars
  BY <1>10, <1>13 DEF vars
<1> QED BY <1>6, <1>7, <1>8, <1>9, <1>11, <1>12, <1>13 DEF Next, UpdateStep, UpdateLoop

\* The savepoint that handle_reorg looks for is there.
LEMMA SavepointThere ==
  ASSUME LinkedInv, RollbackInv, ForkedInv, Recoverable, SavedInv, OneReorg, up.pc = "recover"
  PROVE  SavepointsUpTo(up.target) # {}
<1> DEFINE i == Interval
           m == MaxSavepoints
           r == Reach
           t == Len(forks[1])
           D == DOMAIN savepoints
           u == Len(up.blocks)
<1>1. /\ i \in Nat \ {0} /\ m \in Nat \ {0} /\ r \in Nat /\ t \in Nat /\ D \in SUBSET Nat /\ u \in Nat
      /\ db.last \in Nat /\ Len(db.blocks) \in Nat /\ up.uncommitted \in Nat /\ up.target \in Nat
  BY WaitTypes
<1>2. Waits(i, m, r, t, D, db.last, Len(db.blocks), "recover", u, up.uncommitted, up.depth, up.target)
  BY DEF SavedInv, Calm, Waiting
<1>3. r <= (m - 1) * i /\ i + r <= t
  BY ChainNear
<1>4. u <= t
  <2>1. Original(up.blocks) /\ Ancestral(forks, up.blocks)
    BY DEF RollbackInv, RollbackOf, OneReorg, LinkedInv, UpdateLinked
  <2>2. CASE u = 0
    BY <1>1, <2>2
  <2>3. CASE u # 0
    <3>1. u \in 1 .. u
      <4> HIDE DEF u
      <4> QED BY <1>1, <2>3
    <3>2. up.blocks[u] = 1 /\ Mined(forks, up.blocks[u], u)
      BY <2>1, <3>1 DEF Original, Ancestral
    <3>3. u \in 1 .. t
      BY <3>2 DEF Mined
    <3> HIDE DEF u, t
    <3> QED BY <1>1, <3>3
  <2> QED BY <2>2, <2>3
<1> HIDE DEF i, m, r, t, D, u
<1>5. \E s \in D : s <= up.target
  BY <1>1, <1>2, <1>3, <1>4, WaitsFound
<1> QED BY <1>5 DEF SavepointsUpTo, D

\* The chain that bitcoind has at first.
LEMMA InitialChain ==
  ASSUME Init
  PROVE  /\ setup.initial_blocks \in Nat /\ Len(forks) = 1 /\ chain = forks[1]
         /\ Len(chain) = setup.initial_blocks
<1> DEFINE b == setup.initial_blocks
           s == [h \in 1 .. b |-> 1]
<1>1. b \in Nat /\ forks = <<s>>
  BY IndexAssumption DEF Init, SetupKinds, Positive
<1>2. Len(s) = b
  <2>1. s \in [1 .. b -> Nat]
    OBVIOUS
  <2> HIDE DEF b, s
  <2>2. s \in Seq(Nat)
    BY <1>1, <2>1, SeqDef
  <2> QED BY <1>1, <2>1, <2>2
<1> HIDE DEF s
<1>3. Len(forks) = 1 /\ forks[1] = s /\ chain = s
  BY <1>1 DEF chain, Last
<1> QED BY <1>1, <1>2, <1>3

\* Before anything is indexed there is nothing to go back to.
LEMMA SavedInit ==
  ASSUME Init
  PROVE  ForkedInv /\ (Recoverable => SavedInv)
<1> DEFINE b == setup.initial_blocks
<1>1. b \in Nat /\ Interval \in Nat \ {0} /\ setup.max_orphans \in Nat
  BY IndexAssumption DEF Init, SetupKinds, Positive, Interval
<1>2. db = NewDatabase /\ savepoints = <<>> /\ up = Idle
  BY DEF Init
<1>3. Len(forks) = 1 /\ Len(forks[1]) = b
  BY InitialChain
<1>4. ForkedInv
  BY <1>1, <1>3 DEF ForkedInv
<1>5. ASSUME Recoverable, OneReorg
      PROVE  Waiting
  <2>1. Interval + setup.max_orphans + 1 <= b
    BY <1>5 DEF Recoverable
  <2>2. Reach \in Nat /\ Reach < b
    BY <1>1, <2>1 DEF Reach
  <2>3. /\ DOMAIN savepoints = {} /\ db.last = 0 /\ Len(db.blocks) = 0 /\ up.pc = "idle"
    BY <1>2, EmptySeq DEF NewDatabase, Idle
  <2> HIDE DEF b
  <2>4. ~(b <= 0 + Reach)
    BY <1>1, <2>2
  <2> QED BY <1>3, <2>3, <2>4 DEF Waiting, Waits, Stored, Pending, Covered, Looking, Fetching
<1> QED BY <1>4, <1>5 DEF SavedInv

\* The forks are as far apart as one reorg takes them.
LEMMA ForkedInvariant == Spec => []ForkedInv
BY SavedInit, IndexInvariant, ForkedStep, PTL DEF Spec

\* One reorg is rolled back to a savepoint without orphaned blocks, and
\* handle_reorg always finds one, as long as the reorg is Recoverable: whatever the
\* intervals, the windows, the order of fetching, committing and snapshots, and
\* the moment of the reorg.
THEOREM RollbacksStayOnChain == Spec /\ []Recoverable => RollbackOnChain
<1>1. Spec /\ []Recoverable => []SavedInv
  BY SavedInit, IndexInvariant, RollbackInvariant, ForkedInvariant, SavedStep, PTL DEF Spec
<1>2. LinkedInv /\ RollbackInv /\ ForkedInv /\ Recoverable /\ SavedInv /\ [Next]_vars => [SavepointFound]_vars
  <2> SUFFICES ASSUME LinkedInv, RollbackInv, ForkedInv, Recoverable, SavedInv, Next,
                      OneReorg, up.pc = "recover", up'.pc # "recover"
               PROVE  up'.pc = "restore"
    BY DEF SavepointFound
  <2>1. up \in Updates
    BY DEF LinkedInv, TypeOK
  <2>2. ~Crash
    BY DEF Crash, OneReorg
  <2>3. ~FetchBlock /\ ~Mine
    BY DEF FetchBlock, Mine
  <2>4. ~\E orphans, mined : Reorg(orphans, mined)
    BY <2>1 DEF Reorg, Updates
  <2>5. HandleReorg
    BY <2>2, <2>3, <2>4 DEF Next, UpdateStep, UpdateLoop, BeginUpdate, IndexBlock, MeetReorg, FinishUpdate,
       CommitBlocks, DropOldestSavepoint, CopyToSavepoint, RecordSavepoint, DetectReorg, RestoreFiles
  <2>6. PICK x : up' = [up EXCEPT !.pc = "restore", !.target = x]
    BY <2>5, SavepointThere DEF HandleReorg
  <2> QED BY <2>1, <2>6 DEF Updates
<1>3. [NothingOrphaned]_vars /\ [SavepointFound]_vars => [NothingOrphaned /\ SavepointFound]_vars
  OBVIOUS
<1> QED BY <1>1, <1>2, <1>3, IndexInvariant, RollbackInvariant, ForkedInvariant,
           RollbackLeavesNoOrphan, PTL DEF Spec, RollbackOnChain

\* A setup whose chain stays so short that its one reorg is Recoverable at every
\* moment.
Shallow(s) ==
  s.max_reorgs <= 1 /\ "crash" \notin s.faults =>
    /\ s.max_orphans + 1 <= (s.max_savepoints - 1) * s.savepoint_interval
    /\ s.savepoint_interval + s.max_orphans + 1 <= s.initial_blocks
    /\ s.max_blocks + s.max_orphans <= s.initial_blocks + s.savepoint_interval * s.max_savepoints + 1

\* Bitcoind's chain stays within its bounds.
BoundedInv == Len(chain) <= setup.initial_blocks \/ Len(chain) <= setup.max_blocks

\* For every setup of that kind a rollback finds its savepoint, on the chain.
THEOREM ShallowReorgsStayOnChain ==
  ASSUME \A s \in Setups : Shallow(s)
  PROVE  Spec => RollbackOnChain
<1>1. Init => BoundedInv
  BY InitialChain DEF BoundedInv
<1>2. LinkedInv /\ BoundedInv /\ [Next]_vars => BoundedInv'
  <2> SUFFICES ASSUME LinkedInv, BoundedInv, [Next]_vars
               PROVE  BoundedInv'
    OBVIOUS
  <2>1. setup' = setup
    BY DEF Next, vars
  <2>2. setup.max_blocks \in Nat /\ setup.max_orphans \in Nat /\ TypeOK /\ WellForked(forks)
    BY Sizes DEF LinkedInv
  <2>3. Len(chain) \in Nat
    BY <2>2, BestChain
  <2>4. CASE forks' = forks
    BY <2>1, <2>4 DEF BoundedInv, chain
  <2>5. CASE Mine
    <3>1. Len(chain') = Len(chain) + 1 /\ Len(chain) < setup.max_blocks
      BY <2>5, MineExtends DEF Mine
    <3>2. Len(chain') <= setup.max_blocks
      BY <2>2, <2>3, <3>1
    <3> QED BY <2>1, <3>2 DEF BoundedInv
  <2>6. ASSUME NEW orphans \in 1 .. setup.max_orphans, NEW mined \in 0 .. setup.max_orphans + 1,
               Reorg(orphans, mined)
        PROVE  BoundedInv'
    <3> DEFINE k == Len(chain) - orphans
    <3>1. /\ Len(forks) <= setup.max_reorgs /\ orphans < Len(chain) /\ k + mined <= setup.max_blocks
          /\ forks' = Append(forks, SubSeq(chain, 1, k) \o [i \in 1 .. mined |-> Len(forks) + 1])
      BY <2>6 DEF Reorg
    <3>2. /\ Forks \in SUBSET Nat /\ forks \in Seq(Seq(Forks)) /\ setup.max_reorgs \in Nat
          /\ Len(forks) \in Nat /\ chain = forks[Len(forks)]
      BY <2>2, Types, BestChain
    <3>3. Len(forks) + 1 \in Forks
      BY <3>1, <3>2 DEF Forks
    <3>4. k \in 1 .. Len(forks[Len(forks)]) /\ mined \in Nat
      BY <2>2, <2>3, <3>1, <3>2
    <3> HIDE DEF k
    <3>5. Len(forks') = Len(forks) + 1 /\ Len(forks'[Len(forks) + 1]) = k + mined
      BY <2>2, <3>1, <3>2, <3>3, <3>4, ReorgGrows
    <3>6. Len(chain') = k + mined
      BY <3>5 DEF chain, Last
    <3>7. Len(chain') <= setup.max_blocks
      BY <3>1, <3>6
    <3> QED BY <2>1, <3>7 DEF BoundedInv
  <2> QED BY <2>4, <2>5, <2>6 DEF Next, vars, UpdateStep, UpdateLoop, BeginUpdate, IndexBlock, MeetReorg,
           FinishUpdate, CommitBlocks, DropOldestSavepoint, CopyToSavepoint, RecordSavepoint, DetectReorg,
           HandleReorg, RestoreFiles, FetchBlock, Crash
<1>3. LinkedInv /\ ForkedInv /\ BoundedInv => Recoverable
  <2> SUFFICES ASSUME LinkedInv, ForkedInv, BoundedInv, OneReorg
               PROVE  /\ setup.max_orphans + 1 <= (MaxSavepoints - 1) * Interval
                      /\ Interval + setup.max_orphans + 1 <= setup.initial_blocks
                      /\ Len(chain) + setup.max_orphans <= Len(forks[1]) + Interval * MaxSavepoints + 1
    BY DEF Recoverable
  <2> DEFINE i == Interval
             m == MaxSavepoints
             k == setup.max_orphans
             b == setup.initial_blocks
             x == setup.max_blocks
             l == Len(chain)
             t == Len(forks[1])
  <2>1. Shallow(setup) /\ setup.max_reorgs <= 1 /\ "crash" \notin setup.faults
    BY DEF LinkedInv, TypeOK, OneReorg
  <2>2. k + 1 <= (m - 1) * i /\ i + k + 1 <= b /\ x + k <= b + i * m + 1
    BY <2>1 DEF Shallow, Interval, MaxSavepoints
  <2>3. /\ i \in Nat /\ m \in Nat /\ m # 0 /\ k \in Nat /\ b \in Nat /\ x \in Nat /\ l \in Nat /\ t \in Nat
    BY WaitTypes, Sizes DEF LinkedInv
  <2>4. b <= t /\ (l <= b \/ l <= x)
    BY <2>1 DEF ForkedInv, BoundedInv
  <2> HIDE DEF i, m, k, b, x, l, t
  <2>5. (m - 1) * i <= i * m
    <3>1. m - 1 \in Nat /\ m - 1 <= m
      BY <2>3
    <3>2. i * (m - 1) <= i * m
      BY <2>3, <3>1, Product
    <3> QED BY <2>3, <3>1, <3>2
  <2>6. PICK w \in Nat : w = i * m
    BY <2>3
  <2>7. PICK v \in Int : v = (m - 1) * i
    BY <2>3
  <2>8. l + k <= t + i * m + 1
    BY <2>2, <2>3, <2>4, <2>5, <2>6, <2>7
  <2> QED BY <2>2, <2>8 DEF i, m, k, b, l, t
<1>4. Spec => []BoundedInv
  BY <1>1, <1>2, IndexInvariant, PTL DEF Spec
<1> QED BY <1>3, <1>4, IndexInvariant, ForkedInvariant, RollbacksStayOnChain, PTL
==============================================================================

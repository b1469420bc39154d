----------------------------- MODULE LtxProofs -----------------------------
(***************************************************************************)
(* The chain of module Ltx, for every database size, page content, lock    *)
(* page and number of members: the writers' and the readers' running       *)
(* checksums are the checksums of their files, and a reader rebuilds the   *)
(* database each member was made of.                                       *)
(***************************************************************************)
EXTENDS Ltx, FiniteSetTheorems, SequenceTheorems, TLAPS

(* Zenon proves what no step says otherwise of.                             *)
USE Zenon

\* A database as a function of its length.
LEMMA ContentsLen ==
  ASSUME NEW c \in Contents
  PROVE  /\ Len(c) \in Sizes /\ Len(c) \in Nat /\ Len(c) >= 1 /\ Len(c) # LockPgno
         /\ DOMAIN c = 1..Len(c) /\ c \in [1..Len(c) -> Values] /\ c \in Seq(Values)
<1>1. PICK n \in Sizes : c \in [1..n -> Values]
  BY DEF Contents
<1>2. n \in Nat /\ n >= 1 /\ n # LockPgno
  BY SMT, LtxAssumption DEF Sizes, Pgnos
<1>3. c \in Seq(Values)
  BY SMT, <1>1, <1>2, SeqDef
<1>4. Len(c) = n
  BY SMT, <1>1, <1>2, <1>3, LenProperties
<1> QED
  BY <1>1, <1>2, <1>3, <1>4

LEMMA FunLen ==
  ASSUME NEW S, NEW n \in Nat, NEW f \in [1..n -> S]
  PROVE  f \in Seq(S) /\ Len(f) = n /\ DOMAIN f = 1..n
<1>1. f \in Seq(S)
  BY SeqDef
<1> QED
  BY SMT, <1>1, LenProperties

LEMMA LenContents ==
  ASSUME NEW n \in Sizes, NEW c \in [1..n -> Values]
  PROVE  c \in Contents /\ Len(c) = n
<1>1. n \in Nat
  BY SMT, LtxAssumption DEF Sizes, Pgnos
<1> QED
  BY <1>1, FunLen DEF Contents

\* A numbered page is in a set of pages or it is not.
LEMMA InPairs ==
  ASSUME NEW c, NEW S, NEW i, NEW v
  PROVE  <<i, v>> \in Pairs(c, S) <=> i \in S /\ i # LockPgno /\ v = c[i]
BY DEF Pairs

LEMMA OnlyPairs ==
  ASSUME NEW c, NEW S, NEW e \in Pairs(c, S)
  PROVE  \E i \in S : e = <<i, c[i]>>
BY DEF Pairs

LEMMA SumPairs ==
  ASSUME NEW c
  PROVE  Sum(c) = Pairs(c, DOMAIN c)
BY DEF Sum, Pairs

\* Databases c and d, of the pages C and D, differ in the pages W only.
Agree(c, d, C, D, W) == \A i \in D \ {LockPgno} : i \notin W => i \in C /\ d[i] = c[i]

\* Old pages out, new pages in, dropped pages out.
Folded(c, d, C, D, W) ==
  Xor(Updated(Pairs(c, C), Pairs(c, W \cap C), Pairs(d, W \cap D)), Pairs(c, (C \ D) \ W))

\* What is left is the checksum of the new database (recordApply, diffPages and
\* applySegments all compute it so).
LEMMA FoldTrue ==
  ASSUME NEW c, NEW d, NEW C, NEW D, NEW W, Agree(c, d, C, D, W)
  PROVE  Folded(c, d, C, D, W) = Pairs(d, D)
<1> DEFINE L == Folded(c, d, C, D, W)
<1>1. ASSUME NEW i, NEW v PROVE <<i, v>> \in L <=> <<i, v>> \in Pairs(d, D)
  <2>1. <<i, v>> \in Pairs(c, C) <=> i \in C /\ i # LockPgno /\ v = c[i]
    BY InPairs
  <2>2. <<i, v>> \in Pairs(c, W \cap C) <=> i \in W /\ i \in C /\ i # LockPgno /\ v = c[i]
    BY InPairs
  <2>3. <<i, v>> \in Pairs(d, W \cap D) <=> i \in W /\ i \in D /\ i # LockPgno /\ v = d[i]
    BY InPairs
  <2>4. <<i, v>> \in Pairs(c, (C \ D) \ W) <=>
          i \in C /\ i \notin D /\ i \notin W /\ i # LockPgno /\ v = c[i]
    BY InPairs
  <2>5. <<i, v>> \in Pairs(d, D) <=> i \in D /\ i # LockPgno /\ v = d[i]
    BY InPairs
  <2> HIDE DEF L
  <2>6. <<i, v>> \in L <=>
          (((<<i, v>> \in Pairs(c, C)) # (<<i, v>> \in Pairs(c, W \cap C)))
             # (<<i, v>> \in Pairs(d, W \cap D)))
          # (<<i, v>> \in Pairs(c, (C \ D) \ W))
    BY SMT DEF L, Folded, Updated, Xor
  <2> QED
    BY SMT, <2>1, <2>2, <2>3, <2>4, <2>5, <2>6 DEF Agree
<1>2. ASSUME NEW e \in L PROVE \E i, v : e = <<i, v>>
  BY SMT, <1>2, OnlyPairs DEF Folded, Updated, Xor
<1>3. ASSUME NEW e \in Pairs(d, D) PROVE \E i, v : e = <<i, v>>
  BY SMT, <1>3, OnlyPairs
<1> HIDE DEF L
<1>4. ASSUME NEW e PROVE e \in L <=> e \in Pairs(d, D)
  <2>1. CASE \E i, v : e = <<i, v>>
    BY <1>1, <2>1
  <2>2. CASE ~\E i, v : e = <<i, v>>
    BY <1>2, <1>3, <2>2
  <2> QED
    BY <2>1, <2>2
<1>5. L = Pairs(d, D)
  BY <1>4
<1> QED
  BY <1>5 DEF L

\* checkGrowth counts the new pages; with the right count none is missing.
LEMMA GrowthCarried ==
  ASSUME NEW commit \in Nat, NEW prev \in Nat, NEW carried \in SUBSET Nat, IsFiniteSet(carried)
  PROVE  GrowthOK(commit, prev, carried) <=>
           \A i \in ((prev + 1)..commit) \ {LockPgno} : i \in carried
<1> DEFINE Y == ((prev + 1)..commit) \ {LockPgno}
           X == {i \in carried : prev < i /\ i <= commit /\ i # LockPgno}
           need == commit - prev - (IF prev < LockPgno /\ LockPgno <= commit THEN 1 ELSE 0)
<1> USE LtxAssumption
<1>1. CASE commit <= prev
  BY SMT, <1>1 DEF GrowthOK
<1>2. CASE prev < commit
  <2> HIDE DEF Y, X, need
  <2>0. LockPgno \in Nat
    OBVIOUS
  <2>1. IsFiniteSet((prev + 1)..commit) /\ Cardinality((prev + 1)..commit) = commit - prev
    <3>1. prev + 1 \in Int /\ commit \in Int /\ ~(prev + 1 > commit) /\ commit - (prev + 1) + 1 = commit - prev
      BY SMT, <1>2
    <3> QED
      BY <3>1, FS_Interval
  <2>2. IsFiniteSet(Y) /\ Cardinality(Y) = need
    <3>1. CASE LockPgno \in (prev + 1)..commit
      <4>1. need = commit - prev - 1
        BY SMT, <2>0, <3>1 DEF need
      <4>2. IsFiniteSet(Y) /\ Cardinality(Y) = Cardinality((prev + 1)..commit) - 1
        BY <2>1, <3>1, FS_RemoveElement DEF Y
      <4> QED
        BY <2>1, <4>1, <4>2
    <3>2. CASE LockPgno \notin (prev + 1)..commit
      <4>1. Y = (prev + 1)..commit
        BY <3>2 DEF Y
      <4>2. need = commit - prev
        BY SMT, <2>0, <3>2 DEF need
      <4> QED
        BY <2>1, <4>1, <4>2
    <3> QED
      BY <3>1, <3>2
  <2>3. \A i : i \in X <=> i \in carried /\ i \in Y
    <3>1. \A i \in carried : i \in Nat
      OBVIOUS
    <3>2. \A i \in Nat : i \in (prev + 1)..commit <=> prev < i /\ i <= commit
      BY SMT
    <3> QED
      BY <3>1, <3>2 DEF X, Y
  <2>4. Cardinality(X) = need <=> X = Y
    BY <2>2, <2>3, FS_Subset
  <2>5. GrowthOK(commit, prev, carried) <=> Cardinality(X) = need
    BY SMT, <1>2 DEF GrowthOK, X, need
  <2>6. X = Y <=> \A i \in Y : i \in carried
    BY <2>3
  <2> QED
    BY <2>4, <2>5, <2>6 DEF Y
<1> QED
  BY SMT, <1>1, <1>2

\* Two databases with one checksum are one database, but for the lock page.
LEMMA SumSame ==
  ASSUME NEW a \in Contents, NEW b \in Contents, Sum(a) = Sum(b)
  PROVE  Len(a) = Len(b) /\ Same(a, b)
<1>1. \A i : i \in DOMAIN a /\ i # LockPgno <=> i \in DOMAIN b /\ i # LockPgno
  <2> TAKE i
  <2>1. i \in DOMAIN a /\ i # LockPgno <=> <<i, a[i]>> \in Sum(a)
    BY SumPairs, InPairs
  <2>2. <<i, a[i]>> \in Sum(b) => i \in DOMAIN b /\ i # LockPgno
    BY SumPairs, InPairs
  <2>3. i \in DOMAIN b /\ i # LockPgno <=> <<i, b[i]>> \in Sum(b)
    BY SumPairs, InPairs
  <2>4. <<i, b[i]>> \in Sum(a) => i \in DOMAIN a /\ i # LockPgno
    BY SumPairs, InPairs
  <2> QED
    BY <2>1, <2>2, <2>3, <2>4
<1>2. Len(a) = Len(b)
  <2>1. Len(a) \in DOMAIN a /\ Len(a) # LockPgno /\ Len(b) \in DOMAIN b /\ Len(b) # LockPgno
    <3>1. Len(a) \in 1..Len(a) /\ Len(b) \in 1..Len(b)
      BY SMT, ContentsLen
    <3> QED
      BY <3>1, ContentsLen
  <2>2. Len(a) \in DOMAIN b /\ Len(b) \in DOMAIN a
    BY <1>1, <2>1
  <2>3. Len(a) \in 1..Len(b) /\ Len(b) \in 1..Len(a)
    BY <2>2, ContentsLen
  <2> QED
    BY SMT, <2>3, ContentsLen
<1>3. \A i \in DOMAIN a \ {LockPgno} : a[i] = b[i]
  BY SumPairs, InPairs
<1> QED
  BY <1>2, <1>3, ContentsLen DEF Same

LEMMA SameSum ==
  ASSUME NEW a, NEW b, Same(a, b)
  PROVE  Sum(a) = Sum(b)
BY DEF Same, Sum

LEMMA SumType ==
  ASSUME NEW c \in Contents
  PROVE  Sum(c) \in Checksums
<1>1. ASSUME NEW i \in DOMAIN c PROVE i \in Pgnos /\ c[i] \in Values
  BY SMT, <1>1, ContentsLen, LtxAssumption DEF Sizes, Pgnos
<1> QED
  BY SMT, <1>1 DEF Sum, Checksums

LEMMA PagesFun ==
  ASSUME NEW p \in PageSets
  PROVE  DOMAIN p \in SUBSET Pgnos /\ p \in [DOMAIN p -> Values] /\ IsFiniteSet(DOMAIN p)
                  /\ DOMAIN p \in SUBSET Nat
<1>1. PICK d \in SUBSET Pgnos : p \in [d -> Values]
  BY DEF PageSets
<1>2. IsFiniteSet(Pgnos) /\ Pgnos \subseteq Nat
  <2>1. 1 \in Int /\ MaxPages \in Int
    BY SMT, LtxAssumption
  <2> QED
    BY SMT, <2>1, FS_Interval DEF Pgnos
<1>3. IsFiniteSet(d)
  BY <1>2, FS_Subset
<1> QED
  BY <1>1, <1>2, <1>3

LEMMA InitInv == Init => ChainInv
<1> SUFFICES ASSUME Init PROVE ChainInv
  OBVIOUS
<1>1. db \in Contents /\ hist \in Seq(Contents) /\ Len(hist) = 1 /\ hist[1] = db
  BY SMT DEF Init
<1>2. segs \in Seq(Segments) /\ Len(segs) = 0
  BY SMT DEF Init
<1>3. carry \in PageSets /\ DOMAIN carry = {}
  <2>1. carry \in [{} -> Values] /\ DOMAIN carry = {}
    BY SMT DEF Init
  <2> QED
    BY <2>1 DEF PageSets
<1>4. Carries(db, db, carry)
  BY <1>3 DEF Carries
<1>5. WriterInv
  BY SMT, <1>1, <1>2, <1>3, <1>4 DEF Init, WriterInv
<1> QED
  BY <1>5 DEF Init, ChainInv, Idle

LEMMA TxnInv == ASSUME ChainInv, NEW t \in Txns, Txn(t) PROVE ChainInv'
<1> DEFINE W == DOMAIN t.writes
           prev == Len(db)
<1>1. db \in Contents /\ db \in [1..prev -> Values] /\ prev \in Nat /\ DOMAIN db = 1..prev
  BY ContentsLen DEF ChainInv, WriterInv
<1>2. t.commit \in Sizes /\ t.commit \in Nat /\ t.writes \in PageSets /\ LockPgno \notin W
  <2>1. t.commit \in Sizes
    BY DEF Txns
  <2>2. PICK d \in (SUBSET (Pgnos \ {LockPgno})) \ {{}} : t.writes \in [d -> Values]
    BY DEF Txns
  <2>3. t.writes \in PageSets /\ LockPgno \notin W
    BY <2>2 DEF PageSets
  <2> QED
    BY SMT, <2>1, <2>3, LtxAssumption DEF Sizes, Pgnos
<1>3. W \in SUBSET Nat /\ W \in SUBSET Pgnos /\ IsFiniteSet(W) /\ t.writes \in [W -> Values]
  BY <1>2, PagesFun
<1>4. UNCHANGED <<since, segs, hist, rd>> /\ rd = Idle /\ phase = "writing"
  BY DEF Txn
<1>5. /\ ChainInv!2' /\ ChainInv!3' /\ rd'.at = "idle"
  BY <1>4 DEF ChainInv, Idle
<1>6. \A k \in 1..Len(segs) : Links(k)'
  BY SMT, <1>4 DEF ChainInv, WriterInv, Links, Carries, Sum
<1>7. CASE GrowthOK(t.commit, prev, W)
  <2>1. db' = Written(db, t.writes, t.commit) /\ sum' = RecordedSum(t) /\ carry' = Recorded(t) /\ phase' = "writing"
    BY <1>4, <1>7 DEF Txn
  <2>2. db' \in [1..t.commit -> Values] /\ db' \in Contents /\ DOMAIN db' = 1..t.commit
    <3>1. db' \in [1..t.commit -> Values]
      BY <1>1, <1>3, <2>1, LtxAssumption DEF Written, At
    <3> QED
      BY <1>2, <3>1, LenContents
  <2>3. \A i \in 1..t.commit : db'[i] = IF i \in W THEN t.writes[i] ELSE At(db, i)
    BY <2>1 DEF Written
  <2>4. ASSUME NEW i \in (1..t.commit) \ {LockPgno}, i \notin W PROVE i \in 1..prev /\ db'[i] = db[i]
    <3>1. i \in 1..prev
      BY SMT, <1>1, <1>2, <1>3, <1>7, <2>4, GrowthCarried
    <3> QED
      BY <1>1, <2>3, <2>4, <3>1 DEF At
  <2>5. sum' = Sum(db')
    <3>1. Pairs(t.writes, W \cap 1..t.commit) = Pairs(db', W \cap 1..t.commit)
      BY <2>3 DEF Pairs
    <3>2. ((t.commit + 1)..prev) \ W = ((1..prev) \ (1..t.commit)) \ W
      BY SMT, <1>1, <1>2
    <3>3. sum = Pairs(db, 1..prev)
      BY <1>1, SumPairs DEF ChainInv, WriterInv
    <3>4. Agree(db, db', 1..prev, 1..t.commit, W)
      BY <2>4 DEF Agree
    <3>5. Folded(db, db', 1..prev, 1..t.commit, W) = Pairs(db', 1..t.commit)
      BY SMT, <3>4, FoldTrue
    <3>6. Sum(db') = Pairs(db', 1..t.commit)
      BY <2>2, SumPairs
    <3> QED
      BY <2>1, <3>1, <3>2, <3>3, <3>5, <3>6 DEF RecordedSum, Folded
  <2>6. carry' \in PageSets
    <3>1. DOMAIN carry \in SUBSET Pgnos /\ carry \in [DOMAIN carry -> Values]
      BY PagesFun DEF ChainInv, WriterInv
    <3>2. carry' \in [(DOMAIN carry \cup W) \cap 1..t.commit -> Values]
      BY <1>3, <2>1, <3>1 DEF Recorded
    <3> QED
      BY <1>3, <3>1, <3>2 DEF PageSets
  <2>7. Carries(hist[Len(hist)], db', carry')
    <3>1. Carries(hist[Len(hist)], db, carry)
      BY <1>4 DEF ChainInv, WriterInv
    <3>2. DOMAIN carry' = (DOMAIN carry \cup W) \cap 1..t.commit
      BY <2>1 DEF Recorded
    <3>3. ASSUME NEW i \in (1..t.commit) \ {LockPgno}
          PROVE  IF i \in DOMAIN carry' THEN db'[i] = carry'[i]
                 ELSE i \in DOMAIN hist[Len(hist)] /\ db'[i] = hist[Len(hist)][i]
      <4>1. CASE i \in W
        BY <2>1, <2>3, <3>2, <4>1 DEF Recorded
      <4>2. CASE i \notin W
        BY <1>1, <2>1, <2>4, <3>1, <3>2, <4>2 DEF Recorded, Carries
      <4> QED
        BY <4>1, <4>2
    <3> QED
      BY <2>2, <3>2, <3>3 DEF Carries
  <2> QED
    BY <1>4, <1>5, <1>6, <2>1, <2>2, <2>5, <2>6, <2>7 DEF ChainInv, WriterInv
<1>8. CASE ~GrowthOK(t.commit, prev, W)
  <2>1. phase' = "refused" /\ carry' = <<>> /\ db' = db /\ sum' = sum
    BY <1>8 DEF Txn
  <2>2. carry' \in PageSets
    <3>1. carry' \in [{} -> Values]
      BY SMT, <2>1
    <3> QED
      BY <3>1 DEF PageSets
  <2> QED
    BY <1>4, <1>5, <1>6, <2>1, <2>2 DEF ChainInv, WriterInv
<1> QED
  BY <1>7, <1>8

\* A member more: what it carries leads from the last database to the next.
LEMMA AppendInv ==
  ASSUME ChainInv, rd = Idle, rd' = rd, NEW d \in Contents, NEW s \in Segments,
         s.min = Len(hist) + 1, s.max = Len(hist) + 1, s.commit = Len(d),
         s.pre = since, s.post = Sum(d), Carries(hist[Len(hist)], d, s.pages),
         segs' = Append(segs, s), hist' = Append(hist, d), db' = d, sum' = Sum(d),
         since' = Sum(d), carry' = <<>>, phase' = "writing"
  PROVE  ChainInv'
<1>1. /\ hist \in Seq(Contents) /\ segs \in Seq(Segments) /\ Len(hist) = Len(segs) + 1
      /\ Len(segs) \in Nat /\ since = Sum(hist[Len(hist)]) /\ \A k \in 1..Len(segs) : Links(k)
  BY SMT DEF ChainInv, WriterInv
<1>2. /\ hist' \in Seq(Contents) /\ Len(hist') = Len(hist) + 1 /\ hist'[Len(hist) + 1] = d
      /\ \A k \in 1..Len(hist) : hist'[k] = hist[k]
  BY SMT, <1>1
<1>3. /\ segs' \in Seq(Segments) /\ Len(segs') = Len(segs) + 1 /\ segs'[Len(segs) + 1] = s
      /\ \A k \in 1..Len(segs) : segs'[k] = segs[k]
  BY SMT, <1>1
<1>4. ASSUME NEW k \in 1..Len(segs') PROVE Links(k)'
  <2>1. CASE k \in 1..Len(segs)
    <3>1. segs'[k] = segs[k] /\ hist'[k] = hist[k] /\ hist'[k + 1] = hist[k + 1]
      <4>1. k \in 1..Len(hist) /\ k + 1 \in 1..Len(hist)
        BY SMT, <1>1, <2>1
      <4> QED
        BY <1>2, <1>3, <2>1, <4>1
    <3> QED
      BY SMT, <1>1, <2>1, <3>1 DEF Links, Carries, Sum
  <2>2. CASE k = Len(segs) + 1
    <3>1. k = Len(hist) /\ k \in 1..Len(hist)
      BY SMT, <1>1, <2>2
    <3>2. segs'[k] = s /\ hist'[k] = hist[Len(hist)] /\ hist'[k + 1] = d
      BY <1>2, <1>3, <2>2, <3>1
    <3> QED
      BY SMT, <1>1, <3>1, <3>2 DEF Links, Carries, Sum
  <2> QED
    BY SMT, <1>1, <1>3, <2>1, <2>2
<1>5. carry' \in PageSets /\ DOMAIN carry' = {}
  <2>1. carry' \in [{} -> Values] /\ DOMAIN carry' = {}
    BY SMT
  <2> QED
    BY <2>1 DEF PageSets
<1>6. Carries(hist[Len(hist)], db, carry)'
  BY <1>2, <1>5 DEF Carries
<1>7. WriterInv'
  BY SMT, <1>1, <1>2, <1>3, <1>4, <1>5, <1>6 DEF WriterInv, Sum
<1> QED
  BY <1>7 DEF ChainInv, Idle

LEMMA FlushInv == ASSUME ChainInv, Flush PROVE ChainInv'
<1> DEFINE s == Segment(Len(db), since, sum, carry)
<1>1. /\ rd = Idle /\ rd' = rd /\ phase = "writing" /\ db \in Contents /\ sum = Sum(db) /\ carry \in PageSets
      /\ Carries(hist[Len(hist)], db, carry) /\ since = Sum(hist[Len(hist)])
      /\ hist \in Seq(Contents) /\ Len(hist) \in Nat /\ Len(hist) \in 1..Len(hist)
  BY SMT DEF Flush, ChainInv, WriterInv
<1>2. DOMAIN carry \subseteq DOMAIN db
  BY <1>1 DEF Carries
<1>3. /\ segs' = Append(segs, s) /\ hist' = Append(hist, db) /\ since' = sum /\ phase' = "writing"
      /\ db' = db /\ sum' = sum /\ carry' = <<>>
  BY <1>1, <1>2 DEF Flush
<1>4. DOMAIN s.pages = DOMAIN carry \ {LockPgno} /\ \A i \in DOMAIN s.pages : s.pages[i] = carry[i]
  BY DEF Segment
<1>5. s.pages \in PageSets
  <2>1. s.pages \in [DOMAIN carry \ {LockPgno} -> Values] /\ DOMAIN carry \in SUBSET Pgnos
    BY <1>1, PagesFun DEF Segment
  <2> QED
    BY <2>1 DEF PageSets
<1>6. s \in Segments /\ s.min = Len(hist) + 1 /\ s.max = Len(hist) + 1 /\ s.commit = Len(db)
        /\ s.pre = since /\ s.post = sum
  <2>1. Len(db) \in Sizes /\ since \in Checksums /\ sum \in Checksums
    BY SMT, <1>1, ContentsLen, SumType
  <2> QED
    BY SMT, <1>1, <1>5, <2>1 DEF Segment, Segments
<1>7. Carries(hist[Len(hist)], db, s.pages)
  BY <1>1, <1>4 DEF Carries
<1> HIDE DEF s
<1> QED
  BY <1>1, <1>3, <1>6, <1>7, AppendInv

LEMMA DeltaInv ==
  ASSUME ChainInv, NEW cur \in Contents, NEW shadow \in Contents, Delta(cur, shadow)
  PROVE  ChainInv'
<1> DEFINE W == DOMAIN Diff(cur, shadow)
           s == Segment(Len(cur), since, DiffSum(cur, shadow, since), Diff(cur, shadow))
           last == hist[Len(hist)]
<1>1. /\ rd = Idle /\ rd' = rd /\ phase = "writing" /\ Sum(shadow) = since /\ since = Sum(last)
      /\ hist \in Seq(Contents) /\ Len(hist) \in Nat /\ Len(hist) \in 1..Len(hist) /\ last \in Contents
  BY SMT DEF Delta, ChainInv, WriterInv
<1>2. Same(shadow, last)
  BY <1>1, SumSame
<1>3. W = {j \in DOMAIN cur \ {LockPgno} : j \in DOMAIN shadow => cur[j] # shadow[j]}
        /\ \A i \in W : Diff(cur, shadow)[i] = cur[i]
  BY DEF Diff
<1>4. W \subseteq DOMAIN cur /\ LockPgno \notin W
  BY <1>3
<1> HIDE DEF W
<1>5. DiffSum(cur, shadow, since) = Sum(cur)
  <2>1. Agree(shadow, cur, DOMAIN shadow, DOMAIN cur, W)
    BY <1>3 DEF Agree
  <2>2. Folded(shadow, cur, DOMAIN shadow, DOMAIN cur, W) = Sum(cur)
    BY SMT, <2>1, FoldTrue, SumPairs
  <2>3. W \cap DOMAIN cur = W /\ (DOMAIN shadow \ DOMAIN cur) \ W = DOMAIN shadow \ DOMAIN cur
    BY <1>4
  <2>4. since = Pairs(shadow, DOMAIN shadow)
    BY <1>1, SumPairs
  <2> QED
    BY <2>2, <2>3, <2>4 DEF DiffSum, Folded, W
<1>6. DOMAIN s.pages = W /\ \A i \in W : s.pages[i] = cur[i]
  BY <1>3, <1>4 DEF Segment, W
<1>7. s.pages \in PageSets
  <2>1. \A i \in DOMAIN cur : i \in Pgnos /\ cur[i] \in Values
    BY SMT, ContentsLen, LtxAssumption DEF Sizes, Pgnos
  <2>2. s.pages = [i \in W |-> cur[i]]
    BY <1>3, <1>4 DEF Segment, W
  <2>3. s.pages \in [W -> Values] /\ W \in SUBSET Pgnos
    BY <1>4, <2>1, <2>2
  <2> QED
    BY <2>3 DEF PageSets
<1>8. s \in Segments /\ s.min = Len(hist) + 1 /\ s.max = Len(hist) + 1 /\ s.commit = Len(cur)
        /\ s.pre = since /\ s.post = Sum(cur)
  <2>1. Len(cur) \in Sizes /\ since \in Checksums /\ Sum(cur) \in Checksums
    BY <1>1, ContentsLen, SumType
  <2> QED
    BY SMT, <1>1, <1>5, <1>7, <2>1 DEF Segment, Segments
<1>9. Carries(last, cur, s.pages)
  BY <1>2, <1>3, <1>4, <1>6 DEF Carries, Same
<1>10. /\ segs' = Append(segs, s) /\ hist' = Append(hist, cur) /\ since' = Sum(cur) /\ phase' = "writing"
       /\ db' = cur /\ sum' = Sum(cur) /\ carry' = <<>>
  BY <1>1 DEF Delta
<1> HIDE DEF s
<1> QED
  BY <1>1, <1>8, <1>9, <1>10, AppendInv

LEMMA WriterStays == ASSUME WriterInv, UNCHANGED writer PROVE WriterInv'
<1>1. /\ db' = db /\ sum' = sum /\ carry' = carry /\ since' = since /\ segs' = segs /\ hist' = hist
      /\ phase' = phase
  BY DEF writer
<1>2. \A k \in 1..Len(segs) : Links(k)' <=> Links(k)
  BY SMT, <1>1 DEF Links, Carries, Sum
<1>3. Carries(hist[Len(hist)], db, carry)' <=> Carries(hist[Len(hist)], db, carry)
  BY <1>1 DEF Carries
<1> QED
  BY <1>1, <1>2, <1>3 DEF WriterInv, Sum

\* What the writer's part says of a member that is read.
LEMMA Member ==
  ASSUME WriterInv, NEW k \in 1..Len(segs)
  PROVE  /\ Len(segs) \in Nat /\ Len(hist) = Len(segs) + 1 /\ k \in 1..Len(hist) /\ k + 1 \in 1..Len(hist)
         /\ hist[k] \in Contents /\ hist[k + 1] \in Contents
         /\ segs[k] \in Segments /\ Links(k)
<1>1. /\ hist \in Seq(Contents) /\ segs \in Seq(Segments) /\ Len(hist) = Len(segs) + 1 /\ Len(segs) \in Nat
      /\ \A j \in 1..Len(segs) : Links(j)
  BY SMT DEF WriterInv
<1>2. k \in 1..Len(hist) /\ k + 1 \in 1..Len(hist)
  BY SMT, <1>1
<1> QED
  BY SMT, <1>1, <1>2

\* Where a reader starts.
LEMMA StartInv ==
  ASSUME ChainInv, UNCHANGED writer, NEW f \in Contents, NEW n \in 0..Len(hist), NEW todo \in Lists,
         rd' = Reader(f, n, Sum(f), todo), n # 0 => Same(f, hist[n])
  PROVE  ChainInv'
<1>1. WriterInv' /\ segs' = segs /\ hist' = hist
  BY WriterStays DEF ChainInv, writer
<1>2. todo \in Seq(1..Len(segs))
  <2>1. PICK m \in 0..Len(segs) : todo \in [1..m -> 1..Len(segs)]
    BY DEF Lists
  <2>2. m \in Nat
    BY SMT DEF ChainInv, WriterInv
  <2> QED
    BY <2>1, <2>2, FunLen
<1>3. AtHeader'
  BY <1>1, <1>2 DEF AtHeader, Reader, Same, Sum
<1> QED
  BY <1>1, <1>3 DEF ChainInv, Reader

LEMMA MaterializeInv == ASSUME ChainInv, NEW todo \in Lists, MaterializeChain(todo) PROVE ChainInv'
<1> DEFINE f == [i \in DOMAIN hist[1] |-> IF i = LockPgno THEN Zero ELSE hist[1][i]]
<1>1. hist[1] \in Contents /\ 1 \in 0..Len(hist)
  BY SMT DEF ChainInv, WriterInv
<1>2. Len(hist[1]) \in Sizes /\ DOMAIN hist[1] = 1..Len(hist[1]) /\ hist[1] \in [1..Len(hist[1]) -> Values]
  BY <1>1, ContentsLen
<1>3. f \in Contents
  <2>1. f \in [1..Len(hist[1]) -> Values]
    BY <1>2, LtxAssumption
  <2> QED
    BY <1>2, <2>1, LenContents
<1>4. Same(f, hist[1])
  BY DEF Same
<1>5. Sum(f) = Sum(hist[1])
  BY <1>4, SameSum
<1>6. rd' = Reader(f, 1, Sum(f), todo) /\ UNCHANGED writer
  BY <1>5 DEF MaterializeChain, Decoded
<1> HIDE DEF f
<1> QED
  BY <1>1, <1>3, <1>4, <1>6, StartInv

LEMMA ApplyInv ==
  ASSUME ChainInv, NEW k \in DOMAIN hist, NEW todo \in Lists, ApplySegments(k, todo)
  PROVE  ChainInv'
<1>1. hist[k] \in Contents /\ 0 \in 0..Len(hist)
  BY SMT DEF ChainInv, WriterInv
<1>2. rd' = Reader(hist[k], 0, Sum(hist[k]), todo) /\ UNCHANGED writer
  BY DEF ApplySegments
<1> QED
  BY <1>1, <1>2, StartInv

LEMMA HeaderInv == ASSUME ChainInv, Header PROVE ChainInv'
<1> DEFINE k == Head(rd.todo)
<1>1. AtHeader /\ WriterInv /\ rd.todo # <<>> /\ UNCHANGED writer /\ rd.at = "header"
  BY DEF Header, ChainInv
<1>2. WriterInv' /\ segs' = segs /\ hist' = hist
  BY <1>1, WriterStays DEF writer
<1>3. k \in 1..Len(segs)
  BY SMT, <1>1 DEF AtHeader
<1> DEFINE Shape == rd = [at |-> rd.at, file |-> rd.file, commit |-> rd.commit, txid |-> rd.txid,
                          running |-> rd.running, todo |-> rd.todo, left |-> rd.left, touched |-> rd.touched]
<1>4. Shape
  BY DEF ChainInv
<1>5. CASE HeaderOK
  <2>1. rd' = [rd EXCEPT !.at = "page", !.left = DOMAIN Seg.pages, !.txid = Seg.min - 1]
    BY <1>5 DEF Header
  <2>2. rd' = [at |-> "page", file |-> rd.file, commit |-> rd.commit, txid |-> Seg.min - 1,
               running |-> rd.running, todo |-> rd.todo, left |-> DOMAIN Seg.pages, touched |-> rd.touched]
    BY <1>4, <2>1
  <2>3. Links(k) /\ hist[k] \in Contents
    BY <1>1, <1>3, Member
  <2>4. Len(hist[k]) = Len(rd.file) /\ Same(hist[k], rd.file)
    <3>1. Sum(hist[k]) = Sum(rd.file) /\ rd.file \in Contents
      BY <1>1, <1>5, <2>3 DEF HeaderOK, Seg, Links, AtHeader
    <3> QED
      BY <2>3, <3>1, SumSame
  <2>5. rd.file \in Seq(Values) /\ DOMAIN rd.file = 1..rd.commit /\ rd.commit \in Nat
    BY <1>1, ContentsLen DEF AtHeader
  <2>6. rd.running = Pairs(rd.file, rd.touched \cup 1..rd.commit)
    <3>1. rd.touched \cup 1..rd.commit = DOMAIN rd.file
      BY <1>1, <2>5 DEF AtHeader
    <3> QED
      BY <1>1, <3>1, SumPairs DEF AtHeader
  <2>7. \A i \in 1..rd.commit \ {LockPgno} : rd.file[i] = hist[k][i]
    BY <2>4, <2>5 DEF Same
  <2>8. Seg' = Seg
    BY <1>2, <2>2 DEF Seg
  <2>9. AtPage'
    BY SMT, <1>1, <1>2, <2>2, <2>4, <2>5, <2>6, <2>7, <2>8 DEF AtPage, AtHeader, Pairs
  <2> QED
    BY <1>2, <2>2, <2>9 DEF ChainInv
<1>6. CASE ~HeaderOK
  <2>1. rd' = [rd EXCEPT !.at = "failed"]
    BY <1>6 DEF Header
  <2> QED
    BY <1>2, <1>4, <2>1 DEF ChainInv
<1> QED
  BY <1>5, <1>6

\* What a reader in the middle of a member knows.
LEMMA InMember ==
  ASSUME ChainInv, rd.at = "page"
  PROVE  LET k == Head(rd.todo) IN
         /\ AtPage /\ WriterInv /\ k \in 1..Len(segs) /\ Seg = segs[k] /\ Links(k)
         /\ hist[k] \in Contents /\ hist[k + 1] \in Contents
         /\ rd.commit \in Nat /\ DOMAIN hist[k] = 1..rd.commit
         /\ Seg.commit \in Sizes /\ Seg.commit \in Nat /\ DOMAIN hist[k + 1] = 1..Seg.commit
         /\ Seg.pages \in PageSets /\ Carries(hist[k], hist[k + 1], Seg.pages)
         /\ DOMAIN Seg.pages \in SUBSET (1..Seg.commit)
         /\ Len(rd.file) \in Nat /\ DOMAIN rd.file = 1..Len(rd.file) /\ rd.file \in [1..Len(rd.file) -> Values]
         /\ rd.commit <= Len(rd.file)
<1> DEFINE k == Head(rd.todo)
<1>1. AtPage /\ WriterInv
  BY DEF ChainInv
<1>2. k \in 1..Len(segs) /\ rd.file \in Seq(Values) /\ rd.commit = Len(hist[k]) /\ rd.commit <= Len(rd.file)
  BY SMT, <1>1 DEF AtPage
<1>3. Links(k) /\ hist[k] \in Contents /\ hist[k + 1] \in Contents /\ segs[k] \in Segments
  BY <1>1, <1>2, Member
<1>4. Seg = segs[k]
  BY DEF Seg
<1> HIDE DEF k
<1>5. Len(hist[k]) \in Nat /\ DOMAIN hist[k] = 1..Len(hist[k])
  BY <1>3, ContentsLen
<1>6. Seg.commit = Len(hist[k + 1]) /\ Len(hist[k + 1]) \in Sizes /\ Len(hist[k + 1]) \in Nat
        /\ DOMAIN hist[k + 1] = 1..Len(hist[k + 1])
  BY <1>3, <1>4, ContentsLen DEF Links
<1>7. Carries(hist[k], hist[k + 1], Seg.pages) /\ Seg.pages \in PageSets
  BY <1>3, <1>4 DEF Links, Segments
<1>8. DOMAIN Seg.pages \in SUBSET (1..Seg.commit)
  BY <1>6, <1>7 DEF Carries
<1>9. Len(rd.file) \in Nat /\ DOMAIN rd.file = 1..Len(rd.file) /\ rd.file \in [1..Len(rd.file) -> Values]
  BY <1>2, LenProperties
<1> QED
  BY <1>1, <1>2, <1>3, <1>4, <1>5, <1>6, <1>7, <1>8, <1>9 DEF k

LEMMA PageInv == ASSUME ChainInv, NEW i \in Pgnos, Page(i) PROVE ChainInv'
<1> DEFINE k == Head(rd.todo)
           n == IF i > Len(rd.file) THEN i ELSE Len(rd.file)
           f == [j \in 1..n |-> IF j = i THEN Seg.pages[i] ELSE At(rd.file, j)]
           T == rd.touched \cup {i}
<1>1. rd.at = "page" /\ i \in rd.left /\ UNCHANGED writer /\ i \in Nat /\ i >= 1
  BY SMT, LtxAssumption DEF Page, Pgnos
<1>2. /\ AtPage /\ WriterInv /\ k \in 1..Len(segs) /\ rd.commit \in Nat /\ Seg.commit \in Nat
      /\ Seg.pages \in PageSets /\ DOMAIN Seg.pages \in SUBSET (1..Seg.commit)
      /\ Len(rd.file) \in Nat /\ DOMAIN rd.file = 1..Len(rd.file) /\ rd.file \in [1..Len(rd.file) -> Values]
      /\ rd.commit <= Len(rd.file)
  BY <1>1, InMember
<1>3. WriterInv' /\ segs' = segs /\ hist' = hist
  BY <1>1, <1>2, WriterStays DEF writer
<1>4. i \in DOMAIN Seg.pages /\ i \notin rd.touched /\ i <= Seg.commit /\ Seg.pages[i] \in Values
  BY SMT, <1>1, <1>2, PagesFun DEF AtPage
<1>5. rd' = [at |-> "page", file |-> f, commit |-> rd.commit, txid |-> rd.txid, running |-> PageSum(i),
             todo |-> rd.todo, left |-> rd.left \ {i}, touched |-> T]
  <2>1. rd = [at |-> rd.at, file |-> rd.file, commit |-> rd.commit, txid |-> rd.txid,
              running |-> rd.running, todo |-> rd.todo, left |-> rd.left, touched |-> rd.touched]
    BY DEF ChainInv
  <2>2. rd' = [rd EXCEPT !.running = PageSum(i), !.left = rd.left \ {i}, !.touched = T, !.file = f]
    BY DEF Page
  <2> HIDE DEF f, T
  <2> QED
    BY <1>1, <2>1, <2>2
<1>6. n \in Nat /\ i <= n /\ Len(rd.file) <= n
  BY SMT, <1>1, <1>2
<1>7. f \in [1..n -> Values] /\ f[i] = Seg.pages[i] /\ \A j \in 1..Len(rd.file) : j # i => f[j] = rd.file[j]
  <2>1. \A j \in 1..n : At(rd.file, j) \in Values
    BY <1>2, LtxAssumption DEF At
  <2>2. i \in 1..n /\ 1..Len(rd.file) \subseteq 1..n
    BY SMT, <1>1, <1>2, <1>6
  <2> QED
    BY <1>2, <1>4, <2>1, <2>2 DEF At
<1>8. f \in Seq(Values) /\ Len(f) = n /\ DOMAIN f = 1..n
  BY SMT, <1>6, <1>7, FunLen
<1> HIDE DEF f, n, k
<1>9. PageSum(i) = Pairs(f, T \cup 1..rd.commit)
  <2> DEFINE old == IF i <= rd.commit /\ i # LockPgno THEN {<<i, rd.file[i]>>} ELSE {}
             new == IF i <= Seg.commit /\ i # LockPgno THEN {<<i, Seg.pages[i]>>} ELSE {}
             S == rd.touched \cup 1..rd.commit
  <2>1. PageSum(i) = Xor(Xor(rd.running, old), new)
    BY DEF PageSum, Updated
  <2>2. rd.running = Pairs(rd.file, S)
    BY <1>2 DEF AtPage
  <2>3. T \cup 1..rd.commit = S \cup {i}
    OBVIOUS
  <2>4. S \subseteq 1..Len(rd.file)
    BY SMT, <1>2 DEF AtPage
  <2>5. i \in S <=> i <= rd.commit
    BY SMT, <1>1, <1>2, <1>4
  <2>6. ASSUME NEW j, NEW v PROVE <<j, v>> \in Xor(Xor(Pairs(rd.file, S), old), new) <=> <<j, v>> \in Pairs(f, S \cup {i})
    <3>1. <<j, v>> \in Pairs(rd.file, S) <=> j \in S /\ j # LockPgno /\ v = rd.file[j]
      BY SMT, InPairs
    <3>2. <<j, v>> \in Pairs(f, S \cup {i}) <=> (j \in S \/ j = i) /\ j # LockPgno /\ v = f[j]
      BY SMT, InPairs
    <3>3. <<j, v>> \in old <=> j = i /\ i <= rd.commit /\ i # LockPgno /\ v = rd.file[i]
      OBVIOUS
    <3>4. <<j, v>> \in new <=> j = i /\ i # LockPgno /\ v = Seg.pages[i]
      BY <1>4
    <3> HIDE DEF old, new, S
    <3>5. <<j, v>> \in Xor(Xor(Pairs(rd.file, S), old), new) <=>
            ((<<j, v>> \in Pairs(rd.file, S)) # (<<j, v>> \in old)) # (<<j, v>> \in new)
      BY SMT DEF Xor
    <3>6. CASE j = i
      <4>1. <<j, v>> \in Pairs(rd.file, S) <=> <<j, v>> \in old
        BY <2>5, <3>1, <3>3, <3>6
      <4>2. <<j, v>> \in new <=> <<j, v>> \in Pairs(f, S \cup {i})
        BY <1>7, <3>2, <3>4, <3>6
      <4> QED
        BY SMT, <3>5, <4>1, <4>2
    <3>7. CASE j # i
      <4>1. j \in S => f[j] = rd.file[j]
        BY <1>7, <2>4, <3>7
      <4>2. <<j, v>> \in Pairs(rd.file, S) <=> <<j, v>> \in Pairs(f, S \cup {i})
        BY <3>1, <3>2, <3>7, <4>1
      <4> QED
        BY SMT, <3>3, <3>4, <3>5, <3>7, <4>2
    <3> QED
      BY <3>6, <3>7
  <2>7. ASSUME NEW e, ~\E j, v : e = <<j, v>>
        PROVE  e \notin Xor(Xor(Pairs(rd.file, S), old), new) /\ e \notin Pairs(f, S \cup {i})
    <3>1. e \notin Pairs(rd.file, S) /\ e \notin Pairs(f, S \cup {i})
      BY SMT, <2>7, OnlyPairs
    <3>2. e \notin old /\ e \notin new
      BY <2>7
    <3> QED
      BY <3>1, <3>2 DEF Xor
  <2> HIDE DEF old, new, S
  <2>8. ASSUME NEW e PROVE e \in Xor(Xor(Pairs(rd.file, S), old), new) <=> e \in Pairs(f, S \cup {i})
    BY SMT, <2>6, <2>7
  <2>9. Xor(Xor(Pairs(rd.file, S), old), new) = Pairs(f, S \cup {i})
    BY <2>8
  <2> QED
    BY <2>1, <2>2, <2>3, <2>9
<1>10. Seg' = Seg /\ Head(rd'.todo) = k
  BY <1>3, <1>5 DEF Seg, k
<1>11. AtPage'
  <2>1. T \subseteq 1..n /\ T \cup (rd.left \ {i}) = DOMAIN Seg.pages /\ T \cap (rd.left \ {i}) = {}
    BY SMT, <1>1, <1>2, <1>6 DEF AtPage
  <2>2. \A j \in T : f[j] = Seg.pages[j]
    BY <1>2, <1>7 DEF AtPage
  <2>3. \A j \in (1..rd.commit) \ (T \cup {LockPgno}) : f[j] = hist[k][j]
    <3>1. ASSUME NEW j \in (1..rd.commit) \ (T \cup {LockPgno}) PROVE f[j] = hist[k][j]
      <4>1. j \in 1..Len(rd.file) /\ j # i
        BY SMT, <1>2
      <4>2. rd.file[j] = hist[k][j]
        BY <1>2 DEF AtPage, k
      <4> QED
        BY <1>7, <4>1, <4>2
    <3> QED
      BY <3>1
  <2>4. rd.todo \in Seq(1..Len(segs)) /\ rd.todo # <<>> /\ rd.commit = Len(hist[k])
    BY <1>2 DEF AtPage, k
  <2> HIDE DEF T
  <2> QED
    BY SMT, <1>2, <1>3, <1>5, <1>6, <1>8, <1>9, <1>10, <2>1, <2>2, <2>3, <2>4 DEF AtPage, Pairs
<1> QED
  BY <1>3, <1>5, <1>11 DEF ChainInv

LEMMA PairsLess ==
  ASSUME NEW c, NEW S, NEW T, T \subseteq S
  PROVE  Xor(Pairs(c, S), Pairs(c, T)) = Pairs(c, S \ T)
BY SMT DEF Xor, Pairs

\* A segment that got past its header applies: its growth is carried, and what
\* the reader computed is what the writer declared.
LEMMA FinishFits ==
  ASSUME ChainInv, rd.at = "page", rd.left = {}
  PROVE  /\ GrowthOK(Seg.commit, rd.commit, rd.touched)
         /\ Xor(rd.running, Pairs(rd.file, Dropped)) = Seg.post
         /\ Cut \in Contents /\ Len(Cut) = Seg.commit /\ Seg.post = Sum(Cut)
         /\ Same(Cut, hist[Head(rd.todo) + 1])
<1> DEFINE k == Head(rd.todo)
<1>1. /\ AtPage /\ WriterInv /\ k \in 1..Len(segs) /\ Seg = segs[k] /\ Links(k)
      /\ rd.commit \in Nat /\ DOMAIN hist[k] = 1..rd.commit
      /\ Seg.commit \in Sizes /\ Seg.commit \in Nat /\ DOMAIN hist[k + 1] = 1..Seg.commit
      /\ Seg.pages \in PageSets /\ Carries(hist[k], hist[k + 1], Seg.pages)
      /\ DOMAIN Seg.pages \in SUBSET (1..Seg.commit)
      /\ Len(rd.file) \in Nat /\ DOMAIN rd.file = 1..Len(rd.file) /\ rd.file \in [1..Len(rd.file) -> Values]
      /\ rd.commit <= Len(rd.file)
  BY InMember
<1>2. rd.touched = DOMAIN Seg.pages /\ rd.touched \subseteq DOMAIN rd.file
  BY <1>1 DEF AtPage
<1>3. \A i \in rd.touched : rd.file[i] = Seg.pages[i]
  BY <1>1 DEF AtPage
<1>4. \A i \in (1..rd.commit) \ (rd.touched \cup {LockPgno}) : rd.file[i] = hist[k][i]
  BY <1>1 DEF AtPage
<1>5. rd.running = Pairs(rd.file, rd.touched \cup 1..rd.commit)
  BY <1>1 DEF AtPage
<1> HIDE DEF k
<1>6. ASSUME NEW i \in (1..Seg.commit) \ {LockPgno}
      PROVE  (i \in rd.touched \/ i \in 1..rd.commit) /\ i \in DOMAIN rd.file /\ rd.file[i] = hist[k + 1][i]
  <2>1. CASE i \in rd.touched
    BY <1>1, <1>2, <1>3, <2>1 DEF Carries
  <2>2. CASE i \notin rd.touched
    <3>1. i \in 1..rd.commit /\ hist[k + 1][i] = hist[k][i]
      BY <1>1, <1>2, <2>2 DEF Carries
    <3>2. rd.file[i] = hist[k][i] /\ i \in DOMAIN rd.file
      BY SMT, <1>1, <1>4, <2>2, <3>1
    <3> QED
      BY <3>1, <3>2
  <2> QED
    BY <2>1, <2>2
<1>7. GrowthOK(Seg.commit, rd.commit, rd.touched)
  <2>1. rd.touched \in SUBSET Nat /\ IsFiniteSet(rd.touched)
    BY <1>1, <1>2, PagesFun
  <2>2. \A i \in ((rd.commit + 1)..Seg.commit) \ {LockPgno} : i \in rd.touched
    BY SMT, <1>1, <1>6
  <2> QED
    BY <1>1, <2>1, <2>2, GrowthCarried
<1>8. Cut \in [1..Seg.commit -> Values] /\ \A i \in (1..Seg.commit) \ {LockPgno} : Cut[i] = rd.file[i]
  <2>1. \A i \in 1..Seg.commit : At(rd.file, i) \in Values
    BY <1>1, LtxAssumption DEF At
  <2>2. \A i \in 1..Seg.commit : Cut[i] = At(rd.file, i)
    BY DEF Cut
  <2>3. \A i \in (1..Seg.commit) \ {LockPgno} : At(rd.file, i) = rd.file[i]
    BY <1>6 DEF At
  <2> QED
    BY <2>1, <2>2, <2>3 DEF Cut
<1>9. Cut \in Contents /\ Len(Cut) = Seg.commit
  BY <1>1, <1>8, LenContents
<1>10. Same(Cut, hist[k + 1])
  BY <1>1, <1>6, <1>8 DEF Same
<1>11. Seg.post = Sum(Cut)
  BY <1>1, <1>10, SameSum DEF Links
<1>12. Xor(rd.running, Pairs(rd.file, Dropped)) = Sum(Cut)
  <2>1. Dropped \subseteq rd.touched \cup 1..rd.commit
    BY SMT, <1>1 DEF Dropped
  <2>2. Xor(rd.running, Pairs(rd.file, Dropped)) = Pairs(rd.file, (rd.touched \cup 1..rd.commit) \ Dropped)
    BY SMT, <1>5, <2>1, PairsLess
  <2>3. \A i : i \in ((rd.touched \cup 1..rd.commit) \ Dropped) \ {LockPgno} <=> i \in (1..Seg.commit) \ {LockPgno}
    <3>1. rd.touched \subseteq 1..Seg.commit
      BY <1>1, <1>2
    <3>2. (1..rd.commit) \ ((Seg.commit + 1)..rd.commit) \subseteq 1..Seg.commit
      BY SMT, <1>1
    <3>3. \A i \in 1..Seg.commit : i \notin (Seg.commit + 1)..rd.commit
      BY SMT, <1>1
    <3> QED
      BY <1>6, <3>1, <3>2, <3>3 DEF Dropped
  <2>4. Pairs(rd.file, (rd.touched \cup 1..rd.commit) \ Dropped) = {<<i, rd.file[i]>> : i \in (1..Seg.commit) \ {LockPgno}}
    <3>1. ((rd.touched \cup 1..rd.commit) \ Dropped) \ {LockPgno} = (1..Seg.commit) \ {LockPgno}
      BY <2>3
    <3> QED
      BY <3>1 DEF Pairs
  <2>5. DOMAIN Cut = 1..Seg.commit
    BY <1>8
  <2>6. Sum(Cut) = {<<i, rd.file[i]>> : i \in (1..Seg.commit) \ {LockPgno}}
    BY <1>8, <2>5 DEF Sum
  <2> QED
    BY <2>2, <2>4, <2>6
<1> QED
  BY <1>7, <1>9, <1>10, <1>11, <1>12 DEF k

LEMMA FinishInv == ASSUME ChainInv, Finish PROVE ChainInv'
<1> DEFINE k == Head(rd.todo)
<1>1. rd.at = "page" /\ rd.left = {} /\ UNCHANGED writer
  BY DEF Finish
<1>2. AtPage /\ WriterInv /\ k \in 1..Len(segs) /\ Seg = segs[k] /\ Links(k)
  BY <1>1, InMember
<1>3. WriterInv' /\ segs' = segs /\ hist' = hist
  BY <1>1, <1>2, WriterStays DEF writer
<1>4. /\ GrowthOK(Seg.commit, rd.commit, rd.touched) /\ Xor(rd.running, Pairs(rd.file, Dropped)) = Seg.post
      /\ Cut \in Contents /\ Len(Cut) = Seg.commit /\ Seg.post = Sum(Cut) /\ Same(Cut, hist[k + 1])
  BY <1>1, FinishFits
<1>5. rd' = [at |-> "header", file |-> Cut, commit |-> Seg.commit, txid |-> Seg.max, running |-> Seg.post,
             todo |-> Tail(rd.todo), left |-> rd.left, touched |-> {}]
  <2>1. rd = [at |-> rd.at, file |-> rd.file, commit |-> rd.commit, txid |-> rd.txid,
              running |-> rd.running, todo |-> rd.todo, left |-> rd.left, touched |-> rd.touched]
    BY DEF ChainInv
  <2>2. rd' = [rd EXCEPT !.at = "header", !.file = Cut, !.commit = Seg.commit, !.txid = Seg.max,
                         !.running = Seg.post, !.todo = Tail(rd.todo), !.touched = {}]
    BY <1>4 DEF Finish
  <2> QED
    BY <2>1, <2>2
<1>6. Seg.max = k + 1 /\ k + 1 \in 0..Len(hist) /\ k + 1 # 0
  BY SMT, <1>2, Member DEF Links
<1>7. Tail(rd.todo) \in Seq(1..Len(segs))
  <2>1. rd.todo \in Seq(1..Len(segs)) /\ rd.todo # <<>>
    BY <1>2 DEF AtPage
  <2> QED
    BY <2>1, HeadTailProperties
<1> HIDE DEF k
<1>8. AtHeader'
  <2>1. /\ rd'.file = Cut /\ rd'.commit = Len(Cut) /\ rd'.running = Sum(Cut) /\ rd'.touched = {}
        /\ rd'.todo = Tail(rd.todo) /\ rd'.txid = k + 1
    BY <1>4, <1>5, <1>6
  <2>2. Same(rd'.file, hist'[rd'.txid]) /\ rd'.txid \in 0..Len(hist') /\ rd'.todo \in Seq(1..Len(segs'))
    BY <1>3, <1>4, <1>6, <1>7, <2>1
  <2>3. rd'.file \in Contents /\ rd'.running = Sum(rd'.file)
    BY <1>4, <2>1
  <2> QED
    BY <2>1, <2>2, <2>3 DEF AtHeader, Same, Sum
<1> QED
  BY <1>3, <1>5, <1>8 DEF ChainInv

LEMMA LeaveInv == ASSUME ChainInv, Leave PROVE ChainInv'
<1>1. WriterInv' /\ rd' = Idle
  BY WriterStays DEF ChainInv, Leave
<1> QED
  BY <1>1 DEF ChainInv, Idle

LEMMA StutterInv == ASSUME ChainInv, UNCHANGED vars PROVE ChainInv'
<1>1. WriterInv' /\ rd' = rd /\ segs' = segs /\ hist' = hist
  BY WriterStays DEF ChainInv, vars, writer
<1>2. AtHeader => AtHeader'
  BY <1>1 DEF AtHeader, Same, Sum
<1>3. AtPage => AtPage'
  BY <1>1 DEF AtPage, Seg, Pairs
<1> QED
  BY <1>1, <1>2, <1>3 DEF ChainInv

LEMMA StepInv == ChainInv /\ [Next]_vars => ChainInv'
BY TxnInv, FlushInv, DeltaInv, MaterializeInv, ApplyInv, HeaderInv, PageInv, FinishInv, LeaveInv,
   StutterInv DEF Next

\* Every member of a chain leads from the database before it to the one it was
\* made of, and a reader's checksum is that of its file at every page.
THEOREM ChainHolds == Spec => []ChainInv
BY InitInv, StepInv, PTL DEF Spec

\* recordApply's running checksum is the replica's, and every flush can be
\* encoded.
THEOREM WriterHolds == Spec => []WriterTrue
<1>1. ChainInv => WriterTrue
  BY DEF ChainInv, WriterInv, WriterTrue
<1> QED
  BY <1>1, ChainHolds, PTL

\* applySegments' running checksum is the one of the file, between any two
\* members.
THEOREM RunningHolds == Spec => []RunningTrue
<1>1. ChainInv => RunningTrue
  BY DEF ChainInv, AtHeader, RunningTrue
<1> QED
  BY <1>1, ChainHolds, PTL

\* Whatever members a reader is handed, what it accepts is the database that
\* the last of them was made of.
THEOREM RebuildHolds == Spec => []Rebuilds
<1>1. ChainInv => Rebuilds
  BY DEF ChainInv, AtHeader, Rebuilds
<1> QED
  BY <1>1, ChainHolds, PTL

\* A reader refuses a member at its header only, and only when it is not the
\* next one: applySegments' checks after the last page never fail on what
\* recordApply and diffPages wrote.
THEOREM AcceptHolds == Spec => AcceptsChain
<1> DEFINE A == rd'.at = "failed" =>
                  /\ rd.at = "header"
                  /\ IF rd.txid = 0 THEN ~Same(rd.file, hist[Head(rd.todo)]) ELSE Head(rd.todo) # rd.txid
<1>1. ASSUME ChainInv, [Next]_vars PROVE [A]_rd
  <2> SUFFICES ASSUME rd' # rd, rd'.at = "failed"
               PROVE  /\ rd.at = "header"
                      /\ IF rd.txid = 0 THEN ~Same(rd.file, hist[Head(rd.todo)]) ELSE Head(rd.todo) # rd.txid
    OBVIOUS
  <2>1. Header
    <3>1. ~Finish
      <4>1. SUFFICES ASSUME Finish PROVE FALSE
        OBVIOUS
      <4>2. rd'.at = "header"
        <5>1. GrowthOK(Seg.commit, rd.commit, rd.touched) /\ Xor(rd.running, Pairs(rd.file, Dropped)) = Seg.post
          BY <1>1, <4>1, FinishFits DEF Finish
        <5>2. rd' = [rd EXCEPT !.at = "header", !.file = Cut, !.commit = Seg.commit, !.txid = Seg.max,
                               !.running = Seg.post, !.todo = Tail(rd.todo), !.touched = {}]
          BY <4>1, <5>1 DEF Finish
        <5>3. rd = [at |-> rd.at, file |-> rd.file, commit |-> rd.commit, txid |-> rd.txid,
                    running |-> rd.running, todo |-> rd.todo, left |-> rd.left, touched |-> rd.touched]
          BY <1>1 DEF ChainInv
        <5> QED
          BY <5>2, <5>3
      <4> QED
        BY <4>2
    <3>2. ASSUME NEW i \in Pgnos, Page(i) PROVE FALSE
      <4>1. rd = [at |-> rd.at, file |-> rd.file, commit |-> rd.commit, txid |-> rd.txid,
                  running |-> rd.running, todo |-> rd.todo, left |-> rd.left, touched |-> rd.touched]
        BY <1>1 DEF ChainInv
      <4>2. PICK f : rd' = [rd EXCEPT !.running = PageSum(i), !.left = rd.left \ {i},
                                      !.touched = rd.touched \cup {i}, !.file = f]
        BY <3>2 DEF Page
      <4>3. rd'.at = "page"
        BY <3>2, <4>1, <4>2 DEF Page
      <4> QED
        BY <4>3
    <3>3. ~Leave
      BY SMT DEF Leave, Idle
    <3>4. ASSUME NEW todo \in Lists PROVE ~MaterializeChain(todo) /\ \A k \in DOMAIN hist : ~ApplySegments(k, todo)
      BY SMT DEF MaterializeChain, ApplySegments, Reader
    <3>5. ~Flush /\ (\A t \in Txns : ~Txn(t)) /\ \A c, d \in Contents : ~Delta(c, d)
      BY DEF Flush, Txn, Delta
    <3> QED
      BY <1>1, <3>1, <3>2, <3>3, <3>4, <3>5 DEF Next, vars
  <2>2. rd.at = "header" /\ ~HeaderOK
    <3>1. CASE HeaderOK
      <4>1. rd = [at |-> rd.at, file |-> rd.file, commit |-> rd.commit, txid |-> rd.txid,
                  running |-> rd.running, todo |-> rd.todo, left |-> rd.left, touched |-> rd.touched]
        BY <1>1 DEF ChainInv
      <4>2. rd'.at = "page"
        BY <2>1, <3>1, <4>1 DEF Header
      <4> QED
        BY <4>2
    <3> QED
      BY <2>1, <3>1 DEF Header
  <2>3. AtHeader /\ WriterInv /\ rd.todo # <<>>
    BY <1>1, <2>1 DEF Header, ChainInv
  <2>4. Head(rd.todo) \in 1..Len(segs)
    BY SMT, <2>3 DEF AtHeader
  <2>5. Seg.min = Head(rd.todo) + 1 /\ Seg.pre = Sum(hist[Head(rd.todo)])
    BY <2>3, <2>4, Member DEF Links, Seg
  <2>6. CASE rd.txid = 0
    <3>1. Seg.pre # rd.running
      BY <2>2, <2>6 DEF HeaderOK
    <3> QED
      BY <2>2, <2>3, <2>5, <2>6, <3>1, SameSum DEF AtHeader
  <2>7. CASE rd.txid # 0 /\ Head(rd.todo) = rd.txid
    <3>1. Seg.pre = rd.running
      BY <2>3, <2>5, <2>7, SameSum DEF AtHeader
    <3> QED
      BY <2>2, <2>5, <2>7, <3>1 DEF HeaderOK
  <2> QED
    BY <2>2, <2>6, <2>7
<1>2. ChainInv /\ [Next]_vars => [A]_rd
  BY <1>1
<1> QED
  BY <1>2, ChainHolds, PTL DEF Spec, AcceptsChain

=============================================================================

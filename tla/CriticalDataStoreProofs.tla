---------------------- MODULE CriticalDataStoreProofs ----------------------
(***************************************************************************)
(* Proofs about CriticalDataStore, for every number of applications, names, *)
(* entries, block sizes and resets, and for every size of the pool.  The    *)
(* walk that rebuilds the pool after a reset is a recursive function of the *)
(* memory; the invariant says without recursion that blocks tile the pool   *)
(* from its start to the first offset never used.                           *)
(***************************************************************************)
EXTENDS CriticalDataStore, FiniteSetTheorems, SequenceTheorems, WellFoundedInduction, TLAPS

-----------------------------------------------------------------------------
(* Natural numbers, sizes and bins *)

(* A nonempty set of naturals has a least element.                         *)
LEMMA LeastExists ==
  ASSUME NEW S, S \subseteq Nat, S # {}
  PROVE  \E x \in S : \A y \in S : x <= y
<1> DEFINE R == OpToRel(<, Nat)
<1>1. R = {ss \in Nat \X Nat : ss[1] < ss[2]}
  BY DEF OpToRel
<1>2. IsWellFoundedOn(R, Nat)
  BY NatLessThanWellFounded
<1> HIDE DEF R
<1>3. \A x, y \in Nat : y < x => <<y, x>> \in R
  BY <1>1
<1>4. PICK x \in S : \A y \in S : <<y, x>> \notin R
  BY <1>2, WFMin
<1>5. ASSUME NEW y \in S PROVE x <= y
  <2>1. x \in Nat /\ y \in Nat
    OBVIOUS
  <2>2. ~(y < x)
    BY <2>1, <1>3, <1>4
  <2> QED
    BY <2>1, <2>2
<1> QED
  BY <1>4, <1>5

LEMMA LeastIs ==
  ASSUME NEW S, S \subseteq Nat, S # {}
  PROVE  Least(S) \in S /\ \A y \in S : Least(S) <= y
<1>1. \E x \in S : \A y \in S : x <= y
  BY LeastExists
<1> QED
  BY <1>1 DEF Least

LEMMA Constants ==
  /\ ES \notin Apps /\ NoName \notin Names /\ OwnerOf \in [Names -> Apps]
  /\ DescSize \in Nat /\ DescSize >= 1 /\ FieldSize \in Nat /\ FieldSize >= 1
  /\ PoolStart \in Nat /\ PoolStart >= 1 /\ PoolEnd \in Nat /\ PoolStart < PoolEnd
  /\ MaxEntries \in Nat /\ MaxEntries >= 1 /\ MaxResets \in Nat
  /\ Actors = Apps \cup {ES} /\ ES \in Actors /\ NULL \notin Actors /\ NULL \notin Desc
<1>1. BinSizes[Len(BinSizes)] \in Nat
  <2>1. Len(BinSizes) \in 1 .. Len(BinSizes)
    BY CDSAssumption
  <2> QED
    BY <2>1, CDSAssumption
<1>2. DescSize \in Nat /\ DescSize >= 1 /\ PoolStart \in Nat /\ PoolEnd \in Nat
  BY CDSAssumption
<1>3. PoolStart < PoolEnd
  <2>1. PoolStart + DescSize + BinSizes[Len(BinSizes)] <= PoolEnd
    BY CDSAssumption
  <2> QED
    BY <1>1, <1>2, <2>1
<1> QED
  BY <1>2, <1>3, CDSAssumption, NullAssumption DEF Actors

LEMMA OffsetFacts ==
  /\ \A o \in Offsets : o \in Nat /\ o >= PoolStart /\ o <= PoolEnd /\ o # 0
  /\ \A o \in Nat : PoolStart <= o /\ o <= PoolEnd => o \in Offsets
BY Constants DEF Offsets

LEMMA SizesPositive == \A s \in Sizes : s \in Nat /\ s > 0
<1>1. ASSUME NEW s \in Sizes PROVE s \in Nat \ {0}
  <2>1. PICK n \in Names : s \in SizesOf[n]
    BY DEF Sizes
  <2>2. SizesOf[n] \in SUBSET (Nat \ {0})
    BY CDSAssumption
  <2> QED
    BY <2>1, <2>2
<1> QED
  BY <1>1

LEMMA BinTypes ==
  /\ Len(BinSizes) \in Nat /\ Len(BinSizes) >= 1 /\ Bins = 1 .. Len(BinSizes)
  /\ \A b \in Bins : BinSizes[b] \in Nat /\ BinSizes[b] > 0
<1>1. BinSizes \in Seq(Nat \ {0}) /\ BinSizes # <<>>
  BY CDSAssumption
<1>2. Len(BinSizes) \in Nat /\ Len(BinSizes) >= 1 /\ DOMAIN BinSizes = 1 .. Len(BinSizes)
  BY <1>1
<1>3. ASSUME NEW b \in 1 .. Len(BinSizes) PROVE BinSizes[b] \in Nat \ {0}
  BY <1>1
<1> QED
  BY <1>2, <1>3 DEF Bins

LEMMA BinsDescend ==
  ASSUME NEW i \in Bins, NEW j \in Bins, i < j
  PROVE  BinSizes[j] < BinSizes[i]
<1>1. PICK T : T = {x \in Nat : x \in Bins /\ i < x /\ ~(BinSizes[x] < BinSizes[i])}
  OBVIOUS
<1>2. SUFFICES ASSUME T # {} PROVE FALSE
  BY <1>1, BinTypes
<1>3. T \subseteq Nat
  BY <1>1
<1>4. PICK x \in T : \A y \in T : x <= y
  BY <1>2, <1>3, LeastExists
<1>5. x \in Nat /\ x \in Bins /\ i < x /\ ~(BinSizes[x] < BinSizes[i])
  BY <1>1
<1>6. x \in 2 .. Len(BinSizes) /\ x - 1 \in Bins /\ x - 1 \in Nat /\ i <= x - 1 /\ ~(x <= x - 1)
  BY <1>5, BinTypes
<1>7. BinSizes[x] < BinSizes[x - 1]
  BY <1>6, CDSAssumption
<1>8. BinSizes[x] \in Nat /\ BinSizes[x - 1] \in Nat /\ BinSizes[i] \in Nat
  BY <1>5, <1>6, BinTypes
<1>9. BinSizes[x - 1] <= BinSizes[i]
  <2>1. CASE x - 1 = i
    BY <1>8, <2>1
  <2>2. CASE x - 1 # i
    <3>1. x - 1 \notin T /\ i < x - 1
      BY <1>4, <1>6, <2>2, BinTypes
    <3>2. BinSizes[x - 1] < BinSizes[i]
      BY <1>1, <1>6, <3>1
    <3> QED
      BY <1>8, <3>2
  <2> QED
    BY <2>1, <2>2
<1> QED
  BY <1>5, <1>7, <1>8, <1>9

(* CFE_ES_CDSGetBinIndex finds a bin that holds the size, and the bin of a  *)
(* block from the block's size.                                             *)
LEMMA BinHolds ==
  ASSUME NEW size \in Nat
  PROVE  /\ GetBinIndex(size) \in Bins
         /\ FitsABin(size) => size <= BinSizes[GetBinIndex(size)]
<1>1. PICK T : T = {b \in Bins : b = Len(BinSizes) \/ size > BinSizes[b + 1]}
  OBVIOUS
<1>2. T \subseteq Nat /\ T # {}
  BY <1>1, BinTypes
<1>3. PICK g : g = GetBinIndex(size)
  OBVIOUS
<1>4. g \in T /\ \A y \in T : g <= y
  BY <1>1, <1>2, <1>3, LeastIs DEF GetBinIndex
<1>5. g \in Bins
  BY <1>1, <1>4
<1>6. ASSUME FitsABin(size) PROVE size <= BinSizes[g]
  <2>1. CASE g = 1
    BY <1>6, <2>1 DEF FitsABin
  <2>2. CASE g # 1
    <3>1. g - 1 \in Bins /\ g - 1 # Len(BinSizes) /\ (g - 1) + 1 = g /\ ~(g <= g - 1)
      BY <1>5, <2>2, BinTypes
    <3>2. ~(size > BinSizes[(g - 1) + 1])
      BY <1>1, <1>4, <3>1
    <3>3. ~(size > BinSizes[g])
      BY <3>1, <3>2
    <3>4. BinSizes[g] \in Nat
      BY <1>5, BinTypes
    <3> QED
      BY <3>3, <3>4
  <2> QED
    BY <2>1, <2>2
<1> QED
  BY <1>3, <1>5, <1>6

LEMMA BinOfBin ==
  ASSUME NEW b \in Bins
  PROVE  GetBinIndex(BinSizes[b]) = b
<1>0. BinSizes[b] \in Nat /\ b \in Nat
  BY BinTypes
<1>1. PICK T : T = {c \in Bins : c = Len(BinSizes) \/ BinSizes[b] > BinSizes[c + 1]}
  OBVIOUS
<1>2. b \in T
  <2>1. CASE b = Len(BinSizes)
    BY <1>1, <2>1
  <2>2. CASE b # Len(BinSizes)
    <3>1. b + 1 \in Bins /\ b < b + 1
      BY <2>2, BinTypes
    <3>2. BinSizes[b + 1] < BinSizes[b] /\ BinSizes[b + 1] \in Nat
      BY <3>1, BinsDescend, BinTypes
    <3> QED
      BY <1>0, <1>1, <3>2
  <2> QED
    BY <2>1, <2>2
<1>3. T \subseteq Nat
  BY <1>1, BinTypes
<1>4. PICK g : g = GetBinIndex(BinSizes[b])
  OBVIOUS
<1>5. g \in T /\ \A y \in T : g <= y
  BY <1>1, <1>2, <1>3, <1>4, LeastIs DEF GetBinIndex
<1>6. g <= b /\ g \in Nat /\ g \in Bins
  BY <1>1, <1>2, <1>3, <1>5
<1>7. SUFFICES ASSUME g # b PROVE FALSE
  BY <1>4
<1>8. g + 1 \in Bins /\ g + 1 <= b /\ g # Len(BinSizes)
  BY <1>0, <1>6, <1>7, BinTypes
<1>9. BinSizes[b] > BinSizes[g + 1]
  BY <1>1, <1>5, <1>8
<1>10. BinSizes[g + 1] \in Nat /\ (g + 1 = b \/ BinSizes[b] < BinSizes[g + 1])
  BY <1>0, <1>8, BinTypes, BinsDescend
<1> QED
  BY <1>0, <1>9, <1>10

LEMMA BinsApart ==
  ASSUME NEW b \in Bins, NEW c \in Bins, BinSizes[b] = BinSizes[c]
  PROVE  b = c
BY BinOfBin

LEMMA LargestBin == \A b \in Bins : BinSizes[b] <= BinSizes[1]
<1>1. ASSUME NEW b \in Bins PROVE BinSizes[b] <= BinSizes[1]
  <2>1. 1 \in Bins /\ b \in Nat /\ b >= 1 /\ BinSizes[b] \in Nat /\ BinSizes[1] \in Nat
    BY BinTypes
  <2>2. CASE b = 1
    BY <2>1, <2>2
  <2>3. CASE b # 1
    <3>1. BinSizes[b] < BinSizes[1]
      BY <2>1, <2>3, BinsDescend
    <3> QED
      BY <2>1, <3>1
  <2> QED
    BY <2>2, <2>3
<1> QED
  BY <1>1

-----------------------------------------------------------------------------
(* The pool: E is the first offset no block was ever made at.              *)

After(d, o) == o + d[o].ActualSize + DescSize

Tiled(d, E) ==
  /\ d \in [Offsets -> Desc \cup {NULL}]
  /\ E \in Nat /\ PoolStart <= E /\ E < PoolEnd
  /\ \A o \in Offsets : d[o] # NULL =>
       /\ d[o].ActualSize = BinSizes[GetBinIndex(d[o].SizeUsed)]
       /\ After(d, o) <= E /\ (After(d, o) = E \/ d[After(d, o)] # NULL)
  /\ PoolStart = E \/ d[PoolStart] # NULL
  /\ \A o, p \in Offsets : d[o] # NULL /\ d[p] # NULL /\ o < p => After(d, o) <= p

LEMMA BlockFacts ==
  ASSUME NEW d, NEW E, Tiled(d, E), NEW o \in Offsets, d[o] # NULL
  PROVE  /\ d[o] \in Desc /\ d[o].SizeUsed \in Sizes /\ d[o].Used \in BOOLEAN
         /\ d[o].ActualSize \in Nat /\ d[o].ActualSize > 0 /\ d[o].ActualSize <= BinSizes[1]
         /\ \E b \in Bins : b = GetBinIndex(d[o].SizeUsed) /\ d[o].ActualSize = BinSizes[b]
         /\ After(d, o) \in Nat /\ o < After(d, o) /\ After(d, o) <= E
         /\ o < E /\ o < PoolEnd - DescSize /\ After(d, o) \in Offsets
         /\ After(d, o) = E \/ d[After(d, o)] # NULL
<1>1. d[o] \in Desc
  BY DEF Tiled
<1>2. d[o].SizeUsed \in Sizes /\ d[o].Used \in BOOLEAN
  BY <1>1 DEF Desc
<1>3. PICK b \in Bins : b = GetBinIndex(d[o].SizeUsed) /\ d[o].ActualSize = BinSizes[b]
  <2>1. d[o].SizeUsed \in Nat
    BY <1>2, SizesPositive
  <2> QED
    BY <2>1, BinHolds DEF Tiled
<1>4. PICK s \in Nat : s = d[o].ActualSize /\ s > 0
  BY <1>3, BinTypes
<1>5. s <= BinSizes[1]
  BY <1>3, <1>4, LargestBin
<1>6. o \in Nat /\ o >= PoolStart
  BY OffsetFacts
<1>7. After(d, o) = o + s + DescSize
  BY <1>4 DEF After
<1>8. After(d, o) \in Nat /\ o < After(d, o)
  BY <1>4, <1>6, <1>7, Constants
<1>9. After(d, o) <= E /\ E \in Nat /\ E < PoolEnd /\ (After(d, o) = E \/ d[After(d, o)] # NULL)
  BY DEF Tiled
<1>10. o < E /\ o < PoolEnd - DescSize /\ After(d, o) <= PoolEnd /\ PoolStart <= After(d, o)
  BY <1>4, <1>6, <1>7, <1>9, Constants
<1>11. After(d, o) \in Offsets
  BY <1>8, <1>10, OffsetFacts
<1> QED
  BY <1>1, <1>2, <1>3, <1>4, <1>5, <1>8, <1>9, <1>10, <1>11

(* f[x] is what the walk of CFE_ES_RebuildCDSPool passes from x on.        *)
WalkTop == PoolEnd + BinSizes[1] + DescSize

PassAt(d, f, x) ==
  IF x < PoolEnd - DescSize /\ d[x] # NULL THEN <<x>> \o f[After(d, x)] ELSE <<>>

IsPass(d, f, lo) ==
  /\ f \in [lo .. WalkTop -> Seq(Offsets)]
  /\ \A x \in lo .. WalkTop : f[x] = PassAt(d, f, x)

LEMMA WalkTopFacts ==
  /\ WalkTop \in Nat /\ PoolEnd < WalkTop /\ PoolStart < WalkTop
  /\ \A x \in Nat : PoolStart <= x /\ x < PoolEnd - DescSize => x \in Offsets
<1>1. BinSizes[1] \in Nat
  BY BinTypes
<1> QED
  BY <1>1, Constants, OffsetFacts DEF WalkTop

LEMMA AfterInWalk ==
  ASSUME NEW d, NEW E, Tiled(d, E), NEW x \in Nat, PoolStart <= x,
         x < PoolEnd - DescSize, d[x] # NULL
  PROVE  x \in Offsets /\ After(d, x) \in Nat /\ x < After(d, x) /\ After(d, x) <= WalkTop
<1>1. x \in Offsets
  BY WalkTopFacts
<1>2. After(d, x) \in Nat /\ x < After(d, x) /\ After(d, x) \in Offsets
  BY <1>1, BlockFacts
<1>3. After(d, x) <= PoolEnd
  BY <1>2, OffsetFacts
<1> QED
  BY <1>1, <1>2, <1>3, WalkTopFacts, Constants

LEMMA PassExists ==
  ASSUME NEW d, NEW E, Tiled(d, E), NEW k \in Nat, k <= WalkTop - PoolStart
  PROVE  \E f : IsPass(d, f, WalkTop - k)
<1>1. PICK T : T = {n \in Nat : n <= WalkTop - PoolStart /\ ~\E f : IsPass(d, f, WalkTop - n)}
  OBVIOUS
<1>2. SUFFICES ASSUME T # {} PROVE FALSE
  BY <1>1
<1>3. PICK n \in T : \A y \in T : n <= y
  <2>1. T \subseteq Nat
    BY <1>1
  <2> QED
    BY <1>2, <2>1, LeastExists
<1>4. n \in Nat /\ n <= WalkTop - PoolStart /\ ~\E f : IsPass(d, f, WalkTop - n)
  BY <1>1
<1>5. <<>> \in Seq(Offsets)
  OBVIOUS
<1>6. CASE n = 0
  <2>1. PICK f : f = [x \in WalkTop .. WalkTop |-> <<>>]
    OBVIOUS
  <2>2. f \in [WalkTop .. WalkTop -> Seq(Offsets)]
    BY <1>5, <2>1
  <2>3. \A x \in WalkTop .. WalkTop : f[x] = <<>> /\ ~(x < PoolEnd - DescSize)
    BY <2>1, WalkTopFacts, Constants
  <2>4. IsPass(d, f, WalkTop)
    BY <2>2, <2>3 DEF IsPass, PassAt
  <2>5. WalkTop - n = WalkTop
    BY <1>6, WalkTopFacts
  <2> QED
    BY <1>4, <2>4, <2>5
<1>7. CASE n # 0
  <2>1. n - 1 \in Nat /\ n - 1 <= WalkTop - PoolStart /\ ~(n <= n - 1)
    BY <1>4, <1>7, WalkTopFacts, Constants
  <2>2. PICK g : IsPass(d, g, WalkTop - (n - 1))
    BY <1>1, <1>3, <2>1
  <2>3. PICK lo \in Nat : lo = WalkTop - n /\ WalkTop - (n - 1) = lo + 1 /\ PoolStart <= lo /\ lo < WalkTop
    BY <1>4, <1>7, WalkTopFacts, Constants
  <2>4. g \in [lo + 1 .. WalkTop -> Seq(Offsets)] /\ \A x \in lo + 1 .. WalkTop : g[x] = PassAt(d, g, x)
    BY <2>2, <2>3 DEF IsPass
  <2>5. PICK v : v = PassAt(d, g, lo)
    OBVIOUS
  <2>6. v \in Seq(Offsets)
    <3>1. CASE lo < PoolEnd - DescSize /\ d[lo] # NULL
      <4>1. lo \in Offsets /\ After(d, lo) \in Nat /\ lo < After(d, lo) /\ After(d, lo) <= WalkTop
        BY <2>3, <3>1, AfterInWalk
      <4>2. After(d, lo) \in lo + 1 .. WalkTop
        BY <2>3, <4>1, WalkTopFacts
      <4>3. g[After(d, lo)] \in Seq(Offsets)
        BY <2>4, <4>2
      <4> QED
        BY <2>5, <3>1, <4>1, <4>3 DEF PassAt
    <3>2. CASE ~(lo < PoolEnd - DescSize /\ d[lo] # NULL)
      BY <1>5, <2>5, <3>2 DEF PassAt
    <3> QED
      BY <3>1, <3>2
  <2>7. PICK f : f = [x \in lo .. WalkTop |-> IF x = lo THEN v ELSE g[x]]
    OBVIOUS
  <2>8. \A x \in lo .. WalkTop : x = lo \/ x \in lo + 1 .. WalkTop
    BY <2>3, WalkTopFacts
  <2>9. f \in [lo .. WalkTop -> Seq(Offsets)]
    BY <2>4, <2>6, <2>7, <2>8
  <2>10. \A x \in lo + 1 .. WalkTop : f[x] = g[x]
    BY <2>3, <2>7, WalkTopFacts
  <2>11. ASSUME NEW x \in lo .. WalkTop PROVE f[x] = PassAt(d, f, x)
    <3>1. PassAt(d, f, x) = PassAt(d, g, x)
      <4>1. CASE x < PoolEnd - DescSize /\ d[x] # NULL
        <5>1. x \in Nat /\ PoolStart <= x
          BY <2>3, Constants
        <5>2. After(d, x) \in Nat /\ x < After(d, x) /\ After(d, x) <= WalkTop
          BY <4>1, <5>1, AfterInWalk
        <5>3. After(d, x) \in lo + 1 .. WalkTop
          BY <2>3, <5>2, WalkTopFacts
        <5> QED
          BY <2>10, <4>1, <5>3 DEF PassAt
      <4>2. CASE ~(x < PoolEnd - DescSize /\ d[x] # NULL)
        BY <4>2 DEF PassAt
      <4> QED
        BY <4>1, <4>2
    <3>2. CASE x = lo
      BY <2>3, <2>5, <2>7, <3>1, <3>2
    <3>3. CASE x # lo
      BY <2>4, <2>8, <2>10, <3>1, <3>3
    <3> QED
      BY <3>2, <3>3
  <2>12. IsPass(d, f, lo)
    BY <2>9, <2>11 DEF IsPass
  <2> QED
    BY <1>4, <2>3, <2>12
<1> QED
  BY <1>6, <1>7

LEMMA BlocksFromPass ==
  ASSUME NEW E, Tiled(desc, E)
  PROVE  \E f : IsPass(desc, f, PoolStart) /\ BlocksFrom(PoolStart) = f[PoolStart]
<1> DEFINE Step(g) == [x \in PoolStart .. PoolEnd + BinSizes[1] + DescSize |->
                         IF x < PoolEnd - DescSize /\ desc[x] # NULL
                         THEN <<x>> \o g[x + desc[x].ActualSize + DescSize]
                         ELSE <<>>]
<1>1. PICK h : IsPass(desc, h, PoolStart)
  <2>1. WalkTop - PoolStart \in Nat /\ WalkTop - (WalkTop - PoolStart) = PoolStart
        /\ WalkTop - PoolStart <= WalkTop - PoolStart
    BY WalkTopFacts, Constants
  <2> QED
    BY <2>1, PassExists
<1>2. h = Step(h)
  <2>1. /\ h \in [PoolStart .. WalkTop -> Seq(Offsets)]
        /\ \A x \in PoolStart .. WalkTop : h[x] = PassAt(desc, h, x)
    BY <1>1 DEF IsPass
  <2>2. \A x \in PoolStart .. WalkTop : h[x] = Step(h)[x]
    BY <2>1 DEF PassAt, After, WalkTop
  <2> QED
    BY <2>1, <2>2 DEF WalkTop
<1>3. PICK f : f = CHOOSE g : g = Step(g)
  OBVIOUS
<1>4. BlocksFrom(PoolStart) = f[PoolStart]
  BY <1>3 DEF BlocksFrom
<1>5. f = Step(f)
  BY <1>2, <1>3
<1>6. DOMAIN f = PoolStart .. WalkTop /\ \A x \in PoolStart .. WalkTop : f[x] = PassAt(desc, f, x)
  BY <1>5 DEF PassAt, After, WalkTop
<1>7. f = [x \in PoolStart .. WalkTop |-> f[x]]
  BY <1>5 DEF WalkTop
<1> HIDE DEF Step
<1>8. \A x \in PoolStart .. WalkTop : f[x] \in Seq(Offsets)
  <2>1. PICK T : T = {n \in Nat : n <= WalkTop - PoolStart /\ f[WalkTop - n] \notin Seq(Offsets)}
    OBVIOUS
  <2>2. CASE T = {}
    <3>1. ASSUME NEW x \in PoolStart .. WalkTop PROVE f[x] \in Seq(Offsets)
      <4>1. PICK n \in Nat : n = WalkTop - x /\ n <= WalkTop - PoolStart /\ WalkTop - n = x
        BY WalkTopFacts, Constants
      <4> QED
        BY <2>1, <2>2, <4>1
    <3> QED
      BY <3>1
  <2>3. CASE T # {}
    <3>1. T \subseteq Nat
      BY <2>1
    <3>2. PICK n \in T : \A y \in T : n <= y
      BY <2>3, <3>1, LeastExists
    <3>3. n \in Nat /\ n <= WalkTop - PoolStart /\ f[WalkTop - n] \notin Seq(Offsets)
      BY <2>1
    <3>4. PICK x \in Nat : x = WalkTop - n /\ PoolStart <= x /\ x \in PoolStart .. WalkTop
      BY <3>3, WalkTopFacts, Constants
    <3>5. f[x] = PassAt(desc, f, x) /\ f[x] \notin Seq(Offsets)
      BY <1>6, <3>3, <3>4
    <3>6. x < PoolEnd - DescSize /\ desc[x] # NULL
      BY <3>5 DEF PassAt
    <3>7. x \in Offsets /\ After(desc, x) \in Nat /\ x < After(desc, x) /\ After(desc, x) <= WalkTop
      BY <3>4, <3>6, AfterInWalk
    <3>8. PICK m \in Nat : m = WalkTop - After(desc, x) /\ m < n /\ WalkTop - m = After(desc, x)
      BY <3>3, <3>4, <3>7, WalkTopFacts, Constants
    <3>9. m \notin T /\ m <= WalkTop - PoolStart
      BY <3>2, <3>3, <3>8, WalkTopFacts, Constants
    <3>10. f[After(desc, x)] \in Seq(Offsets)
      BY <2>1, <3>8, <3>9
    <3> QED
      BY <3>5, <3>6, <3>7, <3>10 DEF PassAt
  <2> QED
    BY <2>2, <2>3
<1>9. IsPass(desc, f, PoolStart)
  <2>1. f \in [PoolStart .. WalkTop -> Seq(Offsets)]
    BY <1>7, <1>8
  <2> QED
    BY <1>6, <2>1 DEF IsPass
<1> QED
  BY <1>4, <1>9

-----------------------------------------------------------------------------
(* Lists without repetition *)

Elems(s) == {s[i] : i \in DOMAIN s}
Once(s)  == \A i, j \in DOMAIN s : s[i] = s[j] => i = j

(* A new head: as PutCDSBlock and the rebuild put a block on a list.       *)
LEMMA Pushed ==
  ASSUME NEW S, NEW s \in Seq(S), NEW x \in S, NEW t, t = <<x>> \o s
  PROVE  /\ t \in Seq(S) /\ t # <<>> /\ Len(t) = Len(s) + 1 /\ t[1] = x
         /\ \A i \in DOMAIN s : i + 1 \in DOMAIN t /\ t[i + 1] = s[i]
         /\ \A i \in DOMAIN t : i = 1 \/ (i - 1 \in DOMAIN s /\ t[i] = s[i - 1])
<1>1. t \in Seq(S) /\ Len(t) = Len(s) + 1 /\ Len(s) \in Nat
  BY ConcatProperties
<1>2. t[1] = x /\ \A i \in 1 .. Len(s) : t[i + 1] = s[i]
  OBVIOUS
<1>3. DOMAIN t = 1 .. Len(s) + 1 /\ DOMAIN s = 1 .. Len(s)
  BY <1>1
<1>4. \A i \in DOMAIN s : i + 1 \in DOMAIN t /\ t[i + 1] = s[i]
  BY <1>1, <1>2, <1>3
<1>5. ASSUME NEW i \in DOMAIN t, i # 1 PROVE i - 1 \in DOMAIN s /\ t[i] = s[i - 1]
  <2>1. i - 1 \in 1 .. Len(s) /\ (i - 1) + 1 = i
    BY <1>1, <1>3, <1>5
  <2> QED
    BY <1>2, <1>3, <2>1
<1> QED
  BY <1>1, <1>2, <1>4, <1>5

LEMMA PushedElems ==
  ASSUME NEW S, NEW s \in Seq(S), NEW x \in S, NEW t, t = <<x>> \o s
  PROVE  /\ Elems(t) = {x} \cup Elems(s)
         /\ Once(s) /\ x \notin Elems(s) => Once(t)
<1>1. /\ t \in Seq(S) /\ Len(t) = Len(s) + 1 /\ Len(s) \in Nat
      /\ DOMAIN t = 1 .. Len(s) + 1 /\ DOMAIN s = 1 .. Len(s)
  BY Pushed
<1>2. t[1] = x
  OBVIOUS
<1>4. \A i \in DOMAIN s : i + 1 \in DOMAIN t /\ t[i + 1] = s[i]
  BY Pushed
<1>5. ASSUME NEW i \in DOMAIN t, i # 1 PROVE i - 1 \in DOMAIN s /\ t[i] = s[i - 1]
  BY <1>5, Pushed
<1>6. 1 \in DOMAIN t
  BY <1>1
<1>7. Elems(t) = {x} \cup Elems(s)
  <2>1. Elems(t) \subseteq {x} \cup Elems(s)
    BY <1>2, <1>5 DEF Elems
  <2>2. {x} \cup Elems(s) \subseteq Elems(t)
    BY <1>2, <1>4, <1>6 DEF Elems
  <2> QED
    BY <2>1, <2>2
<1>8. ASSUME Once(s), x \notin Elems(s), NEW i \in DOMAIN t, NEW j \in DOMAIN t, t[i] = t[j]
      PROVE  i = j
  <2>1. CASE i = 1 /\ j = 1
    BY <2>1
  <2>2. CASE i = 1 /\ j # 1
    BY <1>2, <1>5, <1>8, <2>2 DEF Elems
  <2>3. CASE i # 1 /\ j = 1
    BY <1>2, <1>5, <1>8, <2>3 DEF Elems
  <2>4. CASE i # 1 /\ j # 1
    <3>1. i - 1 \in DOMAIN s /\ j - 1 \in DOMAIN s /\ s[i - 1] = s[j - 1]
      BY <1>5, <1>8, <2>4
    <3>2. i - 1 = j - 1
      BY <1>8, <3>1 DEF Once
    <3>3. i \in Nat /\ j \in Nat
      BY <1>1
    <3> QED
      BY <3>2, <3>3
  <2> QED
    BY <2>1, <2>2, <2>3, <2>4
<1> QED
  BY <1>7, <1>8 DEF Once

(* A head taken: as GetCDSBlock takes a block off a list.                  *)
LEMMA Popped ==
  ASSUME NEW S, NEW s \in Seq(S), s # <<>>, Once(s)
  PROVE  /\ Head(s) \in S /\ Head(s) \in Elems(s) /\ Tail(s) \in Seq(S) /\ Once(Tail(s))
         /\ Elems(Tail(s)) = Elems(s) \ {Head(s)}
<1>1. /\ Len(s) \in Nat /\ Len(s) >= 1 /\ Tail(s) \in Seq(S) /\ Len(Tail(s)) = Len(s) - 1
      /\ Head(s) = s[1] /\ Head(s) \in S
  BY EmptySeq, HeadTailProperties
<1>2. DOMAIN s = 1 .. Len(s) /\ DOMAIN Tail(s) = 1 .. Len(s) - 1
  BY <1>1
<1>3. \A i \in 1 .. Len(s) - 1 : Tail(s)[i] = s[i + 1] /\ i + 1 \in DOMAIN s
  BY <1>1, <1>2
<1>4. Once(Tail(s))
  <2>1. ASSUME NEW i \in DOMAIN Tail(s), NEW j \in DOMAIN Tail(s), Tail(s)[i] = Tail(s)[j]
        PROVE  i = j
    <3>1. s[i + 1] = s[j + 1] /\ i + 1 \in DOMAIN s /\ j + 1 \in DOMAIN s
      BY <1>2, <1>3, <2>1
    <3>2. i + 1 = j + 1
      BY <3>1 DEF Once
    <3> QED
      BY <1>1, <1>2, <3>2
  <2> QED
    BY <2>1 DEF Once
<1>5. 1 \in DOMAIN s
  BY <1>1, <1>2
<1>6. ASSUME NEW e \in Elems(Tail(s)) PROVE e \in Elems(s) \ {Head(s)}
  <2>1. PICK i \in DOMAIN Tail(s) : e = Tail(s)[i]
    BY DEF Elems
  <2>2. e = s[i + 1] /\ i + 1 \in DOMAIN s /\ i + 1 # 1
    BY <1>1, <1>2, <1>3, <2>1
  <2> QED
    BY <1>1, <1>5, <2>2 DEF Elems, Once
<1>7. ASSUME NEW e \in Elems(s) \ {Head(s)} PROVE e \in Elems(Tail(s))
  <2>1. PICK i \in DOMAIN s : e = s[i]
    BY DEF Elems
  <2>2. i # 1
    BY <1>1, <1>7, <2>1
  <2>3. i - 1 \in 1 .. Len(s) - 1 /\ (i - 1) + 1 = i
    BY <1>1, <1>2, <2>2
  <2>4. Tail(s)[i - 1] = e
    BY <1>3, <2>1, <2>3
  <2> QED
    BY <1>2, <2>3, <2>4 DEF Elems
<1> QED
  BY <1>1, <1>4, <1>5, <1>6, <1>7 DEF Elems

-----------------------------------------------------------------------------
(* What the walk passes *)

BlocksOf(d, x) == {o \in Offsets : d[o] # NULL /\ x <= o}

PassOK(d, f, E, x) ==
  /\ f[x] \in Seq(Offsets) /\ Once(f[x]) /\ Elems(f[x]) = BlocksOf(d, x)
  /\ x = E => f[x] = <<>>
  /\ x # E => f[x] # <<>> /\ After(d, f[x][Len(f[x])]) = E

LEMMA EndIsFree ==
  ASSUME NEW d, NEW E, Tiled(d, E)
  PROVE  /\ E \in Offsets /\ d[E] = NULL /\ E \in Nat /\ E < PoolEnd
         /\ \A o \in Offsets : d[o] # NULL => o < E
<1>1. E \in Offsets
  <2>1. E \in Nat /\ PoolStart <= E /\ E < PoolEnd
    BY DEF Tiled
  <2> QED
    BY <2>1, OffsetFacts, Constants
<1>2. \A o \in Offsets : d[o] # NULL => o < E
  BY BlockFacts
<1> QED
  BY <1>1, <1>2 DEF Tiled

LEMMA PassStep ==
  ASSUME NEW d, NEW E, Tiled(d, E), NEW f, IsPass(d, f, PoolStart),
         NEW x \in Offsets, d[x] # NULL, PassOK(d, f, E, After(d, x))
  PROVE  PassOK(d, f, E, x)
<1>1. PICK y \in Offsets : y = After(d, x) /\ x < y /\ y <= E /\ x < E /\ x < PoolEnd - DescSize
  BY BlockFacts
<1>2. x \in Nat /\ y \in Nat /\ x \in PoolStart .. WalkTop
  BY OffsetFacts, WalkTopFacts, Constants
<1>3. f[x] = <<x>> \o f[y]
  BY <1>1, <1>2 DEF IsPass, PassAt
<1>4. PICK s \in Seq(Offsets) : s = f[y] /\ Once(s) /\ Elems(s) = BlocksOf(d, y)
  BY <1>1 DEF PassOK
<1>5. PICK t : t = <<x>> \o s
  OBVIOUS
<1>6. x \notin Elems(s)
  BY <1>1, <1>2, <1>4 DEF BlocksOf
<1>7. /\ t \in Seq(Offsets) /\ t # <<>> /\ Len(t) = Len(s) + 1 /\ t[1] = x /\ Once(t)
      /\ Elems(t) = {x} \cup Elems(s)
      /\ \A i \in DOMAIN s : t[i + 1] = s[i]
  <2>1. t \in Seq(Offsets) /\ t # <<>> /\ Len(t) = Len(s) + 1 /\ t[1] = x
    BY <1>5, Pushed
  <2>2. \A i \in DOMAIN s : t[i + 1] = s[i]
    BY <1>5, Pushed
  <2>3. Elems(t) = {x} \cup Elems(s)
    BY <1>5, PushedElems
  <2>4. Once(s) /\ x \notin Elems(s) => Once(t)
    BY <1>5, PushedElems
  <2> QED
    BY <1>4, <1>6, <2>1, <2>2, <2>3, <2>4
<1>8. Elems(t) = BlocksOf(d, x)
  <2>1. ASSUME NEW o \in BlocksOf(d, x), o # x PROVE o \in BlocksOf(d, y)
    <3>1. o \in Offsets /\ d[o] # NULL /\ x <= o /\ o \in Nat
      BY OffsetFacts DEF BlocksOf
    <3>2. x < o
      BY <1>2, <2>1, <3>1
    <3>3. y <= o
      BY <1>1, <3>1, <3>2 DEF Tiled
    <3> QED
      BY <3>1, <3>3 DEF BlocksOf
  <2>2. ASSUME NEW o \in BlocksOf(d, y) PROVE o \in BlocksOf(d, x)
    <3>1. o \in Offsets /\ d[o] # NULL /\ y <= o /\ o \in Nat
      BY OffsetFacts DEF BlocksOf
    <3> QED
      BY <1>1, <1>2, <3>1 DEF BlocksOf
  <2>3. x \in BlocksOf(d, x)
    BY <1>2 DEF BlocksOf
  <2> QED
    BY <1>4, <1>7, <2>1, <2>2, <2>3
<1>9. After(d, t[Len(t)]) = E
  <2>1. CASE y = E
    <3>1. s = <<>>
      BY <1>1, <1>4, <2>1 DEF PassOK
    <3>2. Len(t) = 1
      BY <1>7, <3>1
    <3> QED
      BY <1>1, <1>7, <2>1, <3>2
  <2>2. CASE y # E
    <3>1. s # <<>> /\ After(d, s[Len(s)]) = E
      BY <1>1, <1>4, <2>2 DEF PassOK
    <3>2. Len(s) \in DOMAIN s
      BY <3>1, EmptySeq
    <3>3. t[Len(t)] = s[Len(s)]
      BY <1>7, <3>2
    <3> QED
      BY <3>1, <3>3
  <2> QED
    BY <2>1, <2>2
<1>10. f[x] = t /\ x # E
  BY <1>1, <1>2, <1>3, <1>4, <1>5, EndIsFree
<1> QED
  BY <1>7, <1>8, <1>9, <1>10 DEF PassOK

LEMMA PassEnd ==
  ASSUME NEW d, NEW E, Tiled(d, E), NEW f, IsPass(d, f, PoolStart)
  PROVE  PassOK(d, f, E, E)
<1>1. E \in Offsets /\ d[E] = NULL /\ \A o \in Offsets : d[o] # NULL => o < E
  BY EndIsFree
<1>2. E \in PoolStart .. WalkTop /\ E \in Nat
  BY <1>1, OffsetFacts, WalkTopFacts, Constants
<1>3. f[E] = <<>>
  BY <1>1, <1>2 DEF IsPass, PassAt
<1>4. BlocksOf(d, E) = {}
  <2>1. ASSUME NEW o \in BlocksOf(d, E) PROVE FALSE
    <3>1. o \in Offsets /\ o \in Nat /\ o < E /\ E <= o
      BY <1>1, OffsetFacts DEF BlocksOf
    <3> QED
      BY <1>2, <3>1
  <2> QED
    BY <2>1
<1>5. <<>> \in Seq(Offsets) /\ Elems(<<>>) = {} /\ Once(<<>>)
  BY DEF Elems, Once
<1> QED
  BY <1>3, <1>4, <1>5 DEF PassOK

LEMMA PassFacts ==
  ASSUME NEW d, NEW E, Tiled(d, E), NEW f, IsPass(d, f, PoolStart),
         NEW x \in Offsets, x = E \/ d[x] # NULL
  PROVE  PassOK(d, f, E, x)
<1>1. PICK T : T = {n \in Nat : \E z \in Offsets :
                      n = E - z /\ (z = E \/ d[z] # NULL) /\ ~PassOK(d, f, E, z)}
  OBVIOUS
<1>2. E \in Nat /\ \A z \in Offsets : (z = E \/ d[z] # NULL) => z <= E /\ z \in Nat
  BY EndIsFree, OffsetFacts
<1>3. CASE T = {}
  <2>1. E - x \in Nat
    BY <1>2
  <2> QED
    BY <1>1, <1>3, <2>1
<1>4. CASE T # {}
  <2>1. T \subseteq Nat
    BY <1>1
  <2>2. PICK n \in T : \A y \in T : n <= y
    BY <1>4, <2>1, LeastExists
  <2>3. PICK z \in Offsets : n = E - z /\ (z = E \/ d[z] # NULL) /\ ~PassOK(d, f, E, z)
    BY <1>1, <2>2
  <2>4. z # E /\ d[z] # NULL
    BY <2>3, PassEnd
  <2>5. PICK y \in Offsets : y = After(d, z) /\ z < y /\ y <= E /\ (y = E \/ d[y] # NULL)
    BY <2>4, BlockFacts
  <2>6. z \in Nat /\ y \in Nat
    BY OffsetFacts
  <2>7. E - y \in Nat /\ ~(n <= E - y)
    BY <1>2, <2>3, <2>5, <2>6
  <2>8. PassOK(d, f, E, y)
    BY <1>1, <2>2, <2>5, <2>7
  <2>9. PassOK(d, f, E, z)
    BY <2>4, <2>5, <2>8, PassStep
  <2> QED
    BY <2>3, <2>9
<1> QED
  BY <1>3, <1>4

(* The walk finds every block once, and ends at the first free offset.     *)
LEMMA WalkExact ==
  ASSUME NEW E, Tiled(desc, E), NEW s, s = BlocksFrom(PoolStart)
  PROVE  /\ s \in Seq(Offsets) /\ Once(s) /\ Elems(s) = Blocks
         /\ s = <<>> => E = PoolStart
         /\ s # <<>> => After(desc, s[Len(s)]) = E
<1>1. PICK f : IsPass(desc, f, PoolStart) /\ s = f[PoolStart]
  BY BlocksFromPass
<1>2. PoolStart \in Offsets /\ (PoolStart = E \/ desc[PoolStart] # NULL)
  BY OffsetFacts, Constants DEF Tiled
<1>3. PassOK(desc, f, E, PoolStart)
  BY <1>1, <1>2, PassFacts
<1>4. BlocksOf(desc, PoolStart) = Blocks
  BY OffsetFacts DEF BlocksOf, Blocks
<1> QED
  BY <1>1, <1>3, <1>4 DEF PassOK

-----------------------------------------------------------------------------
(* The free lists a rebuild makes: L[k] after k blocks of s                *)

BinFor(d, o) == GetBinIndex(d[o].SizeUsed)

Filled(d, o, before) ==
  IF d[o].Used THEN before
  ELSE [before EXCEPT ![BinFor(d, o)] = <<o>> \o before[BinFor(d, o)]]

IsFill(d, s, L, n) ==
  /\ L \in [0 .. n -> [Bins -> Seq(Offsets)]]
  /\ L[0] = [b \in Bins |-> <<>>]
  /\ \A k \in 1 .. n : L[k] = Filled(d, s[k], L[k - 1])

(* s lists blocks.                                                          *)
Listed(d, s) == s \in Seq(Offsets) /\ \A k \in 1 .. Len(s) : d[s[k]] # NULL

LEMMA FilledType ==
  ASSUME NEW d, NEW E, Tiled(d, E), NEW o \in Offsets, d[o] # NULL,
         NEW g \in [Bins -> Seq(Offsets)]
  PROVE  Filled(d, o, g) \in [Bins -> Seq(Offsets)]
<1>1. CASE d[o].Used
  BY <1>1 DEF Filled
<1>2. CASE ~d[o].Used
  <2>1. PICK b \in Bins : b = BinFor(d, o)
    BY BlockFacts DEF BinFor
  <2>2. <<o>> \o g[b] \in Seq(Offsets)
    BY <2>1, Pushed
  <2>3. Filled(d, o, g) = [g EXCEPT ![b] = <<o>> \o g[b]]
    BY <1>2, <2>1 DEF Filled
  <2> QED
    BY <2>2, <2>3
<1> QED
  BY <1>1, <1>2

LEMMA FillExists ==
  ASSUME NEW d, NEW E, Tiled(d, E), NEW s, Listed(d, s), NEW k \in Nat, k <= Len(s)
  PROVE  \E L : IsFill(d, s, L, k)
<1>1. PICK T : T = {n \in Nat : n <= Len(s) /\ ~\E L : IsFill(d, s, L, n)}
  OBVIOUS
<1>2. SUFFICES ASSUME T # {} PROVE FALSE
  BY <1>1
<1>3. PICK n \in T : \A y \in T : n <= y
  <2>1. T \subseteq Nat
    BY <1>1
  <2> QED
    BY <1>2, <2>1, LeastExists
<1>4. n \in Nat /\ n <= Len(s) /\ ~\E L : IsFill(d, s, L, n)
  BY <1>1
<1>5. PICK none : none = [b \in Bins |-> <<>>]
  OBVIOUS
<1>6. none \in [Bins -> Seq(Offsets)]
  BY <1>5
<1>7. CASE n = 0
  <2>1. PICK L : L = [x \in 0 .. 0 |-> none]
    OBVIOUS
  <2>2. L \in [0 .. 0 -> [Bins -> Seq(Offsets)]] /\ L[0] = none
    BY <1>6, <2>1
  <2>3. 1 .. 0 = {}
    OBVIOUS
  <2>4. IsFill(d, s, L, 0)
    BY <1>5, <2>2, <2>3 DEF IsFill
  <2> QED
    BY <1>4, <1>7, <2>4
<1>8. CASE n # 0
  <2>1. PICK m \in Nat : n = m + 1 /\ m <= Len(s) /\ ~(n <= m)
    <3>1. Len(s) \in Nat
      BY DEF Listed
    <3>2. n - 1 \in Nat /\ n = (n - 1) + 1 /\ n - 1 <= Len(s) /\ ~(n <= n - 1)
      BY <1>4, <1>8, <3>1
    <3> QED
      BY <3>2
  <2>2. PICK g : IsFill(d, s, g, m)
    BY <1>1, <1>3, <2>1
  <2>3. /\ g \in [0 .. m -> [Bins -> Seq(Offsets)]] /\ g[0] = none
        /\ \A x \in 1 .. m : g[x] = Filled(d, s[x], g[x - 1])
    BY <1>5, <2>2 DEF IsFill
  <2>4. PICK v : v = Filled(d, s[n], g[m])
    OBVIOUS
  <2>5. v \in [Bins -> Seq(Offsets)]
    <3>1. n \in 1 .. Len(s) /\ s \in Seq(Offsets)
      BY <1>4, <2>1 DEF Listed
    <3>2. s[n] \in Offsets /\ d[s[n]] # NULL
      BY <3>1 DEF Listed
    <3>3. g[m] \in [Bins -> Seq(Offsets)]
      BY <2>1, <2>3
    <3> QED
      BY <2>4, <3>2, <3>3, FilledType
  <2>6. PICK L : L = [x \in 0 .. n |-> IF x = n THEN v ELSE g[x]]
    OBVIOUS
  <2>7. \A x \in 0 .. n : x = n \/ x \in 0 .. m
    BY <2>1
  <2>8. L \in [0 .. n -> [Bins -> Seq(Offsets)]]
    BY <2>3, <2>5, <2>6, <2>7
  <2>9. \A x \in 0 .. m : L[x] = g[x]
    BY <2>1, <2>6
  <2>10. L[0] = none
    BY <2>1, <2>3, <2>9
  <2>11. ASSUME NEW x \in 1 .. n PROVE L[x] = Filled(d, s[x], L[x - 1])
    <3>1. x - 1 \in 0 .. m
      BY <2>1
    <3>2. L[x - 1] = g[x - 1]
      BY <2>9, <3>1
    <3>3. CASE x = n
      <4>1. x - 1 = m /\ L[x] = v
        BY <2>1, <2>6, <3>3
      <4> QED
        BY <2>4, <3>2, <3>3, <4>1
    <3>4. CASE x # n
      <4>1. x \in 1 .. m /\ x \in 0 .. m
        BY <2>1, <3>4
      <4> QED
        BY <2>3, <2>9, <3>2, <4>1
    <3> QED
      BY <3>3, <3>4
  <2>12. IsFill(d, s, L, n)
    BY <1>5, <2>8, <2>10, <2>11 DEF IsFill
  <2> QED
    BY <1>4, <2>12
<1> QED
  BY <1>7, <1>8

LEMMA RebuiltFill ==
  ASSUME NEW E, Tiled(desc, E), NEW s, Listed(desc, s)
  PROVE  \E L : IsFill(desc, s, L, Len(s)) /\ Rebuilt(s) = L[Len(s)]
<1> DEFINE Step(g) == [k \in 0 .. Len(s) |->
                        IF k = 0 THEN [b \in Bins |-> <<>>]
                        ELSE IF desc[s[k]].Used THEN g[k - 1]
                             ELSE [g[k - 1] EXCEPT ![GetBinIndex(desc[s[k]].SizeUsed)] =
                                     <<s[k]>> \o g[k - 1][GetBinIndex(desc[s[k]].SizeUsed)]]]
<1>0. s \in Seq(Offsets) /\ Len(s) \in Nat
  BY DEF Listed
<1>1. PICK h : IsFill(desc, s, h, Len(s))
  BY <1>0, FillExists
<1>2. h = Step(h)
  <2>1. /\ h \in [0 .. Len(s) -> [Bins -> Seq(Offsets)]] /\ h[0] = [b \in Bins |-> <<>>]
        /\ \A k \in 1 .. Len(s) : h[k] = Filled(desc, s[k], h[k - 1])
    BY <1>1 DEF IsFill
  <2>2. ASSUME NEW k \in 0 .. Len(s) PROVE h[k] = Step(h)[k]
    <3>1. CASE k = 0
      BY <2>1, <3>1
    <3>2. CASE k # 0
      <4>1. k \in 1 .. Len(s)
        BY <1>0, <3>2
      <4>2. h[k] = Filled(desc, s[k], h[k - 1])
        BY <2>1, <4>1
      <4> QED
        BY <3>2, <4>2 DEF Filled, BinFor
    <3> QED
      BY <3>1, <3>2
  <2> QED
    BY <2>1, <2>2
<1>3. PICK f : f = CHOOSE g : g = Step(g)
  OBVIOUS
<1>4. Rebuilt(s) = f[Len(s)]
  BY <1>3 DEF Rebuilt
<1>5. f = Step(f)
  BY <1>2, <1>3
<1>6. /\ f = [k \in 0 .. Len(s) |-> f[k]]
      /\ f[0] = [b \in Bins |-> <<>>]
  BY <1>0, <1>5
<1>7. ASSUME NEW k \in 1 .. Len(s) PROVE f[k] = Filled(desc, s[k], f[k - 1])
  <2>1. k \in 0 .. Len(s) /\ k # 0
    BY <1>0
  <2> QED
    BY <1>5, <2>1 DEF Filled, BinFor
<1> HIDE DEF Step
<1>8. \A k \in 0 .. Len(s) : f[k] \in [Bins -> Seq(Offsets)]
  <2>1. PICK T : T = {n \in Nat : n <= Len(s) /\ f[n] \notin [Bins -> Seq(Offsets)]}
    OBVIOUS
  <2>2. CASE T = {}
    BY <1>0, <2>1, <2>2
  <2>3. CASE T # {}
    <3>1. T \subseteq Nat
      BY <2>1
    <3>2. PICK n \in T : \A y \in T : n <= y
      BY <2>3, <3>1, LeastExists
    <3>3. n \in Nat /\ n <= Len(s) /\ f[n] \notin [Bins -> Seq(Offsets)]
      BY <2>1
    <3>4. [b \in Bins |-> <<>>] \in [Bins -> Seq(Offsets)]
      OBVIOUS
    <3>5. n # 0
      BY <1>6, <3>3, <3>4
    <3>6. n \in 1 .. Len(s) /\ n - 1 \in Nat /\ n - 1 <= Len(s) /\ ~(n <= n - 1)
      BY <1>0, <3>3, <3>5
    <3>7. f[n - 1] \in [Bins -> Seq(Offsets)]
      BY <2>1, <3>2, <3>6
    <3>8. s[n] \in Offsets /\ desc[s[n]] # NULL
      BY <1>0, <3>6 DEF Listed
    <3>9. Filled(desc, s[n], f[n - 1]) \in [Bins -> Seq(Offsets)]
      BY <3>7, <3>8, FilledType
    <3> QED
      BY <1>7, <3>3, <3>6, <3>9
  <2> QED
    BY <2>2, <2>3
<1>9. f \in [0 .. Len(s) -> [Bins -> Seq(Offsets)]]
  BY <1>6, <1>8
<1>10. IsFill(desc, s, f, Len(s))
  BY <1>6, <1>7, <1>9 DEF IsFill
<1> QED
  BY <1>4, <1>10

(* The blocks among the first k of s that belong on the list of bin b.      *)
Wanted(d, s, k, b) ==
  {o \in Offsets : /\ \E i \in 1 .. k : o = s[i]
                   /\ ~d[o].Used /\ BinFor(d, o) = b}

FillOK(d, s, k, g) ==
  /\ g \in [Bins -> Seq(Offsets)]
  /\ \A b \in Bins : Once(g[b]) /\ Elems(g[b]) = Wanted(d, s, k, b)

LEMMA FillStep ==
  ASSUME NEW d, NEW E, Tiled(d, E), NEW s, Listed(d, s), Once(s), NEW k \in 1 .. Len(s),
         NEW g, FillOK(d, s, k - 1, g)
  PROVE  FillOK(d, s, k, Filled(d, s[k], g))
<1>1. PICK o \in Offsets : o = s[k] /\ d[o] # NULL
  BY DEF Listed
<1>2. s \in Seq(Offsets) /\ Len(s) \in Nat /\ DOMAIN s = 1 .. Len(s)
  BY DEF Listed
<1>3. \A i \in 1 .. k - 1 : i \in 1 .. k /\ i \in DOMAIN s /\ i # k
  BY <1>2
<1>4. \A i \in 1 .. k - 1 : s[i] # o
  BY <1>1, <1>2, <1>3 DEF Once
<1>5. PICK G : G = Filled(d, o, g)
  OBVIOUS
<1>6. g \in [Bins -> Seq(Offsets)] /\ G \in [Bins -> Seq(Offsets)]
  BY <1>1, <1>5, FilledType DEF FillOK
<1>7. \A i \in 1 .. k : i = k \/ i \in 1 .. k - 1
  BY <1>2
<1>8. k \in 1 .. k
  BY <1>2
<1>9. ASSUME NEW b \in Bins
      PROVE  /\ ~d[o].Used /\ BinFor(d, o) = b => Wanted(d, s, k, b) = {o} \cup Wanted(d, s, k - 1, b)
             /\ d[o].Used \/ BinFor(d, o) # b => Wanted(d, s, k, b) = Wanted(d, s, k - 1, b)
  BY <1>1, <1>3, <1>7, <1>8 DEF Wanted
<1>10. ASSUME NEW b \in Bins PROVE Once(G[b]) /\ Elems(G[b]) = Wanted(d, s, k, b)
  <2>1. Once(g[b]) /\ Elems(g[b]) = Wanted(d, s, k - 1, b) /\ g[b] \in Seq(Offsets)
    BY <1>6 DEF FillOK
  <2>2. CASE d[o].Used
    BY <1>5, <1>9, <2>1, <2>2 DEF Filled
  <2>3. CASE ~d[o].Used /\ BinFor(d, o) # b
    <3>1. G[b] = g[b]
      BY <1>5, <1>6, <2>3 DEF Filled
    <3> QED
      BY <1>9, <2>1, <2>3, <3>1
  <2>4. CASE ~d[o].Used /\ BinFor(d, o) = b
    <3>1. G[b] = <<o>> \o g[b]
      BY <1>5, <1>6, <2>4 DEF Filled
    <3>2. o \notin Elems(g[b])
      BY <1>4, <2>1 DEF Wanted
    <3>3. PICK t : t = <<o>> \o g[b]
      OBVIOUS
    <3>4. Elems(t) = {o} \cup Elems(g[b]) /\ (Once(g[b]) /\ o \notin Elems(g[b]) => Once(t))
      BY <2>1, <3>3, PushedElems
    <3> QED
      BY <1>9, <2>1, <2>4, <3>1, <3>2, <3>3, <3>4
  <2> QED
    BY <2>2, <2>3, <2>4
<1> QED
  BY <1>1, <1>5, <1>6, <1>10 DEF FillOK

LEMMA FillFacts ==
  ASSUME NEW d, NEW E, Tiled(d, E), NEW s, Listed(d, s), Once(s), NEW L,
         IsFill(d, s, L, Len(s)), NEW k \in 0 .. Len(s)
  PROVE  FillOK(d, s, k, L[k])
<1>1. PICK T : T = {n \in Nat : n <= Len(s) /\ ~FillOK(d, s, n, L[n])}
  OBVIOUS
<1>2. Len(s) \in Nat
  BY DEF Listed
<1>3. CASE T = {}
  BY <1>1, <1>2, <1>3
<1>4. CASE T # {}
  <2>1. T \subseteq Nat
    BY <1>1
  <2>2. PICK n \in T : \A y \in T : n <= y
    BY <1>4, <2>1, LeastExists
  <2>3. n \in Nat /\ n <= Len(s) /\ ~FillOK(d, s, n, L[n])
    BY <1>1
  <2>4. FillOK(d, s, 0, L[0])
    <3>1. L[0] = [b \in Bins |-> <<>>]
      BY DEF IsFill
    <3>2. <<>> \in Seq(Offsets) /\ Elems(<<>>) = {} /\ Once(<<>>)
      BY DEF Elems, Once
    <3>3. \A b \in Bins : Wanted(d, s, 0, b) = {}
      BY DEF Wanted
    <3> QED
      BY <3>1, <3>2, <3>3 DEF FillOK
  <2>5. n # 0
    BY <2>3, <2>4
  <2>6. n \in 1 .. Len(s) /\ n - 1 \in Nat /\ n - 1 <= Len(s) /\ ~(n <= n - 1)
    BY <1>2, <2>3, <2>5
  <2>7. FillOK(d, s, n - 1, L[n - 1])
    BY <1>1, <2>2, <2>6
  <2>8. FillOK(d, s, n, Filled(d, s[n], L[n - 1]))
    BY <2>6, <2>7, FillStep
  <2>9. L[n] = Filled(d, s[n], L[n - 1])
    BY <2>6 DEF IsFill
  <2> QED
    BY <2>3, <2>8, <2>9
<1> QED
  BY <1>3, <1>4

(* Each block not in use is on the list of the bin it was made for, once.   *)
Unused(d, b) ==
  {o \in Offsets : d[o] # NULL /\ ~d[o].Used /\ d[o].ActualSize = BinSizes[b]}

FreeExact(d, fr) ==
  /\ fr \in [Bins -> Seq(Offsets)]
  /\ \A b \in Bins : Once(fr[b]) /\ Elems(fr[b]) = Unused(d, b)

(* The bin of the size asked for is the bin of the size a block has, so    *)
(* the rebuild, which goes by the first, agrees with PutCDSBlock.           *)
LEMMA BinOfBlock ==
  ASSUME NEW d, NEW E, Tiled(d, E), NEW o \in Offsets, d[o] # NULL
  PROVE  /\ BinFor(d, o) \in Bins /\ BinFor(d, o) = GetBinIndex(d[o].ActualSize)
         /\ \A b \in Bins : BinFor(d, o) = b <=> d[o].ActualSize = BinSizes[b]
<1>1. PICK c \in Bins : c = BinFor(d, o) /\ d[o].ActualSize = BinSizes[c]
  BY BlockFacts DEF BinFor
<1>2. GetBinIndex(BinSizes[c]) = c
  BY BinOfBin
<1>3. \A b \in Bins : BinSizes[b] = BinSizes[c] => b = c
  BY BinsApart
<1> QED
  BY <1>1, <1>2, <1>3

(* CFE_ES_RebuildCDSPool makes the free lists that were lost.              *)
LEMMA RebuildExact ==
  ASSUME NEW E, Tiled(desc, E)
  PROVE  /\ FreeExact(desc, Rebuilt(BlocksFrom(PoolStart)))
         /\ RebuiltCurrent(BlocksFrom(PoolStart)) \in {E, 0}
<1>1. PICK s : s = BlocksFrom(PoolStart)
  OBVIOUS
<1>2. /\ s \in Seq(Offsets) /\ Once(s) /\ Elems(s) = Blocks
      /\ s = <<>> => E = PoolStart
      /\ s # <<>> => After(desc, s[Len(s)]) = E
  BY <1>1, WalkExact
<1>3. DOMAIN s = 1 .. Len(s) /\ Len(s) \in Nat
  BY <1>2
<1>4. Listed(desc, s)
  <2>1. \A k \in 1 .. Len(s) : s[k] \in Blocks
    BY <1>2, <1>3 DEF Elems
  <2> QED
    BY <1>2, <2>1 DEF Listed, Blocks
<1>5. PICK L : IsFill(desc, s, L, Len(s)) /\ Rebuilt(s) = L[Len(s)]
  BY <1>4, RebuiltFill
<1>6. FillOK(desc, s, Len(s), Rebuilt(s))
  <2>1. Len(s) \in 0 .. Len(s)
    BY <1>3
  <2>2. FillOK(desc, s, Len(s), L[Len(s)])
    BY <1>2, <1>4, <1>5, <2>1, FillFacts
  <2> QED
    BY <1>5, <2>2
<1>7. ASSUME NEW b \in Bins PROVE Wanted(desc, s, Len(s), b) = Unused(desc, b)
  <2>1. ASSUME NEW o \in Wanted(desc, s, Len(s), b) PROVE o \in Unused(desc, b)
    <3>1. o \in Offsets /\ o \in Elems(s) /\ ~desc[o].Used /\ BinFor(desc, o) = b
      BY <1>3 DEF Wanted, Elems
    <3>2. desc[o] # NULL
      BY <1>2, <3>1 DEF Blocks
    <3> QED
      BY <3>1, <3>2, BinOfBlock DEF Unused
  <2>2. ASSUME NEW o \in Unused(desc, b) PROVE o \in Wanted(desc, s, Len(s), b)
    <3>1. o \in Offsets /\ desc[o] # NULL /\ ~desc[o].Used /\ desc[o].ActualSize = BinSizes[b]
      BY DEF Unused
    <3>2. BinFor(desc, o) = b
      BY <3>1, BinOfBlock
    <3>3. o \in Elems(s)
      BY <1>2, <3>1 DEF Blocks
    <3> QED
      BY <1>3, <3>1, <3>2, <3>3 DEF Wanted, Elems
  <2> QED
    BY <2>1, <2>2
<1>8. FreeExact(desc, Rebuilt(s))
  BY <1>6, <1>7 DEF FillOK, FreeExact
<1>9. RebuiltCurrent(s) \in {E, 0}
  <2>1. CASE s = <<>>
    BY <1>2, <2>1 DEF RebuiltCurrent
  <2>2. CASE s # <<>>
    <3>1. s[Len(s)] + desc[s[Len(s)]].ActualSize + DescSize = E
      BY <1>2, <2>2 DEF After
    <3> QED
      BY <2>2, <3>1 DEF RebuiltCurrent
  <2> QED
    BY <2>1, <2>2
<1> QED
  BY <1>1, <1>8, <1>9

-----------------------------------------------------------------------------
(* What the operations do to the pool *)

PoolOK(d, cur, fr) ==
  /\ \E E : Tiled(d, E) /\ cur \in {E, 0}
  /\ FreeExact(d, fr)

(* Descriptors that keep the sizes of their blocks keep the tiling.        *)
LEMMA TiledKept ==
  ASSUME NEW d, NEW E, Tiled(d, E), NEW d2, d2 \in [Offsets -> Desc \cup {NULL}],
         \A o \in Offsets : d2[o] = NULL <=> d[o] = NULL,
         \A o \in Offsets : d[o] # NULL =>
            /\ d2[o].ActualSize = d[o].ActualSize
            /\ d2[o].ActualSize = BinSizes[GetBinIndex(d2[o].SizeUsed)]
  PROVE  Tiled(d2, E)
<1>1. ASSUME NEW o \in Offsets, d2[o] # NULL
      PROVE  /\ d[o] # NULL /\ After(d2, o) = After(d, o) /\ After(d, o) \in Offsets
             /\ After(d, o) <= E /\ (After(d, o) = E \/ d[After(d, o)] # NULL)
  <2>1. d[o] # NULL
    BY <1>1
  <2> QED
    BY <2>1, BlockFacts DEF After
<1>2. ASSUME NEW o \in Offsets, d2[o] # NULL
      PROVE  /\ d2[o].ActualSize = BinSizes[GetBinIndex(d2[o].SizeUsed)]
             /\ After(d2, o) <= E /\ (After(d2, o) = E \/ d2[After(d2, o)] # NULL)
  BY <1>1, <1>2
<1>3. E \in Nat /\ PoolStart <= E /\ E < PoolEnd /\ (PoolStart = E \/ d[PoolStart] # NULL)
  BY DEF Tiled
<1>4. PoolStart = E \/ d2[PoolStart] # NULL
  <2>1. PoolStart \in Offsets
    BY OffsetFacts, Constants
  <2> QED
    BY <1>3, <2>1
<1>5. ASSUME NEW o \in Offsets, NEW p \in Offsets, d2[o] # NULL, d2[p] # NULL, o < p
      PROVE  After(d2, o) <= p
  <2>1. d[o] # NULL /\ d[p] # NULL /\ After(d2, o) = After(d, o)
    BY <1>1, <1>5
  <2>2. After(d, o) <= p
    BY <1>5, <2>1 DEF Tiled
  <2> QED
    BY <2>1, <2>2
<1> QED
  BY <1>2, <1>3, <1>4, <1>5 DEF Tiled

(* One descriptor is changed, and its block keeps its size.                *)
LEMMA TiledSet ==
  ASSUME NEW d, NEW E, Tiled(d, E), NEW h \in Offsets, d[h] # NULL, NEW r \in Desc,
         r.ActualSize = d[h].ActualSize, r.ActualSize = BinSizes[GetBinIndex(r.SizeUsed)],
         NEW d2, d2 = [d EXCEPT ![h] = r]
  PROVE  Tiled(d2, E)
<1>1. d \in [Offsets -> Desc \cup {NULL}]
  BY DEF Tiled
<1>2. d2 \in [Offsets -> Desc \cup {NULL}] /\ d2[h] = r
      /\ \A o \in Offsets : o # h => d2[o] = d[o]
  BY <1>1
<1>3. r # NULL
  BY Constants
<1>4. \A o \in Offsets : d2[o] = NULL <=> d[o] = NULL
  BY <1>2, <1>3
<1>5. ASSUME NEW o \in Offsets, d[o] # NULL
      PROVE  /\ d2[o].ActualSize = d[o].ActualSize
             /\ d2[o].ActualSize = BinSizes[GetBinIndex(d2[o].SizeUsed)]
  <2>1. d[o].ActualSize = BinSizes[GetBinIndex(d[o].SizeUsed)]
    BY <1>5 DEF Tiled
  <2>2. CASE o = h
    BY <1>2, <2>2
  <2>3. CASE o # h
    BY <1>2, <2>1, <2>3
  <2> QED
    BY <2>2, <2>3
<1> QED
  BY <1>2, <1>4, <1>5, TiledKept

(* CFE_ES_PutCDSBlock of a block in use.                                   *)
LEMMA PutFacts ==
  ASSUME PoolOK(desc, Current, free), NEW h \in Offsets, PutCDSBlock(h)
  PROVE  /\ PoolOK(desc', Current', free') /\ Current' = Current
         /\ desc[h] # NULL /\ desc[h] \in Desc /\ desc[h].Used
         /\ desc'[h] # NULL /\ desc'[h] \in Desc /\ ~desc'[h].Used
         /\ \A o \in Offsets \ {h} : desc'[o] = desc[o]
         /\ desc' \in [Offsets -> Desc \cup {NULL}] /\ free' \in [Bins -> Seq(Offsets)]
<1>1. PICK E : Tiled(desc, E) /\ Current \in {E, 0}
  BY DEF PoolOK
<1>2. desc[h] # NULL /\ desc[h].Used
  BY DEF PutCDSBlock, ValidBlock
<1>3. /\ desc \in [Offsets -> Desc \cup {NULL}] /\ desc[h] \in Desc
      /\ desc[h].ActualSize = BinSizes[GetBinIndex(desc[h].SizeUsed)]
  BY <1>1, <1>2 DEF Tiled
<1>4. PICK r : r = [desc[h] EXCEPT !.Used = FALSE]
  OBVIOUS
<1>5. /\ r \in Desc /\ ~r.Used /\ r.ActualSize = desc[h].ActualSize
      /\ r.SizeUsed = desc[h].SizeUsed
  BY <1>3, <1>4 DEF Desc
<1>6. PICK d2 : d2 = desc'
  OBVIOUS
<1>7. d2 = [desc EXCEPT ![h] = r]
  BY <1>4, <1>6 DEF PutCDSBlock
<1>8. /\ d2 \in [Offsets -> Desc \cup {NULL}] /\ d2[h] = r /\ r # NULL
      /\ \A o \in Offsets \ {h} : d2[o] = desc[o]
  BY <1>3, <1>5, <1>7, Constants
<1>9. Tiled(d2, E)
  <2>1. r.ActualSize = BinSizes[GetBinIndex(r.SizeUsed)]
    BY <1>3, <1>5
  <2> QED
    BY <1>1, <1>2, <1>5, <1>7, <2>1, TiledSet
<1>10. PICK b \in Bins : b = GetBinIndex(desc[h].ActualSize) /\ desc[h].ActualSize = BinSizes[b]
  BY <1>1, <1>2, BinOfBlock
<1>11. PICK f2 : f2 = free'
  OBVIOUS
<1>12. f2 = [free EXCEPT ![b] = <<h>> \o free[b]] /\ Current' = Current
  BY <1>10, <1>11 DEF PutCDSBlock
<1>13. /\ free \in [Bins -> Seq(Offsets)]
       /\ \A c \in Bins : Once(free[c]) /\ Elems(free[c]) = Unused(desc, c)
  BY DEF PoolOK, FreeExact
<1>14. PICK t : t = <<h>> \o free[b]
  OBVIOUS
<1>15. /\ t \in Seq(Offsets) /\ Elems(t) = {h} \cup Elems(free[b])
       /\ Once(free[b]) /\ h \notin Elems(free[b]) => Once(t)
  <2>1. free[b] \in Seq(Offsets)
    BY <1>13
  <2> QED
    BY <1>14, <2>1, Pushed, PushedElems
<1>16. /\ f2 \in [Bins -> Seq(Offsets)] /\ f2[b] = t
       /\ \A c \in Bins : c # b => f2[c] = free[c]
  BY <1>12, <1>13, <1>14, <1>15
<1>17. ASSUME NEW c \in Bins PROVE Once(f2[c]) /\ Elems(f2[c]) = Unused(d2, c)
  <2>1. CASE c = b
    <3>1. h \notin Unused(desc, b)
      BY <1>2 DEF Unused
    <3>2. Unused(d2, b) = {h} \cup Unused(desc, b)
      BY <1>5, <1>8, <1>10 DEF Unused
    <3> QED
      BY <1>13, <1>15, <1>16, <2>1, <3>1, <3>2
  <2>2. CASE c # b
    <3>1. BinSizes[c] # BinSizes[b]
      BY <2>2, BinsApart
    <3>2. Unused(d2, c) = Unused(desc, c)
      BY <1>2, <1>5, <1>8, <1>10, <3>1 DEF Unused
    <3> QED
      BY <1>13, <1>16, <2>2, <3>2
  <2> QED
    BY <2>1, <2>2
<1>18. PoolOK(d2, Current, f2)
  BY <1>1, <1>9, <1>16, <1>17 DEF PoolOK, FreeExact
<1> QED
  BY <1>2, <1>3, <1>5, <1>6, <1>8, <1>11, <1>12, <1>16, <1>18

(* The descriptor of a new block.                                          *)
LEMMA NewDesc ==
  ASSUME NEW size \in Sizes, FitsABin(size), NEW r,
         r = [Used |-> TRUE, SizeUsed |-> size, ActualSize |-> BinSizes[GetBinIndex(size)],
              CRC |-> ZeroCRC]
  PROVE  /\ GetBinIndex(size) \in Bins /\ r \in Desc /\ r.Used /\ r.SizeUsed = size
         /\ r.ActualSize = BinSizes[GetBinIndex(size)] /\ r # NULL
<1>1. size \in Nat
  BY SizesPositive
<1>2. GetBinIndex(size) \in Bins
  BY <1>1, BinHolds
<1>3. BinSizes[GetBinIndex(size)] \in Nat
  BY <1>2, BinTypes
<1>4. r \in Desc
  BY <1>3 DEF Desc
<1> QED
  BY <1>2, <1>4, Constants

(* A block beyond the last one.                                            *)
LEMMA TiledGrown ==
  ASSUME NEW d, NEW E, Tiled(d, E), NEW r \in Desc, NEW b \in Bins, r # NULL,
         r.ActualSize = BinSizes[b], b = GetBinIndex(r.SizeUsed),
         E + DescSize + BinSizes[b] < PoolEnd, NEW d2, d2 = [d EXCEPT ![E] = r]
  PROVE  Tiled(d2, E + BinSizes[b] + DescSize)
<1>1. /\ E \in Offsets /\ d[E] = NULL /\ E \in Nat /\ E < PoolEnd /\ PoolStart <= E
      /\ \A o \in Offsets : d[o] # NULL => o < E
  BY EndIsFree DEF Tiled
<1>2. d \in [Offsets -> Desc \cup {NULL}]
  BY DEF Tiled
<1>3. /\ d2 \in [Offsets -> Desc \cup {NULL}] /\ d2[E] = r
      /\ \A o \in Offsets : o # E => d2[o] = d[o]
  BY <1>1, <1>2
<1>4. PICK F : F = E + BinSizes[b] + DescSize
  OBVIOUS
<1>5. F \in Nat /\ E < F /\ PoolStart <= F /\ F < PoolEnd
  <2>1. BinSizes[b] \in Nat
    BY BinTypes
  <2> QED
    BY <1>1, <1>4, <2>1, Constants
<1>6. After(d2, E) = F
  BY <1>3, <1>4 DEF After
<1>7. ASSUME NEW o \in Offsets, d2[o] # NULL, o # E
      PROVE  /\ d[o] # NULL /\ After(d2, o) = After(d, o) /\ After(d, o) \in Offsets
             /\ After(d, o) <= E /\ After(d, o) \in Nat
             /\ (After(d, o) = E \/ d[After(d, o)] # NULL) /\ o < E
             /\ d2[o].ActualSize = BinSizes[GetBinIndex(d2[o].SizeUsed)]
  <2>1. d[o] # NULL /\ d2[o] = d[o]
    BY <1>3, <1>7
  <2>2. d[o].ActualSize = BinSizes[GetBinIndex(d[o].SizeUsed)]
    BY <2>1 DEF Tiled
  <2>3. After(d2, o) = After(d, o)
    BY <2>1 DEF After
  <2> QED
    BY <2>1, <2>2, <2>3, BlockFacts
<1>8. ASSUME NEW o \in Offsets, d2[o] # NULL
      PROVE  /\ d2[o].ActualSize = BinSizes[GetBinIndex(d2[o].SizeUsed)]
             /\ After(d2, o) <= F /\ (After(d2, o) = F \/ d2[After(d2, o)] # NULL)
  <2>1. CASE o = E
    BY <1>3, <1>5, <1>6, <2>1
  <2>2. CASE o # E
    <3>1. /\ After(d2, o) = After(d, o) /\ After(d, o) \in Offsets /\ After(d, o) \in Nat
          /\ After(d, o) <= E /\ (After(d, o) = E \/ d[After(d, o)] # NULL)
          /\ d2[o].ActualSize = BinSizes[GetBinIndex(d2[o].SizeUsed)]
      BY <1>7, <1>8, <2>2
    <3>2. d2[After(d, o)] # NULL
      BY <1>3, <3>1
    <3> QED
      BY <1>1, <1>5, <3>1, <3>2
  <2> QED
    BY <2>1, <2>2
<1>9. d2[PoolStart] # NULL
  <2>1. PoolStart \in Offsets /\ (PoolStart = E \/ d[PoolStart] # NULL)
    BY OffsetFacts, Constants DEF Tiled
  <2> QED
    BY <1>3, <2>1
<1>10. ASSUME NEW o \in Offsets, NEW p \in Offsets, d2[o] # NULL, d2[p] # NULL, o < p
       PROVE  After(d2, o) <= p
  <2>1. o \in Nat /\ p \in Nat
    BY OffsetFacts
  <2>2. CASE o = E
    <3>1. p # E /\ p < E
      BY <1>7, <1>10, <2>1, <2>2
    <3> QED
      BY <1>1, <1>10, <2>1, <2>2, <3>1
  <2>3. CASE o # E /\ p = E
    BY <1>7, <1>10, <2>3
  <2>4. CASE o # E /\ p # E
    <3>1. d[o] # NULL /\ d[p] # NULL /\ After(d2, o) = After(d, o)
      BY <1>7, <1>10, <2>4
    <3>2. After(d, o) <= p
      BY <1>10, <3>1 DEF Tiled
    <3> QED
      BY <3>1, <3>2
  <2> QED
    BY <2>2, <2>3, <2>4
<1>11. Tiled(d2, F)
  BY <1>3, <1>5, <1>8, <1>9, <1>10 DEF Tiled
<1> QED
  BY <1>4, <1>11

(* What GetCDSBlock does, whichever way it finds a block h.                *)
Given(d, d2, h, size) ==
  /\ h \in Offsets /\ h # 0
  /\ d[h] = NULL \/ ~d[h].Used
  /\ d2 \in [Offsets -> Desc \cup {NULL}]
  /\ d2[h] # NULL /\ d2[h].Used /\ d2[h].SizeUsed = size
  /\ \A o \in Offsets : o # h => d2[o] = d[o]

LEMMA GetFromList ==
  ASSUME PoolOK(desc, Current, free), NEW size \in Sizes, GetCDSBlock(size),
         free[GetBinIndex(size)] # <<>>
  PROVE  /\ PoolOK(desc', Current', free') /\ Given(desc, desc', NewBlock(size), size)
         /\ Current' = Current
<1>1. PICK E : Tiled(desc, E) /\ Current \in {E, 0}
  BY DEF PoolOK
<1>2. FitsABin(size)
  BY DEF GetCDSBlock, CanGetCDSBlock
<1>3. PICK b : b = GetBinIndex(size)
  OBVIOUS
<1>4. PICK r : r = [Used |-> TRUE, SizeUsed |-> size, ActualSize |-> BinSizes[b], CRC |-> ZeroCRC]
  OBVIOUS
<1>5. /\ b \in Bins /\ r \in Desc /\ r.Used /\ r.SizeUsed = size
      /\ r.ActualSize = BinSizes[b] /\ r # NULL
  BY <1>2, <1>3, <1>4, NewDesc
<1>6. PICK h : h = Head(free[b])
  OBVIOUS
<1>7. NewBlock(size) = h
  BY <1>3, <1>6 DEF NewBlock
<1>8. PICK d2 : d2 = desc'
  OBVIOUS
<1>9. d2 = [desc EXCEPT ![h] = r]
  BY <1>3, <1>4, <1>7, <1>8 DEF GetCDSBlock
<1>10. PICK f2 : f2 = free'
  OBVIOUS
<1>11. f2 = [free EXCEPT ![b] = Tail(free[b])] /\ Current' = Current
  BY <1>3, <1>10 DEF GetCDSBlock
<1>12. /\ free \in [Bins -> Seq(Offsets)]
       /\ \A c \in Bins : Once(free[c]) /\ Elems(free[c]) = Unused(desc, c)
  BY DEF PoolOK, FreeExact
<1>13. /\ h \in Offsets /\ h \in Elems(free[b]) /\ Tail(free[b]) \in Seq(Offsets)
       /\ Once(Tail(free[b])) /\ Elems(Tail(free[b])) = Elems(free[b]) \ {h}
  <2>1. free[b] \in Seq(Offsets) /\ free[b] # <<>> /\ Once(free[b])
    BY <1>3, <1>5, <1>12
  <2> QED
    BY <1>6, <2>1, Popped
<1>14. desc[h] # NULL /\ ~desc[h].Used /\ desc[h].ActualSize = BinSizes[b]
  BY <1>5, <1>12, <1>13 DEF Unused
<1>15. desc \in [Offsets -> Desc \cup {NULL}]
  BY <1>1 DEF Tiled
<1>16. /\ d2 \in [Offsets -> Desc \cup {NULL}] /\ d2[h] = r
       /\ \A o \in Offsets : o # h => d2[o] = desc[o]
  BY <1>5, <1>9, <1>13, <1>15
<1>17. Tiled(d2, E)
  <2>1. r.ActualSize = desc[h].ActualSize /\ r.ActualSize = BinSizes[GetBinIndex(r.SizeUsed)]
    BY <1>3, <1>5, <1>14
  <2> QED
    BY <1>1, <1>5, <1>9, <1>13, <1>14, <2>1, TiledSet
<1>18. /\ f2 \in [Bins -> Seq(Offsets)] /\ f2[b] = Tail(free[b])
       /\ \A c \in Bins : c # b => f2[c] = free[c]
  BY <1>5, <1>11, <1>12, <1>13
<1>19. ASSUME NEW c \in Bins PROVE Once(f2[c]) /\ Elems(f2[c]) = Unused(d2, c)
  <2>1. CASE c = b
    <3>1. Unused(d2, b) = Unused(desc, b) \ {h}
      BY <1>5, <1>16 DEF Unused
    <3> QED
      BY <1>12, <1>13, <1>18, <2>1, <3>1
  <2>2. CASE c # b
    <3>1. BinSizes[c] # BinSizes[b]
      BY <1>5, <2>2, BinsApart
    <3>2. Unused(d2, c) = Unused(desc, c)
      BY <1>5, <1>14, <1>16, <3>1 DEF Unused
    <3> QED
      BY <1>12, <1>18, <2>2, <3>2
  <2> QED
    BY <2>1, <2>2
<1>20. PoolOK(d2, Current, f2)
  BY <1>1, <1>17, <1>18, <1>19 DEF PoolOK, FreeExact
<1>21. Given(desc, d2, h, size)
  BY <1>5, <1>13, <1>14, <1>16, OffsetFacts DEF Given
<1> QED
  BY <1>7, <1>8, <1>10, <1>11, <1>20, <1>21

LEMMA GetNew ==
  ASSUME PoolOK(desc, Current, free), NEW size \in Sizes, GetCDSBlock(size),
         free[GetBinIndex(size)] = <<>>
  PROVE  /\ PoolOK(desc', Current', free') /\ Given(desc, desc', NewBlock(size), size)
         /\ Current' \in Offsets
<1>1. PICK E : Tiled(desc, E) /\ Current \in {E, 0}
  BY DEF PoolOK
<1>2. FitsABin(size)
  BY DEF GetCDSBlock, CanGetCDSBlock
<1>3. PICK b : b = GetBinIndex(size)
  OBVIOUS
<1>4. PICK r : r = [Used |-> TRUE, SizeUsed |-> size, ActualSize |-> BinSizes[b], CRC |-> ZeroCRC]
  OBVIOUS
<1>5. /\ b \in Bins /\ r \in Desc /\ r.Used /\ r.SizeUsed = size
      /\ r.ActualSize = BinSizes[b] /\ r # NULL
  BY <1>2, <1>3, <1>4, NewDesc
<1>6. Current = E /\ E + DescSize + BinSizes[b] < PoolEnd
  BY <1>1, <1>3 DEF GetCDSBlock, CanGetCDSBlock
<1>7. NewBlock(size) = E
  BY <1>3, <1>6 DEF NewBlock
<1>8. PICK d2 : d2 = desc'
  OBVIOUS
<1>9. d2 = [desc EXCEPT ![E] = r]
  BY <1>3, <1>4, <1>7, <1>8 DEF GetCDSBlock
<1>10. PICK F : F = E + BinSizes[b] + DescSize
  OBVIOUS
<1>11. Current' = F /\ free' = free
  BY <1>3, <1>6, <1>10 DEF GetCDSBlock
<1>12. Tiled(d2, F)
  BY <1>1, <1>3, <1>5, <1>6, <1>9, <1>10, TiledGrown
<1>13. E \in Offsets /\ desc[E] = NULL
  BY <1>1, EndIsFree
<1>14. desc \in [Offsets -> Desc \cup {NULL}]
  BY <1>1 DEF Tiled
<1>15. /\ d2 \in [Offsets -> Desc \cup {NULL}] /\ d2[E] = r
       /\ \A o \in Offsets : o # E => d2[o] = desc[o]
  BY <1>5, <1>9, <1>13, <1>14
<1>16. \A c \in Bins : Unused(d2, c) = Unused(desc, c)
  BY <1>5, <1>13, <1>15 DEF Unused
<1>17. FreeExact(d2, free)
  BY <1>16 DEF PoolOK, FreeExact
<1>18. PoolOK(d2, F, free)
  BY <1>12, <1>17 DEF PoolOK
<1>19. Given(desc, d2, E, size)
  BY <1>5, <1>13, <1>15, OffsetFacts DEF Given
<1>20. F \in Offsets
  BY <1>12, EndIsFree
<1> QED
  BY <1>7, <1>8, <1>11, <1>18, <1>19, <1>20

LEMMA GetFacts ==
  ASSUME PoolOK(desc, Current, free), Current \in Offsets \cup {0}, NEW size \in Sizes,
         GetCDSBlock(size)
  PROVE  /\ PoolOK(desc', Current', free') /\ Given(desc, desc', NewBlock(size), size)
         /\ Current' \in Offsets \cup {0}
<1>1. CASE free[GetBinIndex(size)] # <<>>
  BY <1>1, GetFromList
<1>2. CASE free[GetBinIndex(size)] = <<>>
  BY <1>2, GetNew
<1> QED
  BY <1>1, <1>2

-----------------------------------------------------------------------------
(* The invariant *)

Holding == {"allocate", "update", "remove"}

(* The entry r has a block in use of its size; its block has been returned. *)
OwnBlock(d, r) ==
  /\ r.MemHandle \in Offsets /\ d[r.MemHandle] # NULL
  /\ d[r.MemHandle].Used /\ d[r.MemHandle].SizeUsed = r.Size
Returned(d, r) ==
  r.MemHandle \in Offsets /\ d[r.MemHandle] # NULL /\ ~d[r.MemHandle].Used

Apart(reg) ==
  \A i, j \in Entries : reg[i].Taken /\ reg[j].Taken /\ i # j
                        => reg[i].MemHandle # reg[j].MemHandle

Lost(d, reg) ==
  {o \in Offsets : /\ d[o] # NULL /\ d[o].Used
                   /\ \A i \in Entries : reg[i].Taken => reg[i].MemHandle # o}

(* Who holds the RegistryMutex, and what it is about to do.                *)
ControlOK ==
  /\ pc[ES] \in {"boot", "begin", "end", "registry", "idle", "remove"}
  /\ \A a \in Apps : pc[a] \in {"down", "idle", "allocate", "update", "copy"}
  /\ ~Running => \A a \in Apps : pc[a] = "down"
  /\ \A x \in Actors : pc[x] \in Holding <=> RegistryMutex = x
  /\ \A x \in Actors : pc[x] \in Holding => loc[x].idx \in Entries
  /\ \A a \in Apps : pc[a] \in {"allocate", "update"} =>
                       loc[a].size \in Sizes /\ loc[a].name \in Names

(* What survives a reset, if the fields say that it is valid.              *)
Recoverable(d, reg, n) ==
  /\ \E E : Tiled(d, E)
  /\ \A i \in Entries : reg[i].Taken => OwnBlock(d, reg[i])
  /\ Apart(reg)
  /\ Cardinality(Lost(d, reg)) <= n

StartOK ==
  /\ ~Running => \A i \in Entries : ~Registry[i].Taken
  /\ pc[ES] \in {"begin", "end"} => ValidityField # "both"
  /\ pc[ES] \in {"begin", "end", "registry"} => desc = [o \in Offsets |-> NULL]
  /\ pc[ES] = "registry" =>
       ValidityField = "both" /\ Current = PoolStart /\ free = [b \in Bins |-> <<>>]
  /\ pc[ES] = "boot" /\ ValidityField = "both" =>
       savedRegSize = MaxEntries /\ Recoverable(desc, savedRegistry, resets)

(* Nobody is about to save entry i, or to move its block.                  *)
Written(i) == \A x \in Actors : pc[x] = "update" => loc[x].idx # i

RunOK ==
  /\ ValidityField = "both" /\ savedRegSize = MaxEntries /\ MaxNumRegEntries = MaxEntries
  /\ PoolOK(desc, Current, free)
  /\ \A i \in Settled : OwnBlock(desc, Registry[i])
  /\ Apart(Registry)
  /\ \A x \in Actors : pc[x] \in {"allocate", "remove"} /\ Registry[loc[x].idx].Taken
                       => Returned(desc, Registry[loc[x].idx])
  /\ \A i \in Entries : Written(i) => savedRegistry[i] = Registry[i]
  /\ Cardinality(Lost(desc, Registry)) <= resets

PoolInv == TypeOK /\ ControlOK /\ StartOK /\ (Running => RunOK)

(* A registration that has returned its old block to get one of another    *)
(* size finds one: CFE_ES_RegisterCDSEx has no way back if it does not.     *)
Roomy ==
  \A a \in Apps : pc[a] = "allocate" /\ Registry[loc[a].idx].Taken
                  => CanGetCDSBlock(loc[a].size)

(* No reset falls where the code does not recover from it.                 *)
NoWindows == Windows = {}

-----------------------------------------------------------------------------
(* Small facts the steps share *)

LocRec == [name : Names \cup {NoName}, size : Sizes \cup {0},
           idx : Entries \cup {NotFound}, data : Data \cup {Zero}]

LEMMA Records ==
  /\ NoLoc \in LocRec /\ NoLoc.idx = NotFound /\ FreeEntry \in RegRec /\ ~FreeEntry.Taken
  /\ \A i \in Entries : i \in Nat /\ i # NotFound /\ i < MaxEntries
BY Constants DEF NoLoc, LocRec, FreeEntry, RegRec, NotFound, Entries

LEMMA GotoFacts ==
  ASSUME TypeOK, NEW x \in Actors, NEW step \in Steps, NEW l \in LocRec, Goto(x, step, l)
  PROVE  /\ pc' \in [Actors -> Steps] /\ loc' \in [Actors -> LocRec]
         /\ pc'[x] = step /\ loc'[x] = l
         /\ \A y \in Actors : y # x => pc'[y] = pc[y] /\ loc'[y] = loc[y]
BY DEF TypeOK, Goto, LocRec

LEMMA LostFinite ==
  ASSUME NEW d, NEW reg
  PROVE  IsFiniteSet(Lost(d, reg)) /\ Cardinality(Lost(d, reg)) \in Nat
<1>1. IsFiniteSet(Offsets)
  BY Constants, FS_Interval DEF Offsets
<1>2. Lost(d, reg) \subseteq Offsets
  BY DEF Lost
<1>3. IsFiniteSet(Lost(d, reg))
  BY <1>1, <1>2, FS_Subset
<1> QED
  BY <1>3, FS_CardinalityType

LEMMA FewerLost ==
  ASSUME NEW d, NEW reg, NEW d2, NEW reg2, Lost(d2, reg2) \subseteq Lost(d, reg),
         NEW n \in Nat, Cardinality(Lost(d, reg)) <= n
  PROVE  Cardinality(Lost(d2, reg2)) <= n
<1>1. /\ IsFiniteSet(Lost(d, reg)) /\ Cardinality(Lost(d, reg)) \in Nat
      /\ Cardinality(Lost(d2, reg2)) \in Nat
  BY LostFinite
<1>2. Cardinality(Lost(d2, reg2)) <= Cardinality(Lost(d, reg))
  BY <1>1, FS_Subset
<1> QED
  BY <1>1, <1>2

(* A store just cleared.                                                   *)
LEMMA Cleared ==
  ASSUME NEW d, d = [o \in Offsets |-> NULL]
  PROVE  /\ Tiled(d, PoolStart) /\ FreeExact(d, [b \in Bins |-> <<>>])
         /\ PoolOK(d, PoolStart, [b \in Bins |-> <<>>])
         /\ \A reg, n : n \in Nat => Cardinality(Lost(d, reg)) <= n
<1>1. Tiled(d, PoolStart)
  BY Constants, OffsetFacts DEF Tiled
<1>2. <<>> \in Seq(Offsets) /\ Elems(<<>>) = {} /\ Once(<<>>)
  BY DEF Elems, Once
<1>3. \A b \in Bins : Unused(d, b) = {}
  BY DEF Unused
<1>4. FreeExact(d, [b \in Bins |-> <<>>])
  BY <1>2, <1>3 DEF FreeExact
<1>5. ASSUME NEW reg, NEW n, n \in Nat PROVE Cardinality(Lost(d, reg)) <= n
  <2>1. Lost(d, reg) = {}
    BY DEF Lost
  <2>2. Cardinality(Lost(d, reg)) = 0
    BY <2>1, FS_EmptySet
  <2> QED
    BY <1>5, <2>2
<1> QED
  BY <1>1, <1>4, <1>5 DEF PoolOK

-----------------------------------------------------------------------------
(* Start-up *)

(* ES starts alone.                                                        *)
LEMMA StartControl ==
  ASSUME PoolInv, ~Running, NEW step \in {"begin", "end", "registry", "idle"},
         Goto(ES, step, NoLoc), RegistryMutex' = RegistryMutex
  PROVE  /\ ControlOK' /\ pc'[ES] = step
         /\ pc' \in [Actors -> Steps] /\ loc' \in [Actors -> LocRec]
         /\ \A x \in Actors : pc'[x] \notin Holding
<1>1. TypeOK /\ ControlOK
  BY DEF PoolInv
<1>2. step \in Steps
  BY DEF Steps
<1>3. /\ pc' \in [Actors -> Steps] /\ loc' \in [Actors -> LocRec]
      /\ pc'[ES] = step /\ loc'[ES] = NoLoc
      /\ \A y \in Actors : y # ES => pc'[y] = pc[y] /\ loc'[y] = loc[y]
  BY <1>1, <1>2, GotoFacts, Records, Constants
<1>4. \A a \in Apps : a \in Actors /\ a # ES /\ pc[a] = "down" /\ pc'[a] = "down"
  BY <1>1, <1>3, Constants DEF ControlOK
<1>5. \A x \in Actors : x = ES \/ x \in Apps
  BY Constants
<1>6. \A x \in Actors : pc'[x] \notin Holding
  BY <1>3, <1>4, <1>5 DEF Holding
<1>7. \A x \in Actors : pc[x] \notin Holding
  BY <1>4, <1>5 DEF Holding, Running
<1>8. \A x \in Actors : RegistryMutex' # x
  BY <1>1, <1>7 DEF ControlOK
<1>9. ControlOK'
  BY <1>3, <1>4, <1>6, <1>8 DEF ControlOK, Running
<1> QED
  BY <1>3, <1>6, <1>9

LEMMA InitClearKeeps ==
  ASSUME PoolInv, InitClear
  PROVE  PoolInv'
<1>1. TypeOK /\ StartOK /\ ~Running /\ Goto(ES, "begin", NoLoc)
  BY DEF PoolInv, InitClear, Running
<1>2. /\ ControlOK' /\ pc'[ES] = "begin"
      /\ pc' \in [Actors -> Steps] /\ loc' \in [Actors -> LocRec]
  BY <1>1, StartControl DEF InitClear
<1>3. TypeOK'
  BY <1>1, <1>2, Records DEF TypeOK, InitClear, LocRec
<1>4. StartOK'
  BY <1>1, <1>2 DEF StartOK, InitClear, Running
<1> QED
  BY <1>2, <1>3, <1>4 DEF PoolInv, Running

LEMMA InitBeginKeeps ==
  ASSUME PoolInv, InitBegin
  PROVE  PoolInv'
<1>1. TypeOK /\ StartOK /\ ~Running /\ Goto(ES, "end", NoLoc)
  BY DEF PoolInv, InitBegin, Running
<1>2. /\ ControlOK' /\ pc'[ES] = "end"
      /\ pc' \in [Actors -> Steps] /\ loc' \in [Actors -> LocRec]
  BY <1>1, StartControl DEF InitBegin
<1>3. TypeOK'
  BY <1>1, <1>2 DEF TypeOK, InitBegin, LocRec, poolVars
<1>4. StartOK'
  BY <1>1, <1>2 DEF StartOK, InitBegin, Running, poolVars
<1> QED
  BY <1>2, <1>3, <1>4 DEF PoolInv, Running

LEMMA InitEndKeeps ==
  ASSUME PoolInv, InitEnd
  PROVE  PoolInv'
<1>1. TypeOK /\ StartOK /\ ~Running /\ Goto(ES, "registry", NoLoc)
  BY DEF PoolInv, InitEnd, Running
<1>2. /\ ControlOK' /\ pc'[ES] = "registry"
      /\ pc' \in [Actors -> Steps] /\ loc' \in [Actors -> LocRec]
  BY <1>1, StartControl DEF InitEnd
<1>3. TypeOK'
  <2>1. PoolStart \in Offsets /\ [b \in Bins |-> <<>>] \in [Bins -> Seq(Offsets)]
    BY OffsetFacts, Constants
  <2> QED
    BY <1>1, <1>2, <2>1 DEF TypeOK, InitEnd, LocRec
<1>4. StartOK'
  BY <1>1, <1>2 DEF StartOK, InitEnd, Running
<1> QED
  BY <1>2, <1>3, <1>4 DEF PoolInv, Running

LEMMA InitCDSRegistryKeeps ==
  ASSUME PoolInv, InitCDSRegistry
  PROVE  PoolInv'
<1>1. TypeOK /\ StartOK /\ ~Running /\ Goto(ES, "idle", NoLoc)
  BY DEF PoolInv, InitCDSRegistry, Running
<1>2. /\ ControlOK' /\ pc'[ES] = "idle"
      /\ pc' \in [Actors -> Steps] /\ loc' \in [Actors -> LocRec]
      /\ \A x \in Actors : pc'[x] \notin Holding
  BY <1>1, StartControl DEF InitCDSRegistry
<1>3. TypeOK'
  BY <1>1, <1>2, Records DEF TypeOK, InitCDSRegistry, LocRec, poolVars
<1>4. StartOK'
  BY <1>1, <1>2 DEF StartOK, InitCDSRegistry, Running
<1>5. /\ \A i \in Entries : Registry'[i] = FreeEntry /\ savedRegistry'[i] = FreeEntry
      /\ \A i \in Entries : ~Registry'[i].Taken
  BY Records DEF InitCDSRegistry
<1>6. PICK d : d = desc /\ d = [o \in Offsets |-> NULL]
  BY <1>1 DEF StartOK, InitCDSRegistry
<1>7. /\ desc' = d /\ Current' = PoolStart /\ free' = [b \in Bins |-> <<>>]
      /\ ValidityField' = "both" /\ savedRegSize' = MaxEntries
      /\ MaxNumRegEntries' = MaxEntries /\ resets' \in Nat
  BY <1>1, <1>6, Constants DEF StartOK, InitCDSRegistry, poolVars, TypeOK
<1>8. PoolOK(d, PoolStart, [b \in Bins |-> <<>>])
  BY <1>6, Cleared
<1>9. Cardinality(Lost(d, Registry')) <= resets'
  BY <1>6, <1>7, Cleared
<1>10. RunOK'
  <2>1. PoolOK(desc, Current, free)'
    BY <1>7, <1>8
  <2>2. Settled' = {}
    BY <1>5 DEF Settled, TakenEntries
  <2>3. Apart(Registry)'
    BY <1>5 DEF Apart
  <2>4. \A x \in Actors : pc'[x] \notin {"allocate", "remove"}
    BY <1>2 DEF Holding
  <2>5. Cardinality(Lost(desc, Registry))' <= resets'
    BY <1>7, <1>9
  <2> QED
    BY <1>5, <1>7, <2>1, <2>2, <2>3, <2>4, <2>5 DEF RunOK
<1> QED
  BY <1>2, <1>3, <1>4, <1>10 DEF PoolInv

LEMMA RebuildKeeps ==
  ASSUME PoolInv, Rebuild
  PROVE  PoolInv'
<1>1. TypeOK /\ StartOK /\ ~Running /\ Goto(ES, "idle", NoLoc)
  BY DEF PoolInv, Rebuild, Running
<1>2. /\ ControlOK' /\ pc'[ES] = "idle"
      /\ pc' \in [Actors -> Steps] /\ loc' \in [Actors -> LocRec]
      /\ \A x \in Actors : pc'[x] \notin Holding
  BY <1>1, StartControl DEF Rebuild
<1>3. /\ ValidityField = "both" /\ savedRegSize = MaxEntries
      /\ Recoverable(desc, savedRegistry, resets)
  BY <1>1 DEF StartOK, Rebuild
<1>4. Registry' = savedRegistry
  <2>1. Registry' = [i \in Entries |-> savedRegistry[i]]
    BY <1>3, Records DEF Rebuild
  <2> QED
    BY <1>1, <2>1 DEF TypeOK
<1>5. PICK E : Tiled(desc, E)
  BY <1>3 DEF Recoverable
<1>6. PICK fr, cur : fr = Rebuilt(BlocksFrom(PoolStart)) /\ cur = RebuiltCurrent(BlocksFrom(PoolStart))
  OBVIOUS
<1>7. FreeExact(desc, fr) /\ cur \in {E, 0}
  BY <1>5, <1>6, RebuildExact
<1>8. /\ free' = fr /\ Current' = cur /\ desc' = desc /\ savedRegistry' = savedRegistry
      /\ ValidityField' = "both" /\ savedRegSize' = MaxEntries
      /\ MaxNumRegEntries' = MaxEntries /\ resets' = resets
  BY <1>3, <1>6 DEF Rebuild, savedVars
<1>9. TypeOK'
  <2>1. fr \in [Bins -> Seq(Offsets)] /\ cur \in Offsets \cup {0}
    BY <1>5, <1>7, EndIsFree DEF FreeExact
  <2>2. /\ data' = data /\ RegistryMutex' = RegistryMutex /\ PoolMutex' = PoolMutex
        /\ handle' = handle
    BY DEF Rebuild, savedVars
  <2> QED
    BY <1>1, <1>2, <1>4, <1>8, <2>1, <2>2 DEF TypeOK, LocRec
<1>10. StartOK'
  BY <1>2 DEF StartOK, Running
<1>11. RunOK'
  <2>1. PoolOK(desc, cur, fr)
    BY <1>5, <1>7 DEF PoolOK
  <2>2. PoolOK(desc, Current, free)'
    BY <1>8, <2>1
  <2>3. \A i \in Settled' : OwnBlock(desc, Registry[i])'
    BY <1>3, <1>4, <1>8 DEF Settled, TakenEntries, Recoverable
  <2>4. Apart(Registry)'
    BY <1>3, <1>4 DEF Recoverable
  <2>5. \A x \in Actors : pc'[x] \notin {"allocate", "remove"}
    BY <1>2 DEF Holding
  <2>6. Cardinality(Lost(desc, Registry))' <= resets'
    BY <1>3, <1>4, <1>8 DEF Recoverable
  <2> QED
    BY <1>4, <1>8, <2>2, <2>3, <2>4, <2>5, <2>6 DEF RunOK
<1> QED
  BY <1>2, <1>9, <1>10, <1>11 DEF PoolInv

-----------------------------------------------------------------------------
(* Who holds the RegistryMutex *)

LEMMA ActorKinds ==
  /\ \A x \in Actors : x = ES \/ x \in Apps
  /\ \A a \in Apps : a \in Actors /\ a # ES
BY Constants

LEMMA TakeMutex ==
  ASSUME PoolInv, Running, NEW x \in Actors, NEW step, NEW l \in LocRec,
         RegistryMutex = NULL, RegistryMutex' = x, Goto(x, step, l), l.idx \in Entries,
         \/ x = ES /\ step = "remove"
         \/ x \in Apps /\ step = "allocate" /\ l.size \in Sizes /\ l.name \in Names
  PROVE  /\ ControlOK' /\ Running'
         /\ pc' \in [Actors -> Steps] /\ loc' \in [Actors -> LocRec]
         /\ pc'[x] = step /\ loc'[x] = l /\ \A y \in Actors : pc[y] \notin Holding
         /\ \A y \in Actors : y # x => pc'[y] \notin Holding
<1>1. TypeOK /\ ControlOK
  BY DEF PoolInv
<1>2. step \in Steps /\ step \in Holding
  BY DEF Steps, Holding
<1>3. /\ pc' \in [Actors -> Steps] /\ loc' \in [Actors -> LocRec]
      /\ pc'[x] = step /\ loc'[x] = l
      /\ \A y \in Actors : y # x => pc'[y] = pc[y] /\ loc'[y] = loc[y]
  BY <1>1, <1>2, GotoFacts
<1>4. \A y \in Actors : pc[y] \notin Holding /\ y # NULL
  BY <1>1, Constants DEF ControlOK
<1>5. \A y \in Actors : y # x => pc'[y] \notin Holding /\ RegistryMutex' # y
  BY <1>3, <1>4
<1>6. /\ \A y \in Actors : pc'[y] \in Holding <=> RegistryMutex' = y
      /\ \A y \in Actors : pc'[y] \in Holding => loc'[y].idx \in Entries
  BY <1>2, <1>3, <1>5
<1>7. /\ pc'[ES] \in {"boot", "begin", "end", "registry", "idle", "remove"}
      /\ pc'[ES] \notin {"boot", "begin", "end", "registry"}
  <2>1. pc[ES] \in {"boot", "begin", "end", "registry", "idle", "remove"}
        /\ pc[ES] \notin {"boot", "begin", "end", "registry"}
    BY <1>1 DEF ControlOK, Running
  <2>2. ES \in Actors
    BY Constants
  <2>3. CASE x = ES
    BY <1>3, <2>1, <2>3, ActorKinds
  <2>4. CASE x # ES
    BY <1>3, <2>1, <2>2, <2>4
  <2> QED
    BY <2>3, <2>4
<1>8. ASSUME NEW a \in Apps
      PROVE  /\ pc'[a] \in {"down", "idle", "allocate", "update", "copy"}
             /\ pc'[a] \in {"allocate", "update"} =>
                  loc'[a].size \in Sizes /\ loc'[a].name \in Names
  <2>1. CASE x = a
    BY <1>3, <2>1, ActorKinds
  <2>2. CASE x # a
    <3>1. pc'[a] = pc[a] /\ pc[a] \notin Holding
      BY <1>3, <1>4, <2>2, ActorKinds
    <3>2. pc[a] \in {"down", "idle", "allocate", "update", "copy"}
      BY <1>1 DEF ControlOK
    <3> QED
      BY <3>1, <3>2 DEF Holding
  <2> QED
    BY <2>1, <2>2
<1>9. Running'
  BY <1>7 DEF Running
<1>10. ControlOK'
  BY <1>6, <1>7, <1>8, <1>9 DEF ControlOK
<1> QED
  BY <1>3, <1>4, <1>5, <1>9, <1>10

LEMMA GiveMutex ==
  ASSUME PoolInv, Running, NEW x \in Actors, pc[x] \in Holding, RegistryMutex' = NULL,
         Goto(x, "idle", NoLoc)
  PROVE  /\ ControlOK' /\ Running'
         /\ pc' \in [Actors -> Steps] /\ loc' \in [Actors -> LocRec]
         /\ \A y \in Actors : pc'[y] \notin Holding
         /\ \A y \in Actors : y # x => pc[y] \notin Holding
         /\ loc[x].idx \in Entries
<1>1. TypeOK /\ ControlOK
  BY DEF PoolInv
<1>2. "idle" \in Steps /\ "idle" \notin Holding
  BY DEF Steps, Holding
<1>3. /\ pc' \in [Actors -> Steps] /\ loc' \in [Actors -> LocRec]
      /\ pc'[x] = "idle"
      /\ \A y \in Actors : y # x => pc'[y] = pc[y] /\ loc'[y] = loc[y]
  BY <1>1, <1>2, GotoFacts, Records
<1>4. /\ \A y \in Actors : y # NULL
      /\ \A y \in Actors : y # x => pc[y] \notin Holding
      /\ loc[x].idx \in Entries
  BY <1>1, Constants DEF ControlOK
<1>5. \A y \in Actors : pc'[y] \notin Holding /\ RegistryMutex' # y
  BY <1>2, <1>3, <1>4
<1>6. /\ pc'[ES] \in {"boot", "begin", "end", "registry", "idle", "remove"}
      /\ pc'[ES] \notin {"boot", "begin", "end", "registry"}
  <2>1. pc[ES] \in {"boot", "begin", "end", "registry", "idle", "remove"}
        /\ pc[ES] \notin {"boot", "begin", "end", "registry"}
    BY <1>1 DEF ControlOK, Running
  <2>2. ES \in Actors
    BY Constants
  <2> QED
    BY <1>3, <2>1, <2>2
<1>7. ASSUME NEW a \in Apps PROVE pc'[a] \in {"down", "idle", "allocate", "update", "copy"}
  <2>1. a \in Actors /\ pc[a] \in {"down", "idle", "allocate", "update", "copy"}
    BY <1>1, ActorKinds DEF ControlOK
  <2> QED
    BY <1>3, <2>1
<1>8. \A a \in Apps : pc'[a] \notin {"allocate", "update"}
  BY <1>5, ActorKinds DEF Holding
<1>9. Running'
  BY <1>6 DEF Running
<1>10. ControlOK'
  BY <1>5, <1>6, <1>7, <1>8, <1>9 DEF ControlOK
<1> QED
  BY <1>3, <1>4, <1>5, <1>9, <1>10

(* An application that does not hold the mutex moves.                      *)
LEMMA StayOut ==
  ASSUME PoolInv, Running, NEW a \in Apps, pc[a] \notin Holding,
         NEW step \in {"down", "idle", "copy"}, NEW l \in LocRec, Goto(a, step, l),
         RegistryMutex' = RegistryMutex
  PROVE  /\ ControlOK' /\ Running'
         /\ pc' \in [Actors -> Steps] /\ loc' \in [Actors -> LocRec]
         /\ \A y \in Actors : pc'[y] \in Holding <=> pc[y] \in Holding
         /\ \A y \in Actors : pc[y] \in Holding => pc'[y] = pc[y] /\ loc'[y] = loc[y]
<1>1. TypeOK /\ ControlOK
  BY DEF PoolInv
<1>2. step \in Steps /\ step \notin Holding
  BY DEF Steps, Holding
<1>3. /\ pc' \in [Actors -> Steps] /\ loc' \in [Actors -> LocRec]
      /\ pc'[a] = step
      /\ \A y \in Actors : y # a => pc'[y] = pc[y] /\ loc'[y] = loc[y]
  BY <1>1, <1>2, GotoFacts, ActorKinds
<1>4. /\ \A y \in Actors : pc'[y] \in Holding <=> pc[y] \in Holding
      /\ \A y \in Actors : pc[y] \in Holding => pc'[y] = pc[y] /\ loc'[y] = loc[y]
  BY <1>2, <1>3
<1>5. pc'[ES] = pc[ES]
  BY <1>3, Constants, ActorKinds
<1>6. Running'
  BY <1>5 DEF Running
<1>7. /\ \A y \in Actors : pc'[y] \in Holding <=> RegistryMutex' = y
      /\ \A y \in Actors : pc'[y] \in Holding => loc'[y].idx \in Entries
  BY <1>1, <1>4 DEF ControlOK
<1>8. ASSUME NEW b \in Apps
      PROVE  /\ pc'[b] \in {"down", "idle", "allocate", "update", "copy"}
             /\ pc'[b] \in {"allocate", "update"} =>
                  loc'[b].size \in Sizes /\ loc'[b].name \in Names
  <2>1. /\ pc[b] \in {"down", "idle", "allocate", "update", "copy"}
        /\ pc[b] \in {"allocate", "update"} => loc[b].size \in Sizes /\ loc[b].name \in Names
    BY <1>1 DEF ControlOK
  <2>2. CASE b = a
    BY <1>3, <2>2
  <2>3. CASE b # a
    BY <1>3, <2>1, <2>3, ActorKinds
  <2> QED
    BY <2>2, <2>3
<1>9. ControlOK'
  BY <1>1, <1>5, <1>6, <1>7, <1>8 DEF ControlOK
<1> QED
  BY <1>3, <1>4, <1>6, <1>9

-----------------------------------------------------------------------------
(* Steps of a running system that leave registry and pool as they are *)

LEMMA RunStart ==
  ASSUME Running'
  PROVE  StartOK'
BY DEF StartOK, Running

(* The descriptors differ in their CRCs at most.                           *)
Alike(d, d2) ==
  \A o \in Offsets : /\ d2[o] = NULL <=> d[o] = NULL
                     /\ d[o] # NULL => d2[o].Used = d[o].Used /\ d2[o].SizeUsed = d[o].SizeUsed

LEMMA QuietRun ==
  ASSUME RunOK, ControlOK, PoolOK(desc', Current', free'), Alike(desc, desc'),
         \A y \in Actors : pc'[y] \in Holding <=> pc[y] \in Holding,
         \A y \in Actors : pc[y] \in Holding => pc'[y] = pc[y] /\ loc'[y] = loc[y],
         resets \in Nat,
         UNCHANGED <<ValidityField, savedRegSize, savedRegistry, MaxNumRegEntries, Registry,
                     resets>>
  PROVE  RunOK'
<1>1. PICK d, d2 : d = desc /\ d2 = desc'
  OBVIOUS
<1>2. PICK reg : reg = Registry
  OBVIOUS
<1>3. \A r : OwnBlock(d, r) => OwnBlock(d2, r)
  BY <1>1 DEF OwnBlock, Alike
<1>4. \A r : Returned(d, r) => Returned(d2, r)
  BY <1>1 DEF Returned, Alike
<1>5. /\ \A y \in Actors : pc'[y] \in {"allocate", "remove"} <=> pc[y] \in {"allocate", "remove"}
      /\ \A y \in Actors : pc'[y] = "update" <=> pc[y] = "update"
  BY DEF Holding
<1>6. \A y \in Actors : pc[y] \in {"allocate", "remove", "update"} => loc'[y] = loc[y]
  BY DEF Holding
<1>7. Settled' = Settled
  BY <1>5, <1>6 DEF Settled, TakenEntries
<1>8. \A i \in Entries : Written(i)' <=> Written(i)
  BY <1>5, <1>6 DEF Written
<1>9. Lost(d2, reg) \subseteq Lost(d, reg)
  BY <1>1 DEF Lost, Alike
<1>10. Cardinality(Lost(d, reg)) <= resets
  BY <1>1, <1>2 DEF RunOK
<1>11. Cardinality(Lost(d2, reg)) <= resets
  BY <1>9, <1>10, FewerLost
<1>12. \A i \in Settled' : OwnBlock(d2, Registry'[i])
  BY <1>1, <1>3, <1>7 DEF RunOK
<1>13. \A x \in Actors : pc'[x] \in {"allocate", "remove"} /\ Registry'[loc'[x].idx].Taken
                         => Returned(d2, Registry'[loc'[x].idx])
  BY <1>1, <1>4, <1>5, <1>6 DEF RunOK
<1>14. \A i \in Entries : Written(i)' => savedRegistry'[i] = Registry'[i]
  BY <1>8 DEF RunOK
<1>15. /\ ValidityField' = "both" /\ savedRegSize' = MaxEntries /\ MaxNumRegEntries' = MaxEntries
       /\ Apart(Registry)'
  BY DEF RunOK
<1>16. Cardinality(Lost(desc, Registry))' <= resets'
  BY <1>1, <1>2, <1>11
<1> QED
  BY <1>1, <1>12, <1>13, <1>14, <1>15, <1>16 DEF RunOK

LEMMA RunFacts ==
  ASSUME PoolInv, Running
  PROVE  TypeOK /\ ControlOK /\ RunOK /\ PoolOK(desc, Current, free) /\ resets \in Nat
         /\ Alike(desc, desc) /\ MaxNumRegEntries = MaxEntries
<1>1. TypeOK /\ ControlOK /\ RunOK
  BY DEF PoolInv
<1>2. resets \in Nat
  BY <1>1, Constants DEF TypeOK
<1> QED
  BY <1>1, <1>2 DEF RunOK, Alike

LEMMA StartAppKeeps ==
  ASSUME PoolInv, NEW a \in Apps, StartApp(a)
  PROVE  PoolInv'
<1>1. /\ Running /\ pc[a] = "down" /\ Goto(a, "idle", NoLoc) /\ RegistryMutex' = RegistryMutex
      /\ desc' = desc /\ Current' = Current /\ free' = free
      /\ UNCHANGED <<ValidityField, savedRegSize, savedRegistry, MaxNumRegEntries, Registry,
                     resets, data, PoolMutex, handle>>
  BY DEF StartApp, Running, savedVars
<1>2. TypeOK /\ ControlOK /\ RunOK /\ PoolOK(desc, Current, free) /\ resets \in Nat
      /\ Alike(desc, desc)
  BY <1>1, RunFacts
<1>3. pc[a] \notin Holding
  BY <1>1 DEF Holding
<1>4. /\ ControlOK' /\ Running'
      /\ pc' \in [Actors -> Steps] /\ loc' \in [Actors -> LocRec]
      /\ \A y \in Actors : pc'[y] \in Holding <=> pc[y] \in Holding
      /\ \A y \in Actors : pc[y] \in Holding => pc'[y] = pc[y] /\ loc'[y] = loc[y]
  BY <1>1, <1>3, StayOut, Records
<1>5. TypeOK'
  BY <1>1, <1>2, <1>4 DEF TypeOK, LocRec
<1>6. PoolOK(desc', Current', free') /\ Alike(desc, desc')
  BY <1>1, <1>2
<1>7. RunOK'
  BY <1>1, <1>2, <1>4, <1>6, QuietRun
<1> QED
  BY <1>4, <1>5, <1>7, RunStart DEF PoolInv

LEMMA ExitAppKeeps ==
  ASSUME PoolInv, NEW a \in Apps, ExitApp(a)
  PROVE  PoolInv'
<1>1. /\ pc[a] = "idle" /\ Goto(a, "down", NoLoc) /\ RegistryMutex' = RegistryMutex
      /\ desc' = desc /\ Current' = Current /\ free' = free
      /\ UNCHANGED <<ValidityField, savedRegSize, savedRegistry, MaxNumRegEntries, Registry,
                     resets, data, PoolMutex>>
  BY DEF ExitApp, savedVars
<1>2. Running
  BY <1>1 DEF PoolInv, ControlOK
<1>3. TypeOK /\ ControlOK /\ RunOK /\ PoolOK(desc, Current, free) /\ resets \in Nat
      /\ Alike(desc, desc)
  BY <1>2, RunFacts
<1>4. pc[a] \notin Holding
  BY <1>1 DEF Holding
<1>5. /\ ControlOK' /\ Running'
      /\ pc' \in [Actors -> Steps] /\ loc' \in [Actors -> LocRec]
      /\ \A y \in Actors : pc'[y] \in Holding <=> pc[y] \in Holding
      /\ \A y \in Actors : pc[y] \in Holding => pc'[y] = pc[y] /\ loc'[y] = loc[y]
  BY <1>1, <1>2, <1>4, StayOut, Records
<1>6. handle' \in [Names -> Entries \cup {NotFound}]
  BY <1>3 DEF ExitApp, TypeOK
<1>7. TypeOK'
  BY <1>1, <1>3, <1>5, <1>6 DEF TypeOK, LocRec
<1>8. PoolOK(desc', Current', free') /\ Alike(desc, desc')
  BY <1>1, <1>3
<1>9. RunOK'
  BY <1>1, <1>3, <1>5, <1>8, QuietRun
<1> QED
  BY <1>5, <1>7, <1>9, RunStart DEF PoolInv

LEMMA CopyDoneKeeps ==
  ASSUME PoolInv, NEW a \in Apps, CopyDone(a)
  PROVE  PoolInv'
<1>1. /\ pc[a] = "copy" /\ Goto(a, "idle", NoLoc) /\ RegistryMutex' = RegistryMutex
      /\ desc' = desc /\ Current' = Current /\ free' = free /\ PoolMutex' = NULL
      /\ UNCHANGED <<ValidityField, savedRegSize, savedRegistry, MaxNumRegEntries, Registry,
                     resets, handle>>
  BY DEF CopyDone, poolVars
<1>2. Running
  BY <1>1 DEF PoolInv, ControlOK
<1>3. TypeOK /\ ControlOK /\ RunOK /\ PoolOK(desc, Current, free) /\ resets \in Nat
      /\ Alike(desc, desc)
  BY <1>2, RunFacts
<1>4. pc[a] \notin Holding
  BY <1>1 DEF Holding
<1>5. /\ ControlOK' /\ Running'
      /\ pc' \in [Actors -> Steps] /\ loc' \in [Actors -> LocRec]
      /\ \A y \in Actors : pc'[y] \in Holding <=> pc[y] \in Holding
      /\ \A y \in Actors : pc[y] \in Holding => pc'[y] = pc[y] /\ loc'[y] = loc[y]
  BY <1>1, <1>2, <1>4, StayOut, Records
<1>6. data' \in [Offsets -> Data \cup {Zero, Torn}]
  <2>1. loc[a].data \in Data \cup {Zero} /\ data \in [Offsets -> Data \cup {Zero, Torn}]
    BY <1>3, ActorKinds DEF TypeOK
  <2> QED
    BY <2>1 DEF CopyDone
<1>7. TypeOK'
  BY <1>1, <1>3, <1>5, <1>6 DEF TypeOK, LocRec
<1>8. PoolOK(desc', Current', free') /\ Alike(desc, desc')
  BY <1>1, <1>3
<1>9. RunOK'
  BY <1>1, <1>3, <1>5, <1>8, QuietRun
<1> QED
  BY <1>5, <1>7, <1>9, RunStart DEF PoolInv

(* The CRC of a descriptor is set.                                         *)
LEMMA SetCRC ==
  ASSUME PoolOK(desc, Current, free), NEW h \in Offsets, desc[h] # NULL,
         NEW c \in {<<v>> : v \in Data} \cup {ZeroCRC}, desc' = [desc EXCEPT ![h].CRC = c],
         Current' = Current, free' = free
  PROVE  /\ PoolOK(desc', Current', free') /\ Alike(desc, desc')
         /\ desc' \in [Offsets -> Desc \cup {NULL}]
<1>1. PICK E : Tiled(desc, E) /\ Current \in {E, 0}
  BY DEF PoolOK
<1>2. /\ desc \in [Offsets -> Desc \cup {NULL}] /\ desc[h] \in Desc
      /\ desc[h].ActualSize = BinSizes[GetBinIndex(desc[h].SizeUsed)]
  BY <1>1 DEF Tiled
<1>3. PICK r : r = [desc[h] EXCEPT !.CRC = c]
  OBVIOUS
<1>4. /\ r \in Desc /\ r.Used = desc[h].Used /\ r.ActualSize = desc[h].ActualSize
      /\ r.SizeUsed = desc[h].SizeUsed
  BY <1>2, <1>3 DEF Desc
<1>5. PICK d2 : d2 = desc'
  OBVIOUS
<1>6. d2 = [desc EXCEPT ![h] = r]
  BY <1>3, <1>5
<1>7. /\ d2 \in [Offsets -> Desc \cup {NULL}] /\ d2[h] = r /\ r # NULL
      /\ \A o \in Offsets : o # h => d2[o] = desc[o]
  BY <1>2, <1>4, <1>6, Constants
<1>8. Tiled(d2, E)
  <2>1. r.ActualSize = BinSizes[GetBinIndex(r.SizeUsed)]
    BY <1>2, <1>4
  <2> QED
    BY <1>1, <1>4, <1>6, <2>1, TiledSet
<1>9. \A b \in Bins : Unused(d2, b) = Unused(desc, b)
  BY <1>4, <1>7 DEF Unused
<1>10. FreeExact(d2, free)
  BY <1>9 DEF PoolOK, FreeExact
<1>11. PoolOK(d2, Current, free)
  BY <1>1, <1>8, <1>10 DEF PoolOK
<1>12. Alike(desc, d2)
  BY <1>4, <1>7 DEF Alike
<1> QED
  BY <1>5, <1>7, <1>11, <1>12

LEMMA CopyToCDSKeeps ==
  ASSUME PoolInv, NEW a \in Apps, NEW n \in Names, NEW d \in DataOf[n], CopyToCDS(a, n, d)
  PROVE  PoolInv'
<1>1. PICK h : h = Registry[handle[n]].MemHandle
  OBVIOUS
<1>2. PICK l : l = [NoLoc EXCEPT !.name = n, !.data = d]
  OBVIOUS
<1>3. /\ pc[a] = "idle" /\ handle[n] # NotFound /\ ValidBlock(h)
      /\ desc' = [desc EXCEPT ![h].CRC = CRC(d)]
      /\ data' = [data EXCEPT ![h] = IF data[h] = d THEN d ELSE Torn]
      /\ PoolMutex' = a /\ Goto(a, "copy", l) /\ RegistryMutex' = RegistryMutex
      /\ Current' = Current /\ free' = free
      /\ UNCHANGED <<ValidityField, savedRegSize, savedRegistry, MaxNumRegEntries, Registry,
                     resets, handle>>
  BY <1>1, <1>2 DEF CopyToCDS
<1>4. Running
  BY <1>3 DEF PoolInv, ControlOK
<1>5. TypeOK /\ ControlOK /\ RunOK /\ PoolOK(desc, Current, free) /\ resets \in Nat
  BY <1>4, RunFacts
<1>6. d \in Data
  BY DEF Data
<1>7. h \in Offsets /\ desc[h] # NULL
  <2>1. handle[n] \in Entries
    BY <1>3, <1>5 DEF TypeOK
  <2>2. h \in Offsets \cup {0}
    BY <1>1, <1>5, <2>1 DEF TypeOK, RegRec
  <2>3. h # 0
    BY <1>3, Constants DEF ValidBlock, HandleInRange
  <2> QED
    BY <1>3, <2>2, <2>3 DEF ValidBlock
<1>8. CRC(d) \in {<<v>> : v \in Data} \cup {ZeroCRC}
  BY <1>6 DEF CRC
<1>9. /\ PoolOK(desc', Current', free') /\ Alike(desc, desc')
      /\ desc' \in [Offsets -> Desc \cup {NULL}]
  BY <1>3, <1>5, <1>7, <1>8, SetCRC
<1>10. pc[a] \notin Holding
  BY <1>3 DEF Holding
<1>11. l \in LocRec
  BY <1>2, <1>6, Records DEF LocRec
<1>12. /\ ControlOK' /\ Running'
       /\ pc' \in [Actors -> Steps] /\ loc' \in [Actors -> LocRec]
       /\ \A y \in Actors : pc'[y] \in Holding <=> pc[y] \in Holding
       /\ \A y \in Actors : pc[y] \in Holding => pc'[y] = pc[y] /\ loc'[y] = loc[y]
  BY <1>3, <1>4, <1>10, <1>11, StayOut
<1>13. data' \in [Offsets -> Data \cup {Zero, Torn}]
  BY <1>3, <1>5, <1>6 DEF TypeOK
<1>14. PoolMutex' \in Actors
  BY <1>3, ActorKinds
<1>15. TypeOK'
  BY <1>3, <1>5, <1>9, <1>12, <1>13, <1>14 DEF TypeOK, LocRec
<1>16. RunOK'
  BY <1>3, <1>5, <1>9, <1>12, QuietRun
<1> QED
  BY <1>12, <1>15, <1>16, RunStart DEF PoolInv

-----------------------------------------------------------------------------
(* Registering, deleting *)

LEMMA FindFacts ==
  ASSUME NEW n, NEW i, i = Find(n), i # NotFound
  PROVE  i \in Entries /\ Registry[i].Taken /\ Registry[i].Name = n
<1>1. PICK S : S = {j \in Entries : Registry[j].Taken /\ Registry[j].Name = n}
  OBVIOUS
<1>2. S # {} /\ i = Least(S)
  BY <1>1 DEF Find
<1>3. S \subseteq Nat
  BY <1>1, Records
<1>4. Least(S) \in S
  BY <1>2, <1>3, LeastIs
<1> QED
  BY <1>1, <1>2, <1>4

LEMMA FreeEntryFacts ==
  ASSUME FreeEntries # {}, NEW i, i = Least(FreeEntries)
  PROVE  i \in Entries /\ ~Registry[i].Taken
<1>1. FreeEntries \subseteq Nat
  BY Records DEF FreeEntries
<1>2. Least(FreeEntries) \in FreeEntries
  BY <1>1, LeastIs
<1> QED
  BY <1>2 DEF FreeEntries

(* Nobody holds the mutex: every entry is settled and saved.               *)
LEMMA AllSettled ==
  ASSUME RunOK, \A y \in Actors : pc[y] \notin Holding
  PROVE  /\ \A i \in Entries : Registry[i].Taken => OwnBlock(desc, Registry[i])
         /\ \A i \in Entries : savedRegistry[i] = Registry[i]
<1>1. \A y \in Actors : pc[y] \notin {"allocate", "remove"} /\ pc[y] # "update"
  BY DEF Holding
<1>2. \A i \in Entries : Registry[i].Taken => i \in Settled
  BY <1>1 DEF Settled, TakenEntries
<1>3. \A i \in Entries : Written(i)
  BY <1>1 DEF Written
<1> QED
  BY <1>2, <1>3 DEF RunOK

(* x holds the mutex: every other entry is settled and saved.              *)
LEMMA OthersSettled ==
  ASSUME RunOK, NEW x \in Actors, \A y \in Actors : y # x => pc[y] \notin Holding
  PROVE  /\ \A i \in Entries : Registry[i].Taken /\ i # loc[x].idx => OwnBlock(desc, Registry[i])
         /\ \A i \in Entries : i # loc[x].idx => savedRegistry[i] = Registry[i]
         /\ pc[x] = "update" => \A i \in Entries : Registry[i].Taken => OwnBlock(desc, Registry[i])
         /\ pc[x] # "update" => \A i \in Entries : savedRegistry[i] = Registry[i]
<1>1. \A y \in Actors : y # x => pc[y] \notin {"allocate", "remove"} /\ pc[y] # "update"
  BY DEF Holding
<1>2. \A i \in Entries : Registry[i].Taken /\ i # loc[x].idx => i \in Settled
  BY <1>1 DEF Settled, TakenEntries
<1>3. \A i \in Entries : i # loc[x].idx => Written(i)
  BY <1>1 DEF Written
<1>4. pc[x] = "update" => \A i \in Entries : Registry[i].Taken => i \in Settled
  BY <1>1 DEF Settled, TakenEntries
<1>5. pc[x] # "update" => \A i \in Entries : Written(i)
  BY <1>1 DEF Written
<1> QED
  BY <1>2, <1>3, <1>4, <1>5 DEF RunOK

(* x takes the mutex for entry i, whose block, if it has one, it returns.  *)
LEMMA TakeRun ==
  ASSUME RunOK, NEW x \in Actors, NEW i \in Entries, NEW step \in {"allocate", "remove"},
         \A y \in Actors : pc[y] \notin Holding,
         \A y \in Actors : y # x => pc'[y] \notin Holding,
         pc'[x] = step, loc'[x].idx = i,
         PoolOK(desc', Current', free'), resets \in Nat,
         \A o \in Offsets : desc'[o] = desc[o] \/ (Registry[i].Taken /\ o = Registry[i].MemHandle),
         Registry[i].Taken => Returned(desc', Registry[i]),
         UNCHANGED <<ValidityField, savedRegSize, savedRegistry, MaxNumRegEntries, Registry,
                     resets>>
  PROVE  RunOK'
<1>1. PICK d, d2 : d = desc /\ d2 = desc'
  OBVIOUS
<1>2. PICK reg : reg = Registry
  OBVIOUS
<1>3. /\ \A j \in Entries : reg[j].Taken => OwnBlock(d, reg[j])
      /\ \A j \in Entries : savedRegistry[j] = reg[j]
  BY <1>1, <1>2, AllSettled
<1>4. Apart(reg)
  BY <1>2 DEF RunOK
<1>5. ASSUME NEW j \in Entries, reg[j].Taken, j # i PROVE OwnBlock(d2, reg[j])
  <2>1. OwnBlock(d, reg[j])
    BY <1>3, <1>5
  <2>2. reg[i].Taken => reg[i].MemHandle # reg[j].MemHandle
    BY <1>4, <1>5 DEF Apart
  <2>3. d2[reg[j].MemHandle] = d[reg[j].MemHandle]
    BY <1>1, <1>2, <2>1, <2>2 DEF OwnBlock
  <2> QED
    BY <2>1, <2>3 DEF OwnBlock
<1>6. \A j \in Settled' : j \in Entries /\ reg[j].Taken /\ j # i
  BY <1>2 DEF Settled, TakenEntries
<1>7. \A j \in Settled' : OwnBlock(d2, Registry'[j])
  BY <1>2, <1>5, <1>6
<1>8. \A y \in Actors : pc'[y] \in {"allocate", "remove"} => y = x
  BY DEF Holding
<1>9. \A y \in Actors : pc'[y] \in {"allocate", "remove"} /\ Registry'[loc'[y].idx].Taken
                        => Returned(d2, Registry'[loc'[y].idx])
  BY <1>1, <1>8
<1>10. Lost(d2, reg) \subseteq Lost(d, reg)
  <2>1. ASSUME NEW o \in Lost(d2, reg) PROVE o \in Lost(d, reg)
    <3>1. /\ o \in Offsets /\ d2[o] # NULL /\ d2[o].Used
          /\ \A j \in Entries : reg[j].Taken => reg[j].MemHandle # o
      BY DEF Lost
    <3>2. d2[o] = d[o]
      BY <1>1, <1>2, <3>1
    <3> QED
      BY <3>1, <3>2 DEF Lost
  <2> QED
    BY <2>1
<1>11. Cardinality(Lost(d2, reg)) <= resets
  <2>1. Cardinality(Lost(d, reg)) <= resets
    BY <1>1, <1>2 DEF RunOK
  <2> QED
    BY <1>10, <2>1, FewerLost
<1>12. Cardinality(Lost(desc, Registry))' <= resets'
  BY <1>1, <1>2, <1>11
<1>13. \A j \in Entries : savedRegistry'[j] = Registry'[j]
  BY <1>2, <1>3
<1>14. /\ ValidityField' = "both" /\ savedRegSize' = MaxEntries /\ MaxNumRegEntries' = MaxEntries
       /\ Apart(Registry)'
  BY DEF RunOK
<1> QED
  BY <1>1, <1>7, <1>9, <1>12, <1>13, <1>14 DEF RunOK

(* The block of entry i is returned.                                       *)
LEMMA PutEntry ==
  ASSUME PoolInv, Running, \A y \in Actors : pc[y] \notin Holding, NEW i \in Entries,
         Registry[i].Taken, PutCDSBlock(Registry[i].MemHandle)
  PROVE  /\ PoolOK(desc', Current', free') /\ Current' = Current
         /\ \A o \in Offsets : desc'[o] = desc[o] \/ (Registry[i].Taken /\ o = Registry[i].MemHandle)
         /\ Returned(desc', Registry[i])
         /\ desc' \in [Offsets -> Desc \cup {NULL}] /\ free' \in [Bins -> Seq(Offsets)]
<1>1. RunOK /\ PoolOK(desc, Current, free)
  BY RunFacts
<1>2. PICK h \in Offsets : h = Registry[i].MemHandle
  BY <1>1, AllSettled DEF OwnBlock
<1>3. /\ PoolOK(desc', Current', free') /\ Current' = Current
      /\ desc'[h] # NULL /\ ~desc'[h].Used
      /\ \A o \in Offsets \ {h} : desc'[o] = desc[o]
      /\ desc' \in [Offsets -> Desc \cup {NULL}] /\ free' \in [Bins -> Seq(Offsets)]
  BY <1>1, <1>2, PutFacts
<1>4. Returned(desc', Registry[i])
  BY <1>2, <1>3 DEF Returned
<1> QED
  BY <1>2, <1>3, <1>4

LEMMA NobodyHolds ==
  ASSUME ControlOK, RegistryMutex = NULL
  PROVE  \A y \in Actors : pc[y] \notin Holding
BY Constants DEF ControlOK

LEMMA RegisterCDSKeeps ==
  ASSUME PoolInv, NEW a \in Apps, NEW n \in Names, NEW size \in SizesOf[n],
         RegisterCDS(a, n, size)
  PROVE  PoolInv'
<1>1. /\ Running /\ pc[a] = "idle" /\ RegistryMutex = NULL
      /\ UNCHANGED <<ValidityField, savedRegSize, savedRegistry, data, MaxNumRegEntries,
                     Registry, PoolMutex, resets>>
  BY DEF RegisterCDS, Running
<1>2. /\ TypeOK /\ ControlOK /\ RunOK /\ PoolOK(desc, Current, free) /\ resets \in Nat
      /\ Alike(desc, desc) /\ MaxNumRegEntries = MaxEntries
  BY <1>1, RunFacts
<1>3. ~FindFaults
  BY <1>2, Constants DEF FindFaults
<1>4. size \in Sizes /\ a \in Actors
  BY ActorKinds DEF Sizes
<1>5. \A y \in Actors : pc[y] \notin Holding
  BY <1>1, <1>2, NobodyHolds
<1>6. PICK i : i = Find(n)
  OBVIOUS
<1>7. handle' \in [Names -> Entries \cup {NotFound}]
      => (pc' \in [Actors -> Steps] /\ loc' \in [Actors -> LocRec]
          /\ desc' \in [Offsets -> Desc \cup {NULL}] /\ free' \in [Bins -> Seq(Offsets)]
          /\ Current' = Current /\ RegistryMutex' \in Actors \cup {NULL} => TypeOK')
  BY <1>1, <1>2 DEF TypeOK, LocRec
<1>8. CASE i # NotFound /\ handle' = [handle EXCEPT ![n] = i]
           /\ UNCHANGED <<poolVars, RegistryMutex, pc, loc>>
  <2>1. i \in Entries
    BY <1>6, <1>8, FindFacts
  <2>2. desc' = desc /\ free' = free /\ Current' = Current
    BY <1>8 DEF poolVars
  <2>3. handle' \in [Names -> Entries \cup {NotFound}]
    BY <1>2, <1>8, <2>1 DEF TypeOK
  <2>4. TypeOK'
    BY <1>1, <1>2, <1>8, <2>2, <2>3 DEF TypeOK
  <2>5. ControlOK' /\ Running'
    BY <1>1, <1>2, <1>8 DEF ControlOK, Running
  <2>6. PoolOK(desc', Current', free') /\ Alike(desc, desc')
    BY <1>2, <2>2
  <2>7. RunOK'
    BY <1>1, <1>2, <1>8, <2>6, QuietRun
  <2> QED
    BY <2>4, <2>5, <2>7, RunStart DEF PoolInv
<1>9. handle' = [handle EXCEPT ![n] = NotFound] => handle' \in [Names -> Entries \cup {NotFound}]
  BY <1>2 DEF TypeOK
<1>10. ASSUME NEW j \in Entries, NEW l, l = [NoLoc EXCEPT !.name = n, !.size = size, !.idx = j]
       PROVE  l \in LocRec /\ l.idx = j /\ l.size = size /\ l.name = n
  BY <1>4, <1>10, Records DEF LocRec, NoLoc
<1>11. CASE /\ i # NotFound /\ PutCDSBlock(Registry[i].MemHandle) /\ RegistryMutex' = a
            /\ handle' = [handle EXCEPT ![n] = NotFound]
            /\ Goto(a, "allocate", [NoLoc EXCEPT !.name = n, !.size = size, !.idx = i])
  <2>1. i \in Entries /\ Registry[i].Taken
    BY <1>6, <1>11, FindFacts
  <2>2. PICK l : l = [NoLoc EXCEPT !.name = n, !.size = size, !.idx = i]
    OBVIOUS
  <2>3. l \in LocRec /\ l.idx = i /\ l.size \in Sizes /\ l.name \in Names
    BY <1>4, <1>10, <2>1, <2>2
  <2>4. /\ ControlOK' /\ Running'
        /\ pc' \in [Actors -> Steps] /\ loc' \in [Actors -> LocRec]
        /\ pc'[a] = "allocate" /\ loc'[a] = l
        /\ \A y \in Actors : y # a => pc'[y] \notin Holding
    BY <1>1, <1>4, <1>11, <2>1, <2>2, <2>3, TakeMutex
  <2>5. /\ PoolOK(desc', Current', free') /\ Current' = Current
        /\ \A o \in Offsets : desc'[o] = desc[o] \/ (Registry[i].Taken /\ o = Registry[i].MemHandle)
        /\ Returned(desc', Registry[i])
        /\ desc' \in [Offsets -> Desc \cup {NULL}] /\ free' \in [Bins -> Seq(Offsets)]
    BY <1>1, <1>5, <1>11, <2>1, PutEntry
  <2>6. TypeOK'
    BY <1>4, <1>7, <1>9, <1>11, <2>4, <2>5
  <2>7. RunOK'
    BY <1>1, <1>2, <1>4, <1>5, <2>1, <2>3, <2>4, <2>5, TakeRun
  <2> QED
    BY <2>4, <2>6, <2>7, RunStart DEF PoolInv
<1>12. CASE /\ FreeEntries # {} /\ RegistryMutex' = a
            /\ handle' = [handle EXCEPT ![n] = NotFound]
            /\ Goto(a, "allocate", [NoLoc EXCEPT !.name = n, !.size = size,
                                                 !.idx = Least(FreeEntries)])
            /\ UNCHANGED poolVars
  <2>1. PICK j : j = Least(FreeEntries)
    OBVIOUS
  <2>2. j \in Entries /\ ~Registry[j].Taken
    BY <1>12, <2>1, FreeEntryFacts
  <2>3. PICK l : l = [NoLoc EXCEPT !.name = n, !.size = size, !.idx = j]
    OBVIOUS
  <2>4. l \in LocRec /\ l.idx = j /\ l.size \in Sizes /\ l.name \in Names
    BY <1>4, <1>10, <2>2, <2>3
  <2>5. /\ ControlOK' /\ Running'
        /\ pc' \in [Actors -> Steps] /\ loc' \in [Actors -> LocRec]
        /\ pc'[a] = "allocate" /\ loc'[a] = l
        /\ \A y \in Actors : y # a => pc'[y] \notin Holding
    BY <1>1, <1>4, <1>12, <2>1, <2>2, <2>3, <2>4, TakeMutex
  <2>6. desc' = desc /\ free' = free /\ Current' = Current
    BY <1>12 DEF poolVars
  <2>7. /\ PoolOK(desc', Current', free')
        /\ desc' \in [Offsets -> Desc \cup {NULL}] /\ free' \in [Bins -> Seq(Offsets)]
    BY <1>2, <2>6 DEF TypeOK
  <2>8. TypeOK'
    BY <1>4, <1>7, <1>9, <1>12, <2>5, <2>6, <2>7
  <2>9. RunOK'
    BY <1>1, <1>2, <1>4, <1>5, <2>2, <2>4, <2>5, <2>6, <2>7, TakeRun
  <2> QED
    BY <2>5, <2>8, <2>9, RunStart DEF PoolInv
<1> QED
  BY <1>3, <1>6, <1>8, <1>11, <1>12 DEF RegisterCDS

LEMMA DeleteCDSKeeps ==
  ASSUME PoolInv, NEW n \in Names, DeleteCDS(n)
  PROVE  PoolInv'
<1>1. PICK i : i = Find(n)
  OBVIOUS
<1>2. PICK l : l = [NoLoc EXCEPT !.name = n, !.idx = i]
  OBVIOUS
<1>3. /\ pc[ES] = "idle" /\ RegistryMutex = NULL /\ i # NotFound
      /\ PutCDSBlock(Registry[i].MemHandle) /\ RegistryMutex' = ES /\ Goto(ES, "remove", l)
      /\ UNCHANGED <<ValidityField, savedRegSize, savedRegistry, data, MaxNumRegEntries,
                     Registry, PoolMutex, handle, resets>>
  BY <1>1, <1>2 DEF DeleteCDS
<1>4. Running
  BY <1>3 DEF Running
<1>5. /\ TypeOK /\ ControlOK /\ RunOK /\ resets \in Nat
  BY <1>4, RunFacts
<1>6. \A y \in Actors : pc[y] \notin Holding
  BY <1>3, <1>5, NobodyHolds
<1>7. i \in Entries /\ Registry[i].Taken
  BY <1>1, <1>3, FindFacts
<1>8. l \in LocRec /\ l.idx = i
  BY <1>2, <1>7, Records DEF LocRec, NoLoc
<1>9. ES \in Actors
  BY Constants
<1>10. /\ ControlOK' /\ Running'
       /\ pc' \in [Actors -> Steps] /\ loc' \in [Actors -> LocRec]
       /\ pc'[ES] = "remove" /\ loc'[ES] = l
       /\ \A y \in Actors : y # ES => pc'[y] \notin Holding
  BY <1>3, <1>4, <1>7, <1>8, <1>9, TakeMutex
<1>11. /\ PoolOK(desc', Current', free') /\ Current' = Current
       /\ \A o \in Offsets : desc'[o] = desc[o] \/ (Registry[i].Taken /\ o = Registry[i].MemHandle)
       /\ Returned(desc', Registry[i])
       /\ desc' \in [Offsets -> Desc \cup {NULL}] /\ free' \in [Bins -> Seq(Offsets)]
  BY <1>3, <1>4, <1>6, <1>7, PutEntry
<1>12. TypeOK'
  BY <1>3, <1>5, <1>9, <1>10, <1>11 DEF TypeOK, LocRec
<1>13. RunOK'
  BY <1>3, <1>5, <1>6, <1>7, <1>8, <1>9, <1>10, <1>11, TakeRun
<1> QED
  BY <1>10, <1>12, <1>13, RunStart DEF PoolInv

(* The new block h becomes that of entry i.                                *)
LEMMA AllocateRun ==
  ASSUME RunOK, NEW x \in Actors, pc[x] = "allocate", NEW i \in Entries, i = loc[x].idx,
         \A y \in Actors : y # x => pc[y] \notin Holding,
         \A y \in Actors : y # x => pc'[y] \notin Holding,
         pc'[x] = "update", loc'[x].idx = i,
         NEW h, NEW size, Given(desc, desc', h, size),
         PoolOK(desc', Current', free'), resets \in Nat, Registry \in [Entries -> RegRec],
         NEW e, e.Taken, e.Size = size, e.MemHandle = h, Registry' = [Registry EXCEPT ![i] = e],
         UNCHANGED <<ValidityField, savedRegSize, savedRegistry, MaxNumRegEntries, resets>>
  PROVE  RunOK'
<1>1. PICK d, d2 : d = desc /\ d2 = desc'
  OBVIOUS
<1>2. PICK reg, reg2 : reg = Registry /\ reg2 = Registry'
  OBVIOUS
<1>3. /\ \A j \in Entries : reg[j].Taken /\ j # i => OwnBlock(d, reg[j])
      /\ \A j \in Entries : savedRegistry[j] = reg[j]
  BY <1>1, <1>2, OthersSettled
<1>4. reg2[i] = e /\ \A j \in Entries : j # i => reg2[j] = reg[j]
  BY <1>2
<1>5. /\ h \in Offsets /\ (d[h] = NULL \/ ~d[h].Used)
      /\ d2[h] # NULL /\ d2[h].Used /\ d2[h].SizeUsed = size
      /\ \A o \in Offsets : o # h => d2[o] = d[o]
  BY <1>1 DEF Given
<1>6. ASSUME NEW j \in Entries, reg[j].Taken, j # i
      PROVE  reg[j].MemHandle # h /\ OwnBlock(d2, reg[j])
  <2>1. OwnBlock(d, reg[j])
    BY <1>3, <1>6
  <2>2. reg[j].MemHandle # h /\ reg[j].MemHandle \in Offsets
    BY <1>5, <2>1 DEF OwnBlock
  <2>3. d2[reg[j].MemHandle] = d[reg[j].MemHandle]
    BY <1>5, <2>2
  <2> QED
    BY <2>1, <2>2, <2>3 DEF OwnBlock
<1>7. OwnBlock(d2, e)
  BY <1>5 DEF OwnBlock
<1>8. ASSUME NEW j \in Entries, reg2[j].Taken PROVE OwnBlock(d2, reg2[j])
  BY <1>4, <1>6, <1>7, <1>8
<1>9. Apart(reg2)
  <2>1. Apart(reg)
    BY <1>2 DEF RunOK
  <2>2. ASSUME NEW j \in Entries, NEW k \in Entries, reg2[j].Taken, reg2[k].Taken, j # k
        PROVE  reg2[j].MemHandle # reg2[k].MemHandle
    <3>1. CASE j = i
      BY <1>4, <1>6, <2>2, <3>1
    <3>2. CASE k = i
      BY <1>4, <1>6, <2>2, <3>2
    <3>3. CASE j # i /\ k # i
      BY <1>4, <2>1, <2>2, <3>3 DEF Apart
    <3> QED
      BY <3>1, <3>2, <3>3
  <2> QED
    BY <2>2 DEF Apart
<1>10. Lost(d2, reg2) \subseteq Lost(d, reg)
  <2>1. ASSUME NEW o \in Lost(d2, reg2) PROVE o \in Lost(d, reg)
    <3>1. /\ o \in Offsets /\ d2[o] # NULL /\ d2[o].Used
          /\ \A j \in Entries : reg2[j].Taken => reg2[j].MemHandle # o
      BY DEF Lost
    <3>2. o # h
      BY <1>4, <2>1, <3>1
    <3>3. d[o] # NULL /\ d[o].Used
      BY <1>5, <3>1, <3>2
    <3>4. reg[i].Taken => reg[i].MemHandle # o
      <4>1. reg[i].Taken => Returned(d, reg[i])
        BY <1>1, <1>2 DEF RunOK
      <4> QED
        BY <3>3, <4>1 DEF Returned
    <3>5. \A j \in Entries : reg[j].Taken => reg[j].MemHandle # o
      BY <1>4, <3>1, <3>4
    <3> QED
      BY <3>1, <3>3, <3>5 DEF Lost
  <2> QED
    BY <2>1
<1>11. Cardinality(Lost(d2, reg2)) <= resets
  <2>1. Cardinality(Lost(d, reg)) <= resets
    BY <1>1, <1>2 DEF RunOK
  <2> QED
    BY <1>10, <2>1, FewerLost
<1>12. Cardinality(Lost(desc, Registry))' <= resets'
  BY <1>1, <1>2, <1>11
<1>13. \A j \in Entries : Written(j)' => savedRegistry'[j] = Registry'[j]
  BY <1>2, <1>3, <1>4 DEF Written
<1>14. \A y \in Actors : pc'[y] \notin {"allocate", "remove"}
  BY DEF Holding
<1>15. \A j \in Settled' : OwnBlock(d2, Registry'[j])
  BY <1>2, <1>8 DEF Settled, TakenEntries
<1>16. /\ ValidityField' = "both" /\ savedRegSize' = MaxEntries /\ MaxNumRegEntries' = MaxEntries
       /\ Apart(Registry)'
  BY <1>2, <1>9 DEF RunOK
<1> QED
  BY <1>1, <1>12, <1>13, <1>14, <1>15, <1>16 DEF RunOK

(* Only the holder of the mutex moves, and it keeps it.                    *)
LEMMA KeepMutex ==
  ASSUME PoolInv, Running, NEW a \in Apps, pc[a] = "allocate", Goto(a, "update", loc[a]),
         RegistryMutex' = RegistryMutex
  PROVE  /\ ControlOK' /\ Running'
         /\ pc' \in [Actors -> Steps] /\ loc' \in [Actors -> LocRec]
         /\ pc'[a] = "update" /\ loc'[a] = loc[a]
         /\ \A y \in Actors : y # a => pc[y] \notin Holding /\ pc'[y] \notin Holding
         /\ loc[a].idx \in Entries /\ loc[a].size \in Sizes /\ loc[a].name \in Names
<1>1. TypeOK /\ ControlOK /\ a \in Actors /\ "update" \in Steps
  BY ActorKinds DEF PoolInv, Steps
<1>2. pc[a] \in Holding /\ "update" \in Holding
  BY DEF Holding
<1>3. loc[a] \in LocRec
  BY <1>1 DEF TypeOK, LocRec
<1>4. /\ pc' \in [Actors -> Steps] /\ loc' \in [Actors -> LocRec]
      /\ pc'[a] = "update" /\ loc'[a] = loc[a]
      /\ \A y \in Actors : y # a => pc'[y] = pc[y] /\ loc'[y] = loc[y]
  BY <1>1, <1>3, GotoFacts
<1>5. /\ \A y \in Actors : y # a => pc[y] \notin Holding
      /\ loc[a].idx \in Entries /\ loc[a].size \in Sizes /\ loc[a].name \in Names
  BY <1>1, <1>2 DEF ControlOK
<1>6. \A y \in Actors : y # a => pc'[y] \notin Holding
  BY <1>4, <1>5
<1>7. /\ \A y \in Actors : pc'[y] \in Holding <=> RegistryMutex' = y
      /\ \A y \in Actors : pc'[y] \in Holding => loc'[y].idx \in Entries
  <2>1. RegistryMutex = a
    BY <1>1, <1>2 DEF ControlOK
  <2> QED
    BY <1>2, <1>4, <1>5, <1>6, <2>1
<1>8. pc'[ES] = pc[ES]
  BY <1>4, Constants, ActorKinds
<1>9. Running'
  BY <1>8 DEF Running
<1>10. ASSUME NEW b \in Apps
       PROVE  /\ pc'[b] \in {"down", "idle", "allocate", "update", "copy"}
              /\ pc'[b] \in {"allocate", "update"} =>
                   loc'[b].size \in Sizes /\ loc'[b].name \in Names
  <2>1. pc[b] \in {"down", "idle", "allocate", "update", "copy"}
    BY <1>1 DEF ControlOK
  <2>2. CASE b = a
    BY <1>4, <1>5, <2>2
  <2>3. CASE b # a
    <3>1. pc'[b] = pc[b] /\ pc'[b] \notin Holding
      BY <1>4, <1>6, <2>3, ActorKinds
    <3> QED
      BY <2>1, <3>1 DEF Holding
  <2> QED
    BY <2>2, <2>3
<1>11. ControlOK'
  BY <1>1, <1>7, <1>8, <1>9, <1>10 DEF ControlOK
<1> QED
  BY <1>4, <1>5, <1>6, <1>9, <1>11

LEMMA AllocateKeeps ==
  ASSUME PoolInv, Roomy, NEW a \in Apps, Allocate(a)
  PROVE  PoolInv'
<1>1. /\ pc[a] = "allocate"
      /\ UNCHANGED <<ValidityField, savedRegSize, savedRegistry, data, MaxNumRegEntries,
                     PoolMutex, handle, resets>>
  BY DEF Allocate
<1>2. Running /\ a \in Actors /\ pc[a] \in Holding
  BY <1>1, ActorKinds DEF PoolInv, ControlOK, Holding
<1>3. /\ TypeOK /\ ControlOK /\ RunOK /\ PoolOK(desc, Current, free) /\ resets \in Nat
      /\ Alike(desc, desc)
  BY <1>2, RunFacts
<1>4. CASE CanGetCDSBlock(loc[a].size)
  <2>1. PICK size, h, i : size = loc[a].size /\ h = NewBlock(loc[a].size) /\ i = loc[a].idx
    OBVIOUS
  <2>2. PICK e : e = [Name |-> loc[a].name, Size |-> size, Taken |-> TRUE, MemHandle |-> h]
    OBVIOUS
  <2>3. /\ GetCDSBlock(size) /\ Registry' = [Registry EXCEPT ![i] = e]
        /\ Goto(a, "update", loc[a]) /\ RegistryMutex' = RegistryMutex
    BY <1>4, <2>1, <2>2 DEF Allocate
  <2>4. /\ ControlOK' /\ Running'
        /\ pc' \in [Actors -> Steps] /\ loc' \in [Actors -> LocRec]
        /\ pc'[a] = "update" /\ loc'[a] = loc[a]
        /\ \A y \in Actors : y # a => pc[y] \notin Holding /\ pc'[y] \notin Holding
        /\ i \in Entries /\ size \in Sizes /\ loc[a].name \in Names
    BY <1>1, <1>2, <2>1, <2>3, KeepMutex
  <2>5. Current \in Offsets \cup {0} /\ Registry \in [Entries -> RegRec]
    BY <1>3 DEF TypeOK
  <2>6. /\ PoolOK(desc', Current', free') /\ Given(desc, desc', h, size)
        /\ Current' \in Offsets \cup {0}
    BY <1>3, <2>1, <2>3, <2>4, <2>5, GetFacts
  <2>7. e \in RegRec /\ e.Taken /\ e.Size = size /\ e.MemHandle = h
    BY <2>2, <2>4, <2>6 DEF RegRec, Given
  <2>8. Registry' \in [Entries -> RegRec]
    BY <2>3, <2>5, <2>7
  <2>9. desc' \in [Offsets -> Desc \cup {NULL}] /\ free' \in [Bins -> Seq(Offsets)]
    BY <2>6 DEF Given, PoolOK, FreeExact
  <2>10. TypeOK'
    BY <1>1, <1>3, <2>3, <2>4, <2>6, <2>8, <2>9 DEF TypeOK, LocRec
  <2>11. RunOK'
    BY <1>1, <1>2, <1>3, <2>1, <2>3, <2>4, <2>5, <2>6, <2>7, AllocateRun
  <2> QED
    BY <2>4, <2>10, <2>11, RunStart DEF PoolInv
<1>5. CASE ~CanGetCDSBlock(loc[a].size)
  <2>1. /\ Goto(a, "idle", NoLoc) /\ RegistryMutex' = NULL
        /\ desc' = desc /\ Current' = Current /\ free' = free /\ Registry' = Registry
    BY <1>5 DEF Allocate, poolVars
  <2>2. /\ ControlOK' /\ Running'
        /\ pc' \in [Actors -> Steps] /\ loc' \in [Actors -> LocRec]
        /\ \A y \in Actors : pc'[y] \notin Holding
        /\ \A y \in Actors : y # a => pc[y] \notin Holding
        /\ loc[a].idx \in Entries
    BY <1>2, <2>1, GiveMutex
  <2>3. TypeOK'
    BY <1>1, <1>3, <2>1, <2>2 DEF TypeOK, LocRec
  <2>4. ~Registry[loc[a].idx].Taken
    BY <1>1, <1>5 DEF Roomy
  <2>5. /\ \A j \in Entries : Registry[j].Taken => OwnBlock(desc, Registry[j])
        /\ \A j \in Entries : savedRegistry[j] = Registry[j]
    BY <1>1, <1>2, <1>3, <2>2, <2>4, OthersSettled
  <2>6. RunOK'
    <3>1. \A j \in Settled' : OwnBlock(desc, Registry[j])'
      BY <2>1, <2>5 DEF Settled, TakenEntries
    <3>2. \A y \in Actors : pc'[y] \notin {"allocate", "remove"}
      BY <2>2 DEF Holding
    <3>3. \A j \in Entries : savedRegistry'[j] = Registry'[j]
      BY <1>1, <2>1, <2>5
    <3>4. /\ ValidityField' = "both" /\ savedRegSize' = MaxEntries
          /\ MaxNumRegEntries' = MaxEntries /\ Apart(Registry)' /\ PoolOK(desc, Current, free)'
          /\ Cardinality(Lost(desc, Registry))' <= resets'
      BY <1>1, <1>3, <2>1 DEF RunOK
    <3> QED
      BY <3>1, <3>2, <3>3, <3>4 DEF RunOK
  <2> QED
    BY <2>2, <2>3, <2>6, RunStart DEF PoolInv
<1> QED
  BY <1>4, <1>5

LEMMA UpdateKeeps ==
  ASSUME PoolInv, NEW a \in Apps, Update(a)
  PROVE  PoolInv'
<1>1. /\ pc[a] = "update" /\ savedRegistry' = Registry /\ RegistryMutex' = NULL
      /\ Goto(a, "idle", NoLoc) /\ desc' = desc /\ Current' = Current /\ free' = free
      /\ handle' = [handle EXCEPT ![loc[a].name] = loc[a].idx]
      /\ UNCHANGED <<ValidityField, savedRegSize, data, MaxNumRegEntries, Registry, PoolMutex,
                     resets>>
  BY DEF Update, UpdateCDSRegistry, poolVars
<1>2. Running /\ a \in Actors /\ pc[a] \in Holding
  BY <1>1, ActorKinds DEF PoolInv, ControlOK, Holding
<1>3. TypeOK /\ ControlOK /\ RunOK /\ PoolOK(desc, Current, free) /\ resets \in Nat
  BY <1>2, RunFacts
<1>4. /\ ControlOK' /\ Running'
      /\ pc' \in [Actors -> Steps] /\ loc' \in [Actors -> LocRec]
      /\ \A y \in Actors : pc'[y] \notin Holding
      /\ \A y \in Actors : y # a => pc[y] \notin Holding
      /\ loc[a].idx \in Entries
  BY <1>1, <1>2, GiveMutex
<1>5. handle' \in [Names -> Entries \cup {NotFound}]
  BY <1>1, <1>3, <1>4 DEF TypeOK
<1>6. TypeOK'
  BY <1>1, <1>3, <1>4, <1>5 DEF TypeOK, LocRec
<1>7. \A j \in Entries : Registry[j].Taken => OwnBlock(desc, Registry[j])
  BY <1>1, <1>2, <1>3, <1>4, OthersSettled
<1>8. RunOK'
  <2>1. \A j \in Settled' : OwnBlock(desc, Registry[j])'
    BY <1>1, <1>7 DEF Settled, TakenEntries
  <2>2. \A y \in Actors : pc'[y] \notin {"allocate", "remove"}
    BY <1>4 DEF Holding
  <2>3. \A j \in Entries : savedRegistry'[j] = Registry'[j]
    BY <1>1
  <2>4. /\ ValidityField' = "both" /\ savedRegSize' = MaxEntries
        /\ MaxNumRegEntries' = MaxEntries /\ Apart(Registry)' /\ PoolOK(desc, Current, free)'
        /\ Cardinality(Lost(desc, Registry))' <= resets'
    BY <1>1, <1>3 DEF RunOK
  <2> QED
    BY <2>1, <2>2, <2>3, <2>4 DEF RunOK
<1> QED
  BY <1>4, <1>6, <1>8, RunStart DEF PoolInv

LEMMA RemoveKeeps ==
  ASSUME PoolInv, Remove
  PROVE  PoolInv'
<1>1. PICK i : i = loc[ES].idx
  OBVIOUS
<1>2. /\ pc[ES] = "remove" /\ Registry' = [Registry EXCEPT ![i].Taken = FALSE]
      /\ savedRegistry' = Registry' /\ RegistryMutex' = NULL /\ Goto(ES, "idle", NoLoc)
      /\ desc' = desc /\ Current' = Current /\ free' = free
      /\ UNCHANGED <<ValidityField, savedRegSize, data, MaxNumRegEntries, PoolMutex, handle,
                     resets>>
  BY <1>1 DEF Remove, poolVars
<1>3. Running /\ ES \in Actors /\ pc[ES] \in Holding
  BY <1>2, Constants DEF Running, Holding
<1>4. TypeOK /\ ControlOK /\ RunOK /\ PoolOK(desc, Current, free) /\ resets \in Nat
  BY <1>3, RunFacts
<1>5. /\ ControlOK' /\ Running'
      /\ pc' \in [Actors -> Steps] /\ loc' \in [Actors -> LocRec]
      /\ \A y \in Actors : pc'[y] \notin Holding
      /\ \A y \in Actors : y # ES => pc[y] \notin Holding
      /\ i \in Entries
  BY <1>1, <1>2, <1>3, GiveMutex
<1>6. PICK reg, reg2 : reg = Registry /\ reg2 = Registry'
  OBVIOUS
<1>7. /\ reg2 \in [Entries -> RegRec] /\ ~reg2[i].Taken
      /\ \A j \in Entries : j # i => reg2[j] = reg[j]
  <2>1. reg \in [Entries -> RegRec] /\ reg[i] \in RegRec
    BY <1>4, <1>5, <1>6 DEF TypeOK
  <2>2. PICK e : e = [reg[i] EXCEPT !.Taken = FALSE]
    OBVIOUS
  <2>3. e \in RegRec /\ ~e.Taken
    BY <2>1, <2>2 DEF RegRec
  <2>4. reg2 = [reg EXCEPT ![i] = e]
    BY <1>2, <1>6, <2>2
  <2> QED
    BY <1>5, <2>1, <2>3, <2>4
<1>8. TypeOK'
  BY <1>2, <1>4, <1>5, <1>6, <1>7 DEF TypeOK, LocRec
<1>9. \A j \in Entries : reg[j].Taken /\ j # i => OwnBlock(desc, reg[j])
  BY <1>1, <1>3, <1>4, <1>5, <1>6, OthersSettled
<1>10. \A j \in Entries : reg2[j].Taken => j # i /\ reg2[j] = reg[j]
  BY <1>7
<1>11. Apart(reg2)
  <2>1. Apart(reg)
    BY <1>4, <1>6 DEF RunOK
  <2> QED
    BY <1>10, <2>1 DEF Apart
<1>12. Lost(desc, reg2) \subseteq Lost(desc, reg)
  <2>1. reg[i].Taken => Returned(desc, reg[i])
    BY <1>1, <1>2, <1>3, <1>4, <1>6 DEF RunOK
  <2>2. ASSUME NEW o \in Lost(desc, reg2), NEW j \in Entries, reg[j].Taken
        PROVE  reg[j].MemHandle # o
    <3>1. CASE j = i
      BY <2>1, <2>2, <3>1 DEF Lost, Returned
    <3>2. CASE j # i
      BY <1>7, <2>2, <3>2 DEF Lost
    <3> QED
      BY <3>1, <3>2
  <2> QED
    BY <2>2 DEF Lost
<1>13. Cardinality(Lost(desc, reg2)) <= resets
  <2>1. Cardinality(Lost(desc, reg)) <= resets
    BY <1>4, <1>6 DEF RunOK
  <2> QED
    BY <1>4, <1>12, <2>1, FewerLost
<1>14. RunOK'
  <2>1. \A j \in Settled' : OwnBlock(desc, Registry[j])'
    BY <1>2, <1>6, <1>9, <1>10 DEF Settled, TakenEntries
  <2>2. \A y \in Actors : pc'[y] \notin {"allocate", "remove"}
    BY <1>5 DEF Holding
  <2>3. \A j \in Entries : savedRegistry'[j] = Registry'[j]
    BY <1>2
  <2>4. /\ ValidityField' = "both" /\ savedRegSize' = MaxEntries
        /\ MaxNumRegEntries' = MaxEntries /\ PoolOK(desc, Current, free)'
    BY <1>2, <1>4 DEF RunOK
  <2>5. Apart(Registry)' /\ Cardinality(Lost(desc, Registry))' <= resets'
    BY <1>2, <1>6, <1>11, <1>13
  <2> QED
    BY <2>1, <2>2, <2>3, <2>4, <2>5 DEF RunOK
<1> QED
  BY <1>5, <1>8, <1>14, RunStart DEF PoolInv

-----------------------------------------------------------------------------
(* A processor reset *)

(* Nobody is between two writes to an entry: what is saved is what is in    *)
(* use, and nothing is lost.                                                *)
LEMMA ResetQuiet ==
  ASSUME PoolInv, Running, ~BlockReturned, \A x \in Actors : pc[x] # "update"
  PROVE  Recoverable(desc, savedRegistry, resets)
<1>1. TypeOK /\ ControlOK /\ RunOK /\ PoolOK(desc, Current, free) /\ resets \in Nat
  BY RunFacts
<1>2. \A i \in Entries : savedRegistry[i] = Registry[i]
  BY <1>1 DEF RunOK, Written
<1>3. savedRegistry = Registry
  BY <1>1, <1>2 DEF TypeOK
<1>4. ASSUME NEW i \in Entries, Registry[i].Taken PROVE i \in Settled
  BY <1>2, <1>4 DEF BlockReturned, Settled, TakenEntries
<1>5. \A i \in Entries : Registry[i].Taken => OwnBlock(desc, Registry[i])
  BY <1>1, <1>4 DEF RunOK
<1> QED
  BY <1>1, <1>3, <1>5 DEF Recoverable, RunOK, PoolOK

(* x has a block for entry i and has not saved the entry: that block is    *)
(* lost.                                                                    *)
LEMMA ResetLoses ==
  ASSUME PoolInv, Running, ~BlockReturned, NEW x \in Actors, pc[x] = "update"
  PROVE  Recoverable(desc, savedRegistry, resets + 1)
<1>1. TypeOK /\ ControlOK /\ RunOK /\ PoolOK(desc, Current, free) /\ resets \in Nat
  BY RunFacts
<1>2. PICK i \in Entries : i = loc[x].idx
  BY <1>1 DEF ControlOK, Holding
<1>3. \A y \in Actors : y # x => pc[y] \notin Holding
  BY <1>1 DEF ControlOK, Holding
<1>4. PICK sav, reg : sav = savedRegistry /\ reg = Registry
  OBVIOUS
<1>5. /\ \A j \in Entries : reg[j].Taken => OwnBlock(desc, reg[j])
      /\ \A j \in Entries : j # i => sav[j] = reg[j]
  BY <1>1, <1>2, <1>3, <1>4, OthersSettled
<1>6. ~sav[i].Taken
  BY <1>2, <1>4 DEF BlockReturned
<1>7. \A j \in Entries : sav[j].Taken => j # i /\ sav[j] = reg[j]
  BY <1>5, <1>6
<1>8. \A j \in Entries : sav[j].Taken => OwnBlock(desc, sav[j])
  BY <1>5, <1>7
<1>9. Apart(sav)
  <2>1. Apart(reg)
    BY <1>1, <1>4 DEF RunOK
  <2> QED
    BY <1>7, <2>1 DEF Apart
<1>10. PICK S, h : S = Lost(desc, reg) /\ h = reg[i].MemHandle
  OBVIOUS
<1>11. Lost(desc, sav) \subseteq S \cup {h}
  <2>1. ASSUME NEW o \in Lost(desc, sav), o # h PROVE o \in S
    <3>1. /\ o \in Offsets /\ desc[o] # NULL /\ desc[o].Used
          /\ \A j \in Entries : sav[j].Taken => sav[j].MemHandle # o
      BY DEF Lost
    <3>2. ASSUME NEW j \in Entries, reg[j].Taken PROVE reg[j].MemHandle # o
      <4>1. CASE j = i
        BY <1>10, <2>1, <4>1
      <4>2. CASE j # i
        BY <1>5, <3>1, <3>2, <4>2
      <4> QED
        BY <4>1, <4>2
    <3> QED
      BY <1>10, <3>1, <3>2 DEF Lost
  <2> QED
    BY <2>1
<1>12. IsFiniteSet(S) /\ Cardinality(S) \in Nat /\ Cardinality(S) <= resets
  BY <1>1, <1>4, <1>10, LostFinite DEF RunOK
<1>13. /\ IsFiniteSet(S \cup {h}) /\ Cardinality(S \cup {h}) \in Nat
       /\ Cardinality(S \cup {h}) <= Cardinality(S) + 1
  <2>1. /\ IsFiniteSet(S \cup {h})
        /\ Cardinality(S \cup {h}) = IF h \in S THEN Cardinality(S) ELSE Cardinality(S) + 1
    BY <1>12, FS_AddElement
  <2>2. CASE h \in S
    BY <1>12, <2>1, <2>2
  <2>3. CASE h \notin S
    BY <1>12, <2>1, <2>3
  <2> QED
    BY <2>2, <2>3
<1>14. Cardinality(Lost(desc, sav)) <= Cardinality(S \cup {h}) /\ Cardinality(Lost(desc, sav)) \in Nat
  BY <1>11, <1>13, LostFinite, FS_Subset
<1>15. Cardinality(Lost(desc, sav)) <= resets + 1
  BY <1>1, <1>12, <1>13, <1>14
<1> QED
  BY <1>1, <1>4, <1>8, <1>9, <1>15 DEF Recoverable, PoolOK

LEMMA RecoverableMore ==
  ASSUME NEW d, NEW reg, NEW n \in Nat, Recoverable(d, reg, n)
  PROVE  Recoverable(d, reg, n + 1)
<1>1. Cardinality(Lost(d, reg)) \in Nat /\ Cardinality(Lost(d, reg)) <= n
  BY LostFinite DEF Recoverable
<1>2. Cardinality(Lost(d, reg)) <= n + 1
  BY <1>1
<1> QED
  BY <1>2 DEF Recoverable

LEMMA ProcessorResetKeeps ==
  ASSUME PoolInv, NoWindows, ProcessorReset
  PROVE  PoolInv'
<1>1. TypeOK /\ ControlOK /\ StartOK /\ resets \in Nat
  BY Constants DEF PoolInv, TypeOK
<1>2. /\ resets < MaxResets /\ resets' = resets + 1
      /\ pc[ES] # "registry" /\ ~BlockReturned
      /\ pc' = [x \in Actors |-> IF x = ES THEN "boot" ELSE "down"]
      /\ loc' = [x \in Actors |-> NoLoc]
      /\ RegistryMutex' = NULL /\ PoolMutex' = NULL
      /\ handle' = [n \in Names |-> NotFound]
      /\ Registry' = [i \in Entries |-> FreeEntry] /\ MaxNumRegEntries' = 0
      /\ Current' = 0 /\ free' = [b \in Bins |-> <<>>]
      /\ UNCHANGED <<ValidityField, savedRegSize, savedRegistry, desc, data>>
  BY DEF ProcessorReset, NoWindows, savedVars
<1>3. /\ pc'[ES] = "boot" /\ \A a \in Apps : pc'[a] = "down"
      /\ \A x \in Actors : pc'[x] \in {"boot", "down"} /\ x # NULL
  BY <1>2, Constants, ActorKinds
<1>4. TypeOK'
  <2>1. /\ pc' \in [Actors -> Steps] /\ loc' \in [Actors -> LocRec]
        /\ Registry' \in [Entries -> RegRec] /\ resets' \in 0 .. MaxResets
        /\ free' \in [Bins -> Seq(Offsets)]
    BY <1>1, <1>2, Records, Constants DEF Steps
  <2> QED
    BY <1>1, <1>2, <2>1 DEF TypeOK, LocRec
<1>5. ControlOK'
  BY <1>2, <1>3 DEF ControlOK, Running, Holding
<1>6. ~Running' /\ \A i \in Entries : ~Registry'[i].Taken
  BY <1>2, <1>3, Records DEF Running
<1>7. ValidityField = "both" => savedRegSize = MaxEntries /\ Recoverable(desc, savedRegistry, resets + 1)
  <2>1. CASE Running
    <3>1. savedRegSize = MaxEntries
      BY <2>1 DEF PoolInv, RunOK
    <3>2. Recoverable(desc, savedRegistry, resets + 1)
      <4>1. CASE \A x \in Actors : pc[x] # "update"
        BY <1>1, <1>2, <2>1, <4>1, ResetQuiet, RecoverableMore
      <4>2. CASE \E x \in Actors : pc[x] = "update"
        BY <1>2, <2>1, <4>2, ResetLoses
      <4> QED
        BY <4>1, <4>2
    <3> QED
      BY <3>1, <3>2
  <2>2. CASE pc[ES] = "boot"
    BY <1>1, <2>2, RecoverableMore DEF StartOK
  <2>3. CASE pc[ES] \in {"begin", "end"}
    BY <1>1, <2>3 DEF StartOK
  <2> QED
    BY <1>2, <2>1, <2>2, <2>3 DEF Running
<1>8. ValidityField' = "both" => savedRegSize' = MaxEntries /\ Recoverable(desc, savedRegistry, resets)'
  BY <1>2, <1>7
<1>9. StartOK'
  BY <1>3, <1>6, <1>8 DEF StartOK
<1> QED
  BY <1>4, <1>5, <1>6, <1>9 DEF PoolInv

-----------------------------------------------------------------------------
(* The theorems *)

LEMMA InitInv ==
  ASSUME Init
  PROVE  PoolInv
<1>1. /\ pc[ES] = "boot" /\ \A a \in Apps : pc[a] = "down"
      /\ \A x \in Actors : pc[x] \in {"boot", "down"} /\ x # NULL
  BY Constants, ActorKinds DEF Init
<1>2. TypeOK
  <2>1. /\ pc \in [Actors -> Steps] /\ loc \in [Actors -> LocRec]
        /\ Registry \in [Entries -> RegRec] /\ savedRegistry \in [Entries -> RegRec]
        /\ resets \in 0 .. MaxResets /\ free \in [Bins -> Seq(Offsets)]
        /\ MaxEntries \in Nat
    BY Records, Constants DEF Init, Steps
  <2> QED
    BY <2>1 DEF TypeOK, Init, LocRec
<1>3. ControlOK
  BY <1>1 DEF ControlOK, Running, Holding, Init
<1>4. \A i \in Entries : ~Registry[i].Taken
  BY Records DEF Init
<1>5. StartOK
  BY <1>1, <1>4 DEF StartOK, Init
<1>6. ~Running
  BY <1>1 DEF Running
<1> QED
  BY <1>2, <1>3, <1>5, <1>6 DEF PoolInv

LEMMA StutterKeeps ==
  ASSUME PoolInv, UNCHANGED vars
  PROVE  PoolInv'
<1>1. UNCHANGED <<ValidityField, savedRegSize, savedRegistry, desc, data, MaxNumRegEntries,
                  Registry, Current, free, RegistryMutex, PoolMutex, handle, pc, loc, resets>>
  BY DEF vars, savedVars
<1>2. TypeOK' /\ ControlOK'
  BY <1>1 DEF PoolInv, TypeOK, ControlOK, Running
<1>3. StartOK'
  BY <1>1 DEF PoolInv, StartOK, Running
<1>4. Running' <=> Running
  BY <1>1 DEF Running
<1>5. CASE Running
  <2>1. RunOK /\ ControlOK /\ PoolOK(desc, Current, free) /\ resets \in Nat /\ Alike(desc, desc)
    BY <1>5, RunFacts
  <2>2. PoolOK(desc', Current', free') /\ Alike(desc, desc')
    BY <1>1, <2>1
  <2>3. RunOK'
    BY <1>1, <2>1, <2>2, QuietRun
  <2> QED
    BY <1>2, <1>3, <2>3 DEF PoolInv
<1>6. CASE ~Running
  BY <1>2, <1>3, <1>4, <1>6 DEF PoolInv
<1> QED
  BY <1>5, <1>6

LEMMA NextInv ==
  ASSUME PoolInv, NoWindows, Roomy, [Next]_vars
  PROVE  PoolInv'
<1>1. CASE Rebuild
  BY <1>1, RebuildKeeps
<1>2. CASE InitClear
  BY <1>2, InitClearKeeps
<1>3. CASE InitBegin
  BY <1>3, InitBeginKeeps
<1>4. CASE InitEnd
  BY <1>4, InitEndKeeps
<1>5. CASE InitCDSRegistry
  BY <1>5, InitCDSRegistryKeeps
<1>6. ASSUME NEW a \in Apps, StartApp(a) PROVE PoolInv'
  BY <1>6, StartAppKeeps
<1>7. ASSUME NEW a \in Apps, ExitApp(a) PROVE PoolInv'
  BY <1>7, ExitAppKeeps
<1>8. ASSUME NEW a \in Apps, Allocate(a) PROVE PoolInv'
  BY <1>8, AllocateKeeps
<1>9. ASSUME NEW a \in Apps, Update(a) PROVE PoolInv'
  BY <1>9, UpdateKeeps
<1>10. ASSUME NEW a \in Apps, CopyDone(a) PROVE PoolInv'
  BY <1>10, CopyDoneKeeps
<1>11. ASSUME NEW a \in Apps, NEW n \in Names, NEW size \in SizesOf[n], RegisterCDS(a, n, size)
       PROVE  PoolInv'
  BY <1>11, RegisterCDSKeeps
<1>12. ASSUME NEW a \in Apps, NEW n \in Names, NEW d \in DataOf[n], CopyToCDS(a, n, d)
       PROVE  PoolInv'
  BY <1>12, CopyToCDSKeeps
<1>13. ASSUME NEW n \in Names, DeleteCDS(n) PROVE PoolInv'
  BY <1>13, DeleteCDSKeeps
<1>14. CASE Remove
  BY <1>14, RemoveKeeps
<1>15. CASE ProcessorReset
  BY <1>15, ProcessorResetKeeps
<1>16. CASE UNCHANGED vars
  BY <1>16, StutterKeeps
<1> QED
  BY <1>1, <1>2, <1>3, <1>4, <1>5, <1>6, <1>7, <1>8, <1>9, <1>10, <1>11, <1>12, <1>13,
     <1>14, <1>15, <1>16 DEF Next

LEMMA PoolShape ==
  ASSUME PoolOK(desc, Current, free)
  PROVE  FreeListsExact /\ BlocksTile
<1>1. FreeListsExact
  <2>1. \A b \in Bins : Once(free[b]) /\ Elems(free[b]) = Unused(desc, b)
    BY DEF PoolOK, FreeExact
  <2>2. \A b \in Bins : Unused(desc, b) =
          {o \in Blocks : ~desc[o].Used /\ desc[o].ActualSize = BinSizes[b]}
    BY DEF Unused, Blocks
  <2>3. \A b \in Bins : \A i, j \in DOMAIN free[b] : free[b][i] = free[b][j] => i = j
    BY <2>1 DEF Once
  <2>4. \A b \in Bins : {free[b][i] : i \in DOMAIN free[b]} =
          {o \in Blocks : ~desc[o].Used /\ desc[o].ActualSize = BinSizes[b]}
    BY <2>1, <2>2 DEF Elems
  <2> QED
    BY <2>3, <2>4 DEF FreeListsExact
<1>2. BlocksTile
  <2>1. PICK E : Tiled(desc, E) /\ Current \in {E, 0}
    BY DEF PoolOK
  <2>2. PICK s : s = BlocksFrom(PoolStart)
    OBVIOUS
  <2>3. {s[i] : i \in DOMAIN s} = Blocks
    <3>1. Elems(s) = Blocks
      BY <2>1, <2>2, WalkExact
    <3> QED
      BY <3>1 DEF Elems
  <2>4. Current # 0 => \A o \in Blocks : o + desc[o].ActualSize + DescSize <= Current
    BY <2>1 DEF Tiled, After, Blocks
  <2> QED
    BY <2>2, <2>3, <2>4 DEF BlocksTile
<1> QED
  BY <1>1, <1>2

LEMMA InvExact ==
  ASSUME PoolInv
  PROVE  PoolExact /\ LeaksBounded
<1>1. TypeOK
  BY DEF PoolInv
<1>2. CASE ~Running
  <2>1. TakenEntries = {}
    BY <1>2 DEF PoolInv, StartOK, TakenEntries
  <2>2. BlocksOwned
    BY <2>1 DEF BlocksOwned, Settled
  <2> QED
    BY <1>1, <1>2, <2>2 DEF PoolExact, FreeListsExact, BlocksTile, LeaksBounded
<1>3. CASE Running
  <2>1. RunOK /\ PoolOK(desc, Current, free)
    BY <1>3, RunFacts
  <2>2. BlocksOwned
    <3>1. ASSUME NEW i \in Settled
          PROVE  LET h == Registry[i].MemHandle
                 IN h \in Blocks /\ desc[h].Used /\ desc[h].SizeUsed = Registry[i].Size
      BY <2>1 DEF RunOK, OwnBlock, Blocks
    <3>2. \A i, j \in TakenEntries : i # j => Registry[i].MemHandle # Registry[j].MemHandle
      BY <2>1 DEF RunOK, Apart, TakenEntries
    <3> QED
      BY <3>1, <3>2 DEF BlocksOwned
  <2>3. FreeListsExact /\ BlocksTile
    BY <2>1, PoolShape
  <2>4. LeaksBounded
    <3>1. LostBlocks = Lost(desc, Registry)
      BY DEF LostBlocks, Lost, Blocks, TakenEntries
    <3> QED
      BY <2>1, <3>1 DEF LeaksBounded, RunOK
  <2> QED
    BY <1>1, <2>2, <2>3, <2>4 DEF PoolExact
<1> QED
  BY <1>2, <1>3

(* Registry and pool agree before and after every reset, for every pool,    *)
(* registry and number of resets: every registered name owns a block, the   *)
(* free lists are those of the blocks not in use, and the walk of           *)
(* CFE_ES_RebuildCDSPool meets all blocks (cfe_es_cds.c,                    *)
(* cfe_es_cds_mempool.c), as long as no reset falls into one of the two     *)
(* windows and no change of size is left without a block.                   *)
THEOREM StoreStaysExact ==
  ASSUME NoWindows
  PROVE  Spec /\ []Roomy => []PoolExact
<1>1. Init => PoolInv
  BY InitInv
<1>2. PoolInv /\ Roomy /\ [Next]_vars => PoolInv'
  BY NextInv
<1>3. PoolInv => PoolExact
  BY InvExact
<1> QED
  BY <1>1, <1>2, <1>3, PTL DEF Spec

(* A reset costs at most one block: the one of a registration between       *)
(* getting its block and CFE_ES_UpdateCDSRegistry.  Nothing else, not the   *)
(* rebuild either, loses a block.                                           *)
THEOREM ResetsLoseOneBlock ==
  ASSUME NoWindows
  PROVE  Spec /\ []Roomy => []LeaksBounded
<1>1. Init => PoolInv
  BY InitInv
<1>2. PoolInv /\ Roomy /\ [Next]_vars => PoolInv'
  BY NextInv
<1>3. PoolInv => LeaksBounded
  BY InvExact
<1> QED
  BY <1>1, <1>2, <1>3, PTL DEF Spec

-----------------------------------------------------------------------------
(* The pool alone: whatever happens to the registry                        *)

SoundInv ==
  /\ TypeOK
  /\ ~Running => \A a \in Apps : pc[a] = "down"
  /\ \A x \in Actors : pc[x] \in Holding => loc[x].idx \in Entries
  /\ \A a \in Apps : pc[a] \in {"allocate", "update"} =>
                       loc[a].size \in Sizes /\ loc[a].name \in Names
  /\ \E E : Tiled(desc, E)
  /\ pc[ES] \in {"begin", "end", "registry"} => desc = [o \in Offsets |-> NULL]
  /\ pc[ES] = "registry" => Current = PoolStart /\ free = [b \in Bins |-> <<>>]
  /\ Running => PoolOK(desc, Current, free)

LEMMA SoundStart ==
  ASSUME SoundInv, ~Running, NEW step \in {"begin", "end", "registry", "idle"},
         Goto(ES, step, NoLoc)
  PROVE  /\ pc' \in [Actors -> Steps] /\ loc' \in [Actors -> LocRec] /\ pc'[ES] = step
         /\ \A a \in Apps : pc'[a] = "down"
         /\ \A x \in Actors : pc'[x] \notin Holding
<1>1. TypeOK /\ step \in Steps
  BY DEF SoundInv, Steps
<1>2. /\ pc' \in [Actors -> Steps] /\ loc' \in [Actors -> LocRec]
      /\ pc'[ES] = step /\ loc'[ES] = NoLoc
      /\ \A y \in Actors : y # ES => pc'[y] = pc[y] /\ loc'[y] = loc[y]
  BY <1>1, GotoFacts, Records, Constants
<1>3. \A a \in Apps : pc'[a] = "down"
  BY <1>2, ActorKinds DEF SoundInv
<1> QED
  BY <1>2, <1>3, ActorKinds DEF Holding

LEMMA StartSound ==
  ASSUME SoundInv, Rebuild \/ InitClear \/ InitBegin \/ InitEnd \/ InitCDSRegistry
  PROVE  SoundInv'
<1>1. PICK E : Tiled(desc, E)
  BY DEF SoundInv
<1>2. TypeOK
  BY DEF SoundInv
<1>3. CASE Rebuild
  <2>1. ~Running /\ Goto(ES, "idle", NoLoc)
    BY <1>3 DEF Rebuild, Running
  <2>2. /\ pc' \in [Actors -> Steps] /\ loc' \in [Actors -> LocRec] /\ pc'[ES] = "idle"
        /\ \A a \in Apps : pc'[a] = "down"
        /\ \A x \in Actors : pc'[x] \notin Holding
    BY <2>1, SoundStart
  <2>3. PICK fr, cur : fr = Rebuilt(BlocksFrom(PoolStart)) /\ cur = RebuiltCurrent(BlocksFrom(PoolStart))
    OBVIOUS
  <2>4. FreeExact(desc, fr) /\ cur \in {E, 0}
    BY <1>1, <2>3, RebuildExact
  <2>5. free' = fr /\ Current' = cur /\ desc' = desc
    BY <1>3, <2>3 DEF Rebuild, savedVars
  <2>6. PoolOK(desc, cur, fr)
    BY <1>1, <2>4 DEF PoolOK
  <2>7. PoolOK(desc, Current, free)' /\ Tiled(desc', E)
    BY <1>1, <2>5, <2>6
  <2>8. fr \in [Bins -> Seq(Offsets)] /\ cur \in Offsets \cup {0}
    BY <1>1, <2>4, EndIsFree DEF FreeExact
  <2>9. Registry' \in [Entries -> RegRec]
    BY <1>2, <1>3, Records DEF Rebuild, TypeOK
  <2>10. TypeOK'
    BY <1>2, <1>3, <2>2, <2>5, <2>8, <2>9 DEF Rebuild, TypeOK, savedVars, LocRec
  <2> QED
    BY <2>2, <2>7, <2>10, ActorKinds DEF SoundInv, Running, Holding
<1>4. CASE InitClear
  <2>1. ~Running /\ Goto(ES, "begin", NoLoc)
    BY <1>4 DEF InitClear, Running
  <2>2. /\ pc' \in [Actors -> Steps] /\ loc' \in [Actors -> LocRec] /\ pc'[ES] = "begin"
        /\ \A a \in Apps : pc'[a] = "down"
        /\ \A x \in Actors : pc'[x] \notin Holding
    BY <2>1, SoundStart
  <2>3. TypeOK'
    BY <1>2, <1>4, <2>2, Records DEF InitClear, TypeOK, LocRec
  <2>4. desc' = [o \in Offsets |-> NULL]
    BY <1>4 DEF InitClear
  <2>5. Tiled(desc', PoolStart)
    BY <2>4, Cleared
  <2> QED
    BY <2>2, <2>3, <2>4, <2>5, ActorKinds DEF SoundInv, Running, Holding
<1>5. CASE InitBegin
  <2>1. ~Running /\ Goto(ES, "end", NoLoc)
    BY <1>5 DEF InitBegin, Running
  <2>2. /\ pc' \in [Actors -> Steps] /\ loc' \in [Actors -> LocRec] /\ pc'[ES] = "end"
        /\ \A a \in Apps : pc'[a] = "down"
        /\ \A x \in Actors : pc'[x] \notin Holding
    BY <2>1, SoundStart
  <2>3. TypeOK'
    BY <1>2, <1>5, <2>2 DEF InitBegin, TypeOK, LocRec, poolVars
  <2>4. desc' = desc /\ desc' = [o \in Offsets |-> NULL]
    BY <1>5 DEF InitBegin, poolVars, SoundInv
  <2>5. Tiled(desc', E)
    BY <1>1, <2>4
  <2> QED
    BY <2>2, <2>3, <2>4, <2>5, ActorKinds DEF SoundInv, Running, Holding
<1>6. CASE InitEnd
  <2>1. ~Running /\ Goto(ES, "registry", NoLoc)
    BY <1>6 DEF InitEnd, Running
  <2>2. /\ pc' \in [Actors -> Steps] /\ loc' \in [Actors -> LocRec] /\ pc'[ES] = "registry"
        /\ \A a \in Apps : pc'[a] = "down"
        /\ \A x \in Actors : pc'[x] \notin Holding
    BY <2>1, SoundStart
  <2>3. PoolStart \in Offsets /\ [b \in Bins |-> <<>>] \in [Bins -> Seq(Offsets)]
    BY OffsetFacts, Constants
  <2>4. TypeOK'
    BY <1>2, <1>6, <2>2, <2>3 DEF InitEnd, TypeOK, LocRec
  <2>5. /\ desc' = desc /\ desc' = [o \in Offsets |-> NULL]
        /\ Current' = PoolStart /\ free' = [b \in Bins |-> <<>>]
    BY <1>6 DEF InitEnd, SoundInv
  <2>6. Tiled(desc', E)
    BY <1>1, <2>5
  <2> QED
    BY <2>2, <2>4, <2>5, <2>6, ActorKinds DEF SoundInv, Running, Holding
<1>7. CASE InitCDSRegistry
  <2>1. ~Running /\ Goto(ES, "idle", NoLoc)
    BY <1>7 DEF InitCDSRegistry, Running
  <2>2. /\ pc' \in [Actors -> Steps] /\ loc' \in [Actors -> LocRec] /\ pc'[ES] = "idle"
        /\ \A a \in Apps : pc'[a] = "down"
        /\ \A x \in Actors : pc'[x] \notin Holding
    BY <2>1, SoundStart
  <2>3. TypeOK'
    BY <1>2, <1>7, <2>2, Records DEF InitCDSRegistry, TypeOK, LocRec, poolVars
  <2>4. /\ desc' = desc /\ desc = [o \in Offsets |-> NULL]
        /\ Current' = PoolStart /\ free' = [b \in Bins |-> <<>>]
    BY <1>7 DEF InitCDSRegistry, poolVars, SoundInv
  <2>5. PoolOK(desc, PoolStart, [b \in Bins |-> <<>>])
    BY <2>4, Cleared
  <2>6. PoolOK(desc, Current, free)' /\ Tiled(desc', E)
    BY <1>1, <2>4, <2>5
  <2> QED
    BY <2>2, <2>3, <2>6, ActorKinds DEF SoundInv, Running, Holding
<1> QED
  BY <1>3, <1>4, <1>5, <1>6, <1>7

(* A step of a running system.                                             *)
LEMMA SoundMove ==
  ASSUME SoundInv, Running, TypeOK', PoolOK(desc', Current', free'),
         NEW x \in Actors, pc'[x] \notin {"boot", "begin", "end", "registry"},
         \A y \in Actors : y # x => pc'[y] = pc[y] /\ loc'[y] = loc[y],
         pc'[x] \in Holding => loc'[x].idx \in Entries,
         x \in Apps /\ pc'[x] \in {"allocate", "update"} =>
            loc'[x].size \in Sizes /\ loc'[x].name \in Names
  PROVE  SoundInv'
<1>1. pc'[ES] \notin {"boot", "begin", "end", "registry"}
  BY Constants DEF Running
<1>2. Running'
  BY <1>1 DEF Running
<1>3. \A y \in Actors : pc'[y] \in Holding => loc'[y].idx \in Entries
  BY DEF SoundInv
<1>4. \A a \in Apps : pc'[a] \in {"allocate", "update"} =>
                        loc'[a].size \in Sizes /\ loc'[a].name \in Names
  BY ActorKinds DEF SoundInv
<1>5. (\E E : Tiled(desc, E))'
  BY DEF PoolOK
<1> QED
  BY <1>1, <1>2, <1>3, <1>4, <1>5 DEF SoundInv

LEMMA SoundFacts ==
  ASSUME SoundInv
  PROVE  /\ TypeOK /\ (Running => PoolOK(desc, Current, free))
         /\ \A a \in Apps : pc[a] # "down" => Running
         /\ \A i \in Entries : Registry[i].MemHandle \in Offsets \cup {0}
BY DEF SoundInv, TypeOK, RegRec

LEMMA ValidHandle ==
  ASSUME NEW h \in Offsets \cup {0}, ValidBlock(h)
  PROVE  h \in Offsets /\ desc[h] # NULL
BY Constants DEF ValidBlock, HandleInRange

LEMMA RegisterSound ==
  ASSUME SoundInv, NEW a \in Apps, NEW n \in Names, NEW size \in SizesOf[n],
         RegisterCDS(a, n, size)
  PROVE  SoundInv'
<1>1. /\ Running /\ pc[a] = "idle"
      /\ UNCHANGED <<ValidityField, savedRegSize, savedRegistry, data, MaxNumRegEntries,
                     Registry, PoolMutex, resets>>
  BY DEF RegisterCDS, Running
<1>2. TypeOK /\ PoolOK(desc, Current, free)
  BY <1>1, SoundFacts
<1>3. size \in Sizes /\ a \in Actors /\ "fault" \in Steps /\ "allocate" \in Steps
  BY ActorKinds DEF Sizes, Steps
<1>4. PICK i : i = Find(n)
  OBVIOUS
<1>5. ASSUME NEW j \in Entries, NEW l, l = [NoLoc EXCEPT !.name = n, !.size = size, !.idx = j]
      PROVE  l \in LocRec /\ l.idx = j /\ l.size = size /\ l.name = n
  BY <1>3, <1>5, Records DEF LocRec, NoLoc
<1>6. CASE Goto(a, "fault", NoLoc) /\ UNCHANGED <<poolVars, RegistryMutex, handle>>
  <2>1. /\ pc' \in [Actors -> Steps] /\ loc' \in [Actors -> LocRec] /\ pc'[a] = "fault"
        /\ \A y \in Actors : y # a => pc'[y] = pc[y] /\ loc'[y] = loc[y]
    BY <1>2, <1>3, <1>6, GotoFacts, Records
  <2>2. TypeOK'
    BY <1>1, <1>2, <1>6, <2>1 DEF TypeOK, LocRec, poolVars
  <2>3. PoolOK(desc', Current', free')
    BY <1>2, <1>6 DEF poolVars
  <2> QED
    BY <1>1, <1>3, <2>1, <2>2, <2>3, SoundMove DEF Holding
<1>7. CASE i # NotFound /\ handle' = [handle EXCEPT ![n] = i]
           /\ UNCHANGED <<poolVars, RegistryMutex, pc, loc>>
  <2>1. i \in Entries
    BY <1>4, <1>7, FindFacts
  <2>2. handle' \in [Names -> Entries \cup {NotFound}]
    BY <1>2, <1>7, <2>1 DEF TypeOK
  <2>3. TypeOK'
    BY <1>1, <1>2, <1>7, <2>2 DEF TypeOK, poolVars
  <2>4. PoolOK(desc', Current', free')
    BY <1>2, <1>7 DEF poolVars
  <2> QED
    BY <1>1, <1>3, <1>7, <2>3, <2>4, SoundMove DEF Holding
<1>8. ASSUME NEW j \in Entries, RegistryMutex' = a,
             handle' = [handle EXCEPT ![n] = NotFound],
             Goto(a, "allocate", [NoLoc EXCEPT !.name = n, !.size = size, !.idx = j]),
             PoolOK(desc', Current', free'), Current' = Current,
             desc' \in [Offsets -> Desc \cup {NULL}], free' \in [Bins -> Seq(Offsets)]
      PROVE  SoundInv'
  <2>1. PICK l : l = [NoLoc EXCEPT !.name = n, !.size = size, !.idx = j]
    OBVIOUS
  <2>2. l \in LocRec /\ l.idx = j /\ l.size = size /\ l.name = n
    BY <1>5, <2>1
  <2>3. /\ pc' \in [Actors -> Steps] /\ loc' \in [Actors -> LocRec] /\ pc'[a] = "allocate"
        /\ loc'[a] = l
        /\ \A y \in Actors : y # a => pc'[y] = pc[y] /\ loc'[y] = loc[y]
    BY <1>2, <1>3, <1>8, <2>1, <2>2, GotoFacts
  <2>4. handle' \in [Names -> Entries \cup {NotFound}]
    BY <1>2, <1>8 DEF TypeOK
  <2>5. TypeOK'
    BY <1>1, <1>2, <1>3, <1>8, <2>3, <2>4 DEF TypeOK, LocRec
  <2> QED
    BY <1>1, <1>3, <1>8, <2>2, <2>3, <2>5, SoundMove
<1>9. CASE /\ i # NotFound /\ PutCDSBlock(Registry[i].MemHandle) /\ RegistryMutex' = a
           /\ handle' = [handle EXCEPT ![n] = NotFound]
           /\ Goto(a, "allocate", [NoLoc EXCEPT !.name = n, !.size = size, !.idx = i])
  <2>1. i \in Entries
    BY <1>4, <1>9, FindFacts
  <2>2. Registry[i].MemHandle \in Offsets
    <3>1. ValidBlock(Registry[i].MemHandle)
      BY <1>9 DEF PutCDSBlock
    <3> QED
      BY <2>1, <3>1, SoundFacts, ValidHandle
  <2>3. /\ PoolOK(desc', Current', free') /\ Current' = Current
        /\ desc' \in [Offsets -> Desc \cup {NULL}] /\ free' \in [Bins -> Seq(Offsets)]
    BY <1>2, <1>9, <2>2, PutFacts
  <2> QED
    BY <1>8, <1>9, <2>1, <2>3
<1>10. CASE /\ FreeEntries # {} /\ RegistryMutex' = a
            /\ handle' = [handle EXCEPT ![n] = NotFound]
            /\ Goto(a, "allocate", [NoLoc EXCEPT !.name = n, !.size = size,
                                                 !.idx = Least(FreeEntries)])
            /\ UNCHANGED poolVars
  <2>1. Least(FreeEntries) \in Entries
    BY <1>10, FreeEntryFacts
  <2>2. /\ PoolOK(desc', Current', free') /\ Current' = Current
        /\ desc' \in [Offsets -> Desc \cup {NULL}] /\ free' \in [Bins -> Seq(Offsets)]
    BY <1>2, <1>10 DEF poolVars, TypeOK
  <2> QED
    BY <1>8, <1>10, <2>1, <2>2
<1> QED
  BY <1>4, <1>6, <1>7, <1>9, <1>10 DEF RegisterCDS

LEMMA AllocateSound ==
  ASSUME SoundInv, NEW a \in Apps, Allocate(a)
  PROVE  SoundInv'
<1>1. /\ pc[a] = "allocate" /\ a \in Actors
      /\ UNCHANGED <<ValidityField, savedRegSize, savedRegistry, data, MaxNumRegEntries,
                     PoolMutex, handle, resets>>
  BY ActorKinds DEF Allocate
<1>2. Running /\ TypeOK /\ PoolOK(desc, Current, free)
  BY <1>1, SoundFacts
<1>3. /\ loc[a].idx \in Entries /\ loc[a].size \in Sizes /\ loc[a].name \in Names
      /\ loc[a] \in LocRec
  BY <1>1, <1>2 DEF SoundInv, Holding, TypeOK, LocRec
<1>4. "update" \in Steps /\ "idle" \in Steps
  BY DEF Steps
<1>5. CASE CanGetCDSBlock(loc[a].size)
  <2>1. PICK size, h, i : size = loc[a].size /\ h = NewBlock(loc[a].size) /\ i = loc[a].idx
    OBVIOUS
  <2>2. PICK e : e = [Name |-> loc[a].name, Size |-> size, Taken |-> TRUE, MemHandle |-> h]
    OBVIOUS
  <2>3. /\ GetCDSBlock(size) /\ Registry' = [Registry EXCEPT ![i] = e]
        /\ Goto(a, "update", loc[a]) /\ RegistryMutex' = RegistryMutex
    BY <1>5, <2>1, <2>2 DEF Allocate
  <2>4. /\ pc' \in [Actors -> Steps] /\ loc' \in [Actors -> LocRec] /\ pc'[a] = "update"
        /\ loc'[a] = loc[a]
        /\ \A y \in Actors : y # a => pc'[y] = pc[y] /\ loc'[y] = loc[y]
    BY <1>1, <1>2, <1>3, <1>4, <2>3, GotoFacts
  <2>5. Current \in Offsets \cup {0} /\ Registry \in [Entries -> RegRec]
    BY <1>2 DEF TypeOK
  <2>6. /\ PoolOK(desc', Current', free') /\ Given(desc, desc', h, size)
        /\ Current' \in Offsets \cup {0}
    BY <1>2, <1>3, <2>1, <2>3, <2>5, GetFacts
  <2>7. e \in RegRec
    BY <1>3, <2>1, <2>2, <2>6 DEF RegRec, Given
  <2>8. Registry' \in [Entries -> RegRec]
    BY <2>3, <2>5, <2>7
  <2>9. desc' \in [Offsets -> Desc \cup {NULL}] /\ free' \in [Bins -> Seq(Offsets)]
    BY <2>6 DEF Given, PoolOK, FreeExact
  <2>10. TypeOK'
    BY <1>1, <1>2, <2>3, <2>4, <2>6, <2>8, <2>9 DEF TypeOK, LocRec
  <2> QED
    BY <1>1, <1>2, <1>3, <2>4, <2>6, <2>10, SoundMove
<1>6. CASE ~CanGetCDSBlock(loc[a].size)
  <2>1. /\ Goto(a, "idle", NoLoc) /\ RegistryMutex' = NULL
        /\ desc' = desc /\ Current' = Current /\ free' = free /\ Registry' = Registry
    BY <1>6 DEF Allocate, poolVars
  <2>2. /\ pc' \in [Actors -> Steps] /\ loc' \in [Actors -> LocRec] /\ pc'[a] = "idle"
        /\ \A y \in Actors : y # a => pc'[y] = pc[y] /\ loc'[y] = loc[y]
    BY <1>1, <1>2, <1>4, <2>1, GotoFacts, Records
  <2>3. TypeOK'
    BY <1>1, <1>2, <2>1, <2>2 DEF TypeOK, LocRec
  <2>4. PoolOK(desc', Current', free')
    BY <1>2, <2>1
  <2> QED
    BY <1>1, <1>2, <2>2, <2>3, <2>4, SoundMove DEF Holding
<1> QED
  BY <1>5, <1>6

LEMMA UpdateSound ==
  ASSUME SoundInv, NEW a \in Apps, Update(a)
  PROVE  SoundInv'
<1>1. /\ pc[a] = "update" /\ savedRegistry' = Registry /\ RegistryMutex' = NULL
      /\ Goto(a, "idle", NoLoc) /\ desc' = desc /\ Current' = Current /\ free' = free
      /\ handle' = [handle EXCEPT ![loc[a].name] = loc[a].idx]
      /\ UNCHANGED <<ValidityField, savedRegSize, data, MaxNumRegEntries, Registry, PoolMutex,
                     resets>>
  BY DEF Update, UpdateCDSRegistry, poolVars
<1>2. Running /\ TypeOK /\ PoolOK(desc, Current, free) /\ a \in Actors /\ "idle" \in Steps
  BY <1>1, SoundFacts, ActorKinds DEF Steps
<1>3. /\ pc' \in [Actors -> Steps] /\ loc' \in [Actors -> LocRec] /\ pc'[a] = "idle"
      /\ loc'[a] = NoLoc
      /\ \A y \in Actors : y # a => pc'[y] = pc[y] /\ loc'[y] = loc[y]
  BY <1>1, <1>2, GotoFacts, Records
<1>4. loc[a].idx \in Entries
  BY <1>1, <1>2 DEF SoundInv, Holding
<1>5. handle' \in [Names -> Entries \cup {NotFound}]
  BY <1>1, <1>2, <1>4 DEF TypeOK
<1>6. TypeOK'
  BY <1>1, <1>2, <1>3, <1>5 DEF TypeOK, LocRec
<1>7. PoolOK(desc', Current', free')
  BY <1>1, <1>2
<1> QED
  BY <1>2, <1>3, <1>6, <1>7, SoundMove DEF Holding

LEMMA AppsSound ==
  ASSUME SoundInv, NEW a \in Apps, StartApp(a) \/ ExitApp(a) \/ CopyDone(a)
  PROVE  SoundInv'
<1>1. /\ TypeOK /\ a \in Actors /\ NoLoc \in LocRec /\ "idle" \in Steps /\ "down" \in Steps
  BY SoundFacts, ActorKinds, Records DEF Steps
<1>2. Running
  BY SoundFacts DEF StartApp, ExitApp, CopyDone, Running
<1>3. /\ desc' = desc /\ Current' = Current /\ free' = free
      /\ UNCHANGED <<ValidityField, savedRegSize, savedRegistry, MaxNumRegEntries, Registry,
                     RegistryMutex, resets>>
  BY DEF StartApp, ExitApp, CopyDone, savedVars, poolVars
<1>4. PICK step \in {"idle", "down"} : Goto(a, step, NoLoc)
  BY DEF StartApp, ExitApp, CopyDone
<1>5. /\ pc' \in [Actors -> Steps] /\ loc' \in [Actors -> LocRec] /\ pc'[a] = step
      /\ loc'[a] = NoLoc
      /\ \A y \in Actors : y # a => pc'[y] = pc[y] /\ loc'[y] = loc[y]
  <2>1. step \in Steps
    BY <1>1
  <2> QED
    BY <1>1, <1>4, <2>1, GotoFacts
<1>6. handle' \in [Names -> Entries \cup {NotFound}]
  BY <1>1 DEF StartApp, ExitApp, CopyDone, TypeOK
<1>7. PoolMutex' \in Actors \cup {NULL}
  BY <1>1 DEF StartApp, ExitApp, CopyDone, TypeOK
<1>8. data' \in [Offsets -> Data \cup {Zero, Torn}]
  <2>1. loc[a].data \in Data \cup {Zero} /\ data \in [Offsets -> Data \cup {Zero, Torn}]
    BY <1>1 DEF TypeOK
  <2> QED
    BY <2>1 DEF StartApp, ExitApp, CopyDone, savedVars
<1>9. TypeOK'
  BY <1>1, <1>3, <1>5, <1>6, <1>7, <1>8 DEF TypeOK, LocRec
<1>10. PoolOK(desc', Current', free')
  BY <1>2, <1>3, SoundFacts
<1> QED
  BY <1>1, <1>2, <1>5, <1>9, <1>10, SoundMove DEF Holding

LEMMA CopySound ==
  ASSUME SoundInv, NEW a \in Apps, NEW n \in Names, NEW d \in DataOf[n], CopyToCDS(a, n, d)
  PROVE  SoundInv'
<1>1. PICK h : h = Registry[handle[n]].MemHandle
  OBVIOUS
<1>2. PICK l : l = [NoLoc EXCEPT !.name = n, !.data = d]
  OBVIOUS
<1>3. /\ pc[a] = "idle" /\ handle[n] # NotFound /\ ValidBlock(h)
      /\ desc' = [desc EXCEPT ![h].CRC = CRC(d)]
      /\ data' = [data EXCEPT ![h] = IF data[h] = d THEN d ELSE Torn]
      /\ PoolMutex' = a /\ Goto(a, "copy", l) /\ RegistryMutex' = RegistryMutex
      /\ Current' = Current /\ free' = free
      /\ UNCHANGED <<ValidityField, savedRegSize, savedRegistry, MaxNumRegEntries, Registry,
                     resets, handle>>
  BY <1>1, <1>2 DEF CopyToCDS
<1>4. Running /\ TypeOK /\ PoolOK(desc, Current, free) /\ a \in Actors /\ "copy" \in Steps
  BY <1>3, SoundFacts, ActorKinds DEF Steps
<1>5. d \in Data
  BY DEF Data
<1>6. h \in Offsets /\ desc[h] # NULL
  <2>1. handle[n] \in Entries
    BY <1>3, <1>4 DEF TypeOK
  <2>2. h \in Offsets \cup {0}
    BY <1>1, <2>1, SoundFacts
  <2> QED
    BY <1>3, <2>2, ValidHandle
<1>7. CRC(d) \in {<<v>> : v \in Data} \cup {ZeroCRC}
  BY <1>5 DEF CRC
<1>8. PoolOK(desc', Current', free') /\ desc' \in [Offsets -> Desc \cup {NULL}]
  BY <1>3, <1>4, <1>6, <1>7, SetCRC
<1>9. l \in LocRec
  BY <1>2, <1>5, Records DEF LocRec
<1>10. /\ pc' \in [Actors -> Steps] /\ loc' \in [Actors -> LocRec] /\ pc'[a] = "copy"
       /\ loc'[a] = l
       /\ \A y \in Actors : y # a => pc'[y] = pc[y] /\ loc'[y] = loc[y]
  BY <1>3, <1>4, <1>9, GotoFacts
<1>11. data' \in [Offsets -> Data \cup {Zero, Torn}]
  BY <1>3, <1>4, <1>5 DEF TypeOK
<1>12. TypeOK'
  BY <1>3, <1>4, <1>8, <1>10, <1>11 DEF TypeOK, LocRec
<1> QED
  BY <1>4, <1>8, <1>10, <1>12, SoundMove DEF Holding

LEMMA DeleteSound ==
  ASSUME SoundInv, NEW n \in Names, DeleteCDS(n)
  PROVE  SoundInv'
<1>1. PICK i : i = Find(n)
  OBVIOUS
<1>2. PICK l : l = [NoLoc EXCEPT !.name = n, !.idx = i]
  OBVIOUS
<1>3. /\ pc[ES] = "idle" /\ i # NotFound
      /\ PutCDSBlock(Registry[i].MemHandle) /\ RegistryMutex' = ES /\ Goto(ES, "remove", l)
      /\ UNCHANGED <<ValidityField, savedRegSize, savedRegistry, data, MaxNumRegEntries,
                     Registry, PoolMutex, handle, resets>>
  BY <1>1, <1>2 DEF DeleteCDS
<1>4. Running /\ TypeOK /\ PoolOK(desc, Current, free) /\ ES \in Actors /\ "remove" \in Steps
  BY <1>3, SoundFacts, Constants DEF Running, Steps
<1>5. i \in Entries
  BY <1>1, <1>3, FindFacts
<1>6. l \in LocRec /\ l.idx = i
  BY <1>2, <1>5, Records DEF LocRec, NoLoc
<1>7. /\ pc' \in [Actors -> Steps] /\ loc' \in [Actors -> LocRec] /\ pc'[ES] = "remove"
      /\ loc'[ES] = l
      /\ \A y \in Actors : y # ES => pc'[y] = pc[y] /\ loc'[y] = loc[y]
  BY <1>3, <1>4, <1>6, GotoFacts
<1>8. Registry[i].MemHandle \in Offsets
  <2>1. ValidBlock(Registry[i].MemHandle)
    BY <1>3 DEF PutCDSBlock
  <2> QED
    BY <1>5, <2>1, SoundFacts, ValidHandle
<1>9. /\ PoolOK(desc', Current', free') /\ Current' = Current
      /\ desc' \in [Offsets -> Desc \cup {NULL}] /\ free' \in [Bins -> Seq(Offsets)]
  BY <1>3, <1>4, <1>8, PutFacts
<1>10. TypeOK'
  BY <1>3, <1>4, <1>7, <1>9 DEF TypeOK, LocRec
<1> QED
  BY <1>4, <1>5, <1>6, <1>7, <1>9, <1>10, SoundMove, ActorKinds

LEMMA RemoveSound ==
  ASSUME SoundInv, Remove
  PROVE  SoundInv'
<1>1. PICK i : i = loc[ES].idx
  OBVIOUS
<1>2. /\ pc[ES] = "remove" /\ Registry' = [Registry EXCEPT ![i].Taken = FALSE]
      /\ savedRegistry' = Registry' /\ RegistryMutex' = NULL /\ Goto(ES, "idle", NoLoc)
      /\ desc' = desc /\ Current' = Current /\ free' = free
      /\ UNCHANGED <<ValidityField, savedRegSize, data, MaxNumRegEntries, PoolMutex, handle,
                     resets>>
  BY <1>1 DEF Remove, poolVars
<1>3. Running /\ TypeOK /\ PoolOK(desc, Current, free) /\ ES \in Actors /\ "idle" \in Steps
  BY <1>2, SoundFacts, Constants DEF Running, Steps
<1>4. /\ pc' \in [Actors -> Steps] /\ loc' \in [Actors -> LocRec] /\ pc'[ES] = "idle"
      /\ loc'[ES] = NoLoc
      /\ \A y \in Actors : y # ES => pc'[y] = pc[y] /\ loc'[y] = loc[y]
  BY <1>2, <1>3, GotoFacts, Records
<1>5. i \in Entries
  BY <1>1, <1>2, <1>3 DEF SoundInv, Holding
<1>6. Registry' \in [Entries -> RegRec]
  <2>1. Registry \in [Entries -> RegRec] /\ Registry[i] \in RegRec
    BY <1>3, <1>5 DEF TypeOK
  <2>2. PICK e : e = [Registry[i] EXCEPT !.Taken = FALSE]
    OBVIOUS
  <2>3. e \in RegRec
    BY <2>1, <2>2 DEF RegRec
  <2>4. Registry' = [Registry EXCEPT ![i] = e]
    BY <1>2, <2>2
  <2> QED
    BY <2>1, <2>3, <2>4
<1>7. TypeOK'
  BY <1>2, <1>3, <1>4, <1>6 DEF TypeOK, LocRec
<1>8. PoolOK(desc', Current', free')
  BY <1>2, <1>3
<1> QED
  BY <1>3, <1>4, <1>7, <1>8, SoundMove, ActorKinds DEF Holding

LEMMA ResetSound ==
  ASSUME SoundInv, ProcessorReset
  PROVE  SoundInv'
<1>1. TypeOK /\ resets \in Nat
  BY SoundFacts, Constants DEF TypeOK
<1>2. /\ resets < MaxResets /\ resets' = resets + 1
      /\ pc' = [x \in Actors |-> IF x = ES THEN "boot" ELSE "down"]
      /\ loc' = [x \in Actors |-> NoLoc]
      /\ RegistryMutex' = NULL /\ PoolMutex' = NULL
      /\ handle' = [n \in Names |-> NotFound]
      /\ Registry' = [i \in Entries |-> FreeEntry] /\ MaxNumRegEntries' = 0
      /\ Current' = 0 /\ free' = [b \in Bins |-> <<>>]
      /\ UNCHANGED <<ValidityField, savedRegSize, savedRegistry, desc, data>>
  BY DEF ProcessorReset, savedVars
<1>3. /\ pc'[ES] = "boot"
      /\ \A a \in Apps : pc'[a] = "down"
      /\ \A x \in Actors : pc'[x] \notin Holding
  BY <1>2, Constants, ActorKinds DEF Holding
<1>4. TypeOK'
  <2>1. /\ pc' \in [Actors -> Steps] /\ loc' \in [Actors -> LocRec]
        /\ Registry' \in [Entries -> RegRec] /\ resets' \in 0 .. MaxResets
        /\ free' \in [Bins -> Seq(Offsets)]
    BY <1>1, <1>2, Records, Constants DEF Steps
  <2> QED
    BY <1>1, <1>2, <2>1 DEF TypeOK, LocRec
<1>5. PICK E : Tiled(desc, E)
  BY DEF SoundInv
<1>6. Tiled(desc', E)
  BY <1>2, <1>5
<1> QED
  BY <1>3, <1>4, <1>6 DEF SoundInv, Running

LEMMA InitSound ==
  ASSUME Init
  PROVE  SoundInv
<1>1. PoolInv
  BY InitInv
<1>2. pc[ES] = "boot" /\ desc = [o \in Offsets |-> NULL]
  BY Constants DEF Init
<1>3. Tiled(desc, PoolStart)
  BY <1>2, Cleared
<1> QED
  BY <1>1, <1>2, <1>3 DEF PoolInv, ControlOK, SoundInv, Running

LEMMA NextSound ==
  ASSUME SoundInv, [Next]_vars
  PROVE  SoundInv'
<1>1. CASE Rebuild \/ InitClear \/ InitBegin \/ InitEnd \/ InitCDSRegistry
  BY <1>1, StartSound
<1>2. ASSUME NEW a \in Apps, StartApp(a) \/ ExitApp(a) \/ CopyDone(a) PROVE SoundInv'
  BY <1>2, AppsSound
<1>3. ASSUME NEW a \in Apps, Allocate(a) PROVE SoundInv'
  BY <1>3, AllocateSound
<1>4. ASSUME NEW a \in Apps, Update(a) PROVE SoundInv'
  BY <1>4, UpdateSound
<1>5. ASSUME NEW a \in Apps, NEW n \in Names, NEW size \in SizesOf[n], RegisterCDS(a, n, size)
      PROVE  SoundInv'
  BY <1>5, RegisterSound
<1>6. ASSUME NEW a \in Apps, NEW n \in Names, NEW d \in DataOf[n], CopyToCDS(a, n, d)
      PROVE  SoundInv'
  BY <1>6, CopySound
<1>7. ASSUME NEW n \in Names, DeleteCDS(n) PROVE SoundInv'
  BY <1>7, DeleteSound
<1>8. CASE Remove
  BY <1>8, RemoveSound
<1>9. CASE ProcessorReset
  BY <1>9, ResetSound
<1>10. CASE UNCHANGED vars
  <2>1. UNCHANGED <<ValidityField, savedRegSize, savedRegistry, desc, data, MaxNumRegEntries,
                    Registry, Current, free, RegistryMutex, PoolMutex, handle, pc, loc, resets>>
    BY <1>10 DEF vars, savedVars
  <2>2. TypeOK'
    BY <2>1 DEF SoundInv, TypeOK
  <2> QED
    BY <2>1, <2>2 DEF SoundInv, Running
<1> QED
  BY <1>1, <1>2, <1>3, <1>4, <1>5, <1>6, <1>7, <1>8, <1>9, <1>10 DEF Next

(* The part of PoolExact that says nothing of the registry.                *)
PoolSound == TypeOK /\ FreeListsExact /\ BlocksTile

(* The pool itself needs no condition: wherever a reset falls, and also     *)
(* after a change of size that found no block, the free lists are those of  *)
(* the blocks not in use and the walk of CFE_ES_RebuildCDSPool meets every  *)
(* block; only the registry's claims on the blocks depend on the windows.   *)
THEOREM PoolStaysSound == Spec => []PoolSound
<1>1. Init => SoundInv
  BY InitSound
<1>2. SoundInv /\ [Next]_vars => SoundInv'
  BY NextSound
<1>3. SoundInv => PoolSound
  <2>1. SUFFICES ASSUME SoundInv PROVE PoolSound
    OBVIOUS
  <2>2. CASE Running
    BY <2>1, <2>2, SoundFacts, PoolShape DEF PoolSound
  <2>3. CASE ~Running
    BY <2>1, <2>3, SoundFacts DEF PoolSound, FreeListsExact, BlocksTile
  <2> QED
    BY <2>2, <2>3
<1> QED
  BY <1>1, <1>2, <1>3, PTL DEF Spec

-----------------------------------------------------------------------------
(* The store: what the blocks hold *)

Busy == Holding \cup {"copy"}

(* Names are registered once, and their blocks are apart.                  *)
Distinct(reg) ==
  /\ Apart(reg)
  /\ \A i, j \in Entries : reg[i].Taken /\ reg[j].Taken /\ reg[i].Name = reg[j].Name => i = j
  /\ \A i \in Entries : reg[i].Taken => reg[i].Size # 0 /\ reg[i].MemHandle \in Offsets

(* A task has a name exactly while it works on it, and nobody else does: a  *)
(* name is its owner's, and ES deletes it only while the owner has no       *)
(* handle to it.                                                            *)
NamesOK ==
  /\ \A x \in Actors : loc[x].name \in Names <=> pc[x] \in Busy
  /\ \A a \in Apps : pc[a] \in Busy => OwnerOf[loc[a].name] = a
  /\ \A x \in Actors : pc[x] \in Holding => handle[loc[x].name] = NotFound
  /\ \A n \in Names : pc[OwnerOf[n]] = "down" => handle[n] = NotFound
  /\ \A n \in Names : handle[n] # NotFound =>
                        Registry[handle[n]].Taken /\ Registry[handle[n]].Name = n

(* A copy holds the pool's mutex and has written its CRC.                  *)
CopyOK(a) ==
  LET h == Registry[handle[loc[a].name]].MemHandle
  IN /\ PoolMutex = a /\ handle[loc[a].name] # NotFound
     /\ ValidBlock(h) /\ desc[h].CRC = CRC(loc[a].data) /\ loc[a].data \in Data

(* The holder of the RegistryMutex works on the entry of its name, or on a  *)
(* free one if there is none.                                               *)
HolderOK(x) ==
  LET e == Registry[loc[x].idx]
      s == savedRegistry[loc[x].idx]
  IN /\ e.Taken => e.Name = loc[x].name
     /\ ~e.Taken => \A i \in Entries : Registry[i].Taken => Registry[i].Name # loc[x].name
     /\ pc[x] = "remove" => e.Taken
     /\ pc[x] = "update" => /\ e.Taken /\ e.Size = loc[x].size
                            /\ desc[e.MemHandle].CRC = ZeroCRC
                            /\ s.Taken => s.Name = loc[x].name

StoreOK ==
  /\ NamesOK /\ Distinct(Registry) /\ Distinct(savedRegistry)
  /\ ValidityField # "both" \/ pc[ES] = "registry" => \A i \in Entries : ~savedRegistry[i].Taken
  /\ \A x \in Actors : pc[x] \in Holding => HolderOK(x)
  /\ \A a \in Apps : pc[a] = "copy" => CopyOK(a)

StoreInv == PoolInv /\ StoreOK

(* A step of CriticalStore, or nothing.                                    *)
StoreStep == Store!StoreNext \/ UNCHANGED <<StoredSize, StoredValue, Doing>>

(* What a saved registry and the memory keep under a name.                 *)
EntryIn(reg, n) ==
  LET found == {i \in Entries : reg[i].Taken /\ reg[i].Name = n}
  IN IF found = {} THEN NotFound ELSE Least(found)
ReadsAs(d, dat, h) ==
  IF HandleInRange(h) /\ d[h] # NULL /\ d[h].Used /\ d[h].CRC = CRC(dat[h]) THEN dat[h] ELSE NULL
SizeIn(reg, n) == IF EntryIn(reg, n) = NotFound THEN 0 ELSE reg[EntryIn(reg, n)].Size
ValueIn(reg, d, dat, n) ==
  IF EntryIn(reg, n) = NotFound THEN NULL ELSE ReadsAs(d, dat, reg[EntryIn(reg, n)].MemHandle)

(* The operation of a task at step p with the locals l.                    *)
OperationAt(p, l) ==
  CASE p = "copy"   -> [kind |-> "copy", data |-> l.data]
    [] p = "remove" -> [kind |-> "delete"]
    [] OTHER        -> [kind |-> "register", size |-> l.size]
DoingIn(p, l, n) ==
  IF \E x \in Actors : l[x].name = n
  THEN LET x == CHOOSE x \in Actors : l[x].name = n IN OperationAt(p[x], l[x]) ELSE NULL

(* The refinement mapping, and the same after a step.                      *)
LEMMA Mapping ==
  /\ StoredSize = [n \in Names |-> SizeIn(savedRegistry, n)]
  /\ StoredSize' = [n \in Names |-> SizeIn(savedRegistry', n)]
  /\ StoredValue = [n \in Names |-> ValueIn(savedRegistry, desc, data, n)]
  /\ StoredValue' = [n \in Names |-> ValueIn(savedRegistry', desc', data', n)]
  /\ Doing = [n \in Names |-> DoingIn(pc, loc, n)]
  /\ Doing' = [n \in Names |-> DoingIn(pc', loc', n)]
<1>1. \A n : SavedEntry(n) = EntryIn(savedRegistry, n)
  BY DEF SavedEntry, EntryIn
<1>2. \A n : SavedEntry(n)' = EntryIn(savedRegistry', n)
  BY DEF SavedEntry, EntryIn
<1>3. \A h : RestoreFromCDS(h) = ReadsAs(desc, data, h)
  BY DEF RestoreFromCDS, ReadsAs, ValidBlock
<1>4. \A h : RestoreFromCDS(h)' = ReadsAs(desc', data', h)
  BY DEF RestoreFromCDS, ReadsAs, ValidBlock, HandleInRange, CRC
<1>5. /\ StoredSize = [n \in Names |-> SizeIn(savedRegistry, n)]
      /\ StoredSize' = [n \in Names |-> SizeIn(savedRegistry', n)]
  BY <1>1, <1>2 DEF StoredSize, SizeIn
<1>6. /\ StoredValue = [n \in Names |-> ValueIn(savedRegistry, desc, data, n)]
      /\ StoredValue' = [n \in Names |-> ValueIn(savedRegistry', desc', data', n)]
  BY <1>1, <1>2, <1>3, <1>4 DEF StoredValue, ValueIn
<1>7. /\ Doing = [n \in Names |-> DoingIn(pc, loc, n)]
      /\ Doing' = [n \in Names |-> DoingIn(pc', loc', n)]
  BY DEF Doing, DoingIn, Operation, OperationAt
<1> QED
  BY <1>5, <1>6, <1>7

(* A name that is registered once.                                         *)
LEMMA EntryIs ==
  ASSUME NEW reg, Distinct(reg), NEW i \in Entries, reg[i].Taken, NEW n, reg[i].Name = n
  PROVE  /\ EntryIn(reg, n) = i /\ SizeIn(reg, n) = reg[i].Size
         /\ \A d, dat : ValueIn(reg, d, dat, n) = ReadsAs(d, dat, reg[i].MemHandle)
<1>1. PICK S : S = {j \in Entries : reg[j].Taken /\ reg[j].Name = n}
  OBVIOUS
<1>2. S = {i}
  BY <1>1 DEF Distinct
<1>3. S \subseteq Nat /\ S # {}
  BY <1>2, Records
<1>4. Least(S) = i
  BY <1>2, <1>3, LeastIs
<1>5. EntryIn(reg, n) = i
  BY <1>1, <1>3, <1>4 DEF EntryIn
<1>6. i # NotFound
  BY Records
<1> QED
  BY <1>5, <1>6 DEF SizeIn, ValueIn

LEMMA NoEntry ==
  ASSUME NEW reg, NEW n, \A i \in Entries : reg[i].Taken => reg[i].Name # n
  PROVE  SizeIn(reg, n) = 0 /\ \A d, dat : ValueIn(reg, d, dat, n) = NULL
<1>1. EntryIn(reg, n) = NotFound
  BY DEF EntryIn
<1> QED
  BY <1>1 DEF SizeIn, ValueIn


(* What a block reads as: nothing if it has been returned, nothing or       *)
(* cleared memory if it is new, its data if the CRC is that of the data.    *)
LEMMA Readings ==
  ASSUME NEW d, NEW dat, NEW h
  PROVE  /\ d[h] # NULL /\ ~d[h].Used => ReadsAs(d, dat, h) = NULL
         /\ d[h].CRC = ZeroCRC => ReadsAs(d, dat, h) \in {Zero, NULL}
         /\ HandleInRange(h) /\ d[h] # NULL /\ d[h].Used /\ d[h].CRC = CRC(dat[h])
              => ReadsAs(d, dat, h) = dat[h]
         /\ \A v \in Data : dat[h] = Torn /\ d[h].CRC = CRC(v) => ReadsAs(d, dat, h) = NULL
<1>1. \A v : v # Zero => CRC(v) = <<v>> /\ CRC(v) # ZeroCRC
  BY DEF CRC, ZeroCRC
<1>2. d[h].CRC = ZeroCRC => ReadsAs(d, dat, h) \in {Zero, NULL}
  BY <1>1 DEF ReadsAs
<1>3. ASSUME NEW v \in Data, dat[h] = Torn, d[h].CRC = CRC(v) PROVE ReadsAs(d, dat, h) = NULL
  <2>1. PICK n \in Names : v \in DataOf[n]
    BY DEF Data
  <2>2. Torn # v /\ Torn # Zero
    BY <2>1, CDSAssumption
  <2>3. CRC(v) # CRC(Torn)
    <3>1. CASE v = Zero
      BY <1>1, <2>2, <3>1 DEF CRC
    <3>2. CASE v # Zero
      BY <1>1, <2>2, <3>2
    <3> QED
      BY <3>1, <3>2
  <2> QED
    BY <1>3, <2>3 DEF ReadsAs
<1> QED
  BY <1>2, <1>3 DEF ReadsAs

(* Nobody works on a name with another.                                    *)
Solo(l) ==
  \A x, y \in Actors : l[x].name \in Names /\ l[x].name = l[y].name => x = y

LEMMA Alone ==
  ASSUME ControlOK, NamesOK, \A a \in Apps : pc[a] = "copy" => CopyOK(a)
  PROVE  Solo(loc)
<1>1. ASSUME NEW x \in Actors, NEW y \in Actors, loc[x].name \in Names,
             loc[x].name = loc[y].name, x # y
      PROVE  FALSE
  <2>1. pc[x] \in Busy /\ pc[y] \in Busy
    BY <1>1 DEF NamesOK
  <2>2. ASSUME NEW a \in Apps, NEW z \in Actors, pc[a] \in Busy, pc[z] \in Holding, z # a
        PROVE  loc[a].name # loc[z].name
    <3>1. a \in Actors
      BY ActorKinds
    <3>2. pc[a] = "copy"
      BY <2>2, <3>1 DEF ControlOK, Busy
    <3>3. handle[loc[a].name] # NotFound
      BY <3>2 DEF CopyOK
    <3>4. handle[loc[z].name] = NotFound
      BY <2>2 DEF NamesOK
    <3> QED
      BY <3>3, <3>4
  <2>3. pc[ES] \in Busy => pc[ES] \in Holding
    BY DEF ControlOK, Busy, Holding
  <2>4. CASE x \in Apps /\ y \in Apps
    BY <1>1, <2>1, <2>4 DEF NamesOK
  <2>5. CASE x = ES
    <3>1. y \in Apps
      BY <1>1, <2>5, ActorKinds
    <3> QED
      BY <1>1, <2>1, <2>2, <2>3, <2>5, <3>1
  <2>6. CASE y = ES
    <3>1. x \in Apps
      BY <1>1, <2>6, ActorKinds
    <3> QED
      BY <1>1, <2>1, <2>2, <2>3, <2>6, <3>1
  <2> QED
    BY <2>4, <2>5, <2>6, ActorKinds
<1> QED
  BY <1>1 DEF Solo

LEMMA DoingOne ==
  ASSUME NEW p, NEW l, Solo(l), NEW x \in Actors, NEW n \in Names, l[x].name = n
  PROVE  DoingIn(p, l, n) = OperationAt(p[x], l[x])
<1>1. PICK y : y = CHOOSE z \in Actors : l[z].name = n
  OBVIOUS
<1>2. y \in Actors /\ l[y].name = n
  BY <1>1
<1>3. y = x
  BY <1>2 DEF Solo
<1> QED
  BY <1>1, <1>2, <1>3 DEF DoingIn

LEMMA DoingNone ==
  ASSUME NEW p, NEW l, NEW n, \A x \in Actors : l[x].name # n
  PROVE  DoingIn(p, l, n) = NULL
BY DEF DoingIn

(* The same tasks do the same to a name.                                   *)
LEMMA DoingSame ==
  ASSUME NEW p, NEW l, NEW p2, NEW l2, Solo(l), Solo(l2), NEW n \in Names,
         \A x \in Actors : l2[x].name = n <=> l[x].name = n,
         \A x \in Actors : l[x].name = n => OperationAt(p2[x], l2[x]) = OperationAt(p[x], l[x])
  PROVE  DoingIn(p2, l2, n) = DoingIn(p, l, n)
<1>1. CASE \E x \in Actors : l[x].name = n
  <2>1. PICK x \in Actors : l[x].name = n
    BY <1>1
  <2>2. l2[x].name = n /\ OperationAt(p2[x], l2[x]) = OperationAt(p[x], l[x])
    BY <2>1
  <2>3. DoingIn(p, l, n) = OperationAt(p[x], l[x])
    BY <2>1, DoingOne
  <2>4. DoingIn(p2, l2, n) = OperationAt(p2[x], l2[x])
    BY <2>2, DoingOne
  <2> QED
    BY <2>2, <2>3, <2>4
<1>2. CASE \A x \in Actors : l[x].name # n
  <2>1. \A x \in Actors : l2[x].name # n
    BY <1>2
  <2> QED
    BY <1>2, <2>1, DoingNone
<1> QED
  BY <1>1, <1>2

(* Only task x moves.                                                      *)
OthersAs(x) == \A y \in Actors : y # x => pc'[y] = pc[y] /\ loc'[y] = loc[y]

(* x, which did nothing, begins an operation on n.                         *)
LEMMA DoingBegins ==
  ASSUME Solo(loc), Solo(loc)', NEW x \in Actors, OthersAs(x), NEW n \in Names,
         loc[x].name \notin Names, loc'[x].name = n
  PROVE  Doing[n] = NULL /\ Doing' = [Doing EXCEPT ![n] = OperationAt(pc'[x], loc'[x])]
<1>1. PICK p, p2, l, l2 : p = pc /\ p2 = pc' /\ l = loc /\ l2 = loc'
  OBVIOUS
<1>2. Solo(l) /\ Solo(l2)
  BY <1>1 DEF Solo
<1>3. \A y \in Actors : y # x => p2[y] = p[y] /\ l2[y] = l[y]
  BY <1>1 DEF OthersAs
<1>4. /\ Doing = [m \in Names |-> DoingIn(p, l, m)]
      /\ Doing' = [m \in Names |-> DoingIn(p2, l2, m)]
  BY <1>1, Mapping
<1>5. \A y \in Actors : l[y].name # n
  BY <1>1, <1>2, <1>3 DEF Solo
<1>6. DoingIn(p, l, n) = NULL
  BY <1>5, DoingNone
<1>7. DoingIn(p2, l2, n) = OperationAt(p2[x], l2[x])
  BY <1>1, <1>2, DoingOne
<1>8. ASSUME NEW m \in Names, m # n PROVE DoingIn(p2, l2, m) = DoingIn(p, l, m)
  <2>1. \A y \in Actors : l2[y].name = m <=> l[y].name = m
    BY <1>1, <1>3, <1>8
  <2>2. \A y \in Actors : l[y].name = m => OperationAt(p2[y], l2[y]) = OperationAt(p[y], l[y])
    BY <1>1, <1>3, <1>8
  <2> QED
    BY <1>2, <2>1, <2>2, DoingSame
<1> QED
  BY <1>1, <1>4, <1>6, <1>7, <1>8

(* x ends its operation on n.                                              *)
LEMMA DoingEnds ==
  ASSUME Solo(loc), Solo(loc)', NEW x \in Actors, OthersAs(x), NEW n \in Names,
         loc[x].name = n, loc'[x].name \notin Names
  PROVE  /\ Doing[n] = OperationAt(pc[x], loc[x])
         /\ Doing' = [Doing EXCEPT ![n] = NULL]
<1>1. PICK p, p2, l, l2 : p = pc /\ p2 = pc' /\ l = loc /\ l2 = loc'
  OBVIOUS
<1>2. Solo(l) /\ Solo(l2)
  BY <1>1 DEF Solo
<1>3. \A y \in Actors : y # x => p2[y] = p[y] /\ l2[y] = l[y]
  BY <1>1 DEF OthersAs
<1>4. /\ Doing = [m \in Names |-> DoingIn(p, l, m)]
      /\ Doing' = [m \in Names |-> DoingIn(p2, l2, m)]
  BY <1>1, Mapping
<1>5. \A y \in Actors : l2[y].name # n
  BY <1>1, <1>2, <1>3 DEF Solo
<1>6. DoingIn(p2, l2, n) = NULL
  BY <1>5, DoingNone
<1>7. DoingIn(p, l, n) = OperationAt(p[x], l[x])
  BY <1>1, <1>2, DoingOne
<1>8. ASSUME NEW m \in Names, m # n PROVE DoingIn(p2, l2, m) = DoingIn(p, l, m)
  <2>1. \A y \in Actors : l2[y].name = m <=> l[y].name = m
    BY <1>1, <1>3, <1>8
  <2>2. \A y \in Actors : l[y].name = m => OperationAt(p2[y], l2[y]) = OperationAt(p[y], l[y])
    BY <1>1, <1>3, <1>8
  <2> QED
    BY <1>2, <2>1, <2>2, DoingSame
<1> QED
  BY <1>1, <1>4, <1>6, <1>7, <1>8

(* x begins and ends nothing.                                              *)
LEMMA DoingStays ==
  ASSUME Solo(loc), Solo(loc)', NEW x \in Actors, OthersAs(x),
         \/ loc[x].name \notin Names /\ loc'[x].name \notin Names
         \/ loc'[x] = loc[x] /\ OperationAt(pc'[x], loc[x]) = OperationAt(pc[x], loc[x])
  PROVE  Doing' = Doing
<1>1. PICK p, p2, l, l2 : p = pc /\ p2 = pc' /\ l = loc /\ l2 = loc'
  OBVIOUS
<1>2. Solo(l) /\ Solo(l2)
  BY <1>1 DEF Solo
<1>3. \A y \in Actors : y # x => p2[y] = p[y] /\ l2[y] = l[y]
  BY <1>1 DEF OthersAs
<1>4. /\ Doing = [m \in Names |-> DoingIn(p, l, m)]
      /\ Doing' = [m \in Names |-> DoingIn(p2, l2, m)]
  BY <1>1, Mapping
<1>5. ASSUME NEW m \in Names PROVE DoingIn(p2, l2, m) = DoingIn(p, l, m)
  <2>1. \A y \in Actors : l2[y].name = m <=> l[y].name = m
    BY <1>1, <1>3
  <2>2. \A y \in Actors : l[y].name = m => OperationAt(p2[y], l2[y]) = OperationAt(p[y], l[y])
    BY <1>1, <1>3
  <2> QED
    BY <1>2, <2>1, <2>2, DoingSame
<1> QED
  BY <1>4, <1>5

LEMMA StoreBegins ==
  ASSUME NEW n \in Names, NEW op \in Store!Operations, Doing[n] = NULL,
         Doing' = [Doing EXCEPT ![n] = op], StoredSize' = StoredSize,
         op.kind # "register" => StoredSize[n] # 0,
         \/ StoredValue' = StoredValue
         \/ StoredValue' = [StoredValue EXCEPT ![n] = NULL]
         \/ op.kind = "copy" /\ StoredValue' = [StoredValue EXCEPT ![n] = op.data]
  PROVE  StoreStep
<1>1. Store!Begin(n, op)
  BY DEF Store!Begin
<1> QED
  BY <1>1 DEF StoreStep, Store!StoreNext

LEMMA OperationKinds ==
  /\ \A v \in Data : [kind |-> "copy", data |-> v] \in Store!Operations
  /\ \A s \in Sizes : [kind |-> "register", size |-> s] \in Store!Operations
  /\ [kind |-> "delete"] \in Store!Operations
  /\ \A op \in Store!Operations : op # NULL
BY IdleAssumption DEF Store!Operations

LEMMA CopyEnds ==
  ASSUME NEW n \in Names, NEW v \in Data, Doing[n] = [kind |-> "copy", data |-> v],
         Doing' = [Doing EXCEPT ![n] = NULL], StoredSize' = StoredSize,
         StoredValue' = [StoredValue EXCEPT ![n] = v]
  PROVE  StoreStep
<1>1. Doing[n] # NULL
  BY OperationKinds
<1>2. Doing[n].kind = "copy" /\ Doing[n].data = v
  OBVIOUS
<1>3. Store!End(n)
  BY <1>1, <1>2 DEF Store!End
<1> QED
  BY <1>3 DEF StoreStep, Store!StoreNext

LEMMA RegisterEnds ==
  ASSUME NEW n \in Names, NEW s \in Sizes, Doing[n] = [kind |-> "register", size |-> s],
         Doing' = [Doing EXCEPT ![n] = NULL],
         \/ /\ StoredSize' = [StoredSize EXCEPT ![n] = s]
            /\ \E v \in {Zero, NULL} : StoredValue' = [StoredValue EXCEPT ![n] = v]
         \/ StoredSize[n] = 0 /\ StoredSize' = StoredSize /\ StoredValue' = StoredValue
  PROVE  StoreStep
<1>1. Doing[n] # NULL
  BY OperationKinds
<1>2. Doing[n].kind = "register" /\ Doing[n].size = s
  OBVIOUS
<1>3. Store!End(n)
  BY <1>1, <1>2 DEF Store!End
<1> QED
  BY <1>3 DEF StoreStep, Store!StoreNext

LEMMA DeleteEnds ==
  ASSUME NEW n \in Names, Doing[n] = [kind |-> "delete"],
         Doing' = [Doing EXCEPT ![n] = NULL],
         StoredSize' = [StoredSize EXCEPT ![n] = 0],
         StoredValue' = [StoredValue EXCEPT ![n] = NULL]
  PROVE  StoreStep
<1>1. Doing[n] # NULL
  BY OperationKinds
<1>2. Doing[n].kind = "delete"
  OBVIOUS
<1>3. Store!End(n)
  BY <1>1, <1>2 DEF Store!End
<1> QED
  BY <1>3 DEF StoreStep, Store!StoreNext

LEMMA RegisterReads ==
  ASSUME NEW n \in Names, NEW s \in Sizes, Doing[n] = [kind |-> "register", size |-> s],
         Doing' = Doing, StoredSize' = StoredSize, NEW v \in {Zero, NULL},
         StoredValue' = [StoredValue EXCEPT ![n] = v]
  PROVE  StoreStep
<1>1. Doing[n] # NULL
  BY OperationKinds
<1>2. Doing[n].kind = "register"
  OBVIOUS
<1>3. Store!Spoil(n)
  BY <1>1, <1>2 DEF Store!Spoil
<1> QED
  BY <1>3 DEF StoreStep, Store!StoreNext

LEMMA StoreSame ==
  ASSUME savedRegistry' = savedRegistry, desc' = desc, data' = data
  PROVE  StoredSize' = StoredSize /\ StoredValue' = StoredValue
BY Mapping

LEMMA EmptyStore ==
  ASSUME NEW reg, \A i \in Entries : ~reg[i].Taken
  PROVE  /\ Distinct(reg)
         /\ \A n : SizeIn(reg, n) = 0 /\ \A d, dat : ValueIn(reg, d, dat, n) = NULL
<1>1. Distinct(reg)
  BY DEF Distinct, Apart
<1> QED
  BY <1>1, NoEntry

-----------------------------------------------------------------------------
(* Start-up and reset *)

LEMMA StoreFacts ==
  ASSUME StoreInv
  PROVE  /\ TypeOK /\ ControlOK /\ NamesOK /\ Solo(loc)
         /\ \A x \in Actors : pc[x] \notin Busy => loc[x].name \notin Names
<1>1. TypeOK /\ ControlOK /\ NamesOK /\ \A a \in Apps : pc[a] = "copy" => CopyOK(a)
  BY DEF StoreInv, PoolInv, StoreOK
<1> QED
  BY <1>1, Alone DEF NamesOK

(* ES starts alone, and nobody has a handle.                               *)
LEMMA StartNames ==
  ASSUME StoreInv, ~Running, NEW step \in {"begin", "end", "registry", "idle"},
         Goto(ES, step, NoLoc), handle' = handle
  PROVE  /\ NamesOK' /\ Doing' = Doing /\ pc'[ES] = step
         /\ \A x \in Actors : pc'[x] \notin Holding /\ pc'[x] # "copy"
<1>1. TypeOK /\ ControlOK /\ NamesOK /\ Solo(loc)
  BY StoreFacts
<1>2. step \in Steps
  BY DEF Steps
<1>3. /\ pc'[ES] = step /\ loc'[ES] = NoLoc
      /\ \A y \in Actors : y # ES => pc'[y] = pc[y] /\ loc'[y] = loc[y]
  BY <1>1, <1>2, GotoFacts, Records, Constants
<1>4. \A a \in Apps : a \in Actors /\ a # ES /\ pc[a] = "down" /\ pc'[a] = "down"
  BY <1>1, <1>3, Constants DEF ControlOK
<1>5. \A x \in Actors : pc'[x] \notin Busy /\ pc[x] \notin Busy
  BY <1>3, <1>4, ActorKinds DEF Holding, Busy, Running
<1>6. \A x \in Actors : loc[x].name \notin Names /\ loc'[x].name \notin Names
  BY <1>1, <1>3, <1>5, Constants DEF NamesOK, NoLoc
<1>7. \A n \in Names : OwnerOf[n] \in Apps /\ handle[n] = NotFound
  BY <1>1, <1>4, Constants DEF NamesOK
<1>8. NamesOK'
  <2>1. \A x \in Actors : pc'[x] \notin Holding
    BY <1>5 DEF Busy
  <2>2. \A a \in Apps : pc'[a] \notin Busy
    BY <1>5, ActorKinds
  <2>3. \A n \in Names : handle'[n] = NotFound
    BY <1>7
  <2> QED
    BY <1>5, <1>6, <2>1, <2>2, <2>3 DEF NamesOK
<1>9. Doing' = Doing
  BY <1>6, Mapping, DoingNone
<1> QED
  BY <1>3, <1>5, <1>8, <1>9 DEF Busy

LEMMA StartStore ==
  ASSUME StoreInv, ~Running, NEW step \in {"begin", "end", "registry", "idle"},
         Goto(ES, step, NoLoc), handle' = handle, Distinct(Registry'), Distinct(savedRegistry'),
         ValidityField' # "both" \/ step = "registry" => \A i \in Entries : ~savedRegistry'[i].Taken,
         StoredSize' = StoredSize, StoredValue' = StoredValue
  PROVE  StoreOK' /\ StoreStep
<1>1. /\ NamesOK' /\ Doing' = Doing /\ pc'[ES] = step
      /\ \A x \in Actors : pc'[x] \notin Holding /\ pc'[x] # "copy"
  BY StartNames
<1>2. Distinct(Registry)' /\ Distinct(savedRegistry)'
  BY DEF Distinct, Apart
<1>3. \A a \in Apps : pc'[a] # "copy"
  BY <1>1, ActorKinds
<1>4. StoreOK'
  BY <1>1, <1>2, <1>3 DEF StoreOK
<1> QED
  BY <1>1, <1>4 DEF StoreStep

(* Before the registry is written, nothing is stored.                      *)
LEMMA NothingStored ==
  ASSUME \A i \in Entries : ~savedRegistry[i].Taken, \A i \in Entries : ~savedRegistry'[i].Taken
  PROVE  /\ StoredSize' = StoredSize /\ StoredValue' = StoredValue
         /\ Distinct(savedRegistry')
BY Mapping, EmptyStore

LEMMA InitClearStores ==
  ASSUME StoreInv, InitClear
  PROVE  StoreOK' /\ StoreStep
<1>1. /\ ~Running /\ Goto(ES, "begin", NoLoc) /\ handle' = handle /\ Registry' = Registry
      /\ ValidityField # "both" /\ savedRegistry' = [i \in Entries |-> FreeEntry]
  BY DEF InitClear, Running
<1>2. \A i \in Entries : ~savedRegistry[i].Taken /\ ~savedRegistry'[i].Taken
  BY <1>1, Records DEF StoreInv, StoreOK
<1>3. Distinct(Registry')
  BY <1>1 DEF StoreInv, StoreOK
<1> QED
  BY <1>1, <1>2, <1>3, NothingStored, StartStore

LEMMA InitBeginStores ==
  ASSUME StoreInv, InitBegin
  PROVE  StoreOK' /\ StoreStep
<1>1. /\ ~Running /\ Goto(ES, "end", NoLoc) /\ handle' = handle /\ Registry' = Registry
      /\ savedRegistry' = savedRegistry /\ ValidityField # "both"
  <2>1. pc[ES] = "begin" /\ StartOK
    BY DEF InitBegin, StoreInv, PoolInv
  <2> QED
    BY <2>1 DEF InitBegin, Running, StartOK
<1>2. \A i \in Entries : ~savedRegistry[i].Taken /\ ~savedRegistry'[i].Taken
  BY <1>1 DEF StoreInv, StoreOK
<1>3. Distinct(Registry')
  BY <1>1 DEF StoreInv, StoreOK
<1> QED
  BY <1>1, <1>2, <1>3, NothingStored, StartStore

LEMMA InitEndStores ==
  ASSUME StoreInv, InitEnd
  PROVE  StoreOK' /\ StoreStep
<1>1. /\ ~Running /\ Goto(ES, "registry", NoLoc) /\ handle' = handle /\ Registry' = Registry
      /\ savedRegistry' = savedRegistry /\ ValidityField # "both"
  <2>1. pc[ES] = "end" /\ StartOK
    BY DEF InitEnd, StoreInv, PoolInv
  <2> QED
    BY <2>1 DEF InitEnd, Running, StartOK
<1>2. \A i \in Entries : ~savedRegistry[i].Taken /\ ~savedRegistry'[i].Taken
  BY <1>1 DEF StoreInv, StoreOK
<1>3. Distinct(Registry')
  BY <1>1 DEF StoreInv, StoreOK
<1> QED
  BY <1>1, <1>2, <1>3, NothingStored, StartStore

LEMMA InitCDSRegistryStores ==
  ASSUME StoreInv, InitCDSRegistry
  PROVE  StoreOK' /\ StoreStep
<1>1. /\ ~Running /\ Goto(ES, "idle", NoLoc) /\ handle' = handle /\ pc[ES] = "registry"
      /\ Registry' = [i \in Entries |-> FreeEntry]
      /\ savedRegistry' = [i \in Entries |-> FreeEntry]
  BY DEF InitCDSRegistry, Running
<1>2. \A i \in Entries : ~savedRegistry[i].Taken /\ ~savedRegistry'[i].Taken /\ ~Registry'[i].Taken
  BY <1>1, Records DEF StoreInv, StoreOK
<1>3. Distinct(Registry')
  BY <1>2, EmptyStore
<1> QED
  BY <1>1, <1>2, <1>3, NothingStored, StartStore

LEMMA RebuildStores ==
  ASSUME StoreInv, Rebuild
  PROVE  StoreOK' /\ StoreStep
<1>1. /\ ~Running /\ Goto(ES, "idle", NoLoc) /\ handle' = handle
      /\ savedRegistry' = savedRegistry /\ desc' = desc /\ data' = data
      /\ ValidityField' = "both"
  BY DEF Rebuild, Running, savedVars
<1>2. Registry' = savedRegistry
  <2>1. TypeOK /\ savedRegSize = MaxEntries
    BY DEF StoreInv, PoolInv, StartOK, Rebuild
  <2>2. Registry' = [i \in Entries |-> savedRegistry[i]]
    BY <2>1, Records DEF Rebuild
  <2> QED
    BY <2>1, <2>2 DEF TypeOK
<1>3. Distinct(Registry') /\ Distinct(savedRegistry')
  BY <1>1, <1>2 DEF StoreInv, StoreOK
<1> QED
  BY <1>1, <1>3, StoreSame, StartStore

(* A reset ends all operations and changes nothing that is stored.         *)
LEMMA ProcessorResetStores ==
  ASSUME StoreInv, NoWindows, ProcessorReset
  PROVE  StoreOK' /\ StoreStep
<1>1. /\ pc[ES] # "registry"
      /\ pc' = [x \in Actors |-> IF x = ES THEN "boot" ELSE "down"]
      /\ loc' = [x \in Actors |-> NoLoc] /\ handle' = [n \in Names |-> NotFound]
      /\ Registry' = [i \in Entries |-> FreeEntry]
      /\ UNCHANGED <<ValidityField, savedRegistry, desc, data>>
  BY DEF ProcessorReset, NoWindows, savedVars
<1>2. \A x \in Actors : pc'[x] \in {"boot", "down"} /\ loc'[x].name \notin Names
  BY <1>1, Constants DEF NoLoc
<1>3. \A x \in Actors : pc'[x] \notin Holding /\ pc'[x] \notin Busy /\ pc'[x] # "copy"
  BY <1>2 DEF Holding, Busy
<1>4. \A a \in Apps : pc'[a] # "copy" /\ pc'[a] \notin Busy
  BY <1>3, ActorKinds
<1>5. \A n \in Names : handle'[n] = NotFound
  BY <1>1
<1>6. NamesOK'
  BY <1>2, <1>3, <1>4, <1>5 DEF NamesOK
<1>7. Distinct(Registry') /\ Distinct(savedRegistry') /\ pc'[ES] = "boot"
  <2>1. \A i \in Entries : ~Registry'[i].Taken
    BY <1>1, Records
  <2>2. Distinct(savedRegistry')
    BY <1>1 DEF StoreInv, StoreOK
  <2> QED
    BY <1>1, <2>1, <2>2, EmptyStore, Constants
<1>8. Distinct(Registry)' /\ Distinct(savedRegistry)'
  BY <1>7 DEF Distinct, Apart
<1>9. ValidityField' # "both" => \A i \in Entries : ~savedRegistry'[i].Taken
  BY <1>1 DEF StoreInv, StoreOK
<1>10. StoreOK'
  BY <1>3, <1>4, <1>6, <1>7, <1>8, <1>9 DEF StoreOK
<1>11. Doing' = [n \in Names |-> NULL]
  BY <1>2, Mapping, DoingNone
<1>12. StoredSize' = StoredSize /\ StoredValue' = StoredValue
  BY <1>1, StoreSame
<1>13. Store!Reset
  BY <1>11, <1>12 DEF Store!Reset
<1> QED
  BY <1>10, <1>13 DEF StoreStep, Store!StoreNext

LEMMA InitStores ==
  ASSUME Init
  PROVE  StoreInv /\ Store!StoreInit
<1>1. /\ pc = [x \in Actors |-> IF x = ES THEN "boot" ELSE "down"]
      /\ loc = [x \in Actors |-> NoLoc] /\ handle = [n \in Names |-> NotFound]
      /\ Registry = [i \in Entries |-> FreeEntry] /\ savedRegistry = [i \in Entries |-> FreeEntry]
      /\ ValidityField = "none"
  BY DEF Init
<1>2. \A x \in Actors : pc[x] \in {"boot", "down"} /\ loc[x].name \notin Names
  BY <1>1, Constants DEF NoLoc
<1>3. \A x \in Actors : pc[x] \notin Holding /\ pc[x] \notin Busy /\ pc[x] # "copy"
  BY <1>2 DEF Holding, Busy
<1>4. \A a \in Apps : pc[a] # "copy" /\ pc[a] \notin Busy
  BY <1>3, ActorKinds
<1>5. NamesOK
  BY <1>1, <1>2, <1>3, <1>4 DEF NamesOK
<1>6. \A i \in Entries : ~Registry[i].Taken /\ ~savedRegistry[i].Taken
  BY <1>1, Records
<1>7. Distinct(Registry) /\ Distinct(savedRegistry)
  BY <1>6, EmptyStore
<1>8. StoreOK
  BY <1>3, <1>4, <1>5, <1>6, <1>7 DEF StoreOK
<1>9. /\ StoredSize = [n \in Names |-> 0] /\ StoredValue = [n \in Names |-> NULL]
      /\ Doing = [n \in Names |-> NULL]
  BY <1>2, <1>6, Mapping, EmptyStore, DoingNone
<1> QED
  BY <1>8, <1>9, InitInv DEF StoreInv, Store!StoreInit

-----------------------------------------------------------------------------
(* Copying *)

(* The entry of a handle is nobody's business but its owner's: it is saved, *)
(* and its block is in use.                                                 *)
LEMMA HandleEntry ==
  ASSUME StoreInv, Running, NEW n \in Names, NEW i, i = handle[n], i # NotFound
  PROVE  /\ i \in Entries /\ Registry[i].Taken /\ Registry[i].Name = n
         /\ savedRegistry[i] = Registry[i] /\ OwnBlock(desc, Registry[i])
         /\ \A x \in Actors : pc[x] \in Holding => loc[x].idx # i
<1>1. TypeOK /\ NamesOK /\ RunOK
  BY DEF StoreInv, StoreOK, PoolInv
<1>2. i \in Entries /\ Registry[i].Taken /\ Registry[i].Name = n
  BY <1>1 DEF TypeOK, NamesOK
<1>3. ASSUME NEW x \in Actors, pc[x] \in Holding PROVE loc[x].idx # i
  <2>1. HolderOK(x) /\ handle[loc[x].name] = NotFound
    BY <1>1, <1>3 DEF StoreInv, StoreOK, NamesOK
  <2> QED
    BY <1>2, <2>1 DEF HolderOK
<1>4. Written(i) /\ i \in Settled
  BY <1>2, <1>3 DEF Written, Settled, TakenEntries, Holding
<1> QED
  BY <1>1, <1>2, <1>3, <1>4 DEF RunOK

(* An application between two calls does nothing to the store.             *)
LEMMA QuietStore ==
  ASSUME StoreInv, NEW a \in Apps, pc[a] \notin Busy, OthersAs(a),
         pc'[a] \in {"down", "idle"}, loc'[a].name \notin Names,
         UNCHANGED <<ValidityField, savedRegistry, desc, data, Registry, PoolMutex>>,
         \A n \in Names : \/ handle'[n] = handle[n]
                          \/ OwnerOf[n] = a /\ handle'[n] = NotFound
                          \/ /\ OwnerOf[n] = a /\ pc'[a] # "down"
                             /\ \A x \in Actors : pc[x] \notin Holding
                             /\ Registry[handle'[n]].Taken /\ Registry[handle'[n]].Name = n,
         pc'[a] = "down" => pc[a] = "down" \/ \A n \in Names : OwnerOf[n] = a => handle'[n] = NotFound
  PROVE  StoreOK' /\ StoreStep
<1>1. /\ TypeOK /\ ControlOK /\ NamesOK /\ Solo(loc) /\ StoreOK
      /\ \A x \in Actors : pc[x] \notin Busy => loc[x].name \notin Names
  BY StoreFacts DEF StoreInv
<1>2. a \in Actors /\ a # ES /\ pc'[a] \notin Busy /\ pc'[a] \notin Holding /\ pc'[a] # "copy"
  BY ActorKinds DEF Busy, Holding
<1>3. \A y \in Actors : y # a => pc'[y] = pc[y] /\ loc'[y] = loc[y]
  BY DEF OthersAs
<1>4. \A x \in Actors : pc'[x] \in Busy => x # a /\ pc'[x] = pc[x] /\ loc'[x] = loc[x] /\ pc[x] \in Busy
  BY <1>2, <1>3
<1>5. \A x \in Actors : pc'[x] \in Holding => x # a /\ pc'[x] = pc[x] /\ loc'[x] = loc[x] /\ pc[x] \in Holding
  BY <1>2, <1>3
<1>6. NamesOK'
  <2>1. \A x \in Actors : loc'[x].name \in Names <=> pc'[x] \in Busy
    BY <1>1, <1>2, <1>3 DEF NamesOK
  <2>2. \A b \in Apps : pc'[b] \in Busy => OwnerOf[loc'[b].name] = b
    BY <1>1, <1>4, ActorKinds DEF NamesOK
  <2>3. ASSUME NEW x \in Actors, pc'[x] \in Holding PROVE handle'[loc'[x].name] = NotFound
    <3>1. pc[x] \in Holding /\ loc'[x] = loc[x] /\ loc[x].name \in Names
      BY <1>1, <1>5, <2>3 DEF NamesOK, Busy
    <3>2. handle[loc[x].name] = NotFound
      BY <1>1, <3>1 DEF NamesOK
    <3> QED
      BY <3>1, <3>2
  <2>4. ASSUME NEW n \in Names, pc'[OwnerOf[n]] = "down" PROVE handle'[n] = NotFound
    <3>1. OwnerOf[n] \in Apps /\ OwnerOf[n] \in Actors
      BY Constants
    <3>2. CASE OwnerOf[n] = a
      <4>1. pc[a] = "down" => handle[n] = NotFound
        BY <1>1, <3>2 DEF NamesOK
      <4> QED
        BY <2>4, <3>2, <4>1
    <3>3. CASE OwnerOf[n] # a
      <4>1. pc[OwnerOf[n]] = "down"
        BY <1>3, <2>4, <3>1, <3>3
      <4>2. handle[n] = NotFound
        BY <1>1, <4>1 DEF NamesOK
      <4> QED
        BY <3>3, <4>2
    <3> QED
      BY <3>2, <3>3
  <2>5. \A n \in Names : handle'[n] # NotFound => Registry'[handle'[n]].Taken /\ Registry'[handle'[n]].Name = n
    BY <1>1 DEF NamesOK
  <2> QED
    BY <2>1, <2>2, <2>3, <2>4, <2>5 DEF NamesOK
<1>7. Distinct(Registry)' /\ Distinct(savedRegistry)'
  BY <1>1 DEF StoreOK, Distinct, Apart
<1>8. pc'[ES] = pc[ES]
  BY <1>2, <1>3, Constants
<1>9. ASSUME NEW x \in Actors, pc'[x] \in Holding PROVE HolderOK(x)'
  <2>1. HolderOK(x) /\ pc'[x] = pc[x] /\ loc'[x] = loc[x]
    BY <1>1, <1>5, <1>9 DEF StoreOK
  <2> QED
    BY <2>1 DEF HolderOK
<1>10. ASSUME NEW b \in Apps, pc'[b] = "copy" PROVE CopyOK(b)'
  <2>1. b # a /\ pc[b] = "copy" /\ loc'[b] = loc[b] /\ b \in Actors
    BY <1>2, <1>3, <1>10, ActorKinds
  <2>2. CopyOK(b) /\ OwnerOf[loc[b].name] = b /\ loc[b].name \in Names
    BY <1>1, <2>1 DEF StoreOK, NamesOK, Busy
  <2>3. handle'[loc[b].name] = handle[loc[b].name]
    BY <2>1, <2>2
  <2> QED
    BY <2>1, <2>2, <2>3 DEF CopyOK, ValidBlock, HandleInRange, CRC
<1>11. StoreOK'
  BY <1>1, <1>6, <1>7, <1>8, <1>9, <1>10 DEF StoreOK
<1>12. Solo(loc)'
  BY <1>1, <1>2, <1>3 DEF Solo
<1>13. Doing' = Doing
  BY <1>1, <1>2, <1>12, DoingStays
<1> QED
  BY <1>11, <1>13, StoreSame DEF StoreStep

LEMMA StartAppStores ==
  ASSUME StoreInv, NEW a \in Apps, StartApp(a)
  PROVE  StoreOK' /\ StoreStep
<1>1. /\ pc[a] = "down" /\ Goto(a, "idle", NoLoc)
      /\ UNCHANGED <<ValidityField, savedRegistry, desc, data, Registry, PoolMutex, handle>>
  BY DEF StartApp, savedVars
<1>2. pc[a] \notin Busy /\ "idle" \in Steps
  BY <1>1 DEF Busy, Holding, Steps
<1>3. /\ pc'[a] = "idle" /\ loc'[a] = NoLoc /\ OthersAs(a)
  BY <1>1, <1>2, StoreFacts, GotoFacts, ActorKinds, Records DEF OthersAs
<1>4. loc'[a].name \notin Names
  BY <1>3, Constants DEF NoLoc
<1> QED
  BY <1>1, <1>2, <1>3, <1>4, QuietStore

LEMMA ExitAppStores ==
  ASSUME StoreInv, NEW a \in Apps, ExitApp(a)
  PROVE  StoreOK' /\ StoreStep
<1>1. /\ pc[a] = "idle" /\ Goto(a, "down", NoLoc)
      /\ handle' = [n \in Names |-> IF OwnerOf[n] = a THEN NotFound ELSE handle[n]]
      /\ UNCHANGED <<ValidityField, savedRegistry, desc, data, Registry, PoolMutex>>
  BY DEF ExitApp, savedVars
<1>2. pc[a] \notin Busy /\ "down" \in Steps
  BY <1>1 DEF Busy, Holding, Steps
<1>3. /\ pc'[a] = "down" /\ loc'[a] = NoLoc /\ OthersAs(a)
  BY <1>1, <1>2, StoreFacts, GotoFacts, ActorKinds, Records DEF OthersAs
<1>4. loc'[a].name \notin Names
  BY <1>3, Constants DEF NoLoc
<1>5. /\ \A n \in Names : handle'[n] = handle[n] \/ (OwnerOf[n] = a /\ handle'[n] = NotFound)
      /\ \A n \in Names : OwnerOf[n] = a => handle'[n] = NotFound
  BY <1>1
<1> QED
  BY <1>1, <1>2, <1>3, <1>4, <1>5, QuietStore

(* A name's entry is kept, and so is its block.                            *)
LEMMA SameMemory ==
  ASSUME NEW reg, NEW n, Distinct(reg), NEW d, NEW d2, NEW dat, NEW dat2,
         \A i \in Entries : reg[i].Taken /\ reg[i].Name = n =>
            /\ d2[reg[i].MemHandle] = d[reg[i].MemHandle]
            /\ dat2[reg[i].MemHandle] = dat[reg[i].MemHandle]
  PROVE  ValueIn(reg, d2, dat2, n) = ValueIn(reg, d, dat, n)
<1>1. CASE \E i \in Entries : reg[i].Taken /\ reg[i].Name = n
  <2>1. PICK i \in Entries : reg[i].Taken /\ reg[i].Name = n
    BY <1>1
  <2>2. PICK h : h = reg[i].MemHandle
    OBVIOUS
  <2>3. d2[h] = d[h] /\ dat2[h] = dat[h]
    BY <2>1, <2>2
  <2>4. /\ ValueIn(reg, d, dat, n) = ReadsAs(d, dat, h)
        /\ ValueIn(reg, d2, dat2, n) = ReadsAs(d2, dat2, h)
    BY <2>1, <2>2, EntryIs
  <2>5. ReadsAs(d2, dat2, h) = ReadsAs(d, dat, h)
    BY <2>3 DEF ReadsAs
  <2> QED
    BY <2>4, <2>5
<1>2. CASE \A i \in Entries : reg[i].Taken => reg[i].Name # n
  BY <1>2, NoEntry
<1> QED
  BY <1>1, <1>2

(* Two registries that agree on a name, over the same memory.              *)
AgreeOn(reg, reg2, n) ==
  \A i \in Entries : (reg[i].Taken /\ reg[i].Name = n) \/ (reg2[i].Taken /\ reg2[i].Name = n)
                     => reg2[i] = reg[i]

LEMMA OtherName ==
  ASSUME NEW reg, NEW reg2, NEW n, Distinct(reg), Distinct(reg2), AgreeOn(reg, reg2, n),
         NEW d, NEW dat
  PROVE  SizeIn(reg2, n) = SizeIn(reg, n) /\ ValueIn(reg2, d, dat, n) = ValueIn(reg, d, dat, n)
<1>1. CASE \E i \in Entries : reg[i].Taken /\ reg[i].Name = n
  <2>1. PICK i \in Entries : reg[i].Taken /\ reg[i].Name = n /\ reg2[i] = reg[i]
    BY <1>1 DEF AgreeOn
  <2>2. PICK h : h = reg[i].MemHandle
    OBVIOUS
  <2>3. SizeIn(reg, n) = reg[i].Size /\ ValueIn(reg, d, dat, n) = ReadsAs(d, dat, h)
    BY <2>1, <2>2, EntryIs
  <2>4. SizeIn(reg2, n) = reg[i].Size /\ ValueIn(reg2, d, dat, n) = ReadsAs(d, dat, h)
    BY <2>1, <2>2, EntryIs
  <2> QED
    BY <2>3, <2>4
<1>2. CASE \A i \in Entries : reg[i].Taken => reg[i].Name # n
  <2>1. \A i \in Entries : reg2[i].Taken => reg2[i].Name # n
    BY <1>2 DEF AgreeOn
  <2> QED
    BY <1>2, <2>1, NoEntry
<1> QED
  BY <1>1, <1>2

(* One entry is kept, and only its block changes.                          *)
LEMMA OneValue ==
  ASSUME savedRegistry' = savedRegistry, Distinct(savedRegistry), NEW n \in Names,
         NEW i \in Entries, savedRegistry[i].Taken, savedRegistry[i].Name = n,
         NEW h, h = savedRegistry[i].MemHandle,
         \A o \in Offsets : o # h => desc'[o] = desc[o] /\ data'[o] = data[o]
  PROVE  /\ StoredSize' = StoredSize /\ StoredSize[n] # 0
         /\ StoredValue' = [StoredValue EXCEPT ![n] = ReadsAs(desc', data', h)]
         /\ StoredValue[n] = ReadsAs(desc, data, h)
<1>1. PICK reg, d, d2, dat, dat2 : reg = savedRegistry /\ d = desc /\ d2 = desc'
                                   /\ dat = data /\ dat2 = data'
  OBVIOUS
<1>2. Distinct(reg) /\ reg[i].Taken /\ reg[i].Name = n /\ reg[i].MemHandle = h
  BY <1>1 DEF Distinct, Apart
<1>3. /\ StoredSize = [m \in Names |-> SizeIn(reg, m)] /\ StoredSize' = [m \in Names |-> SizeIn(reg, m)]
      /\ StoredValue = [m \in Names |-> ValueIn(reg, d, dat, m)]
      /\ StoredValue' = [m \in Names |-> ValueIn(reg, d2, dat2, m)]
  BY <1>1, Mapping
<1>4. SizeIn(reg, n) = reg[i].Size /\ \A e, t : ValueIn(reg, e, t, n) = ReadsAs(e, t, h)
  BY <1>2, EntryIs
<1>5. reg[i].Size # 0
  BY <1>2 DEF Distinct
<1>6. ASSUME NEW m \in Names, m # n PROVE ValueIn(reg, d2, dat2, m) = ValueIn(reg, d, dat, m)
  <2>1. ASSUME NEW j \in Entries, reg[j].Taken, reg[j].Name = m
        PROVE  d2[reg[j].MemHandle] = d[reg[j].MemHandle] /\ dat2[reg[j].MemHandle] = dat[reg[j].MemHandle]
    <3>1. PICK g : g = reg[j].MemHandle
      OBVIOUS
    <3>2. j # i /\ g # h /\ g \in Offsets
      BY <1>2, <1>6, <2>1, <3>1 DEF Distinct, Apart
    <3> QED
      BY <1>1, <3>1, <3>2
  <2> QED
    BY <1>2, <2>1, SameMemory
<1>7. StoredSize[n] # 0 /\ StoredValue[n] = ReadsAs(d, dat, h)
  BY <1>3, <1>4, <1>5
<1>8. StoredValue' = [StoredValue EXCEPT ![n] = ReadsAs(d2, dat2, h)]
  BY <1>3, <1>4, <1>6
<1> QED
  BY <1>1, <1>3, <1>7, <1>8

(* Nobody else works on the name of an application that has its handle, or  *)
(* while nobody holds the RegistryMutex.                                    *)
LEMMA NameFree ==
  ASSUME StoreInv, NEW n \in Names, NEW a \in Apps, OwnerOf[n] = a,
         handle[n] # NotFound \/ \A x \in Actors : pc[x] \notin Holding
  PROVE  \A y \in Actors : y # a => loc[y].name # n
<1>1. NamesOK /\ ControlOK
  BY StoreFacts
<1>2. ASSUME NEW y \in Actors, y # a, loc[y].name = n PROVE FALSE
  <2>1. pc[y] \in Busy
    BY <1>1, <1>2 DEF NamesOK
  <2>2. CASE y \in Apps
    BY <1>1, <1>2, <2>1, <2>2 DEF NamesOK
  <2>3. CASE y = ES
    <3>1. pc[y] \in Holding
      BY <1>1, <2>1, <2>3 DEF ControlOK, Busy
    <3> QED
      BY <1>1, <1>2, <3>1 DEF NamesOK
  <2> QED
    BY <2>2, <2>3, ActorKinds
<1> QED
  BY <1>2

(* Task x moves on: who works on what.                                     *)
LEMMA NamesMove ==
  ASSUME StoreInv, NEW x \in Actors, OthersAs(x), pc'[x] # "down",
         loc'[x].name \in Names <=> pc'[x] \in Busy,
         x \in Apps /\ pc'[x] \in Busy => OwnerOf[loc'[x].name] = x,
         pc'[x] \in Holding => handle'[loc'[x].name] = NotFound,
         loc'[x].name \in Names => \A y \in Actors : y # x => loc[y].name # loc'[x].name,
         \A y \in Actors : y # x /\ pc[y] \in Holding => handle'[loc[y].name] = NotFound,
         \A m \in Names : OwnerOf[m] # x => handle'[m] \in {handle[m], NotFound},
         \A m \in Names : handle'[m] # NotFound
                            => Registry'[handle'[m]].Taken /\ Registry'[handle'[m]].Name = m
  PROVE  NamesOK' /\ Solo(loc)'
<1>1. NamesOK /\ Solo(loc)
  BY StoreFacts
<1>2. \A y \in Actors : y # x => pc'[y] = pc[y] /\ loc'[y] = loc[y]
  BY DEF OthersAs
<1>3. \A y \in Actors : loc'[y].name \in Names <=> pc'[y] \in Busy
  BY <1>1, <1>2 DEF NamesOK
<1>4. \A a \in Apps : pc'[a] \in Busy => OwnerOf[loc'[a].name] = a
  BY <1>1, <1>2, ActorKinds DEF NamesOK
<1>5. \A y \in Actors : pc'[y] \in Holding => handle'[loc'[y].name] = NotFound
  BY <1>2
<1>6. ASSUME NEW m \in Names, pc'[OwnerOf[m]] = "down" PROVE handle'[m] = NotFound
  <2>1. OwnerOf[m] \in Actors /\ OwnerOf[m] # x
    BY <1>6, Constants
  <2>2. pc[OwnerOf[m]] = "down"
    BY <1>2, <1>6, <2>1
  <2>3. handle[m] = NotFound
    BY <1>1, <2>2 DEF NamesOK
  <2> QED
    BY <2>1, <2>3
<1>7. NamesOK'
  BY <1>3, <1>4, <1>5, <1>6 DEF NamesOK
<1>8. Solo(loc)'
  <2>1. ASSUME NEW y \in Actors, NEW z \in Actors, loc'[y].name \in Names, loc'[y].name = loc'[z].name
        PROVE  y = z
    <3>1. CASE y = x \/ z = x
      BY <1>2, <2>1, <3>1
    <3>2. CASE y # x /\ z # x
      BY <1>1, <1>2, <2>1, <3>2 DEF Solo
    <3> QED
      BY <3>1, <3>2
  <2> QED
    BY <2>1 DEF Solo
<1> QED
  BY <1>7, <1>8

(* A holder other than x keeps its entry.                                  *)
LEMMA HolderStays ==
  ASSUME StoreInv, NEW x \in Actors, pc[x] \in Holding, pc'[x] = pc[x], loc'[x] = loc[x],
         UNCHANGED <<Registry, savedRegistry>>, NEW i \in Entries, Registry[i].Taken,
         loc[x].idx # i, \A o \in Offsets : o # Registry[i].MemHandle => desc'[o] = desc[o]
  PROVE  HolderOK(x)'
<1>1. HolderOK(x) /\ Distinct(Registry) /\ loc[x].idx \in Entries
  BY StoreFacts DEF StoreInv, StoreOK, ControlOK
<1>2. ASSUME pc[x] = "update" PROVE desc'[Registry[loc[x].idx].MemHandle] = desc[Registry[loc[x].idx].MemHandle]
  <2>1. Registry[loc[x].idx].Taken
    BY <1>1, <1>2 DEF HolderOK
  <2>2. Registry[loc[x].idx].MemHandle # Registry[i].MemHandle /\ Registry[loc[x].idx].MemHandle \in Offsets
    BY <1>1, <2>1 DEF Distinct, Apart
  <2> QED
    BY <2>2
<1> QED
  BY <1>1, <1>2 DEF HolderOK

LEMMA CopyToCDSStores ==
  ASSUME StoreInv, NEW a \in Apps, NEW n \in Names, NEW v \in DataOf[n], CopyToCDS(a, n, v)
  PROVE  StoreOK' /\ StoreStep
<1>1. PICK i, h, l : i = handle[n] /\ h = Registry[i].MemHandle
                     /\ l = [NoLoc EXCEPT !.name = n, !.data = v]
  OBVIOUS
<1>2. /\ pc[a] = "idle" /\ OwnerOf[n] = a /\ i # NotFound /\ PoolMutex = NULL /\ ValidBlock(h)
      /\ desc' = [desc EXCEPT ![h].CRC = CRC(v)]
      /\ data' = [data EXCEPT ![h] = IF data[h] = v THEN v ELSE Torn]
      /\ PoolMutex' = a /\ Goto(a, "copy", l)
      /\ UNCHANGED <<ValidityField, savedRegistry, Registry, handle>>
  BY <1>1 DEF CopyToCDS
<1>3. /\ TypeOK /\ ControlOK /\ NamesOK /\ Solo(loc) /\ StoreOK
      /\ \A x \in Actors : pc[x] \notin Busy => loc[x].name \notin Names
  BY StoreFacts DEF StoreInv
<1>4. Running
  BY <1>2, <1>3 DEF ControlOK
<1>5. /\ i \in Entries /\ Registry[i].Taken /\ Registry[i].Name = n
      /\ savedRegistry[i] = Registry[i] /\ OwnBlock(desc, Registry[i])
      /\ \A x \in Actors : pc[x] \in Holding => loc[x].idx # i
  BY <1>1, <1>2, <1>4, HandleEntry
<1>6. h \in Offsets /\ desc[h] # NULL /\ desc[h] \in Desc /\ desc[h].Used /\ HandleInRange(h)
  BY <1>1, <1>2, <1>3, <1>5 DEF TypeOK, OwnBlock, ValidBlock
<1>7. v \in Data
  BY DEF Data
<1>8. l \in LocRec /\ l.name = n /\ l.data = v /\ "copy" \in Steps
  BY <1>1, <1>7, Records DEF LocRec, NoLoc, Steps
<1>9. pc'[a] = "copy" /\ loc'[a] = l /\ OthersAs(a) /\ a \in Actors
  BY <1>2, <1>3, <1>8, GotoFacts, ActorKinds DEF OthersAs
<1>10. pc[a] \notin Busy /\ pc[a] \notin Holding /\ "copy" \in Busy /\ "copy" \notin Holding
  BY <1>2 DEF Busy, Holding
<1>11. NamesOK' /\ Solo(loc)'
  <2>1. \A y \in Actors : y # a => loc[y].name # n
    BY <1>1, <1>2, NameFree
  <2>2. \A y \in Actors : y # a /\ pc[y] \in Holding => handle'[loc[y].name] = NotFound
    BY <1>2, <1>3 DEF NamesOK
  <2>3. \A m \in Names : handle'[m] # NotFound
                          => Registry'[handle'[m]].Taken /\ Registry'[handle'[m]].Name = m
    BY <1>2, <1>3 DEF NamesOK
  <2>4. \A m \in Names : handle'[m] \in {handle[m], NotFound}
    BY <1>2
  <2> QED
    BY <1>2, <1>8, <1>9, <1>10, <2>1, <2>2, <2>3, <2>4, NamesMove
<1>12. /\ desc'[h] # NULL /\ desc'[h].Used /\ desc'[h].CRC = CRC(v)
       /\ \A o \in Offsets : o # h => desc'[o] = desc[o] /\ data'[o] = data[o]
       /\ data'[h] = IF data[h] = v THEN v ELSE Torn
  <2>1. desc \in [Offsets -> Desc \cup {NULL}] /\ data \in [Offsets -> Data \cup {Zero, Torn}]
    BY <1>3 DEF TypeOK
  <2>2. PICK r : r = [desc[h] EXCEPT !.CRC = CRC(v)]
    OBVIOUS
  <2>3. r.CRC = CRC(v) /\ r.Used /\ r \in Desc
    <3>1. CRC(v) \in {<<d>> : d \in Data} \cup {ZeroCRC}
      BY <1>7 DEF CRC
    <3> QED
      BY <1>6, <2>2, <3>1 DEF Desc
  <2>4. r # NULL
    BY <2>3, Constants
  <2>5. desc' = [desc EXCEPT ![h] = r]
    BY <1>2, <2>2
  <2> QED
    BY <1>2, <1>6, <2>1, <2>3, <2>4, <2>5
<1>13. ASSUME NEW x \in Actors, pc'[x] \in Holding PROVE HolderOK(x)'
  <2>1. x # a /\ pc[x] \in Holding /\ pc'[x] = pc[x] /\ loc'[x] = loc[x]
    BY <1>9, <1>10, <1>13 DEF OthersAs
  <2>2. loc[x].idx # i
    BY <1>5, <2>1
  <2> QED
    BY <1>1, <1>2, <1>5, <1>12, <2>1, <2>2, HolderStays
<1>14. ASSUME NEW b \in Apps, pc'[b] = "copy" PROVE CopyOK(b)'
  <2>1. b = a
    <3>1. ASSUME b # a PROVE FALSE
      <4>1. b \in Actors /\ pc[b] = "copy"
        BY <1>9, <1>14, <3>1, ActorKinds DEF OthersAs
      <4>2. PoolMutex = b
        BY <1>3, <4>1 DEF StoreOK, CopyOK
      <4> QED
        BY <1>2, <4>1, <4>2, Constants
    <3> QED
      BY <3>1
  <2>2. loc'[b].name = n /\ loc'[b].data = v
    BY <1>8, <1>9, <2>1
  <2>3. Registry'[handle'[n]].MemHandle = h /\ handle'[n] = i
    BY <1>1, <1>2
  <2>4. ValidBlock(h)'
    BY <1>6, <1>12 DEF ValidBlock, HandleInRange
  <2>5. desc'[h].CRC = CRC(v)'
    BY <1>12 DEF CRC
  <2> QED
    BY <1>2, <1>7, <2>1, <2>2, <2>3, <2>4, <2>5 DEF CopyOK, CRC
<1>15. Distinct(Registry)' /\ Distinct(savedRegistry)' /\ pc'[ES] = pc[ES]
  BY <1>2, <1>3, <1>9, ActorKinds, Constants DEF StoreOK, Distinct, Apart, OthersAs
<1>16. StoreOK'
  BY <1>2, <1>3, <1>11, <1>13, <1>14, <1>15 DEF StoreOK
<1>17. /\ StoredSize' = StoredSize /\ StoredSize[n] # 0
       /\ StoredValue' = [StoredValue EXCEPT ![n] = ReadsAs(desc', data', h)]
  <2>1. Distinct(savedRegistry) /\ savedRegistry' = savedRegistry
    BY <1>2, <1>3 DEF StoreOK
  <2> QED
    BY <1>1, <1>5, <1>12, <2>1, OneValue
<1>18. ReadsAs(desc', data', h) \in {v, NULL}
  <2>1. PICK d, dat : d = desc' /\ dat = data'
    OBVIOUS
  <2>2. d[h] # NULL /\ d[h].Used /\ d[h].CRC = CRC(v)
    BY <1>12, <2>1
  <2>3. dat[h] = v \/ dat[h] = Torn
    BY <1>12, <2>1
  <2>4. ReadsAs(d, dat, h) \in {v, NULL}
    BY <1>6, <1>7, <2>2, <2>3, Readings
  <2> QED
    BY <2>1, <2>4
<1>19. PICK op : op = [kind |-> "copy", data |-> v]
  OBVIOUS
<1>20. op \in Store!Operations /\ op.kind = "copy" /\ op.data = v /\ OperationAt("copy", l) = op
  BY <1>7, <1>8, <1>19, OperationKinds DEF OperationAt
<1>21. Doing[n] = NULL /\ Doing' = [Doing EXCEPT ![n] = op]
  BY <1>3, <1>8, <1>9, <1>10, <1>11, <1>20, DoingBegins
<1>22. StoreStep
  BY <1>17, <1>18, <1>20, <1>21, StoreBegins
<1> QED
  BY <1>16, <1>22

LEMMA CopyDoneStores ==
  ASSUME StoreInv, NEW a \in Apps, CopyDone(a)
  PROVE  StoreOK' /\ StoreStep
<1>1. PICK n, i, h, v : n = loc[a].name /\ i = handle[n] /\ h = Registry[i].MemHandle
                        /\ v = loc[a].data
  OBVIOUS
<1>2. /\ pc[a] = "copy" /\ data' = [data EXCEPT ![h] = v]
      /\ PoolMutex' = NULL /\ Goto(a, "idle", NoLoc) /\ desc' = desc
      /\ UNCHANGED <<ValidityField, savedRegistry, Registry, handle>>
  BY <1>1 DEF CopyDone, poolVars
<1>3. /\ TypeOK /\ ControlOK /\ NamesOK /\ Solo(loc) /\ StoreOK
      /\ \A x \in Actors : pc[x] \notin Busy => loc[x].name \notin Names
  BY StoreFacts DEF StoreInv
<1>4. Running
  BY <1>2, <1>3 DEF ControlOK
<1>5. /\ PoolMutex = a /\ i # NotFound /\ ValidBlock(h) /\ desc[h].CRC = CRC(v) /\ v \in Data
      /\ a \in Actors
  BY <1>1, <1>2, <1>3, ActorKinds DEF StoreOK, CopyOK
<1>6. n \in Names /\ OwnerOf[n] = a
  BY <1>1, <1>2, <1>3, <1>5 DEF NamesOK, Busy
<1>7. /\ i \in Entries /\ Registry[i].Taken /\ Registry[i].Name = n
      /\ savedRegistry[i] = Registry[i] /\ OwnBlock(desc, Registry[i])
      /\ \A x \in Actors : pc[x] \in Holding => loc[x].idx # i
  BY <1>1, <1>4, <1>5, <1>6, HandleEntry
<1>8. h \in Offsets
  BY <1>1, <1>7 DEF OwnBlock
<1>9. pc'[a] = "idle" /\ loc'[a] = NoLoc /\ OthersAs(a)
  BY <1>2, <1>3, <1>5, GotoFacts, Records DEF OthersAs, Steps
<1>10. "idle" \notin Busy /\ "idle" \notin Holding /\ NoLoc.name \notin Names
  BY Constants DEF Busy, Holding, NoLoc
<1>11. NamesOK' /\ Solo(loc)'
  <2>1. \A y \in Actors : y # a /\ pc[y] \in Holding => handle'[loc[y].name] = NotFound
    BY <1>2, <1>3 DEF NamesOK
  <2>2. \A m \in Names : handle'[m] # NotFound
                          => Registry'[handle'[m]].Taken /\ Registry'[handle'[m]].Name = m
    BY <1>2, <1>3 DEF NamesOK
  <2>3. \A m \in Names : handle'[m] \in {handle[m], NotFound}
    BY <1>2
  <2> QED
    BY <1>5, <1>9, <1>10, <2>1, <2>2, <2>3, NamesMove
<1>12. /\ \A o \in Offsets : o # h => desc'[o] = desc[o] /\ data'[o] = data[o]
       /\ data'[h] = v
  BY <1>2, <1>3, <1>8 DEF TypeOK
<1>13. ASSUME NEW x \in Actors, pc'[x] \in Holding PROVE HolderOK(x)'
  <2>1. x # a /\ pc[x] \in Holding /\ pc'[x] = pc[x] /\ loc'[x] = loc[x]
    BY <1>9, <1>10, <1>13 DEF OthersAs
  <2>2. loc[x].idx # i
    BY <1>7, <2>1
  <2> QED
    BY <1>1, <1>2, <1>7, <1>12, <2>1, <2>2, HolderStays
<1>14. ASSUME NEW b \in Apps, pc'[b] = "copy" PROVE FALSE
  <2>1. b \in Actors /\ b # a /\ pc[b] = "copy"
    BY <1>9, <1>14, ActorKinds DEF OthersAs
  <2>2. PoolMutex = b
    BY <1>3, <2>1 DEF StoreOK, CopyOK
  <2> QED
    BY <1>5, <2>1, <2>2
<1>15. Distinct(Registry)' /\ Distinct(savedRegistry)' /\ pc'[ES] = pc[ES]
  BY <1>2, <1>3, <1>9, ActorKinds, Constants DEF StoreOK, Distinct, Apart, OthersAs
<1>16. StoreOK'
  BY <1>2, <1>3, <1>11, <1>13, <1>14, <1>15 DEF StoreOK
<1>17. /\ StoredSize' = StoredSize
       /\ StoredValue' = [StoredValue EXCEPT ![n] = ReadsAs(desc', data', h)]
  <2>1. Distinct(savedRegistry) /\ savedRegistry' = savedRegistry
    BY <1>2, <1>3 DEF StoreOK
  <2> QED
    BY <1>1, <1>6, <1>7, <1>12, <2>1, OneValue
<1>18. ReadsAs(desc', data', h) = v
  <2>1. PICK d, dat : d = desc' /\ dat = data'
    OBVIOUS
  <2>2. HandleInRange(h) /\ d[h] # NULL /\ d[h].Used /\ d[h].CRC = CRC(v) /\ dat[h] = v
    BY <1>2, <1>5, <1>12, <2>1 DEF ValidBlock
  <2>3. ReadsAs(d, dat, h) = v
    BY <2>2 DEF ReadsAs
  <2> QED
    BY <2>1, <2>3
<1>19. OperationAt(pc[a], loc[a]) = [kind |-> "copy", data |-> v]
  BY <1>1, <1>2 DEF OperationAt
<1>20. Doing[n] = [kind |-> "copy", data |-> v] /\ Doing' = [Doing EXCEPT ![n] = NULL]
  BY <1>1, <1>3, <1>5, <1>6, <1>9, <1>10, <1>11, <1>19, DoingEnds
<1>21. StoreStep
  BY <1>5, <1>6, <1>17, <1>18, <1>20, CopyEnds
<1> QED
  BY <1>16, <1>21

-----------------------------------------------------------------------------
(* Registering and deleting *)

LEMMA FindNone ==
  ASSUME NEW n, Find(n) = NotFound
  PROVE  \A i \in Entries : Registry[i].Taken => Registry[i].Name # n
<1>1. PICK S : S = {j \in Entries : Registry[j].Taken /\ Registry[j].Name = n}
  OBVIOUS
<1>2. ASSUME S # {} PROVE FALSE
  <2>1. S \subseteq Nat
    BY <1>1, Records
  <2>2. Least(S) \in S
    BY <1>2, <2>1, LeastIs
  <2>3. Find(n) = Least(S)
    BY <1>1, <1>2 DEF Find
  <2> QED
    BY <1>1, <2>2, <2>3, Records
<1> QED
  BY <1>1, <1>2

LEMMA NobodyCopies ==
  ASSUME StoreInv, PoolMutex = NULL
  PROVE  \A b \in Apps : pc[b] # "copy"
BY Constants DEF StoreInv, StoreOK, CopyOK

(* A copy goes on while others register.                                   *)
LEMMA CopyStays ==
  ASSUME StoreInv, NEW b \in Apps, pc[b] = "copy", loc'[b] = loc[b], PoolMutex' = PoolMutex,
         handle'[loc[b].name] = handle[loc[b].name],
         Registry'[handle[loc[b].name]] = Registry[handle[loc[b].name]],
         desc'[Registry[handle[loc[b].name]].MemHandle] = desc[Registry[handle[loc[b].name]].MemHandle]
  PROVE  CopyOK(b)'
<1>1. CopyOK(b)
  BY DEF StoreInv, StoreOK
<1> QED
  BY <1>1 DEF CopyOK, ValidBlock, HandleInRange, CRC

(* x takes the RegistryMutex for entry i, the one of n or a free one.      *)
LEMMA TakeStores ==
  ASSUME StoreInv, Running, NEW x \in Actors, NEW n \in Names, NEW i \in Entries, NEW l,
         \A y \in Actors : pc[y] \notin Holding, pc[x] \notin Busy, OthersAs(x),
         pc'[x] \in {"allocate", "remove"}, loc'[x] = l, l.name = n, l.idx = i,
         \/ x \in Apps /\ OwnerOf[n] = x /\ pc'[x] = "allocate" /\ l.size \in Sizes
         \/ x = ES /\ pc'[x] = "remove" /\ Registry[i].Taken /\ pc[OwnerOf[n]] = "down",
         \/ /\ Registry[i].Taken /\ Registry[i].Name = n
            /\ \A o \in Offsets : o # Registry[i].MemHandle => desc'[o] = desc[o]
            /\ Returned(desc', Registry[i]) /\ PoolMutex = NULL
         \/ /\ ~Registry[i].Taken /\ \A j \in Entries : Registry[j].Taken => Registry[j].Name # n
            /\ desc' = desc,
         handle'[n] = NotFound, \A m \in Names : m # n => handle'[m] = handle[m],
         UNCHANGED <<ValidityField, savedRegistry, data, Registry, PoolMutex>>
  PROVE  StoreOK' /\ StoreStep
<1>1. /\ TypeOK /\ ControlOK /\ NamesOK /\ Solo(loc) /\ StoreOK
      /\ \A y \in Actors : pc[y] \notin Busy => loc[y].name \notin Names
  BY StoreFacts DEF StoreInv
<1>2. RunOK /\ Distinct(savedRegistry) /\ Distinct(Registry) /\ ValidityField = "both"
  BY <1>1 DEF StoreInv, PoolInv, StoreOK, RunOK
<1>3. \A y \in Actors : y # x => pc'[y] = pc[y] /\ loc'[y] = loc[y]
  BY DEF OthersAs
<1>4. pc'[x] \in Busy /\ pc'[x] \in Holding /\ pc'[x] \notin {"down", "update", "copy", "registry"}
  BY DEF Busy, Holding
<1>5. \A y \in Actors : y # x => loc[y].name # n
  <2>1. CASE x \in Apps /\ OwnerOf[n] = x
    BY <2>1, NameFree
  <2>2. CASE x = ES /\ pc[OwnerOf[n]] = "down"
    <3>1. ASSUME NEW y \in Actors, y # x, loc[y].name = n PROVE FALSE
      <4>1. y \in Apps /\ pc[y] \in Busy
        BY <1>1, <2>2, <3>1, ActorKinds DEF NamesOK
      <4>2. OwnerOf[n] = y
        BY <1>1, <3>1, <4>1 DEF NamesOK
      <4> QED
        BY <2>2, <4>1, <4>2 DEF Busy, Holding
    <3> QED
      BY <3>1
  <2> QED
    BY <2>1, <2>2
<1>6. NamesOK' /\ Solo(loc)'
  <2>1. \A m \in Names : handle'[m] \in {handle[m], NotFound}
    OBVIOUS
  <2>2. \A m \in Names : handle'[m] # NotFound
                          => Registry'[handle'[m]].Taken /\ Registry'[handle'[m]].Name = m
    BY <1>1 DEF NamesOK
  <2>3. loc'[x].name = n
    OBVIOUS
  <2>4. x \in Apps => OwnerOf[loc'[x].name] = x
    BY <2>3, ActorKinds
  <2> QED
    BY <1>4, <1>5, <2>1, <2>2, <2>3, <2>4, NamesMove
<1>7. ASSUME NEW y \in Actors, pc'[y] \in Holding PROVE HolderOK(y)'
  <2>1. y = x
    BY <1>3, <1>7
  <2>2. loc'[y].idx = i /\ loc'[y].name = n
    BY <2>1
  <2>3. pc'[y] # "update" /\ (pc'[y] = "remove" => Registry'[i].Taken)
    BY <1>4, <2>1, ActorKinds
  <2>4. /\ Registry'[i].Taken => Registry'[i].Name = n
        /\ ~Registry'[i].Taken => \A j \in Entries : Registry'[j].Taken => Registry'[j].Name # n
    OBVIOUS
  <2> QED
    BY <2>2, <2>3, <2>4 DEF HolderOK
<1>8. ASSUME NEW b \in Apps, pc'[b] = "copy" PROVE CopyOK(b)'
  <2>1. b \in Actors /\ b # x /\ pc[b] = "copy" /\ loc'[b] = loc[b]
    BY <1>3, <1>4, <1>8, ActorKinds
  <2>2. desc' = desc
    BY <2>1, NobodyCopies
  <2>3. loc[b].name \in Names /\ loc[b].name # n
    BY <1>1, <1>5, <2>1 DEF NamesOK, Busy
  <2>4. handle'[loc[b].name] = handle[loc[b].name]
    BY <2>3
  <2> QED
    BY <2>1, <2>2, <2>4, CopyStays
<1>9. Distinct(Registry)' /\ Distinct(savedRegistry)'
  BY <1>2 DEF Distinct, Apart
<1>10. ValidityField' = "both" /\ pc'[ES] # "registry"
  <2>1. pc[ES] # "registry"
    BY DEF Running
  <2> QED
    BY <1>2, <1>3, <1>4, <2>1, Constants
<1>11. StoreOK'
  BY <1>6, <1>7, <1>8, <1>9, <1>10 DEF StoreOK
<1>12. savedRegistry[i] = Registry[i]
  BY <1>2, AllSettled
<1>13. /\ StoredSize' = StoredSize
       /\ StoredValue' = StoredValue \/ StoredValue' = [StoredValue EXCEPT ![n] = NULL]
       /\ Registry[i].Taken => StoredSize[n] # 0
  <2>1. CASE desc' = desc /\ ~Registry[i].Taken
    BY <2>1, StoreSame
  <2>2. CASE /\ Registry[i].Taken /\ Registry[i].Name = n
             /\ \A o \in Offsets : o # Registry[i].MemHandle => desc'[o] = desc[o]
             /\ Returned(desc', Registry[i])
    <3>1. PICK h : h = savedRegistry[i].MemHandle
      OBVIOUS
    <3>2. \A o \in Offsets : o # h => desc'[o] = desc[o] /\ data'[o] = data[o]
      BY <1>12, <2>2, <3>1
    <3>3. /\ StoredSize' = StoredSize /\ StoredSize[n] # 0
          /\ StoredValue' = [StoredValue EXCEPT ![n] = ReadsAs(desc', data', h)]
      BY <1>2, <1>12, <2>2, <3>1, <3>2, OneValue
    <3>4. PICK d, dat : d = desc' /\ dat = data'
      OBVIOUS
    <3>5. d[h] # NULL /\ ~d[h].Used
      BY <1>12, <2>2, <3>1, <3>4 DEF Returned
    <3>6. ReadsAs(d, dat, h) = NULL
      BY <3>5, Readings
    <3> QED
      BY <3>3, <3>4, <3>6
  <2> QED
    BY <2>1, <2>2
<1>14. PICK op : op = OperationAt(pc'[x], l)
  OBVIOUS
<1>15. op \in Store!Operations /\ (op.kind # "register" => Registry[i].Taken)
  <2>1. CASE pc'[x] = "allocate"
    <3>1. op = [kind |-> "register", size |-> l.size] /\ l.size \in Sizes
      BY <1>14, <2>1 DEF OperationAt
    <3> QED
      BY <3>1, OperationKinds
  <2>2. CASE pc'[x] = "remove"
    <3>1. op = [kind |-> "delete"] /\ Registry[i].Taken
      BY <1>14, <2>2 DEF OperationAt
    <3> QED
      BY <3>1, OperationKinds
  <2> QED
    BY <2>1, <2>2
<1>16. Doing[n] = NULL /\ Doing' = [Doing EXCEPT ![n] = op]
  BY <1>1, <1>6, <1>14, DoingBegins
<1>17. StoreStep
  BY <1>13, <1>15, <1>16, StoreBegins
<1> QED
  BY <1>11, <1>17

LEMMA RegisterCDSStores ==
  ASSUME StoreInv, NEW a \in Apps, NEW n \in Names, NEW size \in SizesOf[n],
         RegisterCDS(a, n, size)
  PROVE  StoreOK' /\ StoreStep
<1>1. /\ Running /\ pc[a] = "idle" /\ RegistryMutex = NULL /\ OwnerOf[n] = a
      /\ UNCHANGED <<ValidityField, savedRegistry, data, Registry, PoolMutex>>
  BY DEF RegisterCDS, Running
<1>2. /\ PoolInv /\ TypeOK /\ ControlOK /\ RunOK /\ a \in Actors /\ size \in Sizes
      /\ loc[a].name \notin Names /\ pc[a] \notin Busy
  <2>1. pc[a] \notin Busy /\ a \in Actors /\ size \in Sizes
    BY <1>1, ActorKinds DEF Busy, Holding, Sizes
  <2> QED
    BY <1>1, <2>1, StoreFacts DEF StoreInv, PoolInv
<1>3. ~FindFaults
  BY <1>2, Constants DEF FindFaults, RunOK
<1>4. \A y \in Actors : pc[y] \notin Holding
  BY <1>1, <1>2, NobodyHolds
<1>5. PICK i : i = Find(n)
  OBVIOUS
<1>6. CASE i # NotFound /\ handle' = [handle EXCEPT ![n] = i]
           /\ UNCHANGED <<poolVars, RegistryMutex, pc, loc>>
  <2>1. i \in Entries /\ Registry[i].Taken /\ Registry[i].Name = n
    BY <1>5, <1>6, FindFacts
  <2>2. desc' = desc /\ OthersAs(a) /\ pc'[a] = "idle" /\ loc'[a].name \notin Names
    BY <1>1, <1>2, <1>6 DEF poolVars, OthersAs
  <2>3. handle'[n] = i /\ \A m \in Names : m # n => handle'[m] = handle[m]
    BY <1>2, <1>6 DEF TypeOK
  <2>4. \A m \in Names : \/ handle'[m] = handle[m]
                         \/ OwnerOf[m] = a /\ handle'[m] = NotFound
                         \/ /\ OwnerOf[m] = a /\ pc'[a] # "down"
                            /\ \A x \in Actors : pc[x] \notin Holding
                            /\ Registry[handle'[m]].Taken /\ Registry[handle'[m]].Name = m
    BY <1>1, <1>4, <2>1, <2>2, <2>3
  <2> QED
    BY <1>1, <1>2, <2>2, <2>4, QuietStore
<1>7. ASSUME handle' = [handle EXCEPT ![n] = NotFound]
      PROVE  handle'[n] = NotFound /\ \A m \in Names : m # n => handle'[m] = handle[m]
  BY <1>2, <1>7 DEF TypeOK
<1>8. ASSUME NEW j \in Entries, NEW l, l = [NoLoc EXCEPT !.name = n, !.size = size, !.idx = j],
             Goto(a, "allocate", l)
      PROVE  /\ l.idx = j /\ l.size \in Sizes /\ l.name = n
             /\ OthersAs(a) /\ pc'[a] = "allocate" /\ loc'[a] = l
  <2>1. l \in LocRec /\ l.idx = j /\ l.size = size /\ l.name = n /\ "allocate" \in Steps
    BY <1>2, <1>8, Records DEF LocRec, NoLoc, Steps
  <2> QED
    BY <1>2, <1>8, <2>1, GotoFacts DEF OthersAs
<1>9. CASE /\ i # NotFound /\ PutCDSBlock(Registry[i].MemHandle)
           /\ handle' = [handle EXCEPT ![n] = NotFound]
           /\ Goto(a, "allocate", [NoLoc EXCEPT !.name = n, !.size = size, !.idx = i])
  <2>1. i \in Entries /\ Registry[i].Taken /\ Registry[i].Name = n
    BY <1>5, <1>9, FindFacts
  <2>2. PICK l : l = [NoLoc EXCEPT !.name = n, !.size = size, !.idx = i]
    OBVIOUS
  <2>3. /\ l.idx = i /\ l.size \in Sizes /\ l.name = n
        /\ OthersAs(a) /\ pc'[a] = "allocate" /\ loc'[a] = l
    BY <1>8, <1>9, <2>1, <2>2
  <2>4. /\ \A o \in Offsets : desc'[o] = desc[o] \/ (Registry[i].Taken /\ o = Registry[i].MemHandle)
        /\ Returned(desc', Registry[i]) /\ PoolMutex = NULL
    BY <1>1, <1>2, <1>4, <1>9, <2>1, PutEntry DEF PutCDSBlock
  <2> QED
    BY <1>1, <1>2, <1>4, <1>7, <1>9, <2>1, <2>3, <2>4, TakeStores
<1>10. CASE /\ i = NotFound /\ FreeEntries # {}
            /\ handle' = [handle EXCEPT ![n] = NotFound]
            /\ Goto(a, "allocate", [NoLoc EXCEPT !.name = n, !.size = size,
                                                 !.idx = Least(FreeEntries)])
            /\ UNCHANGED poolVars
  <2>1. PICK j : j = Least(FreeEntries)
    OBVIOUS
  <2>2. j \in Entries /\ ~Registry[j].Taken
    BY <1>10, <2>1, FreeEntryFacts
  <2>3. PICK l : l = [NoLoc EXCEPT !.name = n, !.size = size, !.idx = j]
    OBVIOUS
  <2>4. /\ l.idx = j /\ l.size \in Sizes /\ l.name = n
        /\ OthersAs(a) /\ pc'[a] = "allocate" /\ loc'[a] = l
    BY <1>8, <1>10, <2>1, <2>2, <2>3
  <2>5. \A k \in Entries : Registry[k].Taken => Registry[k].Name # n
    BY <1>5, <1>10, FindNone
  <2>6. desc' = desc
    BY <1>10 DEF poolVars
  <2> QED
    BY <1>1, <1>2, <1>4, <1>7, <1>10, <2>2, <2>4, <2>5, <2>6, TakeStores
<1> QED
  BY <1>3, <1>5, <1>6, <1>9, <1>10 DEF RegisterCDS

LEMMA DeleteCDSStores ==
  ASSUME StoreInv, NEW n \in Names, DeleteCDS(n)
  PROVE  StoreOK' /\ StoreStep
<1>1. PICK i : i = Find(n)
  OBVIOUS
<1>2. PICK l : l = [NoLoc EXCEPT !.name = n, !.idx = i]
  OBVIOUS
<1>3. /\ pc[ES] = "idle" /\ RegistryMutex = NULL /\ i # NotFound /\ pc[OwnerOf[n]] = "down"
      /\ PutCDSBlock(Registry[i].MemHandle) /\ Goto(ES, "remove", l) /\ PoolMutex = NULL
      /\ UNCHANGED <<ValidityField, savedRegistry, data, Registry, PoolMutex, handle>>
  BY <1>1, <1>2 DEF DeleteCDS, MayDelete, PutCDSBlock
<1>4. Running /\ PoolInv /\ TypeOK /\ ControlOK /\ NamesOK /\ ES \in Actors /\ pc[ES] \notin Busy
  BY <1>3, StoreFacts, Constants DEF Running, StoreInv, Busy, Holding
<1>5. \A y \in Actors : pc[y] \notin Holding
  BY <1>3, <1>4, NobodyHolds
<1>6. i \in Entries /\ Registry[i].Taken /\ Registry[i].Name = n
  BY <1>1, <1>3, FindFacts
<1>7. l \in LocRec /\ l.idx = i /\ l.name = n /\ "remove" \in Steps
  BY <1>2, <1>6, Records DEF LocRec, NoLoc, Steps
<1>8. pc'[ES] = "remove" /\ loc'[ES] = l /\ OthersAs(ES)
  BY <1>3, <1>4, <1>7, GotoFacts DEF OthersAs
<1>9. /\ \A o \in Offsets : desc'[o] = desc[o] \/ (Registry[i].Taken /\ o = Registry[i].MemHandle)
      /\ Returned(desc', Registry[i])
  BY <1>3, <1>4, <1>5, <1>6, PutEntry
<1>10. handle'[n] = NotFound /\ \A m \in Names : m # n => handle'[m] = handle[m]
  BY <1>3, <1>4 DEF NamesOK
<1> QED
  BY <1>3, <1>4, <1>5, <1>6, <1>7, <1>8, <1>9, <1>10, TakeStores

LEMMA HolderFacts ==
  ASSUME StoreInv, NEW x \in Actors, pc[x] \in Holding
  PROVE  /\ Running /\ PoolInv /\ StoreOK /\ TypeOK /\ ControlOK /\ NamesOK /\ RunOK /\ Solo(loc)
         /\ HolderOK(x) /\ loc[x].idx \in Entries /\ loc[x].name \in Names
         /\ handle[loc[x].name] = NotFound /\ ValidityField = "both"
         /\ \A y \in Actors : y # x => pc[y] \notin Holding /\ loc[y].name # loc[x].name
         /\ \A m \in Names : handle[m] # NotFound
              => /\ handle[m] \in Entries /\ handle[m] # loc[x].idx
                 /\ Registry[handle[m]].Taken /\ Registry[handle[m]].Name = m
<1>1. PoolInv /\ StoreOK /\ TypeOK /\ ControlOK /\ NamesOK /\ Solo(loc)
  BY StoreFacts DEF StoreInv
<1>2. Running
  <2>1. CASE x = ES
    BY <2>1 DEF Running, Holding
  <2>2. CASE x \in Apps
    BY <1>1, <2>2 DEF ControlOK, Holding
  <2> QED
    BY <2>1, <2>2, ActorKinds
<1>3. RunOK /\ ValidityField = "both"
  BY <1>1, <1>2 DEF PoolInv, RunOK
<1>4. HolderOK(x) /\ loc[x].idx \in Entries /\ loc[x].name \in Names /\ handle[loc[x].name] = NotFound
  BY <1>1 DEF StoreOK, ControlOK, NamesOK, Busy
<1>5. \A y \in Actors : y # x => pc[y] \notin Holding /\ loc[y].name # loc[x].name
  BY <1>1, <1>4 DEF ControlOK, Solo
<1>6. ASSUME NEW m \in Names, handle[m] # NotFound
      PROVE  /\ handle[m] \in Entries /\ handle[m] # loc[x].idx
             /\ Registry[handle[m]].Taken /\ Registry[handle[m]].Name = m
  BY <1>2, <1>6, HandleEntry
<1> QED
  BY <1>1, <1>2, <1>3, <1>4, <1>5, <1>6

(* The holder x of the mutex moves on and keeps the others' entries.       *)
LEMMA HolderMoves ==
  ASSUME StoreInv, NEW x \in Actors, pc[x] \in Holding, OthersAs(x),
         \/ pc'[x] = "update" /\ loc'[x] = loc[x] /\ x \in Apps /\ handle' = handle /\ HolderOK(x)'
         \/ pc'[x] = "idle" /\ loc'[x] = NoLoc,
         \A m \in Names : m # loc[x].name => handle'[m] = handle[m],
         handle'[loc[x].name] # NotFound =>
           /\ Registry'[handle'[loc[x].name]].Taken /\ OwnerOf[loc[x].name] = x
           /\ Registry'[handle'[loc[x].name]].Name = loc[x].name,
         \A j \in Entries : j # loc[x].idx => Registry'[j] = Registry[j],
         desc' = desc \/ PoolMutex = NULL,
         UNCHANGED <<ValidityField, PoolMutex>>, Distinct(Registry'), Distinct(savedRegistry')
  PROVE  StoreOK' /\ Solo(loc)'
<1>1. /\ Running /\ PoolInv /\ StoreOK /\ TypeOK /\ ControlOK /\ NamesOK
      /\ loc[x].name \in Names /\ handle[loc[x].name] = NotFound /\ ValidityField = "both"
      /\ \A y \in Actors : y # x => pc[y] \notin Holding /\ loc[y].name # loc[x].name
      /\ \A m \in Names : handle[m] # NotFound
           => /\ handle[m] \in Entries /\ handle[m] # loc[x].idx
              /\ Registry[handle[m]].Taken /\ Registry[handle[m]].Name = m
  BY HolderFacts
<1>2. \A y \in Actors : y # x => pc'[y] = pc[y] /\ loc'[y] = loc[y]
  BY DEF OthersAs
<1>3. /\ pc'[x] \notin {"down", "copy", "registry"}
      /\ pc'[x] = "update" => pc'[x] \in Busy /\ pc'[x] \in Holding
      /\ pc'[x] = "idle" => pc'[x] \notin Busy /\ pc'[x] \notin Holding
      /\ NoLoc.name \notin Names
  BY Constants DEF Busy, Holding, NoLoc
<1>4. NamesOK' /\ Solo(loc)'
  <2>1. loc'[x].name \in Names <=> pc'[x] \in Busy
    BY <1>1, <1>3
  <2>2. x \in Apps /\ pc'[x] \in Busy => OwnerOf[loc'[x].name] = x
    BY <1>1, <1>3 DEF NamesOK, Busy
  <2>3. pc'[x] \in Holding => handle'[loc'[x].name] = NotFound
    BY <1>1, <1>3
  <2>4. loc'[x].name \in Names => \A y \in Actors : y # x => loc[y].name # loc'[x].name
    BY <1>1, <1>3
  <2>5. \A y \in Actors : y # x /\ pc[y] \in Holding => handle'[loc[y].name] = NotFound
    BY <1>1
  <2>6. \A m \in Names : OwnerOf[m] # x => handle'[m] \in {handle[m], NotFound}
    OBVIOUS
  <2>7. ASSUME NEW m \in Names, handle'[m] # NotFound
        PROVE  Registry'[handle'[m]].Taken /\ Registry'[handle'[m]].Name = m
    <3>1. CASE m = loc[x].name
      BY <2>7, <3>1
    <3>2. CASE m # loc[x].name
      <4>1. PICK k : k = handle[m] /\ k = handle'[m] /\ k # NotFound
        BY <2>7, <3>2
      <4>2. Registry'[k] = Registry[k] /\ Registry[k].Taken /\ Registry[k].Name = m
        BY <1>1, <4>1
      <4> QED
        BY <4>1, <4>2
    <3> QED
      BY <3>1, <3>2
  <2> QED
    BY <1>3, <2>1, <2>2, <2>3, <2>4, <2>5, <2>6, <2>7, NamesMove
<1>5. ASSUME NEW y \in Actors, pc'[y] \in Holding PROVE HolderOK(y)'
  <2>1. y = x
    BY <1>1, <1>2, <1>5
  <2> QED
    BY <1>3, <1>5, <2>1
<1>6. ASSUME NEW b \in Apps, pc'[b] = "copy" PROVE CopyOK(b)'
  <2>1. b \in Actors /\ b # x /\ pc[b] = "copy" /\ loc'[b] = loc[b]
    BY <1>2, <1>3, <1>6, ActorKinds
  <2>2. desc' = desc
    BY <2>1, NobodyCopies
  <2>3. loc[b].name \in Names /\ loc[b].name # loc[x].name /\ handle[loc[b].name] # NotFound
    BY <1>1, <2>1 DEF NamesOK, Busy, StoreOK, CopyOK
  <2>4. /\ handle'[loc[b].name] = handle[loc[b].name]
        /\ Registry'[handle[loc[b].name]] = Registry[handle[loc[b].name]]
    BY <1>1, <2>3
  <2> QED
    BY <2>1, <2>2, <2>4, CopyStays
<1>7. Distinct(Registry)' /\ Distinct(savedRegistry)'
  BY DEF Distinct, Apart
<1>8. ValidityField' = "both" /\ pc'[ES] # "registry"
  <2>1. pc[ES] # "registry"
    BY <1>1 DEF Running
  <2> QED
    BY <1>1, <1>2, <1>3, <2>1, Constants
<1>9. StoreOK'
  BY <1>4, <1>5, <1>6, <1>7, <1>8 DEF StoreOK
<1> QED
  BY <1>4, <1>9

LEMMA AllocateStores ==
  ASSUME StoreInv, Roomy, NEW a \in Apps, Allocate(a)
  PROVE  StoreOK' /\ StoreStep
<1>1. /\ pc[a] = "allocate"
      /\ UNCHANGED <<ValidityField, savedRegistry, data, PoolMutex, handle>>
  BY DEF Allocate
<1>2. a \in Actors /\ pc[a] \in Holding
  BY <1>1, ActorKinds DEF Holding
<1>3. PICK n, size, i : n = loc[a].name /\ size = loc[a].size /\ i = loc[a].idx
  OBVIOUS
<1>4. /\ PoolInv /\ StoreOK /\ TypeOK /\ ControlOK /\ NamesOK /\ RunOK /\ Solo(loc) /\ Running
      /\ HolderOK(a) /\ i \in Entries /\ n \in Names /\ handle[n] = NotFound
      /\ \A y \in Actors : y # a => pc[y] \notin Holding
  BY <1>2, <1>3, HolderFacts
<1>5. size \in Sizes /\ Distinct(Registry) /\ Distinct(savedRegistry)
  BY <1>1, <1>3, <1>4 DEF ControlOK, StoreOK
<1>6. /\ \A j \in Entries : Registry[j].Taken /\ j # i => OwnBlock(desc, Registry[j])
      /\ \A j \in Entries : savedRegistry[j] = Registry[j]
  BY <1>1, <1>2, <1>3, <1>4, OthersSettled
<1>7. /\ Registry[i].Taken => Registry[i].Name = n /\ Returned(desc, Registry[i])
      /\ ~Registry[i].Taken => \A j \in Entries : Registry[j].Taken => Registry[j].Name # n
  BY <1>1, <1>2, <1>3, <1>4 DEF HolderOK, RunOK
<1>8. OperationAt(pc[a], loc[a]) = [kind |-> "register", size |-> size]
      /\ OperationAt("update", loc[a]) = OperationAt(pc[a], loc[a])
  BY <1>1, <1>3 DEF OperationAt
<1>9. CASE CanGetCDSBlock(size)
  <2>1. PICK h, e : h = NewBlock(size)
                    /\ e = [Name |-> n, Size |-> size, Taken |-> TRUE, MemHandle |-> h]
    OBVIOUS
  <2>2. /\ GetCDSBlock(size) /\ Registry' = [Registry EXCEPT ![i] = e]
        /\ Goto(a, "update", loc[a])
    BY <1>3, <1>9, <2>1 DEF Allocate
  <2>3. pc'[a] = "update" /\ loc'[a] = loc[a] /\ OthersAs(a)
    <3>1. loc[a] \in LocRec /\ "update" \in Steps
      BY <1>2, <1>4 DEF TypeOK, LocRec, Steps
    <3> QED
      BY <1>2, <1>4, <2>2, <3>1, GotoFacts DEF OthersAs
  <2>4. PoolMutex = NULL /\ PoolOK(desc, Current, free) /\ Current \in Offsets \cup {0}
    BY <1>4, <2>2 DEF GetCDSBlock, RunOK, TypeOK
  <2>5. Given(desc, desc', h, size)
    BY <1>5, <2>1, <2>2, <2>4, GetFacts
  <2>6. /\ h \in Offsets /\ (desc[h] = NULL \/ ~desc[h].Used)
        /\ desc'[h] # NULL /\ desc'[h].Used
        /\ \A o \in Offsets : o # h => desc'[o] = desc[o]
    BY <2>5 DEF Given
  <2>7. desc'[h].CRC = ZeroCRC
    BY <1>4, <2>1, <2>2, <2>6 DEF GetCDSBlock, TypeOK
  <2>8. Registry'[i] = e /\ \A j \in Entries : j # i => Registry'[j] = Registry[j]
    BY <1>4, <2>2 DEF TypeOK
  <2>9. e.Taken /\ e.Name = n /\ e.Size = size /\ e.MemHandle = h /\ size # 0
    BY <1>5, <2>1, SizesPositive
  <2>10. Distinct(Registry')
    <3>1. ASSUME NEW j \in Entries, Registry[j].Taken, j # i
          PROVE  Registry[j].MemHandle # h /\ Registry[j].Name # n
      <4>1. OwnBlock(desc, Registry[j])
        BY <1>6, <3>1
      <4>2. Registry[j].MemHandle # h
        BY <2>6, <4>1 DEF OwnBlock
      <4>3. Registry[j].Name # n
        BY <1>4, <1>5, <1>7, <3>1 DEF Distinct
      <4> QED
        BY <4>2, <4>3
    <3>2. \A j, k \in Entries : Registry'[j].Taken /\ Registry'[k].Taken /\ j # k
                                => Registry'[j].MemHandle # Registry'[k].MemHandle
      BY <1>5, <2>8, <2>9, <3>1 DEF Distinct, Apart
    <3>3. \A j, k \in Entries : Registry'[j].Taken /\ Registry'[k].Taken
                                /\ Registry'[j].Name = Registry'[k].Name => j = k
      BY <1>5, <2>8, <2>9, <3>1 DEF Distinct
    <3>4. \A j \in Entries : Registry'[j].Taken => Registry'[j].Size # 0 /\ Registry'[j].MemHandle \in Offsets
      BY <1>5, <2>6, <2>8, <2>9 DEF Distinct
    <3> QED
      BY <3>2, <3>3, <3>4 DEF Distinct, Apart
  <2>11. HolderOK(a)'
    <3>1. savedRegistry'[i].Taken => savedRegistry'[i].Name = n
      BY <1>1, <1>4, <1>6, <1>7
    <3>2. loc'[a].idx = i /\ loc'[a].name = n /\ loc'[a].size = size
      BY <1>3, <2>3
    <3> QED
      BY <2>3, <2>7, <2>8, <2>9, <3>1, <3>2 DEF HolderOK
  <2>12. StoreOK' /\ Solo(loc)'
    <3>1. Distinct(savedRegistry')
      BY <1>1, <1>5
    <3>2. handle'[loc[a].name] = NotFound /\ \A m \in Names : handle'[m] = handle[m]
      BY <1>1, <1>3, <1>4
    <3> QED
      BY <1>1, <1>2, <1>3, <2>3, <2>4, <2>8, <2>10, <2>11, <3>1, <3>2, HolderMoves
  <2>13. Doing' = Doing /\ Doing[n] = [kind |-> "register", size |-> size]
    <3>1. Doing' = Doing
      BY <1>2, <1>4, <1>8, <2>3, <2>12, DoingStays
    <3>2. DoingIn(pc, loc, n) = OperationAt(pc[a], loc[a])
      BY <1>2, <1>3, <1>4, DoingOne
    <3> QED
      BY <1>4, <1>8, <3>1, <3>2, Mapping
  <2>14. PICK reg, d, d2, dat : reg = savedRegistry /\ d = desc /\ d2 = desc' /\ dat = data
    OBVIOUS
  <2>15. /\ StoredSize' = StoredSize
         /\ StoredValue = [m \in Names |-> ValueIn(reg, d, dat, m)]
         /\ StoredValue' = [m \in Names |-> ValueIn(reg, d2, dat, m)]
    BY <1>1, <2>14, Mapping
  <2>16. ASSUME NEW m \in Names, m # n PROVE ValueIn(reg, d2, dat, m) = ValueIn(reg, d, dat, m)
    <3>1. ASSUME NEW j \in Entries, reg[j].Taken, reg[j].Name = m
          PROVE  d2[reg[j].MemHandle] = d[reg[j].MemHandle]
      <4>1. j # i /\ reg[j] = Registry[j] /\ Registry[j].Taken
        BY <1>4, <1>6, <1>7, <2>14, <2>16, <3>1
      <4>2. OwnBlock(desc, Registry[j])
        BY <1>6, <4>1
      <4>3. PICK g : g = reg[j].MemHandle
        OBVIOUS
      <4>4. g \in Offsets /\ desc[g] # NULL /\ desc[g].Used
        BY <4>1, <4>2, <4>3 DEF OwnBlock
      <4>5. g # h
        BY <2>6, <4>4
      <4> QED
        BY <2>6, <2>14, <4>3, <4>4, <4>5
    <3>2. Distinct(reg)
      BY <1>5, <2>14
    <3>3. \A j \in Entries : reg[j].Taken /\ reg[j].Name = m =>
             /\ d2[reg[j].MemHandle] = d[reg[j].MemHandle]
             /\ dat[reg[j].MemHandle] = dat[reg[j].MemHandle]
      BY <3>1
    <3> QED
      BY <3>2, <3>3, SameMemory
  <2>17. ValueIn(reg, d2, dat, n) \in {Zero, NULL}
    <3>1. CASE Registry[i].Taken
      <4>1. reg[i] = Registry[i] /\ Distinct(reg)
        BY <1>4, <1>5, <1>6, <2>14
      <4>2. ValueIn(reg, d2, dat, n) = ReadsAs(d2, dat, reg[i].MemHandle)
        BY <1>4, <1>7, <3>1, <4>1, EntryIs
      <4>3. CASE reg[i].MemHandle = h
        <5>1. d2[h].CRC = ZeroCRC
          BY <2>7, <2>14
        <5> QED
          BY <4>2, <4>3, <5>1, Readings
      <4>4. CASE reg[i].MemHandle # h
        <5>1. PICK g : g = reg[i].MemHandle
          OBVIOUS
        <5>2. g \in Offsets /\ desc[g] # NULL /\ ~desc[g].Used
          BY <1>7, <3>1, <4>1, <5>1 DEF Returned
        <5>3. d2[g] # NULL /\ ~d2[g].Used
          BY <2>6, <2>14, <4>4, <5>1, <5>2
        <5> QED
          BY <4>2, <5>1, <5>3, Readings
      <4> QED
        BY <4>3, <4>4
    <3>2. CASE ~Registry[i].Taken
      <4>1. \A j \in Entries : reg[j].Taken => reg[j].Name # n
        BY <1>6, <1>7, <2>14, <3>2
      <4> QED
        BY <4>1, NoEntry
    <3> QED
      BY <3>1, <3>2
  <2>18. PICK v \in {Zero, NULL} : v = ValueIn(reg, d2, dat, n)
    BY <2>17
  <2>19. StoredValue' = [StoredValue EXCEPT ![n] = v]
    BY <2>15, <2>16, <2>18
  <2>20. StoreStep
    BY <1>4, <1>5, <2>13, <2>15, <2>19, RegisterReads
  <2> QED
    BY <2>12, <2>20
<1>10. CASE ~CanGetCDSBlock(size)
  <2>1. Goto(a, "idle", NoLoc) /\ desc' = desc /\ Registry' = Registry
    BY <1>3, <1>10 DEF Allocate, poolVars
  <2>2. pc'[a] = "idle" /\ loc'[a] = NoLoc /\ OthersAs(a)
    BY <1>2, <1>4, <2>1, GotoFacts, Records DEF OthersAs, Steps
  <2>3. StoreOK' /\ Solo(loc)'
    <3>1. Distinct(savedRegistry') /\ Distinct(Registry')
      BY <1>1, <1>5, <2>1
    <3>2. handle'[loc[a].name] = NotFound /\ \A m \in Names : handle'[m] = handle[m]
      BY <1>1, <1>3, <1>4
    <3> QED
      BY <1>1, <1>2, <1>3, <2>1, <2>2, <3>1, <3>2, HolderMoves
  <2>4. ~Registry[i].Taken
    BY <1>1, <1>3, <1>10 DEF Roomy
  <2>5. \A j \in Entries : savedRegistry[j].Taken => savedRegistry[j].Name # n
    BY <1>6, <1>7, <2>4
  <2>6. StoredSize[n] = 0
    BY <1>4, <2>5, NoEntry, Mapping
  <2>7. NoLoc.name \notin Names
    BY Constants DEF NoLoc
  <2>8. /\ Doing[n] = [kind |-> "register", size |-> size]
        /\ Doing' = [Doing EXCEPT ![n] = NULL]
    BY <1>2, <1>3, <1>4, <1>8, <2>2, <2>3, <2>7, DoingEnds
  <2>9. StoredSize' = StoredSize /\ StoredValue' = StoredValue
    BY <1>1, <2>1, StoreSame
  <2>10. StoreStep
    BY <1>4, <1>5, <2>6, <2>8, <2>9, RegisterEnds
  <2> QED
    BY <2>3, <2>10
<1> QED
  BY <1>9, <1>10

LEMMA UpdateStores ==
  ASSUME StoreInv, NEW a \in Apps, Update(a)
  PROVE  StoreOK' /\ StoreStep
<1>1. /\ pc[a] = "update" /\ savedRegistry' = Registry /\ Goto(a, "idle", NoLoc)
      /\ handle' = [handle EXCEPT ![loc[a].name] = loc[a].idx] /\ desc' = desc
      /\ UNCHANGED <<ValidityField, data, Registry, PoolMutex>>
  BY DEF Update, UpdateCDSRegistry, poolVars
<1>2. a \in Actors /\ pc[a] \in Holding
  BY <1>1, ActorKinds DEF Holding
<1>3. PICK n, size, i : n = loc[a].name /\ size = loc[a].size /\ i = loc[a].idx
  OBVIOUS
<1>4. /\ StoreOK /\ TypeOK /\ ControlOK /\ NamesOK /\ RunOK /\ Solo(loc)
      /\ HolderOK(a) /\ i \in Entries /\ n \in Names
      /\ \A y \in Actors : y # a => pc[y] \notin Holding
  BY <1>2, <1>3, HolderFacts
<1>5. /\ size \in Sizes /\ Distinct(Registry) /\ Distinct(savedRegistry) /\ OwnerOf[n] = a
      /\ NoLoc.name \notin Names
  BY <1>1, <1>3, <1>4, Constants DEF ControlOK, StoreOK, NamesOK, Busy, Holding, NoLoc
<1>6. \A j \in Entries : j # i => savedRegistry[j] = Registry[j]
  BY <1>2, <1>3, <1>4, OthersSettled
<1>7. /\ Registry[i].Taken /\ Registry[i].Name = n /\ Registry[i].Size = size
      /\ desc[Registry[i].MemHandle].CRC = ZeroCRC
      /\ savedRegistry[i].Taken => savedRegistry[i].Name = n
  BY <1>1, <1>3, <1>4 DEF HolderOK
<1>8. pc'[a] = "idle" /\ loc'[a] = NoLoc /\ OthersAs(a)
  BY <1>1, <1>2, <1>4, GotoFacts, Records DEF OthersAs, Steps
<1>9. StoreOK' /\ Solo(loc)'
  <2>1. Distinct(savedRegistry') /\ Distinct(Registry')
    BY <1>1, <1>5
  <2>2. handle'[n] = i /\ \A m \in Names : m # n => handle'[m] = handle[m]
    BY <1>1, <1>3, <1>4 DEF TypeOK
  <2> QED
    BY <1>1, <1>2, <1>3, <1>5, <1>7, <1>8, <2>1, <2>2, HolderMoves
<1>10. OperationAt(pc[a], loc[a]) = [kind |-> "register", size |-> size]
  BY <1>1, <1>3 DEF OperationAt
<1>11. /\ Doing[n] = [kind |-> "register", size |-> size]
       /\ Doing' = [Doing EXCEPT ![n] = NULL]
  BY <1>2, <1>3, <1>4, <1>5, <1>8, <1>9, <1>10, DoingEnds
<1>12. PICK reg, reg2, d, dat : reg = savedRegistry /\ reg2 = Registry /\ d = desc /\ dat = data
  OBVIOUS
<1>13. /\ StoredSize = [m \in Names |-> SizeIn(reg, m)]
       /\ StoredSize' = [m \in Names |-> SizeIn(reg2, m)]
       /\ StoredValue = [m \in Names |-> ValueIn(reg, d, dat, m)]
       /\ StoredValue' = [m \in Names |-> ValueIn(reg2, d, dat, m)]
  BY <1>1, <1>12, Mapping
<1>14. Distinct(reg) /\ Distinct(reg2)
  BY <1>5, <1>12
<1>15. ASSUME NEW m \in Names, m # n
       PROVE  SizeIn(reg2, m) = SizeIn(reg, m) /\ ValueIn(reg2, d, dat, m) = ValueIn(reg, d, dat, m)
  <2>1. AgreeOn(reg, reg2, m)
    BY <1>6, <1>7, <1>12, <1>15 DEF AgreeOn
  <2> QED
    BY <1>14, <2>1, OtherName
<1>16. SizeIn(reg2, n) = size /\ ValueIn(reg2, d, dat, n) \in {Zero, NULL}
  <2>1. PICK h : h = reg2[i].MemHandle
    OBVIOUS
  <2>2. d[h].CRC = ZeroCRC
    BY <1>7, <1>12, <2>1
  <2>3. SizeIn(reg2, n) = reg2[i].Size /\ ValueIn(reg2, d, dat, n) = ReadsAs(d, dat, h)
    BY <1>4, <1>7, <1>12, <1>14, <2>1, EntryIs
  <2> QED
    BY <1>7, <1>12, <2>2, <2>3, Readings
<1>17. PICK v \in {Zero, NULL} : v = ValueIn(reg2, d, dat, n)
  BY <1>16
<1>18. StoredSize' = [StoredSize EXCEPT ![n] = size] /\ StoredValue' = [StoredValue EXCEPT ![n] = v]
  BY <1>13, <1>15, <1>16, <1>17
<1>19. StoreStep
  BY <1>4, <1>5, <1>11, <1>18, RegisterEnds
<1> QED
  BY <1>9, <1>19

LEMMA RemoveStores ==
  ASSUME StoreInv, Remove
  PROVE  StoreOK' /\ StoreStep
<1>1. PICK n, i : n = loc[ES].name /\ i = loc[ES].idx
  OBVIOUS
<1>2. /\ pc[ES] = "remove" /\ Registry' = [Registry EXCEPT ![i].Taken = FALSE]
      /\ savedRegistry' = Registry' /\ Goto(ES, "idle", NoLoc) /\ desc' = desc
      /\ UNCHANGED <<ValidityField, data, PoolMutex, handle>>
  BY <1>1 DEF Remove, poolVars
<1>3. ES \in Actors /\ pc[ES] \in Holding
  BY <1>2, Constants DEF Holding
<1>4. /\ StoreOK /\ TypeOK /\ ControlOK /\ NamesOK /\ RunOK /\ Solo(loc)
      /\ HolderOK(ES) /\ i \in Entries /\ n \in Names /\ handle[n] = NotFound
      /\ \A y \in Actors : y # ES => pc[y] \notin Holding
  BY <1>1, <1>3, HolderFacts
<1>5. Distinct(Registry) /\ Distinct(savedRegistry) /\ NoLoc.name \notin Names
  BY <1>4, Constants DEF StoreOK, NoLoc
<1>6. \A j \in Entries : savedRegistry[j] = Registry[j]
  BY <1>2, <1>3, <1>4, OthersSettled
<1>7. Registry[i].Taken /\ Registry[i].Name = n
  BY <1>1, <1>2, <1>4 DEF HolderOK
<1>8. pc'[ES] = "idle" /\ loc'[ES] = NoLoc /\ OthersAs(ES)
  BY <1>2, <1>3, <1>4, GotoFacts, Records DEF OthersAs, Steps
<1>9. PICK reg, reg2, d, dat : reg = savedRegistry /\ reg2 = Registry' /\ d = desc /\ dat = data
  OBVIOUS
<1>10. ~reg2[i].Taken /\ \A j \in Entries : j # i => reg2[j] = reg[j]
  <2>1. Registry \in [Entries -> RegRec] /\ Registry[i] \in RegRec
    BY <1>4 DEF TypeOK
  <2>2. PICK e : e = [Registry[i] EXCEPT !.Taken = FALSE]
    OBVIOUS
  <2>3. ~e.Taken
    BY <2>1, <2>2 DEF RegRec
  <2>4. reg2 = [Registry EXCEPT ![i] = e]
    BY <1>2, <1>9, <2>2
  <2> QED
    BY <1>4, <1>6, <1>9, <2>1, <2>3, <2>4
<1>11. Distinct(reg) /\ reg[i].Taken /\ reg[i].Name = n
  BY <1>4, <1>5, <1>6, <1>7, <1>9
<1>12. Distinct(reg2)
  <2>1. \A j \in Entries : reg2[j].Taken => j # i /\ reg2[j] = reg[j]
    BY <1>10
  <2> QED
    BY <1>11, <2>1 DEF Distinct, Apart
<1>13. StoreOK' /\ Solo(loc)'
  <2>1. Distinct(savedRegistry') /\ Distinct(Registry')
    BY <1>2, <1>9, <1>12
  <2>2. handle'[n] = NotFound /\ \A m \in Names : handle'[m] = handle[m]
    BY <1>2, <1>4
  <2>3. \A j \in Entries : j # i => Registry'[j] = Registry[j]
    BY <1>6, <1>9, <1>10
  <2> QED
    BY <1>1, <1>2, <1>3, <1>8, <2>1, <2>2, <2>3, HolderMoves
<1>14. OperationAt(pc[ES], loc[ES]) = [kind |-> "delete"]
  BY <1>2 DEF OperationAt
<1>15. Doing[n] = [kind |-> "delete"] /\ Doing' = [Doing EXCEPT ![n] = NULL]
  BY <1>1, <1>3, <1>4, <1>5, <1>8, <1>13, <1>14, DoingEnds
<1>16. /\ StoredSize = [m \in Names |-> SizeIn(reg, m)]
       /\ StoredSize' = [m \in Names |-> SizeIn(reg2, m)]
       /\ StoredValue = [m \in Names |-> ValueIn(reg, d, dat, m)]
       /\ StoredValue' = [m \in Names |-> ValueIn(reg2, d, dat, m)]
  BY <1>2, <1>9, Mapping
<1>17. ASSUME NEW m \in Names, m # n
       PROVE  SizeIn(reg2, m) = SizeIn(reg, m) /\ ValueIn(reg2, d, dat, m) = ValueIn(reg, d, dat, m)
  <2>1. AgreeOn(reg, reg2, m)
    BY <1>10, <1>11, <1>17 DEF AgreeOn
  <2> QED
    BY <1>11, <1>12, <2>1, OtherName
<1>18. SizeIn(reg2, n) = 0 /\ ValueIn(reg2, d, dat, n) = NULL
  <2>1. \A j \in Entries : reg2[j].Taken => reg2[j].Name # n
    BY <1>4, <1>10, <1>11 DEF Distinct
  <2> QED
    BY <2>1, NoEntry
<1>19. StoredSize' = [StoredSize EXCEPT ![n] = 0] /\ StoredValue' = [StoredValue EXCEPT ![n] = NULL]
  BY <1>16, <1>17, <1>18
<1>20. StoreStep
  BY <1>4, <1>15, <1>19, DeleteEnds
<1> QED
  BY <1>13, <1>20

-----------------------------------------------------------------------------
(* The refinement *)

LEMMA StutterStores ==
  ASSUME StoreInv, UNCHANGED vars
  PROVE  StoreOK' /\ StoreStep
<1>1. UNCHANGED <<ValidityField, savedRegistry, desc, data, Registry, PoolMutex, handle, pc, loc>>
  BY DEF vars, savedVars
<1>2. NamesOK' /\ Distinct(Registry)' /\ Distinct(savedRegistry)'
  BY <1>1 DEF StoreInv, StoreOK, NamesOK, Distinct, Apart
<1>3. \A x \in Actors : pc'[x] \in Holding => HolderOK(x)'
  BY <1>1 DEF StoreInv, StoreOK, HolderOK
<1>4. \A a \in Apps : pc'[a] = "copy" => CopyOK(a)'
  BY <1>1 DEF StoreInv, StoreOK, CopyOK, ValidBlock, HandleInRange, CRC
<1>5. StoreOK'
  BY <1>1, <1>2, <1>3, <1>4 DEF StoreInv, StoreOK
<1>6. StoredSize' = StoredSize /\ StoredValue' = StoredValue /\ Doing' = Doing
  BY <1>1, Mapping
<1> QED
  BY <1>5, <1>6 DEF StoreStep

LEMMA NextStores ==
  ASSUME StoreInv, NoWindows, Roomy, [Next]_vars
  PROVE  StoreInv' /\ StoreStep
<1>1. PoolInv'
  BY NextInv DEF StoreInv
<1>2. ASSUME Rebuild PROVE StoreOK' /\ StoreStep
  BY <1>2, RebuildStores
<1>3. ASSUME InitClear PROVE StoreOK' /\ StoreStep
  BY <1>3, InitClearStores
<1>4. ASSUME InitBegin PROVE StoreOK' /\ StoreStep
  BY <1>4, InitBeginStores
<1>5. ASSUME InitEnd PROVE StoreOK' /\ StoreStep
  BY <1>5, InitEndStores
<1>6. ASSUME InitCDSRegistry PROVE StoreOK' /\ StoreStep
  BY <1>6, InitCDSRegistryStores
<1>7. ASSUME NEW a \in Apps, StartApp(a) PROVE StoreOK' /\ StoreStep
  BY <1>7, StartAppStores
<1>8. ASSUME NEW a \in Apps, ExitApp(a) PROVE StoreOK' /\ StoreStep
  BY <1>8, ExitAppStores
<1>9. ASSUME NEW a \in Apps, Allocate(a) PROVE StoreOK' /\ StoreStep
  BY <1>9, AllocateStores
<1>10. ASSUME NEW a \in Apps, Update(a) PROVE StoreOK' /\ StoreStep
  BY <1>10, UpdateStores
<1>11. ASSUME NEW a \in Apps, CopyDone(a) PROVE StoreOK' /\ StoreStep
  BY <1>11, CopyDoneStores
<1>12. ASSUME NEW a \in Apps, NEW n \in Names, NEW size \in SizesOf[n], RegisterCDS(a, n, size)
       PROVE  StoreOK' /\ StoreStep
  BY <1>12, RegisterCDSStores
<1>13. ASSUME NEW a \in Apps, NEW n \in Names, NEW v \in DataOf[n], CopyToCDS(a, n, v)
       PROVE  StoreOK' /\ StoreStep
  BY <1>13, CopyToCDSStores
<1>14. ASSUME NEW n \in Names, DeleteCDS(n) PROVE StoreOK' /\ StoreStep
  BY <1>14, DeleteCDSStores
<1>15. ASSUME Remove PROVE StoreOK' /\ StoreStep
  BY <1>15, RemoveStores
<1>16. ASSUME ProcessorReset PROVE StoreOK' /\ StoreStep
  BY <1>16, ProcessorResetStores
<1>17. ASSUME UNCHANGED vars PROVE StoreOK' /\ StoreStep
  BY <1>17, StutterStores
<1>18. StoreOK' /\ StoreStep
  BY <1>2, <1>3, <1>4, <1>5, <1>6, <1>7, <1>8, <1>9, <1>10, <1>11, <1>12, <1>13, <1>14,
     <1>15, <1>16, <1>17 DEF Next
<1> QED
  BY <1>1, <1>18 DEF StoreInv

(* What an application is promised holds for every pool, registry and       *)
(* number of resets: the store keeps under each name the data last copied   *)
(* to it, every reset included, and an operation on one name, or a reset    *)
(* that interrupts it, never touches another (CFE_ES_CopyToCDS,             *)
(* CFE_ES_RegisterCDS, CFE_ES_DeleteCDS, CFE_ES_RebuildCDS), as long as no  *)
(* reset falls into one of the two windows and no change of size is left    *)
(* without a block.                                                         *)
THEOREM StoreKeepsItsPromise ==
  ASSUME NoWindows
  PROVE  Spec /\ []Roomy => ImplementsStore
<1>1. Init => StoreInv /\ Store!StoreInit
  BY InitStores
<1>2. StoreInv /\ Roomy /\ [Next]_vars => StoreInv' /\ [Store!StoreNext]_(Store!storeVars)
  BY NextStores DEF StoreStep, Store!storeVars
<1> QED
  BY <1>1, <1>2, PTL DEF Spec, ImplementsStore, Store!StoreSpec
=============================================================================

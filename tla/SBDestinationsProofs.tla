------------------------ MODULE SBDestinationsProofs ------------------------
(***************************************************************************)
(* Proofs about SBDestinations.  What a walk along Next meets is a          *)
(* recursive function of the memory; the invariant says it without the      *)
(* recursion: every block is free or has a route and a position in that     *)
(* route's list, and the pointers agree with both.                          *)
(***************************************************************************)
EXTENDS SBDestinations, FiniteSetTheorems, SequenceTheorems, WellFoundedInduction, TLAPS

-----------------------------------------------------------------------------
(* Natural numbers and walks *)

(* A nonempty set of naturals has a least element.                         *)
LEMMA LeastExists ==
  ASSUME NEW S, S \subseteq Nat, S # {}
  PROVE  \E x \in S : \A y \in S : x <= y
<1> DEFINE R == OpToRel(<, Nat)
<1>1. R = {ss \in Nat \X Nat : ss[1] < ss[2]}
  BY DEF OpToRel
<1>2. IsWellFoundedOn(R, Nat)
  BY NatLessThanWellFounded
<1> HIDE DEF R
<1>3. \A x, y \in Nat : y < x => <<y, x>> \in R
  BY <1>1
<1>4. PICK x \in S : \A y \in S : <<y, x>> \notin R
  BY <1>2, WFMin
<1>5. ASSUME NEW y \in S PROVE x <= y
  <2>1. x \in Nat /\ y \in Nat
    OBVIOUS
  <2>2. ~(y < x)
    BY <2>1, <1>3, <1>4
  <2> QED
    BY <2>1, <2>2
<1> QED
  BY <1>4, <1>5

LEMMA NumBlocksPositive == NumBlocks \in Nat /\ NumBlocks >= 1
BY DestinationAssumption

Cell == [PipeId : Pipes \cup {NULL}, Active : BOOLEAN, Next : Ptrs, Prev : Ptrs]

(* f is what a walk of k steps from b meets in the memory d.                *)
IsWalk(d, b, f, k) ==
  /\ f \in [0 .. k -> Ptrs] /\ f[0] = b
  /\ \A n \in 1 .. k : f[n] = IF f[n - 1] = NULL THEN NULL ELSE d[f[n - 1]].Next

(* There is such a walk, so Nth is one.                                    *)
LEMMA WalkExists ==
  ASSUME NEW d \in [Blocks -> Cell], NEW b \in Ptrs, NEW k \in Nat
  PROVE  \E f : IsWalk(d, b, f, k)
<1>1. PICK T : T = {n \in Nat : ~\E f : IsWalk(d, b, f, n)}
  OBVIOUS
<1>2. SUFFICES ASSUME T # {} PROVE FALSE
  BY <1>1
<1>3. PICK n \in T : \A y \in T : n <= y
  BY <1>1, <1>2, LeastExists
<1>4. n \in Nat /\ ~\E f : IsWalk(d, b, f, n)
  BY <1>1
<1>5. CASE n = 0
  <2>1. [i \in 0 .. 0 |-> b] \in [0 .. 0 -> Ptrs] /\ [i \in 0 .. 0 |-> b][0] = b
    OBVIOUS
  <2>2. IsWalk(d, b, [i \in 0 .. 0 |-> b], 0)
    BY <2>1 DEF IsWalk
  <2> QED
    BY <1>4, <1>5, <2>2
<1>6. CASE n # 0
  <2>1. n - 1 \in Nat /\ n - 1 \notin T
    BY <1>3, <1>4, <1>6
  <2>2. PICK g : IsWalk(d, b, g, n - 1)
    BY <1>1, <2>1
  <2>3. g \in [0 .. n - 1 -> Ptrs] /\ g[0] = b
        /\ \A i \in 1 .. n - 1 : g[i] = IF g[i - 1] = NULL THEN NULL ELSE d[g[i - 1]].Next
    BY <2>2 DEF IsWalk
  <2> DEFINE last == IF g[n - 1] = NULL THEN NULL ELSE d[g[n - 1]].Next
             f == [i \in 0 .. n |-> IF i = n THEN last ELSE g[i]]
  <2>4. last \in Ptrs
    <3>1. g[n - 1] \in Ptrs
      BY <1>4, <1>6, <2>3
    <3> QED
      BY <3>1 DEF Ptrs, Cell
  <2> HIDE DEF last
  <2>5. f \in [0 .. n -> Ptrs]
    <3>1. ASSUME NEW i \in 0 .. n, i # n PROVE g[i] \in Ptrs
      BY <1>4, <2>3, <3>1
    <3> QED
      BY <2>4, <3>1
  <2>6. f[0] = b
    BY <1>4, <1>6, <2>3
  <2>7. ASSUME NEW i \in 1 .. n
        PROVE  f[i] = IF f[i - 1] = NULL THEN NULL ELSE d[f[i - 1]].Next
    <3>1. i - 1 \in 0 .. n /\ i - 1 # n /\ i \in 0 .. n
      BY <1>4
    <3>2. f[i - 1] = g[i - 1]
      BY <3>1
    <3>3. CASE i = n
      BY <3>1, <3>2, <3>3 DEF last
    <3>4. CASE i # n
      BY <1>4, <2>3, <3>1, <3>2, <3>4
    <3> QED
      BY <3>3, <3>4
  <2> HIDE DEF f
  <2>8. IsWalk(d, b, f, n)
    BY <2>5, <2>6, <2>7 DEF IsWalk
  <2> QED
    BY <1>4, <2>8
<1> QED
  BY <1>5, <1>6

LEMMA NthWalk ==
  ASSUME dest \in [Blocks -> Cell], NEW b \in Ptrs
  PROVE  IsWalk(dest, b, Nth(b), NumBlocks)
<1> DEFINE Step(g) == [n \in 0 .. NumBlocks |->
                         IF n = 0 THEN b
                         ELSE IF g[n - 1] = NULL THEN NULL ELSE dest[g[n - 1]].Next]
<1>1. PICK h : IsWalk(dest, b, h, NumBlocks)
  BY NumBlocksPositive, WalkExists
<1>2. h = Step(h)
  <2>1. /\ h \in [0 .. NumBlocks -> Ptrs] /\ h[0] = b
        /\ \A n \in 1 .. NumBlocks : h[n] = IF h[n - 1] = NULL THEN NULL ELSE dest[h[n - 1]].Next
    BY <1>1 DEF IsWalk
  <2>2. \A n \in 0 .. NumBlocks : n = 0 \/ n \in 1 .. NumBlocks
    BY NumBlocksPositive
  <2>3. \A n \in 0 .. NumBlocks : h[n] = Step(h)[n]
    BY <2>1, <2>2
  <2> QED
    BY <2>1, <2>3
<1>3. Nth(b) = CHOOSE g : g = Step(g)
  BY DEF Nth
<1>4. Nth(b) = Step(Nth(b))
  BY <1>2, <1>3
<1>5. PICK f : f = Nth(b)
  OBVIOUS
<1>6. f = Step(f)
  BY <1>4, <1>5
<1>7. /\ DOMAIN f = 0 .. NumBlocks /\ f[0] = b
      /\ \A n \in 1 .. NumBlocks : f[n] = IF f[n - 1] = NULL THEN NULL ELSE dest[f[n - 1]].Next
  BY <1>6, NumBlocksPositive
<1>8. \A n \in 0 .. NumBlocks : f[n] \in Ptrs
  <2>1. PICK T : T = {n \in 0 .. NumBlocks : f[n] \notin Ptrs}
    OBVIOUS
  <2>2. SUFFICES ASSUME T # {} PROVE FALSE
    BY <2>1
  <2>3. T \subseteq Nat
    BY <2>1
  <2>4. PICK n \in T : \A y \in T : n <= y
    BY <2>2, <2>3, LeastExists
  <2>5. n \in 0 .. NumBlocks /\ f[n] \notin Ptrs /\ n # 0
    BY <1>7, <2>1, <2>4
  <2>6. n \in 1 .. NumBlocks /\ n - 1 \in 0 .. NumBlocks /\ ~(n <= n - 1)
    BY <2>5, NumBlocksPositive
  <2>7. f[n - 1] \in Ptrs
    BY <2>1, <2>4, <2>6
  <2>8. f[n] = IF f[n - 1] = NULL THEN NULL ELSE dest[f[n - 1]].Next
    BY <1>7, <2>6
  <2> QED
    BY <2>5, <2>7, <2>8 DEF Ptrs, Cell
<1>9. f \in [0 .. NumBlocks -> Ptrs]
  <2>1. f = [n \in 0 .. NumBlocks |-> f[n]]
    BY <1>6
  <2> QED
    BY <1>8, <2>1
<1> QED
  BY <1>5, <1>7, <1>9 DEF IsWalk

-----------------------------------------------------------------------------
(* The lists without the recursion: m gives a block its route, NULL when it *)
(* is free, and k its position in the list of that route.                   *)

LinkTypes(H, d, P, m, k) ==
  /\ H \in [Routes -> Ptrs] /\ d \in [Blocks -> Cell] /\ P \in Seq(Blocks)
  /\ m \in [Blocks -> Routes \cup {NULL}] /\ k \in [Blocks -> Nat]

(* A block is free once, or has a route.                                   *)
FreeOnce(P, m) ==
  /\ \A b \in Blocks : m[b] = NULL <=> \E i \in 1 .. Len(P) : P[i] = b
  /\ \A i, j \in 1 .. Len(P) : P[i] = P[j] => i = j

Heads(H, d, m, k) ==
  \A r \in Routes : H[r] # NULL =>
    m[H[r]] = r /\ d[H[r]].Prev = NULL /\ k[H[r]] = 0

Forward(d, m, k) ==
  \A b \in Blocks : m[b] # NULL /\ d[b].Next # NULL =>
    /\ m[d[b].Next] = m[b] /\ d[d[b].Next].Prev = b /\ k[d[b].Next] = k[b] + 1

Backward(H, d, m) ==
  \A b \in Blocks : m[b] # NULL =>
    /\ d[b].Prev = NULL => H[m[b]] = b
    /\ d[b].Prev # NULL => m[d[b].Prev] = m[b] /\ d[d[b].Prev].Next = b

Places(m, r) == {c \in Blocks : m[c] = r}

(* Positions are distinct and below the length of the list.                *)
Positions(m, k) ==
  /\ \A b, c \in Blocks : m[b] # NULL /\ m[b] = m[c] /\ k[b] = k[c] => b = c
  /\ \A b \in Blocks : m[b] # NULL => k[b] < Cardinality(Places(m, m[b]))

Linked(H, d, P, m, k) ==
  /\ LinkTypes(H, d, P, m, k) /\ FreeOnce(P, m) /\ Heads(H, d, m, k)
  /\ Forward(d, m, k) /\ Backward(H, d, m) /\ Positions(m, k)

LEMMA PlacesFinite ==
  ASSUME NEW m, NEW r
  PROVE  /\ IsFiniteSet(Places(m, r)) /\ Cardinality(Places(m, r)) \in Nat
         /\ Cardinality(Places(m, r)) <= NumBlocks
<1>1. IsFiniteSet(Blocks) /\ Cardinality(Blocks) = NumBlocks
  BY NumBlocksPositive, FS_Interval DEF Blocks
<1>2. Places(m, r) \subseteq Blocks
  BY DEF Places
<1>3. IsFiniteSet(Places(m, r)) /\ Cardinality(Places(m, r)) <= Cardinality(Blocks)
  BY <1>1, <1>2, FS_Subset
<1> QED
  BY <1>1, <1>3, FS_CardinalityType

LEMMA NullApart == NULL \notin Blocks /\ NULL \notin Routes /\ NULL \notin Pipes
BY DestinationAssumption DEF Blocks

(* The walk from the head of a route's list meets the blocks of that route, *)
(* each at its position.                                                    *)
LEMMA WalkStays ==
  ASSUME NEW H, NEW d, NEW P, NEW m, NEW k, Linked(H, d, P, m, k), NEW r \in Routes,
         NEW f, IsWalk(d, H[r], f, NumBlocks), NEW n \in 0 .. NumBlocks, f[n] # NULL
  PROVE  f[n] \in Blocks /\ m[f[n]] = r
<1>0. /\ f \in [0 .. NumBlocks -> Ptrs] /\ f[0] = H[r]
      /\ \A i \in 1 .. NumBlocks : f[i] = IF f[i - 1] = NULL THEN NULL ELSE d[f[i - 1]].Next
  BY DEF IsWalk
<1>1. PICK T : T = {i \in 0 .. NumBlocks : f[i] # NULL /\ m[f[i]] # r}
  OBVIOUS
<1>2. f[n] \in Blocks
  BY <1>0 DEF Ptrs
<1>3. SUFFICES ASSUME T # {} PROVE FALSE
  BY <1>1, <1>2
<1>4. PICK i \in T : \A y \in T : i <= y
  <2>1. T \subseteq Nat
    BY <1>1
  <2> QED
    BY <1>3, <2>1, LeastExists
<1>5. i \in 0 .. NumBlocks /\ f[i] # NULL /\ m[f[i]] # r
  BY <1>1
<1>6. i # 0
  BY <1>0, <1>5 DEF Linked, Heads
<1>7. i \in 1 .. NumBlocks /\ i - 1 \in 0 .. NumBlocks /\ ~(i <= i - 1)
  BY <1>5, <1>6, NumBlocksPositive
<1>8. f[i - 1] # NULL /\ f[i] = d[f[i - 1]].Next
  BY <1>0, <1>5, <1>7
<1>9. f[i - 1] \in Blocks /\ m[f[i - 1]] = r
  BY <1>0, <1>1, <1>4, <1>7, <1>8 DEF Ptrs
<1> QED
  BY <1>5, <1>8, <1>9, NullApart DEF Linked, Forward

LEMMA WalkMeets ==
  ASSUME NEW H, NEW d, NEW P, NEW m, NEW k, Linked(H, d, P, m, k), NEW r \in Routes,
         NEW f, IsWalk(d, H[r], f, NumBlocks), NEW b \in Blocks, m[b] = r
  PROVE  k[b] \in 0 .. NumBlocks /\ f[k[b]] = b
<1>0. /\ f \in [0 .. NumBlocks -> Ptrs] /\ f[0] = H[r]
      /\ \A i \in 1 .. NumBlocks : f[i] = IF f[i - 1] = NULL THEN NULL ELSE d[f[i - 1]].Next
  BY DEF IsWalk
<1>1. ASSUME NEW c \in Blocks, m[c] = r PROVE k[c] \in 0 .. NumBlocks
  <2>1. k[c] \in Nat /\ m[c] # NULL
    BY <1>1, NullApart DEF Linked, LinkTypes
  <2>2. k[c] < Cardinality(Places(m, m[c]))
    BY <2>1 DEF Linked, Positions
  <2>3. PICK z \in Nat : z = Cardinality(Places(m, m[c])) /\ z <= NumBlocks
    BY PlacesFinite
  <2> QED
    BY <2>1, <2>2, <2>3, NumBlocksPositive
<1>2. PICK T : T = {i \in 0 .. NumBlocks : \E c \in Blocks : m[c] = r /\ k[c] = i /\ f[i] # c}
  OBVIOUS
<1>3. SUFFICES ASSUME T # {} PROVE FALSE
  BY <1>1, <1>2
<1>4. PICK i \in T : \A y \in T : i <= y
  <2>1. T \subseteq Nat
    BY <1>2
  <2> QED
    BY <1>3, <2>1, LeastExists
<1>5. i \in 0 .. NumBlocks
  BY <1>2
<1>6. PICK c \in Blocks : m[c] = r /\ k[c] = i /\ f[i] # c
  BY <1>2
<1>7. m[c] # NULL /\ d[c].Prev \in Ptrs
  BY <1>6, NullApart DEF Linked, LinkTypes, Cell
<1>8. CASE d[c].Prev = NULL
  <2>1. H[r] = c
    BY <1>6, <1>7, <1>8 DEF Linked, Backward
  <2>2. k[c] = 0
    BY <2>1, NullApart DEF Linked, Heads
  <2> QED
    BY <1>0, <1>6, <2>1, <2>2
<1>9. CASE d[c].Prev # NULL
  <2>1. PICK e : e = d[c].Prev
    OBVIOUS
  <2>2. e \in Blocks /\ m[e] = r /\ d[e].Next = c
    BY <1>6, <1>7, <1>9, <2>1 DEF Linked, Backward, Ptrs
  <2>3. k[e] \in Nat /\ k[c] = k[e] + 1
    BY <2>2, NullApart DEF Linked, Forward, LinkTypes
  <2>4. i \in 1 .. NumBlocks /\ i - 1 = k[e] /\ i - 1 \in 0 .. NumBlocks /\ ~(i <= i - 1)
    BY <1>5, <1>6, <2>3, NumBlocksPositive
  <2>5. f[i - 1] = e
    BY <1>2, <1>4, <2>2, <2>4
  <2>6. f[i] = c
    BY <1>0, <2>2, <2>4, <2>5, NullApart
  <2> QED
    BY <1>6, <2>6
<1> QED
  BY <1>8, <1>9

-----------------------------------------------------------------------------
(* What List and FindFrom are.                                             *)

LEMMA ListIs ==
  ASSUME NEW m, NEW k, Linked(ListHeadPtr, dest, pool, m, k), NEW r \in Routes
  PROVE  List(r) = Places(m, r)
<1>1. dest \in [Blocks -> Cell] /\ ListHeadPtr[r] \in Ptrs
  BY DEF Linked, LinkTypes
<1>2. PICK f : f = Nth(ListHeadPtr[r]) /\ IsWalk(dest, ListHeadPtr[r], f, NumBlocks)
  BY <1>1, NthWalk
<1>3. List(r) = {f[n] : n \in 0 .. NumBlocks} \ {NULL}
  BY <1>2 DEF List
<1>4. ASSUME NEW b \in List(r) PROVE b \in Places(m, r)
  <2>1. PICK n \in 0 .. NumBlocks : b = f[n] /\ f[n] # NULL
    BY <1>3
  <2>2. f[n] \in Blocks /\ m[f[n]] = r
    BY <1>2, <2>1, WalkStays
  <2> QED
    BY <2>1, <2>2 DEF Places
<1>5. ASSUME NEW b \in Places(m, r) PROVE b \in List(r)
  <2>1. b \in Blocks /\ m[b] = r
    BY DEF Places
  <2>2. k[b] \in 0 .. NumBlocks /\ f[k[b]] = b
    BY <1>2, <2>1, WalkMeets
  <2> QED
    BY <1>3, <2>1, <2>2, NullApart
<1> QED
  BY <1>4, <1>5

(* From any pointer: what is found is a block of the pipe.                 *)
LEMMA FoundAnywhere ==
  ASSUME dest \in [Blocks -> Cell], NEW b \in Ptrs, NEW p
  PROVE  \/ FindFrom(b, p) = NULL
         \/ FindFrom(b, p) \in Blocks /\ dest[FindFrom(b, p)].PipeId = p
<1>1. PICK f : f = Nth(b) /\ IsWalk(dest, b, f, NumBlocks)
  BY NthWalk
<1>2. PICK at : at = {n \in 0 .. NumBlocks : f[n] # NULL /\ dest[f[n]].PipeId = p}
  OBVIOUS
<1>3. FindFrom(b, p) = IF at = {} THEN NULL ELSE f[CHOOSE n \in at : \A x \in at : n <= x]
  BY <1>1, <1>2 DEF FindFrom
<1>4. CASE at # {}
  <2>1. \E n \in at : \A x \in at : n <= x
    <3>1. at \subseteq Nat
      BY <1>2
    <3> QED
      BY <1>4, <3>1, LeastExists
  <2>2. PICK n \in at : FindFrom(b, p) = f[n]
    BY <1>3, <1>4, <2>1
  <2>3. f[n] # NULL /\ dest[f[n]].PipeId = p /\ f[n] \in Ptrs
    BY <1>1, <1>2 DEF IsWalk
  <2> QED
    BY <2>2, <2>3 DEF Ptrs
<1> QED
  BY <1>3, <1>4

(* From nowhere: nothing.                                                  *)
LEMMA FoundNowhere ==
  ASSUME dest \in [Blocks -> Cell], NEW p
  PROVE  FindFrom(NULL, p) = NULL
<1>0. NULL \in Ptrs
  BY DEF Ptrs
<1>1. PICK f : f = Nth(NULL) /\ IsWalk(dest, NULL, f, NumBlocks)
  BY <1>0, NthWalk
<1>2. PICK at : at = {n \in 0 .. NumBlocks : f[n] # NULL /\ dest[f[n]].PipeId = p}
  OBVIOUS
<1>3. FindFrom(NULL, p) = IF at = {} THEN NULL ELSE f[CHOOSE n \in at : \A x \in at : n <= x]
  BY <1>1, <1>2 DEF FindFrom
<1>4. SUFFICES ASSUME at # {} PROVE FALSE
  BY <1>3
<1>5. PICK n \in at : \A x \in at : n <= x
  <2>1. at \subseteq Nat
    BY <1>2
  <2> QED
    BY <1>4, <2>1, LeastExists
<1>6. PICK T : T = {i \in 0 .. NumBlocks : f[i] # NULL}
  OBVIOUS
<1>7. n \in T
  BY <1>2, <1>6
<1>8. PICK i \in T : \A x \in T : i <= x
  <2>1. T \subseteq Nat
    BY <1>6
  <2> QED
    BY <1>7, <2>1, LeastExists
<1>9. i \in 0 .. NumBlocks /\ f[i] # NULL /\ i # 0
  BY <1>1, <1>6 DEF IsWalk
<1>10. i \in 1 .. NumBlocks /\ i - 1 \in 0 .. NumBlocks /\ ~(i <= i - 1)
  BY <1>9, NumBlocksPositive
<1>11. f[i - 1] = NULL
  BY <1>6, <1>8, <1>10
<1>12. f[i] = NULL
  BY <1>1, <1>10, <1>11 DEF IsWalk
<1> QED
  BY <1>9, <1>12

(* From the head of a route's list: the subscription, when there is one.   *)
LEMMA FoundInRoute ==
  ASSUME NEW m, NEW k, Linked(ListHeadPtr, dest, pool, m, k),
         NEW r \in Routes, NEW p
  PROVE  /\ FindFrom(ListHeadPtr[r], p) # NULL =>
              /\ FindFrom(ListHeadPtr[r], p) \in Blocks
              /\ m[FindFrom(ListHeadPtr[r], p)] = r
              /\ dest[FindFrom(ListHeadPtr[r], p)].PipeId = p
         /\ FindFrom(ListHeadPtr[r], p) = NULL =>
              \A b \in Blocks : m[b] = r => dest[b].PipeId # p
<1>1. dest \in [Blocks -> Cell] /\ ListHeadPtr[r] \in Ptrs
  BY DEF Linked, LinkTypes
<1>2. PICK f : f = Nth(ListHeadPtr[r]) /\ IsWalk(dest, ListHeadPtr[r], f, NumBlocks)
  BY <1>1, NthWalk
<1>3. PICK at : at = {n \in 0 .. NumBlocks : f[n] # NULL /\ dest[f[n]].PipeId = p}
  OBVIOUS
<1>4. FindFrom(ListHeadPtr[r], p)
        = IF at = {} THEN NULL ELSE f[CHOOSE n \in at : \A x \in at : n <= x]
  BY <1>2, <1>3 DEF FindFrom
<1>5. CASE at = {}
  <2>1. ASSUME NEW b \in Blocks, m[b] = r, dest[b].PipeId = p PROVE FALSE
    <3>1. k[b] \in 0 .. NumBlocks /\ f[k[b]] = b
      BY <1>2, <2>1, WalkMeets
    <3> QED
      BY <1>3, <1>5, <2>1, <3>1, NullApart
  <2> QED
    BY <1>4, <1>5, <2>1
<1>6. CASE at # {}
  <2>1. \E n \in at : \A x \in at : n <= x
    <3>1. at \subseteq Nat
      BY <1>3
    <3> QED
      BY <1>6, <3>1, LeastExists
  <2>2. PICK n \in at : FindFrom(ListHeadPtr[r], p) = f[n]
    BY <1>4, <1>6, <2>1
  <2>3. n \in 0 .. NumBlocks /\ f[n] # NULL /\ dest[f[n]].PipeId = p
    BY <1>3
  <2>4. f[n] \in Blocks /\ m[f[n]] = r
    BY <1>2, <2>3, WalkStays
  <2> QED
    BY <2>2, <2>3, <2>4
<1> QED
  BY <1>5, <1>6

-----------------------------------------------------------------------------
(* CFE_SB_AddDest and CFE_SB_RemoveDest keep the lists.                    *)

WithDest(H, d, r, p, b) ==
  [c \in Blocks |->
     IF c = b THEN [PipeId |-> p, Active |-> TRUE, Next |-> H[r], Prev |-> NULL]
     ELSE IF c = H[r] THEN [d[c] EXCEPT !.Prev = b]
     ELSE d[c]]

WithFirst(m, k, r, b) ==
  [c \in Blocks |-> IF c = b THEN 0 ELSE IF m[c] = r THEN k[c] + 1 ELSE k[c]]

LEMMA LinkedAdd ==
  ASSUME NEW H, NEW d, NEW P, NEW m, NEW k, Linked(H, d, P, m, k),
         NEW r \in Routes, NEW p \in Pipes, P # <<>>, NEW b, b = Head(P),
         NEW e, e = WithDest(H, d, r, p, b), NEW G, G = [H EXCEPT ![r] = b],
         NEW m2, m2 = [m EXCEPT ![b] = r], NEW k2, k2 = WithFirst(m, k, r, b)
  PROVE  /\ b \in Blocks /\ m[b] = NULL
         /\ Linked(G, e, Tail(P), m2, k2)
<1> USE DEF WithDest, WithFirst
<1>0. /\ LinkTypes(H, d, P, m, k) /\ FreeOnce(P, m) /\ Heads(H, d, m, k)
      /\ Forward(d, m, k) /\ Backward(H, d, m) /\ Positions(m, k)
  BY DEF Linked
<1> HIDE DEF Linked
<1>1. /\ Len(P) \in Nat /\ Len(P) >= 1 /\ P[1] = b /\ b \in Blocks
      /\ Tail(P) \in Seq(Blocks) /\ Len(Tail(P)) = Len(P) - 1
      /\ \A i \in 1 .. Len(Tail(P)) : Tail(P)[i] = P[i + 1]
  BY <1>0 DEF LinkTypes
<1>2. m[b] = NULL
  BY <1>0, <1>1 DEF FreeOnce
<1>3. /\ H \in [Routes -> Ptrs] /\ d \in [Blocks -> Cell]
      /\ m \in [Blocks -> Routes \cup {NULL}] /\ k \in [Blocks -> Nat]
  BY <1>0 DEF LinkTypes
<1>4. LinkTypes(G, e, Tail(P), m2, k2)
  <2>1. b \in Ptrs /\ NULL \in Ptrs
    BY <1>1 DEF Ptrs
  <2>2. G \in [Routes -> Ptrs] /\ m2 \in [Blocks -> Routes \cup {NULL}]
    BY <1>3, <2>1
  <2>3. k2 \in [Blocks -> Nat]
    BY <1>3
  <2>4. ASSUME NEW c \in Blocks PROVE e[c] \in Cell
    BY <1>3, <2>1 DEF Cell
  <2> QED
    BY <1>1, <2>2, <2>3, <2>4 DEF LinkTypes
<1>5. FreeOnce(Tail(P), m2)
  <2>1. ASSUME NEW c \in Blocks PROVE m2[c] = NULL <=> \E i \in 1 .. Len(Tail(P)) : Tail(P)[i] = c
    <3>1. CASE c = b
      <4>1. ASSUME NEW i \in 1 .. Len(Tail(P)), Tail(P)[i] = b PROVE FALSE
        <5>1. i + 1 \in 1 .. Len(P) /\ 1 \in 1 .. Len(P) /\ i + 1 # 1 /\ P[i + 1] = P[1]
          BY <1>1, <4>1
        <5> QED
          BY <1>0, <5>1 DEF FreeOnce
      <4> QED
        BY <1>1, <1>3, <3>1, <4>1, NullApart
    <3>2. CASE c # b
      <4>1. m2[c] = m[c]
        BY <1>1, <1>3, <3>2
      <4>2. m[c] = NULL <=> \E i \in 1 .. Len(P) : P[i] = c
        BY <1>0 DEF FreeOnce
      <4>3. ASSUME NEW i \in 1 .. Len(P), P[i] = c PROVE \E j \in 1 .. Len(Tail(P)) : Tail(P)[j] = c
        <5>1. i # 1
          BY <1>1, <3>2, <4>3
        <5>2. i - 1 \in 1 .. Len(Tail(P)) /\ (i - 1) + 1 = i
          BY <1>1, <5>1
        <5>3. Tail(P)[i - 1] = P[(i - 1) + 1]
          BY <1>1, <5>2
        <5> QED
          BY <4>3, <5>2, <5>3
      <4>4. ASSUME NEW j \in 1 .. Len(Tail(P)), Tail(P)[j] = c PROVE \E i \in 1 .. Len(P) : P[i] = c
        <5>1. j + 1 \in 1 .. Len(P)
          BY <1>1
        <5> QED
          BY <1>1, <4>4, <5>1
      <4> QED
        BY <4>1, <4>2, <4>3, <4>4
    <3> QED
      BY <3>1, <3>2
  <2>2. ASSUME NEW i \in 1 .. Len(Tail(P)), NEW j \in 1 .. Len(Tail(P)), Tail(P)[i] = Tail(P)[j]
        PROVE  i = j
    <3>1. i + 1 \in 1 .. Len(P) /\ j + 1 \in 1 .. Len(P) /\ P[i + 1] = P[j + 1]
      BY <1>1, <2>2
    <3>2. i + 1 = j + 1
      BY <1>0, <3>1 DEF FreeOnce
    <3> QED
      BY <3>2
  <2> QED
    BY <2>1, <2>2 DEF FreeOnce
<1>6. \A c \in Blocks : /\ m2[c] = (IF c = b THEN r ELSE m[c])
                        /\ k2[c] = (IF c = b THEN 0 ELSE IF m[c] = r THEN k[c] + 1 ELSE k[c])
                        /\ e[c].Next = (IF c = b THEN H[r] ELSE d[c].Next)
                        /\ e[c].Prev = (IF c = b THEN NULL ELSE IF c = H[r] THEN b ELSE d[c].Prev)
  <2>1. ASSUME NEW c \in Blocks
        PROVE  /\ e[c].Next = (IF c = b THEN H[r] ELSE d[c].Next)
               /\ e[c].Prev = (IF c = b THEN NULL ELSE IF c = H[r] THEN b ELSE d[c].Prev)
    <3>1. d[c] \in Cell
      BY <1>3
    <3> QED
      BY <3>1 DEF Cell
  <2> QED
    BY <1>1, <1>3, <2>1
<1>7. \A q \in Routes : G[q] = IF q = r THEN b ELSE H[q]
  BY <1>3
<1>8. \A q \in Routes : H[q] \in Ptrs /\ (H[q] # NULL => H[q] \in Blocks /\ H[q] # b)
  BY <1>0, <1>2, <1>3, NullApart DEF Heads, Ptrs
<1>9. \A c \in Blocks : /\ d[c].Next \in Ptrs /\ d[c].Prev \in Ptrs /\ k[c] \in Nat
                        /\ (d[c].Next # NULL => d[c].Next \in Blocks)
                        /\ (d[c].Prev # NULL => d[c].Prev \in Blocks)
  BY <1>3 DEF Cell, Ptrs
<1>10. Heads(G, e, m2, k2)
  <2>1. ASSUME NEW q \in Routes, G[q] # NULL
        PROVE  m2[G[q]] = q /\ e[G[q]].Prev = NULL /\ k2[G[q]] = 0
    <3>1. CASE q = r
      BY <1>1, <1>6, <1>7, <3>1
    <3>2. CASE q # r
      <4>1. G[q] = H[q] /\ H[q] # NULL /\ H[q] \in Blocks /\ H[q] # b
        BY <1>7, <1>8, <2>1, <3>2
      <4>2. m[H[q]] = q /\ d[H[q]].Prev = NULL /\ k[H[q]] = 0
        BY <1>0, <4>1 DEF Heads
      <4>3. H[q] # H[r]
        BY <1>0, <3>2, <4>1, <4>2 DEF Heads
      <4> QED
        BY <1>6, <3>2, <4>1, <4>2, <4>3
    <3> QED
      BY <3>1, <3>2
  <2> QED
    BY <2>1 DEF Heads
<1>11. Forward(e, m2, k2)
  <2>1. ASSUME NEW c \in Blocks, m2[c] # NULL, e[c].Next # NULL
        PROVE  /\ m2[e[c].Next] = m2[c] /\ e[e[c].Next].Prev = c /\ k2[e[c].Next] = k2[c] + 1
    <3>1. CASE c = b
      <4>1. PICK h : h = H[r]
        OBVIOUS
      <4>2. e[c].Next = h /\ h \in Blocks /\ h # b
        BY <1>6, <1>8, <2>1, <3>1, <4>1
      <4>3. m[h] = r /\ k[h] = 0
        BY <1>0, <4>1, <4>2, NullApart DEF Heads
      <4> QED
        BY <1>6, <3>1, <4>1, <4>2, <4>3
    <3>2. CASE c # b
      <4>1. PICK h : h = d[c].Next
        OBVIOUS
      <4>2. e[c].Next = h /\ h \in Blocks /\ m[c] # NULL
        BY <1>6, <1>9, <2>1, <3>2, <4>1
      <4>3. m[h] = m[c] /\ d[h].Prev = c /\ k[h] = k[c] + 1
        BY <1>0, <4>1, <4>2, NullApart DEF Forward
      <4>4. h # b
        BY <1>2, <4>2, <4>3
      <4>5. h # H[r]
        BY <1>0, <4>2, <4>3, NullApart DEF Heads
      <4> QED
        BY <1>6, <1>9, <3>2, <4>1, <4>2, <4>3, <4>4, <4>5
    <3> QED
      BY <3>1, <3>2
  <2> QED
    BY <2>1 DEF Forward
<1>12. Backward(G, e, m2)
  <2>1. ASSUME NEW c \in Blocks, m2[c] # NULL, e[c].Prev = NULL
        PROVE  G[m2[c]] = c
    <3>1. CASE c = b
      BY <1>6, <1>7, <3>1
    <3>2. CASE c # b
      <4>1. m2[c] = m[c] /\ c # H[r] /\ d[c].Prev = NULL /\ m[c] \in Routes
        BY <1>1, <1>3, <1>6, <2>1, <3>2, NullApart
      <4>2. H[m[c]] = c
        BY <1>0, <4>1, NullApart DEF Backward
      <4> QED
        BY <1>7, <4>1, <4>2
    <3> QED
      BY <3>1, <3>2
  <2>2. ASSUME NEW c \in Blocks, m2[c] # NULL, e[c].Prev # NULL
        PROVE  m2[e[c].Prev] = m2[c] /\ e[e[c].Prev].Next = c
    <3>1. c # b /\ m2[c] = m[c]
      BY <1>6, <2>2
    <3>2. CASE c = H[r]
      <4>1. e[c].Prev = b /\ m[c] = r
        BY <1>0, <1>6, <3>1, <3>2, NullApart DEF Heads
      <4> QED
        BY <1>1, <1>6, <3>1, <3>2, <4>1
    <3>3. CASE c # H[r]
      <4>1. PICK h : h = d[c].Prev
        OBVIOUS
      <4>2. e[c].Prev = h /\ h \in Blocks /\ m[c] # NULL
        BY <1>6, <1>9, <2>2, <3>1, <3>3, <4>1
      <4>3. m[h] = m[c] /\ d[h].Next = c
        BY <1>0, <4>1, <4>2, NullApart DEF Backward
      <4>4. h # b
        BY <1>2, <4>2, <4>3
      <4> QED
        BY <1>6, <3>1, <4>2, <4>3, <4>4
    <3> QED
      BY <3>2, <3>3
  <2> QED
    BY <2>1, <2>2 DEF Backward
<1>13. Positions(m2, k2)
  <2>1. ASSUME NEW c \in Blocks, NEW x \in Blocks, m2[c] # NULL, m2[c] = m2[x], k2[c] = k2[x]
        PROVE  c = x
    <3>1. CASE c = b /\ x # b
      BY <1>6, <1>9, <2>1, <3>1
    <3>2. CASE c # b /\ x = b
      BY <1>6, <1>9, <2>1, <3>2
    <3>3. CASE c # b /\ x # b
      <4>1. m[c] # NULL /\ m[c] = m[x] /\ k[c] = k[x]
        BY <1>6, <1>9, <2>1, <3>3
      <4> QED
        BY <1>0, <4>1 DEF Positions
    <3> QED
      BY <3>1, <3>2, <3>3
  <2>2. Places(m2, r) = Places(m, r) \cup {b} /\ b \notin Places(m, r)
    BY <1>1, <1>2, <1>6, NullApart DEF Places
  <2>3. PICK z \in Nat : z = Cardinality(Places(m, r)) /\ Cardinality(Places(m2, r)) = z + 1
    <3>1. PICK X : X = Places(m, r) /\ IsFiniteSet(X) /\ Cardinality(X) \in Nat /\ b \notin X
      BY <2>2, PlacesFinite
    <3>2. Cardinality(X \cup {b}) = Cardinality(X) + 1
      BY <3>1, FS_AddElement
    <3> QED
      BY <2>2, <3>1, <3>2
  <2>4. ASSUME NEW c \in Blocks, m2[c] # NULL PROVE k2[c] < Cardinality(Places(m2, m2[c]))
    <3>1. CASE c = b
      BY <1>6, <2>3, <3>1
    <3>2. CASE c # b
      <4>1. m2[c] = m[c] /\ k[c] < Cardinality(Places(m, m[c]))
        BY <1>0, <1>6, <2>4, <3>2 DEF Positions
      <4>2. CASE m[c] = r
        BY <1>6, <1>9, <2>3, <3>2, <4>1, <4>2
      <4>3. CASE m[c] # r
        <5>1. Places(m2, m[c]) = Places(m, m[c])
          BY <1>2, <1>6, <2>4, <4>1, <4>3 DEF Places
        <5> QED
          BY <1>6, <3>2, <4>1, <4>3, <5>1
      <4> QED
        BY <4>2, <4>3
    <3> QED
      BY <3>1, <3>2
  <2> QED
    BY <2>1, <2>4 DEF Positions
<1> QED
  BY <1>1, <1>2, <1>4, <1>5, <1>10, <1>11, <1>12, <1>13 DEF Linked

(* Positions behind the block that leaves move up by one.                  *)
Closed(x, z) == IF x > z THEN x - 1 ELSE x

LEMMA ClosedFacts ==
  ASSUME NEW x \in Nat, NEW y \in Nat, NEW z \in Nat, NEW n \in Nat
  PROVE  /\ x # z => Closed(x + 1, z) = Closed(x, z) + 1
         /\ x # z /\ y # z /\ Closed(x, z) = Closed(y, z) => x = y
         /\ x # z /\ x < n + 1 /\ z < n + 1 => Closed(x, z) < n
         /\ Closed(x, z) \in Nat
BY DEF Closed

WithoutDest(d, b) ==
  [c \in Blocks |->
     IF c = b THEN [d[b] EXCEPT !.Next = NULL, !.Prev = NULL]
     ELSE IF c = d[b].Next THEN [d[c] EXCEPT !.Prev = d[b].Prev]
     ELSE IF c = d[b].Prev THEN [d[c] EXCEPT !.Next = d[b].Next]
     ELSE d[c]]

WithoutHead(H, d, r, b) ==
  IF d[b].Prev = NULL THEN [H EXCEPT ![r] = d[b].Next] ELSE H

WithoutGap(m, k, r, b) ==
  [c \in Blocks |-> IF m[c] = r /\ k[c] > k[b] THEN k[c] - 1 ELSE k[c]]

LEMMA LinkedRemove ==
  ASSUME NEW H, NEW d, NEW P, NEW m, NEW k, Linked(H, d, P, m, k),
         NEW r \in Routes, NEW b \in Blocks, m[b] = r,
         NEW e, e = WithoutDest(d, b), NEW G, G = WithoutHead(H, d, r, b),
         NEW m2, m2 = [m EXCEPT ![b] = NULL], NEW k2, k2 = WithoutGap(m, k, r, b)
  PROVE  Linked(G, e, <<b>> \o P, m2, k2)
<1> USE DEF WithoutDest, WithoutHead, WithoutGap
<1>0. /\ LinkTypes(H, d, P, m, k) /\ FreeOnce(P, m) /\ Heads(H, d, m, k)
      /\ Forward(d, m, k) /\ Backward(H, d, m) /\ Positions(m, k)
  BY DEF Linked
<1>1. r # NULL /\ b # NULL
  BY NullApart
<1>3. /\ H \in [Routes -> Ptrs] /\ d \in [Blocks -> Cell] /\ P \in Seq(Blocks)
      /\ m \in [Blocks -> Routes \cup {NULL}] /\ k \in [Blocks -> Nat]
  BY <1>0 DEF LinkTypes
<1>9. \A c \in Blocks : /\ d[c].Next \in Ptrs /\ d[c].Prev \in Ptrs /\ k[c] \in Nat
                        /\ (d[c].Next # NULL => d[c].Next \in Blocks)
                        /\ (d[c].Prev # NULL => d[c].Prev \in Blocks)
  BY <1>3 DEF Cell, Ptrs
<1>2. PICK nx \in Ptrs, pv \in Ptrs : nx = d[b].Next /\ pv = d[b].Prev
  BY <1>9
<1>4. /\ nx # NULL => nx \in Blocks /\ m[nx] = r /\ d[nx].Prev = b /\ k[nx] = k[b] + 1
      /\ pv # NULL => /\ pv \in Blocks /\ m[pv] = r /\ d[pv].Next = b
                      /\ k[b] = k[pv] + 1
      /\ pv = NULL => H[r] = b
  <2>1. nx # NULL => nx \in Blocks /\ m[nx] = r /\ d[nx].Prev = b /\ k[nx] = k[b] + 1
    BY <1>0, <1>1, <1>2, <1>9 DEF Forward
  <2>2. pv # NULL => pv \in Blocks /\ m[pv] = r /\ d[pv].Next = b
    BY <1>0, <1>1, <1>2, <1>9 DEF Backward
  <2>3. pv = NULL => H[r] = b
    BY <1>0, <1>1, <1>2 DEF Backward
  <2>4. pv # NULL => k[b] = k[pv] + 1
    BY <1>0, <1>1, <2>2 DEF Forward
  <2> QED
    BY <2>1, <2>2, <2>3, <2>4
<1>5. (nx # NULL => nx # b /\ nx # pv) /\ (pv # NULL => pv # b)
  BY <1>4, <1>9
<1>6. \A c \in Blocks : /\ m2[c] = (IF c = b THEN NULL ELSE m[c])
                        /\ k2[c] = (IF m[c] = r /\ k[c] > k[b] THEN k[c] - 1 ELSE k[c])
                        /\ e[c].Next = (IF c = b THEN NULL ELSE IF c = pv THEN nx ELSE d[c].Next)
                        /\ e[c].Prev = (IF c = b THEN NULL ELSE IF c = nx THEN pv ELSE d[c].Prev)
  <2>1. ASSUME NEW c \in Blocks
        PROVE  /\ e[c].Next = (IF c = b THEN NULL ELSE IF c = pv THEN nx ELSE d[c].Next)
               /\ e[c].Prev = (IF c = b THEN NULL ELSE IF c = nx THEN pv ELSE d[c].Prev)
    <3>1. d[c] \in Cell /\ d[b] \in Cell /\ c # NULL
      BY <1>3, NullApart
    <3>2. e[c] = IF c = b THEN [d[b] EXCEPT !.Next = NULL, !.Prev = NULL]
                 ELSE IF c = nx THEN [d[c] EXCEPT !.Prev = pv]
                 ELSE IF c = pv THEN [d[c] EXCEPT !.Next = nx]
                 ELSE d[c]
      BY <1>2
    <3>3. CASE c = b
      BY <3>1, <3>2, <3>3 DEF Cell
    <3>4. CASE c # b /\ c = nx
      BY <1>5, <3>1, <3>2, <3>4 DEF Cell
    <3>5. CASE c # b /\ c # nx
      BY <3>1, <3>2, <3>5 DEF Cell
    <3> QED
      BY <3>3, <3>4, <3>5
  <2> QED
    BY <1>3, <2>1
<1>7. \A q \in Routes : G[q] = IF q = r /\ pv = NULL THEN nx ELSE H[q]
  BY <1>2, <1>3
<1>8. \A q \in Routes : H[q] \in Ptrs /\ (H[q] # NULL => H[q] \in Blocks)
  BY <1>3 DEF Ptrs
<1>10. LinkTypes(G, e, <<b>> \o P, m2, k2)
  <2>1. NULL \in Ptrs
    BY DEF Ptrs
  <2>2. G \in [Routes -> Ptrs] /\ m2 \in [Blocks -> Routes \cup {NULL}]
    BY <1>2, <1>3
  <2>3. k2 \in [Blocks -> Nat]
    BY <1>3
  <2>4. ASSUME NEW c \in Blocks PROVE e[c] \in Cell
    <3>1. d[c] \in Cell /\ d[b] \in Cell
      BY <1>3
    <3>2. e[c] = IF c = b THEN [d[b] EXCEPT !.Next = NULL, !.Prev = NULL]
                 ELSE IF c = nx THEN [d[c] EXCEPT !.Prev = pv]
                 ELSE IF c = pv THEN [d[c] EXCEPT !.Next = nx]
                 ELSE d[c]
      BY <1>2
    <3> QED
      BY <2>1, <3>1, <3>2 DEF Cell
  <2>5. e \in [Blocks -> Cell]
    BY <2>4
  <2>6. <<b>> \o P \in Seq(Blocks)
    BY <1>3
  <2> QED
    BY <2>2, <2>3, <2>5, <2>6 DEF LinkTypes
<1>11. FreeOnce(<<b>> \o P, m2)
  <2>0. PICK Q : Q = <<b>> \o P
    OBVIOUS
  <2>1. /\ Len(P) \in Nat /\ Len(Q) = Len(P) + 1 /\ Q[1] = b
        /\ \A i \in 1 .. Len(P) : Q[i + 1] = P[i]
    BY <1>3, <2>0
  <2>2. \A i \in 1 .. Len(P) : P[i] # b
    BY <1>0, <1>1 DEF FreeOnce
  <2>3. \A i \in 1 .. Len(Q) : i = 1 \/ (i - 1 \in 1 .. Len(P) /\ Q[i] = P[i - 1])
    <3>1. ASSUME NEW i \in 1 .. Len(Q), i # 1 PROVE i - 1 \in 1 .. Len(P) /\ Q[i] = P[i - 1]
      <4>1. i - 1 \in 1 .. Len(P) /\ (i - 1) + 1 = i
        BY <2>1, <3>1
      <4> QED
        BY <2>1, <4>1
    <3> QED
      BY <3>1
  <2>4. ASSUME NEW c \in Blocks PROVE m2[c] = NULL <=> \E i \in 1 .. Len(Q) : Q[i] = c
    <3>1. CASE c = b
      <4>1. 1 \in 1 .. Len(Q)
        BY <2>1
      <4> QED
        BY <1>6, <2>1, <3>1, <4>1
    <3>2. CASE c # b
      <4>1. m2[c] = m[c] /\ (m[c] = NULL <=> \E i \in 1 .. Len(P) : P[i] = c)
        BY <1>0, <1>6, <3>2 DEF FreeOnce
      <4>2. ASSUME NEW i \in 1 .. Len(P), P[i] = c PROVE \E j \in 1 .. Len(Q) : Q[j] = c
        <5>1. i + 1 \in 1 .. Len(Q)
          BY <2>1
        <5> QED
          BY <2>1, <4>2, <5>1
      <4>3. ASSUME NEW j \in 1 .. Len(Q), Q[j] = c PROVE \E i \in 1 .. Len(P) : P[i] = c
        BY <2>1, <2>3, <3>2, <4>3
      <4> QED
        BY <4>1, <4>2, <4>3
    <3> QED
      BY <3>1, <3>2
  <2>5. ASSUME NEW i \in 1 .. Len(Q), NEW j \in 1 .. Len(Q), Q[i] = Q[j] PROVE i = j
    <3>1. CASE i = 1 \/ j = 1
      BY <2>1, <2>2, <2>3, <2>5, <3>1
    <3>2. CASE i # 1 /\ j # 1
      <4>1. i - 1 \in 1 .. Len(P) /\ j - 1 \in 1 .. Len(P) /\ P[i - 1] = P[j - 1]
        BY <2>3, <2>5, <3>2
      <4>2. i - 1 = j - 1
        BY <1>0, <4>1 DEF FreeOnce
      <4> QED
        BY <2>1, <4>2
    <3> QED
      BY <3>1, <3>2
  <2> QED
    BY <2>0, <2>4, <2>5 DEF FreeOnce
<1>12. Heads(G, e, m2, k2)
  <2>1. ASSUME NEW q \in Routes, G[q] # NULL
        PROVE  m2[G[q]] = q /\ e[G[q]].Prev = NULL /\ k2[G[q]] = 0
    <3>1. CASE q = r /\ pv = NULL
      <4>1. G[q] = nx /\ nx # NULL /\ nx # b /\ nx \in Blocks /\ m[nx] = r /\ k[nx] = k[b] + 1
        BY <1>4, <1>5, <1>7, <2>1, <3>1
      <4>2. k[b] = 0
        BY <1>0, <1>1, <1>4, <3>1 DEF Heads
      <4> QED
        BY <1>6, <3>1, <4>1, <4>2
    <3>2. CASE ~(q = r /\ pv = NULL)
      <4>1. G[q] = H[q] /\ H[q] # NULL /\ H[q] \in Blocks
        BY <1>7, <1>8, <2>1, <3>2
      <4>2. m[H[q]] = q /\ d[H[q]].Prev = NULL /\ k[H[q]] = 0
        BY <1>0, <4>1 DEF Heads
      <4>3. H[q] # b
        BY <1>2, <3>2, <4>2
      <4>4. H[q] # nx
        BY <1>1, <1>4, <4>1, <4>2
      <4> QED
        BY <1>6, <1>9, <4>1, <4>2, <4>3, <4>4
    <3> QED
      BY <3>1, <3>2
  <2> QED
    BY <2>1 DEF Heads
<1>13. Forward(e, m2, k2)
  <2>1. ASSUME NEW c \in Blocks, m2[c] # NULL, e[c].Next # NULL
        PROVE  /\ m2[e[c].Next] = m2[c] /\ e[e[c].Next].Prev = c /\ k2[e[c].Next] = k2[c] + 1
    <3>0. c # b /\ m2[c] = m[c] /\ m[c] # NULL
      BY <1>6, <2>1
    <3>1. CASE c = pv
      <4>1. e[c].Next = nx /\ nx # NULL /\ nx \in Blocks /\ nx # b
        BY <1>5, <1>6, <1>4, <2>1, <3>0, <3>1
      <4>2. m[nx] = r /\ m[c] = r /\ k[nx] = k[c] + 2 /\ k[b] = k[c] + 1 /\ k[c] \in Nat
        BY <1>4, <1>9, <3>1, <4>1, NullApart
      <4>3. k2[nx] = k[nx] - 1 /\ k2[c] = k[c] /\ e[nx].Prev = pv /\ m2[nx] = r
        BY <1>6, <4>1, <4>2
      <4> QED
        BY <3>0, <3>1, <4>1, <4>2, <4>3
    <3>2. CASE c # pv
      <4>1. PICK h : h = d[c].Next
        OBVIOUS
      <4>2. e[c].Next = h /\ h \in Blocks /\ h # NULL
        BY <1>6, <1>9, <2>1, <3>0, <3>2, <4>1
      <4>3. m[h] = m[c] /\ d[h].Prev = c /\ k[h] = k[c] + 1
        BY <1>0, <3>0, <4>1, <4>2 DEF Forward
      <4>4. h # b
        BY <1>2, <3>2, <4>3
      <4>5. h # nx
        BY <1>4, <3>0, <4>2, <4>3
      <4>6. m2[h] = m2[c] /\ e[h].Prev = c
        BY <1>6, <3>0, <4>2, <4>3, <4>4, <4>5
      <4>7. k2[h] = k2[c] + 1
        <5>1. m[c] = r => k[c] # k[b]
          BY <1>0, <1>1, <3>0 DEF Positions
        <5>2. k[c] \in Nat /\ k[b] \in Nat
          BY <1>9
        <5>3. m[c] = r => k2[h] = Closed(k[c] + 1, k[b]) /\ k2[c] = Closed(k[c], k[b])
          BY <1>6, <4>2, <4>3 DEF Closed
        <5>4. m[c] # r => k2[h] = k[c] + 1 /\ k2[c] = k[c]
          BY <1>6, <4>2, <4>3
        <5> QED
          BY <5>1, <5>2, <5>3, <5>4, ClosedFacts
      <4> QED
        BY <4>2, <4>6, <4>7
    <3> QED
      BY <3>1, <3>2
  <2> QED
    BY <2>1 DEF Forward
<1>14. Backward(G, e, m2)
  <2>0. ASSUME NEW c \in Blocks, m2[c] # NULL
        PROVE  c # b /\ m2[c] = m[c] /\ m[c] # NULL /\ m[c] \in Routes
    BY <1>3, <1>6, <2>0
  <2>1. ASSUME NEW c \in Blocks, m2[c] # NULL, e[c].Prev = NULL
        PROVE  G[m2[c]] = c
    <3>1. CASE c = nx
      <4>1. c # b /\ m2[c] = m[c]
        BY <2>0, <2>1
      <4>2. pv = NULL
        BY <1>6, <2>1, <3>1, <4>1
      <4>3. m[c] = r
        BY <1>4, <3>1, NullApart
      <4> QED
        BY <1>7, <3>1, <4>1, <4>2, <4>3
    <3>2. CASE c # nx
      <4>1. d[c].Prev = NULL
        BY <1>6, <2>0, <2>1, <3>2
      <4>2. H[m[c]] = c
        BY <1>0, <2>0, <2>1, <4>1 DEF Backward
      <4>3. ~(m[c] = r /\ pv = NULL)
        BY <1>4, <2>0, <2>1, <4>2
      <4> QED
        BY <1>7, <2>0, <2>1, <4>2, <4>3
    <3> QED
      BY <3>1, <3>2
  <2>2. ASSUME NEW c \in Blocks, m2[c] # NULL, e[c].Prev # NULL
        PROVE  m2[e[c].Prev] = m2[c] /\ e[e[c].Prev].Next = c
    <3>1. CASE c = nx
      <4>1. e[c].Prev = pv /\ pv # NULL /\ pv \in Blocks /\ pv # b /\ m[pv] = r /\ m[c] = r
        BY <1>4, <1>5, <1>6, <2>0, <2>2, <3>1, NullApart
      <4> QED
        BY <1>6, <2>0, <2>2, <3>1, <4>1
    <3>2. CASE c # nx
      <4>1. PICK h : h = d[c].Prev
        OBVIOUS
      <4>2. e[c].Prev = h /\ h \in Blocks /\ h # NULL
        BY <1>6, <1>9, <2>0, <2>2, <3>2, <4>1
      <4>3. m[h] = m[c] /\ d[h].Next = c
        BY <1>0, <2>0, <2>2, <4>1, <4>2 DEF Backward
      <4>4. h # b /\ h # pv
        BY <1>2, <1>4, <2>0, <2>2, <3>2, <4>2, <4>3
      <4> QED
        BY <1>6, <2>0, <2>2, <4>2, <4>3, <4>4
    <3> QED
      BY <3>1, <3>2
  <2> QED
    BY <2>1, <2>2 DEF Backward
<1>15. Positions(m2, k2)
  <2>1. ASSUME NEW c \in Blocks, NEW x \in Blocks, m2[c] # NULL, m2[c] = m2[x], k2[c] = k2[x]
        PROVE  c = x
    <3>1. c # b /\ x # b /\ m[c] # NULL /\ m[c] = m[x]
      BY <1>6, <2>1
    <3>2. m[c] = r => k[c] # k[b] /\ k[x] # k[b]
      BY <1>0, <1>1, <3>1 DEF Positions
    <3>3. k[c] = k[x]
      <4>1. k[c] \in Nat /\ k[b] \in Nat /\ k[x] \in Nat
        BY <1>9
      <4>2. m[c] = r => k2[c] = Closed(k[c], k[b]) /\ k2[x] = Closed(k[x], k[b])
        BY <1>6, <3>1 DEF Closed
      <4>3. m[c] # r => k2[c] = k[c] /\ k2[x] = k[x]
        BY <1>6, <3>1
      <4> QED
        BY <2>1, <3>2, <4>1, <4>2, <4>3, ClosedFacts
    <3> QED
      BY <1>0, <3>1, <3>3 DEF Positions
  <2>2. Places(m2, r) = Places(m, r) \ {b} /\ b \in Places(m, r)
    BY <1>1, <1>6 DEF Places
  <2>3. PICK z \in Nat : z + 1 = Cardinality(Places(m, r)) /\ Cardinality(Places(m2, r)) = z
    <3>1. PICK X : X = Places(m, r) /\ IsFiniteSet(X) /\ Cardinality(X) \in Nat /\ b \in X
      BY <2>2, PlacesFinite
    <3>2. Cardinality(X \ {b}) = Cardinality(X) - 1
      BY <3>1, FS_RemoveElement
    <3>3. Cardinality(X \ {b}) \in Nat
      BY <2>2, <3>1, PlacesFinite
    <3>4. PICK y \in Nat, z \in Nat : y = Cardinality(X) /\ z = Cardinality(X \ {b})
      BY <3>1, <3>3
    <3>5. z + 1 = y
      BY <3>2, <3>4
    <3> QED
      BY <2>2, <3>1, <3>4, <3>5
  <2>4. ASSUME NEW c \in Blocks, m2[c] # NULL PROVE k2[c] < Cardinality(Places(m2, m2[c]))
    <3>1. c # b /\ m2[c] = m[c] /\ m[c] # NULL /\ k[c] < Cardinality(Places(m, m[c]))
      BY <1>0, <1>6, <2>4 DEF Positions
    <3>2. CASE m[c] = r
      <4>1. k[c] # k[b] /\ k[b] < z + 1
        BY <1>0, <1>1, <2>3, <3>1, <3>2 DEF Positions
      <4>2. k[c] \in Nat /\ k[b] \in Nat /\ k[c] < z + 1
        BY <1>9, <2>3, <3>1, <3>2
      <4>3. k2[c] = Closed(k[c], k[b])
        BY <1>6, <3>2 DEF Closed
      <4> QED
        BY <2>3, <3>1, <3>2, <4>1, <4>2, <4>3, ClosedFacts
    <3>3. CASE m[c] # r
      <4>1. Places(m2, m[c]) = Places(m, m[c])
        BY <1>6, <3>1, <3>3 DEF Places
      <4> QED
        BY <1>6, <3>1, <3>3, <4>1
    <3> QED
      BY <3>2, <3>3
  <2> QED
    BY <2>1, <2>4 DEF Positions
<1> QED
  BY <1>10, <1>11, <1>12, <1>13, <1>14, <1>15 DEF Linked

(* A route command writes no pointer.                                      *)
WithState(d, b, a) == [d EXCEPT ![b].Active = a]

LEMMA LinkedSwitch ==
  ASSUME NEW H, NEW d, NEW P, NEW m, NEW k, Linked(H, d, P, m, k),
         NEW b \in Blocks, NEW a \in BOOLEAN,
         NEW e, e = WithState(d, b, a)
  PROVE  Linked(H, e, P, m, k)
<1> USE DEF WithState
<1>1. d \in [Blocks -> Cell]
  BY DEF Linked, LinkTypes
<1>2. ASSUME NEW c \in Blocks
      PROVE  /\ e[c] \in Cell /\ e[c].Next = d[c].Next /\ e[c].Prev = d[c].Prev
  <2>1. d[c] \in Cell
    BY <1>1
  <2> QED
    BY <1>1, <2>1 DEF Cell
<1>3. LinkTypes(H, e, P, m, k)
  <2>1. e \in [Blocks -> Cell]
    BY <1>1, <1>2
  <2> QED
    BY <2>1 DEF Linked, LinkTypes
<1>4. \A c \in Blocks : /\ d[c].Next # NULL => d[c].Next \in Blocks
                        /\ d[c].Prev # NULL => d[c].Prev \in Blocks
  BY <1>1 DEF Cell, Ptrs
<1>5. Heads(H, e, m, k)
  <2>1. \A r \in Routes : H[r] # NULL => H[r] \in Blocks
    BY DEF Linked, LinkTypes, Ptrs
  <2>2. Heads(H, d, m, k)
    BY DEF Linked
  <2> QED
    BY <1>2, <2>1, <2>2 DEF Heads
<1>6. Forward(e, m, k)
  <2>1. Forward(d, m, k)
    BY DEF Linked
  <2> QED
    BY <1>2, <1>4, <2>1 DEF Forward
<1>7. Backward(H, e, m)
  <2>1. Backward(H, d, m)
    BY DEF Linked
  <2> QED
    BY <1>2, <1>4, <2>1 DEF Backward
<1> QED
  BY <1>3, <1>5, <1>6, <1>7 DEF Linked

-----------------------------------------------------------------------------
(* The inductive invariant.                                                *)

Locs == [route : Routes \cup {NULL}, pipe : Pipes \cup {NULL}, ptr : Ptrs,
         active : BOOLEAN]

(* A task that deletes a pipe owns it, and the pipe exists until the walk   *)
(* ends; the block it goes on from may be anyone's.                         *)
Locals ==
  /\ loc \in [Tasks \cup {SB} -> Locs]
  /\ \A t \in Tasks :
       /\ pc[t] \in {"idle", "unsubscribe", "resume"}
       /\ pc[t] # "idle" => /\ loc[t].route \in Routes /\ loc[t].ptr \in Blocks
                            /\ loc[t].pipe \in inUse /\ OwnerOf[loc[t].pipe] = t
  /\ pc[SB] \in {"idle", "find", "write"}
  /\ pc[SB] # "idle" => loc[SB].route \in Routes /\ loc[SB].pipe \in Pipes
  /\ pc[SB] = "write" => loc[SB].ptr \in Blocks

(* A route lists a pipe once, and only one that exists.                    *)
Listed(m) ==
  /\ \A b \in Blocks : m[b] # NULL => dest[b].PipeId \in inUse
  /\ \A b, c \in Blocks :
       m[b] # NULL /\ m[b] = m[c] /\ dest[b].PipeId = dest[c].PipeId => b = c

(* No route behind the walk of a deletion lists the pipe.                  *)
Behind(m) ==
  \A t \in Tasks, b \in Blocks : m[b] # NULL /\ dest[b].PipeId = loc[t].pipe =>
    /\ pc[t] = "unsubscribe" => loc[t].route <= m[b]
    /\ pc[t] = "resume" => loc[t].route < m[b]

(* The state of a destination is the one commanded, at first active, unless *)
(* a command that had gone astray wrote it.                                 *)
Switches(m) ==
  /\ \A r \in Routes, p \in Pipes :
       (\A b \in Blocks : m[b] = r => dest[b].PipeId # p) => commanded[<<r, p>>] = TRUE
  /\ \A b \in Blocks : m[b] # NULL /\ b \notin misled =>
       dest[b].Active = commanded[<<m[b], dest[b].PipeId>>]

(* Until the block where it stands is given back, a route command stays in  *)
(* the route's list, and at the end of its walk it is at the pipe's block.  *)
InList(m) ==
  pc[SB] # "idle" /\ ~astray =>
    /\ loc[SB].ptr # NULL => m[loc[SB].ptr] = loc[SB].route
    /\ pc[SB] = "write" => dest[loc[SB].ptr].PipeId = loc[SB].pipe

Placed(m, k) ==
  /\ Linked(ListHeadPtr, dest, pool, m, k) /\ Listed(m) /\ Behind(m)
  /\ Switches(m) /\ InList(m)

DestInv == TypeOK /\ Locals /\ \E m, k : Placed(m, k)

LEMMA TasksApart == SB \notin Tasks /\ OwnerOf \in [Pipes -> Tasks] /\ Routes \subseteq Nat
BY DestinationAssumption

(* The invariant gives the properties.                                     *)
LEMMA InvExact ==
  ASSUME DestInv
  PROVE  DestinationsExact
<1>1. PICK m, k : Placed(m, k)
  BY DEF DestInv
<1>2. Linked(ListHeadPtr, dest, pool, m, k) /\ Listed(m)
  BY <1>1 DEF Placed
<1>3. \A r \in Routes : List(r) = Places(m, r)
  BY <1>2, ListIs
<1>4. ASSUME NEW r \in Routes, NEW b \in Blocks PROVE b \in List(r) <=> m[b] = r
  BY <1>3 DEF Places
<1>4a. \A r \in Routes : \A b \in List(r) : b \in Blocks
  BY <1>3 DEF Places
<1>5. ListsExact
  <2>1. ASSUME NEW r \in Routes, NEW b \in Blocks, b \in List(r)
        PROVE  /\ dest[b].Next # NULL => dest[dest[b].Next].Prev = b
               /\ dest[b].Prev = NULL <=> b = ListHeadPtr[r]
    <3>1. m[b] = r /\ m[b] # NULL
      BY <1>4, <2>1, NullApart
    <3>2. dest[b].Next # NULL => dest[dest[b].Next].Prev = b
      BY <1>2, <3>1 DEF Linked, Forward
    <3>3. dest[b].Prev = NULL => b = ListHeadPtr[r]
      BY <1>2, <3>1 DEF Linked, Backward
    <3>4. b = ListHeadPtr[r] => dest[b].Prev = NULL
      BY <1>2, NullApart DEF Linked, Heads
    <3> QED
      BY <3>2, <3>3, <3>4
  <2>2. ASSUME NEW b \in Blocks
        PROVE  Cardinality({r \in Routes : b \in List(r)})
                 + Cardinality({i \in DOMAIN pool : pool[i] = b}) = 1
    <3>0. /\ m[b] \in Routes \cup {NULL} /\ DOMAIN pool = 1 .. Len(pool)
          /\ m[b] = NULL <=> \E i \in 1 .. Len(pool) : pool[i] = b
          /\ \A i, j \in 1 .. Len(pool) : pool[i] = pool[j] => i = j
      BY <1>2 DEF Linked, LinkTypes, FreeOnce
    <3>1. CASE m[b] = NULL
      <4>1. {r \in Routes : b \in List(r)} = {}
        BY <1>4, <3>1, NullApart
      <4>2. PICK i \in 1 .. Len(pool) : pool[i] = b
        BY <3>0, <3>1
      <4>3. {j \in DOMAIN pool : pool[j] = b} = {i}
        BY <3>0, <4>2
      <4>4. Cardinality({}) = 0 /\ Cardinality({i}) = 1
        BY FS_EmptySet, FS_Singleton
      <4>5. /\ Cardinality({r \in Routes : b \in List(r)}) = 0
            /\ Cardinality({j \in DOMAIN pool : pool[j] = b}) = 1
        BY <4>1, <4>3, <4>4
      <4> QED
        BY <4>5
    <3>2. CASE m[b] # NULL
      <4>1. PICK q \in Routes : m[b] = q
        BY <3>0, <3>2
      <4>2. {r \in Routes : b \in List(r)} = {q}
        BY <1>4, <4>1
      <4>3. {j \in DOMAIN pool : pool[j] = b} = {}
        BY <3>0, <3>2
      <4>4. Cardinality({}) = 0 /\ Cardinality({q}) = 1
        BY FS_EmptySet, FS_Singleton
      <4> QED
        BY <4>2, <4>3, <4>4
    <3> QED
      BY <3>1, <3>2
  <2> QED
    BY <1>4a, <2>1, <2>2 DEF ListsExact
<1>6. DeletedPipesUnlisted
  <2>1. ASSUME NEW r \in Routes, NEW b \in Blocks, NEW c \in Blocks, {b, c} \subseteq List(r)
        PROVE  /\ dest[b].PipeId \in inUse
               /\ dest[b].PipeId = dest[c].PipeId => b = c
    <3>1. m[b] = r /\ m[c] = r /\ m[b] # NULL
      BY <1>4, <2>1, NullApart
    <3> QED
      BY <1>2, <3>1 DEF Listed
  <2> QED
    BY <1>4a, <2>1 DEF DeletedPipesUnlisted
<1> QED
  BY <1>5, <1>6 DEF DestinationsExact, DestInv

LEMMA InvCommanded ==
  ASSUME DestInv
  PROVE  ActiveAsCommanded
<1>1. PICK m, k : Placed(m, k)
  BY DEF DestInv
<1>2. Linked(ListHeadPtr, dest, pool, m, k) /\ Switches(m)
  BY <1>1 DEF Placed
<1>3. ASSUME NEW r \in Routes, NEW b \in List(r), b \notin misled
      PROVE  dest[b].Active = commanded[<<r, dest[b].PipeId>>]
  <2>1. b \in Blocks /\ m[b] = r /\ m[b] # NULL
    BY <1>2, <1>3, ListIs, NullApart DEF Places
  <2> QED
    BY <1>2, <1>3, <2>1 DEF Switches
<1> QED
  BY <1>3 DEF ActiveAsCommanded

(* Nothing is subscribed at first.                                         *)
LEMMA InitInv ==
  ASSUME Init
  PROVE  DestInv
<1>1. PICK m, k : m = [b \in Blocks |-> NULL] /\ k = [b \in Blocks |-> 0]
  OBVIOUS
<1>2. NumBlocks \in Nat /\ NULL \in Ptrs
  BY NumBlocksPositive DEF Ptrs
<1>3. pool \in Seq(Blocks) /\ Len(pool) = NumBlocks /\ \A i \in 1 .. NumBlocks : pool[i] = i
  <2>1. pool \in [1 .. NumBlocks -> Blocks]
    BY DEF Init, Blocks
  <2>2. pool \in Seq(Blocks) /\ DOMAIN pool = 1 .. NumBlocks
    BY <1>2, <2>1, SeqDef
  <2>3. Len(pool) = NumBlocks
    BY <1>2, <2>2, LenProperties
  <2> QED
    BY <2>2, <2>3 DEF Init, Blocks
<1>4. dest \in [Blocks -> Cell]
  BY <1>2 DEF Init, Cell
<1>5. TypeOK
  <2>1. NoLoc \in Locs
    BY <1>2 DEF NoLoc, Locs
  <2> QED
    BY <1>2, <1>3, <1>4, <2>1 DEF Init, TypeOK, Cell, Locs
<1>6. Locals
  <2>1. NoLoc \in Locs
    BY <1>2 DEF NoLoc, Locs
  <2> QED
    BY <2>1 DEF Init, Locals
<1>7. Linked(ListHeadPtr, dest, pool, m, k)
  <2>1. LinkTypes(ListHeadPtr, dest, pool, m, k)
    BY <1>1, <1>2, <1>3, <1>4 DEF Init, LinkTypes
  <2>2. FreeOnce(pool, m)
    BY <1>1, <1>2, <1>3 DEF FreeOnce, Blocks
  <2>3. Heads(ListHeadPtr, dest, m, k)
    BY DEF Init, Heads
  <2>4. Forward(dest, m, k) /\ Backward(ListHeadPtr, dest, m) /\ Positions(m, k)
    BY <1>1 DEF Forward, Backward, Positions
  <2> QED
    BY <2>1, <2>2, <2>3, <2>4 DEF Linked
<1>8. Listed(m) /\ Behind(m)
  BY <1>1 DEF Listed, Behind
<1>9. Switches(m)
  <2>1. \A r \in Routes, p \in Pipes : commanded[<<r, p>>] = TRUE
    BY DEF Init
  <2> QED
    BY <1>1, <2>1 DEF Switches
<1>10. InList(m)
  BY DEF Init, InList
<1> QED
  BY <1>5, <1>6, <1>7, <1>8, <1>9, <1>10 DEF DestInv, Placed

-----------------------------------------------------------------------------
(* The steps *)

LEMMA CellFacts ==
  ASSUME NEW d \in [Blocks -> Cell], NEW c \in Blocks
  PROVE  /\ d[c] \in Cell /\ d[c].PipeId \in Pipes \cup {NULL} /\ d[c].Active \in BOOLEAN
         /\ d[c].Next \in Ptrs /\ d[c].Prev \in Ptrs
BY DEF Cell

(* CFE_SB_SubscribeFull: the block of the new destination was free.        *)
LEMMA SubscribeKeeps ==
  ASSUME DestInv, NEW t \in Tasks, NEW r \in Routes, NEW p \in Pipes,
         Subscribe(t, r, p)
  PROVE  DestInv'
<1>0. TypeOK /\ Locals
  BY DEF DestInv
<1>1. PICK m, k : Placed(m, k)
  BY DEF DestInv
<1>2. Linked(ListHeadPtr, dest, pool, m, k) /\ Listed(m) /\ Behind(m)
  BY <1>1 DEF Placed
<1>3. PICK b : b = Head(pool)
  OBVIOUS
<1>4. /\ pc[t] = "idle" /\ OwnerOf[p] = t /\ p \in inUse /\ pool # <<>>
      /\ FindFrom(ListHeadPtr[r], p) = NULL
      /\ dest' = WithDest(ListHeadPtr, dest, r, p, b)
      /\ ListHeadPtr' = [ListHeadPtr EXCEPT ![r] = b] /\ pool' = Tail(pool)
      /\ misled' = misled \ {b} /\ UNCHANGED <<inUse, commanded, astray, pc, loc>>
  BY <1>3 DEF Subscribe, AddDest, WithDest
<1>5. PICK m2, k2 : m2 = [m EXCEPT ![b] = r] /\ k2 = WithFirst(m, k, r, b)
  OBVIOUS
<1>6. b \in Blocks /\ m[b] = NULL /\ Linked(ListHeadPtr', dest', pool', m2, k2)
  <2>1. /\ Linked(ListHeadPtr, dest, pool, m, k) /\ pool # <<>> /\ b = Head(pool)
        /\ dest' = WithDest(ListHeadPtr, dest, r, p, b)
        /\ ListHeadPtr' = [ListHeadPtr EXCEPT ![r] = b] /\ pool' = Tail(pool)
    BY <1>2, <1>3, <1>4
  <2>2. PICK e, G : e = dest' /\ G = ListHeadPtr'
    OBVIOUS
  <2>3. b \in Blocks /\ m[b] = NULL /\ Linked(G, e, Tail(pool), m2, k2)
    <3>1. e = WithDest(ListHeadPtr, dest, r, p, b) /\ G = [ListHeadPtr EXCEPT ![r] = b]
      BY <2>1, <2>2
    <3> QED
      BY <2>1, <1>5, <3>1, LinkedAdd, Zenon
  <2> QED
    BY <2>1, <2>2, <2>3
<1>7. \A c \in Blocks : m[c] = r => dest[c].PipeId # p
  BY <1>2, <1>4, FoundInRoute
<1>8. ASSUME NEW c \in Blocks
      PROVE  /\ dest'[c].PipeId = (IF c = b THEN p ELSE dest[c].PipeId)
             /\ dest'[c].Active = (IF c = b THEN TRUE ELSE dest[c].Active)
             /\ m2[c] = (IF c = b THEN r ELSE m[c])
  <2>1. dest[c] \in Cell /\ m \in [Blocks -> Routes \cup {NULL}]
    BY <1>2 DEF Linked, LinkTypes
  <2> QED
    BY <1>4, <1>5, <1>6, <2>1 DEF Cell, WithDest
<1>9. inUse' = inUse /\ pc' = pc /\ loc' = loc /\ commanded' = commanded
      /\ astray' = astray /\ misled' = misled \ {b}
  BY <1>4
<1>10. Listed(m2)'
  <2>1. ASSUME NEW c \in Blocks, m2[c] # NULL PROVE dest'[c].PipeId \in inUse'
    BY <1>2, <1>4, <1>8, <1>9, <2>1 DEF Listed
  <2>2. ASSUME NEW c \in Blocks, NEW x \in Blocks, m2[c] # NULL, m2[c] = m2[x],
               dest'[c].PipeId = dest'[x].PipeId
        PROVE  c = x
    <3>1. CASE c = b \/ x = b
      BY <1>7, <1>8, <2>2, <3>1
    <3>2. CASE c # b /\ x # b
      BY <1>2, <1>8, <2>2, <3>2 DEF Listed
    <3> QED
      BY <3>1, <3>2
  <2> QED
    BY <2>1, <2>2 DEF Listed
<1>11. Behind(m2)'
  <2>1. ASSUME NEW u \in Tasks, NEW c \in Blocks, m2[c] # NULL, dest'[c].PipeId = loc'[u].pipe
        PROVE  /\ pc'[u] = "unsubscribe" => loc'[u].route <= m2[c]
               /\ pc'[u] = "resume" => loc'[u].route < m2[c]
    <3>1. CASE c = b
      <4>1. pc[u] # "idle" => u # t /\ OwnerOf[loc[u].pipe] = u
        BY <1>0, <1>4 DEF Locals
      <4>2. pc[u] = "idle"
        BY <1>4, <1>8, <1>9, <2>1, <3>1, <4>1
      <4> QED
        BY <1>9, <4>2
    <3>2. CASE c # b
      BY <1>2, <1>8, <1>9, <2>1, <3>2 DEF Behind
    <3> QED
      BY <3>1, <3>2
  <2> QED
    BY <2>1 DEF Behind
<1>12. Switches(m2)' /\ InList(m2)'
  <2>1. Switches(m) /\ InList(m)
    BY <1>1 DEF Placed
  <2>2. commanded[<<r, p>>] = TRUE
    BY <1>7, <2>1 DEF Switches
  <2>3. ASSUME NEW q \in Routes, NEW s \in Pipes, \A c \in Blocks : m2[c] = q => dest'[c].PipeId # s
        PROVE  commanded'[<<q, s>>] = TRUE
    <3>1. \A c \in Blocks : m[c] = q => dest[c].PipeId # s
      BY <1>6, <1>8, <2>3, NullApart
    <3> QED
      BY <1>9, <2>1, <3>1 DEF Switches
  <2>4. ASSUME NEW c \in Blocks, m2[c] # NULL, c \notin misled'
        PROVE  dest'[c].Active = commanded'[<<m2[c], dest'[c].PipeId>>]
    <3>1. CASE c = b
      BY <1>8, <1>9, <2>2, <3>1
    <3>2. CASE c # b
      BY <1>8, <1>9, <2>1, <2>4, <3>2 DEF Switches
    <3> QED
      BY <3>1, <3>2
  <2>5. InList(m2)'
    <3>1. loc[SB].ptr \in Ptrs
      BY <1>0 DEF Locals, Locs
    <3>2. ASSUME pc[SB] # "idle", ~astray
          PROVE  /\ loc[SB].ptr # NULL => m2[loc[SB].ptr] = loc[SB].route
                 /\ pc[SB] = "write" => dest'[loc[SB].ptr].PipeId = loc[SB].pipe
      <4>1. loc[SB].route \in Routes /\ (pc[SB] = "write" => loc[SB].ptr \in Blocks)
        BY <1>0, <3>2 DEF Locals
      <4>2. loc[SB].ptr # NULL => loc[SB].ptr \in Blocks /\ loc[SB].ptr # b
        BY <1>6, <2>1, <3>1, <3>2, <4>1, NullApart DEF InList, Ptrs
      <4> QED
        BY <1>8, <2>1, <3>2, <4>1, <4>2, NullApart DEF InList
    <3> QED
      BY <1>9, <3>2 DEF InList
  <2> QED
    BY <2>3, <2>4, <2>5 DEF Switches
<1>13. TypeOK'
  <2>1. /\ ListHeadPtr' \in [Routes -> Ptrs] /\ dest' \in [Blocks -> Cell]
        /\ pool' \in Seq(Blocks)
    BY <1>6 DEF Linked, LinkTypes
  <2> QED
    BY <1>0, <1>9, <2>1 DEF TypeOK, Cell
<1>14. Locals'
  BY <1>0, <1>9 DEF Locals
<1>15. Placed(m2, k2)'
  BY <1>6, <1>10, <1>11, <1>12 DEF Placed
<1> QED
  BY <1>13, <1>14, <1>15 DEF DestInv

(* CFE_SB_UnsubscribeFull: the block of the destination is free again.     *)
Removed(m, b, m2, k2) ==
  /\ Linked(ListHeadPtr', dest', pool', m2, k2) /\ Listed(m2)'
  /\ \A c \in Blocks : /\ dest'[c].PipeId = dest[c].PipeId
                       /\ m2[c] = IF c = b THEN NULL ELSE m[c]
  /\ Switches(m) => Switches(m2)'
  /\ commanded' \in [Routes \X Pipes -> BOOLEAN] /\ inUse' = inUse
  /\ astray' = (astray \/ (pc[SB] # "idle" /\ loc[SB].ptr = b)) /\ misled' = misled \ {b}

LEMMA RemoveKeeps ==
  ASSUME TypeOK, NEW m, NEW k, Linked(ListHeadPtr, dest, pool, m, k), Listed(m),
         NEW r \in Routes, NEW b \in Blocks, m[b] = r, Remove(r, b)
  PROVE  \E m2, k2 : Removed(m, b, m2, k2)
<1>1. /\ dest' = WithoutDest(dest, b) /\ ListHeadPtr' = WithoutHead(ListHeadPtr, dest, r, b)
      /\ pool' = <<b>> \o pool
      /\ commanded' = [commanded EXCEPT ![<<r, dest[b].PipeId>>] = TRUE]
      /\ inUse' = inUse /\ misled' = misled \ {b}
      /\ astray' = (astray \/ (pc[SB] # "idle" /\ loc[SB].ptr = b))
  BY DEF Remove, RemoveDest, WithoutDest, WithoutHead
<1>2. PICK m2, k2 : m2 = [m EXCEPT ![b] = NULL] /\ k2 = WithoutGap(m, k, r, b)
  OBVIOUS
<1>3. Linked(ListHeadPtr', dest', pool', m2, k2)
  BY <1>1, <1>2, LinkedRemove
<1>4. ASSUME NEW c \in Blocks
      PROVE  /\ dest'[c].PipeId = dest[c].PipeId /\ dest'[c].Active = dest[c].Active
             /\ m2[c] = (IF c = b THEN NULL ELSE m[c])
  <2>1. dest[c] \in Cell /\ m \in [Blocks -> Routes \cup {NULL}]
    BY DEF Linked, LinkTypes
  <2> QED
    BY <1>1, <1>2, <2>1 DEF Cell, WithoutDest
<1>5. Listed(m2)'
  <2>1. ASSUME NEW c \in Blocks, m2[c] # NULL PROVE dest'[c].PipeId \in inUse'
    BY <1>1, <1>4, <2>1 DEF Listed
  <2>2. ASSUME NEW c \in Blocks, NEW x \in Blocks, m2[c] # NULL, m2[c] = m2[x],
               dest'[c].PipeId = dest'[x].PipeId
        PROVE  c = x
    BY <1>4, <2>2 DEF Listed
  <2> QED
    BY <2>1, <2>2 DEF Listed
<1>6. PICK p \in Pipes : p = dest[b].PipeId
  BY NullApart DEF Listed, TypeOK
<1>7. commanded \in [Routes \X Pipes -> BOOLEAN]
  BY DEF TypeOK
<1>8. /\ commanded' \in [Routes \X Pipes -> BOOLEAN]
      /\ \A q \in Routes, s \in Pipes :
           commanded'[<<q, s>>] = IF q = r /\ s = p THEN TRUE ELSE commanded[<<q, s>>]
  <2>1. <<r, p>> \in Routes \X Pipes /\ commanded' = [commanded EXCEPT ![<<r, p>>] = TRUE]
    BY <1>1, <1>6
  <2>2. ASSUME NEW q \in Routes, NEW s \in Pipes
        PROVE  commanded'[<<q, s>>] = IF q = r /\ s = p THEN TRUE ELSE commanded[<<q, s>>]
    <3>1. <<q, s>> \in Routes \X Pipes /\ (<<q, s>> = <<r, p>> <=> (q = r /\ s = p))
      OBVIOUS
    <3> QED
      BY <1>7, <2>1, <3>1
  <2> QED
    BY <1>7, <2>1, <2>2
<1>9. ASSUME Switches(m) PROVE Switches(m2)'
  <2>1. ASSUME NEW q \in Routes, NEW s \in Pipes, \A c \in Blocks : m2[c] = q => dest'[c].PipeId # s
        PROVE  commanded'[<<q, s>>] = TRUE
    <3>1. CASE q = r /\ s = p
      BY <1>8, <3>1
    <3>2. CASE ~(q = r /\ s = p)
      <4>1. \A c \in Blocks : m[c] = q => dest[c].PipeId # s
        BY <1>4, <1>6, <2>1, <3>2
      <4> QED
        BY <1>8, <1>9, <3>2, <4>1 DEF Switches
    <3> QED
      BY <3>1, <3>2
  <2>2. ASSUME NEW c \in Blocks, m2[c] # NULL, c \notin misled'
        PROVE  dest'[c].Active = commanded'[<<m2[c], dest'[c].PipeId>>]
    <3>1. c # b /\ m2[c] = m[c] /\ m[c] # NULL /\ c \notin misled
      BY <1>1, <1>4, <2>2
    <3>2. PICK q \in Routes, s \in Pipes : q = m[c] /\ s = dest[c].PipeId
      <4>1. m[c] \in Routes
        BY <3>1 DEF Linked, LinkTypes
      <4>2. dest[c].PipeId \in Pipes
        BY <3>1 DEF Listed, TypeOK
      <4> QED
        BY <4>1, <4>2
    <3>3. ~(q = r /\ s = p)
      BY <1>6, <3>1, <3>2 DEF Listed
    <3>4. dest[c].Active = commanded[<<q, s>>]
      BY <1>9, <3>1, <3>2 DEF Switches
    <3>5. commanded'[<<q, s>>] = commanded[<<q, s>>]
      BY <1>8, <3>3
    <3>6. dest'[c].Active = dest[c].Active /\ dest'[c].PipeId = s /\ m2[c] = q
      BY <1>4, <3>1, <3>2
    <3> QED
      BY <3>4, <3>5, <3>6
  <2> QED
    BY <2>1, <2>2 DEF Switches
<1>10. Removed(m, b, m2, k2)
  BY <1>1, <1>3, <1>4, <1>5, <1>8, <1>9 DEF Removed
<1> QED
  BY <1>10

(* A route command that does not stand at the block is not disturbed.       *)
LEMMA RemovedInList ==
  ASSUME Locals, NEW m, NEW b, NEW m2, NEW k2, Removed(m, b, m2, k2), InList(m),
         pc'[SB] = pc[SB], loc'[SB] = loc[SB]
  PROVE  InList(m2)'
<1>1. loc[SB].ptr \in Ptrs
  BY DEF Locals, Locs
<1>2. ASSUME pc[SB] # "idle", ~astray'
      PROVE  /\ loc[SB].ptr # NULL => m2[loc[SB].ptr] = loc[SB].route
             /\ pc[SB] = "write" => dest'[loc[SB].ptr].PipeId = loc[SB].pipe
  <2>1. ~astray /\ loc[SB].ptr # b /\ (pc[SB] = "write" => loc[SB].ptr \in Blocks)
    BY <1>2 DEF Removed, Locals
  <2> QED
    BY <1>1, <1>2, <2>1 DEF Removed, InList, Ptrs
<1> QED
  BY <1>2 DEF InList

LEMMA UnsubscribeKeeps ==
  ASSUME DestInv, NEW t \in Tasks, NEW r \in Routes, NEW p \in Pipes,
         Unsubscribe(t, r, p)
  PROVE  DestInv'
<1>0. TypeOK /\ Locals
  BY DEF DestInv
<1>1. PICK m, k : Placed(m, k)
  BY DEF DestInv
<1>2. Linked(ListHeadPtr, dest, pool, m, k) /\ Listed(m) /\ Behind(m)
  BY <1>1 DEF Placed
<1>3. PICK b : b = FindFrom(ListHeadPtr[r], p)
  OBVIOUS
<1>4. b # NULL /\ Remove(r, b) /\ UNCHANGED <<pc, loc>>
  BY <1>3 DEF Unsubscribe
<1>5. b \in Blocks /\ m[b] = r
  BY <1>2, <1>3, <1>4, FoundInRoute
<1>5a. PICK m2, k2 : Removed(m, b, m2, k2)
  BY <1>0, <1>2, <1>4, <1>5, RemoveKeeps, Zenon
<1>6. /\ Linked(ListHeadPtr', dest', pool', m2, k2) /\ Listed(m2)'
      /\ \A c \in Blocks : /\ dest'[c].PipeId = dest[c].PipeId
                           /\ m2[c] = IF c = b THEN NULL ELSE m[c]
      /\ Switches(m) => Switches(m2)'
      /\ commanded' \in [Routes \X Pipes -> BOOLEAN] /\ inUse' = inUse
      /\ astray' \in BOOLEAN /\ misled' \subseteq Blocks
  BY <1>0, <1>5a DEF Removed, TypeOK
<1>7. pc' = pc /\ loc' = loc
  BY <1>4
<1>8. Behind(m2)'
  <2>1. ASSUME NEW u \in Tasks, NEW c \in Blocks, m2[c] # NULL, dest'[c].PipeId = loc'[u].pipe
        PROVE  /\ pc'[u] = "unsubscribe" => loc'[u].route <= m2[c]
               /\ pc'[u] = "resume" => loc'[u].route < m2[c]
    BY <1>2, <1>6, <1>7, <2>1 DEF Behind
  <2> QED
    BY <2>1 DEF Behind
<1>9. Switches(m2)' /\ InList(m2)'
  <2>1. Switches(m) /\ InList(m)
    BY <1>1 DEF Placed
  <2>2. InList(m2)'
    BY <1>0, <1>5a, <1>7, <2>1, RemovedInList
  <2> QED
    BY <1>6, <2>1, <2>2
<1>10. TypeOK'
  <2>1. /\ ListHeadPtr' \in [Routes -> Ptrs] /\ dest' \in [Blocks -> Cell]
        /\ pool' \in Seq(Blocks)
    BY <1>6 DEF Linked, LinkTypes
  <2> QED
    BY <1>0, <1>6, <1>7, <2>1 DEF TypeOK, Cell
<1>11. Locals'
  BY <1>0, <1>6, <1>7 DEF Locals
<1>12. Placed(m2, k2)'
  BY <1>6, <1>8, <1>9 DEF Placed
<1> QED
  BY <1>10, <1>11, <1>12 DEF DestInv

LEMMA CreatePipeKeeps ==
  ASSUME DestInv, NEW t \in Tasks, NEW p \in Pipes, CreatePipe(t, p)
  PROVE  DestInv'
<1>0. TypeOK /\ Locals
  BY DEF DestInv
<1>1. PICK m, k : Placed(m, k)
  BY DEF DestInv
<1>2. /\ inUse' = inUse \cup {p} /\ ListHeadPtr' = ListHeadPtr /\ dest' = dest
      /\ pool' = pool /\ commanded' = commanded /\ pc' = pc /\ loc' = loc
      /\ astray' = astray /\ misled' = misled
  BY DEF CreatePipe
<1>3. Placed(m, k)'
  BY <1>1, <1>2 DEF Placed, Listed, Behind, Switches, InList
<1>4. TypeOK'
  BY <1>0, <1>2 DEF TypeOK
<1>5. Locals'
  BY <1>0, <1>2 DEF Locals
<1> QED
  BY <1>3, <1>4, <1>5 DEF DestInv

(* The walk of CFE_SB_DeletePipeFull: when no route up to r lists the pipe, *)
(* the same is true of the routes before the one where it stops, and of all *)
(* routes when it ends.                                                     *)
LEMMA WalkFromKeeps ==
  ASSUME DestInv, NEW t \in Tasks, NEW p \in inUse, OwnerOf[p] = t,
         NEW r \in Int, NEW b \in Ptrs, r \in Routes \/ (r = -1 /\ b = NULL),
         NEW m, NEW k, Placed(m, k),
         \A c \in Blocks : m[c] # NULL /\ dest[c].PipeId = p => r < m[c],
         WalkFrom(t, p, r, b), UNCHANGED <<ListHeadPtr, dest, pool, commanded, astray, misled>>
  PROVE  DestInv'
<1>0. TypeOK /\ Locals
  BY DEF DestInv
<1>1. Linked(ListHeadPtr, dest, pool, m, k) /\ Listed(m) /\ Behind(m)
  BY DEF Placed
<1>2. dest \in [Blocks -> Cell] /\ m \in [Blocks -> Routes \cup {NULL}]
  BY <1>1 DEF Linked, LinkTypes
<1>3. /\ ListHeadPtr' = ListHeadPtr /\ dest' = dest /\ pool' = pool
      /\ commanded' = commanded /\ astray' = astray /\ misled' = misled
  OBVIOUS
<1>4. /\ pc \in [Tasks \cup {SB} -> {"idle", "unsubscribe", "resume", "find", "write"}]
      /\ loc \in [Tasks \cup {SB} -> Locs] /\ p \in Pipes /\ inUse \subseteq Pipes
  BY <1>0 DEF TypeOK, Locals
<1>5. PICK here, later :
        /\ here = FindFrom(b, p)
        /\ later = {s \in LaterRoutes(r) : FindFrom(ListHeadPtr[s], p) # NULL}
  OBVIOUS
<1>6. \A s \in Routes : r < s => s \in later \/ \A c \in Blocks : m[c] = s => dest[c].PipeId # p
  BY <1>1, <1>5, FoundInRoute DEF LaterRoutes
(* It stops at a block.                                                    *)
<1>7. ASSUME NEW s \in Routes, NEW h \in Blocks,
             Go(t, "unsubscribe", [NoLoc EXCEPT !.route = s, !.pipe = p, !.ptr = h]),
             inUse' = inUse,
             \A c \in Blocks : m[c] # NULL /\ dest[c].PipeId = p => s <= m[c]
      PROVE  DestInv'
  <2>1. PICK l : l = [NoLoc EXCEPT !.route = s, !.pipe = p, !.ptr = h]
    OBVIOUS
  <2>3. pc' = [pc EXCEPT ![t] = "unsubscribe"] /\ loc' = [loc EXCEPT ![t] = l]
    BY <1>7, <2>1 DEF Go
  <2>4. l \in Locs /\ l.route = s /\ l.pipe = p /\ l.ptr = h
    <3>1. NoLoc \in Locs /\ h \in Ptrs
      BY DEF NoLoc, Locs, Ptrs
    <3> QED
      BY <1>4, <2>1, <3>1 DEF Locs
  <2>5. /\ pc'[t] = "unsubscribe" /\ loc'[t] = l /\ pc'[SB] = pc[SB] /\ loc'[SB] = loc[SB]
        /\ \A u \in Tasks : u # t => pc'[u] = pc[u] /\ loc'[u] = loc[u]
    BY <1>4, <2>3, TasksApart
  <2>6. TypeOK'
    <3>1. /\ pc' \in [Tasks \cup {SB} -> {"idle", "unsubscribe", "resume", "find", "write"}]
          /\ loc' \in [Tasks \cup {SB} -> Locs]
      BY <1>4, <2>3, <2>4
    <3> QED
      BY <1>0, <1>3, <1>7, <3>1 DEF TypeOK, Locs
  <2>7. Locals'
    <3>1. loc' \in [Tasks \cup {SB} -> Locs]
      BY <1>4, <2>3, <2>4
    <3>2. ASSUME NEW u \in Tasks
          PROVE  /\ pc'[u] \in {"idle", "unsubscribe", "resume"}
                 /\ pc'[u] # "idle" => /\ loc'[u].route \in Routes /\ loc'[u].ptr \in Blocks
                                       /\ loc'[u].pipe \in inUse' /\ OwnerOf[loc'[u].pipe] = u
      <4>1. CASE u = t
        BY <1>7, <2>4, <2>5, <4>1
      <4>2. CASE u # t
        BY <1>0, <1>7, <2>5, <4>2 DEF Locals
      <4> QED
        BY <4>1, <4>2
    <3> QED
      BY <1>0, <2>5, <3>1, <3>2 DEF Locals
  <2>8. Behind(m)'
    <3>1. ASSUME NEW u \in Tasks, NEW c \in Blocks, m[c] # NULL, dest'[c].PipeId = loc'[u].pipe
          PROVE  /\ pc'[u] = "unsubscribe" => loc'[u].route <= m[c]
                 /\ pc'[u] = "resume" => loc'[u].route < m[c]
      <4>1. CASE u = t
        BY <1>3, <1>7, <2>4, <2>5, <3>1, <4>1
      <4>2. CASE u # t
        BY <1>1, <1>3, <2>5, <3>1, <4>2 DEF Behind
      <4> QED
        BY <4>1, <4>2
    <3> QED
      BY <3>1 DEF Behind
  <2>9. Listed(m)'
    BY <1>1, <1>3, <1>7 DEF Listed
  <2>10. Switches(m)' /\ InList(m)'
    <3>1. Switches(m) /\ InList(m)
      BY DEF Placed
    <3> QED
      BY <1>3, <2>5, <3>1 DEF Switches, InList
  <2>11. Placed(m, k)'
    BY <1>1, <1>3, <2>8, <2>9, <2>10 DEF Placed
  <2> QED
    BY <2>6, <2>7, <2>11 DEF DestInv
<1>8. CASE here # NULL
  <2>1. here \in Blocks
    BY <1>2, <1>5, <1>8, FoundAnywhere
  <2>2. r \in Routes
    BY <1>2, <1>5, <1>8, FoundNowhere
  <2>3. /\ Go(t, "unsubscribe", [NoLoc EXCEPT !.route = r, !.pipe = p, !.ptr = here])
        /\ inUse' = inUse
    BY <1>5, <1>8 DEF WalkFrom
  <2>4. \A c \in Blocks : m[c] # NULL /\ dest[c].PipeId = p => r <= m[c]
    <3>1. ASSUME NEW c \in Blocks, m[c] # NULL, dest[c].PipeId = p PROVE r <= m[c]
      <4>1. m[c] \in Nat /\ r < m[c]
        BY <1>2, <3>1, TasksApart
      <4> QED
        BY <4>1
    <3> QED
      BY <3>1
  <2> QED
    BY <1>7, <2>1, <2>2, <2>3, <2>4
<1>9. CASE here = NULL /\ later # {}
  <2>1. PICK s : s = CHOOSE y \in later : \A x \in later : y <= x
    OBVIOUS
  <2>2. later \subseteq Routes /\ later \subseteq Nat
    BY <1>5, TasksApart DEF LaterRoutes
  <2>3. s \in later /\ \A x \in later : s <= x
    <3>1. \E y \in later : \A x \in later : y <= x
      BY <1>9, <2>2, LeastExists
    <3> QED
      BY <2>1, <3>1
  <2>4. PICK h : h = FindFrom(ListHeadPtr[s], p)
    OBVIOUS
  <2>5. h \in Blocks /\ s \in Routes
    <3>1. s \in Routes /\ FindFrom(ListHeadPtr[s], p) # NULL
      BY <1>5, <2>2, <2>3
    <3> QED
      BY <1>1, <2>4, <3>1, FoundInRoute
  <2>6. /\ Go(t, "unsubscribe", [NoLoc EXCEPT !.route = s, !.pipe = p, !.ptr = h])
        /\ inUse' = inUse
    BY <1>5, <1>9, <2>1, <2>4 DEF WalkFrom
  <2>7. \A c \in Blocks : m[c] # NULL /\ dest[c].PipeId = p => s <= m[c]
    <3>1. ASSUME NEW c \in Blocks, m[c] # NULL, dest[c].PipeId = p PROVE s <= m[c]
      <4>1. m[c] \in Routes /\ r < m[c]
        BY <1>2, <3>1
      <4>2. m[c] \in later
        BY <1>6, <3>1, <4>1
      <4> QED
        BY <2>3, <4>2
    <3> QED
      BY <3>1
  <2> QED
    BY <1>7, <2>5, <2>6, <2>7
<1>10. CASE here = NULL /\ later = {}
  <2>1. Go(t, "idle", NoLoc) /\ inUse' = inUse \ {p}
    BY <1>5, <1>10 DEF WalkFrom
  <2>2. \A c \in Blocks : m[c] # NULL => dest[c].PipeId # p
    BY <1>2, <1>6, <1>10
  <2>3. pc' = [pc EXCEPT ![t] = "idle"] /\ loc' = [loc EXCEPT ![t] = NoLoc]
    BY <2>1 DEF Go
  <2>4. NoLoc \in Locs
    BY DEF NoLoc, Locs, Ptrs
  <2>5. /\ pc'[t] = "idle" /\ pc'[SB] = pc[SB] /\ loc'[SB] = loc[SB]
        /\ \A u \in Tasks : u # t => pc'[u] = pc[u] /\ loc'[u] = loc[u]
    BY <1>4, <2>3, TasksApart
  <2>6. TypeOK'
    <3>1. /\ pc' \in [Tasks \cup {SB} -> {"idle", "unsubscribe", "resume", "find", "write"}]
          /\ loc' \in [Tasks \cup {SB} -> Locs]
      BY <1>4, <2>3, <2>4
    <3>2. inUse' \subseteq Pipes
      BY <1>4, <2>1
    <3> QED
      BY <1>0, <1>3, <3>1, <3>2 DEF TypeOK, Locs
  <2>7. Locals'
    <3>1. loc' \in [Tasks \cup {SB} -> Locs]
      BY <1>4, <2>3, <2>4
    <3>2. ASSUME NEW u \in Tasks
          PROVE  /\ pc'[u] \in {"idle", "unsubscribe", "resume"}
                 /\ pc'[u] # "idle" => /\ loc'[u].route \in Routes /\ loc'[u].ptr \in Blocks
                                       /\ loc'[u].pipe \in inUse' /\ OwnerOf[loc'[u].pipe] = u
      <4>1. CASE u = t
        BY <2>5, <4>1
      <4>2. CASE u # t
        BY <1>0, <2>1, <2>5, <4>2 DEF Locals
      <4> QED
        BY <4>1, <4>2
    <3> QED
      BY <1>0, <2>5, <3>1, <3>2 DEF Locals
  <2>8. Behind(m)'
    <3>1. ASSUME NEW u \in Tasks, NEW c \in Blocks, m[c] # NULL, dest'[c].PipeId = loc'[u].pipe
          PROVE  /\ pc'[u] = "unsubscribe" => loc'[u].route <= m[c]
                 /\ pc'[u] = "resume" => loc'[u].route < m[c]
      <4>1. CASE u = t
        BY <2>5, <4>1
      <4>2. CASE u # t
        BY <1>1, <1>3, <2>5, <3>1, <4>2 DEF Behind
      <4> QED
        BY <4>1, <4>2
    <3> QED
      BY <3>1 DEF Behind
  <2>9. Listed(m)'
    BY <1>1, <1>3, <2>1, <2>2 DEF Listed
  <2>10. Switches(m)' /\ InList(m)'
    <3>1. Switches(m) /\ InList(m)
      BY DEF Placed
    <3> QED
      BY <1>3, <2>5, <3>1 DEF Switches, InList
  <2>11. Placed(m, k)'
    BY <1>1, <1>3, <2>8, <2>9, <2>10 DEF Placed
  <2> QED
    BY <2>6, <2>7, <2>11 DEF DestInv
<1> QED
  BY <1>8, <1>9, <1>10

LEMMA DeletePipeKeeps ==
  ASSUME DestInv, NEW t \in Tasks, NEW p \in Pipes, DeletePipe(t, p)
  PROVE  DestInv'
<1>1. PICK m, k : Placed(m, k)
  BY DEF DestInv
<1>2. p \in inUse /\ OwnerOf[p] = t /\ WalkFrom(t, p, -1, NULL)
      /\ UNCHANGED <<ListHeadPtr, dest, pool, commanded, astray, misled>>
  BY DEF DeletePipe
<1>3. \A c \in Blocks : m[c] # NULL /\ dest[c].PipeId = p => -1 < m[c]
  <2>1. ASSUME NEW c \in Blocks, m[c] # NULL PROVE -1 < m[c]
    <3>1. m[c] \in Nat
      BY <1>1, <2>1, TasksApart DEF Placed, Linked, LinkTypes
    <3> QED
      BY <3>1
  <2> QED
    BY <2>1
<1>4. NULL \in Ptrs /\ -1 \in Int
  BY DEF Ptrs
<1> QED
  BY <1>1, <1>2, <1>3, <1>4, WalkFromKeeps

(* Going on from a block that may be anyone's: the routes up to the one in  *)
(* hand are done all the same.                                              *)
LEMMA DeleteResumeKeeps ==
  ASSUME DestInv, NEW t \in Tasks, DeleteResume(t)
  PROVE  DestInv'
<1>1. PICK m, k : Placed(m, k)
  BY DEF DestInv
<1>2. PICK r, p, b : r = loc[t].route /\ p = loc[t].pipe /\ b = NextBlock(loc[t].ptr)
  OBVIOUS
<1>3. /\ pc[t] = "resume" /\ WalkFrom(t, p, r, b)
      /\ UNCHANGED <<ListHeadPtr, dest, pool, commanded, astray, misled>>
  BY <1>2 DEF DeleteResume
<1>4. r \in Routes /\ p \in inUse /\ OwnerOf[p] = t /\ loc[t].ptr \in Blocks
  BY <1>2, <1>3 DEF DestInv, Locals
<1>5. r \in Int /\ b \in Ptrs
  <2>1. dest \in [Blocks -> Cell]
    BY <1>1 DEF Placed, Linked, LinkTypes
  <2>2. dest[loc[t].ptr].Next \in Ptrs
    BY <1>4, <2>1, CellFacts
  <2> QED
    BY <1>2, <1>4, <2>2, TasksApart DEF NextBlock
<1>6. \A c \in Blocks : m[c] # NULL /\ dest[c].PipeId = p => r < m[c]
  BY <1>1, <1>2, <1>3 DEF Placed, Behind
<1> QED
  BY <1>1, <1>3, <1>4, <1>5, <1>6, WalkFromKeeps

LEMMA DeleteUnsubscribeKeeps ==
  ASSUME DestInv, NEW t \in Tasks, DeleteUnsubscribe(t)
  PROVE  DestInv'
<1>0. TypeOK /\ Locals
  BY DEF DestInv
<1>1. PICK m, k : Placed(m, k)
  BY DEF DestInv
<1>2. Linked(ListHeadPtr, dest, pool, m, k) /\ Listed(m) /\ Behind(m)
  BY <1>1 DEF Placed
<1>3. PICK r, p : r = loc[t].route /\ p = loc[t].pipe
  OBVIOUS
<1>4. PICK b : b = FindFrom(ListHeadPtr[r], p)
  OBVIOUS
<1>5. /\ pc[t] = "unsubscribe"
      /\ b = NULL => UNCHANGED <<ListHeadPtr, dest, pool, inUse, commanded, astray, misled>>
      /\ b # NULL => Remove(r, b)
      /\ pc' = [pc EXCEPT ![t] = "resume"] /\ loc' = [loc EXCEPT ![t] = loc[t]]
  BY <1>3, <1>4 DEF DeleteUnsubscribe, Go
<1>6. /\ pc \in [Tasks \cup {SB} -> {"idle", "unsubscribe", "resume", "find", "write"}]
      /\ loc \in [Tasks \cup {SB} -> Locs]
  BY <1>0 DEF TypeOK, Locals
<1>7. r \in Routes /\ r \in Nat
  BY <1>0, <1>3, <1>5, TasksApart DEF Locals
<1>8. /\ b # NULL => b \in Blocks /\ m[b] = r /\ dest[b].PipeId = p
      /\ b = NULL => \A c \in Blocks : m[c] = r => dest[c].PipeId # p
  BY <1>2, <1>4, <1>7, FoundInRoute
<1>9. /\ loc' = loc /\ pc'[t] = "resume" /\ pc'[SB] = pc[SB]
      /\ \A u \in Tasks : u # t => pc'[u] = pc[u]
  BY <1>5, <1>6, TasksApart
<1>10. PICK m2, k2 :
         /\ Linked(ListHeadPtr', dest', pool', m2, k2) /\ Listed(m2)'
         /\ \A c \in Blocks : /\ dest'[c].PipeId = dest[c].PipeId
                              /\ m2[c] = IF c = b THEN NULL ELSE m[c]
         /\ Switches(m2)' /\ InList(m2)'
         /\ commanded' \in [Routes \X Pipes -> BOOLEAN] /\ inUse' = inUse
         /\ astray' \in BOOLEAN /\ misled' \subseteq Blocks
  <2>0. Switches(m) /\ InList(m)
    BY <1>1 DEF Placed
  <2>1. CASE b = NULL
    <3>1. /\ ListHeadPtr' = ListHeadPtr /\ dest' = dest /\ pool' = pool
          /\ inUse' = inUse /\ commanded' = commanded
          /\ astray' = astray /\ misled' = misled
      BY <1>5, <2>1
    <3>2. Listed(m)' /\ Switches(m)' /\ InList(m)'
      BY <1>2, <1>9, <2>0, <3>1 DEF Listed, Switches, InList
    <3>3. \A c \in Blocks : m[c] = IF c = b THEN NULL ELSE m[c]
      BY <2>1, NullApart
    <3>4. /\ commanded' \in [Routes \X Pipes -> BOOLEAN]
          /\ astray' \in BOOLEAN /\ misled' \subseteq Blocks
      BY <1>0, <3>1 DEF TypeOK
    <3> QED
      BY <1>2, <3>1, <3>2, <3>3, <3>4
  <2>2. CASE b # NULL
    <3>1. PICK m2, k2 : Removed(m, b, m2, k2)
      BY <1>0, <1>2, <1>5, <1>7, <1>8, <2>2, RemoveKeeps, Zenon
    <3>2. InList(m2)'
      BY <1>0, <1>9, <2>0, <3>1, RemovedInList
    <3>3. astray' \in BOOLEAN /\ misled' \subseteq Blocks
      BY <1>0, <3>1 DEF Removed, TypeOK
    <3> QED
      BY <2>0, <3>1, <3>2, <3>3 DEF Removed
  <2> QED
    BY <2>1, <2>2
<1>11. /\ Linked(ListHeadPtr', dest', pool', m2, k2) /\ Listed(m2)'
       /\ \A c \in Blocks : /\ dest'[c].PipeId = dest[c].PipeId
                            /\ m2[c] = IF c = b THEN NULL ELSE m[c]
       /\ commanded' \in [Routes \X Pipes -> BOOLEAN] /\ inUse' = inUse
       /\ astray' \in BOOLEAN /\ misled' \subseteq Blocks
  BY <1>10
<1>12. Behind(m2)'
  <2>1. ASSUME NEW u \in Tasks, NEW c \in Blocks, m2[c] # NULL, dest'[c].PipeId = loc'[u].pipe
        PROVE  /\ pc'[u] = "unsubscribe" => loc'[u].route <= m2[c]
               /\ pc'[u] = "resume" => loc'[u].route < m2[c]
    <3>1. c # b /\ m2[c] = m[c] /\ m[c] # NULL /\ dest[c].PipeId = loc[u].pipe
      BY <1>9, <1>11, <2>1
    <3>2. CASE u = t
      <4>1. r <= m[c] /\ m[c] \in Nat
        BY <1>2, <1>3, <1>5, <3>1, <3>2, TasksApart DEF Behind, Linked, LinkTypes
      <4>2. m[c] # r
        BY <1>2, <1>3, <1>8, <3>1, <3>2 DEF Listed
      <4>3. r < m[c]
        BY <1>7, <4>1, <4>2
      <4> QED
        BY <1>3, <1>9, <3>1, <3>2, <4>3
    <3>3. CASE u # t
      BY <1>2, <1>9, <3>1, <3>3 DEF Behind
    <3> QED
      BY <3>2, <3>3
  <2> QED
    BY <2>1 DEF Behind
<1>14. TypeOK'
  <2>1. /\ ListHeadPtr' \in [Routes -> Ptrs] /\ dest' \in [Blocks -> Cell]
        /\ pool' \in Seq(Blocks)
    BY <1>11 DEF Linked, LinkTypes
  <2>2. pc' \in [Tasks \cup {SB} -> {"idle", "unsubscribe", "resume", "find", "write"}]
    BY <1>5, <1>6
  <2> QED
    BY <1>0, <1>9, <1>11, <2>1, <2>2 DEF TypeOK, Cell
<1>15. Locals'
  <2>1. ASSUME NEW u \in Tasks
        PROVE  /\ pc'[u] \in {"idle", "unsubscribe", "resume"}
               /\ pc'[u] # "idle" => /\ loc'[u].route \in Routes /\ loc'[u].ptr \in Blocks
                                     /\ loc'[u].pipe \in inUse' /\ OwnerOf[loc'[u].pipe] = u
    <3>1. pc[u] # "idle" \/ pc'[u] = pc[u]
      BY <1>5, <1>9
    <3>2. pc'[u] \in {"idle", "unsubscribe", "resume"}
      BY <1>0, <1>9 DEF Locals
    <3> QED
      BY <1>0, <1>9, <1>11, <3>1, <3>2 DEF Locals
  <2> QED
    BY <1>0, <1>9, <2>1 DEF Locals
<1>16. Placed(m2, k2)'
  BY <1>10, <1>12 DEF Placed
<1> QED
  BY <1>14, <1>15, <1>16 DEF DestInv

(* The commands that enable and disable a route.                           *)
LEMMA RouteStepKeeps ==
  ASSUME DestInv, NEW s \in {"idle", "find", "write"}, NEW l \in Locs, Go(SB, s, l),
         UNCHANGED <<ListHeadPtr, dest, pool, inUse, commanded, misled>>, astray' \in BOOLEAN,
         s # "idle" => l.route \in Routes /\ l.pipe \in Pipes,
         s = "write" => l.ptr \in Blocks /\ dest[l.ptr].PipeId = l.pipe,
         NEW m, NEW k, Placed(m, k),
         s # "idle" /\ ~astray' /\ l.ptr # NULL => m[l.ptr] = l.route
  PROVE  DestInv'
<1>0. TypeOK /\ Locals
  BY DEF DestInv
<1>1. /\ ListHeadPtr' = ListHeadPtr /\ dest' = dest /\ pool' = pool
      /\ inUse' = inUse /\ commanded' = commanded /\ misled' = misled
      /\ pc' = [pc EXCEPT ![SB] = s] /\ loc' = [loc EXCEPT ![SB] = l]
  BY DEF Go
<1>2. /\ pc \in [Tasks \cup {SB} -> {"idle", "unsubscribe", "resume", "find", "write"}]
      /\ loc \in [Tasks \cup {SB} -> Locs]
  BY <1>0 DEF TypeOK, Locals
<1>3. /\ pc'[SB] = s /\ loc'[SB] = l
      /\ \A u \in Tasks : pc'[u] = pc[u] /\ loc'[u] = loc[u]
  BY <1>1, <1>2, TasksApart
<1>4. /\ pc' \in [Tasks \cup {SB} -> {"idle", "unsubscribe", "resume", "find", "write"}]
      /\ loc' \in [Tasks \cup {SB} -> Locs]
  BY <1>1, <1>2
<1>5. TypeOK'
  BY <1>0, <1>1, <1>4 DEF TypeOK, Locs
<1>6. Locals'
  BY <1>0, <1>1, <1>3, <1>4 DEF Locals
<1>7. Behind(m)'
  BY <1>1, <1>3 DEF Placed, Behind
<1>8. Listed(m)' /\ Switches(m)'
  BY <1>1 DEF Placed, Listed, Switches
<1>9. InList(m)'
  BY <1>1, <1>3 DEF InList
<1>10. Placed(m, k)'
  BY <1>1, <1>7, <1>8, <1>9 DEF Placed
<1> QED
  BY <1>5, <1>6, <1>10 DEF DestInv

LEMMA RouteCmdKeeps ==
  ASSUME DestInv, NEW r \in Routes, NEW p \in Pipes, NEW active \in BOOLEAN,
         RouteCmd(r, p, active)
  PROVE  DestInv'
<1>1. PICK m, k : Placed(m, k)
  BY DEF DestInv
<1>2. Linked(ListHeadPtr, dest, pool, m, k)
  BY <1>1 DEF Placed
<1>3. PICK l : l = [route |-> r, pipe |-> p, ptr |-> ListHeadPtr[r], active |-> active]
  OBVIOUS
<1>4. /\ Go(SB, "find", l) /\ UNCHANGED <<ListHeadPtr, dest, pool, inUse, commanded, misled>>
      /\ astray' \in BOOLEAN
  BY <1>3 DEF RouteCmd, DestInv, TypeOK
<1>5. l \in Locs /\ l.route = r /\ l.pipe = p /\ l.ptr = ListHeadPtr[r]
  <2>1. ListHeadPtr[r] \in Ptrs
    BY <1>2 DEF Linked, LinkTypes
  <2> QED
    BY <1>3, <2>1 DEF Locs
<1>6. l.ptr # NULL => m[l.ptr] = l.route
  BY <1>2, <1>5 DEF Linked, Heads
<1> QED
  BY <1>1, <1>4, <1>5, <1>6, RouteStepKeeps

LEMMA RouteFindKeeps ==
  ASSUME DestInv, RouteFind
  PROVE  DestInv'
<1>0. TypeOK /\ Locals
  BY DEF DestInv
<1>1. PICK m, k : Placed(m, k)
  BY DEF DestInv
<1>2. Linked(ListHeadPtr, dest, pool, m, k)
  BY <1>1 DEF Placed
<1>3. PICK l : l = loc[SB]
  OBVIOUS
<1>4. /\ pc[SB] = "find" /\ l \in Locs /\ l.route \in Routes /\ l.pipe \in Pipes
      /\ l.ptr \in Ptrs
      /\ UNCHANGED <<ListHeadPtr, dest, pool, inUse, commanded, misled>>
      /\ astray' \in BOOLEAN /\ (l.ptr # NULL => astray' = astray)
  BY <1>0, <1>3 DEF RouteFind, Locals, Locs, TypeOK
<1>5. ~astray /\ l.ptr # NULL => m[l.ptr] = l.route
  BY <1>1, <1>3, <1>4 DEF Placed, InList
<1>6. CASE l.ptr = NULL
  <2>1. Go(SB, "idle", NoLoc) /\ NoLoc \in Locs
    BY <1>3, <1>6 DEF RouteFind, NoLoc, Locs, Ptrs
  <2> QED
    BY <1>1, <1>4, <2>1, RouteStepKeeps
<1>7. CASE l.ptr # NULL /\ dest[l.ptr].PipeId = l.pipe
  <2>1. Go(SB, "write", l) /\ l.ptr \in Blocks
    BY <1>3, <1>4, <1>7 DEF RouteFind, Ptrs
  <2> QED
    BY <1>1, <1>4, <1>5, <1>7, <2>1, RouteStepKeeps
<1>8. CASE l.ptr # NULL /\ dest[l.ptr].PipeId # l.pipe
  <2>1. PICK h : h = dest[l.ptr].Next
    OBVIOUS
  <2>2. PICK l2 : l2 = [l EXCEPT !.ptr = h]
    OBVIOUS
  <2>3. Go(SB, "find", l2)
    BY <1>3, <1>8, <2>1, <2>2 DEF RouteFind
  <2>4. l.ptr \in Blocks /\ h \in Ptrs
    <3>1. dest \in [Blocks -> Cell]
      BY <1>2 DEF Linked, LinkTypes
    <3> QED
      BY <1>4, <1>8, <2>1, <3>1, CellFacts DEF Ptrs
  <2>5. l2 \in Locs /\ l2.route = l.route /\ l2.pipe = l.pipe /\ l2.ptr = h
    BY <1>4, <2>2, <2>4 DEF Locs
  <2>6. ~astray' /\ l2.ptr # NULL => m[l2.ptr] = l2.route
    BY <1>2, <1>4, <1>5, <1>8, <2>1, <2>4, <2>5, NullApart DEF Linked, Forward
  <2> QED
    BY <1>1, <1>4, <2>3, <2>5, <2>6, RouteStepKeeps
<1> QED
  BY <1>6, <1>7, <1>8

LEMMA RouteWriteKeeps ==
  ASSUME DestInv, RouteWrite
  PROVE  DestInv'
<1>0. TypeOK /\ Locals
  BY DEF DestInv
<1>1. PICK m, k : Placed(m, k)
  BY DEF DestInv
<1>2. Linked(ListHeadPtr, dest, pool, m, k) /\ Listed(m) /\ Behind(m)
  BY <1>1 DEF Placed
<1>3. PICK r, p, b, a : r = loc[SB].route /\ p = loc[SB].pipe /\ b = loc[SB].ptr
                        /\ a = loc[SB].active
  OBVIOUS
<1>4. /\ pc[SB] = "write" /\ dest' = [dest EXCEPT ![b].Active = a]
      /\ commanded' = IF astray THEN commanded ELSE [commanded EXCEPT ![<<r, p>>] = a]
      /\ misled' = (IF astray THEN misled \cup {b} ELSE misled \ {b}) /\ astray' = FALSE
      /\ pc' = [pc EXCEPT ![SB] = "idle"] /\ loc' = [loc EXCEPT ![SB] = NoLoc]
      /\ ListHeadPtr' = ListHeadPtr /\ pool' = pool /\ inUse' = inUse
  BY <1>3 DEF RouteWrite, Switched, Go
<1>5. r \in Routes /\ p \in Pipes /\ b \in Blocks /\ a \in BOOLEAN
  BY <1>0, <1>3, <1>4 DEF Locals, Locs
<1>6. /\ pc \in [Tasks \cup {SB} -> {"idle", "unsubscribe", "resume", "find", "write"}]
      /\ loc \in [Tasks \cup {SB} -> Locs] /\ commanded \in [Routes \X Pipes -> BOOLEAN]
  BY <1>0 DEF TypeOK, Locals
<1>7. /\ pc'[SB] = "idle" /\ \A u \in Tasks : pc'[u] = pc[u] /\ loc'[u] = loc[u]
  BY <1>4, <1>6, TasksApart
<1>8. /\ Linked(ListHeadPtr', dest', pool', m, k)
      /\ \A c \in Blocks : /\ dest'[c].PipeId = dest[c].PipeId
                           /\ dest'[c].Active = IF c = b THEN a ELSE dest[c].Active
  <2>1. PICK e : e = dest'
    OBVIOUS
  <2>2. e = WithState(dest, b, a)
    BY <1>4, <2>1 DEF WithState
  <2>3. Linked(ListHeadPtr, e, pool, m, k)
    BY <1>2, <1>5, <2>2, LinkedSwitch, Zenon
  <2>4. ASSUME NEW c \in Blocks
        PROVE  /\ dest'[c].PipeId = dest[c].PipeId
               /\ dest'[c].Active = IF c = b THEN a ELSE dest[c].Active
    <3>1. dest \in [Blocks -> Cell] /\ dest[c] \in Cell
      BY <1>2 DEF Linked, LinkTypes
    <3> QED
      BY <1>4, <1>5, <3>1 DEF Cell
  <2> QED
    BY <1>4, <2>1, <2>3, <2>4
<1>9. TypeOK'
  <2>1. /\ ListHeadPtr' \in [Routes -> Ptrs] /\ dest' \in [Blocks -> Cell]
        /\ pool' \in Seq(Blocks)
    BY <1>8 DEF Linked, LinkTypes
  <2>2. /\ pc' \in [Tasks \cup {SB} -> {"idle", "unsubscribe", "resume", "find", "write"}]
        /\ loc' \in [Tasks \cup {SB} -> Locs]
    BY <1>4, <1>6 DEF NoLoc, Locs, Ptrs
  <2>3. commanded' \in [Routes \X Pipes -> BOOLEAN]
    BY <1>4, <1>5, <1>6
  <2>4. astray' \in BOOLEAN /\ misled' \subseteq Blocks
    <3>1. misled \subseteq Blocks
      BY <1>0 DEF TypeOK
    <3> QED
      BY <1>4, <1>5, <3>1
  <2> QED
    BY <1>0, <1>4, <2>1, <2>2, <2>3, <2>4 DEF TypeOK, Cell, Locs
<1>10. Locals'
  <2>1. loc' \in [Tasks \cup {SB} -> Locs]
    BY <1>4, <1>6 DEF NoLoc, Locs, Ptrs
  <2> QED
    BY <1>0, <1>4, <1>7, <2>1 DEF Locals
<1>11. Listed(m)' /\ Behind(m)'
  <2>1. Listed(m)'
    BY <1>2, <1>4, <1>8 DEF Listed
  <2>2. Behind(m)'
    BY <1>2, <1>7, <1>8 DEF Behind
  <2> QED
    BY <2>1, <2>2
<1>12a. InList(m)'
  BY <1>7 DEF InList
<1>12b. ASSUME astray PROVE Switches(m)'
  <2>1. Switches(m) /\ commanded' = commanded /\ misled' = misled \cup {b}
    BY <1>1, <1>4, <1>12b DEF Placed
  <2>2. ASSUME NEW c \in Blocks, m[c] # NULL, c \notin misled'
        PROVE  dest'[c].Active = commanded'[<<m[c], dest'[c].PipeId>>]
    BY <1>8, <2>1, <2>2 DEF Switches
  <2> QED
    BY <1>8, <2>1, <2>2 DEF Switches
<1>12. ASSUME ~astray PROVE Switches(m)'
  <2>1. Switches(m) /\ m[b] = r /\ dest[b].PipeId = p
    BY <1>1, <1>3, <1>4, <1>5, <1>12, NullApart DEF Placed, InList
  <2>2. commanded' = [commanded EXCEPT ![<<r, p>>] = a]
    BY <1>4, <1>12
  <2>3. <<r, p>> \in Routes \X Pipes
    BY <1>5
  <2>4. ASSUME NEW q \in Routes, NEW s \in Pipes, \A c \in Blocks : m[c] = q => dest'[c].PipeId # s
        PROVE  commanded'[<<q, s>>] = TRUE
    <3>1. \A c \in Blocks : m[c] = q => dest[c].PipeId # s
      BY <1>8, <2>4
    <3>2. ~(q = r /\ s = p)
      BY <1>5, <2>1, <3>1
    <3>3. commanded'[<<q, s>>] = commanded[<<q, s>>]
      BY <1>6, <2>2, <3>2
    <3> QED
      BY <2>1, <3>1, <3>3 DEF Switches
  <2>5. ASSUME NEW c \in Blocks, m[c] # NULL, c \notin misled'
        PROVE  dest'[c].Active = commanded'[<<m[c], dest'[c].PipeId>>]
    <3>1. CASE c = b
      <4>1. commanded'[<<r, p>>] = a
        BY <1>6, <2>2, <2>3
      <4>2. dest'[c].Active = a /\ dest'[c].PipeId = p
        BY <1>8, <2>1, <3>1
      <4> QED
        BY <2>1, <3>1, <4>1, <4>2
    <3>2. CASE c # b
      <4>1. PICK q \in Routes, s \in Pipes : q = m[c] /\ s = dest[c].PipeId
        <5>1. m[c] \in Routes
          BY <1>2, <2>5 DEF Linked, LinkTypes
        <5>2. dest[c].PipeId \in Pipes
          BY <1>0, <1>2, <2>5 DEF Listed, TypeOK
        <5> QED
          BY <5>1, <5>2
      <4>2. ~(q = r /\ s = p)
        BY <1>2, <1>5, <2>1, <2>5, <3>2, <4>1 DEF Listed
      <4>3. commanded'[<<q, s>>] = commanded[<<q, s>>]
        BY <1>6, <2>2, <4>2
      <4>4. dest[c].Active = commanded[<<q, s>>]
        <5>1. c \notin misled
          BY <1>4, <1>12, <2>5, <3>2
        <5> QED
          BY <2>1, <2>5, <4>1, <5>1 DEF Switches
      <4>5. dest'[c].Active = dest[c].Active /\ dest'[c].PipeId = s
        BY <1>8, <3>2, <4>1
      <4> QED
        BY <4>1, <4>3, <4>4, <4>5
    <3> QED
      BY <3>1, <3>2
  <2> QED
    BY <2>4, <2>5 DEF Switches
<1>13. Placed(m, k)'
  BY <1>8, <1>11, <1>12, <1>12a, <1>12b DEF Placed
<1> QED
  BY <1>9, <1>10, <1>13 DEF DestInv

LEMMA StutterKeeps ==
  ASSUME DestInv, UNCHANGED vars
  PROVE  DestInv'
<1>1. /\ ListHeadPtr' = ListHeadPtr /\ dest' = dest /\ pool' = pool /\ inUse' = inUse
      /\ commanded' = commanded /\ pc' = pc /\ loc' = loc
      /\ astray' = astray /\ misled' = misled
  BY DEF vars
<1>2. PICK m, k : Placed(m, k)
  BY DEF DestInv
<1>3. Placed(m, k)'
  BY <1>1, <1>2 DEF Placed, Listed, Behind, Switches, InList
<1>4. TypeOK'
  BY <1>1 DEF DestInv, TypeOK
<1>5. Locals'
  BY <1>1 DEF DestInv, Locals
<1> QED
  BY <1>3, <1>4, <1>5 DEF DestInv

-----------------------------------------------------------------------------
(* The theorems *)

(* Every block is free or at its position in the list of one route,         *)
(* whatever blocks the deletions of pipes read that are not theirs any more *)
(* (CFE_SB_DeletePipeFull, CFE_SB_AddDest, CFE_SB_RemoveDest).              *)
THEOREM DestinationsInvariance == Spec => []DestInv
<1>1. Init => DestInv
  BY InitInv
<1>2. DestInv /\ [Next]_vars => DestInv'
  <2> SUFFICES ASSUME DestInv, [Next]_vars PROVE DestInv'
    OBVIOUS
  <2>1. CASE UNCHANGED vars
    BY <2>1, StutterKeeps
  <2>2. ASSUME NEW t \in Tasks, AppStep(t) PROVE DestInv'
    <3>1. ASSUME NEW r \in Routes, NEW p \in Pipes, Subscribe(t, r, p) PROVE DestInv'
      BY <2>2, <3>1, SubscribeKeeps
    <3>2. ASSUME NEW r \in Routes, NEW p \in Pipes, Unsubscribe(t, r, p) PROVE DestInv'
      BY <2>2, <3>2, UnsubscribeKeeps
    <3>3. ASSUME NEW p \in Pipes, CreatePipe(t, p) PROVE DestInv'
      BY <3>3, CreatePipeKeeps
    <3>4. ASSUME NEW p \in Pipes, DeletePipe(t, p) PROVE DestInv'
      BY <2>2, <3>4, DeletePipeKeeps
    <3>5. CASE DeleteUnsubscribe(t)
      BY <2>2, <3>5, DeleteUnsubscribeKeeps
    <3>6. CASE DeleteResume(t)
      BY <2>2, <3>6, DeleteResumeKeeps
    <3> QED
      BY <2>2, <3>1, <3>2, <3>3, <3>4, <3>5, <3>6 DEF AppStep, Deleting
  <2>3. ASSUME NEW r \in Routes, NEW p \in Pipes, NEW active \in BOOLEAN, RouteCmd(r, p, active)
        PROVE  DestInv'
    BY <2>3, RouteCmdKeeps
  <2>4. CASE RouteFind
    BY <2>4, RouteFindKeeps
  <2>5. CASE RouteWrite
    BY <2>5, RouteWriteKeeps
  <2> QED
    BY <2>1, <2>2, <2>3, <2>4, <2>5 DEF Next
<1> QED
  BY <1>1, <1>2, PTL DEF Spec

(* The lists are doubly linked and exact, and list only pipes that exist,   *)
(* each at most once: the walk of CFE_SB_DeletePipeFull misses no route,    *)
(* also with route commands under way.                                      *)
THEOREM ListsStayExact == Spec => []DestinationsExact
BY DestinationsInvariance, InvExact, PTL

(* Every destination that was not written by a command gone astray is in    *)
(* the state last commanded for it, and active from its subscription on,    *)
(* whatever the applications do to the lists while the commands walk them   *)
(* without the lock (CFE_SB_EnableRouteCmd, CFE_SB_DisableRouteCmd,         *)
(* CFE_SB_GetDestPtr, CFE_SB_AddDest).                                      *)
THEOREM DestinationsAsCommanded == Spec => []ActiveAsCommanded
BY InvCommanded, DestinationsInvariance, PTL
=============================================================================

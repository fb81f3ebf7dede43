-------------------------- MODULE SBZeroCopyProofs --------------------------
(***************************************************************************)
(* Proofs about the zero-copy buffers (SBZeroCopy), for every number of    *)
(* applications, descriptors and buffers, when no descriptor is between    *)
(* its two halves as a walk starts and none is given back during a walk    *)
(* (Windows = {}).  The list is ordered by the time a descriptor came on   *)
(* it: a rank that grows from Prev to Next makes the unlocked walk's       *)
(* progress and the list's completeness facts about single states.         *)
(***************************************************************************)
EXTENDS SBZeroCopy, FiniteSetTheorems, WellFoundedInduction, TLAPS

(* Neither of the two windows opens.                                       *)
NoWindows == Windows = {}

OwnerStage(d) == \E x \in Apps : pc[x] = "owner" /\ loc[x].desc = d
Holds(t) == pc[t] \in {"put", "send"}
Walking == pc[ES] # "idle"

(* The next descriptor the walk will look at.                              *)
Cursor == IF pc[ES] = "put" THEN loc[ES].prev ELSE loc[ES].desc

(* r ranks the allocated descriptors: Prev is the next lower, the tail the *)
(* highest.                                                                *)
Order(r) ==
  /\ \A d, e \in AllocDescs : r[d] = r[e] => d = e
  /\ \A d \in AllocDescs : zcd[d].Prev # NULL =>
       zcd[d].Prev \in AllocDescs /\ r[zcd[d].Prev] < r[d]
  /\ \A d, e \in AllocDescs : r[e] < r[d] =>
       zcd[d].Prev # NULL /\ r[e] <= r[zcd[d].Prev]
  /\ ZeroCopyTail # NULL => ZeroCopyTail \in AllocDescs
  /\ \A d \in AllocDescs : ZeroCopyTail # NULL /\ r[d] <= r[ZeroCopyTail]

(* What the walk looks for is ahead of it, and what has no owner yet is    *)
(* behind it.                                                              *)
Ahead(r) ==
  Walking =>
    /\ Cursor # NULL => /\ Cursor \in AllocDescs
                        /\ \A x \in Apps : pc[x] = "owner" => r[Cursor] < r[loc[x].desc]
    /\ \A d \in AllocDescs : zcd[d].AppID = loc[ES].app /\ ~OwnerStage(d) =>
         Cursor # NULL /\ r[d] <= r[Cursor]

ListInv == \E r \in [Descs -> Nat] : Order(r) /\ Ahead(r)

(* The two directions of the list agree.                                   *)
LinksInv ==
  \A d \in AllocDescs :
    /\ zcd[d].Next = NULL <=> d = ZeroCopyTail
    /\ zcd[d].Next # NULL => zcd[d].Next \in AllocDescs /\ zcd[zcd[d].Next].Prev = d
    /\ zcd[d].Prev # NULL => zcd[zcd[d].Prev].Next = d

(* What the tasks carry: a descriptor in GetPtr's second half is on the    *)
(* list, and the walk works for an application that has exited.            *)
PlacesInv ==
  /\ pc[ES] \in {"idle", "walk", "release", "put"}
  /\ \A x \in Apps : pc[x] \notin {"walk", "release"}
  /\ \A x \in Apps : pc[x] = "owner" =>
       loc[x].desc \in AllocDescs /\ zcd[loc[x].desc].Buffer = loc[x].buf
  /\ \A x, y \in Apps : pc[x] = "owner" /\ pc[y] = "owner" /\ loc[x].desc = loc[y].desc => x = y
  /\ Walking => loc[ES].app \in Apps /\ pc[loc[ES].app] = "exited"
  /\ pc[ES] = "release" => /\ loc[ES].desc \in AllocDescs
                           /\ zcd[loc[ES].desc].Buffer = loc[ES].buf
                           /\ zcd[loc[ES].desc].AppID = loc[ES].app
                           /\ zcd[loc[ES].desc].Prev = loc[ES].prev

(* What an application holds is its own.                                   *)
HeldInv ==
  \A a \in Apps : \A h \in held[a] :
    pc[a] # "exited" => /\ pc[a] # "dead"
                        /\ MayRelease(h[1], h[2]) /\ zcd[h[1]].AppID = a
                        /\ ~OwnerStage(h[1])

(* Every allocated buffer has one user: a descriptor, a task between two   *)
(* locked sections, or a place of the queue.                               *)
UsersInv ==
  /\ \A d \in AllocDescs : zcd[d].Buffer \in AllocBufs
  /\ \A t \in Tasks : Holds(t) => loc[t].buf \in AllocBufs
  /\ \A i \in DOMAIN queue : queue[i] \in AllocBufs
  /\ \A d, e \in AllocDescs : zcd[d].Buffer = zcd[e].Buffer => d = e
  /\ \A t, u \in Tasks : Holds(t) /\ Holds(u) /\ loc[t].buf = loc[u].buf => t = u
  /\ \A i, j \in DOMAIN queue : queue[i] = queue[j] => i = j
  /\ \A d \in AllocDescs, t \in Tasks : Holds(t) => zcd[d].Buffer # loc[t].buf
  /\ \A d \in AllocDescs, i \in DOMAIN queue : zcd[d].Buffer # queue[i]
  /\ \A t \in Tasks, i \in DOMAIN queue : Holds(t) => loc[t].buf # queue[i]
  /\ \A b \in AllocBufs :
       \/ \E d \in AllocDescs : zcd[d].Buffer = b
       \/ \E t \in Tasks : Holds(t) /\ loc[t].buf = b
       \/ \E i \in DOMAIN queue : queue[i] = b

(* Its use count is 1 once it has an owner, and the statistic counts it.   *)
CountsInv ==
  /\ \A b \in AllocBufs : buf[b] = 1 \/ \E x \in Apps : pc[x] = "owner" /\ loc[x].buf = b
  /\ SBBuffersInUse = Cardinality(AllocBufs)

ZeroCopyInv ==
  /\ TypeOK /\ ListInv /\ LinksInv /\ PlacesInv /\ HeldInv /\ UsersInv /\ CountsInv
  /\ DeadAppsHoldNothing

-----------------------------------------------------------------------------
(* Helpers *)

LEMMA ConstantsOK ==
  /\ NULL \notin Descs /\ NULL \notin Bufs /\ NULL \notin Apps /\ ES \notin Apps
  /\ ES \in Tasks /\ Apps \subseteq Tasks /\ IsFiniteSet(Bufs)
  /\ Tasks = Apps \cup {ES}
BY ZeroCopyAssumption DEF Tasks

(* A nonempty set of naturals has a least element.                         *)
LEMMA LeastExists ==
  ASSUME NEW S, S \subseteq Nat, S # {}
  PROVE  \E x \in S : \A y \in S : x <= y
<1> DEFINE R == OpToRel(<, Nat)
<1>1. R = {ss \in Nat \X Nat : ss[1] < ss[2]}
  BY DEF OpToRel
<1>2. IsWellFoundedOn(R, Nat)
  BY NatLessThanWellFounded
<1> HIDE DEF R
<1>3. \A x, y \in Nat : y < x => <<y, x>> \in R
  BY <1>1
<1>4. PICK x \in S : \A y \in S : <<y, x>> \notin R
  BY <1>2, WFMin
<1>5. ASSUME NEW y \in S PROVE x <= y
  <2>1. x \in Nat /\ y \in Nat
    OBVIOUS
  <2>2. ~(y < x)
    BY <2>1, <1>3, <1>4
  <2> QED
    BY <2>1, <2>2
<1> QED
  BY <1>4, <1>5

LEMMA TypeParts ==
  ASSUME TypeOK
  PROVE  /\ \A d \in Descs : /\ zcd[d] \in ZeroCopyD
                             /\ zcd[d].AppID \in Apps \cup {NULL}
                             /\ zcd[d].Buffer \in Bufs \cup {NULL}
                             /\ zcd[d].Prev \in Descs \cup {NULL}
                             /\ zcd[d].Next \in Descs \cup {NULL}
         /\ \A t \in Tasks : /\ pc[t] \in Places
                             /\ loc[t] \in Locals
                             /\ loc[t].desc \in Descs \cup {NULL}
                             /\ loc[t].buf \in Bufs \cup {NULL}
                             /\ loc[t].prev \in Descs \cup {NULL}
                             /\ loc[t].app \in Apps \cup {NULL}
         /\ AllocDescs \subseteq Descs /\ AllocBufs \subseteq Bufs
<1>1. ASSUME NEW d \in Descs
      PROVE  /\ zcd[d] \in ZeroCopyD
             /\ zcd[d].AppID \in Apps \cup {NULL}
             /\ zcd[d].Buffer \in Bufs \cup {NULL}
             /\ zcd[d].Prev \in Descs \cup {NULL}
             /\ zcd[d].Next \in Descs \cup {NULL}
  <2>1. zcd[d] \in ZeroCopyD
    BY DEF TypeOK
  <2> QED
    BY <2>1 DEF ZeroCopyD
<1>2. ASSUME NEW t \in Tasks
      PROVE  /\ pc[t] \in Places
             /\ loc[t] \in Locals
             /\ loc[t].desc \in Descs \cup {NULL}
             /\ loc[t].buf \in Bufs \cup {NULL}
             /\ loc[t].prev \in Descs \cup {NULL}
             /\ loc[t].app \in Apps \cup {NULL}
  <2>1. pc[t] \in Places /\ loc[t] \in Locals
    BY DEF TypeOK
  <2> QED
    BY <2>1 DEF Locals
<1>3. AllocDescs \subseteq Descs /\ AllocBufs \subseteq Bufs
  BY DEF AllocDescs, AllocBufs
<1> QED
  BY <1>1, <1>2, <1>3

(* One task goes on; the others stay.                                      *)
Moved(t, there, l) ==
  /\ pc' \in [Tasks -> Places] /\ loc' \in [Tasks -> Locals]
  /\ pc'[t] = there /\ loc'[t] = l
  /\ \A u \in Tasks : u # t => pc'[u] = pc[u] /\ loc'[u] = loc[u]

LEMMA GotoMoves ==
  ASSUME TypeOK, NEW t \in Tasks, NEW there \in Places, NEW l \in Locals, Goto(t, there, l)
  PROVE  Moved(t, there, l)
BY DEF TypeOK, Goto, Moved

LEMMA LocalsOK ==
  /\ NoLoc \in Locals
  /\ \A b \in Bufs : [NoLoc EXCEPT !.buf = b] \in Locals /\ [NoLoc EXCEPT !.buf = b].buf = b
  /\ \A b \in Bufs, d \in Descs : /\ [NoLoc EXCEPT !.desc = d, !.buf = b] \in Locals
                                  /\ [NoLoc EXCEPT !.desc = d, !.buf = b].desc = d
                                  /\ [NoLoc EXCEPT !.desc = d, !.buf = b].buf = b
BY DEF NoLoc, Locals

-----------------------------------------------------------------------------
(* The list.  A descriptor comes on at the tail, or leaves.                *)
Comes(d, b) ==
  /\ d \in Descs \ AllocDescs /\ AllocDescs' = AllocDescs \cup {d} /\ ZeroCopyTail' = d
  /\ zcd'[d].Prev = ZeroCopyTail /\ zcd'[d].Next = NULL /\ zcd'[d].Buffer = b
  /\ \A x \in AllocDescs :
       /\ zcd'[x].Prev = zcd[x].Prev /\ zcd'[x].AppID = zcd[x].AppID
       /\ zcd'[x].Buffer = zcd[x].Buffer
       /\ zcd'[x].Next = IF x = ZeroCopyTail THEN d ELSE zcd[x].Next

Leaves(d) ==
  /\ d \in AllocDescs /\ AllocDescs' = AllocDescs \ {d}
  /\ ZeroCopyTail' = IF ZeroCopyTail = d THEN zcd[d].Prev ELSE ZeroCopyTail
  /\ \A x \in AllocDescs \ {d} :
       /\ zcd'[x].AppID = zcd[x].AppID /\ zcd'[x].Buffer = zcd[x].Buffer
       /\ zcd'[x].Next = IF x = zcd[d].Prev THEN zcd[d].Next ELSE zcd[x].Next
       /\ zcd'[x].Prev = IF x = zcd[d].Next THEN zcd[d].Prev ELSE zcd[x].Prev

DescTypes ==
  /\ ZeroCopyTail \in Descs \cup {NULL} /\ zcd \in [Descs -> ZeroCopyD]
  /\ freeDescs \in Seq(Descs) /\ IsInjective(freeDescs)

LEMMA RangeOfSequence ==
  ASSUME NEW s, NEW n, DOMAIN s = 1 .. n
  PROVE  Range(s) = {s[i] : i \in 1 .. n}
BY DEF Range

LEMMA LinkFacts ==
  ASSUME TypeOK, freeDescs # <<>>, NEW d, d = Head(freeDescs), NEW b \in Bufs,
         freeDescs' = Tail(freeDescs), zcd' = Linked(d, b), ZeroCopyTail' = d
  PROVE  Comes(d, b) /\ DescTypes'
<1>1. freeDescs \in Seq(Descs) /\ Len(freeDescs) \in Nat /\ Len(freeDescs) > 0
  BY DEF TypeOK
<1>2. d = freeDescs[1] /\ d \in Descs
  BY <1>1
<1>3. freeDescs' \in Seq(Descs) /\ Len(freeDescs') = Len(freeDescs) - 1
      /\ \A i \in 1 .. Len(freeDescs) - 1 : freeDescs'[i] = freeDescs[i + 1]
  BY <1>1
<1>4. \A i, j \in 1 .. Len(freeDescs) : freeDescs[i] = freeDescs[j] => i = j
  BY <1>1 DEF TypeOK, IsInjective
<1>5. IsInjective(freeDescs')
  <2>1. DOMAIN freeDescs' = 1 .. Len(freeDescs) - 1
    BY <1>3
  <2> SUFFICES ASSUME NEW i \in 1 .. Len(freeDescs) - 1, NEW j \in 1 .. Len(freeDescs) - 1,
                      freeDescs'[i] = freeDescs'[j]
               PROVE  i = j
    BY <2>1 DEF IsInjective
  <2>2. i + 1 \in 1 .. Len(freeDescs) /\ j + 1 \in 1 .. Len(freeDescs)
    BY <1>1
  <2>3. freeDescs[i + 1] = freeDescs[j + 1]
    BY <1>3
  <2>4. i + 1 = j + 1
    BY <2>2, <2>3, <1>4
  <2> QED
    BY <2>4
<1>6. Range(freeDescs) = {freeDescs[i] : i \in 1 .. Len(freeDescs)}
      /\ Range(freeDescs') = {freeDescs'[i] : i \in 1 .. Len(freeDescs) - 1}
  <2>1. DOMAIN freeDescs = 1 .. Len(freeDescs) /\ DOMAIN freeDescs' = 1 .. Len(freeDescs) - 1
    BY <1>1, <1>3
  <2>2. Range(freeDescs) = {freeDescs[i] : i \in 1 .. Len(freeDescs)}
    BY <2>1, RangeOfSequence
  <2>3. PICK n : n = Len(freeDescs) - 1
    OBVIOUS
  <2>4. Range(freeDescs') = {freeDescs'[i] : i \in 1 .. n}
    BY ONLY <2>1, <2>3 DEF Range
  <2> QED
    BY <2>2, <2>3, <2>4
<1>7. Range(freeDescs') = Range(freeDescs) \ {d} /\ d \in Range(freeDescs)
  <2>1. ASSUME NEW x \in Range(freeDescs') PROVE x \in Range(freeDescs) \ {d}
    <3>1. PICK i \in 1 .. Len(freeDescs) - 1 : x = freeDescs'[i]
      BY <2>1, <1>6
    <3>2. x = freeDescs[i + 1] /\ i + 1 \in 1 .. Len(freeDescs) /\ 1 \in 1 .. Len(freeDescs)
          /\ i + 1 # 1
      BY <3>1, <1>1, <1>3
    <3>3. x # d
      BY <3>2, <1>2, <1>4
    <3> QED
      BY <3>2, <3>3, <1>6
  <2>2. ASSUME NEW x \in Range(freeDescs), x # d PROVE x \in Range(freeDescs')
    <3>1. PICK i \in 1 .. Len(freeDescs) : x = freeDescs[i]
      BY <2>2, <1>6
    <3>2. i # 1
      BY <3>1, <2>2, <1>2
    <3>3. i - 1 \in 1 .. Len(freeDescs) - 1 /\ (i - 1) + 1 = i
      BY <3>2, <1>1
    <3>4. freeDescs'[i - 1] = x
      BY <3>1, <3>3, <1>3
    <3> QED
      BY <3>3, <3>4, <1>6
  <2>3. d \in Range(freeDescs)
    BY <1>1, <1>2, <1>6
  <2> QED
    BY <2>1, <2>2, <2>3
<1>8. d \in Descs \ AllocDescs /\ AllocDescs' = AllocDescs \cup {d}
  BY <1>2, <1>7 DEF AllocDescs
<1>9. ASSUME NEW x \in Descs
      PROVE  /\ zcd'[x] = IF x = d THEN [zcd[x] EXCEPT !.Buffer = b, !.Next = NULL,
                                                       !.Prev = ZeroCopyTail]
                          ELSE IF x = ZeroCopyTail THEN [zcd[x] EXCEPT !.Next = d]
                          ELSE zcd[x]
             /\ zcd[x] \in ZeroCopyD
  BY TypeParts DEF Linked
<1>10. ASSUME NEW x \in Descs
       PROVE  /\ zcd'[x] \in ZeroCopyD
              /\ x = d => /\ zcd'[x].Prev = ZeroCopyTail /\ zcd'[x].Next = NULL
                          /\ zcd'[x].Buffer = b
              /\ x # d => /\ zcd'[x].Prev = zcd[x].Prev /\ zcd'[x].AppID = zcd[x].AppID
                          /\ zcd'[x].Buffer = zcd[x].Buffer
                          /\ zcd'[x].Next = IF x = ZeroCopyTail THEN d ELSE zcd[x].Next
  <2>1. ZeroCopyTail \in Descs \cup {NULL}
    BY DEF TypeOK
  <2>2. CASE x = d
    <3>1. zcd'[x] = [zcd[x] EXCEPT !.Buffer = b, !.Next = NULL, !.Prev = ZeroCopyTail]
      BY <2>2, <1>9
    <3> QED
      BY <3>1, <2>1, <2>2, <1>9 DEF ZeroCopyD
  <2>3. CASE x # d /\ x = ZeroCopyTail
    <3>1. zcd'[x] = [zcd[x] EXCEPT !.Next = d]
      BY <2>3, <1>9
    <3> QED
      BY <3>1, <2>3, <1>2, <1>9 DEF ZeroCopyD
  <2>4. CASE x # d /\ x # ZeroCopyTail
    BY <2>4, <1>9
  <2> QED
    BY <2>2, <2>3, <2>4
<1>11. zcd' \in [Descs -> ZeroCopyD]
  <2>1. zcd' = [x \in Descs |-> zcd'[x]]
    BY DEF Linked
  <2> QED
    BY <2>1, <1>10
<1>12. Comes(d, b)
  <2>1. \A x \in AllocDescs : x \in Descs /\ x # d
    BY <1>8, TypeParts
  <2>2. zcd'[d].Prev = ZeroCopyTail /\ zcd'[d].Next = NULL /\ zcd'[d].Buffer = b
    BY <1>2, <1>10
  <2>3. \A x \in AllocDescs :
          /\ zcd'[x].Prev = zcd[x].Prev /\ zcd'[x].AppID = zcd[x].AppID
          /\ zcd'[x].Buffer = zcd[x].Buffer
          /\ zcd'[x].Next = IF x = ZeroCopyTail THEN d ELSE zcd[x].Next
    BY <2>1, <1>10
  <2> QED
    BY <2>2, <2>3, <1>8 DEF Comes
<1>13. DescTypes'
  BY <1>2, <1>3, <1>5, <1>11 DEF DescTypes
<1> QED
  BY <1>12, <1>13

LEMMA DelinkFacts ==
  ASSUME TypeOK, NEW d \in AllocDescs, ReleaseDesc(d)
  PROVE  Leaves(d) /\ DescTypes'
<1>1. freeDescs \in Seq(Descs) /\ Len(freeDescs) \in Nat /\ d \in Descs
      /\ d \notin Range(freeDescs) /\ freeDescs' = <<d>> \o freeDescs
  BY DEF TypeOK, AllocDescs, ReleaseDesc
<1>2. freeDescs' \in Seq(Descs) /\ Len(freeDescs') = Len(freeDescs) + 1
      /\ freeDescs'[1] = d
      /\ \A i \in 1 .. Len(freeDescs) : freeDescs'[i + 1] = freeDescs[i]
  BY <1>1
<1>3. Range(freeDescs) = {freeDescs[i] : i \in 1 .. Len(freeDescs)}
      /\ Range(freeDescs') = {freeDescs'[i] : i \in 1 .. Len(freeDescs) + 1}
  <2>1. DOMAIN freeDescs = 1 .. Len(freeDescs) /\ DOMAIN freeDescs' = 1 .. Len(freeDescs) + 1
    BY <1>1, <1>2
  <2> QED
    BY <2>1, RangeOfSequence
<1>4. \A i \in 1 .. Len(freeDescs) + 1 :
        \/ i = 1 /\ freeDescs'[i] = d
        \/ i - 1 \in 1 .. Len(freeDescs) /\ freeDescs'[i] = freeDescs[i - 1]
  <2> SUFFICES ASSUME NEW i \in 1 .. Len(freeDescs) + 1, i # 1
               PROVE  i - 1 \in 1 .. Len(freeDescs) /\ freeDescs'[i] = freeDescs[i - 1]
    BY <1>2
  <2>1. i - 1 \in 1 .. Len(freeDescs) /\ (i - 1) + 1 = i
    BY <1>1
  <2> QED
    BY <2>1, <1>2
<1>5. IsInjective(freeDescs')
  <2>1. DOMAIN freeDescs' = 1 .. Len(freeDescs) + 1
    BY <1>2
  <2>2. \A i, j \in 1 .. Len(freeDescs) : freeDescs[i] = freeDescs[j] => i = j
    BY <1>1 DEF TypeOK, IsInjective
  <2>3. \A i \in 1 .. Len(freeDescs) : freeDescs[i] # d
    BY <1>1, <1>3
  <2> SUFFICES ASSUME NEW i \in 1 .. Len(freeDescs) + 1, NEW j \in 1 .. Len(freeDescs) + 1,
                      freeDescs'[i] = freeDescs'[j]
               PROVE  i = j
    BY <2>1 DEF IsInjective
  <2>4. CASE i = 1 \/ j = 1
    BY <2>3, <2>4, <1>4
  <2>5. CASE i # 1 /\ j # 1
    <3>1. i - 1 = j - 1
      BY <2>2, <2>5, <1>4
    <3> QED
      BY <3>1
  <2> QED
    BY <2>4, <2>5
<1>6. Range(freeDescs') = Range(freeDescs) \cup {d}
  <2>1. ASSUME NEW x \in Range(freeDescs') PROVE x \in Range(freeDescs) \cup {d}
    BY <2>1, <1>3, <1>4
  <2>2. ASSUME NEW x \in Range(freeDescs) PROVE x \in Range(freeDescs')
    <3>1. PICK i \in 1 .. Len(freeDescs) : x = freeDescs[i]
      BY <2>2, <1>3
    <3>2. i + 1 \in 1 .. Len(freeDescs) + 1 /\ freeDescs'[i + 1] = x
      BY <3>1, <1>1, <1>2
    <3> QED
      BY <3>2, <1>3
  <2>3. d \in Range(freeDescs')
    <3>1. 1 \in 1 .. Len(freeDescs) + 1
      BY <1>1
    <3> QED
      BY <3>1, <1>2, <1>3
  <2> QED
    BY <2>1, <2>2, <2>3
<1>7. AllocDescs' = AllocDescs \ {d}
  BY <1>6 DEF AllocDescs
<1>8. zcd[d] \in ZeroCopyD /\ zcd[d].Prev \in Descs \cup {NULL}
      /\ zcd[d].Next \in Descs \cup {NULL}
  BY <1>1, TypeParts
<1>9. ASSUME NEW x \in Descs
      PROVE  /\ zcd'[x] = IF x = d THEN [zcd[d] EXCEPT !.Next = NULL] ELSE
                          [zcd[x] EXCEPT
                             !.Next = IF x = zcd[d].Prev THEN zcd[d].Next ELSE zcd[x].Next,
                             !.Prev = IF x = zcd[d].Next THEN zcd[d].Prev ELSE zcd[x].Prev]
             /\ zcd[x] \in ZeroCopyD /\ zcd[x].Prev \in Descs \cup {NULL}
             /\ zcd[x].Next \in Descs \cup {NULL}
  BY TypeParts DEF ReleaseDesc, Delinked
<1>10. ASSUME NEW x \in Descs
       PROVE  /\ zcd'[x] \in ZeroCopyD
              /\ x # d =>
                   /\ zcd'[x].AppID = zcd[x].AppID /\ zcd'[x].Buffer = zcd[x].Buffer
                   /\ zcd'[x].Next = IF x = zcd[d].Prev THEN zcd[d].Next ELSE zcd[x].Next
                   /\ zcd'[x].Prev = IF x = zcd[d].Next THEN zcd[d].Prev ELSE zcd[x].Prev
  <2>1. CASE x = d
    <3>1. zcd'[x] = [zcd[d] EXCEPT !.Next = NULL]
      BY <2>1, <1>9
    <3> QED
      BY <3>1, <2>1, <1>8 DEF ZeroCopyD
  <2>2. CASE x # d
    <3>1. PICK n \in Descs \cup {NULL} :
            n = IF x = zcd[d].Prev THEN zcd[d].Next ELSE zcd[x].Next
      BY <1>8, <1>9
    <3>2. PICK p \in Descs \cup {NULL} :
            p = IF x = zcd[d].Next THEN zcd[d].Prev ELSE zcd[x].Prev
      BY <1>8, <1>9
    <3>3. zcd'[x] = [zcd[x] EXCEPT !.Next = n, !.Prev = p]
      BY <3>1, <3>2, <2>2, <1>9
    <3>4. zcd'[x] \in ZeroCopyD /\ zcd'[x].AppID = zcd[x].AppID
          /\ zcd'[x].Buffer = zcd[x].Buffer /\ zcd'[x].Next = n /\ zcd'[x].Prev = p
      BY <3>3, <1>9 DEF ZeroCopyD
    <3> QED
      BY <3>1, <3>2, <3>4, <2>2
  <2> QED
    BY <2>1, <2>2
<1>11. zcd' \in [Descs -> ZeroCopyD]
  <2>1. zcd' = [x \in Descs |-> zcd'[x]]
    BY DEF ReleaseDesc, Delinked
  <2> QED
    BY <2>1, <1>10
<1>12. ZeroCopyTail' \in Descs \cup {NULL}
       /\ ZeroCopyTail' = IF ZeroCopyTail = d THEN zcd[d].Prev ELSE ZeroCopyTail
  BY <1>8 DEF ReleaseDesc, TypeOK
<1>13. Leaves(d)
  BY <1>7, <1>10, <1>12, TypeParts DEF Leaves
<1>14. DescTypes'
  BY <1>2, <1>5, <1>11, <1>12 DEF DescTypes
<1> QED
  BY <1>13, <1>14

LEMMA OrderComes ==
  ASSUME TypeOK, NEW r \in [Descs -> Nat], Order(r), NEW d, NEW b, Comes(d, b)
  PROVE  \E q \in [Descs -> Nat] :
           Order(q)' /\ \A x \in AllocDescs : q[x] = r[x] /\ q[x] < q[d]
<1>1. AllocDescs \subseteq Descs /\ d \in Descs /\ d \notin AllocDescs
      /\ AllocDescs' = AllocDescs \cup {d} /\ ZeroCopyTail' = d /\ d # NULL
  BY TypeParts, ConstantsOK DEF Comes
<1>2. PICK n \in Nat : n = IF ZeroCopyTail = NULL THEN 0 ELSE r[ZeroCopyTail] + 1
  <2>1. CASE ZeroCopyTail = NULL
    BY <2>1
  <2>2. CASE ZeroCopyTail # NULL
    <3>1. r[ZeroCopyTail] \in Nat
      BY <2>2, <1>1 DEF Order
    <3> QED
      BY <3>1, <2>2
  <2> QED
    BY <2>1, <2>2
<1> DEFINE q == [r EXCEPT ![d] = n]
<1>3. q \in [Descs -> Nat] /\ q[d] = n /\ \A x \in AllocDescs : q[x] = r[x]
  BY <1>1
<1> HIDE DEF q
<1>4. \A x \in AllocDescs : q[x] \in Nat /\ q[x] < q[d]
  BY <1>1, <1>2, <1>3 DEF Order
<1>5. \A x \in AllocDescs : zcd'[x].Prev = zcd[x].Prev
  BY DEF Comes
<1>6. zcd'[d].Prev = ZeroCopyTail
  BY DEF Comes
<1>7. \A x, y \in AllocDescs' : q[x] = q[y] => x = y
  BY <1>1, <1>3, <1>4 DEF Order
<1>8. ASSUME NEW x \in AllocDescs', zcd'[x].Prev # NULL
      PROVE  zcd'[x].Prev \in AllocDescs' /\ q[zcd'[x].Prev] < q[x]
  <2>1. CASE x = d
    BY <2>1, <1>1, <1>4, <1>6, <1>8 DEF Order
  <2>2. CASE x \in AllocDescs
    BY <2>2, <1>1, <1>3, <1>5, <1>8 DEF Order
  <2> QED
    BY <2>1, <2>2, <1>1
<1>9. ASSUME NEW x \in AllocDescs', NEW y \in AllocDescs', q[y] < q[x]
      PROVE  zcd'[x].Prev # NULL /\ q[y] <= q[zcd'[x].Prev]
  <2>1. CASE x = d
    <3>1. y \in AllocDescs
      BY <2>1, <1>1, <1>3, <1>9
    <3>2. ZeroCopyTail # NULL /\ ZeroCopyTail \in AllocDescs /\ r[y] <= r[ZeroCopyTail]
      BY <3>1 DEF Order
    <3> QED
      BY <3>1, <3>2, <2>1, <1>3, <1>6
  <2>2. CASE x \in AllocDescs
    <3>1. y \in AllocDescs
      BY <2>2, <1>1, <1>3, <1>4, <1>9
    <3>2. zcd[x].Prev # NULL /\ zcd[x].Prev \in AllocDescs /\ r[y] <= r[zcd[x].Prev]
      BY <3>1, <2>2, <1>3, <1>9 DEF Order
    <3> QED
      BY <3>1, <3>2, <2>2, <1>3, <1>5
  <2> QED
    BY <2>1, <2>2, <1>1
<1>10. \A x \in AllocDescs' : q[x] <= q[d]
  BY <1>1, <1>3, <1>4
<1>11. Order(q)'
  BY <1>1, <1>7, <1>8, <1>9, <1>10 DEF Order
<1> QED
  BY <1>3, <1>4, <1>11

LEMMA LinksComes ==
  ASSUME TypeOK, LinksInv, NEW r, Order(r), NEW d, NEW b, Comes(d, b)
  PROVE  LinksInv'
<1>1. AllocDescs \subseteq Descs /\ d \in Descs /\ d \notin AllocDescs
      /\ AllocDescs' = AllocDescs \cup {d} /\ ZeroCopyTail' = d /\ d # NULL
      /\ zcd'[d].Prev = ZeroCopyTail /\ zcd'[d].Next = NULL
      /\ (ZeroCopyTail # NULL => ZeroCopyTail \in AllocDescs)
  BY TypeParts, ConstantsOK DEF Comes, Order
<1>2. \A x \in AllocDescs : /\ zcd'[x].Prev = zcd[x].Prev
                            /\ zcd'[x].Next = IF x = ZeroCopyTail THEN d ELSE zcd[x].Next
  BY DEF Comes
<1> SUFFICES ASSUME NEW x \in AllocDescs'
             PROVE  /\ zcd'[x].Next = NULL <=> x = ZeroCopyTail'
                    /\ zcd'[x].Next # NULL => /\ zcd'[x].Next \in AllocDescs'
                                              /\ zcd'[zcd'[x].Next].Prev = x
                    /\ zcd'[x].Prev # NULL => zcd'[zcd'[x].Prev].Next = x
  BY DEF LinksInv
<1>3. CASE x = d
  BY <1>1, <1>2, <1>3
<1>4. CASE x \in AllocDescs /\ x = ZeroCopyTail
  <2>1. zcd'[x].Next = d
    BY <1>2, <1>4
  <2>2. zcd[x].Prev # NULL => zcd[x].Prev \in AllocDescs /\ zcd[zcd[x].Prev].Next = x
    BY <1>4 DEF LinksInv, Order
  <2>3. zcd[x].Next = NULL
    BY <1>4 DEF LinksInv
  <2>4. zcd[x].Prev # NULL => zcd[x].Prev # ZeroCopyTail
    BY <2>2, <2>3, <1>1, <1>4, ConstantsOK
  <2> QED
    BY <2>1, <2>2, <2>4, <1>1, <1>2, <1>4
<1>5. CASE x \in AllocDescs /\ x # ZeroCopyTail
  <2>1. /\ zcd[x].Next # NULL /\ zcd[x].Next \in AllocDescs /\ zcd[zcd[x].Next].Prev = x
        /\ zcd[x].Prev # NULL => zcd[x].Prev \in AllocDescs /\ zcd[zcd[x].Prev].Next = x
    BY <1>5 DEF LinksInv, Order
  <2>2. zcd[x].Prev # NULL => zcd[x].Prev # ZeroCopyTail
    <3>1. ASSUME zcd[x].Prev # NULL, zcd[x].Prev = ZeroCopyTail PROVE FALSE
      BY <3>1, <2>1, <1>1, <1>5, ConstantsOK DEF LinksInv
    <3> QED
      BY <3>1
  <2> QED
    BY <2>1, <2>2, <1>1, <1>2, <1>5
<1> QED
  BY <1>1, <1>3, <1>4, <1>5

LEMMA OrderLeaves ==
  ASSUME TypeOK, LinksInv, NEW r \in [Descs -> Nat], Order(r), NEW d, Leaves(d)
  PROVE  Order(r)'
<1>1. AllocDescs \subseteq Descs /\ d \in AllocDescs /\ AllocDescs' = AllocDescs \ {d}
      /\ NULL \notin Descs
  BY TypeParts, ConstantsOK DEF Leaves
<1>2. PICK p : p = zcd[d].Prev
  OBVIOUS
<1>3. PICK n : n = zcd[d].Next
  OBVIOUS
<1>4. p # NULL => p \in AllocDescs /\ p # d /\ r[p] < r[d]
  BY <1>1, <1>2 DEF Order
<1>5. n # NULL => n \in AllocDescs /\ zcd[n].Prev = d
  BY <1>1, <1>3 DEF LinksInv
<1>6. \A x \in AllocDescs \ {d} : zcd'[x].Prev = IF x = n THEN p ELSE zcd[x].Prev
  BY <1>2, <1>3 DEF Leaves
<1>7. \A x \in AllocDescs \ {d} : x # n => zcd[x].Prev # d
  BY <1>1, <1>3 DEF LinksInv
<1>8. \A x \in AllocDescs : r[x] \in Nat
  BY <1>1
<1>9. ASSUME NEW x \in AllocDescs', zcd'[x].Prev # NULL
      PROVE  zcd'[x].Prev \in AllocDescs' /\ r[zcd'[x].Prev] < r[x]
  <2>1. CASE x = n
    <3>1. zcd'[x].Prev = p /\ p # NULL /\ p \in AllocDescs \ {d} /\ r[p] < r[d]
      BY <2>1, <1>1, <1>4, <1>6, <1>9
    <3>2. r[d] < r[x]
      BY <2>1, <1>1, <1>5, <1>9 DEF Order
    <3> QED
      BY <3>1, <3>2, <1>1, <1>8
  <2>2. CASE x # n
    BY <2>2, <1>1, <1>6, <1>7, <1>9 DEF Order
  <2> QED
    BY <2>1, <2>2
<1>10. ASSUME NEW x \in AllocDescs', NEW y \in AllocDescs', r[y] < r[x]
       PROVE  zcd'[x].Prev # NULL /\ r[y] <= r[zcd'[x].Prev]
  <2>1. CASE x = n
    <3>1. r[y] <= r[d] /\ y # d /\ y \in AllocDescs
      BY <2>1, <1>1, <1>5, <1>10 DEF Order
    <3>2. r[y] < r[d]
      BY <3>1, <1>1, <1>8 DEF Order
    <3>3. p # NULL /\ r[y] <= r[p]
      BY <3>1, <3>2, <1>1, <1>2 DEF Order
    <3> QED
      BY <3>3, <2>1, <1>1, <1>6
  <2>2. CASE x # n
    BY <2>2, <1>1, <1>6, <1>10 DEF Order
  <2> QED
    BY <2>1, <2>2
<1>11. CASE ZeroCopyTail = d
  <2>1. ZeroCopyTail' = p
    BY <1>2, <1>11 DEF Leaves
  <2>2. ASSUME NEW x \in AllocDescs' PROVE p # NULL /\ r[x] <= r[p]
    <3>1. r[x] <= r[d] /\ x # d /\ x \in AllocDescs
      BY <1>1, <1>11 DEF Order
    <3>2. r[x] < r[d]
      BY <3>1, <1>1, <1>8 DEF Order
    <3> QED
      BY <3>1, <3>2, <1>1, <1>2 DEF Order
  <2>3. p # NULL => p \in AllocDescs'
    BY <1>1, <1>4
  <2>4. \A x, y \in AllocDescs' : r[x] = r[y] => x = y
    BY <1>1 DEF Order
  <2> QED
    BY <2>1, <2>2, <2>3, <2>4, <1>9, <1>10 DEF Order
<1>12. CASE ZeroCopyTail # d
  <2>1. ZeroCopyTail' = ZeroCopyTail
    BY <1>12 DEF Leaves
  <2>2. /\ ZeroCopyTail # NULL => ZeroCopyTail \in AllocDescs'
        /\ \A x \in AllocDescs' : ZeroCopyTail # NULL /\ r[x] <= r[ZeroCopyTail]
    BY <1>1, <1>12 DEF Order
  <2>4. \A x, y \in AllocDescs' : r[x] = r[y] => x = y
    BY <1>1 DEF Order
  <2> QED
    BY <2>1, <2>2, <2>4, <1>9, <1>10 DEF Order
<1> QED
  BY <1>11, <1>12

LEMMA LinksLeaves ==
  ASSUME TypeOK, LinksInv, NEW r \in [Descs -> Nat], Order(r), NEW d, Leaves(d)
  PROVE  LinksInv'
<1>1. AllocDescs \subseteq Descs /\ d \in AllocDescs /\ AllocDescs' = AllocDescs \ {d}
      /\ NULL \notin Descs
  BY TypeParts, ConstantsOK DEF Leaves
<1>2. PICK p : p = zcd[d].Prev
  OBVIOUS
<1>3. PICK n : n = zcd[d].Next
  OBVIOUS
<1>4. p # NULL => p \in AllocDescs \ {d} /\ zcd[p].Next = d /\ r[p] < r[d]
  BY <1>1, <1>2 DEF Order, LinksInv
<1>5. n # NULL => n \in AllocDescs /\ zcd[n].Prev = d
  BY <1>1, <1>3 DEF LinksInv
<1>6. n # NULL => r[d] < r[n] /\ n # d
  BY <1>1, <1>5 DEF Order
<1>7. \A x \in AllocDescs \ {d} : /\ zcd'[x].Prev = IF x = n THEN p ELSE zcd[x].Prev
                                  /\ zcd'[x].Next = IF x = p THEN n ELSE zcd[x].Next
  BY <1>2, <1>3 DEF Leaves
<1>8. \A x \in AllocDescs \ {d} :
        (x # n => zcd[x].Prev # d) /\ (x # p => zcd[x].Next # d)
  BY <1>1, <1>2, <1>3 DEF LinksInv
<1>9. n = NULL <=> d = ZeroCopyTail
  BY <1>1, <1>3 DEF LinksInv
<1>10. p # NULL /\ n # NULL => p # n
  BY <1>1, <1>4, <1>6
<1>t. ZeroCopyTail' = IF ZeroCopyTail = d THEN p ELSE ZeroCopyTail
  BY <1>2 DEF Leaves
<1> SUFFICES ASSUME NEW x \in AllocDescs'
             PROVE  /\ zcd'[x].Next = NULL <=> x = ZeroCopyTail'
                    /\ zcd'[x].Next # NULL => /\ zcd'[x].Next \in AllocDescs'
                                              /\ zcd'[zcd'[x].Next].Prev = x
                    /\ zcd'[x].Prev # NULL => zcd'[zcd'[x].Prev].Next = x
  BY DEF LinksInv
<1>x. x \in AllocDescs \ {d} /\ x # NULL
  BY <1>1
<1>11. zcd'[x].Next = NULL <=> x = ZeroCopyTail'
  <2>1. CASE x = p
    <3>1. zcd'[x].Next = n /\ zcd[x].Next = d
      BY <2>1, <1>4, <1>7, <1>x
    <3>2. x # ZeroCopyTail
      BY <3>1, <1>1, <1>x DEF LinksInv
    <3> QED
      BY <3>1, <3>2, <2>1, <1>9, <1>t
  <2>2. CASE x # p
    <3>1. zcd'[x].Next = zcd[x].Next /\ (zcd[x].Next = NULL <=> x = ZeroCopyTail)
      BY <2>2, <1>7, <1>x DEF LinksInv
    <3> QED
      BY <3>1, <2>2, <1>x, <1>t
  <2> QED
    BY <2>1, <2>2
<1>12. ASSUME zcd'[x].Next # NULL
       PROVE  zcd'[x].Next \in AllocDescs' /\ zcd'[zcd'[x].Next].Prev = x
  <2>1. CASE x = p
    <3>1. zcd'[x].Next = n /\ n # NULL
      BY <2>1, <1>7, <1>12, <1>x
    <3>2. n \in AllocDescs \ {d} /\ zcd'[n].Prev = p
      BY <3>1, <1>5, <1>6, <1>7
    <3> QED
      BY <3>1, <3>2, <2>1, <1>1
  <2>2. CASE x # p
    <3>1. zcd'[x].Next = zcd[x].Next /\ zcd[x].Next # NULL
      BY <2>2, <1>7, <1>12, <1>x
    <3>2. PICK y : y = zcd[x].Next
      OBVIOUS
    <3>3. y \in AllocDescs /\ zcd[y].Prev = x /\ y # d
      BY <3>1, <3>2, <2>2, <1>8, <1>x DEF LinksInv
    <3>4. y # n
      BY <3>3, <1>1, <1>5, <1>x
    <3> QED
      BY <3>1, <3>2, <3>3, <3>4, <1>1, <1>7
  <2> QED
    BY <2>1, <2>2
<1>13. ASSUME zcd'[x].Prev # NULL
       PROVE  zcd'[zcd'[x].Prev].Next = x
  <2>1. CASE x = n
    <3>1. zcd'[x].Prev = p /\ p # NULL
      BY <2>1, <1>7, <1>13, <1>x
    <3>2. zcd'[p].Next = n
      BY <3>1, <1>4, <1>7
    <3> QED
      BY <3>1, <3>2, <2>1
  <2>2. CASE x # n
    <3>1. zcd'[x].Prev = zcd[x].Prev /\ zcd[x].Prev # NULL
      BY <2>2, <1>7, <1>13, <1>x
    <3>2. PICK y : y = zcd[x].Prev
      OBVIOUS
    <3>3. y \in AllocDescs /\ zcd[y].Next = x /\ y # d
      BY <3>1, <3>2, <2>2, <1>8, <1>x DEF LinksInv, Order
    <3>4. y # p
      BY <3>3, <1>1, <1>4, <1>x
    <3> QED
      BY <3>1, <3>2, <3>3, <3>4, <1>7
  <2> QED
    BY <2>1, <2>2
<1> QED
  BY <1>11, <1>12, <1>13

-----------------------------------------------------------------------------
(* The users of the buffers.  A task that is at neither end of a release   *)
(* or a send is none.                                                      *)
Idles(u) ==
  \/ pc'[u] = pc[u] /\ loc'[u] = loc[u]
  \/ ~Holds(u) /\ pc'[u] \notin {"put", "send"}

SameBuffers == \A d \in AllocDescs' : d \in AllocDescs /\ zcd'[d].Buffer = zcd[d].Buffer

LEMMA IdlesHolds ==
  ASSUME NEW u, Idles(u)
  PROVE  /\ Holds(u)' => Holds(u) /\ loc'[u] = loc[u]
         /\ Holds(u) => Holds(u)' /\ loc'[u] = loc[u]
BY DEF Idles, Holds

LEMMA UsersKept ==
  ASSUME UsersInv, AllocDescs' = AllocDescs, SameBuffers, queue' = queue,
         AllocBufs' = AllocBufs, \A u \in Tasks : Idles(u)
  PROVE  UsersInv'
<1>1. \A u \in Tasks : /\ Holds(u)' => Holds(u) /\ loc'[u] = loc[u]
                       /\ Holds(u) => Holds(u)' /\ loc'[u] = loc[u]
  BY IdlesHolds
<1>2. \A d \in AllocDescs : zcd'[d].Buffer = zcd[d].Buffer
  BY DEF SameBuffers
<1>3. /\ \A d \in AllocDescs' : zcd'[d].Buffer \in AllocBufs'
      /\ \A t \in Tasks : Holds(t)' => loc'[t].buf \in AllocBufs'
      /\ \A i \in DOMAIN queue' : queue'[i] \in AllocBufs'
  BY <1>1, <1>2 DEF UsersInv
<1>4. /\ \A d, e \in AllocDescs' : zcd'[d].Buffer = zcd'[e].Buffer => d = e
      /\ \A t, u \in Tasks : Holds(t)' /\ Holds(u)' /\ loc'[t].buf = loc'[u].buf => t = u
      /\ \A i, j \in DOMAIN queue' : queue'[i] = queue'[j] => i = j
  BY <1>1, <1>2 DEF UsersInv
<1>5. /\ \A d \in AllocDescs', t \in Tasks : Holds(t)' => zcd'[d].Buffer # loc'[t].buf
      /\ \A d \in AllocDescs', i \in DOMAIN queue' : zcd'[d].Buffer # queue'[i]
      /\ \A t \in Tasks, i \in DOMAIN queue' : Holds(t)' => loc'[t].buf # queue'[i]
  BY <1>1, <1>2 DEF UsersInv
<1>6. \A b \in AllocBufs' :
        \/ \E d \in AllocDescs' : zcd'[d].Buffer = b
        \/ \E t \in Tasks : Holds(t)' /\ loc'[t].buf = b
        \/ \E i \in DOMAIN queue' : queue'[i] = b
  <2> SUFFICES ASSUME NEW b \in AllocBufs
               PROVE  \/ \E d \in AllocDescs' : zcd'[d].Buffer = b
                      \/ \E t \in Tasks : Holds(t)' /\ loc'[t].buf = b
                      \/ \E i \in DOMAIN queue' : queue'[i] = b
    OBVIOUS
  <2> QED
    BY <1>1, <1>2 DEF UsersInv
<1> QED
  BY <1>3, <1>4, <1>5, <1>6 DEF UsersInv

(* A descriptor's buffer passes to task t.                                 *)
LEMMA UsersToTask ==
  ASSUME UsersInv, NEW d \in AllocDescs, AllocDescs' = AllocDescs \ {d}, SameBuffers,
         queue' = queue, AllocBufs' = AllocBufs, NEW t \in Tasks, ~Holds(t), Holds(t)',
         loc'[t].buf = zcd[d].Buffer, \A u \in Tasks : u # t => Idles(u)
  PROVE  UsersInv'
<1>1. \A u \in Tasks : u # t => /\ Holds(u)' => Holds(u) /\ loc'[u] = loc[u]
                                /\ Holds(u) => Holds(u)' /\ loc'[u] = loc[u]
  BY IdlesHolds
<1>2. \A e \in AllocDescs : e # d => zcd'[e].Buffer = zcd[e].Buffer
  BY DEF SameBuffers
<1>3. /\ \A e \in AllocDescs' : zcd'[e].Buffer \in AllocBufs'
      /\ \A u \in Tasks : Holds(u)' => loc'[u].buf \in AllocBufs'
      /\ \A i \in DOMAIN queue' : queue'[i] \in AllocBufs'
  BY <1>1, <1>2 DEF UsersInv
<1>4. /\ \A e, f \in AllocDescs' : zcd'[e].Buffer = zcd'[f].Buffer => e = f
      /\ \A i, j \in DOMAIN queue' : queue'[i] = queue'[j] => i = j
  BY <1>2 DEF UsersInv
<1>5. \A v, u \in Tasks : Holds(v)' /\ Holds(u)' /\ loc'[v].buf = loc'[u].buf => v = u
  BY <1>1 DEF UsersInv
<1>6. \A e \in AllocDescs', u \in Tasks : Holds(u)' => zcd'[e].Buffer # loc'[u].buf
  BY <1>1, <1>2 DEF UsersInv
<1>7. \A e \in AllocDescs', i \in DOMAIN queue' : zcd'[e].Buffer # queue'[i]
  BY <1>2 DEF UsersInv
<1>8. \A u \in Tasks, i \in DOMAIN queue' : Holds(u)' => loc'[u].buf # queue'[i]
  BY <1>1 DEF UsersInv
<1>9. ASSUME NEW b \in AllocBufs
      PROVE  \/ \E e \in AllocDescs' : zcd'[e].Buffer = b
             \/ \E u \in Tasks : Holds(u)' /\ loc'[u].buf = b
             \/ \E i \in DOMAIN queue' : queue'[i] = b
  <2>1. CASE \E e \in AllocDescs : zcd[e].Buffer = b
    BY <2>1, <1>2
  <2>2. CASE \E u \in Tasks : Holds(u) /\ loc[u].buf = b
    BY <2>2, <1>1
  <2>3. CASE \E i \in DOMAIN queue : queue[i] = b
    BY <2>3
  <2> QED
    BY <2>1, <2>2, <2>3 DEF UsersInv
<1> QED
  BY <1>3, <1>4, <1>5, <1>6, <1>7, <1>8, <1>9 DEF UsersInv

(* Task t's buffer is freed.                                               *)
LEMMA UsersTaskEnds ==
  ASSUME UsersInv, NEW t \in Tasks, Holds(t), ~Holds(t)', AllocDescs' = AllocDescs,
         SameBuffers, queue' = queue, AllocBufs' = AllocBufs \ {loc[t].buf},
         \A u \in Tasks : u # t => Idles(u)
  PROVE  UsersInv'
<1>1. \A u \in Tasks : u # t => /\ Holds(u)' => Holds(u) /\ loc'[u] = loc[u]
                                /\ Holds(u) => Holds(u)' /\ loc'[u] = loc[u]
  BY IdlesHolds
<1>2. \A e \in AllocDescs : zcd'[e].Buffer = zcd[e].Buffer
  BY DEF SameBuffers
<1>3. /\ \A e \in AllocDescs' : zcd'[e].Buffer \in AllocBufs'
      /\ \A i \in DOMAIN queue' : queue'[i] \in AllocBufs'
  BY <1>2 DEF UsersInv
<1>4. \A u \in Tasks : Holds(u)' => loc'[u].buf \in AllocBufs'
  BY <1>1 DEF UsersInv
<1>5. /\ \A e, f \in AllocDescs' : zcd'[e].Buffer = zcd'[f].Buffer => e = f
      /\ \A i, j \in DOMAIN queue' : queue'[i] = queue'[j] => i = j
  BY <1>2 DEF UsersInv
<1>6. \A v, u \in Tasks : Holds(v)' /\ Holds(u)' /\ loc'[v].buf = loc'[u].buf => v = u
  BY <1>1 DEF UsersInv
<1>7. \A e \in AllocDescs', u \in Tasks : Holds(u)' => zcd'[e].Buffer # loc'[u].buf
  BY <1>1, <1>2 DEF UsersInv
<1>8. \A e \in AllocDescs', i \in DOMAIN queue' : zcd'[e].Buffer # queue'[i]
  BY <1>2 DEF UsersInv
<1>9. \A u \in Tasks, i \in DOMAIN queue' : Holds(u)' => loc'[u].buf # queue'[i]
  BY <1>1 DEF UsersInv
<1>10. ASSUME NEW b \in AllocBufs, b # loc[t].buf
       PROVE  \/ \E e \in AllocDescs' : zcd'[e].Buffer = b
              \/ \E u \in Tasks : Holds(u)' /\ loc'[u].buf = b
              \/ \E i \in DOMAIN queue' : queue'[i] = b
  <2>1. CASE \E e \in AllocDescs : zcd[e].Buffer = b
    BY <2>1, <1>2
  <2>2. CASE \E u \in Tasks : Holds(u) /\ loc[u].buf = b
    <3>1. PICK u \in Tasks : Holds(u) /\ loc[u].buf = b
      BY <2>2
    <3>2. u # t
      BY <3>1, <1>10
    <3> QED
      BY <3>1, <3>2, <1>1
  <2>3. CASE \E i \in DOMAIN queue : queue[i] = b
    BY <2>3
  <2> QED
    BY <2>1, <2>2, <2>3 DEF UsersInv
<1> QED
  BY <1>3, <1>4, <1>5, <1>6, <1>7, <1>8, <1>9, <1>10 DEF UsersInv

(* Task t's buffer goes on the queue.                                      *)
LEMMA UsersToQueue ==
  ASSUME UsersInv, TypeOK, NEW t \in Tasks, Holds(t), ~Holds(t)', AllocDescs' = AllocDescs,
         SameBuffers, queue' = Append(queue, loc[t].buf), AllocBufs' = AllocBufs,
         \A u \in Tasks : u # t => Idles(u)
  PROVE  UsersInv'
<1>1. \A u \in Tasks : u # t => /\ Holds(u)' => Holds(u) /\ loc'[u] = loc[u]
                                /\ Holds(u) => Holds(u)' /\ loc'[u] = loc[u]
  BY IdlesHolds
<1>2. \A e \in AllocDescs : zcd'[e].Buffer = zcd[e].Buffer
  BY DEF SameBuffers
<1>3. PICK n : n = Len(queue) + 1
  OBVIOUS
<1>4. /\ DOMAIN queue' = DOMAIN queue \cup {n} /\ n \notin DOMAIN queue
      /\ queue'[n] = loc[t].buf /\ \A i \in DOMAIN queue : queue'[i] = queue[i]
  BY <1>3 DEF TypeOK
<1>5. /\ \A e \in AllocDescs' : zcd'[e].Buffer \in AllocBufs'
      /\ \A u \in Tasks : Holds(u)' => loc'[u].buf \in AllocBufs'
  BY <1>1, <1>2 DEF UsersInv
<1>6. \A i \in DOMAIN queue' : queue'[i] \in AllocBufs'
  BY <1>4 DEF UsersInv
<1>7. \A e, f \in AllocDescs' : zcd'[e].Buffer = zcd'[f].Buffer => e = f
  BY <1>2 DEF UsersInv
<1>8. \A i, j \in DOMAIN queue' : queue'[i] = queue'[j] => i = j
  BY <1>4 DEF UsersInv
<1>9. \A v, u \in Tasks : Holds(v)' /\ Holds(u)' /\ loc'[v].buf = loc'[u].buf => v = u
  BY <1>1 DEF UsersInv
<1>10. \A e \in AllocDescs', u \in Tasks : Holds(u)' => zcd'[e].Buffer # loc'[u].buf
  BY <1>1, <1>2 DEF UsersInv
<1>11. \A e \in AllocDescs', i \in DOMAIN queue' : zcd'[e].Buffer # queue'[i]
  BY <1>2, <1>4 DEF UsersInv
<1>12. \A u \in Tasks, i \in DOMAIN queue' : Holds(u)' => loc'[u].buf # queue'[i]
  BY <1>1, <1>4 DEF UsersInv
<1>13. ASSUME NEW b \in AllocBufs
       PROVE  \/ \E e \in AllocDescs' : zcd'[e].Buffer = b
              \/ \E u \in Tasks : Holds(u)' /\ loc'[u].buf = b
              \/ \E i \in DOMAIN queue' : queue'[i] = b
  <2>1. CASE \E e \in AllocDescs : zcd[e].Buffer = b
    BY <2>1, <1>2
  <2>2. CASE \E u \in Tasks : Holds(u) /\ loc[u].buf = b
    <3>1. PICK u \in Tasks : Holds(u) /\ loc[u].buf = b
      BY <2>2
    <3>2. CASE u = t
      BY <3>1, <3>2, <1>4
    <3>3. CASE u # t
      BY <3>1, <3>3, <1>1
    <3> QED
      BY <3>2, <3>3
  <2>3. CASE \E i \in DOMAIN queue : queue[i] = b
    BY <2>3, <1>4
  <2> QED
    BY <2>1, <2>2, <2>3 DEF UsersInv
<1> QED
  BY <1>5, <1>6, <1>7, <1>8, <1>9, <1>10, <1>11, <1>12, <1>13 DEF UsersInv

(* The buffer at the head of the queue is freed.                           *)
LEMMA UsersQueueEnds ==
  ASSUME UsersInv, TypeOK, queue # <<>>, queue' = Tail(queue), UNCHANGED <<pc, loc>>,
         AllocDescs' = AllocDescs, SameBuffers, AllocBufs' = AllocBufs \ {Head(queue)}
  PROVE  UsersInv'
<1>1. pc' = pc /\ loc' = loc /\ \A u \in Tasks : Holds(u)' <=> Holds(u)
  BY DEF Holds
<1>2. \A e \in AllocDescs : zcd'[e].Buffer = zcd[e].Buffer
  BY DEF SameBuffers
<1>3. Len(queue) \in Nat /\ Len(queue) > 0 /\ DOMAIN queue = 1 .. Len(queue)
      /\ Head(queue) = queue[1] /\ 1 \in DOMAIN queue
  BY DEF TypeOK
<1>4. DOMAIN queue' = 1 .. Len(queue) - 1
      /\ \A i \in 1 .. Len(queue) - 1 : queue'[i] = queue[i + 1]
  BY <1>3 DEF TypeOK
<1>5. \A i \in DOMAIN queue' :
        queue'[i] = queue[i + 1] /\ i + 1 \in DOMAIN queue /\ i + 1 # 1
  BY <1>3, <1>4
<1>6. \A i \in DOMAIN queue' : queue'[i] # Head(queue)
  BY <1>3, <1>5 DEF UsersInv
<1>7. /\ \A e \in AllocDescs' : zcd'[e].Buffer \in AllocBufs'
      /\ \A u \in Tasks : Holds(u)' => loc'[u].buf \in AllocBufs'
  BY <1>1, <1>2, <1>3 DEF UsersInv
<1>8. \A i \in DOMAIN queue' : queue'[i] \in AllocBufs'
  BY <1>5, <1>6 DEF UsersInv
<1>9. /\ \A e, f \in AllocDescs' : zcd'[e].Buffer = zcd'[f].Buffer => e = f
      /\ \A v, u \in Tasks : Holds(v)' /\ Holds(u)' /\ loc'[v].buf = loc'[u].buf => v = u
      /\ \A e \in AllocDescs', u \in Tasks : Holds(u)' => zcd'[e].Buffer # loc'[u].buf
  BY <1>1, <1>2 DEF UsersInv
<1>10. ASSUME NEW i \in DOMAIN queue', NEW j \in DOMAIN queue', queue'[i] = queue'[j]
       PROVE  i = j
  <2>1. i + 1 = j + 1
    BY <1>5, <1>10 DEF UsersInv
  <2> QED
    BY <2>1, <1>4
<1>11. /\ \A e \in AllocDescs', i \in DOMAIN queue' : zcd'[e].Buffer # queue'[i]
       /\ \A u \in Tasks, i \in DOMAIN queue' : Holds(u)' => loc'[u].buf # queue'[i]
  BY <1>1, <1>2, <1>5 DEF UsersInv
<1>12. ASSUME NEW b \in AllocBufs, b # Head(queue)
       PROVE  \/ \E e \in AllocDescs' : zcd'[e].Buffer = b
              \/ \E u \in Tasks : Holds(u)' /\ loc'[u].buf = b
              \/ \E i \in DOMAIN queue' : queue'[i] = b
  <2>1. CASE \E e \in AllocDescs : zcd[e].Buffer = b
    BY <2>1, <1>2
  <2>2. CASE \E u \in Tasks : Holds(u) /\ loc[u].buf = b
    BY <2>2, <1>1
  <2>3. CASE \E i \in DOMAIN queue : queue[i] = b
    <3>1. PICK i \in DOMAIN queue : queue[i] = b
      BY <2>3
    <3>2. i # 1 /\ i \in 1 .. Len(queue)
      BY <3>1, <1>3, <1>12
    <3>3. i - 1 \in DOMAIN queue' /\ (i - 1) + 1 = i
      BY <3>2, <1>3, <1>4
    <3>4. queue'[i - 1] = b
      BY <3>1, <3>3, <1>5
    <3> QED
      BY <3>3, <3>4
  <2> QED
    BY <2>1, <2>2, <2>3 DEF UsersInv
<1> QED
  BY <1>7, <1>8, <1>9, <1>10, <1>11, <1>12 DEF UsersInv

(* A descriptor comes with a buffer that was free.                         *)
LEMMA UsersComes ==
  ASSUME UsersInv, NEW d, NEW b \in Bufs \ AllocBufs, Comes(d, b), queue' = queue,
         AllocBufs' = AllocBufs \cup {b}, \A u \in Tasks : Idles(u)
  PROVE  UsersInv'
<1>1. \A u \in Tasks : /\ Holds(u)' => Holds(u) /\ loc'[u] = loc[u]
                       /\ Holds(u) => Holds(u)' /\ loc'[u] = loc[u]
  BY IdlesHolds
<1>2. /\ d \notin AllocDescs /\ AllocDescs' = AllocDescs \cup {d} /\ zcd'[d].Buffer = b
      /\ \A e \in AllocDescs : zcd'[e].Buffer = zcd[e].Buffer
  BY DEF Comes
<1>3. /\ \A e \in AllocDescs' : zcd'[e].Buffer \in AllocBufs'
      /\ \A u \in Tasks : Holds(u)' => loc'[u].buf \in AllocBufs'
      /\ \A i \in DOMAIN queue' : queue'[i] \in AllocBufs'
  BY <1>1, <1>2 DEF UsersInv
<1>4. \A e, f \in AllocDescs' : zcd'[e].Buffer = zcd'[f].Buffer => e = f
  BY <1>2 DEF UsersInv
<1>5. /\ \A v, u \in Tasks : Holds(v)' /\ Holds(u)' /\ loc'[v].buf = loc'[u].buf => v = u
      /\ \A i, j \in DOMAIN queue' : queue'[i] = queue'[j] => i = j
      /\ \A u \in Tasks, i \in DOMAIN queue' : Holds(u)' => loc'[u].buf # queue'[i]
  BY <1>1 DEF UsersInv
<1>6. \A e \in AllocDescs', u \in Tasks : Holds(u)' => zcd'[e].Buffer # loc'[u].buf
  BY <1>1, <1>2 DEF UsersInv
<1>7. \A e \in AllocDescs', i \in DOMAIN queue' : zcd'[e].Buffer # queue'[i]
  BY <1>2 DEF UsersInv
<1>8. ASSUME NEW c \in AllocBufs'
      PROVE  \/ \E e \in AllocDescs' : zcd'[e].Buffer = c
             \/ \E u \in Tasks : Holds(u)' /\ loc'[u].buf = c
             \/ \E i \in DOMAIN queue' : queue'[i] = c
  <2>1. CASE c = b
    BY <2>1, <1>2
  <2>2. CASE c \in AllocBufs
    <3>1. CASE \E e \in AllocDescs : zcd[e].Buffer = c
      BY <3>1, <1>2
    <3>2. CASE \E u \in Tasks : Holds(u) /\ loc[u].buf = c
      BY <3>2, <1>1
    <3>3. CASE \E i \in DOMAIN queue : queue[i] = c
      BY <3>3
    <3> QED
      BY <3>1, <3>2, <3>3, <2>2 DEF UsersInv
  <2> QED
    BY <2>1, <2>2, <1>8
<1> QED
  BY <1>3, <1>4, <1>5, <1>6, <1>7, <1>8 DEF UsersInv

-----------------------------------------------------------------------------
(* The use counts and the statistic.                                       *)
OwnersKept == \A x \in Apps : pc[x] = "owner" => pc'[x] = "owner" /\ loc'[x] = loc[x]

BufTypes == buf \in [Bufs -> 0 .. 1] /\ freeBufs \subseteq Bufs

LEMMA BufsFinite == IsFiniteSet(AllocBufs) /\ Cardinality(AllocBufs) \in 0 .. Cardinality(Bufs)
<1>1. AllocBufs \subseteq Bufs
  BY DEF AllocBufs
<1>2. IsFiniteSet(AllocBufs) /\ Cardinality(AllocBufs) <= Cardinality(Bufs)
  BY <1>1, ConstantsOK, FS_Subset
<1>3. Cardinality(AllocBufs) \in Nat /\ Cardinality(Bufs) \in Nat
  BY <1>2, ConstantsOK, FS_CardinalityType
<1> QED
  BY <1>2, <1>3

LEMMA BufKept ==
  ASSUME TypeOK, CountsInv, OwnersKept, UNCHANGED <<buf, freeBufs, SBBuffersInUse>>
  PROVE  CountsInv' /\ BufTypes' /\ AllocBufs' = AllocBufs
<1>1. AllocBufs' = AllocBufs /\ buf' = buf /\ SBBuffersInUse' = SBBuffersInUse
  BY DEF AllocBufs
<1>2. BufTypes'
  BY DEF TypeOK, BufTypes
<1>3. ASSUME NEW b \in AllocBufs
      PROVE  buf[b] = 1 \/ \E x \in Apps : pc'[x] = "owner" /\ loc'[x].buf = b
  BY DEF CountsInv, OwnersKept
<1>4. CountsInv'
  BY <1>1, <1>3 DEF CountsInv
<1> QED
  BY <1>1, <1>2, <1>4

LEMMA BufFreed ==
  ASSUME TypeOK, CountsInv, OwnersKept, NEW b \in AllocBufs, PutBuf(b)
  PROVE  CountsInv' /\ BufTypes' /\ AllocBufs' = AllocBufs \ {b}
<1>1. b \in Bufs /\ freeBufs' = freeBufs \cup {b} /\ SBBuffersInUse' = SBBuffersInUse - 1
      /\ buf' = [buf EXCEPT ![b] = 0]
  BY DEF PutBuf, AllocBufs
<1>2. AllocBufs' = AllocBufs \ {b}
  BY <1>1 DEF AllocBufs
<1>3. BufTypes' /\ \A c \in Bufs : c # b => buf'[c] = buf[c]
  BY <1>1 DEF TypeOK, BufTypes
<1>4. ASSUME NEW c \in AllocBufs \ {b}
      PROVE  buf'[c] = 1 \/ \E x \in Apps : pc'[x] = "owner" /\ loc'[x].buf = c
  <2>1. buf'[c] = buf[c]
    BY <1>3 DEF AllocBufs
  <2> QED
    BY <2>1 DEF CountsInv, OwnersKept
<1>5. SBBuffersInUse' = Cardinality(AllocBufs')
  <2>1. Cardinality(AllocBufs \ {b}) = Cardinality(AllocBufs) - 1
    BY BufsFinite, FS_RemoveElement
  <2> QED
    BY <2>1, <1>1, <1>2 DEF CountsInv
<1> QED
  BY <1>2, <1>3, <1>4, <1>5 DEF CountsInv

(* A buffer that is sent or queued has its use count.                      *)
LEMMA CountIsOne ==
  ASSUME TypeOK, UsersInv, PlacesInv, CountsInv
  PROVE  /\ \A t \in Tasks : Holds(t) => loc[t].buf \in AllocBufs /\ buf[loc[t].buf] = 1
         /\ \A i \in DOMAIN queue : queue[i] \in AllocBufs /\ buf[queue[i]] = 1
<1>1. \A x \in Apps : pc[x] = "owner" =>
        loc[x].desc \in AllocDescs /\ zcd[loc[x].desc].Buffer = loc[x].buf
  BY DEF PlacesInv
<1>2. ASSUME NEW t \in Tasks, Holds(t)
      PROVE  loc[t].buf \in AllocBufs /\ buf[loc[t].buf] = 1
  <2>1. loc[t].buf \in AllocBufs
    BY <1>2 DEF UsersInv
  <2>2. \A x \in Apps : pc[x] = "owner" => loc[x].buf # loc[t].buf
    BY <1>1, <1>2 DEF UsersInv
  <2> QED
    BY <2>1, <2>2 DEF CountsInv
<1>3. ASSUME NEW i \in DOMAIN queue
      PROVE  queue[i] \in AllocBufs /\ buf[queue[i]] = 1
  <2>1. queue[i] \in AllocBufs
    BY <1>3 DEF UsersInv
  <2>2. \A x \in Apps : pc[x] = "owner" => loc[x].buf # queue[i]
    BY <1>1, <1>3 DEF UsersInv
  <2> QED
    BY <2>1, <2>2 DEF CountsInv
<1> QED
  BY <1>2, <1>3

LEMMA TypesTogether ==
  ASSUME DescTypes', BufTypes', CountsInv', pc' \in [Tasks -> Places],
         loc' \in [Tasks -> Locals], queue' \in Seq(Bufs), held' \in [Apps -> SUBSET Handle]
  PROVE  TypeOK'
<1>1. SBBuffersInUse' = Cardinality(AllocBufs')
  BY DEF CountsInv
<1>2. (Cardinality(AllocBufs) \in 0 .. Cardinality(Bufs))'
  BY BufsFinite, PTL
<1>3. SBBuffersInUse' \in 0 .. Cardinality(Bufs)
  BY <1>1, <1>2
<1> QED
  BY <1>3 DEF TypeOK, DescTypes, BufTypes

-----------------------------------------------------------------------------
(* Steps that leave the list, the handles and the walk alone.              *)
Passes(x) ==
  /\ pc[x] \in {"idle", "put", "send", "dead"} /\ pc'[x] \in {"idle", "exited"}

Elsewhere ==
  /\ UNCHANGED <<ZeroCopyTail, zcd, freeDescs, held>>
  /\ pc'[ES] = pc[ES] /\ loc'[ES] = loc[ES]
  /\ \A x \in Apps : (pc'[x] = pc[x] /\ loc'[x] = loc[x]) \/ Passes(x)

LEMMA ListSame ==
  ASSUME TypeOK, LinksInv, UNCHANGED <<ZeroCopyTail, zcd, freeDescs>>
  PROVE  /\ AllocDescs' = AllocDescs /\ SameBuffers /\ LinksInv' /\ DescTypes'
         /\ \A r : Order(r) => Order(r)'
<1>1. AllocDescs' = AllocDescs /\ zcd' = zcd /\ ZeroCopyTail' = ZeroCopyTail
  BY DEF AllocDescs
<1>2. SameBuffers
  BY <1>1 DEF SameBuffers
<1>3. LinksInv'
  BY <1>1 DEF LinksInv
<1>4. DescTypes'
  BY DEF TypeOK, DescTypes
<1>5. ASSUME NEW r, Order(r) PROVE Order(r)'
  BY <1>1, <1>5 DEF Order
<1> QED
  BY <1>1, <1>2, <1>3, <1>4, <1>5

LEMMA ElsewhereStep ==
  ASSUME ZeroCopyInv, Elsewhere
  PROVE  /\ ListInv' /\ LinksInv' /\ PlacesInv' /\ HeldInv' /\ DeadAppsHoldNothing'
         /\ OwnersKept /\ DescTypes' /\ AllocDescs' = AllocDescs /\ SameBuffers
<1>1. TypeOK /\ ListInv /\ LinksInv /\ PlacesInv /\ HeldInv /\ DeadAppsHoldNothing
  BY DEF ZeroCopyInv
<1>2. AllocDescs' = AllocDescs /\ SameBuffers /\ LinksInv' /\ DescTypes'
      /\ \A r : Order(r) => Order(r)'
  BY <1>1, ListSame DEF Elsewhere
<1>3. zcd' = zcd /\ held' = held /\ pc'[ES] = pc[ES] /\ loc'[ES] = loc[ES]
  BY DEF Elsewhere
<1>4. \A x \in Apps : (pc'[x] = pc[x] /\ loc'[x] = loc[x]) \/ Passes(x)
  BY DEF Elsewhere
<1>5. OwnersKept
  BY <1>4 DEF OwnersKept, Passes
<1>6. \A x \in Apps : pc'[x] = "owner" => pc[x] = "owner" /\ loc'[x] = loc[x]
  BY <1>4 DEF Passes
<1>7. \A d : OwnerStage(d)' <=> OwnerStage(d)
  BY <1>5, <1>6 DEF OwnerStage, OwnersKept
<1>8. ListInv'
  <2>1. PICK r \in [Descs -> Nat] : Order(r) /\ Ahead(r)
    BY <1>1 DEF ListInv
  <2>2. Cursor' = Cursor /\ (Walking' <=> Walking)
    BY <1>3 DEF Cursor, Walking
  <2>3. Ahead(r)'
    BY <2>1, <2>2, <1>2, <1>3, <1>6, <1>7 DEF Ahead
  <2>4. Order(r)'
    BY <2>1, <1>2
  <2> QED
    BY <2>3, <2>4 DEF ListInv
<1>9. PlacesInv'
  <2>1. \A x \in Apps : pc[x] = "exited" => pc'[x] = "exited"
    BY <1>4 DEF Passes
  <2>2. \A x \in Apps : pc'[x] \notin {"walk", "release"}
    BY <1>1, <1>4 DEF Passes, PlacesInv
  <2>3. /\ pc'[ES] \in {"idle", "walk", "release", "put"}
        /\ Walking' => loc'[ES].app \in Apps /\ pc'[loc'[ES].app] = "exited"
        /\ pc'[ES] = "release" => /\ loc'[ES].desc \in AllocDescs'
                                  /\ zcd'[loc'[ES].desc].Buffer = loc'[ES].buf
                                  /\ zcd'[loc'[ES].desc].AppID = loc'[ES].app
                                  /\ zcd'[loc'[ES].desc].Prev = loc'[ES].prev
    BY <2>1, <1>1, <1>2, <1>3 DEF PlacesInv, Walking
  <2>4. \A x \in Apps : pc'[x] = "owner" =>
          loc'[x].desc \in AllocDescs' /\ zcd'[loc'[x].desc].Buffer = loc'[x].buf
    BY <1>1, <1>2, <1>3, <1>6 DEF PlacesInv
  <2>5. \A x, y \in Apps :
          pc'[x] = "owner" /\ pc'[y] = "owner" /\ loc'[x].desc = loc'[y].desc => x = y
    BY <1>1, <1>6 DEF PlacesInv
  <2> QED
    BY <2>2, <2>3, <2>4, <2>5 DEF PlacesInv
<1>10. HeldInv'
  <2> SUFFICES ASSUME NEW a \in Apps, NEW h \in held[a], pc'[a] # "exited"
               PROVE  /\ pc'[a] # "dead" /\ h[1] \in AllocDescs /\ zcd[h[1]].Buffer = h[2]
                      /\ zcd[h[1]].AppID = a /\ ~OwnerStage(h[1])
    BY <1>2, <1>3, <1>7 DEF HeldInv, MayRelease
  <2>1. pc[a] # "exited"
    BY <1>4 DEF Passes
  <2>2. /\ pc[a] # "dead" /\ h[1] \in AllocDescs /\ zcd[h[1]].Buffer = h[2]
        /\ zcd[h[1]].AppID = a /\ ~OwnerStage(h[1])
    BY <2>1, <1>1 DEF HeldInv, MayRelease
  <2> QED
    BY <2>2, <1>4 DEF Passes
<1>11. DeadAppsHoldNothing'
  <2> SUFFICES ASSUME NEW a \in Apps, pc'[a] = "dead", NEW d \in AllocDescs, zcd[d].AppID = a
               PROVE  \E x \in Apps : pc'[x] = "owner" /\ loc'[x].desc = d
    BY <1>2, <1>3 DEF DeadAppsHoldNothing
  <2>1. pc[a] = "dead"
    BY <1>4 DEF Passes
  <2> QED
    BY <2>1, <1>1, <1>5 DEF DeadAppsHoldNothing, OwnersKept
<1> QED
  BY <1>2, <1>5, <1>8, <1>9, <1>10, <1>11

(* Task a of an application leaves a place for idle; nobody else moves.    *)
LEMMA BackToIdle ==
  ASSUME TypeOK, NEW a \in Apps, Goto(a, "idle", NoLoc)
  PROVE  /\ pc' \in [Tasks -> Places] /\ loc' \in [Tasks -> Locals]
         /\ pc'[a] = "idle" /\ ~Holds(a)'
         /\ \A u \in Tasks : u # a => pc'[u] = pc[u] /\ loc'[u] = loc[u]
         /\ \A u \in Tasks : u # a => Idles(u)
<1>1. Moved(a, "idle", NoLoc)
  BY GotoMoves, LocalsOK, ConstantsOK DEF Places
<1> QED
  BY <1>1 DEF Moved, Holds, Idles

LEMMA IdleElsewhere ==
  ASSUME TypeOK, NEW a \in Apps, pc[a] \in {"put", "send"}, Goto(a, "idle", NoLoc),
         UNCHANGED <<ZeroCopyTail, zcd, freeDescs, held>>
  PROVE  Elsewhere
<1>1. a \in Tasks /\ ES \in Tasks /\ a # ES /\ Apps \subseteq Tasks
  BY ConstantsOK
<1>2. pc'[a] = "idle" /\ \A u \in Tasks : u # a => pc'[u] = pc[u] /\ loc'[u] = loc[u]
  BY BackToIdle
<1>3. Passes(a)
  BY <1>2 DEF Passes
<1> QED
  BY <1>1, <1>2, <1>3 DEF Elsewhere

LEMMA StepReleasePut ==
  ASSUME ZeroCopyInv, NEW a \in Apps, ReleasePut(a)
  PROVE  ZeroCopyInv'
<1>1. TypeOK /\ UsersInv /\ CountsInv /\ PlacesInv
  BY DEF ZeroCopyInv
<1>2. pc[a] = "put" /\ PutBuf(loc[a].buf) /\ Goto(a, "idle", NoLoc) /\ queue' = queue
      /\ held' = held /\ UNCHANGED <<ZeroCopyTail, zcd, freeDescs, held>> /\ Holds(a)
  BY DEF ReleasePut, Holds
<1>3. Elsewhere
  BY <1>1, <1>2, IdleElsewhere
<1>4. ListInv' /\ LinksInv' /\ PlacesInv' /\ HeldInv' /\ DeadAppsHoldNothing'
      /\ OwnersKept /\ DescTypes' /\ AllocDescs' = AllocDescs /\ SameBuffers
  BY <1>3, ElsewhereStep
<1>5. pc' \in [Tasks -> Places] /\ loc' \in [Tasks -> Locals] /\ ~Holds(a)'
      /\ \A u \in Tasks : u # a => Idles(u)
  BY <1>1, <1>2, BackToIdle
<1>6. a \in Tasks /\ loc[a].buf \in AllocBufs
  BY <1>1, <1>2, ConstantsOK DEF UsersInv
<1>7. CountsInv' /\ BufTypes' /\ AllocBufs' = AllocBufs \ {loc[a].buf}
  BY <1>1, <1>2, <1>4, <1>6, BufFreed
<1>8. UsersInv'
  BY <1>1, <1>2, <1>4, <1>5, <1>6, <1>7, UsersTaskEnds
<1>9. TypeOK'
  <2>1. queue' \in Seq(Bufs) /\ held' \in [Apps -> SUBSET Handle]
    BY <1>1, <1>2 DEF TypeOK
  <2> QED
    BY <2>1, <1>4, <1>5, <1>7, TypesTogether
<1> QED
  BY <1>4, <1>7, <1>8, <1>9 DEF ZeroCopyInv

LEMMA StepSendMsgFull ==
  ASSUME ZeroCopyInv, NEW a \in Apps, SendMsgFull(a)
  PROVE  ZeroCopyInv'
<1>1. TypeOK /\ UsersInv /\ CountsInv /\ PlacesInv
  BY DEF ZeroCopyInv
<1>2. pc[a] = "send" /\ Goto(a, "idle", NoLoc)
      /\ held' = held /\ UNCHANGED <<ZeroCopyTail, zcd, freeDescs, held>> /\ Holds(a)
  BY DEF SendMsgFull, Holds
<1>3. Elsewhere
  BY <1>1, <1>2, IdleElsewhere
<1>4. ListInv' /\ LinksInv' /\ PlacesInv' /\ HeldInv' /\ DeadAppsHoldNothing'
      /\ OwnersKept /\ DescTypes' /\ AllocDescs' = AllocDescs /\ SameBuffers
  BY <1>3, ElsewhereStep
<1>5. pc' \in [Tasks -> Places] /\ loc' \in [Tasks -> Locals] /\ ~Holds(a)'
      /\ \A u \in Tasks : u # a => Idles(u)
  BY <1>1, <1>2, BackToIdle
<1>6. a \in Tasks /\ loc[a].buf \in AllocBufs /\ buf[loc[a].buf] = 1
  BY <1>1, <1>2, ConstantsOK, CountIsOne
<1>7. held' \in [Apps -> SUBSET Handle] /\ loc[a].buf \in Bufs
  BY <1>1, <1>2, <1>6 DEF TypeOK, AllocBufs
<1>8. CASE queue' = Append(queue, loc[a].buf) /\ UNCHANGED <<buf, freeBufs, SBBuffersInUse>>
  <2>1. CountsInv' /\ BufTypes' /\ AllocBufs' = AllocBufs
    BY <1>1, <1>4, <1>8, BufKept
  <2>2. UsersInv'
    BY <2>1, <1>1, <1>2, <1>4, <1>5, <1>6, <1>8, UsersToQueue
  <2>3. queue' \in Seq(Bufs)
    BY <1>1, <1>7, <1>8 DEF TypeOK
  <2>4. TypeOK'
    BY <2>1, <2>3, <1>4, <1>5, <1>7, TypesTogether
  <2> QED
    BY <2>1, <2>2, <2>4, <1>4 DEF ZeroCopyInv
<1>9. CASE DecrBufUseCnt(loc[a].buf) /\ UNCHANGED queue
  <2>1. PutBuf(loc[a].buf)
    BY <1>6, <1>9 DEF DecrBufUseCnt
  <2>2. CountsInv' /\ BufTypes' /\ AllocBufs' = AllocBufs \ {loc[a].buf}
    BY <2>1, <1>1, <1>4, <1>6, BufFreed
  <2>3. UsersInv'
    BY <2>2, <1>1, <1>2, <1>4, <1>5, <1>6, <1>9, UsersTaskEnds
  <2>4. queue' \in Seq(Bufs)
    BY <1>1, <1>9 DEF TypeOK
  <2>5. TypeOK'
    BY <2>2, <2>4, <1>4, <1>5, <1>7, TypesTogether
  <2> QED
    BY <2>2, <2>3, <2>5, <1>4 DEF ZeroCopyInv
<1> QED
  BY <1>8, <1>9 DEF SendMsgFull

LEMMA StepReceived ==
  ASSUME ZeroCopyInv, Received
  PROVE  ZeroCopyInv'
<1>1. TypeOK /\ UsersInv /\ CountsInv /\ PlacesInv
  BY DEF ZeroCopyInv
<1>2. queue # <<>> /\ queue' = Tail(queue) /\ DecrBufUseCnt(Head(queue)) /\ pc' = pc
      /\ loc' = loc /\ held' = held /\ UNCHANGED <<ZeroCopyTail, zcd, freeDescs, held>>
  BY DEF Received
<1>3. Elsewhere
  BY <1>2 DEF Elsewhere
<1>4. ListInv' /\ LinksInv' /\ PlacesInv' /\ HeldInv' /\ DeadAppsHoldNothing'
      /\ OwnersKept /\ DescTypes' /\ AllocDescs' = AllocDescs /\ SameBuffers
  BY <1>3, ElsewhereStep
<1>5. Head(queue) = queue[1] /\ 1 \in DOMAIN queue /\ queue' \in Seq(Bufs)
  BY <1>1, <1>2 DEF TypeOK
<1>6. Head(queue) \in AllocBufs /\ buf[Head(queue)] = 1
  BY <1>1, <1>5, CountIsOne
<1>7. PutBuf(Head(queue))
  BY <1>2, <1>6 DEF DecrBufUseCnt
<1>8. CountsInv' /\ BufTypes' /\ AllocBufs' = AllocBufs \ {Head(queue)}
  BY <1>1, <1>4, <1>6, <1>7, BufFreed
<1>9. UsersInv'
  BY <1>1, <1>2, <1>4, <1>8, UsersQueueEnds
<1>10. TypeOK'
  <2>1. pc' \in [Tasks -> Places] /\ loc' \in [Tasks -> Locals]
        /\ held' \in [Apps -> SUBSET Handle]
    BY <1>1, <1>2 DEF TypeOK
  <2> QED
    BY <2>1, <1>4, <1>5, <1>8, TypesTogether
<1> QED
  BY <1>4, <1>8, <1>9, <1>10 DEF ZeroCopyInv

(* An application's task ends, or starts again: nothing else moves.        *)
LEMMA StepExitOrStart ==
  ASSUME ZeroCopyInv, NEW a \in Apps, ExitApp(a) \/ StartApp(a)
  PROVE  ZeroCopyInv'
<1>1. TypeOK /\ UsersInv /\ CountsInv /\ PlacesInv
  BY DEF ZeroCopyInv
<1>2. PICK there \in {"exited", "idle"} : pc' = [pc EXCEPT ![a] = there]
  BY DEF ExitApp, StartApp
<1>3. pc[a] \in {"idle", "dead"} /\ loc' = loc /\ queue' = queue /\ held' = held
      /\ UNCHANGED <<ZeroCopyTail, zcd, freeDescs, held>>
      /\ UNCHANGED <<buf, freeBufs, SBBuffersInUse>>
  BY DEF ExitApp, StartApp, pool
<1>4. a \in Tasks /\ ES \in Tasks /\ a # ES /\ Apps \subseteq Tasks
  BY ConstantsOK
<1>5. pc'[a] = there /\ \A u \in Tasks : u # a => pc'[u] = pc[u] /\ loc'[u] = loc[u]
  BY <1>1, <1>2, <1>3, <1>4 DEF TypeOK
<1>6. Elsewhere
  <2>1. Passes(a)
    BY <1>3, <1>5 DEF Passes
  <2> QED
    BY <2>1, <1>3, <1>4, <1>5 DEF Elsewhere
<1>7. ListInv' /\ LinksInv' /\ PlacesInv' /\ HeldInv' /\ DeadAppsHoldNothing'
      /\ OwnersKept /\ DescTypes' /\ AllocDescs' = AllocDescs /\ SameBuffers
  BY <1>6, ElsewhereStep
<1>8. CountsInv' /\ BufTypes' /\ AllocBufs' = AllocBufs
  BY <1>1, <1>3, <1>7, BufKept
<1>9. \A u \in Tasks : Idles(u)
  BY <1>3, <1>5 DEF Idles, Holds
<1>10. UsersInv'
  BY <1>1, <1>3, <1>7, <1>8, <1>9, UsersKept
<1>11. TypeOK'
  <2>1. pc' \in [Tasks -> Places]
    BY <1>1, <1>2 DEF TypeOK, Places
  <2>2. loc' \in [Tasks -> Locals] /\ queue' \in Seq(Bufs) /\ held' \in [Apps -> SUBSET Handle]
    BY <1>1, <1>3 DEF TypeOK
  <2> QED
    BY <2>1, <2>2, <1>7, <1>8, TypesTogether
<1> QED
  BY <1>7, <1>8, <1>10, <1>11 DEF ZeroCopyInv

-----------------------------------------------------------------------------
(* Getting a buffer.                                                       *)
LEMMA StepGetPtr ==
  ASSUME ZeroCopyInv, NEW a \in Apps, GetPtr(a)
  PROVE  ZeroCopyInv'
<1>1. TypeOK /\ ListInv /\ LinksInv /\ PlacesInv /\ HeldInv /\ UsersInv /\ CountsInv
      /\ DeadAppsHoldNothing
  BY DEF ZeroCopyInv
<1>2. PICK b \in freeBufs : LET d == Head(freeDescs) IN
        /\ freeDescs' = Tail(freeDescs) /\ freeBufs' = freeBufs \ {b}
        /\ zcd' = Linked(d, b)
        /\ ZeroCopyTail' = d
        /\ Goto(a, "owner", [NoLoc EXCEPT !.desc = d, !.buf = b])
  BY DEF GetPtr
<1>3. PICK d : d = Head(freeDescs)
  OBVIOUS
<1>4. pc[a] = "idle" /\ SBBuffersInUse' = SBBuffersInUse + 1 /\ buf' = buf /\ queue' = queue
      /\ held' = held /\ freeDescs # <<>>
  BY DEF GetPtr
<1>5. b \in Bufs /\ freeBufs' = freeBufs \ {b}
  BY <1>1, <1>2 DEF TypeOK
<1>6. Comes(d, b) /\ DescTypes'
  BY <1>1, <1>2, <1>3, <1>4, <1>5, LinkFacts
<1>7. /\ d \in Descs /\ d \notin AllocDescs /\ AllocDescs' = AllocDescs \cup {d}
      /\ zcd'[d].Buffer = b /\ AllocDescs \subseteq Descs /\ NULL \notin Descs
      /\ \A x \in AllocDescs : /\ zcd'[x].Prev = zcd[x].Prev /\ zcd'[x].AppID = zcd[x].AppID
                               /\ zcd'[x].Buffer = zcd[x].Buffer
  BY <1>1, <1>6, TypeParts, ConstantsOK DEF Comes
<1> DEFINE l == [NoLoc EXCEPT !.desc = d, !.buf = b]
<1>8. l \in Locals /\ l.desc = d /\ l.buf = b
  BY <1>5, <1>7, LocalsOK
<1>9. Goto(a, "owner", l)
  BY <1>2, <1>3
<1> HIDE DEF l
<1>10. a \in Tasks /\ ES \in Tasks /\ a # ES /\ Apps \subseteq Tasks
  BY ConstantsOK
<1>11. /\ pc' \in [Tasks -> Places] /\ loc' \in [Tasks -> Locals]
       /\ pc'[a] = "owner" /\ loc'[a].desc = d /\ loc'[a].buf = b
       /\ \A u \in Tasks : u # a => pc'[u] = pc[u] /\ loc'[u] = loc[u]
  <2>1. Moved(a, "owner", l)
    BY <1>1, <1>8, <1>9, <1>10, GotoMoves DEF Places
  <2> QED
    BY <2>1, <1>8 DEF Moved
<1>12. OwnersKept
  BY <1>4, <1>10, <1>11 DEF OwnersKept
<1>13. \A u \in Tasks : Idles(u)
  BY <1>4, <1>11 DEF Idles, Holds
<1>14. AllocBufs' = AllocBufs \cup {b} /\ b \in Bufs \ AllocBufs
  BY <1>2, <1>5 DEF AllocBufs
<1>15. UsersInv'
  BY <1>1, <1>4, <1>6, <1>13, <1>14, UsersComes
<1>16. CountsInv'
  <2>1. ASSUME NEW c \in AllocBufs'
        PROVE  buf'[c] = 1 \/ \E x \in Apps : pc'[x] = "owner" /\ loc'[x].buf = c
    <3>1. CASE c = b
      BY <3>1, <1>11
    <3>2. CASE c \in AllocBufs
      BY <3>2, <1>1, <1>4, <1>12 DEF CountsInv, OwnersKept
    <3> QED
      BY <3>1, <3>2, <1>14
  <2>2. Cardinality(AllocBufs \cup {b}) = Cardinality(AllocBufs) + 1
    BY <1>14, BufsFinite, FS_AddElement
  <2>3. SBBuffersInUse' = Cardinality(AllocBufs')
    BY <2>2, <1>1, <1>4, <1>14 DEF CountsInv
  <2> QED
    BY <2>1, <2>3 DEF CountsInv
<1>17. TypeOK'
  <2>1. queue' \in Seq(Bufs) /\ held' \in [Apps -> SUBSET Handle] /\ BufTypes'
    BY <1>1, <1>4, <1>5 DEF TypeOK, BufTypes
  <2> QED
    BY <2>1, <1>6, <1>11, <1>16, TypesTogether
<1>18. \A e \in AllocDescs : OwnerStage(e)' <=> OwnerStage(e)
  BY <1>4, <1>7, <1>10, <1>11 DEF OwnerStage
<1>19. OwnerStage(d)'
  BY <1>11 DEF OwnerStage
<1>20. PICK r \in [Descs -> Nat] : Order(r) /\ Ahead(r)
  BY <1>1 DEF ListInv
<1>21. LinksInv'
  BY <1>1, <1>6, <1>20, LinksComes
<1>22. PICK q \in [Descs -> Nat] :
         Order(q)' /\ \A x \in AllocDescs : q[x] = r[x] /\ q[x] < q[d]
  BY <1>1, <1>6, <1>20, OrderComes
<1>23. Ahead(q)'
  <2>1. Cursor' = Cursor /\ (Walking' <=> Walking) /\ loc'[ES] = loc[ES]
    BY <1>10, <1>11 DEF Cursor, Walking
  <2> SUFFICES ASSUME Walking
               PROVE  /\ Cursor # NULL => /\ Cursor \in AllocDescs'
                                          /\ \A x \in Apps : pc'[x] = "owner" =>
                                               q[Cursor] < q[loc'[x].desc]
                      /\ \A e \in AllocDescs' :
                           zcd'[e].AppID = loc[ES].app /\ ~OwnerStage(e)' =>
                             Cursor # NULL /\ q[e] <= q[Cursor]
    BY <2>1 DEF Ahead
  <2>2. Cursor # NULL => Cursor \in AllocDescs
    BY <1>20 DEF Ahead
  <2>3. ASSUME Cursor # NULL, NEW x \in Apps, pc'[x] = "owner"
        PROVE  q[Cursor] < q[loc'[x].desc]
    <3>1. CASE x = a
      BY <3>1, <2>2, <2>3, <1>11, <1>22
    <3>2. CASE x # a
      <4>1. pc[x] = "owner" /\ loc'[x] = loc[x]
        BY <3>2, <2>3, <1>10, <1>11
      <4>2. loc[x].desc \in AllocDescs /\ r[Cursor] < r[loc[x].desc]
        BY <4>1, <2>3, <1>1, <1>20 DEF Ahead, PlacesInv
      <4> QED
        BY <4>1, <4>2, <2>2, <2>3, <1>22
    <3> QED
      BY <3>1, <3>2
  <2>4. ASSUME NEW e \in AllocDescs', zcd'[e].AppID = loc[ES].app, ~OwnerStage(e)'
        PROVE  Cursor # NULL /\ q[e] <= q[Cursor]
    <3>1. e \in AllocDescs
      BY <2>4, <1>7, <1>19
    <3>2. zcd[e].AppID = loc[ES].app /\ ~OwnerStage(e)
      BY <3>1, <2>4, <1>7, <1>18
    <3>3. Cursor # NULL /\ r[e] <= r[Cursor]
      BY <3>1, <3>2, <1>20 DEF Ahead
    <3> QED
      BY <3>1, <3>3, <2>2, <1>22
  <2> QED
    BY <2>2, <2>3, <2>4, <1>7
<1>24. ListInv'
  BY <1>22, <1>23 DEF ListInv
<1>25. PlacesInv'
  <2>1. pc'[ES] = pc[ES] /\ loc'[ES] = loc[ES]
        /\ \A x \in Apps : x # a => pc'[x] = pc[x] /\ loc'[x] = loc[x]
    BY <1>10, <1>11
  <2>2. pc'[ES] \in {"idle", "walk", "release", "put"}
        /\ \A x \in Apps : pc'[x] \notin {"walk", "release"}
    BY <2>1, <1>1, <1>11 DEF PlacesInv
  <2>3. \A x \in Apps : pc'[x] = "owner" =>
          loc'[x].desc \in AllocDescs' /\ zcd'[loc'[x].desc].Buffer = loc'[x].buf
    BY <2>1, <1>1, <1>7, <1>11 DEF PlacesInv
  <2>4. \A x, y \in Apps :
          pc'[x] = "owner" /\ pc'[y] = "owner" /\ loc'[x].desc = loc'[y].desc => x = y
    BY <2>1, <1>1, <1>7, <1>11 DEF PlacesInv
  <2>5. Walking' => loc'[ES].app \in Apps /\ pc'[loc'[ES].app] = "exited"
    BY <2>1, <1>1, <1>4 DEF PlacesInv, Walking
  <2>6. pc'[ES] = "release" => /\ loc'[ES].desc \in AllocDescs'
                               /\ zcd'[loc'[ES].desc].Buffer = loc'[ES].buf
                               /\ zcd'[loc'[ES].desc].AppID = loc'[ES].app
                               /\ zcd'[loc'[ES].desc].Prev = loc'[ES].prev
    BY <2>1, <1>1, <1>7 DEF PlacesInv
  <2> QED
    BY <2>2, <2>3, <2>4, <2>5, <2>6 DEF PlacesInv
<1>26. HeldInv'
  <2> SUFFICES ASSUME NEW x \in Apps, NEW h \in held[x], pc'[x] # "exited"
               PROVE  /\ pc'[x] # "dead" /\ h[1] \in AllocDescs' /\ zcd'[h[1]].Buffer = h[2]
                      /\ zcd'[h[1]].AppID = x /\ ~OwnerStage(h[1])'
    BY <1>4 DEF HeldInv, MayRelease
  <2>1. pc[x] # "exited" /\ (pc[x] # "dead" => pc'[x] # "dead")
    BY <1>4, <1>10, <1>11
  <2>2. /\ pc[x] # "dead" /\ h[1] \in AllocDescs /\ zcd[h[1]].Buffer = h[2]
        /\ zcd[h[1]].AppID = x /\ ~OwnerStage(h[1])
    BY <2>1, <1>1 DEF HeldInv, MayRelease
  <2> QED
    BY <2>1, <2>2, <1>7, <1>18
<1>27. DeadAppsHoldNothing'
  <2> SUFFICES ASSUME NEW x \in Apps, pc'[x] = "dead", NEW e \in AllocDescs', zcd'[e].AppID = x
               PROVE  \E y \in Apps : pc'[y] = "owner" /\ loc'[y].desc = e
    BY DEF DeadAppsHoldNothing
  <2>1. CASE e = d
    BY <2>1, <1>11
  <2>2. CASE e \in AllocDescs
    <3>1. pc[x] = "dead" /\ zcd[e].AppID = x
      BY <2>2, <1>7, <1>10, <1>11
    <3> QED
      BY <3>1, <2>2, <1>1, <1>12 DEF DeadAppsHoldNothing, OwnersKept
  <2> QED
    BY <2>1, <2>2, <1>7
<1> QED
  BY <1>15, <1>16, <1>17, <1>21, <1>24, <1>25, <1>26, <1>27 DEF ZeroCopyInv

LEMMA StepGetPtrOwner ==
  ASSUME ZeroCopyInv, NEW a \in Apps, GetPtrOwner(a)
  PROVE  ZeroCopyInv'
<1>1. TypeOK /\ ListInv /\ LinksInv /\ PlacesInv /\ HeldInv /\ UsersInv /\ CountsInv
      /\ DeadAppsHoldNothing
  BY DEF ZeroCopyInv
<1>2. PICK d : d = loc[a].desc
  OBVIOUS
<1>3. PICK b : b = loc[a].buf
  OBVIOUS
<1>4. /\ pc[a] = "owner" /\ zcd' = [zcd EXCEPT ![d].AppID = a] /\ buf' = [buf EXCEPT ![b] = 1]
      /\ held' = [held EXCEPT ![a] = held[a] \cup {<<d, b>>}] /\ Goto(a, "idle", NoLoc)
      /\ ZeroCopyTail' = ZeroCopyTail /\ freeDescs' = freeDescs /\ freeBufs' = freeBufs
      /\ SBBuffersInUse' = SBBuffersInUse /\ queue' = queue
  BY <1>2, <1>3 DEF GetPtrOwner, pool
<1>5. d \in AllocDescs /\ d \in Descs /\ zcd[d].Buffer = b /\ AllocDescs \subseteq Descs
      /\ AllocDescs' = AllocDescs /\ AllocBufs' = AllocBufs
  BY <1>1, <1>2, <1>3, <1>4 DEF PlacesInv, AllocDescs, AllocBufs
<1>6. b \in AllocBufs /\ b \in Bufs
  BY <1>1, <1>5 DEF UsersInv, AllocBufs
<1>7. a \in Tasks /\ ES \in Tasks /\ a # ES /\ Apps \subseteq Tasks
  BY ConstantsOK
<1>8. /\ pc' \in [Tasks -> Places] /\ loc' \in [Tasks -> Locals] /\ pc'[a] = "idle"
      /\ \A u \in Tasks : u # a => pc'[u] = pc[u] /\ loc'[u] = loc[u]
      /\ pc'[ES] = pc[ES] /\ loc'[ES] = loc[ES]
  BY <1>1, <1>4, <1>7, BackToIdle
<1>9. zcd' \in [Descs -> ZeroCopyD] /\ zcd'[d].AppID = a
      /\ \A x \in Descs : /\ zcd'[x].Prev = zcd[x].Prev /\ zcd'[x].Next = zcd[x].Next
                          /\ zcd'[x].Buffer = zcd[x].Buffer
                          /\ x # d => zcd'[x].AppID = zcd[x].AppID
  <2> DEFINE n == [zcd[d] EXCEPT !.AppID = a]
  <2>1. zcd[d] \in ZeroCopyD
    BY <1>1, <1>5, TypeParts
  <2>2. n \in ZeroCopyD /\ n.AppID = a /\ n.Prev = zcd[d].Prev /\ n.Next = zcd[d].Next
        /\ n.Buffer = zcd[d].Buffer
    BY <2>1 DEF ZeroCopyD
  <2>3. zcd' = [zcd EXCEPT ![d] = n]
    BY <1>4
  <2> HIDE DEF n
  <2> QED
    BY <2>2, <2>3, <1>1, <1>5 DEF TypeOK
<1>10. \A x \in Apps : x # a /\ pc[x] = "owner" => loc[x].desc # d
  BY <1>1, <1>2, <1>4 DEF PlacesInv
<1>11. \A x \in Apps : pc'[x] = "owner" => x # a /\ pc[x] = "owner" /\ loc'[x] = loc[x]
  BY <1>7, <1>8
<1>12. \A e : e # d => (OwnerStage(e)' <=> OwnerStage(e))
  BY <1>2, <1>7, <1>8, <1>11 DEF OwnerStage
<1>13. ~OwnerStage(d)' /\ OwnerStage(d)
  BY <1>2, <1>4, <1>10, <1>11 DEF OwnerStage
<1>14. PICK r \in [Descs -> Nat] : Order(r) /\ Ahead(r)
  BY <1>1 DEF ListInv
<1>15. Order(r)'
  BY <1>4, <1>5, <1>9, <1>14 DEF Order
<1>16. Walking => loc[ES].app # a
  BY <1>1, <1>4 DEF PlacesInv
<1>17. Ahead(r)'
  <2>1. Cursor' = Cursor /\ (Walking' <=> Walking)
    BY <1>8 DEF Cursor, Walking
  <2> SUFFICES ASSUME Walking
               PROVE  /\ Cursor # NULL => /\ Cursor \in AllocDescs'
                                          /\ \A x \in Apps : pc'[x] = "owner" =>
                                               r[Cursor] < r[loc'[x].desc]
                      /\ \A e \in AllocDescs' :
                           zcd'[e].AppID = loc[ES].app /\ ~OwnerStage(e)' =>
                             Cursor # NULL /\ r[e] <= r[Cursor]
    BY <2>1, <1>8 DEF Ahead
  <2>2. Cursor # NULL => /\ Cursor \in AllocDescs'
                         /\ \A x \in Apps : pc'[x] = "owner" => r[Cursor] < r[loc'[x].desc]
    BY <1>5, <1>11, <1>14 DEF Ahead
  <2>3. ASSUME NEW e \in AllocDescs', zcd'[e].AppID = loc[ES].app, ~OwnerStage(e)'
        PROVE  Cursor # NULL /\ r[e] <= r[Cursor]
    <3>1. e # d
      BY <2>3, <1>9, <1>16
    <3>2. e \in AllocDescs /\ zcd[e].AppID = loc[ES].app /\ ~OwnerStage(e)
      BY <3>1, <2>3, <1>5, <1>9, <1>12
    <3> QED
      BY <3>2, <1>14 DEF Ahead
  <2> QED
    BY <2>2, <2>3
<1>18. ListInv'
  BY <1>15, <1>17 DEF ListInv
<1>19. LinksInv'
  <2>1. \A e \in AllocDescs : zcd[e].Prev # NULL => zcd[e].Prev \in AllocDescs
    BY <1>14 DEF Order
  <2> SUFFICES ASSUME NEW e \in AllocDescs
               PROVE  /\ zcd'[e].Next = NULL <=> e = ZeroCopyTail
                      /\ zcd'[e].Next # NULL => /\ zcd'[e].Next \in AllocDescs
                                                /\ zcd'[zcd'[e].Next].Prev = e
                      /\ zcd'[e].Prev # NULL => zcd'[zcd'[e].Prev].Next = e
    BY <1>4, <1>5 DEF LinksInv
  <2> QED
    BY <2>1, <1>1, <1>5, <1>9 DEF LinksInv
<1>20. PlacesInv'
  <2>1. pc'[ES] \in {"idle", "walk", "release", "put"}
        /\ \A x \in Apps : pc'[x] \notin {"walk", "release"}
    BY <1>1, <1>7, <1>8 DEF PlacesInv
  <2>2. \A x \in Apps : pc'[x] = "owner" =>
          loc'[x].desc \in AllocDescs' /\ zcd'[loc'[x].desc].Buffer = loc'[x].buf
    BY <1>1, <1>5, <1>9, <1>11 DEF PlacesInv
  <2>3. \A x, y \in Apps :
          pc'[x] = "owner" /\ pc'[y] = "owner" /\ loc'[x].desc = loc'[y].desc => x = y
    BY <1>1, <1>11 DEF PlacesInv
  <2>4. Walking' => loc'[ES].app \in Apps /\ pc'[loc'[ES].app] = "exited"
    BY <1>1, <1>7, <1>8, <1>16 DEF PlacesInv, Walking
  <2>5. ASSUME pc'[ES] = "release"
        PROVE  /\ loc'[ES].desc \in AllocDescs'
               /\ zcd'[loc'[ES].desc].Buffer = loc'[ES].buf
               /\ zcd'[loc'[ES].desc].AppID = loc'[ES].app
               /\ zcd'[loc'[ES].desc].Prev = loc'[ES].prev
    <3>1. pc[ES] = "release" /\ Walking /\ Cursor = loc[ES].desc
      BY <2>5, <1>8 DEF Walking, Cursor
    <3>2. /\ loc[ES].desc \in AllocDescs /\ zcd[loc[ES].desc].Buffer = loc[ES].buf
          /\ zcd[loc[ES].desc].AppID = loc[ES].app /\ zcd[loc[ES].desc].Prev = loc[ES].prev
      BY <3>1, <1>1 DEF PlacesInv
    <3>3. loc[ES].desc # NULL
      BY <3>2, <1>5, ConstantsOK
    <3>4. r[loc[ES].desc] < r[d]
      BY <3>1, <3>3, <1>2, <1>4, <1>14 DEF Ahead
    <3>5. loc[ES].desc # d
      BY <3>4, <1>5
    <3> QED
      BY <3>2, <3>5, <1>5, <1>8, <1>9
  <2> QED
    BY <2>1, <2>2, <2>3, <2>4, <2>5 DEF PlacesInv
<1>21. held' \in [Apps -> SUBSET Handle] /\ held'[a] = held[a] \cup {<<d, b>>}
       /\ \A x \in Apps : x # a => held'[x] = held[x]
  <2>1. <<d, b>> \in Handle
    BY <1>5, <1>6 DEF Handle
  <2> QED
    BY <2>1, <1>1, <1>4 DEF TypeOK
<1>22. HeldInv'
  <2> SUFFICES ASSUME NEW x \in Apps, NEW h \in held'[x], pc'[x] # "exited"
               PROVE  /\ pc'[x] # "dead" /\ h[1] \in AllocDescs /\ zcd'[h[1]].Buffer = h[2]
                      /\ zcd'[h[1]].AppID = x /\ ~OwnerStage(h[1])'
    BY <1>5 DEF HeldInv, MayRelease
  <2>1. CASE x = a /\ h = <<d, b>>
    <3>1. h[1] = d /\ h[2] = b
      BY <2>1
    <3> QED
      BY <3>1, <2>1, <1>5, <1>8, <1>9, <1>13
  <2>2. CASE h \in held[x]
    <3>1. pc[x] # "exited" /\ (pc[x] # "dead" => pc'[x] # "dead")
      BY <1>4, <1>7, <1>8
    <3>2. /\ pc[x] # "dead" /\ h[1] \in AllocDescs /\ zcd[h[1]].Buffer = h[2]
          /\ zcd[h[1]].AppID = x /\ ~OwnerStage(h[1])
      BY <3>1, <2>2, <1>1 DEF HeldInv, MayRelease
    <3>3. h[1] # d
      BY <3>2, <1>13
    <3> QED
      BY <3>1, <3>2, <3>3, <1>5, <1>9, <1>12
  <2> QED
    BY <2>1, <2>2, <1>21
<1>23. UsersInv'
  <2>1. SameBuffers
    BY <1>5, <1>9 DEF SameBuffers
  <2>2. \A u \in Tasks : Idles(u)
    BY <1>4, <1>8 DEF Idles, Holds
  <2> QED
    BY <2>1, <2>2, <1>1, <1>4, <1>5, UsersKept
<1>24. buf' \in [Bufs -> 0 .. 1] /\ buf'[b] = 1 /\ \A c \in Bufs : c # b => buf'[c] = buf[c]
  BY <1>1, <1>4, <1>6 DEF TypeOK
<1>25. CountsInv'
  <2>1. ASSUME NEW c \in AllocBufs
        PROVE  buf'[c] = 1 \/ \E x \in Apps : pc'[x] = "owner" /\ loc'[x].buf = c
    <3>1. CASE c = b
      BY <3>1, <1>24
    <3>2. CASE c # b
      <4>1. buf'[c] = buf[c]
        BY <3>2, <1>24 DEF AllocBufs
      <4>2. \A x \in Apps : pc[x] = "owner" /\ loc[x].buf = c =>
              pc'[x] = "owner" /\ loc'[x].buf = c
        BY <3>2, <1>3, <1>7, <1>8
      <4> QED
        BY <4>1, <4>2, <1>1 DEF CountsInv
    <3> QED
      BY <3>1, <3>2
  <2> QED
    BY <2>1, <1>1, <1>4, <1>5 DEF CountsInv
<1>26. TypeOK'
  <2>1. DescTypes' /\ BufTypes' /\ queue' \in Seq(Bufs)
    BY <1>1, <1>4, <1>9, <1>24 DEF DescTypes, BufTypes, TypeOK
  <2> QED
    BY <2>1, <1>8, <1>21, <1>25, TypesTogether
<1>27. DeadAppsHoldNothing'
  <2> SUFFICES ASSUME NEW x \in Apps, pc'[x] = "dead", NEW e \in AllocDescs, zcd'[e].AppID = x
               PROVE  \E y \in Apps : pc'[y] = "owner" /\ loc'[y].desc = e
    BY <1>5 DEF DeadAppsHoldNothing
  <2>1. x # a /\ e # d /\ pc[x] = "dead" /\ zcd[e].AppID = x
    BY <1>5, <1>7, <1>8, <1>9
  <2>2. OwnerStage(e)
    BY <2>1, <1>1 DEF DeadAppsHoldNothing, OwnerStage
  <2> QED
    BY <2>1, <2>2, <1>12 DEF OwnerStage
<1> QED
  BY <1>18, <1>19, <1>20, <1>22, <1>23, <1>25, <1>26, <1>27 DEF ZeroCopyInv

-----------------------------------------------------------------------------
(* Giving a buffer back, or sending it, while no walk is going on.         *)
LEMMA StepGiveBack ==
  ASSUME ZeroCopyInv, NoWindows, NEW a \in Apps, NEW h \in Handle,
         NEW there \in {"put", "send"}, GiveBack(a, h, there)
  PROVE  ZeroCopyInv'
<1>1. TypeOK /\ ListInv /\ LinksInv /\ PlacesInv /\ HeldInv /\ UsersInv /\ CountsInv
      /\ DeadAppsHoldNothing
  BY DEF ZeroCopyInv
<1>2. PICK d \in Descs, b \in Bufs : h = <<d, b>> /\ h[1] = d /\ h[2] = b
  BY DEF Handle
<1>3. pc[a] = "idle" /\ h \in held[a] /\ pc[ES] = "idle"
      /\ held' = [held EXCEPT ![a] = held[a] \ {h}]
      /\ UNCHANGED <<buf, freeBufs, SBBuffersInUse>> /\ queue' = queue
  BY DEF GiveBack, NoWindows
<1>4. MayRelease(d, b) /\ zcd[d].AppID = a /\ ~OwnerStage(d)
  BY <1>1, <1>2, <1>3 DEF HeldInv
<1>5. d \in AllocDescs /\ zcd[d].Buffer = b
  BY <1>4 DEF MayRelease
<1>6. ReleaseDesc(d) /\ Goto(a, there, [NoLoc EXCEPT !.buf = b])
  BY <1>2, <1>4 DEF GiveBack
<1>7. Leaves(d) /\ DescTypes'
  BY <1>1, <1>5, <1>6, DelinkFacts
<1>8. /\ AllocDescs' = AllocDescs \ {d}
      /\ \A x \in AllocDescs \ {d} : zcd'[x].AppID = zcd[x].AppID /\ zcd'[x].Buffer = zcd[x].Buffer
  BY <1>7 DEF Leaves
<1>9. a \in Tasks /\ ES \in Tasks /\ a # ES /\ Apps \subseteq Tasks
  BY ConstantsOK
<1>10. /\ pc' \in [Tasks -> Places] /\ loc' \in [Tasks -> Locals]
       /\ pc'[a] = there /\ loc'[a].buf = b
       /\ \A u \in Tasks : u # a => pc'[u] = pc[u] /\ loc'[u] = loc[u]
  <2> DEFINE l == [NoLoc EXCEPT !.buf = b]
  <2>1. l \in Locals /\ l.buf = b
    BY LocalsOK
  <2>2. Goto(a, there, l)
    BY <1>6
  <2> HIDE DEF l
  <2>3. Moved(a, there, l)
    BY <2>1, <2>2, <1>1, <1>9, GotoMoves DEF Places
  <2> QED
    BY <2>1, <2>3 DEF Moved
<1>11. OwnersKept /\ \A x \in Apps : pc'[x] = "owner" => pc[x] = "owner" /\ loc'[x] = loc[x]
  BY <1>3, <1>9, <1>10 DEF OwnersKept
<1>12. \A e : OwnerStage(e)' <=> OwnerStage(e)
  BY <1>11 DEF OwnerStage, OwnersKept
<1>13. PICK r \in [Descs -> Nat] : Order(r) /\ Ahead(r)
  BY <1>1 DEF ListInv
<1>14. pc'[ES] = "idle" /\ ~Walking'
  BY <1>3, <1>9, <1>10 DEF Walking
<1>15. ListInv'
  <2>1. Order(r)'
    BY <1>1, <1>7, <1>13, OrderLeaves
  <2>2. Ahead(r)'
    BY <1>14 DEF Ahead
  <2> QED
    BY <2>1, <2>2 DEF ListInv
<1>16. LinksInv'
  BY <1>1, <1>7, <1>13, LinksLeaves
<1>17. PlacesInv'
  <2>1. pc'[ES] \in {"idle", "walk", "release", "put"} /\ pc'[ES] # "release"
        /\ \A x \in Apps : pc'[x] \notin {"walk", "release"}
    BY <1>1, <1>9, <1>10, <1>14 DEF PlacesInv
  <2>2. \A x \in Apps : pc'[x] = "owner" => loc'[x].desc # d
    BY <1>4, <1>11 DEF OwnerStage
  <2>3. \A x \in Apps : pc'[x] = "owner" =>
          loc'[x].desc \in AllocDescs' /\ zcd'[loc'[x].desc].Buffer = loc'[x].buf
    BY <2>2, <1>1, <1>8, <1>11 DEF PlacesInv
  <2>4. \A x, y \in Apps :
          pc'[x] = "owner" /\ pc'[y] = "owner" /\ loc'[x].desc = loc'[y].desc => x = y
    BY <1>1, <1>11 DEF PlacesInv
  <2> QED
    BY <2>1, <2>3, <2>4, <1>14 DEF PlacesInv
<1>18. held' \in [Apps -> SUBSET Handle] /\ held'[a] = held[a] \ {h}
       /\ \A x \in Apps : x # a => held'[x] = held[x]
  BY <1>1, <1>3 DEF TypeOK
<1>19. HeldInv'
  <2> SUFFICES ASSUME NEW x \in Apps, NEW g \in held'[x], pc'[x] # "exited"
               PROVE  /\ pc'[x] # "dead" /\ g[1] \in AllocDescs' /\ zcd'[g[1]].Buffer = g[2]
                      /\ zcd'[g[1]].AppID = x /\ ~OwnerStage(g[1])'
    BY DEF HeldInv, MayRelease
  <2>1. pc[x] # "exited" /\ g \in held[x] /\ (pc[x] # "dead" => pc'[x] # "dead")
    BY <1>3, <1>9, <1>10, <1>18
  <2>2. /\ pc[x] # "dead" /\ g[1] \in AllocDescs /\ zcd[g[1]].Buffer = g[2]
        /\ zcd[g[1]].AppID = x /\ ~OwnerStage(g[1])
    BY <2>1, <1>1 DEF HeldInv, MayRelease
  <2>3. g[1] # d
    <3> SUFFICES ASSUME g[1] = d PROVE FALSE
      OBVIOUS
    <3>1. x = a /\ g[2] = b
      BY <2>2, <1>4, <1>5
    <3>2. g \in Handle
      BY <2>1, <1>1 DEF TypeOK
    <3>3. g = <<d, b>>
      BY <3>1, <3>2 DEF Handle
    <3> QED
      BY <3>1, <3>3, <1>2, <1>18
  <2> QED
    BY <2>1, <2>2, <2>3, <1>8, <1>12
<1>20. CountsInv' /\ BufTypes' /\ AllocBufs' = AllocBufs
  BY <1>1, <1>3, <1>11, BufKept
<1>21. UsersInv'
  <2>1. SameBuffers
    BY <1>8 DEF SameBuffers
  <2>2. ~Holds(a) /\ Holds(a)' /\ \A u \in Tasks : u # a => Idles(u)
    BY <1>3, <1>10 DEF Holds, Idles
  <2> QED
    BY <2>1, <2>2, <1>1, <1>3, <1>5, <1>8, <1>9, <1>10, <1>20, UsersToTask
<1>22. TypeOK'
  <2>1. queue' \in Seq(Bufs)
    BY <1>1, <1>3 DEF TypeOK
  <2> QED
    BY <2>1, <1>7, <1>10, <1>18, <1>20, TypesTogether
<1>23. DeadAppsHoldNothing'
  <2> SUFFICES ASSUME NEW x \in Apps, pc'[x] = "dead", NEW e \in AllocDescs', zcd'[e].AppID = x
               PROVE  \E y \in Apps : pc'[y] = "owner" /\ loc'[y].desc = e
    BY DEF DeadAppsHoldNothing
  <2>1. pc[x] = "dead" /\ e \in AllocDescs /\ zcd[e].AppID = x
    BY <1>8, <1>9, <1>10
  <2> QED
    BY <2>1, <1>1, <1>11 DEF DeadAppsHoldNothing, OwnersKept
<1> QED
  BY <1>15, <1>16, <1>17, <1>19, <1>20, <1>21, <1>22, <1>23 DEF ZeroCopyInv

-----------------------------------------------------------------------------
(* The walk.  The applications, the buffers and the queue stay as they are *)
(* while ES moves to l at a place where it holds no buffer.                *)
LEMMA StepReleaseAppId ==
  ASSUME ZeroCopyInv, NoWindows, NEW a \in Apps, ReleaseAppId(a)
  PROVE  ZeroCopyInv'
<1>1. TypeOK /\ ListInv /\ LinksInv /\ PlacesInv /\ HeldInv /\ UsersInv /\ CountsInv
      /\ DeadAppsHoldNothing
  BY DEF ZeroCopyInv
<1>2. /\ pc[ES] = "idle" /\ pc[a] = "exited" /\ \A x \in Apps : pc[x] # "owner"
      /\ Goto(ES, "walk", [NoLoc EXCEPT !.desc = ZeroCopyTail, !.app = a])
      /\ UNCHANGED <<ZeroCopyTail, zcd, freeDescs>>
      /\ UNCHANGED <<buf, freeBufs, SBBuffersInUse>>
      /\ queue' = queue /\ held' = held /\ zcd' = zcd
  BY DEF ReleaseAppId, NoWindows, pool
<1> DEFINE l == [NoLoc EXCEPT !.desc = ZeroCopyTail, !.app = a]
<1>3. l \in Locals /\ l.desc = ZeroCopyTail /\ l.app = a
  BY <1>1 DEF TypeOK, NoLoc, Locals
<1>4. Goto(ES, "walk", l)
  BY <1>2
<1> HIDE DEF l
<1>5. ES \in Tasks /\ ES \notin Apps /\ Apps \subseteq Tasks
  BY ConstantsOK
<1>6. /\ pc' \in [Tasks -> Places] /\ loc' \in [Tasks -> Locals]
      /\ pc'[ES] = "walk" /\ loc'[ES] = l
      /\ \A u \in Tasks : u # ES => pc'[u] = pc[u] /\ loc'[u] = loc[u]
      /\ \A x \in Apps : pc'[x] = pc[x] /\ loc'[x] = loc[x]
  <2>1. Moved(ES, "walk", l)
    BY <1>1, <1>3, <1>4, <1>5, GotoMoves DEF Places
  <2> QED
    BY <2>1, <1>5 DEF Moved
<1>7. OwnersKept /\ \A e : OwnerStage(e)' <=> OwnerStage(e)
  BY <1>6 DEF OwnersKept, OwnerStage
<1>8. AllocDescs' = AllocDescs /\ SameBuffers /\ LinksInv' /\ DescTypes'
      /\ \A r : Order(r) => Order(r)'
  BY <1>1, <1>2, ListSame
<1>9. CountsInv' /\ BufTypes' /\ AllocBufs' = AllocBufs
  BY <1>1, <1>2, <1>7, BufKept
<1>10. UsersInv'
  <2>1. \A u \in Tasks : Idles(u)
    BY <1>2, <1>6 DEF Idles, Holds
  <2> QED
    BY <2>1, <1>1, <1>2, <1>8, <1>9, UsersKept
<1>11. TypeOK'
  <2>1. queue' \in Seq(Bufs) /\ held' \in [Apps -> SUBSET Handle]
    BY <1>1, <1>2 DEF TypeOK
  <2> QED
    BY <2>1, <1>6, <1>8, <1>9, TypesTogether
<1>12. ListInv'
  <2>1. PICK r \in [Descs -> Nat] : Order(r) /\ Ahead(r)
    BY <1>1 DEF ListInv
  <2>2. Cursor' = ZeroCopyTail
    BY <1>3, <1>6 DEF Cursor
  <2>3. /\ ZeroCopyTail # NULL => ZeroCopyTail \in AllocDescs
        /\ \A e \in AllocDescs : ZeroCopyTail # NULL /\ r[e] <= r[ZeroCopyTail]
    BY <2>1 DEF Order
  <2>4. Ahead(r)'
    BY <2>2, <2>3, <1>2, <1>6, <1>8 DEF Ahead
  <2>5. Order(r)'
    BY <2>1, <1>8
  <2> QED
    BY <2>4, <2>5 DEF ListInv
<1>13. PlacesInv'
  <2>1. pc'[ES] \in {"idle", "walk", "release", "put"} /\ pc'[ES] # "release"
        /\ \A x \in Apps : pc'[x] \notin {"walk", "release"} /\ pc'[x] # "owner"
    BY <1>1, <1>2, <1>6 DEF PlacesInv
  <2>2. loc'[ES].app \in Apps /\ pc'[loc'[ES].app] = "exited"
    BY <1>2, <1>3, <1>6
  <2> QED
    BY <2>1, <2>2 DEF PlacesInv
<1>14. HeldInv'
  BY <1>1, <1>2, <1>6, <1>7, <1>8 DEF HeldInv, MayRelease
<1>15. DeadAppsHoldNothing'
  BY <1>1, <1>2, <1>6, <1>8 DEF DeadAppsHoldNothing
<1> QED
  BY <1>8, <1>9, <1>10, <1>11, <1>12, <1>13, <1>14, <1>15 DEF ZeroCopyInv

(* The list stays, ES goes on to a place of the walk, nobody else moves.   *)
LEMMA WalkOn ==
  ASSUME ZeroCopyInv, NEW there \in {"walk", "release"}, NEW l \in Locals, Goto(ES, there, l),
         UNCHANGED <<ZeroCopyTail, zcd, freeDescs>>, held' = held
  PROVE  /\ pc' \in [Tasks -> Places] /\ loc' \in [Tasks -> Locals]
         /\ pc'[ES] = there /\ loc'[ES] = l
         /\ \A u \in Tasks : u # ES => pc'[u] = pc[u] /\ loc'[u] = loc[u]
         /\ \A x \in Apps : pc'[x] = pc[x] /\ loc'[x] = loc[x]
         /\ OwnersKept /\ \A e : OwnerStage(e)' <=> OwnerStage(e)
         /\ AllocDescs' = AllocDescs /\ SameBuffers /\ LinksInv' /\ DescTypes'
         /\ \A r : Order(r) => Order(r)'
         /\ HeldInv' /\ DeadAppsHoldNothing'
<1>1. TypeOK /\ LinksInv /\ PlacesInv /\ HeldInv /\ DeadAppsHoldNothing
  BY DEF ZeroCopyInv
<1>2. ES \in Tasks /\ ES \notin Apps /\ Apps \subseteq Tasks
  BY ConstantsOK
<1>3. /\ pc' \in [Tasks -> Places] /\ loc' \in [Tasks -> Locals]
      /\ pc'[ES] = there /\ loc'[ES] = l
      /\ \A u \in Tasks : u # ES => pc'[u] = pc[u] /\ loc'[u] = loc[u]
      /\ \A x \in Apps : pc'[x] = pc[x] /\ loc'[x] = loc[x]
  <2>1. Moved(ES, there, l)
    BY <1>1, <1>2, GotoMoves DEF Places
  <2> QED
    BY <2>1, <1>2 DEF Moved
<1>4. OwnersKept /\ \A e : OwnerStage(e)' <=> OwnerStage(e)
  BY <1>3 DEF OwnersKept, OwnerStage
<1>5. AllocDescs' = AllocDescs /\ SameBuffers /\ LinksInv' /\ DescTypes'
      /\ \A r : Order(r) => Order(r)'
  BY <1>1, ListSame
<1>6. zcd' = zcd
  OBVIOUS
<1>7. HeldInv'
  BY <1>1, <1>3, <1>4, <1>5, <1>6 DEF HeldInv, MayRelease
<1>8. DeadAppsHoldNothing'
  BY <1>1, <1>3, <1>5, <1>6 DEF DeadAppsHoldNothing
<1> QED
  BY <1>3, <1>4, <1>5, <1>7, <1>8

(* What the walk reads when it is not at the end.                          *)
LEMMA WalkReads ==
  ASSUME TypeOK, NEW r \in [Descs -> Nat], Ahead(r), pc[ES] = "walk", loc[ES].desc # NULL
  PROVE  /\ loc[ES].desc \in AllocDescs /\ loc[ES].desc \in Descs
         /\ Cursor = loc[ES].desc /\ Walking
         /\ zcd[loc[ES].desc].Prev \in Descs \cup {NULL}
         /\ zcd[loc[ES].desc].Buffer \in Bufs \cup {NULL}
<1>1. Cursor = loc[ES].desc /\ Walking
  BY DEF Cursor, Walking
<1>2. loc[ES].desc \in AllocDescs /\ loc[ES].desc \in Descs
  BY <1>1, TypeParts DEF Ahead
<1> QED
  BY <1>1, <1>2, TypeParts

LEMMA StepWalkEnds ==
  ASSUME ZeroCopyInv, Walk, loc[ES].desc = NULL
  PROVE  ZeroCopyInv'
<1>1. TypeOK /\ ListInv /\ LinksInv /\ PlacesInv /\ HeldInv /\ UsersInv /\ CountsInv
      /\ DeadAppsHoldNothing
  BY DEF ZeroCopyInv
<1>2. PICK a : a = loc[ES].app
  OBVIOUS
<1>3. /\ pc[ES] = "walk" /\ pc' = [pc EXCEPT ![ES] = "idle", ![a] = "dead"]
      /\ loc' = [loc EXCEPT ![ES] = NoLoc] /\ held' = [held EXCEPT ![a] = {}]
      /\ UNCHANGED <<ZeroCopyTail, zcd, freeDescs>> /\ zcd' = zcd
      /\ UNCHANGED <<buf, freeBufs, SBBuffersInUse>> /\ queue' = queue
  BY <1>2 DEF Walk, pool
<1>z. zcd' = zcd
  BY <1>3
<1>4. Walking /\ Cursor = NULL
  BY <1>3 DEF Walking, Cursor
<1>5. a \in Apps /\ pc[a] = "exited"
  BY <1>1, <1>2, <1>4 DEF PlacesInv
<1>6. ES \in Tasks /\ ES \notin Apps /\ Apps \subseteq Tasks /\ a \in Tasks /\ a # ES
  BY <1>5, ConstantsOK
<1>7. /\ pc'[ES] = "idle" /\ pc'[a] = "dead" /\ loc'[a] = loc[a]
      /\ \A u \in Tasks : u # ES /\ u # a => pc'[u] = pc[u] /\ loc'[u] = loc[u]
      /\ pc' \in [Tasks -> Places] /\ loc' \in [Tasks -> Locals]
  BY <1>1, <1>3, <1>6, LocalsOK DEF TypeOK, Places
<1>8. held' \in [Apps -> SUBSET Handle] /\ held'[a] = {}
      /\ \A x \in Apps : x # a => held'[x] = held[x]
  BY <1>1, <1>3, <1>5 DEF TypeOK
<1>9. OwnersKept /\ \A x \in Apps : pc'[x] = "owner" => pc[x] = "owner" /\ loc'[x] = loc[x]
  BY <1>5, <1>6, <1>7 DEF OwnersKept
<1>10. \A e : OwnerStage(e)' <=> OwnerStage(e)
  BY <1>9 DEF OwnerStage, OwnersKept
<1>11. AllocDescs' = AllocDescs /\ SameBuffers /\ LinksInv' /\ DescTypes'
      /\ \A r : Order(r) => Order(r)'
  BY <1>1, <1>3, ListSame
<1>12. CountsInv' /\ BufTypes' /\ AllocBufs' = AllocBufs
  BY <1>1, <1>3, <1>9, BufKept
<1>13. UsersInv'
  <2>1. \A u \in Tasks : Idles(u)
    BY <1>3, <1>5, <1>7 DEF Idles, Holds
  <2> QED
    BY <2>1, <1>1, <1>3, <1>11, <1>12, UsersKept
<1>14. TypeOK'
  <2>1. queue' \in Seq(Bufs)
    BY <1>1, <1>3 DEF TypeOK
  <2> QED
    BY <2>1, <1>7, <1>8, <1>11, <1>12, TypesTogether
<1>15. PICK r \in [Descs -> Nat] : Order(r) /\ Ahead(r)
  BY <1>1 DEF ListInv
<1>16. ~Walking'
  BY <1>7 DEF Walking
<1>17. ListInv'
  <2>1. Order(r)' /\ Ahead(r)'
    BY <1>11, <1>15, <1>16 DEF Ahead
  <2> QED
    BY <2>1 DEF ListInv
<1>18. PlacesInv'
  <2>1. pc'[ES] \in {"idle", "walk", "release", "put"} /\ pc'[ES] # "release"
        /\ \A x \in Apps : pc'[x] \notin {"walk", "release"}
    BY <1>1, <1>6, <1>7 DEF PlacesInv
  <2>2. \A x \in Apps : pc'[x] = "owner" =>
          loc'[x].desc \in AllocDescs' /\ zcd'[loc'[x].desc].Buffer = loc'[x].buf
    BY <1>1, <1>3, <1>9, <1>11 DEF PlacesInv
  <2>3. \A x, y \in Apps :
          pc'[x] = "owner" /\ pc'[y] = "owner" /\ loc'[x].desc = loc'[y].desc => x = y
    BY <1>1, <1>9 DEF PlacesInv
  <2> QED
    BY <2>1, <2>2, <2>3, <1>16 DEF PlacesInv
<1>19. HeldInv'
  <2> SUFFICES ASSUME NEW x \in Apps, NEW h \in held'[x], pc'[x] # "exited"
               PROVE  /\ pc'[x] # "dead" /\ h[1] \in AllocDescs /\ zcd[h[1]].Buffer = h[2]
                      /\ zcd[h[1]].AppID = x /\ ~OwnerStage(h[1])
    BY <1>z, <1>10, <1>11 DEF HeldInv, MayRelease
  <2>1. x # a /\ h \in held[x] /\ pc'[x] = pc[x]
    BY <1>6, <1>7, <1>8
  <2> QED
    BY <2>1, <1>1 DEF HeldInv, MayRelease
<1>20. DeadAppsHoldNothing'
  <2> SUFFICES ASSUME NEW x \in Apps, pc'[x] = "dead", NEW e \in AllocDescs, zcd[e].AppID = x
               PROVE  OwnerStage(e)
    BY <1>z, <1>10, <1>11 DEF DeadAppsHoldNothing, OwnerStage
  <2>1. CASE x = a
    BY <2>1, <1>2, <1>4, <1>15 DEF Ahead
  <2>2. CASE x # a
    <3>1. pc[x] = "dead"
      BY <2>2, <1>6, <1>7
    <3> QED
      BY <3>1, <1>1 DEF DeadAppsHoldNothing, OwnerStage
  <2> QED
    BY <2>1, <2>2
<1> QED
  BY <1>11, <1>12, <1>13, <1>14, <1>17, <1>18, <1>19, <1>20 DEF ZeroCopyInv

LEMMA StepWalkMore ==
  ASSUME ZeroCopyInv, Walk, loc[ES].desc # NULL
  PROVE  ZeroCopyInv'
<1>1. TypeOK /\ ListInv /\ LinksInv /\ PlacesInv /\ HeldInv /\ UsersInv /\ CountsInv
      /\ DeadAppsHoldNothing
  BY DEF ZeroCopyInv
<1>2. PICK d : d = loc[ES].desc
  OBVIOUS
<1>3. /\ pc[ES] = "walk" /\ held' = held /\ d # NULL
      /\ UNCHANGED <<ZeroCopyTail, zcd, freeDescs>> /\ zcd' = zcd
      /\ UNCHANGED <<buf, freeBufs, SBBuffersInUse>> /\ queue' = queue
  BY <1>2 DEF Walk, pool
<1>4. PICK r \in [Descs -> Nat] : Order(r) /\ Ahead(r)
  BY <1>1 DEF ListInv
<1>5. /\ d \in AllocDescs /\ d \in Descs /\ Cursor = d /\ Walking
      /\ zcd[d].Prev \in Descs \cup {NULL} /\ zcd[d].Buffer \in Bufs \cup {NULL}
  BY <1>1, <1>2, <1>3, <1>4, WalkReads
<1>6. loc[ES].app \in Apps /\ pc[loc[ES].app] = "exited" /\ loc[ES] \in Locals
  BY <1>1, <1>5, ConstantsOK, TypeParts DEF PlacesInv
<1>7. PICK there \in {"walk", "release"}, l \in Locals :
        /\ Goto(ES, there, l) /\ l.app = loc[ES].app
        /\ there = "release" => /\ l.desc = d /\ l.prev = zcd[d].Prev
                                /\ l.buf = zcd[d].Buffer /\ zcd[d].AppID = loc[ES].app
        /\ there = "walk" => l.desc = zcd[d].Prev /\ zcd[d].AppID # loc[ES].app
  <2>1. CASE Found(d, loc[ES].app)
    <3> DEFINE n == [loc[ES] EXCEPT !.prev = zcd[d].Prev, !.buf = zcd[d].Buffer]
    <3>1. n \in Locals /\ n.app = loc[ES].app /\ n.desc = d /\ n.prev = zcd[d].Prev
          /\ n.buf = zcd[d].Buffer
      BY <1>2, <1>5, <1>6 DEF Locals
    <3>2. Goto(ES, "release", n)
      BY <2>1, <1>2, <1>3 DEF Walk, Onward
    <3> HIDE DEF n
    <3>3. zcd[d].AppID = loc[ES].app
      BY <2>1 DEF Found
    <3> QED
      BY <3>1, <3>2, <3>3
  <2>2. CASE ~Found(d, loc[ES].app)
    <3> DEFINE n == [loc[ES] EXCEPT !.desc = zcd[d].Prev]
    <3>1. n \in Locals /\ n.app = loc[ES].app /\ n.desc = zcd[d].Prev
      BY <1>5, <1>6 DEF Locals
    <3>2. Goto(ES, "walk", n)
      BY <2>2, <1>2, <1>3 DEF Walk, Onward
    <3> HIDE DEF n
    <3>3. zcd[d].AppID # loc[ES].app
      BY <2>2 DEF Found
    <3> QED
      BY <3>1, <3>2, <3>3
  <2> QED
    BY <2>1, <2>2
<1>8. /\ pc' \in [Tasks -> Places] /\ loc' \in [Tasks -> Locals]
      /\ pc'[ES] = there /\ loc'[ES] = l
      /\ \A u \in Tasks : u # ES => pc'[u] = pc[u] /\ loc'[u] = loc[u]
      /\ \A x \in Apps : pc'[x] = pc[x] /\ loc'[x] = loc[x]
      /\ OwnersKept /\ \A e : OwnerStage(e)' <=> OwnerStage(e)
      /\ AllocDescs' = AllocDescs /\ SameBuffers /\ LinksInv' /\ DescTypes'
      /\ \A q : Order(q) => Order(q)'
      /\ HeldInv' /\ DeadAppsHoldNothing'
  BY <1>3, <1>7, WalkOn
<1>9. CountsInv' /\ BufTypes' /\ AllocBufs' = AllocBufs
  BY <1>1, <1>3, <1>8, BufKept
<1>10. UsersInv'
  <2>1. \A u \in Tasks : Idles(u)
    BY <1>3, <1>8 DEF Idles, Holds
  <2> QED
    BY <2>1, <1>1, <1>3, <1>8, <1>9, UsersKept
<1>11. TypeOK'
  <2>1. queue' \in Seq(Bufs) /\ held' \in [Apps -> SUBSET Handle]
    BY <1>1, <1>3 DEF TypeOK
  <2> QED
    BY <2>1, <1>8, <1>9, TypesTogether
<1>12. PlacesInv'
  <2>1. pc'[ES] \in {"idle", "walk", "release", "put"}
        /\ \A x \in Apps : pc'[x] \notin {"walk", "release"}
    BY <1>1, <1>8 DEF PlacesInv
  <2>2. \A x \in Apps : pc'[x] = "owner" =>
          loc'[x].desc \in AllocDescs' /\ zcd'[loc'[x].desc].Buffer = loc'[x].buf
    BY <1>1, <1>3, <1>8 DEF PlacesInv
  <2>3. \A x, y \in Apps :
          pc'[x] = "owner" /\ pc'[y] = "owner" /\ loc'[x].desc = loc'[y].desc => x = y
    BY <1>1, <1>8 DEF PlacesInv
  <2>4. loc'[ES].app \in Apps /\ pc'[loc'[ES].app] = "exited"
    BY <1>6, <1>7, <1>8
  <2>5. pc'[ES] = "release" => /\ loc'[ES].desc \in AllocDescs'
                               /\ zcd'[loc'[ES].desc].Buffer = loc'[ES].buf
                               /\ zcd'[loc'[ES].desc].AppID = loc'[ES].app
                               /\ zcd'[loc'[ES].desc].Prev = loc'[ES].prev
    BY <1>3, <1>5, <1>7, <1>8
  <2> QED
    BY <2>1, <2>2, <2>3, <2>4, <2>5 DEF PlacesInv
<1>13. Walking' /\ Cursor' = l.desc
  BY <1>8 DEF Walking, Cursor
<1>14. Ahead(r)'
  <2> SUFFICES /\ l.desc # NULL => /\ l.desc \in AllocDescs
                                   /\ \A x \in Apps : pc[x] = "owner" =>
                                        r[l.desc] < r[loc[x].desc]
               /\ \A e \in AllocDescs : zcd[e].AppID = loc[ES].app /\ ~OwnerStage(e) =>
                    l.desc # NULL /\ r[e] <= r[l.desc]
    BY <1>3, <1>7, <1>8, <1>13 DEF Ahead
  <2>0. /\ \A x \in Apps : pc[x] = "owner" => r[d] < r[loc[x].desc]
        /\ \A e \in AllocDescs : zcd[e].AppID = loc[ES].app /\ ~OwnerStage(e) => r[e] <= r[d]
    BY <1>3, <1>4, <1>5 DEF Ahead
  <2>1. CASE there = "release"
    BY <2>0, <2>1, <1>3, <1>5, <1>7
  <2>2. CASE there = "walk"
    <3>1. l.desc = zcd[d].Prev /\ zcd[d].AppID # loc[ES].app
      BY <2>2, <1>7
    <3>2. l.desc # NULL => l.desc \in AllocDescs /\ r[l.desc] < r[d]
      BY <3>1, <1>4, <1>5 DEF Order
    <3>3. \A e \in AllocDescs : r[e] \in Nat
      BY <1>1, TypeParts
    <3>4. ASSUME l.desc # NULL, NEW x \in Apps, pc[x] = "owner"
          PROVE  r[l.desc] < r[loc[x].desc]
      <4>1. loc[x].desc \in AllocDescs
        BY <3>4, <1>1 DEF PlacesInv
      <4> QED
        BY <4>1, <3>2, <3>3, <3>4, <2>0, <1>5
    <3>5. ASSUME NEW e \in AllocDescs, zcd[e].AppID = loc[ES].app, ~OwnerStage(e)
          PROVE  l.desc # NULL /\ r[e] <= r[l.desc]
      <4>1. e # d /\ r[e] <= r[d]
        BY <3>1, <3>5, <2>0
      <4>2. r[e] # r[d]
        BY <4>1, <1>4, <1>5 DEF Order
      <4>3. r[e] < r[d]
        BY <4>1, <4>2, <3>3, <1>5
      <4> QED
        BY <4>3, <3>1, <1>4, <1>5 DEF Order
    <3> QED
      BY <3>2, <3>4, <3>5
  <2> QED
    BY <2>1, <2>2
<1>15. ListInv'
  BY <1>4, <1>8, <1>14 DEF ListInv
<1> QED
  BY <1>8, <1>9, <1>10, <1>11, <1>12, <1>15 DEF ZeroCopyInv

LEMMA StepWalkRelease ==
  ASSUME ZeroCopyInv, WalkRelease
  PROVE  ZeroCopyInv'
<1>1. TypeOK /\ ListInv /\ LinksInv /\ PlacesInv /\ HeldInv /\ UsersInv /\ CountsInv
      /\ DeadAppsHoldNothing
  BY DEF ZeroCopyInv
<1>2. PICK d : d = loc[ES].desc
  OBVIOUS
<1>3. PICK b : b = loc[ES].buf
  OBVIOUS
<1>4. /\ pc[ES] = "release" /\ held' = held /\ queue' = queue
      /\ UNCHANGED <<buf, freeBufs, SBBuffersInUse>>
  BY DEF WalkRelease
<1>5. Walking /\ Cursor = d
  BY <1>2, <1>4 DEF Walking, Cursor
<1>6. /\ d \in AllocDescs /\ zcd[d].Buffer = b /\ zcd[d].AppID = loc[ES].app
      /\ zcd[d].Prev = loc[ES].prev /\ loc[ES].app \in Apps /\ pc[loc[ES].app] = "exited"
  BY <1>1, <1>2, <1>3, <1>4, <1>5 DEF PlacesInv
<1>7. ReleaseDesc(d) /\ Goto(ES, "put", loc[ES])
  BY <1>2, <1>3, <1>6 DEF WalkRelease, MayRelease
<1>8. Leaves(d) /\ DescTypes'
  BY <1>1, <1>6, <1>7, DelinkFacts
<1>9. /\ AllocDescs' = AllocDescs \ {d} /\ d \in Descs /\ AllocDescs \subseteq Descs
      /\ d # NULL
      /\ \A x \in AllocDescs \ {d} : zcd'[x].AppID = zcd[x].AppID /\ zcd'[x].Buffer = zcd[x].Buffer
  BY <1>1, <1>6, <1>8, TypeParts, ConstantsOK DEF Leaves
<1>10. ES \in Tasks /\ ES \notin Apps /\ Apps \subseteq Tasks
  BY ConstantsOK
<1>11. /\ pc' \in [Tasks -> Places] /\ loc' \in [Tasks -> Locals]
       /\ pc'[ES] = "put" /\ loc'[ES] = loc[ES]
       /\ \A u \in Tasks : u # ES => pc'[u] = pc[u] /\ loc'[u] = loc[u]
       /\ \A x \in Apps : pc'[x] = pc[x] /\ loc'[x] = loc[x]
  <2>1. loc[ES] \in Locals
    BY <1>1, <1>10, TypeParts
  <2>2. Moved(ES, "put", loc[ES])
    BY <2>1, <1>1, <1>7, <1>10, GotoMoves DEF Places
  <2> QED
    BY <2>2, <1>10 DEF Moved
<1>12. OwnersKept /\ \A e : OwnerStage(e)' <=> OwnerStage(e)
  BY <1>11 DEF OwnersKept, OwnerStage
<1>13. PICK r \in [Descs -> Nat] : Order(r) /\ Ahead(r)
  BY <1>1 DEF ListInv
<1>14. LinksInv'
  BY <1>1, <1>8, <1>13, LinksLeaves
<1>15. Order(r)'
  BY <1>1, <1>8, <1>13, OrderLeaves
<1>16. /\ \A x \in Apps : pc[x] = "owner" => r[d] < r[loc[x].desc]
       /\ \A e \in AllocDescs : zcd[e].AppID = loc[ES].app /\ ~OwnerStage(e) => r[e] <= r[d]
  BY <1>5, <1>9, <1>13 DEF Ahead
<1>17. \A x \in Apps : pc[x] = "owner" => loc[x].desc # d
  BY <1>9, <1>16
<1>18. \A e \in AllocDescs : r[e] \in Nat
  BY <1>9
<1>19. Ahead(r)'
  <2>1. PICK p : p = zcd[d].Prev
    OBVIOUS
  <2>2. Cursor' = p
    BY <2>1, <1>6, <1>11 DEF Cursor
  <2>3. p # NULL => p \in AllocDescs /\ p # d /\ r[p] < r[d]
    BY <2>1, <1>6, <1>13, <1>18 DEF Order
  <2>4. ASSUME p # NULL, NEW x \in Apps, pc[x] = "owner"
        PROVE  r[p] < r[loc[x].desc]
    <3>1. loc[x].desc \in AllocDescs
      BY <2>4, <1>1 DEF PlacesInv
    <3> QED
      BY <3>1, <2>3, <2>4, <1>6, <1>16, <1>18
  <2>5. ASSUME NEW e \in AllocDescs \ {d}, zcd[e].AppID = loc[ES].app, ~OwnerStage(e)
        PROVE  p # NULL /\ r[e] <= r[p]
    <3>1. r[e] <= r[d] /\ r[e] # r[d]
      BY <2>5, <1>6, <1>13, <1>16 DEF Order
    <3>2. r[e] < r[d]
      BY <3>1, <1>6, <1>18
    <3> QED
      BY <3>2, <2>1, <1>6, <1>13 DEF Order
  <2> QED
    BY <2>2, <2>3, <2>4, <2>5, <1>9, <1>11, <1>12 DEF Ahead
<1>20. ListInv'
  BY <1>15, <1>19 DEF ListInv
<1>21. PlacesInv'
  <2>1. pc'[ES] \in {"idle", "walk", "release", "put"} /\ pc'[ES] # "release"
        /\ \A x \in Apps : pc'[x] \notin {"walk", "release"}
    BY <1>1, <1>11 DEF PlacesInv
  <2>2. \A x \in Apps : pc'[x] = "owner" =>
          loc'[x].desc \in AllocDescs' /\ zcd'[loc'[x].desc].Buffer = loc'[x].buf
    BY <1>1, <1>9, <1>11, <1>17 DEF PlacesInv
  <2>3. \A x, y \in Apps :
          pc'[x] = "owner" /\ pc'[y] = "owner" /\ loc'[x].desc = loc'[y].desc => x = y
    BY <1>1, <1>11 DEF PlacesInv
  <2>4. loc'[ES].app \in Apps /\ pc'[loc'[ES].app] = "exited"
    BY <1>6, <1>11
  <2> QED
    BY <2>1, <2>2, <2>3, <2>4 DEF PlacesInv
<1>22. HeldInv'
  <2> SUFFICES ASSUME NEW x \in Apps, NEW g \in held[x], pc[x] # "exited"
               PROVE  /\ pc[x] # "dead" /\ g[1] \in AllocDescs' /\ zcd'[g[1]].Buffer = g[2]
                      /\ zcd'[g[1]].AppID = x /\ ~OwnerStage(g[1])
    BY <1>4, <1>11, <1>12 DEF HeldInv, MayRelease
  <2>1. /\ pc[x] # "dead" /\ g[1] \in AllocDescs /\ zcd[g[1]].Buffer = g[2]
        /\ zcd[g[1]].AppID = x /\ ~OwnerStage(g[1])
    BY <1>1 DEF HeldInv, MayRelease
  <2>2. g[1] # d
    BY <2>1, <1>6
  <2> QED
    BY <2>1, <2>2, <1>9
<1>23. CountsInv' /\ BufTypes' /\ AllocBufs' = AllocBufs
  BY <1>1, <1>4, <1>12, BufKept
<1>24. UsersInv'
  <2>1. SameBuffers
    BY <1>9 DEF SameBuffers
  <2>2. ~Holds(ES) /\ Holds(ES)' /\ (\A u \in Tasks : u # ES => Idles(u))
        /\ loc'[ES].buf = zcd[d].Buffer
    BY <1>3, <1>4, <1>6, <1>11 DEF Holds, Idles
  <2> QED
    BY <2>1, <2>2, <1>1, <1>4, <1>6, <1>9, <1>10, <1>23, UsersToTask
<1>25. TypeOK'
  <2>1. queue' \in Seq(Bufs) /\ held' \in [Apps -> SUBSET Handle]
    BY <1>1, <1>4 DEF TypeOK
  <2> QED
    BY <2>1, <1>8, <1>11, <1>23, TypesTogether
<1>26. DeadAppsHoldNothing'
  BY <1>1, <1>9, <1>11 DEF DeadAppsHoldNothing
<1> QED
  BY <1>14, <1>20, <1>21, <1>22, <1>23, <1>24, <1>25, <1>26 DEF ZeroCopyInv

LEMMA StepWalkPut ==
  ASSUME ZeroCopyInv, WalkPut
  PROVE  ZeroCopyInv'
<1>1. TypeOK /\ ListInv /\ LinksInv /\ PlacesInv /\ HeldInv /\ UsersInv /\ CountsInv
      /\ DeadAppsHoldNothing
  BY DEF ZeroCopyInv
<1>2. /\ pc[ES] = "put" /\ PutBuf(loc[ES].buf) /\ Goto(ES, "walk", Turned)
      /\ UNCHANGED <<ZeroCopyTail, zcd, freeDescs>> /\ zcd' = zcd
      /\ queue' = queue /\ held' = held
  BY DEF WalkPut
<1>3. ES \in Tasks /\ ES \notin Apps
  BY ConstantsOK
<1>4. Turned \in Locals /\ Turned.desc = loc[ES].prev /\ Turned.app = loc[ES].app
  <2>1. loc[ES] \in Locals /\ loc[ES].prev \in Descs \cup {NULL}
    BY <1>1, <1>3, TypeParts
  <2> QED
    BY <2>1 DEF Turned, Locals
<1>5. /\ pc' \in [Tasks -> Places] /\ loc' \in [Tasks -> Locals]
      /\ pc'[ES] = "walk" /\ loc'[ES] = Turned
      /\ \A u \in Tasks : u # ES => pc'[u] = pc[u] /\ loc'[u] = loc[u]
      /\ \A x \in Apps : pc'[x] = pc[x] /\ loc'[x] = loc[x]
      /\ OwnersKept /\ \A e : OwnerStage(e)' <=> OwnerStage(e)
      /\ AllocDescs' = AllocDescs /\ SameBuffers /\ LinksInv' /\ DescTypes'
      /\ \A q : Order(q) => Order(q)'
      /\ HeldInv' /\ DeadAppsHoldNothing'
  BY <1>2, <1>4, WalkOn
<1>6. Holds(ES) /\ ~Holds(ES)' /\ \A u \in Tasks : u # ES => Idles(u)
  BY <1>2, <1>5 DEF Holds, Idles
<1>7. loc[ES].buf \in AllocBufs
  BY <1>1, <1>3, <1>6 DEF UsersInv
<1>8. CountsInv' /\ BufTypes' /\ AllocBufs' = AllocBufs \ {loc[ES].buf}
  BY <1>1, <1>2, <1>5, <1>7, BufFreed
<1>9. UsersInv'
  BY <1>1, <1>2, <1>3, <1>5, <1>6, <1>8, UsersTaskEnds
<1>10. TypeOK'
  <2>1. queue' \in Seq(Bufs) /\ held' \in [Apps -> SUBSET Handle]
    BY <1>1, <1>2 DEF TypeOK
  <2> QED
    BY <2>1, <1>5, <1>8, TypesTogether
<1>11. Walking /\ Walking' /\ Cursor = loc[ES].prev /\ Cursor' = Cursor
       /\ loc'[ES].app = loc[ES].app
  BY <1>2, <1>4, <1>5 DEF Walking, Cursor
<1>12. ListInv'
  <2>1. PICK r \in [Descs -> Nat] : Order(r) /\ Ahead(r)
    BY <1>1 DEF ListInv
  <2>2. Ahead(r)'
    BY <2>1, <1>2, <1>5, <1>11 DEF Ahead
  <2> QED
    BY <2>1, <2>2, <1>5 DEF ListInv
<1>13. PlacesInv'
  <2>1. pc'[ES] \in {"idle", "walk", "release", "put"} /\ pc'[ES] # "release"
        /\ \A x \in Apps : pc'[x] \notin {"walk", "release"}
    BY <1>1, <1>5 DEF PlacesInv
  <2>2. \A x \in Apps : pc'[x] = "owner" =>
          loc'[x].desc \in AllocDescs' /\ zcd'[loc'[x].desc].Buffer = loc'[x].buf
    BY <1>1, <1>2, <1>5 DEF PlacesInv
  <2>3. \A x, y \in Apps :
          pc'[x] = "owner" /\ pc'[y] = "owner" /\ loc'[x].desc = loc'[y].desc => x = y
    BY <1>1, <1>5 DEF PlacesInv
  <2>4. loc'[ES].app \in Apps /\ pc'[loc'[ES].app] = "exited"
    BY <1>1, <1>5, <1>11 DEF PlacesInv
  <2> QED
    BY <2>1, <2>2, <2>3, <2>4 DEF PlacesInv
<1> QED
  BY <1>5, <1>8, <1>9, <1>10, <1>12, <1>13 DEF ZeroCopyInv

-----------------------------------------------------------------------------
LEMMA InitHolds ==
  ASSUME Init
  PROVE  ZeroCopyInv
<1>1. NumDescs \in Nat /\ Descs = 1 .. NumDescs
  BY ZeroCopyAssumption DEF Descs
<1>2. freeDescs = [i \in 1 .. NumDescs |-> i] /\ freeBufs = Bufs
  BY <1>1 DEF Init
<1>3. freeDescs \in Seq(Descs) /\ IsInjective(freeDescs)
  BY <1>1, <1>2 DEF IsInjective
<1>4. AllocDescs = {} /\ AllocBufs = {}
  BY <1>1, <1>2 DEF AllocDescs, AllocBufs, Range
<1>5. \A t \in Tasks : pc[t] = "idle" /\ loc[t] = NoLoc
  BY DEF Init
<1>6. ES \in Tasks /\ Apps \subseteq Tasks
  BY ConstantsOK
<1>7. SBBuffersInUse = 0 /\ Cardinality(AllocBufs) = 0
  BY <1>4, FS_EmptySet DEF Init
<1>8. TypeOK
  <2>1. [AppID |-> NULL, Buffer |-> NULL, Prev |-> NULL, Next |-> NULL] \in ZeroCopyD
    BY DEF ZeroCopyD
  <2>2. zcd \in [Descs -> ZeroCopyD] /\ ZeroCopyTail \in Descs \cup {NULL}
    BY <2>1 DEF Init
  <2>3. buf \in [Bufs -> 0 .. 1] /\ freeBufs \subseteq Bufs /\ queue \in Seq(Bufs)
        /\ held \in [Apps -> SUBSET Handle]
    BY DEF Init
  <2>4. pc \in [Tasks -> Places] /\ loc \in [Tasks -> Locals]
    BY LocalsOK DEF Init, Places
  <2>5. SBBuffersInUse \in 0 .. Cardinality(Bufs)
    BY <1>7, BufsFinite
  <2> QED
    BY <2>2, <2>3, <2>4, <2>5, <1>3 DEF TypeOK
<1>9. ~Walking /\ \A x \in Apps : pc[x] # "owner" /\ pc[x] # "dead"
  BY <1>5, <1>6 DEF Walking
<1>10. ListInv
  <2> DEFINE r == [d \in Descs |-> 0]
  <2>1. r \in [Descs -> Nat]
    OBVIOUS
  <2>2. Order(r) /\ Ahead(r)
    BY <1>4, <1>9 DEF Order, Ahead, Init
  <2> QED
    BY <2>1, <2>2 DEF ListInv
<1>11. LinksInv
  BY <1>4 DEF LinksInv
<1>12. PlacesInv
  BY <1>5, <1>6, <1>9 DEF PlacesInv
<1>13. HeldInv
  BY DEF HeldInv, Init
<1>14. UsersInv
  <2>1. DOMAIN queue = {} /\ \A t \in Tasks : ~Holds(t)
    BY <1>5 DEF Init, Holds
  <2> QED
    BY <2>1, <1>4 DEF UsersInv
<1>15. CountsInv
  BY <1>4, <1>7 DEF CountsInv
<1>16. DeadAppsHoldNothing
  BY <1>9 DEF DeadAppsHoldNothing
<1> QED
  BY <1>8, <1>10, <1>11, <1>12, <1>13, <1>14, <1>15, <1>16 DEF ZeroCopyInv

LEMMA StutterHolds ==
  ASSUME ZeroCopyInv, UNCHANGED vars
  PROVE  ZeroCopyInv'
<1>1. /\ UNCHANGED <<ZeroCopyTail, zcd, freeDescs, held>> /\ pc' = pc /\ loc' = loc
      /\ UNCHANGED <<buf, freeBufs, SBBuffersInUse>> /\ queue' = queue /\ held' = held
  BY DEF vars, pool
<1>2. Elsewhere
  BY <1>1 DEF Elsewhere
<1>3. ListInv' /\ LinksInv' /\ PlacesInv' /\ HeldInv' /\ DeadAppsHoldNothing'
      /\ OwnersKept /\ DescTypes' /\ AllocDescs' = AllocDescs /\ SameBuffers
  BY <1>2, ElsewhereStep
<1>4. TypeOK /\ UsersInv /\ CountsInv
  BY DEF ZeroCopyInv
<1>5. CountsInv' /\ BufTypes' /\ AllocBufs' = AllocBufs
  BY <1>1, <1>3, <1>4, BufKept
<1>6. UsersInv'
  <2>1. \A u \in Tasks : Idles(u)
    BY <1>1 DEF Idles
  <2> QED
    BY <2>1, <1>1, <1>3, <1>4, <1>5, UsersKept
<1>7. TypeOK'
  <2>1. pc' \in [Tasks -> Places] /\ loc' \in [Tasks -> Locals] /\ queue' \in Seq(Bufs)
        /\ held' \in [Apps -> SUBSET Handle]
    BY <1>1, <1>4 DEF TypeOK
  <2> QED
    BY <2>1, <1>3, <1>5, TypesTogether
<1> QED
  BY <1>3, <1>5, <1>6, <1>7 DEF ZeroCopyInv

LEMMA NextHolds ==
  ASSUME ZeroCopyInv, NoWindows, Next
  PROVE  ZeroCopyInv'
<1>1. ASSUME NEW a \in Apps, GetPtr(a) PROVE ZeroCopyInv'
  BY <1>1, StepGetPtr
<1>2. ASSUME NEW a \in Apps, GetPtrOwner(a) PROVE ZeroCopyInv'
  BY <1>2, StepGetPtrOwner
<1>3. ASSUME NEW a \in Apps, ReleasePut(a) PROVE ZeroCopyInv'
  BY <1>3, StepReleasePut
<1>4. ASSUME NEW a \in Apps, SendMsgFull(a) PROVE ZeroCopyInv'
  BY <1>4, StepSendMsgFull
<1>5. ASSUME NEW a \in Apps, NEW h \in Handle, ReleasePtr(a, h) \/ ZeroCopySend(a, h)
      PROVE  ZeroCopyInv'
  <2>1. CASE ReleasePtr(a, h)
    BY <2>1, StepGiveBack DEF ReleasePtr
  <2>2. CASE ZeroCopySend(a, h)
    BY <2>2, StepGiveBack DEF ZeroCopySend
  <2> QED
    BY <2>1, <2>2, <1>5
<1>6. ASSUME NEW a \in Apps, ExitApp(a) \/ StartApp(a) PROVE ZeroCopyInv'
  BY <1>6, StepExitOrStart
<1>7. ASSUME NEW a \in Apps, ReleaseAppId(a) PROVE ZeroCopyInv'
  BY <1>7, StepReleaseAppId
<1>8. ASSUME Received PROVE ZeroCopyInv'
  BY <1>8, StepReceived
<1>9. ASSUME Walk PROVE ZeroCopyInv'
  BY <1>9, StepWalkEnds, StepWalkMore
<1>10. ASSUME WalkRelease PROVE ZeroCopyInv'
  BY <1>10, StepWalkRelease
<1>11. ASSUME WalkPut PROVE ZeroCopyInv'
  BY <1>11, StepWalkPut
<1> QED
  BY <1>1, <1>2, <1>3, <1>4, <1>5, <1>6, <1>7, <1>8, <1>9, <1>10, <1>11 DEF Next, CleanUp

(* The inductive invariant: the list is ordered, what the walk looks for   *)
(* is ahead of it, and every buffer has one user (cfe_sb_api.c,            *)
(* CFE_SB_ZeroCopyGetPtr to CFE_SB_ZeroCopyReleaseAppId).                  *)
THEOREM ZeroCopyInvariance ==
  ASSUME NoWindows
  PROVE  Spec => []ZeroCopyInv
<1>1. Init => ZeroCopyInv
  BY InitHolds
<1>2. ZeroCopyInv /\ [Next]_vars => ZeroCopyInv'
  BY NextHolds, StutterHolds
<1> QED
  BY <1>1, <1>2, PTL DEF Spec

-----------------------------------------------------------------------------
(* A walk from the tail that leaves out a descriptor d would come from the *)
(* one it meets last above d, whose Prev is at d or above.                 *)
LEMMA ListFollows ==
  ASSUME ZeroCopyInv
  PROVE  ListExact
<1>1. TypeOK /\ ListInv /\ LinksInv
  BY DEF ZeroCopyInv
<1>2. PICK r \in [Descs -> Nat] : Order(r)
  BY <1>1 DEF ListInv
<1>3. AllocDescs \subseteq Descs /\ \A d \in AllocDescs : r[d] \in Nat
  BY <1>1, TypeParts
<1>4. Walked(AllocDescs)
  BY <1>2 DEF Walked, Order
<1>5. ASSUME NEW S \in SUBSET AllocDescs, Walked(S), NEW d \in AllocDescs, d \notin S
      PROVE  FALSE
  <2>1. ZeroCopyTail \in S /\ ZeroCopyTail \in AllocDescs /\ r[d] <= r[ZeroCopyTail]
    BY <1>2, <1>5 DEF Walked, Order
  <2>2. \A e \in S : e \in AllocDescs /\ r[e] \in Nat /\ r[e] # r[d]
    BY <1>2, <1>3, <1>5 DEF Order
  <2> DEFINE Above == {n \in Nat : \E e \in S : r[e] = n /\ r[d] < n}
  <2>3. r[ZeroCopyTail] \in Above
    BY <2>1, <2>2, <1>3
  <2>4. PICK n \in Above : \A m \in Above : n <= m
    <3>1. Above \subseteq Nat /\ Above # {}
      BY <2>3
    <3> HIDE DEF Above
    <3> QED
      BY <3>1, LeastExists
  <2>5. PICK e \in S : r[e] = n /\ r[d] < n
    OBVIOUS
  <2>6. PICK p : p = zcd[e].Prev
    OBVIOUS
  <2>7. p # NULL /\ r[d] <= r[p] /\ r[p] < r[e] /\ p \in AllocDescs
    BY <2>2, <2>5, <2>6, <1>2 DEF Order
  <2>8. p \in S
    BY <2>6, <2>7, <1>5 DEF Walked
  <2>9. r[p] \in Above
    BY <2>2, <2>7, <2>8, <1>3
  <2>10. n <= r[p]
    BY <2>4, <2>9
  <2> QED
    BY <2>2, <2>5, <2>7, <2>8, <2>10
<1>6. \A d \in AllocDescs : /\ zcd[d].Next = NULL <=> d = ZeroCopyTail
                            /\ zcd[d].Next # NULL => zcd[zcd[d].Next].Prev = d
  BY <1>1 DEF LinksInv
<1> QED
  BY <1>4, <1>5, <1>6 DEF ListExact

(* A set with at most one element, by whether it has one.                  *)
LEMMA AtMostOne ==
  ASSUME NEW S, \A x, y \in S : x = y
  PROVE  Cardinality(S) = IF S = {} THEN 0 ELSE 1
<1>1. CASE S = {}
  BY <1>1, FS_EmptySet
<1>2. CASE S # {}
  <2>1. PICK x : S = {x}
    BY <1>2
  <2> QED
    BY <2>1, <1>2, FS_Singleton
<1> QED
  BY <1>1, <1>2

LEMMA BuffersFollow ==
  ASSUME ZeroCopyInv
  PROVE  BuffersAccounted
<1>1. UsersInv /\ CountsInv
  BY DEF ZeroCopyInv
<1>2. ASSUME NEW b \in Bufs
      PROVE  Uses(b) = IF b \in AllocBufs THEN 1 ELSE 0
  <2> DEFINE D == {d \in AllocDescs : zcd[d].Buffer = b}
             T == {t \in Tasks : pc[t] \in {"put", "send"} /\ loc[t].buf = b}
             Q == {i \in DOMAIN queue : queue[i] = b}
  <2>1. \A t \in T : t \in Tasks /\ Holds(t) /\ loc[t].buf = b
    BY DEF Holds
  <2>2. \A t \in Tasks : Holds(t) /\ loc[t].buf = b => t \in T
    BY DEF Holds
  <2>3. Cardinality(D) = IF D = {} THEN 0 ELSE 1
    <3>1. \A x, y \in D : x = y
      BY <1>1 DEF UsersInv
    <3> HIDE DEF D
    <3> QED
      BY <3>1, AtMostOne
  <2>4. Cardinality(T) = IF T = {} THEN 0 ELSE 1
    <3>1. \A x, y \in T : x = y
      BY <2>1, <1>1 DEF UsersInv
    <3> HIDE DEF T
    <3> QED
      BY <3>1, AtMostOne
  <2>5. Cardinality(Q) = IF Q = {} THEN 0 ELSE 1
    <3>1. \A x, y \in Q : x = y
      BY <1>1 DEF UsersInv
    <3> HIDE DEF Q
    <3> QED
      BY <3>1, AtMostOne
  <2>6. D # {} => b \in AllocBufs /\ T = {} /\ Q = {}
    BY <2>1, <1>1 DEF UsersInv
  <2>7. T # {} => b \in AllocBufs /\ Q = {}
    BY <2>1, <1>1 DEF UsersInv
  <2>8. Q # {} => b \in AllocBufs
    BY <1>1 DEF UsersInv
  <2>9. b \in AllocBufs => D # {} \/ T # {} \/ Q # {}
    BY <2>2, <1>1 DEF UsersInv
  <2>10. Uses(b) = Cardinality(D) + Cardinality(T) + Cardinality(Q)
    BY DEF Uses
  <2> HIDE DEF D, T, Q
  <2> QED
    BY <2>3, <2>4, <2>5, <2>6, <2>7, <2>8, <2>9, <2>10
<1> QED
  BY <1>1, <1>2 DEF BuffersAccounted, CountsInv

(* While neither window opens, the descriptor list is whole after every    *)
(* locked section, whatever the walk is doing, and an application that was *)
(* cleaned up holds nothing (CFE_SB_ZeroCopyReleaseDesc,                   *)
(* CFE_SB_ZeroCopyReleaseAppId).                                           *)
THEOREM DescriptorsAlwaysExact ==
  ASSUME NoWindows
  PROVE  Spec => []DescriptorsExact
<1>1. ZeroCopyInv => DescriptorsExact
  BY ListFollows DEF ZeroCopyInv, DescriptorsExact
<1> QED
  BY <1>1, ZeroCopyInvariance, PTL

(* While neither window opens, no buffer is leaked or has two users, and   *)
(* SBBuffersInUse counts them                                              *)
(* (CFE_SB_ZeroCopyReleasePtr, CFE_SB_DecrBufUseCnt).                      *)
THEOREM BuffersAlwaysAccounted ==
  ASSUME NoWindows
  PROVE  Spec => []BuffersAccounted
<1>1. ZeroCopyInv => BuffersAccounted
  BY BuffersFollow
<1> QED
  BY <1>1, ZeroCopyInvariance, PTL
=============================================================================

-------------------------- MODULE SoftwareBusProofs --------------------------
(***************************************************************************)
(* Proofs about SBRouteTable and SoftwareBus, for every number of tasks,    *)
(* applications, message ids, routes, pipes, queues and buffers, and for    *)
(* every program the tasks run, forced cleanup included.                    *)
(*                                                                         *)
(* First the routing state by itself: RouteInv, the conjunction of its type *)
(* invariant and the three table invariants, is inductive.  Then the bus:   *)
(* BusInv says which locals a task carries at each place between two locked *)
(* sections; from it every step of the bus is a step of SBRouteTable, so    *)
(* its invariants hold of the bus.                                          *)
(***************************************************************************)
EXTENDS SoftwareBus, FiniteSetTheorems, SequenceTheorems, WellFoundedInduction,
        TLAPS

RouteInv ==
  /\ RouteTypeOK
  /\ RouteIdxConserved
  /\ RoutesWellFormed
  /\ RouteStatsExact

(* No pipe is twice on a destination list.                                 *)
NoDup(list) ==
  \A i, j \in DOMAIN list : list[i].PipeId = list[j].PipeId => i = j

-----------------------------------------------------------------------------
(* Destination lists *)

(* A function on 1..n is a sequence of length n.                           *)
LEMMA FunctionIsSeq ==
  ASSUME NEW S, NEW n \in Nat, NEW f \in [1 .. n -> S]
  PROVE  f \in Seq(S) /\ Len(f) = n /\ DOMAIN f = 1 .. n
<1>1. f \in Seq(S)
  BY SeqDef
<1> QED
  BY <1>1, LenProperties

(* CFE_SB_AddDest puts one node in front and keeps the others.              *)
LEMMA AddDestLemma ==
  ASSUME NEW list \in Seq(Dest), NEW d \in Dest
  PROVE  /\ AddDest(list, d) \in Seq(Dest)
         /\ Len(AddDest(list, d)) = Len(list) + 1
         /\ AddDest(list, d)[1] = d
         /\ \A i \in 1 .. Len(list) : AddDest(list, d)[i + 1] = list[i]
<1>1. /\ <<d>> \in Seq(Dest)
      /\ Len(<<d>>) = 1
      /\ <<d>>[1] = d
  OBVIOUS
<1>2. Len(list) \in Nat
  BY LenProperties
<1>3. /\ <<d>> \o list \in Seq(Dest)
      /\ Len(<<d>> \o list) = 1 + Len(list)
      /\ \A i \in 1 .. 1 + Len(list) :
           (<<d>> \o list)[i] = IF i <= 1 THEN <<d>>[i] ELSE list[i - 1]
  BY <1>1, ConcatProperties
<1> QED
  BY <1>1, <1>2, <1>3 DEF AddDest

(* The pipes on the list after CFE_SB_AddDest; still none twice if the new  *)
(* one was not there.                                                      *)
LEMMA AddDestPipes ==
  ASSUME NEW list \in Seq(Dest), NEW d \in Dest
  PROVE  /\ \A q : HasDest(AddDest(list, d), q)
                     <=> q = d.PipeId \/ HasDest(list, q)
         /\ NoDup(list) /\ ~HasDest(list, d.PipeId) => NoDup(AddDest(list, d))
<1> DEFINE new == AddDest(list, d)
<1>1. /\ Len(list) \in Nat
      /\ DOMAIN list = 1 .. Len(list)
      /\ DOMAIN new = 1 .. Len(list) + 1
      /\ new[1] = d
      /\ \A i \in 1 .. Len(list) : new[i + 1] = list[i]
  BY AddDestLemma, LenProperties
<1>2. \A i \in DOMAIN new : i = 1 \/ (i - 1 \in DOMAIN list /\ new[i] = list[i - 1])
  BY <1>1
<1> HIDE DEF new
<1>3. ASSUME NEW q
      PROVE  HasDest(new, q) <=> q = d.PipeId \/ HasDest(list, q)
  BY <1>1, <1>2 DEF HasDest
<1>4. ASSUME NoDup(list), ~HasDest(list, d.PipeId)
      PROVE  NoDup(new)
  <2>1. SUFFICES ASSUME NEW i \in DOMAIN new, NEW j \in DOMAIN new,
                        new[i].PipeId = new[j].PipeId
                 PROVE  i = j
    BY DEF NoDup
  <2>2. CASE i = 1 \/ j = 1
    BY <2>1, <2>2, <1>1, <1>2, <1>4 DEF HasDest
  <2>3. CASE i # 1 /\ j # 1
    BY <2>1, <2>3, <1>1, <1>2, <1>4 DEF NoDup
  <2> QED
    BY <2>2, <2>3
<1> QED
  BY <1>3, <1>4 DEF new

(* CFE_SB_RemoveDest drops one node and keeps the others in their order.    *)
LEMMA RemoveDestLemma ==
  ASSUME NEW list \in Seq(Dest), NEW pos \in DOMAIN list
  PROVE  /\ RemoveDest(list, pos) \in Seq(Dest)
         /\ Len(RemoveDest(list, pos)) = Len(list) - 1
         /\ \A j \in 1 .. Len(list) - 1 :
              RemoveDest(list, pos)[j] = IF j < pos THEN list[j] ELSE list[j + 1]
<1>1. /\ Len(list) \in Nat
      /\ DOMAIN list = 1 .. Len(list)
      /\ \A i \in 1 .. Len(list) : list[i] \in Dest
  BY LenProperties, ElementOfSeq
<1>2. Len(list) - 1 \in Nat
  BY <1>1
<1>3. RemoveDest(list, pos) \in [1 .. Len(list) - 1 -> Dest]
  BY <1>1, <1>2 DEF RemoveDest
<1>4. RemoveDest(list, pos) \in Seq(Dest) /\ Len(RemoveDest(list, pos)) = Len(list) - 1
  BY <1>2, <1>3, FunctionIsSeq
<1> QED
  BY <1>4 DEF RemoveDest

(* DestPos finds the pipe's node on a list without duplicates.              *)
LEMMA DestPosLemma ==
  ASSUME NEW list \in Seq(Dest), NEW p, HasDest(list, p), NoDup(list)
  PROVE  /\ DestPos(list, p) \in DOMAIN list
         /\ list[DestPos(list, p)].PipeId = p
<1> DEFINE First(i) == list[i].PipeId = p /\ \A j \in 1 .. i - 1 : list[j].PipeId # p
<1>1. Len(list) \in Nat /\ DOMAIN list = 1 .. Len(list)
  BY LenProperties
<1>2. PICK i \in DOMAIN list : list[i].PipeId = p
  BY DEF HasDest
<1>3. First(i)
  BY <1>1, <1>2 DEF NoDup
<1>4. \E k \in DOMAIN list : First(k)
  BY <1>2, <1>3
<1> QED
  BY <1>4 DEF DestPos

(* The pipes on the list after CFE_SB_RemoveDest of the pipe's only node.   *)
LEMMA RemoveDestPipes ==
  ASSUME NEW list \in Seq(Dest), NEW p, HasDest(list, p), NoDup(list)
  PROVE  LET new == RemoveDest(list, DestPos(list, p))
         IN /\ \A q : HasDest(new, q) <=> HasDest(list, q) /\ q # p
            /\ NoDup(new)
<1> DEFINE pos == DestPos(list, p)
           new == RemoveDest(list, pos)
<1>1. /\ Len(list) \in Nat
      /\ DOMAIN list = 1 .. Len(list)
      /\ pos \in 1 .. Len(list)
      /\ list[pos].PipeId = p
  BY LenProperties, DestPosLemma
<1>2. /\ DOMAIN new = 1 .. Len(list) - 1
      /\ \A j \in 1 .. Len(list) - 1 :
           new[j] = IF j < pos THEN list[j] ELSE list[j + 1]
  <2>1. new \in Seq(Dest) /\ Len(new) = Len(list) - 1
    BY <1>1, RemoveDestLemma
  <2>2. DOMAIN new = 1 .. Len(list) - 1
    BY <2>1, LenProperties
  <2> QED
    BY <2>2, <1>1, RemoveDestLemma
<1> HIDE DEF pos, new
<1>3. \A i \in DOMAIN list : list[i].PipeId = p => i = pos
  BY <1>1 DEF NoDup
<1>4. \A j \in DOMAIN new : \E i \in DOMAIN list :
        i # pos /\ new[j] = list[i] /\ (i = j \/ i = j + 1)
  <2>1. SUFFICES ASSUME NEW j \in DOMAIN new
                 PROVE  \E i \in DOMAIN list :
                          i # pos /\ new[j] = list[i] /\ (i = j \/ i = j + 1)
    OBVIOUS
  <2>2. CASE j < pos
    BY <2>2, <1>1, <1>2
  <2>3. CASE ~(j < pos)
    <3>1. j + 1 \in DOMAIN list /\ j + 1 # pos /\ new[j] = list[j + 1]
      BY <2>3, <1>1, <1>2
    <3> QED
      BY <3>1
  <2> QED
    BY <2>2, <2>3
<1>5. \A i \in DOMAIN list : i # pos =>
        \E j \in DOMAIN new : new[j] = list[i]
  <2>1. SUFFICES ASSUME NEW i \in DOMAIN list, i # pos
                 PROVE  \E j \in DOMAIN new : new[j] = list[i]
    OBVIOUS
  <2>2. CASE i < pos
    <3>1. i \in DOMAIN new /\ new[i] = list[i]
      BY <2>2, <1>1, <1>2
    <3> QED
      BY <3>1
  <2>3. CASE i > pos
    <3>1. i - 1 \in DOMAIN new /\ new[i - 1] = list[i]
      BY <2>3, <1>1, <1>2
    <3> QED
      BY <3>1
  <2> QED
    BY <2>1, <2>2, <2>3, <1>1
<1>6. ASSUME NEW q
      PROVE  HasDest(new, q) <=> HasDest(list, q) /\ q # p
  BY <1>1, <1>3, <1>4, <1>5 DEF HasDest
<1>7. NoDup(new)
  <2>1. SUFFICES ASSUME NEW i \in DOMAIN new, NEW j \in DOMAIN new,
                        new[i].PipeId = new[j].PipeId
                 PROVE  i = j
    BY DEF NoDup
  <2>2. /\ new[i] = list[IF i < pos THEN i ELSE i + 1]
        /\ new[j] = list[IF j < pos THEN j ELSE j + 1]
        /\ (IF i < pos THEN i ELSE i + 1) \in DOMAIN list
        /\ (IF j < pos THEN j ELSE j + 1) \in DOMAIN list
    BY <1>1, <1>2
  <2>3. (IF i < pos THEN i ELSE i + 1) = (IF j < pos THEN j ELSE j + 1)
    BY <2>1, <2>2 DEF NoDup
  <2> QED
    BY <2>3, <1>1, <1>2
<1> QED
  BY <1>6, <1>7 DEF new, pos

(* Two lists with the same pipes in the same places.                       *)
SamePipes(old, new) ==
  /\ DOMAIN new = DOMAIN old
  /\ \A i \in DOMAIN old : new[i].PipeId = old[i].PipeId

(* Such lists name the same pipes, and neither or both name one twice.      *)
LEMMA SamePipesLemma ==
  ASSUME NEW old, NEW new, SamePipes(old, new)
  PROVE  /\ \A q : HasDest(new, q) <=> HasDest(old, q)
         /\ NoDup(old) => NoDup(new)
BY DEF SamePipes, HasDest, NoDup

-----------------------------------------------------------------------------
(* The message map and the free-index stack *)

(* The sets the statistics count are finite.                               *)
LEMMA FiniteSets ==
  RouteTypeOK => IsFiniteSet(MappedIds) /\ IsFiniteSet(Subscriptions)
<1> USE RouteTableAssumption
<1>1. IsFiniteSet(MappedIds)
  BY FS_Subset DEF MappedIds
<1>2. IsFiniteSet(RouteIdxs) /\ IsFiniteSet(Pipes)
  BY FS_Interval DEF RouteIdxs, Pipes
<1>3. IsFiniteSet(RouteIdxs \X Pipes)
  BY <1>2, FS_Product
<1>4. IsFiniteSet(Subscriptions)
  BY <1>3, FS_Subset DEF Subscriptions
<1> QED
  BY <1>1, <1>4

(* The tables CFE_SB_InitMsgMap and its siblings leave satisfy RouteInv.    *)
LEMMA InitInv == RouteInit => RouteInv
<1> SUFFICES ASSUME RouteInit PROVE RouteInv
  OBVIOUS
<1> USE RouteTableAssumption
<1>1. \A r \in RouteIdxs : RoutingTbl[r] =
        [MsgId |-> NoMsgId, SeqCnt |-> 0, Destinations |-> 0, ListHeadPtr |-> <<>>]
  BY DEF RouteInit
<1>2. <<>> \in Seq(Dest) /\ Len(<<>>) = 0 /\ DOMAIN <<>> = {}
  OBVIOUS
<1>3. RouteTypeOK
  BY <1>1, <1>2 DEF RouteInit, RouteTypeOK, RouteEntry, RouteIdxs, InvalidRouteIdx
<1>4. MappedIds = {} /\ MappedIdxs = {} /\ FreeIdxs = RouteIdxs
  BY DEF RouteInit, MappedIds, IsMapped, MappedIdxs, FreeIdxs, RouteIdxs
<1>5. RouteIdxConserved
  BY <1>4 DEF RouteIdxConserved, RouteInit, RouteIdxs
<1>6. RoutesWellFormed
  BY <1>1, <1>2, <1>4 DEF RoutesWellFormed
<1>7. Subscriptions = {}
  BY <1>1, <1>2 DEF Subscriptions, HasDest
<1>8. RouteStatsExact
  BY <1>4, <1>7, FS_EmptySet DEF RouteStatsExact, RouteInit
<1> QED
  BY <1>3, <1>5, <1>6, <1>8 DEF RouteInv

(* Popping a stack without duplicates removes its top entry from the set of *)
(* its entries; CFE_SB_RouteIdxPop_Unsync reads the top and moves it up.    *)
LEMMA PopLemma ==
  ASSUME NEW n \in Nat, NEW top \in 0 .. n - 1, NEW st,
         \A i, j \in top .. n - 1 : st[i] = st[j] => i = j
  PROVE  /\ top + 1 \in 0 .. n
         /\ \A i \in top + 1 .. n - 1 : i \in top .. n - 1
         /\ {st[i] : i \in top + 1 .. n - 1} = {st[i] : i \in top .. n - 1} \ {st[top]}
<1>1. /\ top + 1 \in 0 .. n
      /\ \A i \in top + 1 .. n - 1 : i \in top .. n - 1 /\ i # top
      /\ \A i \in top .. n - 1 : i = top \/ i \in top + 1 .. n - 1
      /\ top \in top .. n - 1
  OBVIOUS
<1>2. ASSUME NEW x
      PROVE  x \in {st[i] : i \in top + 1 .. n - 1}
               <=> x \in {st[i] : i \in top .. n - 1} \ {st[top]}
  BY <1>1
<1> QED
  BY <1>1, <1>2

(* Claiming a route for a message id keeps the indices conserved and the    *)
(* count of message ids exact; a route newly taken belonged to nobody.      *)
LEMMA ClaimLemma ==
  ASSUME RouteInv, NEW m \in MsgIds, IsMapped(m) \/ RouteIdxAvail,
         ClaimRoute(m), UNCHANGED RouteIdxStack
  PROVE  /\ MsgMap' \in [MsgIds -> RouteIdxs \cup {InvalidRouteIdx}]
         /\ RouteIdxTop' \in 0 .. MaxMsgIds
         /\ MsgIdsInUse' \in Int
         /\ RouteIdxConserved'
         /\ RouteFor(m) \in RouteIdxs
         /\ ~IsMapped(m) => RouteFor(m) \notin MappedIdxs
         /\ \A n \in MsgIds : MsgMap'[n] = IF n = m THEN RouteFor(m) ELSE MsgMap[n]
         /\ MappedIds' = MappedIds \cup {m}
         /\ MappedIdxs' = MappedIdxs \cup {RouteFor(m)}
         /\ MsgIdsInUse' = Cardinality(MappedIds') /\ RouteIdxTop' = MsgIdsInUse'
<1> USE RouteTableAssumption
<1>a. /\ MsgMap \in [MsgIds -> RouteIdxs \cup {InvalidRouteIdx}]
      /\ RouteIdxStack \in [RouteIdxs -> RouteIdxs]
      /\ RouteIdxTop \in 0 .. MaxMsgIds
      /\ MsgIdsInUse \in Int
      /\ MsgIdsInUse = Cardinality(MappedIds) /\ RouteIdxTop = MsgIdsInUse
      /\ IsFiniteSet(MappedIds)
  BY FiniteSets DEF RouteInv, RouteTypeOK, RouteStatsExact
<1>b. InvalidRouteIdx \notin RouteIdxs
  BY DEF InvalidRouteIdx, RouteIdxs
<1>1. CASE IsMapped(m)
  <2>1. UNCHANGED <<MsgMap, RouteIdxTop, MsgIdsInUse>>
    BY <1>1 DEF ClaimRoute
  <2>2. MappedIds' = MappedIds /\ MappedIdxs' = MappedIdxs /\ FreeIdxs' = FreeIdxs
    BY <2>1 DEF MappedIds, MappedIdxs, FreeIdxs, IsMapped
  <2>3. RouteFor(m) = MsgMap[m] /\ m \in MappedIds
    BY <1>1 DEF RouteFor, MappedIds
  <2>4. RouteFor(m) \in RouteIdxs /\ RouteFor(m) \in MappedIdxs
    BY <2>3, <1>a, <1>1 DEF MappedIdxs, IsMapped
  <2>5. RouteIdxConserved'
    BY <2>1, <2>2 DEF RouteInv, RouteIdxConserved
  <2> QED
    BY <1>a, <1>1, <2>1, <2>2, <2>3, <2>4, <2>5
<1>2. CASE ~IsMapped(m)
  <2> DEFINE r == RouteIdxStack[RouteIdxTop]
  <2>1. /\ MsgMap' = [MsgMap EXCEPT ![m] = r]
        /\ RouteIdxTop' = RouteIdxTop + 1
        /\ MsgIdsInUse' = MsgIdsInUse + 1
        /\ RouteIdxTop \in RouteIdxs
        /\ RouteFor(m) = r
        /\ m \notin MappedIds
    BY <1>a, <1>2 DEF ClaimRoute, RouteIdxAvail, RouteFor, RouteIdxs, MappedIds
  <2>2. r \in RouteIdxs /\ r \in FreeIdxs
    BY <1>a, <2>1 DEF FreeIdxs, RouteIdxs
  <2>3. r \notin MappedIdxs
    BY <2>2 DEF RouteInv, RouteIdxConserved
  <2>4. MappedIds' = MappedIds \cup {m}
    BY <1>a, <1>b, <2>1, <2>2 DEF MappedIds, IsMapped
  <2>5. \A n \in MsgIds : MsgMap'[n] = IF n = m THEN r ELSE MsgMap[n]
    BY <1>a, <2>1
  <2>6. MappedIdxs' = MappedIdxs \cup {r}
    BY <2>4, <2>5, <2>1 DEF MappedIdxs, MappedIds
  <2>7. /\ FreeIdxs' = FreeIdxs \ {r}
        /\ \A i \in RouteIdxTop + 1 .. MaxMsgIds - 1 : i \in RouteIdxTop .. MaxMsgIds - 1
        /\ RouteIdxTop + 1 \in 0 .. MaxMsgIds
    <3>1. \A i, j \in RouteIdxTop .. MaxMsgIds - 1 :
            RouteIdxStack[i] = RouteIdxStack[j] => i = j
      BY DEF RouteInv, RouteIdxConserved
    <3>2. FreeIdxs' = {RouteIdxStack[i] : i \in RouteIdxTop + 1 .. MaxMsgIds - 1}
      BY <2>1 DEF FreeIdxs
    <3>3. MaxMsgIds \in Nat /\ RouteIdxTop \in 0 .. MaxMsgIds - 1
      BY <2>1 DEF RouteIdxs
    <3>4. /\ RouteIdxTop + 1 \in 0 .. MaxMsgIds
          /\ \A i \in RouteIdxTop + 1 .. MaxMsgIds - 1 : i \in RouteIdxTop .. MaxMsgIds - 1
          /\ {RouteIdxStack[i] : i \in RouteIdxTop + 1 .. MaxMsgIds - 1} =
               {RouteIdxStack[i] : i \in RouteIdxTop .. MaxMsgIds - 1}
                 \ {RouteIdxStack[RouteIdxTop]}
      BY <3>1, <3>3, PopLemma, Zenon
    <3> QED
      BY <3>2, <3>4 DEF FreeIdxs
  <2>8. RouteIdxConserved'
    <3>1. \A i, j \in (RouteIdxTop .. MaxMsgIds - 1)' :
            RouteIdxStack'[i] = RouteIdxStack'[j] => i = j
      BY <2>1, <2>7 DEF RouteInv, RouteIdxConserved
    <3>2. \A k, n \in MappedIds' : MsgMap'[k] = MsgMap'[n] => k = n
      BY <2>3, <2>4, <2>5 DEF RouteInv, RouteIdxConserved, MappedIdxs, MappedIds
    <3>3. FreeIdxs' \cap MappedIdxs' = {}
      BY <2>6, <2>7 DEF RouteInv, RouteIdxConserved
    <3>4. FreeIdxs' \cup MappedIdxs' = RouteIdxs
      BY <2>2, <2>6, <2>7 DEF RouteInv, RouteIdxConserved
    <3> QED
      BY <3>1, <3>2, <3>3, <3>4 DEF RouteIdxConserved
  <2>9. MsgIdsInUse' = Cardinality(MappedIds') /\ RouteIdxTop' = MsgIdsInUse'
    BY <1>a, <2>1, <2>4, FS_AddElement
  <2>10. /\ MsgMap' \in [MsgIds -> RouteIdxs \cup {InvalidRouteIdx}]
         /\ RouteIdxTop' \in 0 .. MaxMsgIds
         /\ MsgIdsInUse' \in Int
    BY <1>a, <2>1, <2>2, <2>7
  <2> QED
    BY <2>1, <2>2, <2>3, <2>4, <2>5, <2>6, <2>8, <2>9, <2>10
<1> QED
  BY <1>1, <1>2

(* Giving a route back keeps the indices conserved and the count of message *)
(* ids exact: the top of the stack is above 0 while a message id is mapped. *)
LEMMA FreeLemma ==
  ASSUME RouteInv, NEW m \in MsgIds, IsMapped(m), FreeRoute(m)
  PROVE  /\ MsgMap' \in [MsgIds -> RouteIdxs \cup {InvalidRouteIdx}]
         /\ RouteIdxStack' \in [RouteIdxs -> RouteIdxs]
         /\ RouteIdxTop' \in 0 .. MaxMsgIds
         /\ MsgIdsInUse' \in Int
         /\ RouteIdxConserved'
         /\ \A n \in MsgIds : n # m => MsgMap'[n] = MsgMap[n]
         /\ MappedIds' = MappedIds \ {m}
         /\ MappedIdxs' = MappedIdxs \ {MsgMap[m]}
         /\ MsgIdsInUse' = Cardinality(MappedIds') /\ RouteIdxTop' = MsgIdsInUse'
<1> USE RouteTableAssumption
<1> DEFINE r == MsgMap[m]
<1>a. /\ MsgMap \in [MsgIds -> RouteIdxs \cup {InvalidRouteIdx}]
      /\ RouteIdxStack \in [RouteIdxs -> RouteIdxs]
      /\ RouteIdxTop \in 0 .. MaxMsgIds
      /\ MsgIdsInUse \in Int
      /\ MsgIdsInUse = Cardinality(MappedIds) /\ RouteIdxTop = MsgIdsInUse
      /\ IsFiniteSet(MappedIds)
  BY FiniteSets DEF RouteInv, RouteTypeOK, RouteStatsExact
<1>b. /\ \A i, j \in RouteIdxTop .. MaxMsgIds - 1 :
           RouteIdxStack[i] = RouteIdxStack[j] => i = j
      /\ \A k, n \in MappedIds : MsgMap[k] = MsgMap[n] => k = n
      /\ FreeIdxs \cap MappedIdxs = {}
      /\ FreeIdxs \cup MappedIdxs = RouteIdxs
  BY DEF RouteInv, RouteIdxConserved
<1>1. m \in MappedIds /\ r \in MappedIdxs /\ r \in RouteIdxs /\ r \notin FreeIdxs
  BY <1>a, <1>b DEF MappedIds, MappedIdxs, IsMapped
<1>2. RouteIdxTop > 0
  <2>1. Cardinality(MappedIds) # 0
    BY <1>a, <1>1, FS_EmptySet
  <2> QED
    BY <1>a, <2>1
<1>3. /\ MsgMap' = [MsgMap EXCEPT ![m] = InvalidRouteIdx]
      /\ RouteIdxTop' = RouteIdxTop - 1
      /\ RouteIdxStack' = [RouteIdxStack EXCEPT ![RouteIdxTop - 1] = r]
      /\ MsgIdsInUse' = MsgIdsInUse - 1
  BY <1>2 DEF FreeRoute, RouteIdxPush
<1>4. /\ MsgMap' \in [MsgIds -> RouteIdxs \cup {InvalidRouteIdx}]
      /\ \A n \in MsgIds : n # m => MsgMap'[n] = MsgMap[n]
      /\ MsgMap'[m] = InvalidRouteIdx
  BY <1>a, <1>3
<1>5. MappedIds' = MappedIds \ {m}
  BY <1>4 DEF MappedIds, IsMapped
<1>6. MappedIdxs' = MappedIdxs \ {r}
  <2>1. \A n \in MappedIds : n # m => MsgMap[n] # r
    BY <1>b, <1>1
  <2>2. \A n \in MappedIds' : n \in MappedIds /\ n # m /\ MsgMap'[n] = MsgMap[n]
    BY <1>4, <1>5 DEF MappedIds
  <2> QED
    BY <1>5, <2>1, <2>2 DEF MappedIdxs
<1>7. /\ RouteIdxTop - 1 \in 0 .. MaxMsgIds
      /\ RouteIdxStack' \in [0 .. MaxMsgIds - 1 -> RouteIdxs]
      /\ \A i, j \in RouteIdxTop - 1 .. MaxMsgIds - 1 :
           RouteIdxStack'[i] = RouteIdxStack'[j] => i = j
      /\ {RouteIdxStack'[i] : i \in RouteIdxTop - 1 .. MaxMsgIds - 1} =
           {RouteIdxStack[i] : i \in RouteIdxTop .. MaxMsgIds - 1} \cup {r}
  <2> DEFINE n == MaxMsgIds
             top == RouteIdxTop
             st == RouteIdxStack
             new == RouteIdxStack'
  <2>1. n \in Nat /\ top \in 1 .. n /\ st \in [0 .. n - 1 -> RouteIdxs] /\ r \in RouteIdxs
    BY <1>a, <1>1, <1>2 DEF RouteIdxs
  <2>2. /\ \A i \in top .. n - 1 : st[i] # r
        /\ \A i, j \in top .. n - 1 : st[i] = st[j] => i = j
    BY <1>b, <1>1 DEF FreeIdxs
  <2>3. new = [st EXCEPT ![top - 1] = r]
    BY <1>3
  <2> HIDE RouteTableAssumption DEF n, top, st, new, r
  <2>4. /\ top - 1 \in 0 .. n
        /\ top - 1 \in 0 .. n - 1
        /\ top - 1 \in top - 1 .. n - 1
        /\ \A i \in top - 1 .. n - 1 : i = top - 1 \/ i \in top .. n - 1
        /\ \A i \in top .. n - 1 :
             i \in top - 1 .. n - 1 /\ i # top - 1 /\ i \in 0 .. n - 1
    BY <2>1
  <2>5. /\ new \in [0 .. n - 1 -> RouteIdxs]
        /\ new[top - 1] = r
        /\ \A i \in top .. n - 1 : new[i] = st[i]
    BY <2>1, <2>3, <2>4
  <2>6. \A i, j \in top - 1 .. n - 1 : new[i] = new[j] => i = j
    BY <2>2, <2>4, <2>5
  <2>7. {new[i] : i \in top - 1 .. n - 1} = {st[i] : i \in top .. n - 1} \cup {r}
    BY <2>4, <2>5
  <2> QED
    BY <2>4, <2>5, <2>6, <2>7 DEF n, top, st, new
<1>8. FreeIdxs' = FreeIdxs \cup {r}
  BY <1>3, <1>7 DEF FreeIdxs
<1>9. RouteIdxConserved'
  <2>1. \A i, j \in (RouteIdxTop .. MaxMsgIds - 1)' :
          RouteIdxStack'[i] = RouteIdxStack'[j] => i = j
    BY <1>3, <1>7
  <2>2. \A k, n \in MappedIds' : MsgMap'[k] = MsgMap'[n] => k = n
    BY <1>b, <1>4, <1>5 DEF MappedIds
  <2>3. FreeIdxs' \cap MappedIdxs' = {} /\ FreeIdxs' \cup MappedIdxs' = RouteIdxs
    BY <1>b, <1>1, <1>6, <1>8
  <2> QED
    BY <2>1, <2>2, <2>3 DEF RouteIdxConserved
<1>10. MsgIdsInUse' = Cardinality(MappedIds') /\ RouteIdxTop' = MsgIdsInUse'
  BY <1>a, <1>1, <1>3, <1>5, FS_RemoveElement
<1>11. RouteIdxStack' \in [RouteIdxs -> RouteIdxs] /\ RouteIdxTop' \in 0 .. MaxMsgIds
  BY <1>3, <1>7 DEF RouteIdxs
<1> QED
  BY <1>a, <1>3, <1>4, <1>5, <1>6, <1>9, <1>10, <1>11

-----------------------------------------------------------------------------
(* The actions *)

(* RouteInv is about the routing variables only.                           *)
LEMMA StutterInv ==
  ASSUME RouteInv, UNCHANGED routeVars
  PROVE  RouteInv'
<1> USE DEF routeVars
<1>1. RouteTypeOK'
  BY DEF RouteInv, RouteTypeOK
<1>2. MappedIds' = MappedIds /\ MappedIdxs' = MappedIdxs /\ FreeIdxs' = FreeIdxs
  BY DEF MappedIds, MappedIdxs, FreeIdxs, IsMapped
<1>3. RouteIdxConserved'
  BY <1>2 DEF RouteInv, RouteIdxConserved
<1>4. RoutesWellFormed'
  BY <1>2 DEF RouteInv, RoutesWellFormed
<1>5. Subscriptions' = Subscriptions
  BY DEF Subscriptions
<1>6. RouteStatsExact'
  BY <1>2, <1>5 DEF RouteInv, RouteStatsExact
<1> QED
  BY <1>1, <1>3, <1>4, <1>6 DEF RouteInv

(* What RouteInv says of one routing table entry.                          *)
LEMMA EntryLemma ==
  ASSUME RouteInv, NEW r \in RouteIdxs
  PROVE  /\ RoutingTbl[r] \in RouteEntry
         /\ RoutingTbl[r].ListHeadPtr \in Seq(Dest)
         /\ RoutingTbl[r].Destinations \in Nat
         /\ RoutingTbl[r].Destinations = Len(RoutingTbl[r].ListHeadPtr)
         /\ RoutingTbl[r].Destinations <= MaxDest
         /\ NoDup(RoutingTbl[r].ListHeadPtr)
<1>1. RoutingTbl[r] \in RouteEntry
  BY DEF RouteInv, RouteTypeOK
<1>2. RoutingTbl[r].ListHeadPtr \in Seq(Dest) /\ RoutingTbl[r].Destinations \in Nat
  BY <1>1 DEF RouteEntry
<1> QED
  BY <1>1, <1>2 DEF RouteInv, RoutesWellFormed, NoDup

(* A step that changes counts and flags inside destination nodes, or a      *)
(* sequence count, and nothing else keeps RouteInv.                        *)
LEMMA ListUpdateLemma ==
  ASSUME RouteInv,
         RoutingTbl' \in [RouteIdxs -> RouteEntry],
         \A r \in RouteIdxs :
           /\ RoutingTbl'[r].MsgId = RoutingTbl[r].MsgId
           /\ RoutingTbl'[r].Destinations = RoutingTbl[r].Destinations
           /\ SamePipes(RoutingTbl[r].ListHeadPtr, RoutingTbl'[r].ListHeadPtr),
         UNCHANGED <<MsgMap, RouteIdxStack, RouteIdxTop, MsgIdsInUse,
                     SubscriptionsInUse>>
  PROVE  RouteInv'
<1>1. RouteTypeOK'
  BY DEF RouteInv, RouteTypeOK
<1>2. MappedIds' = MappedIds /\ MappedIdxs' = MappedIdxs /\ FreeIdxs' = FreeIdxs
  BY DEF MappedIds, MappedIdxs, FreeIdxs, IsMapped
<1>3. RouteIdxConserved'
  BY <1>2 DEF RouteInv, RouteIdxConserved
<1>4. \A r \in RouteIdxs :
        /\ NoDup(RoutingTbl'[r].ListHeadPtr)
        /\ \A q : HasDest(RoutingTbl'[r].ListHeadPtr, q)
                   <=> HasDest(RoutingTbl[r].ListHeadPtr, q)
  BY SamePipesLemma, EntryLemma
<1>5. \A r \in RouteIdxs :
        Len(RoutingTbl'[r].ListHeadPtr) = Len(RoutingTbl[r].ListHeadPtr)
  <2> SUFFICES ASSUME NEW r \in RouteIdxs
               PROVE  Len(RoutingTbl'[r].ListHeadPtr) = Len(RoutingTbl[r].ListHeadPtr)
    OBVIOUS
  <2>1. RoutingTbl[r].ListHeadPtr \in Seq(Dest)
    BY EntryLemma
  <2>2. RoutingTbl'[r].ListHeadPtr \in Seq(Dest)
    BY DEF RouteEntry
  <2> QED
    BY <2>1, <2>2, LenProperties DEF SamePipes
<1>6. \A r \in RouteIdxs : RoutingTbl[r].ListHeadPtr = <<>> =>
        RoutingTbl'[r].ListHeadPtr = <<>>
  <2> SUFFICES ASSUME NEW r \in RouteIdxs, RoutingTbl[r].ListHeadPtr = <<>>
               PROVE  RoutingTbl'[r].ListHeadPtr = <<>>
    OBVIOUS
  <2>1. RoutingTbl'[r].ListHeadPtr \in Seq(Dest) /\ Len(RoutingTbl'[r].ListHeadPtr) = 0
    BY <1>5 DEF RouteEntry
  <2> QED
    BY <2>1, EmptySeq
<1>7. RoutesWellFormed'
  <2>1. \A m \in MappedIds : MsgMap[m] \in RouteIdxs
    BY DEF MappedIds, IsMapped, RouteInv, RouteTypeOK
  <2>2. \A m \in MappedIds' : RoutingTbl'[MsgMap'[m]].MsgId = m
    BY <1>2, <2>1 DEF RouteInv, RoutesWellFormed
  <2>3. \A r \in RouteIdxs \ MappedIdxs' : RoutingTbl'[r].ListHeadPtr = <<>>
    BY <1>2, <1>6 DEF RouteInv, RoutesWellFormed
  <2> QED
    BY <2>2, <2>3, <1>4, <1>5, EntryLemma DEF RoutesWellFormed, NoDup
<1>8. Subscriptions' = Subscriptions
  BY <1>4 DEF Subscriptions
<1>9. RouteStatsExact'
  BY <1>2, <1>8 DEF RouteInv, RouteStatsExact
<1> QED
  BY <1>1, <1>3, <1>7, <1>9 DEF RouteInv

(* The same for one route: its entry is replaced by one with the same       *)
(* message id and the same pipes.                                          *)
LEMMA EntryUpdateLemma ==
  ASSUME RouteInv, NEW r \in RouteIdxs, NEW e \in RouteEntry,
         e.MsgId = RoutingTbl[r].MsgId,
         e.Destinations = RoutingTbl[r].Destinations,
         e.ListHeadPtr \in [DOMAIN RoutingTbl[r].ListHeadPtr -> Dest],
         \A i \in DOMAIN RoutingTbl[r].ListHeadPtr :
           e.ListHeadPtr[i].PipeId = RoutingTbl[r].ListHeadPtr[i].PipeId,
         RoutingTbl' = [RoutingTbl EXCEPT ![r] = e],
         UNCHANGED <<MsgMap, RouteIdxStack, RouteIdxTop, MsgIdsInUse,
                     SubscriptionsInUse>>
  PROVE  RouteInv'
<1>1. RoutingTbl \in [RouteIdxs -> RouteEntry]
  BY DEF RouteInv, RouteTypeOK
<1>2. RoutingTbl' \in [RouteIdxs -> RouteEntry]
  BY <1>1
<1>3. \A k \in RouteIdxs : RoutingTbl'[k] = IF k = r THEN e ELSE RoutingTbl[k]
  BY <1>1
<1>4. \A k \in RouteIdxs :
        /\ RoutingTbl'[k].MsgId = RoutingTbl[k].MsgId
        /\ RoutingTbl'[k].Destinations = RoutingTbl[k].Destinations
        /\ SamePipes(RoutingTbl[k].ListHeadPtr, RoutingTbl'[k].ListHeadPtr)
  BY <1>3 DEF SamePipes
<1> QED
  BY <1>2, <1>4, ListUpdateLemma

(* A message id's route is a routing table index.                          *)
LEMMA MappedRoute ==
  ASSUME RouteInv, NEW m \in MsgIds, IsMapped(m)
  PROVE  MsgMap[m] \in RouteIdxs /\ MsgMap[m] \in MappedIdxs /\ m \in MappedIds
BY DEF RouteInv, RouteTypeOK, IsMapped, MappedIds, MappedIdxs

(* CFE_SB_SendMsgFull keeps RouteInv.                                      *)
LEMMA CountSendInv ==
  ASSUME RouteInv, NEW m \in MsgIds, IsMapped(m), NEW incr \in BOOLEAN,
         NEW D, CountSend(m, incr, D)
  PROVE  RouteInv'
<1> DEFINE r == MsgMap[m]
           list == RoutingTbl[r].ListHeadPtr
           new == [i \in DOMAIN list |->
                     IF i \in D THEN [list[i] EXCEPT !.BuffCount = @ + 1] ELSE list[i]]
           seq == IF m \in Tlm /\ incr THEN (RoutingTbl[r].SeqCnt + 1) % SeqMod
                  ELSE RoutingTbl[r].SeqCnt
           e == [RoutingTbl[r] EXCEPT !.SeqCnt = seq, !.ListHeadPtr = new]
<1>1. r \in RouteIdxs
  BY MappedRoute
<1>2. RoutingTbl[r] \in RouteEntry /\ list \in Seq(Dest)
  BY <1>1, EntryLemma
<1>3. Len(list) \in Nat /\ DOMAIN list = 1 .. Len(list) /\ \A i \in DOMAIN list : list[i] \in Dest
  BY <1>2, LenProperties, ElementOfSeq
<1>4. new \in [DOMAIN list -> Dest] /\ \A i \in DOMAIN list : new[i].PipeId = list[i].PipeId
  <2>1. ASSUME NEW i \in DOMAIN list
        PROVE  /\ [list[i] EXCEPT !.BuffCount = @ + 1] \in Dest
               /\ [list[i] EXCEPT !.BuffCount = @ + 1].PipeId = list[i].PipeId
    BY <1>3 DEF Dest
  <2> QED
    BY <1>3, <2>1
<1>5. new \in Seq(Dest)
  BY <1>3, <1>4, FunctionIsSeq
<1>6. seq \in 0 .. SeqMod - 1
  BY <1>2, RouteTableAssumption DEF RouteEntry
<1>7. RoutingTbl' = [RoutingTbl EXCEPT ![r] = e]
  BY DEF CountSend
<1>8. UNCHANGED <<MsgMap, RouteIdxStack, RouteIdxTop, MsgIdsInUse, SubscriptionsInUse>>
  BY DEF CountSend
<1> HIDE DEF new, seq, list, r
<1>9. /\ e \in RouteEntry
      /\ e.MsgId = RoutingTbl[r].MsgId
      /\ e.Destinations = RoutingTbl[r].Destinations
      /\ e.ListHeadPtr = new
  BY <1>2, <1>5, <1>6 DEF RouteEntry
<1> HIDE DEF e
<1> QED
  BY <1>1, <1>4, <1>7, <1>8, <1>9, EntryUpdateLemma DEF list

(* One node of one list is replaced by another for the same pipe.          *)
LEMMA NodeUpdateLemma ==
  ASSUME RouteInv, NEW r \in RouteIdxs, NEW pos \in DOMAIN RoutingTbl[r].ListHeadPtr,
         NEW d \in Dest, d.PipeId = RoutingTbl[r].ListHeadPtr[pos].PipeId,
         RoutingTbl' = [RoutingTbl EXCEPT ![r].ListHeadPtr[pos] = d],
         UNCHANGED <<MsgMap, RouteIdxStack, RouteIdxTop, MsgIdsInUse,
                     SubscriptionsInUse>>
  PROVE  RouteInv'
<1> DEFINE list == RoutingTbl[r].ListHeadPtr
           new == [list EXCEPT ![pos] = d]
           e == [RoutingTbl[r] EXCEPT !.ListHeadPtr = new]
<1>1. RoutingTbl[r] \in RouteEntry /\ list \in Seq(Dest)
  BY EntryLemma
<1>2. Len(list) \in Nat /\ DOMAIN list = 1 .. Len(list) /\ list \in [DOMAIN list -> Dest]
  BY <1>1, LenProperties, ElementOfSeq
<1>3. new \in [DOMAIN list -> Dest] /\ \A i \in DOMAIN list : new[i].PipeId = list[i].PipeId
  BY <1>2
<1>4. new \in Seq(Dest)
  BY <1>2, <1>3, FunctionIsSeq
<1>5. RoutingTbl' = [RoutingTbl EXCEPT ![r] = e]
  OBVIOUS
<1> HIDE DEF new, list
<1>6. /\ e \in RouteEntry
      /\ e.MsgId = RoutingTbl[r].MsgId
      /\ e.Destinations = RoutingTbl[r].Destinations
      /\ e.ListHeadPtr = new
  BY <1>1, <1>4 DEF RouteEntry
<1> HIDE DEF e
<1> QED
  BY <1>3, <1>5, <1>6, EntryUpdateLemma DEF list

(* The node that CFE_SB_GetDestPtr finds for a subscription.               *)
LEMMA SubscribedNode ==
  ASSUME RouteInv, NEW m \in MsgIds, NEW p, Subscribed(m, p)
  PROVE  LET r   == MsgMap[m]
             pos == DestPos(RoutingTbl[r].ListHeadPtr, p)
         IN /\ r \in RouteIdxs
            /\ pos \in DOMAIN RoutingTbl[r].ListHeadPtr
            /\ RoutingTbl[r].ListHeadPtr[pos] \in Dest
            /\ RoutingTbl[r].ListHeadPtr[pos].PipeId = p
<1> DEFINE r == MsgMap[m]
           list == RoutingTbl[r].ListHeadPtr
           pos == DestPos(list, p)
<1>1. r \in RouteIdxs /\ HasDest(list, p)
  BY MappedRoute DEF Subscribed
<1>2. list \in Seq(Dest) /\ NoDup(list)
  BY <1>1, EntryLemma
<1>3. pos \in DOMAIN list /\ list[pos].PipeId = p
  BY <1>1, <1>2, DestPosLemma
<1>4. list[pos] \in Dest
  BY <1>2, <1>3, LenProperties, ElementOfSeq
<1> QED
  BY <1>1, <1>3, <1>4

(* CFE_SB_RcvMsg keeps RouteInv.                                           *)
LEMMA CountReceiveInv ==
  ASSUME RouteInv, NEW m \in MsgIds, NEW p \in Pipes, CountReceive(m, p)
  PROVE  RouteInv'
<1> DEFINE r == MsgMap[m]
           pos == DestPos(RoutingTbl[r].ListHeadPtr, p)
           old == RoutingTbl[r].ListHeadPtr[pos]
           d == [old EXCEPT !.BuffCount = IF @ > 0 THEN @ - 1 ELSE @]
<1>1. CASE ~Subscribed(m, p)
  BY <1>1, StutterInv DEF CountReceive
<1>2. CASE Subscribed(m, p)
  <2>1. r \in RouteIdxs /\ pos \in DOMAIN RoutingTbl[r].ListHeadPtr /\ old \in Dest
    BY <1>2, SubscribedNode
  <2>2. /\ RoutingTbl' = [RoutingTbl EXCEPT ![r].ListHeadPtr[pos] = d]
        /\ UNCHANGED <<MsgMap, RouteIdxStack, RouteIdxTop, MsgIdsInUse,
                        SubscriptionsInUse>>
    BY <1>2 DEF CountReceive
  <2>3. d \in Dest /\ d.PipeId = old.PipeId
    BY <2>1 DEF Dest
  <2> HIDE DEF d, pos, r
  <2> QED
    BY <2>1, <2>2, <2>3, NodeUpdateLemma
<1> QED
  BY <1>1, <1>2

(* The enable-route and disable-route commands keep RouteInv.              *)
LEMMA SetActiveInv ==
  ASSUME RouteInv, NEW m \in MsgIds, NEW p \in Pipes, NEW active \in BOOLEAN,
         SetActive(m, p, active)
  PROVE  RouteInv'
<1> DEFINE r == MsgMap[m]
           pos == DestPos(RoutingTbl[r].ListHeadPtr, p)
           old == RoutingTbl[r].ListHeadPtr[pos]
           d == [old EXCEPT !.Active = active]
<1>1. r \in RouteIdxs /\ pos \in DOMAIN RoutingTbl[r].ListHeadPtr /\ old \in Dest
  BY SubscribedNode DEF SetActive
<1>2. /\ RoutingTbl' = [RoutingTbl EXCEPT ![r].ListHeadPtr[pos] = d]
      /\ UNCHANGED <<MsgMap, RouteIdxStack, RouteIdxTop, MsgIdsInUse,
                      SubscriptionsInUse>>
  BY DEF SetActive
<1>3. d \in Dest /\ d.PipeId = old.PipeId
  BY <1>1 DEF Dest
<1> HIDE DEF d, pos, r
<1> QED
  BY <1>1, <1>2, <1>3, NodeUpdateLemma

(* The route a subscription uses, before the step: it has room, it does not *)
(* name the pipe, and only m may be mapped to it.                          *)
LEMMA AdmittedRoute ==
  ASSUME RouteInv, NEW m \in MsgIds, NEW p \in Pipes, SubscribeAdmits(m, p),
         ClaimRoute(m), UNCHANGED RouteIdxStack
  PROVE  LET r == RouteFor(m)
         IN /\ r \in RouteIdxs
            /\ ~HasDest(RoutingTbl[r].ListHeadPtr, p)
            /\ RoutingTbl[r].Destinations < MaxDest
            /\ IsMapped(m) => RoutingTbl[r].MsgId = m
            /\ \A n \in MappedIds : n # m => MsgMap[n] # r
<1> DEFINE r == RouteFor(m)
<1>1. /\ ~Subscribed(m, p)
      /\ IsMapped(m) \/ RouteIdxAvail
      /\ RoutingTbl[r].Destinations < MaxDest
  BY DEF SubscribeAdmits
<1>2. r \in RouteIdxs /\ (~IsMapped(m) => r \notin MappedIdxs)
  BY <1>1, ClaimLemma
<1>3. CASE IsMapped(m)
  <2>1. r = MsgMap[m] /\ m \in MappedIds
    BY <1>3 DEF RouteFor, MappedIds
  <2>2. ~HasDest(RoutingTbl[r].ListHeadPtr, p)
    BY <1>1, <1>3, <2>1 DEF Subscribed
  <2>3. RoutingTbl[r].MsgId = m
    BY <2>1 DEF RouteInv, RoutesWellFormed
  <2>4. \A n \in MappedIds : n # m => MsgMap[n] # r
    BY <2>1 DEF RouteInv, RouteIdxConserved
  <2> QED
    BY <1>1, <1>2, <2>2, <2>3, <2>4
<1>4. CASE ~IsMapped(m)
  <2>1. RoutingTbl[r].ListHeadPtr = <<>>
    BY <1>2, <1>4 DEF RouteInv, RoutesWellFormed
  <2>2. ~HasDest(RoutingTbl[r].ListHeadPtr, p)
    BY <2>1 DEF HasDest
  <2>3. \A n \in MappedIds : MsgMap[n] # r
    BY <1>2, <1>4 DEF MappedIdxs
  <2> QED
    BY <1>1, <1>2, <1>4, <2>2, <2>3
<1> QED
  BY <1>3, <1>4

(* Claiming a route for m and writing an entry for m into it keeps the      *)
(* tables well formed.                                                     *)
LEMMA ClaimedEntryLemma ==
  ASSUME RouteInv, NEW m \in MsgIds, NEW p \in Pipes, SubscribeAdmits(m, p),
         ClaimRoute(m), UNCHANGED RouteIdxStack,
         NEW e \in RouteEntry, e.MsgId = m,
         e.Destinations = Len(e.ListHeadPtr), e.Destinations <= MaxDest,
         NoDup(e.ListHeadPtr),
         RoutingTbl' = [RoutingTbl EXCEPT ![RouteFor(m)] = e],
         SubscriptionsInUse' \in Int
  PROVE  RouteTypeOK' /\ RouteIdxConserved' /\ RoutesWellFormed'
<1> DEFINE r == RouteFor(m)
<1>1. RoutingTbl \in [RouteIdxs -> RouteEntry] /\ RouteIdxStack \in [RouteIdxs -> RouteIdxs]
  BY DEF RouteInv, RouteTypeOK
<1>2. IsMapped(m) \/ RouteIdxAvail
  BY DEF SubscribeAdmits
<1>3. /\ MsgMap' \in [MsgIds -> RouteIdxs \cup {InvalidRouteIdx}]
      /\ RouteIdxTop' \in 0 .. MaxMsgIds
      /\ MsgIdsInUse' \in Int
      /\ RouteIdxConserved'
      /\ \A n \in MsgIds : MsgMap'[n] = IF n = m THEN r ELSE MsgMap[n]
      /\ MappedIds' = MappedIds \cup {m}
      /\ MappedIdxs' = MappedIdxs \cup {r}
  BY <1>2, ClaimLemma
<1>4. r \in RouteIdxs /\ \A n \in MappedIds : n # m => MsgMap[n] # r
  BY AdmittedRoute
<1> HIDE DEF r
<1>5. \A k \in RouteIdxs : RoutingTbl'[k] = IF k = r THEN e ELSE RoutingTbl[k]
  BY <1>1 DEF r
<1>6. RouteTypeOK'
  BY <1>1, <1>3, <1>4 DEF RouteTypeOK, r
<1>7. \A n \in MappedIds' : RoutingTbl'[MsgMap'[n]].MsgId = n
  <2>1. SUFFICES ASSUME NEW n \in MappedIds'
                 PROVE  RoutingTbl'[MsgMap'[n]].MsgId = n
    OBVIOUS
  <2>2. CASE n = m
    BY <2>2, <1>3, <1>4, <1>5
  <2>3. CASE n # m
    <3>1. n \in MappedIds /\ n \in MsgIds /\ IsMapped(n)
      BY <2>1, <2>3, <1>3 DEF MappedIds
    <3>2. MsgMap'[n] = MsgMap[n] /\ MsgMap[n] # r /\ MsgMap[n] \in RouteIdxs
      BY <2>3, <3>1, <1>3, <1>4, MappedRoute
    <3>3. RoutingTbl[MsgMap[n]].MsgId = n
      BY <3>1 DEF RouteInv, RoutesWellFormed
    <3> QED
      BY <3>2, <3>3, <1>5
  <2> QED
    BY <2>2, <2>3
<1>8. \A k \in RouteIdxs \ MappedIdxs' : RoutingTbl'[k].ListHeadPtr = <<>>
  BY <1>3, <1>5 DEF RouteInv, RoutesWellFormed
<1>9. \A k \in RouteIdxs :
        /\ RoutingTbl'[k].Destinations = Len(RoutingTbl'[k].ListHeadPtr)
        /\ RoutingTbl'[k].Destinations <= MaxDest
        /\ NoDup(RoutingTbl'[k].ListHeadPtr)
  BY <1>5, EntryLemma
<1>10. RoutesWellFormed'
  BY <1>7, <1>8, <1>9 DEF RoutesWellFormed, NoDup
<1> QED
  BY <1>3, <1>6, <1>10

(* CFE_SB_SubscribeFull keeps RouteInv when it adds a destination.          *)
LEMMA AddSubscriptionInv ==
  ASSUME RouteInv, NEW m \in MsgIds, NEW p \in Pipes, NEW lim \in MsgLims,
         NEW scope \in Scopes, AddSubscription(m, p, lim, scope)
  PROVE  RouteInv'
<1> DEFINE r == RouteFor(m)
           list == RoutingTbl[r].ListHeadPtr
           d == NewDest(p, lim, scope)
           new == AddDest(list, d)
           e == [RoutingTbl[r] EXCEPT
                   !.MsgId = IF IsMapped(m) THEN RoutingTbl[r].MsgId ELSE m,
                   !.Destinations = RoutingTbl[r].Destinations + 1,
                   !.ListHeadPtr = new]
<1>1. /\ SubscribeAdmits(m, p) /\ ClaimRoute(m) /\ UNCHANGED RouteIdxStack
      /\ RoutingTbl' = [RoutingTbl EXCEPT ![r] = e]
      /\ SubscriptionsInUse' = SubscriptionsInUse + 1
  BY DEF AddSubscription
<1>2. /\ r \in RouteIdxs
      /\ ~HasDest(list, p)
      /\ RoutingTbl[r].Destinations < MaxDest
      /\ IsMapped(m) => RoutingTbl[r].MsgId = m
  BY <1>1, AdmittedRoute
<1>3. /\ RoutingTbl[r] \in RouteEntry
      /\ list \in Seq(Dest)
      /\ RoutingTbl[r].Destinations \in Nat
      /\ RoutingTbl[r].Destinations = Len(list)
      /\ NoDup(list)
  BY <1>2, EntryLemma
<1>4. d \in Dest /\ d.PipeId = p
  BY DEF NewDest, Dest
<1>5. /\ new \in Seq(Dest) /\ Len(new) = Len(list) + 1 /\ NoDup(new)
      /\ \A q : HasDest(new, q) <=> q = p \/ HasDest(list, q)
  <2> HIDE DEF list, d
  <2>1. new \in Seq(Dest) /\ Len(new) = Len(list) + 1
    BY <1>3, <1>4, AddDestLemma
  <2>2. /\ \A q : HasDest(new, q) <=> q = d.PipeId \/ HasDest(list, q)
        /\ NoDup(list) /\ ~HasDest(list, d.PipeId) => NoDup(new)
    BY <1>3, <1>4, AddDestPipes
  <2> QED
    BY <1>2, <1>3, <1>4, <2>1, <2>2
<1>6. SubscriptionsInUse \in Int /\ SubscriptionsInUse = Cardinality(Subscriptions)
      /\ RoutingTbl \in [RouteIdxs -> RouteEntry]
  BY DEF RouteInv, RouteTypeOK, RouteStatsExact
<1> HIDE DEF new, list, d, r
<1>7. /\ e \in RouteEntry /\ e.MsgId = m /\ e.ListHeadPtr = new
      /\ e.Destinations = Len(new) /\ e.Destinations <= MaxDest
  <2>1. /\ e.MsgId = IF IsMapped(m) THEN RoutingTbl[r].MsgId ELSE m
        /\ e.ListHeadPtr = new
        /\ e.Destinations = RoutingTbl[r].Destinations + 1
    BY <1>3 DEF RouteEntry
  <2>2. e.MsgId = m /\ e.Destinations = Len(new) /\ e.Destinations <= MaxDest
    BY <1>2, <1>3, <1>5, <2>1, RouteTableAssumption
  <2>3. /\ (IF IsMapped(m) THEN RoutingTbl[r].MsgId ELSE m) \in MsgIds \cup {NoMsgId}
        /\ RoutingTbl[r].Destinations + 1 \in Nat
    BY <1>2, <1>3
  <2>4. RoutingTbl[r] \in RouteEntry /\ new \in Seq(Dest)
    BY <1>3, <1>5
  <2>5. e \in RouteEntry
    BY ONLY <2>3, <2>4 DEF RouteEntry, e
  <2> QED
    BY <2>1, <2>2, <2>5
<1> HIDE DEF e
<1>8. RouteTypeOK' /\ RouteIdxConserved' /\ RoutesWellFormed'
  <2>1. /\ e.Destinations = Len(e.ListHeadPtr)
        /\ NoDup(e.ListHeadPtr)
        /\ RoutingTbl' = [RoutingTbl EXCEPT ![RouteFor(m)] = e]
        /\ SubscriptionsInUse' \in Int
    BY <1>1, <1>5, <1>6, <1>7 DEF r
  <2> QED
    BY <1>1, <1>7, <2>1, ClaimedEntryLemma
<1>9. \A k \in RouteIdxs : RoutingTbl'[k] = IF k = r THEN e ELSE RoutingTbl[k]
  BY <1>1, <1>6
<1>10. Subscriptions' = Subscriptions \cup {<<r, p>>} /\ <<r, p>> \notin Subscriptions
  <2>1. ASSUME NEW k \in RouteIdxs, NEW q \in Pipes
        PROVE  HasDest(RoutingTbl'[k].ListHeadPtr, q)
                 <=> HasDest(RoutingTbl[k].ListHeadPtr, q) \/ <<k, q>> = <<r, p>>
    BY <1>5, <1>7, <1>9 DEF list
  <2>2. <<r, p>> \in RouteIdxs \X Pipes
    BY <1>2
  <2> QED
    BY <1>2, <2>1, <2>2 DEF Subscriptions, list
<1>11. SubscriptionsInUse' = Cardinality(Subscriptions')
  <2>1. IsFiniteSet(Subscriptions)
    BY FiniteSets DEF RouteInv
  <2>2. Cardinality(Subscriptions \cup {<<r, p>>}) = Cardinality(Subscriptions) + 1
    BY <2>1, <1>10, FS_AddElement
  <2> QED
    BY <1>1, <1>6, <1>10, <2>2
<1>12. MsgIdsInUse' = Cardinality(MappedIds') /\ RouteIdxTop' = MsgIdsInUse'
  BY <1>1, ClaimLemma DEF SubscribeAdmits
<1> QED
  BY <1>8, <1>11, <1>12 DEF RouteInv, RouteStatsExact

(* CFE_SB_SubscribeFull keeps RouteInv when the destination pool is empty.  *)
LEMMA SubscribeNoBlockInv ==
  ASSUME RouteInv, NEW m \in MsgIds, NEW p \in Pipes, SubscribeNoBlock(m, p)
  PROVE  RouteInv'
<1> DEFINE r == RouteFor(m)
           e == [RoutingTbl[r] EXCEPT
                   !.MsgId = IF IsMapped(m) THEN RoutingTbl[r].MsgId ELSE m]
<1>1. /\ SubscribeAdmits(m, p) /\ ClaimRoute(m) /\ UNCHANGED RouteIdxStack
      /\ RoutingTbl' = [RoutingTbl EXCEPT ![r] = e]
      /\ SubscriptionsInUse' = SubscriptionsInUse
  BY DEF SubscribeNoBlock
<1>2. r \in RouteIdxs /\ (IsMapped(m) => RoutingTbl[r].MsgId = m)
  BY <1>1, AdmittedRoute
<1>3. /\ RoutingTbl[r] \in RouteEntry
      /\ RoutingTbl[r].Destinations = Len(RoutingTbl[r].ListHeadPtr)
      /\ RoutingTbl[r].Destinations <= MaxDest
      /\ NoDup(RoutingTbl[r].ListHeadPtr)
  BY <1>2, EntryLemma
<1>4. SubscriptionsInUse \in Int /\ SubscriptionsInUse = Cardinality(Subscriptions)
      /\ RoutingTbl \in [RouteIdxs -> RouteEntry]
  BY DEF RouteInv, RouteTypeOK, RouteStatsExact
<1> HIDE DEF r
<1>5. /\ e \in RouteEntry /\ e.MsgId = m
      /\ e.ListHeadPtr = RoutingTbl[r].ListHeadPtr
      /\ e.Destinations = RoutingTbl[r].Destinations
  BY <1>2, <1>3 DEF RouteEntry
<1> HIDE DEF e
<1>6. RouteTypeOK' /\ RouteIdxConserved' /\ RoutesWellFormed'
  BY <1>1, <1>3, <1>4, <1>5, ClaimedEntryLemma DEF r
<1>7. \A k \in RouteIdxs : RoutingTbl'[k].ListHeadPtr = RoutingTbl[k].ListHeadPtr
  BY <1>1, <1>4, <1>5
<1>8. Subscriptions' = Subscriptions
  BY <1>7 DEF Subscriptions
<1>9. MsgIdsInUse' = Cardinality(MappedIds') /\ RouteIdxTop' = MsgIdsInUse'
  BY <1>1, ClaimLemma DEF SubscribeAdmits
<1> QED
  BY <1>1, <1>4, <1>6, <1>8, <1>9 DEF RouteInv, RouteStatsExact

(* CFE_SB_UnsubscribeFull keeps RouteInv, whether or not the pipe is on the *)
(* list and whether or not it was the last one there.                      *)
LEMMA RemoveSubscriptionInv ==
  ASSUME RouteInv, NEW m \in MsgIds, NEW p \in Pipes, RemoveSubscription(m, p)
  PROVE  RouteInv'
<1> DEFINE r == MsgMap[m]
           list == RoutingTbl[r].ListHeadPtr
           left == RoutingTbl[r].Destinations - 1
           new == RemoveDest(list, DestPos(list, p))
           e == [RoutingTbl[r] EXCEPT !.Destinations = left, !.ListHeadPtr = new]
<1>1. CASE ~HasDest(list, p)
  BY <1>1, StutterInv DEF RemoveSubscription
<1>2. CASE HasDest(list, p)
  <2>1. /\ IsMapped(m)
        /\ RoutingTbl' = [RoutingTbl EXCEPT ![r] = e]
        /\ SubscriptionsInUse' = SubscriptionsInUse - 1
        /\ IF left = 0 THEN FreeRoute(m)
           ELSE UNCHANGED <<MsgMap, RouteIdxStack, RouteIdxTop, MsgIdsInUse>>
    BY <1>2 DEF RemoveSubscription
  <2>2. r \in RouteIdxs /\ r \in MappedIdxs /\ m \in MappedIds
    BY <2>1, MappedRoute
  <2>3. /\ RoutingTbl[r] \in RouteEntry
        /\ list \in Seq(Dest)
        /\ RoutingTbl[r].Destinations \in Nat
        /\ RoutingTbl[r].Destinations = Len(list)
        /\ RoutingTbl[r].Destinations <= MaxDest
        /\ NoDup(list)
    BY <2>2, EntryLemma
  <2>4. RoutingTbl[r].MsgId = m
    BY <2>2 DEF RouteInv, RoutesWellFormed
  <2>5. /\ new \in Seq(Dest) /\ Len(new) = left /\ left \in Nat /\ NoDup(new)
        /\ \A q : HasDest(new, q) <=> HasDest(list, q) /\ q # p
    <3> HIDE DEF list
    <3>1. DestPos(list, p) \in DOMAIN list
      BY <1>2, <2>3, DestPosLemma
    <3>2. new \in Seq(Dest) /\ Len(new) = Len(list) - 1
      BY <2>3, <3>1, RemoveDestLemma
    <3>3. NoDup(new) /\ \A q : HasDest(new, q) <=> HasDest(list, q) /\ q # p
      BY <1>2, <2>3, RemoveDestPipes
    <3>4. Len(new) \in Nat
      BY <3>2, LenProperties
    <3> QED
      BY <2>3, <3>2, <3>3, <3>4
  <2>6. /\ RoutingTbl \in [RouteIdxs -> RouteEntry]
        /\ RouteIdxStack \in [RouteIdxs -> RouteIdxs]
        /\ MsgMap \in [MsgIds -> RouteIdxs \cup {InvalidRouteIdx}]
        /\ RouteIdxTop \in 0 .. MaxMsgIds
        /\ MsgIdsInUse \in Int
        /\ SubscriptionsInUse \in Int
        /\ SubscriptionsInUse = Cardinality(Subscriptions)
    BY DEF RouteInv, RouteTypeOK, RouteStatsExact
  <2> HIDE DEF new, left, list, r
  <2>7. e \in RouteEntry
    BY ONLY <2>3, <2>5 DEF RouteEntry, e
  <2>8. e.MsgId = m /\ e.Destinations = left /\ e.ListHeadPtr = new
    BY ONLY <2>3, <2>4 DEF RouteEntry, e
  <2>9. left <= MaxDest
    BY <2>3, RouteTableAssumption DEF left
  <2> HIDE DEF e
  <2>10. \A k \in RouteIdxs : RoutingTbl'[k] = IF k = r THEN e ELSE RoutingTbl[k]
    BY <2>1, <2>6
  <2>11. /\ RouteIdxStack' \in [RouteIdxs -> RouteIdxs]
         /\ MsgMap' \in [MsgIds -> RouteIdxs \cup {InvalidRouteIdx}]
         /\ RouteIdxTop' \in 0 .. MaxMsgIds
         /\ MsgIdsInUse' \in Int
         /\ RouteIdxConserved'
         /\ MsgIdsInUse' = Cardinality(MappedIds') /\ RouteIdxTop' = MsgIdsInUse'
         /\ \A n \in MappedIds' : n \in MappedIds /\ MsgMap'[n] = MsgMap[n]
         /\ \A k \in RouteIdxs \ MappedIdxs' :
              k \in RouteIdxs \ MappedIdxs \/ (k = r /\ left = 0)
    <3>1. CASE left = 0
      <4>1. FreeRoute(m)
        BY <2>1, <3>1
      <4>2. /\ RouteIdxStack' \in [RouteIdxs -> RouteIdxs]
            /\ MsgMap' \in [MsgIds -> RouteIdxs \cup {InvalidRouteIdx}]
            /\ RouteIdxTop' \in 0 .. MaxMsgIds
            /\ MsgIdsInUse' \in Int
            /\ RouteIdxConserved'
            /\ MsgIdsInUse' = Cardinality(MappedIds') /\ RouteIdxTop' = MsgIdsInUse'
            /\ \A n \in MsgIds : n # m => MsgMap'[n] = MsgMap[n]
            /\ MappedIds' = MappedIds \ {m}
            /\ MappedIdxs' = MappedIdxs \ {r}
        BY <2>1, <4>1, FreeLemma DEF r
      <4>3. \A n \in MappedIds : n \in MsgIds
        BY DEF MappedIds
      <4> QED
        BY <3>1, <4>2, <4>3
    <3>2. CASE left # 0
      <4>1. UNCHANGED <<MsgMap, RouteIdxStack, RouteIdxTop, MsgIdsInUse>>
        BY <2>1, <3>2
      <4>2. MappedIds' = MappedIds /\ MappedIdxs' = MappedIdxs /\ FreeIdxs' = FreeIdxs
        BY <4>1 DEF MappedIds, MappedIdxs, FreeIdxs, IsMapped
      <4>3. RouteIdxConserved'
        BY <4>1, <4>2 DEF RouteInv, RouteIdxConserved
      <4>4. MsgIdsInUse' = Cardinality(MappedIds') /\ RouteIdxTop' = MsgIdsInUse'
        BY <4>1, <4>2 DEF RouteInv, RouteStatsExact
      <4> QED
        BY <2>6, <4>1, <4>2, <4>3, <4>4
    <3> QED
      BY <3>1, <3>2
  <2>12. RouteTypeOK'
    BY <2>1, <2>2, <2>6, <2>7, <2>11 DEF RouteTypeOK
  <2>13. RoutesWellFormed'
    <3>1. ASSUME NEW n \in MappedIds'
          PROVE  RoutingTbl'[MsgMap'[n]].MsgId = n
      <4>1. n \in MappedIds /\ MsgMap'[n] = MsgMap[n] /\ RoutingTbl[MsgMap[n]].MsgId = n
        BY <2>11 DEF RouteInv, RoutesWellFormed
      <4>2. MsgMap[n] \in RouteIdxs
        BY <4>1, MappedRoute DEF MappedIds
      <4> QED
        BY <2>4, <2>8, <2>10, <4>1, <4>2
    <3>2. ASSUME NEW k \in RouteIdxs \ MappedIdxs'
          PROVE  RoutingTbl'[k].ListHeadPtr = <<>>
      <4>1. CASE k \in RouteIdxs \ MappedIdxs
        BY <2>2, <2>10, <4>1 DEF RouteInv, RoutesWellFormed
      <4>2. CASE k = r /\ left = 0
        BY <2>2, <2>5, <2>8, <2>10, <4>2, EmptySeq
      <4> QED
        BY <2>11, <4>1, <4>2
    <3>3. \A k \in RouteIdxs :
            /\ RoutingTbl'[k].Destinations = Len(RoutingTbl'[k].ListHeadPtr)
            /\ RoutingTbl'[k].Destinations <= MaxDest
            /\ NoDup(RoutingTbl'[k].ListHeadPtr)
      BY <2>5, <2>8, <2>9, <2>10, EntryLemma
    <3> QED
      BY <3>1, <3>2, <3>3 DEF RoutesWellFormed, NoDup
  <2>14. Subscriptions' = Subscriptions \ {<<r, p>>} /\ <<r, p>> \in Subscriptions
    <3>1. ASSUME NEW k \in RouteIdxs, NEW q \in Pipes
          PROVE  HasDest(RoutingTbl'[k].ListHeadPtr, q)
                   <=> HasDest(RoutingTbl[k].ListHeadPtr, q) /\ <<k, q>> # <<r, p>>
      BY <2>5, <2>8, <2>10 DEF list
    <3>2. <<r, p>> \in RouteIdxs \X Pipes
      BY <2>2
    <3> QED
      BY <1>2, <3>1, <3>2 DEF Subscriptions, list
  <2>15. SubscriptionsInUse' = Cardinality(Subscriptions')
    <3>1. IsFiniteSet(Subscriptions)
      BY FiniteSets DEF RouteInv
    <3>2. Cardinality(Subscriptions \ {<<r, p>>}) = Cardinality(Subscriptions) - 1
      BY <3>1, <2>14, FS_RemoveElement
    <3> QED
      BY <2>1, <2>6, <2>14, <3>2
  <2> QED
    BY <2>11, <2>12, <2>13, <2>15 DEF RouteInv, RouteStatsExact
<1> QED
  BY <1>1, <1>2

-----------------------------------------------------------------------------
(* The theorems *)

(* Every step of the routing state preserves RouteInv.                      *)
LEMMA RouteStepInv ==
  ASSUME RouteInv, [RouteNext]_routeVars
  PROVE  RouteInv'
<1>1. CASE UNCHANGED routeVars
  BY <1>1, StutterInv
<1>2. CASE RouteNext
  <2>1. PICK m \in MsgIds :
          \/ \E p \in Pipes :
               \/ \E lim \in MsgLims, scope \in Scopes : AddSubscription(m, p, lim, scope)
               \/ SubscribeNoBlock(m, p)
               \/ RemoveSubscription(m, p)
               \/ CountReceive(m, p)
               \/ \E active \in BOOLEAN : SetActive(m, p, active)
          \/ IsMapped(m) /\ \E incr \in BOOLEAN, D \in SUBSET BelowLimit(m) :
               CountSend(m, incr, D)
    BY <1>2 DEF RouteNext
  <2>2. ASSUME NEW p \in Pipes, NEW lim \in MsgLims, NEW scope \in Scopes,
               AddSubscription(m, p, lim, scope)
        PROVE  RouteInv'
    BY <2>2, AddSubscriptionInv
  <2>3. ASSUME NEW p \in Pipes, SubscribeNoBlock(m, p)
        PROVE  RouteInv'
    BY <2>3, SubscribeNoBlockInv
  <2>4. ASSUME NEW p \in Pipes, RemoveSubscription(m, p)
        PROVE  RouteInv'
    BY <2>4, RemoveSubscriptionInv
  <2>5. ASSUME NEW p \in Pipes, CountReceive(m, p)
        PROVE  RouteInv'
    BY <2>5, CountReceiveInv
  <2>6. ASSUME NEW p \in Pipes, NEW active \in BOOLEAN, SetActive(m, p, active)
        PROVE  RouteInv'
    BY <2>6, SetActiveInv
  <2>7. ASSUME IsMapped(m), NEW incr \in BOOLEAN, NEW D \in SUBSET BelowLimit(m),
               CountSend(m, incr, D)
        PROVE  RouteInv'
    BY <2>7, CountSendInv
  <2> QED
    BY <2>1, <2>2, <2>3, <2>4, <2>5, <2>6, <2>7
<1> QED
  BY <1>1, <1>2

(* RouteInv is an inductive invariant of the routing state.                *)
THEOREM RouteInvariance == RouteSpec => []RouteInv
  BY InitInv, RouteStepInv, PTL DEF RouteSpec

(* The routing variables keep their types; in particular the stack top stays *)
(* within 0 .. CFE_PLATFORM_SB_MAX_MSG_IDS and every mapped index is one of  *)
(* the routing table's.                                                    *)
THEOREM RouteTypeCorrect == RouteSpec => []RouteTypeOK
<1>1. RouteInv => RouteTypeOK
  BY DEF RouteInv
<1> QED
  BY <1>1, RouteInvariance, PTL

(* No routing table index is lost or handed out twice by                   *)
(* CFE_SB_RouteIdxPop_Unsync and CFE_SB_RouteIdxPush_Unsync.                *)
THEOREM RouteIndicesConserved == RouteSpec => []RouteIdxConserved
<1>1. RouteInv => RouteIdxConserved
  BY DEF RouteInv
<1> QED
  BY <1>1, RouteInvariance, PTL

(* Every route's list is its message id's, without duplicate pipes, as long *)
(* as its Destinations count says and never above the configured maximum.  *)
THEOREM RouteListsWellFormed == RouteSpec => []RoutesWellFormed
<1>1. RouteInv => RoutesWellFormed
  BY DEF RouteInv
<1> QED
  BY <1>1, RouteInvariance, PTL

(* The statistics packet's MsgIdsInUse and SubscriptionsInUse agree with    *)
(* the tables after every sequence of calls.                               *)
THEOREM RouteStatisticsExact == RouteSpec => []RouteStatsExact
<1>1. RouteInv => RouteStatsExact
  BY DEF RouteInv
<1> QED
  BY <1>1, RouteInvariance, PTL

-----------------------------------------------------------------------------
(* Messages in transit per subscription *)

WithinLimit(list) ==
  \A i \in DOMAIN list : list[i].BuffCount <= list[i].MsgId2PipeLim

(* A step that changes at most one list, to one within its limits.          *)
LEMMA OneListWithinLimit ==
  ASSUME RoutingTbl \in [RouteIdxs -> RouteEntry], BuffCountWithinLimit,
         NEW r \in RouteIdxs, NEW e, RoutingTbl' = [RoutingTbl EXCEPT ![r] = e],
         WithinLimit(e.ListHeadPtr)
  PROVE  BuffCountWithinLimit'
<1>1. \A k \in RouteIdxs : RoutingTbl'[k] = IF k = r THEN e ELSE RoutingTbl[k]
  OBVIOUS
<1> QED
  BY <1>1 DEF BuffCountWithinLimit, WithinLimit

(* The same when one node of a list is replaced by one within its limit.    *)
LEMMA OneNodeWithinLimit ==
  ASSUME RouteInv, BuffCountWithinLimit,
         NEW r \in RouteIdxs, NEW pos \in DOMAIN RoutingTbl[r].ListHeadPtr,
         NEW d, d.BuffCount <= d.MsgId2PipeLim,
         RoutingTbl' = [RoutingTbl EXCEPT ![r].ListHeadPtr[pos] = d]
  PROVE  BuffCountWithinLimit'
<1> DEFINE list == RoutingTbl[r].ListHeadPtr
           new == [list EXCEPT ![pos] = d]
           e == [RoutingTbl[r] EXCEPT !.ListHeadPtr = new]
<1>1. RoutingTbl' = [RoutingTbl EXCEPT ![r] = e]
  OBVIOUS
<1>2. RoutingTbl \in [RouteIdxs -> RouteEntry] /\ RoutingTbl[r] \in RouteEntry
  BY EntryLemma DEF RouteInv, RouteTypeOK
<1>3. e.ListHeadPtr = new
  BY <1>2 DEF RouteEntry
<1>4. WithinLimit(list)
  BY DEF WithinLimit, BuffCountWithinLimit
<1>5. WithinLimit(new)
  <2> HIDE DEF list
  <2>1. DOMAIN new = DOMAIN list /\ \A i \in DOMAIN list : new[i] = IF i = pos THEN d ELSE list[i]
    BY DEF list
  <2> QED
    BY <1>4, <2>1 DEF WithinLimit
<1> HIDE DEF new, e
<1> QED
  BY <1>1, <1>2, <1>3, <1>5, OneListWithinLimit

(* The test against MsgId2PipeLim in CFE_SB_SendMsgFull and the guarded     *)
(* decrement in CFE_SB_RcvMsg keep every subscription's count of messages   *)
(* in transit within the limit it was made with.                           *)
THEOREM MessageLimitRespected == RouteSpec => []BuffCountWithinLimit
<1> USE RouteTableAssumption
<1>1. RouteInit => BuffCountWithinLimit
  BY DEF RouteInit, BuffCountWithinLimit
<1>2. ASSUME RouteInv, BuffCountWithinLimit, [RouteNext]_routeVars
      PROVE  BuffCountWithinLimit'
  <2>a. RoutingTbl \in [RouteIdxs -> RouteEntry]
    BY <1>2 DEF RouteInv, RouteTypeOK
  <2>b. \A r \in RouteIdxs : WithinLimit(RoutingTbl[r].ListHeadPtr)
    BY <1>2 DEF BuffCountWithinLimit, WithinLimit
  <2>c. CASE UNCHANGED routeVars
    BY <1>2, <2>c DEF routeVars, BuffCountWithinLimit
  <2>1. ASSUME NEW m \in MsgIds, NEW p \in Pipes, NEW lim \in MsgLims,
               NEW scope \in Scopes, AddSubscription(m, p, lim, scope)
        PROVE  BuffCountWithinLimit'
    <3> DEFINE r == RouteFor(m)
               list == RoutingTbl[r].ListHeadPtr
               d == NewDest(p, lim, scope)
               new == AddDest(list, d)
               e == [RoutingTbl[r] EXCEPT
                       !.MsgId = IF IsMapped(m) THEN RoutingTbl[r].MsgId ELSE m,
                       !.Destinations = RoutingTbl[r].Destinations + 1,
                       !.ListHeadPtr = new]
    <3>1. SubscribeAdmits(m, p) /\ ClaimRoute(m) /\ UNCHANGED RouteIdxStack
          /\ RoutingTbl' = [RoutingTbl EXCEPT ![r] = e]
      BY <2>1 DEF AddSubscription
    <3>2. r \in RouteIdxs
      BY <1>2, <3>1, AdmittedRoute
    <3>3. RoutingTbl[r] \in RouteEntry /\ list \in Seq(Dest) /\ WithinLimit(list)
      BY <1>2, <2>b, <3>2, EntryLemma
    <3>4. d \in Dest /\ d.BuffCount <= d.MsgId2PipeLim
      BY DEF NewDest, Dest
    <3>5. WithinLimit(new)
      <4> HIDE DEF list, d
      <4>1. /\ Len(list) \in Nat /\ DOMAIN list = 1 .. Len(list)
            /\ DOMAIN new = 1 .. Len(list) + 1
            /\ new[1] = d
            /\ \A i \in 1 .. Len(list) : new[i + 1] = list[i]
        BY <3>3, <3>4, AddDestLemma, LenProperties
      <4>2. \A i \in DOMAIN new : i = 1 \/ (i - 1 \in DOMAIN list /\ new[i] = list[i - 1])
        BY <4>1
      <4> HIDE DEF new
      <4> QED
        BY <3>3, <3>4, <4>1, <4>2 DEF WithinLimit
    <3> HIDE DEF new, list, r
    <3>6. e.ListHeadPtr = new
      BY <3>3 DEF RouteEntry
    <3> HIDE DEF e
    <3> QED
      BY <1>2, <2>a, <3>1, <3>2, <3>5, <3>6, OneListWithinLimit
  <2>2. ASSUME NEW m \in MsgIds, NEW p \in Pipes, SubscribeNoBlock(m, p)
        PROVE  BuffCountWithinLimit'
    <3> DEFINE r == RouteFor(m)
               e == [RoutingTbl[r] EXCEPT
                       !.MsgId = IF IsMapped(m) THEN RoutingTbl[r].MsgId ELSE m]
    <3>1. SubscribeAdmits(m, p) /\ ClaimRoute(m) /\ UNCHANGED RouteIdxStack
          /\ RoutingTbl' = [RoutingTbl EXCEPT ![r] = e]
      BY <2>2 DEF SubscribeNoBlock
    <3>2. r \in RouteIdxs
      BY <1>2, <3>1, AdmittedRoute
    <3> HIDE DEF r
    <3>3. e.ListHeadPtr = RoutingTbl[r].ListHeadPtr
      BY <2>a, <3>2 DEF RouteEntry
    <3> HIDE DEF e
    <3> QED
      BY <1>2, <2>a, <2>b, <3>1, <3>2, <3>3, OneListWithinLimit
  <2>3. ASSUME NEW m \in MsgIds, NEW p \in Pipes, RemoveSubscription(m, p)
        PROVE  BuffCountWithinLimit'
    <3> DEFINE r == MsgMap[m]
               list == RoutingTbl[r].ListHeadPtr
               new == RemoveDest(list, DestPos(list, p))
               e == [RoutingTbl[r] EXCEPT
                       !.Destinations = RoutingTbl[r].Destinations - 1,
                       !.ListHeadPtr = new]
    <3>1. CASE ~HasDest(list, p)
      BY <1>2, <2>3, <3>1 DEF RemoveSubscription, routeVars, BuffCountWithinLimit
    <3>2. CASE HasDest(list, p)
      <4>1. IsMapped(m) /\ RoutingTbl' = [RoutingTbl EXCEPT ![r] = e]
        BY <2>3, <3>2 DEF RemoveSubscription
      <4>2. r \in RouteIdxs
        BY <1>2, <4>1, MappedRoute
      <4>3. /\ RoutingTbl[r] \in RouteEntry /\ list \in Seq(Dest)
            /\ NoDup(list) /\ WithinLimit(list)
        BY <1>2, <2>b, <4>2, EntryLemma
      <4>4. WithinLimit(new)
        <5> HIDE DEF list
        <5>1. DestPos(list, p) \in DOMAIN list
          BY <3>2, <4>3, DestPosLemma
        <5>2. /\ Len(list) \in Nat /\ DOMAIN list = 1 .. Len(list)
              /\ DOMAIN new = 1 .. Len(list) - 1
              /\ \A j \in 1 .. Len(list) - 1 : new[j] = list[j] \/ new[j] = list[j + 1]
          BY <4>3, <5>1, RemoveDestLemma, LenProperties
        <5>3. \A j \in DOMAIN new : \E k \in DOMAIN list : new[j] = list[k]
          BY <5>2
        <5> HIDE DEF new
        <5> QED
          BY <4>3, <5>3 DEF WithinLimit
      <4> HIDE DEF new, list, r
      <4>5. e.ListHeadPtr = new
        BY <4>3 DEF RouteEntry
      <4> HIDE DEF e
      <4> QED
        BY <1>2, <2>a, <4>1, <4>2, <4>4, <4>5, OneListWithinLimit
    <3> QED
      BY <3>1, <3>2
  <2>4. ASSUME NEW m \in MsgIds, NEW p \in Pipes, CountReceive(m, p)
        PROVE  BuffCountWithinLimit'
    <3> DEFINE r == MsgMap[m]
               pos == DestPos(RoutingTbl[r].ListHeadPtr, p)
               old == RoutingTbl[r].ListHeadPtr[pos]
               d == [old EXCEPT !.BuffCount = IF @ > 0 THEN @ - 1 ELSE @]
    <3>1. CASE ~Subscribed(m, p)
      BY <1>2, <2>4, <3>1 DEF CountReceive, routeVars, BuffCountWithinLimit
    <3>2. CASE Subscribed(m, p)
      <4>1. r \in RouteIdxs /\ pos \in DOMAIN RoutingTbl[r].ListHeadPtr /\ old \in Dest
        BY <1>2, <3>2, SubscribedNode
      <4>2. RoutingTbl' = [RoutingTbl EXCEPT ![r].ListHeadPtr[pos] = d]
        BY <2>4, <3>2 DEF CountReceive
      <4>3. old.BuffCount <= old.MsgId2PipeLim
        BY <4>1, <2>b DEF WithinLimit
      <4> HIDE DEF old
      <4>4. d.BuffCount <= d.MsgId2PipeLim
        BY <4>1, <4>3 DEF Dest
      <4> HIDE DEF d, pos, r
      <4> QED
        BY <1>2, <4>1, <4>2, <4>4, OneNodeWithinLimit
    <3> QED
      BY <3>1, <3>2
  <2>5. ASSUME NEW m \in MsgIds, NEW p \in Pipes, NEW active \in BOOLEAN,
               SetActive(m, p, active)
        PROVE  BuffCountWithinLimit'
    <3> DEFINE r == MsgMap[m]
               pos == DestPos(RoutingTbl[r].ListHeadPtr, p)
               old == RoutingTbl[r].ListHeadPtr[pos]
               d == [old EXCEPT !.Active = active]
    <3>1. r \in RouteIdxs /\ pos \in DOMAIN RoutingTbl[r].ListHeadPtr /\ old \in Dest
      BY <1>2, <2>5, SubscribedNode DEF SetActive
    <3>2. RoutingTbl' = [RoutingTbl EXCEPT ![r].ListHeadPtr[pos] = d]
      BY <2>5 DEF SetActive
    <3>3. old.BuffCount <= old.MsgId2PipeLim
      BY <3>1, <2>b DEF WithinLimit
    <3> HIDE DEF old
    <3>4. d.BuffCount <= d.MsgId2PipeLim
      BY <3>1, <3>3 DEF Dest
    <3> HIDE DEF d, pos, r
    <3> QED
      BY <1>2, <3>1, <3>2, <3>4, OneNodeWithinLimit
  <2>6. ASSUME NEW m \in MsgIds, IsMapped(m), NEW incr \in BOOLEAN,
               NEW D \in SUBSET BelowLimit(m), CountSend(m, incr, D)
        PROVE  BuffCountWithinLimit'
    <3> DEFINE r == MsgMap[m]
               list == RoutingTbl[r].ListHeadPtr
               new == [i \in DOMAIN list |->
                         IF i \in D THEN [list[i] EXCEPT !.BuffCount = @ + 1] ELSE list[i]]
               seq == IF m \in Tlm /\ incr THEN (RoutingTbl[r].SeqCnt + 1) % SeqMod
                      ELSE RoutingTbl[r].SeqCnt
               e == [RoutingTbl[r] EXCEPT !.SeqCnt = seq, !.ListHeadPtr = new]
    <3>1. r \in RouteIdxs
      BY <1>2, <2>6, MappedRoute
    <3>2. RoutingTbl[r] \in RouteEntry /\ list \in Seq(Dest) /\ WithinLimit(list)
      BY <1>2, <2>b, <3>1, EntryLemma
    <3>3. RoutingTbl' = [RoutingTbl EXCEPT ![r] = e]
      BY <2>6 DEF CountSend
    <3>4. \A i \in DOMAIN list : list[i] \in Dest
      BY <3>2, LenProperties, ElementOfSeq
    <3>5. \A i \in D : i \in DOMAIN list /\ list[i].BuffCount < list[i].MsgId2PipeLim
      BY DEF BelowLimit
    <3> HIDE DEF list, r, seq
    <3>6. WithinLimit(new)
      <4>1. SUFFICES ASSUME NEW i \in DOMAIN list
                     PROVE  new[i].BuffCount <= new[i].MsgId2PipeLim
        BY DEF WithinLimit
      <4>2. CASE i \in D
        <5>1. new[i] = [list[i] EXCEPT !.BuffCount = @ + 1] /\ list[i] \in Dest
          BY <3>4, <4>2
        <5> QED
          BY <3>5, <4>2, <5>1 DEF Dest
      <4>3. CASE i \notin D
        BY <3>2, <4>3 DEF WithinLimit
      <4> QED
        BY <4>2, <4>3
    <3> HIDE DEF new
    <3>7. e.ListHeadPtr = new
      BY <3>2 DEF RouteEntry
    <3> HIDE DEF e
    <3> QED
      BY <1>2, <2>a, <3>1, <3>3, <3>6, <3>7, OneListWithinLimit
  <2>7. CASE RouteNext
    BY <2>7, <2>1, <2>2, <2>3, <2>4, <2>5, <2>6 DEF RouteNext
  <2> QED
    BY <1>2, <2>c, <2>7
<1> QED
  BY <1>1, <1>2, RouteInvariance, PTL DEF RouteSpec

-----------------------------------------------------------------------------
(* The bus *)

(* What a task's locals hold at each place: a call that continues has its   *)
(* pipe, a route index to unsubscribe is one of the table's, a message in   *)
(* hand is a buffer, and a deletion knows the application it deletes for.   *)
LocalsFit(at, l) ==
  /\ at \in {"rcvBegun", "rcvBlocked", "rcvRead"} => l.pipe \in Pipes
  /\ at = "rcvBlocked" => l.queue \in QueueIds
  /\ at = "rcvRead" /\ l.status = "ok" => l.msg \in Bufs
  /\ at = "unsub" => l.idx \in RouteIdxs
  /\ at \in {"unsub", "walk", "drain", "deleted"} => l.deleting
  /\ l.deleting => l.pipe \in Pipes /\ l.app \in Apps /\ l.cursor \in Pipes \cup {-1}
  /\ at = "cleaning" => ~l.deleting /\ l.app \in Apps /\ l.cursor \in 0 .. MaxPipes

ControlOK ==
  /\ pc \in [Tasks -> PCs]
  /\ loc \in [Tasks -> Locals]
  /\ \A t \in Tasks : LocalsFit(pc[t], loc[t])

(* The pipe table, the queues and their statistics have their types.        *)
PipesOK ==
  /\ PipeTbl \in [Pipes -> PipeD]
  /\ PipesInUse \in Int
  /\ DepthInUse \in [Pipes -> 0 .. U16 - 1]
  /\ queue \in [QueueIds -> QueueD]

(* So have the buffers, and one in use carries a valid message id.          *)
BuffersOK ==
  /\ buf \in [Bufs -> BufferD]
  /\ \A b \in Bufs : buf[b].UseCount > 0 => buf[b].MsgId \in MsgIds

ReportsOK ==
  /\ SubscriptionReporting \in BOOLEAN
  /\ SubRprtMsg \in Reports \cup {NULL}
  /\ handles \in [Apps -> SUBSET Pipes]

TransferOK == PipesOK /\ BuffersOK /\ ReportsOK /\ ControlOK

BusInv == RouteInv /\ TransferOK

-----------------------------------------------------------------------------
(* Helpers *)

(* Min is the smallest element of a set of naturals: the first free entry   *)
(* of PipeTbl and the next route that lists a pipe exist.                   *)
LEMMA MinLemma ==
  ASSUME NEW S, S \subseteq Nat, S # {}
  PROVE  Min(S) \in S /\ \A y \in S : Min(S) <= y
<1> DEFINE R == OpToRel(<, Nat)
<1>1. R = {ss \in Nat \X Nat : ss[1] < ss[2]}
  BY DEF OpToRel
<1>2. IsWellFoundedOn(R, Nat)
  BY NatLessThanWellFounded
<1> HIDE DEF R
<1>3. \A x, y \in Nat : y < x => <<y, x>> \in R
  BY <1>1
<1>4. PICK x \in S : \A y \in S : <<y, x>> \notin R
  BY <1>2, WFMin
<1>5. ASSUME NEW y \in S PROVE x <= y
  <2>1. x \in Nat /\ y \in Nat
    OBVIOUS
  <2>2. ~(y < x)
    BY <2>1, <1>3, <1>4
  <2> QED
    BY <2>1, <2>2
<1> QED
  BY <1>4, <1>5 DEF Min

(* Arithmetic on a uint16 stays in its range.                              *)
LEMMA WrapLemma ==
  ASSUME NEW n \in Int
  PROVE  n % U16 \in 0 .. U16 - 1
<1>1. U16 \in Nat \ {0}
  BY DEF U16
<1>2. ASSUME NEW k \in Nat \ {0}
      PROVE  n % k \in 0 .. k - 1
  OBVIOUS
<1> QED
  BY <1>1, <1>2

(* A task that takes one step to a place whose locals fit.                  *)
LEMMA GotoLemma ==
  ASSUME ControlOK, NEW t \in Tasks, NEW there \in PCs, NEW l \in Locals,
         LocalsFit(there, l), Goto(t, there, l)
  PROVE  ControlOK'
<1>1. /\ pc' = [pc EXCEPT ![t] = there]
      /\ loc' = [loc EXCEPT ![t] = l]
      /\ pc \in [Tasks -> PCs] /\ loc \in [Tasks -> Locals]
  BY DEF Goto, ControlOK
<1>2. pc' \in [Tasks -> PCs] /\ loc' \in [Tasks -> Locals]
  BY <1>1
<1>3. ASSUME NEW u \in Tasks
      PROVE  LocalsFit(pc'[u], loc'[u])
  <2>1. CASE u = t
    <3>1. pc'[u] = there /\ loc'[u] = l
      BY <1>1, <2>1
    <3> QED
      BY <3>1
  <2>2. CASE u # t
    <3>1. pc'[u] = pc[u] /\ loc'[u] = loc[u]
      BY <1>1, <2>2
    <3> QED
      BY <3>1 DEF ControlOK
  <2> QED
    BY <2>1, <2>2
<1> QED
  BY <1>2, <1>3 DEF ControlOK

(* A step of a ground command or of a call that takes one locked section.   *)
LEMMA StayLemma ==
  ASSUME ControlOK, Stay
  PROVE  ControlOK'
BY DEF Stay, ControlOK

(* The locals between two calls, and those of a subscription to report.     *)
LEMMA NoLocLemma ==
  ASSUME NEW at, at \in {"idle", "report", "exited", "dead", "fault"},
         NEW r, r \in Reports \cup {NULL}
  PROVE  LET l == [NoLoc EXCEPT !.report = r]
         IN l \in Locals /\ LocalsFit(at, l)
<1>1. NoLoc \in Locals /\ ~NoLoc.deleting
  BY RouteTableAssumption DEF NoLoc, Locals, NoQueue
<1>2. /\ [NoLoc EXCEPT !.report = r] \in Locals
      /\ ~[NoLoc EXCEPT !.report = r].deleting
  BY <1>1 DEF Locals
<1> QED
  BY <1>2 DEF LocalsFit

LEMMA IdleLemma ==
  ASSUME NEW at, at \in {"idle", "exited", "dead", "fault"}
  PROVE  NoLoc \in Locals /\ LocalsFit(at, NoLoc)
<1>1. NoLoc \in Locals /\ ~NoLoc.deleting
  BY RouteTableAssumption DEF NoLoc, Locals, NoQueue
<1> QED
  BY <1>1 DEF LocalsFit

(* CFE_SB_DecrBufUseCnt keeps the buffers well-formed.                     *)
LEMMA DecrLemma ==
  ASSUME BuffersOK, NEW b, b \in Bufs \cup {NULL},
         buf' = DecrBufUseCnt(buf, b)
  PROVE  BuffersOK'
<1>1. CASE b = NULL \/ buf[b].UseCount = 0
  BY <1>1 DEF DecrBufUseCnt, BuffersOK
<1>2. CASE ~(b = NULL \/ buf[b].UseCount = 0)
  <2> DEFINE new == IF buf[b].UseCount = 1 THEN FreeBuf
                    ELSE [buf[b] EXCEPT !.UseCount = buf[b].UseCount - 1]
  <2>1. b \in Bufs /\ buf' = [buf EXCEPT ![b] = new]
    BY <1>2 DEF DecrBufUseCnt
  <2>2. buf[b] \in BufferD /\ buf[b].UseCount \in Nat /\ buf[b].UseCount > 0
    BY <1>2, <2>1 DEF BuffersOK, BufferD
  <2>3. new \in BufferD /\ (new.UseCount > 0 => new.MsgId \in MsgIds)
    BY <2>1, <2>2 DEF BuffersOK, BufferD, FreeBuf
  <2> HIDE DEF new
  <2> QED
    BY <2>1, <2>3 DEF BuffersOK
<1> QED
  BY <1>1, <1>2

-----------------------------------------------------------------------------
(* One lemma per action: the step is one of SBRouteTable or leaves the      *)
(* routing state alone, and it keeps the rest of BusInv.                    *)

StepOK == [RouteNext]_routeVars /\ TransferOK'

LEMMA CreatePipeOK ==
  ASSUME BusInv, NEW t \in Tasks, NEW depth \in Depths, CreatePipe(t, depth)
  PROVE  StepOK
<1> USE SoftwareBusAssumption, RouteTableAssumption
<1> DEFINE free == {x \in Pipes : ~PipeTbl[x].InUse}
           p == Min(free)
           ids == {q \in QueueIds : QueueIdUnheld(q)}
           e == [PipeTbl[p] EXCEPT !.InUse = TRUE, !.AppId = AppOf[t],
                   !.SysQueueId = Min(ids),
                   !.CurrentBuff = NULL, !.ToTrashBuff = NULL]
           q == [open |-> TRUE, depth |-> depth, msgs |-> <<>>]
<1>1. p \in Pipes /\ Min(ids) \in QueueIds
  <2>1. free # {} /\ free \subseteq Nat /\ ids # {} /\ ids \subseteq Nat
    BY DEF CreatePipe, Pipes
  <2>2. p \in free /\ Min(ids) \in ids
    BY <2>1, MinLemma
  <2> QED
    BY <2>2
<1>2. /\ queue' = [queue EXCEPT ![Min(ids)] = q]
      /\ PipeTbl' = [PipeTbl EXCEPT ![p] = e]
      /\ PipesInUse' = PipesInUse + 1
      /\ DepthInUse' = [DepthInUse EXCEPT ![p] = 0]
      /\ handles' = [handles EXCEPT ![AppOf[t]] = @ \cup {p}]
      /\ UNCHANGED <<routeVars, buf, rptVars>> /\ Stay
  BY DEF CreatePipe
<1> HIDE DEF p, ids
<1>3. PipesOK'
  <2>1. q \in QueueD
    BY DEF QueueD
  <2>2. e \in PipeD
    BY <1>1 DEF BusInv, TransferOK, PipesOK, PipeD
  <2> HIDE DEF e, q
  <2>3. queue' \in [QueueIds -> QueueD] /\ PipeTbl' \in [Pipes -> PipeD]
    BY <1>1, <1>2, <2>1, <2>2 DEF BusInv, TransferOK, PipesOK
  <2>4. PipesInUse' \in Int
    BY <1>2 DEF BusInv, TransferOK, PipesOK
  <2>5. DepthInUse' \in [Pipes -> 0 .. U16 - 1]
    <3>1. 0 \in 0 .. U16 - 1
      BY DEF U16
    <3> QED
      BY <1>1, <1>2, <3>1 DEF BusInv, TransferOK, PipesOK
  <2> QED
    BY <2>3, <2>4, <2>5 DEF PipesOK
<1>4. ReportsOK'
  BY <1>1, <1>2 DEF BusInv, TransferOK, ReportsOK, rptVars
<1>5. BuffersOK' /\ ControlOK'
  BY <1>2, StayLemma DEF BusInv, TransferOK, BuffersOK
<1> QED
  BY <1>2, <1>3, <1>4, <1>5 DEF StepOK, TransferOK

LEMMA SetPipeOptsOK ==
  ASSUME BusInv, NEW t \in Tasks, NEW p \in Pipes, NEW ignoreMine \in BOOLEAN,
         SetPipeOpts(t, p, ignoreMine)
  PROVE  StepOK
<1>1. /\ PipeTbl' = [PipeTbl EXCEPT ![p].IgnoreMine = ignoreMine]
      /\ UNCHANGED <<routeVars, PipesInUse, DepthInUse, queue, buf, rptVars, handles>>
      /\ Stay
  BY DEF SetPipeOpts
<1>2. PipesOK'
  BY <1>1 DEF BusInv, TransferOK, PipesOK, PipeD
<1>3. BuffersOK' /\ ReportsOK' /\ ControlOK'
  BY <1>1, StayLemma DEF BusInv, TransferOK, BuffersOK, ReportsOK, rptVars
<1> QED
  BY <1>1, <1>2, <1>3 DEF StepOK, TransferOK

(* Steps that leave the pipes, the buffers and the handles alone.           *)
LEMMA KeepLemma ==
  ASSUME TransferOK, UNCHANGED <<pipeVars, buf, SubscriptionReporting, handles>>
  PROVE  /\ PipesOK' /\ BuffersOK'
         /\ SubRprtMsg' \in Reports \cup {NULL} => ReportsOK'
BY DEF TransferOK, PipesOK, BuffersOK, ReportsOK, pipeVars

(* What a (un)subscription leaves to be reported.                          *)
LEMMA ReportLemma ==
  ASSUME TransferOK, NEW t \in Tasks, NEW m \in MsgIds, NEW p \in Pipes,
         NEW scope, NEW type \in {"SUB", "UNSUB"}, Report(t, m, p, scope, type)
  PROVE  SubRprtMsg' \in Reports \cup {NULL} /\ ControlOK'
<1> DEFINE r == [MsgId |-> m, Pipe |-> p, SubType |-> type]
           l == [NoLoc EXCEPT !.report = r]
<1>1. CASE SubscriptionReporting /\ scope = "GLOBAL"
  <2>1. SubRprtMsg' = r /\ Goto(t, "report", l)
    BY <1>1 DEF Report
  <2>2. r \in Reports
    BY DEF Reports
  <2>3. l \in Locals /\ LocalsFit("report", l)
    BY <2>2, NoLocLemma
  <2> HIDE DEF r, l
  <2>4. ControlOK'
    BY <2>1, <2>3, GotoLemma DEF PCs, TransferOK
  <2> QED
    BY <2>1, <2>2, <2>4
<1>2. CASE ~(SubscriptionReporting /\ scope = "GLOBAL")
  BY <1>2, StayLemma DEF Report, TransferOK, ReportsOK
<1> QED
  BY <1>1, <1>2

LEMMA SubscribeOK ==
  ASSUME BusInv, NEW t \in Tasks, NEW m \in MsgIds, NEW p \in Pipes,
         NEW lim \in MsgLims, NEW scope \in Scopes, Subscribe(t, m, p, lim, scope)
  PROVE  StepOK
<1>1. UNCHANGED <<pipeVars, buf, SubscriptionReporting, handles>>
  BY DEF Subscribe
<1>2. CASE AddSubscription(m, p, lim, scope) /\ Report(t, m, p, scope, "SUB")
  <2>1. RouteNext
    BY <1>2 DEF RouteNext
  <2>2. SubRprtMsg' \in Reports \cup {NULL} /\ ControlOK'
    BY <1>2, ReportLemma DEF BusInv
  <2> QED
    BY <1>1, <2>1, <2>2, KeepLemma DEF BusInv, StepOK, TransferOK
<1>3. CASE SubscribeNoBlock(m, p) /\ UNCHANGED SubRprtMsg /\ Stay
  <2>1. RouteNext
    BY <1>3 DEF RouteNext
  <2>2. SubRprtMsg' \in Reports \cup {NULL} /\ ControlOK'
    BY <1>3, StayLemma DEF BusInv, TransferOK, ReportsOK
  <2> QED
    BY <1>1, <2>1, <2>2, KeepLemma DEF BusInv, StepOK, TransferOK
<1> QED
  BY <1>2, <1>3 DEF Subscribe

LEMMA UnsubscribeFullRoutes ==
  ASSUME NEW m \in MsgIds \cup {NoMsgId}, NEW p \in Pipes, NEW a, UnsubscribeFull(m, p, a)
  PROVE  [RouteNext]_routeVars
<1>1. CASE Owns(a, p) /\ m # NoMsgId /\ IsMapped(m)
  BY <1>1 DEF UnsubscribeFull, RouteNext
<1>2. CASE ~(Owns(a, p) /\ m # NoMsgId /\ IsMapped(m))
  BY <1>2 DEF UnsubscribeFull
<1> QED
  BY <1>1, <1>2

LEMMA UnsubscribeOK ==
  ASSUME BusInv, NEW t \in Tasks, NEW m \in MsgIds, NEW p \in Pipes,
         NEW scope \in Scopes, Unsubscribe(t, m, p, scope)
  PROVE  StepOK
<1>1. UNCHANGED <<pipeVars, buf, SubscriptionReporting, handles>>
  BY DEF Unsubscribe
<1>2. CASE Goto(t, "fault", NoLoc) /\ UNCHANGED <<routeVars, SubRprtMsg>>
  <2>1. ControlOK'
    BY <1>2, IdleLemma, GotoLemma DEF BusInv, TransferOK, PCs
  <2>2. SubRprtMsg' \in Reports \cup {NULL}
    BY <1>2 DEF BusInv, TransferOK, ReportsOK
  <2> QED
    BY <1>1, <1>2, <2>1, <2>2, KeepLemma DEF BusInv, StepOK, TransferOK
<1>3. CASE /\ UnsubscribeFull(m, p, AppOf[t])
           /\ IF IsMapped(m)' THEN UNCHANGED SubRprtMsg /\ Stay
                              ELSE Report(t, m, p, scope, "UNSUB")
  <2>1. [RouteNext]_routeVars
    BY <1>3, UnsubscribeFullRoutes
  <2>2. SubRprtMsg' \in Reports \cup {NULL} /\ ControlOK'
    BY <1>3, StayLemma, ReportLemma DEF BusInv, TransferOK, ReportsOK
  <2> QED
    BY <1>1, <2>1, <2>2, KeepLemma DEF BusInv, StepOK, TransferOK
<1> QED
  BY <1>2, <1>3 DEF Unsubscribe

(* The nodes that take a message are below their limit, and finitely many.  *)
LEMMA AcceptingLemma ==
  ASSUME RouteInv, NEW m \in MsgIds, IsMapped(m), NEW a
  PROVE  /\ Accepting(m, a) \in SUBSET BelowLimit(m)
         /\ Accepting(m, a) \subseteq DOMAIN RoutingTbl[MsgMap[m]].ListHeadPtr
         /\ IsFiniteSet(Accepting(m, a)) /\ Cardinality(Accepting(m, a)) \in Nat
<1> DEFINE list == RoutingTbl[MsgMap[m]].ListHeadPtr
<1>1. Accepting(m, a) \in SUBSET BelowLimit(m)
  BY DEF Accepting
<1>2. Accepting(m, a) \in SUBSET DOMAIN list
  BY <1>1 DEF BelowLimit
<1>3. list \in Seq(Dest)
  BY MappedRoute, EntryLemma
<1>4. IsFiniteSet(DOMAIN list)
  <2>1. DOMAIN list = 1 .. Len(list) /\ Len(list) \in Int
    BY <1>3, LenProperties
  <2> QED
    BY <2>1, FS_Interval
<1>5. IsFiniteSet(Accepting(m, a)) /\ Cardinality(Accepting(m, a)) \in Nat
  BY <1>2, <1>4, FS_Subset, FS_CardinalityType
<1> QED
  BY <1>1, <1>2, <1>5

LEMMA SendMsgFullOK ==
  ASSUME BusInv, NEW m \in MsgIds, NEW a, NEW data \in Reports \cup {NULL},
         NEW incr \in BOOLEAN, SendMsgFull(a, m, data, incr),
         UNCHANGED <<PipeTbl, PipesInUse>>
  PROVE  [RouteNext]_routeVars /\ PipesOK' /\ BuffersOK'
<1>1. CASE UNCHANGED <<routeVars, queue, DepthInUse, buf>>
  BY <1>1 DEF BusInv, TransferOK, PipesOK, BuffersOK
<1>2. CASE IsMapped(m) /\ ~UNCHANGED <<routeVars, queue, DepthInUse, buf>>
  <2> DEFINE D == Accepting(m, a)
             pipes == {RoutingTbl[MsgMap[m]].ListHeadPtr[i].PipeId : i \in D}
             qs == {PipeTbl[p].SysQueueId : p \in pipes}
  <2>1. PICK b \in FreeBufs :
          /\ CountSend(m, incr, D)
          /\ queue' = [q \in QueueIds |->
               IF q \in qs THEN [queue[q] EXCEPT !.msgs = Append(@, b)] ELSE queue[q]]
          /\ DepthInUse' = [p \in Pipes |->
               IF p \in pipes THEN (DepthInUse[p] + 1) % U16 ELSE DepthInUse[p]]
          /\ buf' = IF D = {} THEN buf ELSE
               [buf EXCEPT ![b] = [UseCount |-> Cardinality(D), MsgId |-> m, data |-> data]]
    BY <1>2, Zenon DEF SendMsgFull
  <2>2. D \in SUBSET BelowLimit(m) /\ Cardinality(D) \in Nat
    BY <1>2, AcceptingLemma DEF BusInv
  <2>3. b \in Bufs
    BY DEF FreeBufs
  <2> HIDE DEF D, pipes, qs
  <2>4. RouteNext
    BY <1>2, <2>1, <2>2 DEF RouteNext
  <2>5. queue' \in [QueueIds -> QueueD]
    <3>1. SUFFICES ASSUME NEW q \in QueueIds
                   PROVE  [queue[q] EXCEPT !.msgs = Append(@, b)] \in QueueD /\ queue[q] \in QueueD
      BY <2>1
    <3>2. queue[q] \in QueueD
      BY DEF BusInv, TransferOK, PipesOK
    <3>3. Append(queue[q].msgs, b) \in Seq(Bufs)
      BY <2>3, <3>2, AppendProperties DEF QueueD
    <3> QED
      BY <3>2, <3>3 DEF QueueD
  <2>6. DepthInUse' \in [Pipes -> 0 .. U16 - 1]
    <3>1. \A p \in Pipes : DepthInUse[p] \in 0 .. U16 - 1
      BY DEF BusInv, TransferOK, PipesOK
    <3>2. \A p \in Pipes : (DepthInUse[p] + 1) % U16 \in 0 .. U16 - 1
      BY <3>1, WrapLemma
    <3> QED
      BY <2>1, <3>1, <3>2
  <2>7. BuffersOK'
    <3> DEFINE new == [UseCount |-> Cardinality(D), MsgId |-> m, data |-> data]
    <3>1. new \in BufferD /\ new.MsgId \in MsgIds
      BY <2>2 DEF BufferD
    <3>2. buf' = buf \/ buf' = [buf EXCEPT ![b] = new]
      BY <2>1
    <3> HIDE DEF new
    <3> QED
      BY <2>3, <3>1, <3>2 DEF BusInv, TransferOK, BuffersOK
  <2> QED
    BY <2>4, <2>5, <2>6, <2>7 DEF BusInv, TransferOK, PipesOK
<1> QED
  BY <1>1, <1>2 DEF SendMsgFull

LEMMA SendMsgOK ==
  ASSUME BusInv, NEW t \in Tasks, NEW m \in MsgIds, SendMsg(t, m)
  PROVE  StepOK
<1>1. [RouteNext]_routeVars /\ PipesOK' /\ BuffersOK'
  BY SendMsgFullOK DEF SendMsg
<1>2. ReportsOK' /\ ControlOK'
  BY StayLemma DEF SendMsg, BusInv, TransferOK, ReportsOK, rptVars
<1> QED
  BY <1>1, <1>2 DEF StepOK, TransferOK

LEMMA SendReportOK ==
  ASSUME BusInv, NEW t \in Tasks, SendReport(t)
  PROVE  StepOK
<1>1. ReportMid \in MsgIds /\ SubRprtMsg \in Reports \cup {NULL}
  BY SoftwareBusAssumption DEF BusInv, TransferOK, ReportsOK
<1>2. [RouteNext]_routeVars /\ PipesOK' /\ BuffersOK'
  BY <1>1, SendMsgFullOK DEF SendReport
<1>3. ReportsOK'
  BY DEF SendReport, BusInv, TransferOK, ReportsOK, rptVars
<1>4. ControlOK'
  BY IdleLemma, GotoLemma DEF SendReport, BusInv, TransferOK, PCs
<1> QED
  BY <1>2, <1>3, <1>4 DEF StepOK, TransferOK

(* Steps that change one field of one pipe entry.                          *)
LEMMA PipeEntryLemma ==
  ASSUME PipesOK, NEW p \in Pipes, NEW e \in PipeD,
         PipeTbl' = [PipeTbl EXCEPT ![p] = e],
         UNCHANGED <<PipesInUse, DepthInUse, queue>>
  PROVE  PipesOK'
BY DEF PipesOK

LEMMA BuffTypes ==
  ASSUME PipesOK, NEW p \in Pipes
  PROVE  /\ PipeTbl[p] \in PipeD
         /\ PipeTbl[p].CurrentBuff \in Bufs \cup {NULL}
         /\ PipeTbl[p].ToTrashBuff \in Bufs \cup {NULL}
         /\ PipeTbl[p].SysQueueId \in QueueIds \cup {NoQueue}
BY DEF PipesOK, PipeD

LEMMA RcvBeginOK ==
  ASSUME BusInv, NEW t \in Tasks, NEW p \in Pipes, NEW l \in Locals,
         LocalsFit("rcvBegun", l), RcvBegin(t, p, l)
  PROVE  StepOK
<1> DEFINE e == [PipeTbl[p] EXCEPT !.ToTrashBuff = PipeTbl[p].CurrentBuff]
<1>1. /\ PipeTbl' = [PipeTbl EXCEPT ![p] = e]
      /\ UNCHANGED <<routeVars, PipesInUse, DepthInUse, queue, buf, rptVars, handles>>
  BY DEF RcvBegin
<1>2. e \in PipeD
  BY BuffTypes DEF BusInv, TransferOK, PipeD
<1> HIDE DEF e
<1>3. PipesOK'
  BY <1>1, <1>2, PipeEntryLemma DEF BusInv, TransferOK
<1>4. BuffersOK' /\ ReportsOK'
  BY <1>1 DEF BusInv, TransferOK, BuffersOK, ReportsOK, rptVars
<1>5. ControlOK'
  BY GotoLemma DEF RcvBegin, BusInv, TransferOK, PCs
<1> QED
  BY <1>1, <1>3, <1>4, <1>5 DEF StepOK, TransferOK

LEMMA RcvMsgOK ==
  ASSUME BusInv, NEW t \in Tasks, NEW p \in Pipes, NEW timeout \in TimeOuts,
         RcvMsg(t, p, timeout)
  PROVE  StepOK
<1> DEFINE l == [NoLoc EXCEPT !.pipe = p, !.timeout = timeout]
<1>1. RcvBegin(t, p, l)
  BY DEF RcvMsg
<1>a. NoLoc \in Locals /\ ~NoLoc.deleting /\ timeout \in {"POLL", "PEND", "TIMED"}
  BY IdleLemma, SoftwareBusAssumption DEF NoLoc
<1>2. l \in Locals /\ l.pipe = p /\ ~l.deleting
  BY <1>a DEF Locals
<1>3. LocalsFit("rcvBegun", l)
  BY <1>2 DEF LocalsFit
<1> HIDE DEF l
<1> QED
  BY <1>1, <1>2, <1>3, RcvBeginOK

(* OS_QueueGet hands out a buffer and keeps the rest of the queue.          *)
LEMMA TakeMessageOK ==
  ASSUME BusInv, NEW t \in Tasks, NEW q \in QueueIds, queue[q].msgs # <<>>,
         loc[t].pipe \in Pipes, TakeMessage(t, q),
         UNCHANGED <<PipesInUse, DepthInUse>>
  PROVE  /\ queue' \in [QueueIds -> QueueD]
         /\ ControlOK'
<1> DEFINE l == [loc[t] EXCEPT !.status = "ok", !.msg = Head(queue[q].msgs),
                               !.queue = NoQueue]
<1>1. queue[q] \in QueueD /\ queue[q].msgs \in Seq(Bufs)
  BY DEF BusInv, TransferOK, PipesOK, QueueD
<1>2. Head(queue[q].msgs) \in Bufs /\ Tail(queue[q].msgs) \in Seq(Bufs)
  BY <1>1, HeadTailProperties
<1>3. queue' = [queue EXCEPT ![q].msgs = Tail(queue[q].msgs)] /\ Goto(t, "rcvRead", l)
  BY DEF TakeMessage
<1>4. queue' \in [QueueIds -> QueueD]
  <2>1. [queue[q] EXCEPT !.msgs = Tail(queue[q].msgs)] \in QueueD
    BY <1>1, <1>2 DEF QueueD
  <2> QED
    BY <1>3, <2>1 DEF BusInv, TransferOK, PipesOK
<1>5. loc[t] \in Locals /\ LocalsFit(pc[t], loc[t])
  BY DEF BusInv, TransferOK, ControlOK
<1>6. /\ l \in Locals /\ l.msg = Head(queue[q].msgs) /\ l.pipe = loc[t].pipe
      /\ l.deleting = loc[t].deleting /\ l.app = loc[t].app /\ l.cursor = loc[t].cursor
  BY <1>2, <1>5 DEF Locals
<1>7. LocalsFit("rcvRead", l)
  BY <1>2, <1>5, <1>6 DEF LocalsFit
<1> HIDE DEF l
<1> QED
  BY <1>3, <1>4, <1>6, <1>7, GotoLemma DEF BusInv, TransferOK, PCs

LEMMA RcvReadQueueOK ==
  ASSUME BusInv, NEW t \in Tasks, RcvReadQueue(t)
  PROVE  StepOK
<1> DEFINE p == loc[t].pipe
           q == PipeTbl[p].SysQueueId
           e == [PipeTbl[p] EXCEPT !.CurrentBuff = NULL]
<1>1. /\ pc[t] = "rcvBegun"
      /\ PipeTbl' = [PipeTbl EXCEPT ![p] = e]
      /\ UNCHANGED <<routeVars, PipesInUse, DepthInUse, buf, rptVars, handles>>
  BY DEF RcvReadQueue
<1>2. loc[t] \in Locals /\ LocalsFit(pc[t], loc[t])
  BY DEF BusInv, TransferOK, ControlOK
<1>3. p \in Pipes
  BY <1>1, <1>2 DEF LocalsFit
<1>4. e \in PipeD /\ q \in QueueIds \cup {NoQueue}
  BY <1>3, BuffTypes DEF BusInv, TransferOK, PipeD
<1>5. queue' \in [QueueIds -> QueueD] /\ ControlOK'
  <2>1. CASE IsOpen(q) /\ queue[q].msgs # <<>> /\ TakeMessage(t, q)
    BY <1>1, <1>3, <1>4, <2>1, TakeMessageOK DEF IsOpen
  <2>2. ASSUME NEW st \in {"error", "empty"}, UNCHANGED queue,
               Goto(t, "rcvRead", [loc[t] EXCEPT !.status = st])
        PROVE  queue' \in [QueueIds -> QueueD] /\ ControlOK'
    <3> DEFINE l == [loc[t] EXCEPT !.status = st]
    <3>1. /\ l \in Locals /\ l.status # "ok" /\ l.pipe = loc[t].pipe
          /\ l.deleting = loc[t].deleting /\ l.app = loc[t].app /\ l.cursor = loc[t].cursor
      BY <1>2 DEF Locals
    <3>2. LocalsFit("rcvRead", l)
      BY <1>2, <1>3, <3>1 DEF LocalsFit
    <3> HIDE DEF l
    <3>3. ControlOK'
      BY <2>2, <3>1, <3>2, GotoLemma DEF BusInv, TransferOK, PCs, l
    <3> QED
      BY <2>2, <3>3 DEF BusInv, TransferOK, PipesOK
  <2>3. CASE IsOpen(q) /\ UNCHANGED queue /\ Goto(t, "rcvBlocked", [loc[t] EXCEPT !.queue = q])
    <3> DEFINE l == [loc[t] EXCEPT !.queue = q]
    <3>1. /\ l \in Locals /\ l.queue \in QueueIds /\ l.pipe = loc[t].pipe
          /\ l.deleting = loc[t].deleting /\ l.app = loc[t].app /\ l.cursor = loc[t].cursor
      BY <1>2, <1>4, <2>3 DEF Locals, IsOpen
    <3>2. LocalsFit("rcvBlocked", l)
      BY <1>2, <1>3, <3>1 DEF LocalsFit
    <3> HIDE DEF l
    <3>3. ControlOK'
      BY <2>3, <3>1, <3>2, GotoLemma DEF BusInv, TransferOK, PCs, l
    <3> QED
      BY <2>3, <3>3 DEF BusInv, TransferOK, PipesOK
  <2> QED
    BY <2>1, <2>2, <2>3 DEF RcvReadQueue
<1> HIDE DEF e, p, q
<1>6. PipesOK'
  BY <1>1, <1>3, <1>4, <1>5 DEF BusInv, TransferOK, PipesOK
<1>7. BuffersOK' /\ ReportsOK'
  BY <1>1 DEF BusInv, TransferOK, BuffersOK, ReportsOK, rptVars
<1> QED
  BY <1>1, <1>5, <1>6, <1>7 DEF StepOK, TransferOK

LEMMA RcvWakeOK ==
  ASSUME BusInv, NEW t \in Tasks, RcvWake(t)
  PROVE  StepOK
<1>1. /\ pc[t] = "rcvBlocked" /\ queue[loc[t].queue].msgs # <<>>
      /\ TakeMessage(t, loc[t].queue)
      /\ UNCHANGED <<routeVars, PipeTbl, PipesInUse, DepthInUse, buf, rptVars, handles>>
  BY DEF RcvWake
<1>2. loc[t].pipe \in Pipes /\ loc[t].queue \in QueueIds
  BY <1>1 DEF BusInv, TransferOK, ControlOK, LocalsFit
<1>3. queue' \in [QueueIds -> QueueD] /\ ControlOK'
  BY <1>1, <1>2, TakeMessageOK
<1>4. PipesOK' /\ BuffersOK' /\ ReportsOK'
  BY <1>1, <1>3 DEF BusInv, TransferOK, PipesOK, BuffersOK, ReportsOK, rptVars
<1> QED
  BY <1>1, <1>3, <1>4 DEF StepOK, TransferOK

LEMMA RcvTimeOutOK ==
  ASSUME BusInv, NEW t \in Tasks, RcvTimeOut(t)
  PROVE  StepOK
<1> DEFINE l == [loc[t] EXCEPT !.status = "timeout", !.queue = NoQueue]
<1>1. /\ pc[t] = "rcvBlocked" /\ Goto(t, "rcvRead", l)
      /\ UNCHANGED <<routeVars, pipeVars, buf, rptVars, handles>>
  BY DEF RcvTimeOut
<1>2. loc[t] \in Locals /\ LocalsFit(pc[t], loc[t])
  BY DEF BusInv, TransferOK, ControlOK
<1>3. /\ l \in Locals /\ l.status # "ok" /\ l.pipe = loc[t].pipe
      /\ l.deleting = loc[t].deleting /\ l.app = loc[t].app /\ l.cursor = loc[t].cursor
  BY <1>2 DEF Locals
<1>4. LocalsFit("rcvRead", l)
  BY <1>1, <1>2, <1>3 DEF LocalsFit
<1> HIDE DEF l
<1>5. ControlOK'
  BY <1>1, <1>3, <1>4, GotoLemma DEF BusInv, TransferOK, PCs
<1>6. PipesOK' /\ BuffersOK' /\ ReportsOK'
  BY <1>1 DEF BusInv, TransferOK, PipesOK, BuffersOK, ReportsOK, rptVars, pipeVars
<1> QED
  BY <1>1, <1>5, <1>6 DEF StepOK, TransferOK

LEMMA RcvReturnOK ==
  ASSUME TransferOK, NEW t \in Tasks, RcvReturn(t)
  PROVE  ControlOK'
<1> DEFINE l == [loc[t] EXCEPT !.status = "none", !.msg = NULL]
<1>1. loc[t] \in Locals /\ LocalsFit(pc[t], loc[t])
  BY DEF TransferOK, ControlOK
<1>2. CASE ~loc[t].deleting
  BY <1>2, IdleLemma, GotoLemma DEF RcvReturn, TransferOK, PCs
<1>3. CASE loc[t].deleting
  <2>1. /\ l \in Locals /\ l.pipe = loc[t].pipe /\ l.deleting
        /\ l.app = loc[t].app /\ l.cursor = loc[t].cursor
    BY <1>1, <1>3 DEF Locals
  <2>2. LocalsFit("drain", l) /\ LocalsFit("deleted", l)
    BY <1>1, <1>3, <2>1 DEF LocalsFit
  <2>3. Goto(t, "drain", l) \/ Goto(t, "deleted", l)
    BY <1>3 DEF RcvReturn
  <2> HIDE DEF l
  <2> QED
    BY <2>1, <2>2, <2>3, GotoLemma DEF TransferOK, PCs
<1> QED
  BY <1>2, <1>3

LEMMA RcvFinishOK ==
  ASSUME BusInv, NEW t \in Tasks, RcvFinish(t)
  PROVE  StepOK
<1> DEFINE p == loc[t].pipe
           ok == loc[t].status = "ok"
           msg == loc[t].msg
           e == [PipeTbl[p] EXCEPT !.ToTrashBuff = NULL,
                   !.CurrentBuff = IF ok THEN msg ELSE PipeTbl[p].CurrentBuff]
<1>1. /\ pc[t] = "rcvRead"
      /\ buf' = DecrBufUseCnt(buf, PipeTbl[p].ToTrashBuff)
      /\ PipeTbl' = [PipeTbl EXCEPT ![p] = e]
      /\ RcvReturn(t)
      /\ UNCHANGED <<PipesInUse, queue, rptVars, handles>>
  BY DEF RcvFinish
<1>2. p \in Pipes /\ (ok => msg \in Bufs)
  BY <1>1 DEF BusInv, TransferOK, ControlOK, LocalsFit
<1>3. /\ PipeTbl[p] \in PipeD
      /\ PipeTbl[p].CurrentBuff \in Bufs \cup {NULL}
      /\ PipeTbl[p].ToTrashBuff \in Bufs \cup {NULL}
  BY <1>2, BuffTypes DEF BusInv, TransferOK
<1>4. e \in PipeD
  BY <1>2, <1>3 DEF PipeD
<1>5. [RouteNext]_routeVars /\ DepthInUse' \in [Pipes -> 0 .. U16 - 1]
  <2>1. CASE ok /\ ValidPipe(p)
    <3>1. PICK m \in MsgIdRead(msg) : CountReceive(m, p)
      BY <2>1 DEF RcvFinish
    <3>2. m \in MsgIds
      BY <1>2, <2>1, <3>1 DEF MsgIdRead, BusInv, TransferOK, BuffersOK
    <3>3. RouteNext
      BY <1>2, <3>1, <3>2 DEF RouteNext
    <3>4. DepthInUse' = [DepthInUse EXCEPT ![p] = (DepthInUse[p] - 1) % U16]
      BY <2>1 DEF RcvFinish
    <3>5. DepthInUse \in [Pipes -> 0 .. U16 - 1]
      BY DEF BusInv, TransferOK, PipesOK
    <3>6. (DepthInUse[p] - 1) % U16 \in 0 .. U16 - 1
      BY <1>2, <3>5, WrapLemma
    <3> QED
      BY <1>2, <3>3, <3>4, <3>5, <3>6
  <2>2. CASE ~(ok /\ ValidPipe(p))
    BY <2>2 DEF RcvFinish, BusInv, TransferOK, PipesOK
  <2> QED
    BY <2>1, <2>2
<1> HIDE DEF e, p
<1>6. PipesOK'
  BY <1>1, <1>2, <1>4, <1>5 DEF BusInv, TransferOK, PipesOK
<1>7. BuffersOK'
  BY <1>1, <1>3, DecrLemma DEF BusInv, TransferOK
<1>8. ControlOK' /\ ReportsOK'
  BY <1>1, RcvReturnOK DEF BusInv, TransferOK, ReportsOK, rptVars
<1> QED
  BY <1>5, <1>6, <1>7, <1>8 DEF StepOK, TransferOK

(* The walk over the routing table stops at an index of it, or releases     *)
(* ToTrashBuff and goes on to drain the pipe.                              *)
LEMMA WalkFromOK ==
  ASSUME TransferOK, NEW t \in Tasks, NEW p \in Pipes, NEW i \in Nat,
         NEW l \in Locals, l.deleting, LocalsFit("drain", l),
         WalkFrom(t, p, i, l), UNCHANGED <<PipesInUse, DepthInUse, queue>>
  PROVE  PipesOK' /\ BuffersOK' /\ ControlOK'
<1> USE RouteTableAssumption
<1> DEFINE found == RoutesListing(p, i)
<1>1. CASE found # {}
  <2> DEFINE k == [l EXCEPT !.idx = Min(found)]
  <2>1. Goto(t, "unsub", k) /\ UNCHANGED <<PipeTbl, buf>>
    BY <1>1 DEF WalkFrom
  <2>2. Min(found) \in RouteIdxs
    <3>1. found \subseteq Nat /\ found \subseteq RouteIdxs
      BY DEF RoutesListing, RouteIdxs
    <3> QED
      BY <1>1, <3>1, MinLemma
  <2>3. Min(found) \in 0 .. MaxMsgIds
    BY <2>2 DEF RouteIdxs
  <2>4. /\ k \in Locals /\ k.idx = Min(found) /\ k.pipe = l.pipe /\ k.deleting
        /\ k.app = l.app /\ k.cursor = l.cursor
    <3> HIDE DEF found
    <3> QED
      BY <2>3 DEF Locals
  <2>5. LocalsFit("unsub", k)
    BY <2>2, <2>4 DEF LocalsFit
  <2> HIDE DEF k
  <2>6. ControlOK'
    BY <2>1, <2>4, <2>5, GotoLemma DEF TransferOK, PCs
  <2> QED
    BY <2>1, <2>6 DEF TransferOK, PipesOK, BuffersOK
<1>2. CASE found = {}
  <2> DEFINE k == [l EXCEPT !.idx = 0]
             e == [PipeTbl[p] EXCEPT !.ToTrashBuff = NULL]
  <2>1. /\ Goto(t, "drain", k)
        /\ buf' = DecrBufUseCnt(buf, PipeTbl[p].ToTrashBuff)
        /\ PipeTbl' = [PipeTbl EXCEPT ![p] = e]
    BY <1>2 DEF WalkFrom
  <2>2. e \in PipeD /\ PipeTbl[p].ToTrashBuff \in Bufs \cup {NULL}
    BY BuffTypes DEF TransferOK, PipeD
  <2>3. /\ k \in Locals /\ k.pipe = l.pipe /\ k.deleting
        /\ k.app = l.app /\ k.cursor = l.cursor
    BY DEF Locals
  <2>4. LocalsFit("drain", k)
    BY <2>3 DEF LocalsFit
  <2> HIDE DEF k, e
  <2>5. ControlOK'
    BY <2>1, <2>3, <2>4, GotoLemma DEF TransferOK, PCs
  <2>6. PipesOK'
    BY <2>1, <2>2, PipeEntryLemma DEF TransferOK
  <2>7. BuffersOK'
    BY <2>1, <2>2, DecrLemma DEF TransferOK
  <2> QED
    BY <2>5, <2>6, <2>7
<1> QED
  BY <1>1, <1>2

LEMMA DeletePipeOK ==
  ASSUME BusInv, NEW t \in Tasks, NEW p \in Pipes, DeletePipe(t, p)
  PROVE  StepOK
<1> DEFINE l == [NoLoc EXCEPT !.pipe = p, !.app = AppOf[t], !.deleting = TRUE]
<1>1. /\ WalkFrom(t, p, 0, l)
      /\ UNCHANGED <<routeVars, PipesInUse, DepthInUse, queue, rptVars, handles>>
  BY DEF DeletePipe
<1>2. NoLoc \in Locals /\ NoLoc.cursor = -1 /\ AppOf[t] \in Apps
  BY IdleLemma, SoftwareBusAssumption DEF NoLoc
<1>3. l \in Locals /\ l.deleting /\ l.pipe = p /\ l.app = AppOf[t] /\ l.cursor = -1
  BY <1>2 DEF Locals
<1>4. LocalsFit("drain", l)
  BY <1>2, <1>3 DEF LocalsFit
<1> HIDE DEF l
<1>5. PipesOK' /\ BuffersOK' /\ ControlOK'
  BY <1>1, <1>3, <1>4, WalkFromOK DEF BusInv
<1>6. ReportsOK'
  BY <1>1 DEF BusInv, TransferOK, ReportsOK, rptVars
<1> QED
  BY <1>1, <1>5, <1>6 DEF StepOK, TransferOK

LEMMA DeleteWalkOK ==
  ASSUME BusInv, NEW t \in Tasks, DeleteWalk(t)
  PROVE  StepOK
<1>1. /\ pc[t] = "walk" /\ WalkFrom(t, loc[t].pipe, loc[t].idx, loc[t])
      /\ UNCHANGED <<routeVars, PipesInUse, DepthInUse, queue, rptVars, handles>>
  BY DEF DeleteWalk
<1>2. loc[t] \in Locals /\ LocalsFit(pc[t], loc[t]) /\ loc[t].idx \in Nat
  BY RouteTableAssumption DEF BusInv, TransferOK, ControlOK, Locals
<1>3. loc[t].pipe \in Pipes /\ loc[t].deleting /\ LocalsFit("drain", loc[t])
  BY <1>1, <1>2 DEF LocalsFit
<1>4. PipesOK' /\ BuffersOK' /\ ControlOK'
  BY <1>1, <1>2, <1>3, WalkFromOK DEF BusInv
<1>5. ReportsOK'
  BY <1>1 DEF BusInv, TransferOK, ReportsOK, rptVars
<1> QED
  BY <1>1, <1>4, <1>5 DEF StepOK, TransferOK

LEMMA DeleteUnsubscribeOK ==
  ASSUME BusInv, NEW t \in Tasks, DeleteUnsubscribe(t)
  PROVE  StepOK
<1> USE RouteTableAssumption
<1> DEFINE m == RoutingTbl[loc[t].idx].MsgId
           l == [loc[t] EXCEPT !.idx = loc[t].idx + 1]
<1>1. /\ pc[t] = "unsub"
      /\ UNCHANGED <<pipeVars, buf, rptVars, handles>>
  BY DEF DeleteUnsubscribe
<1>2. loc[t] \in Locals /\ LocalsFit(pc[t], loc[t])
  BY DEF BusInv, TransferOK, ControlOK
<1>3. loc[t].idx \in RouteIdxs /\ loc[t].pipe \in Pipes /\ loc[t].deleting
  BY <1>1, <1>2 DEF LocalsFit
<1>4. m \in MsgIds \cup {NoMsgId}
  BY <1>3 DEF BusInv, RouteInv, RouteTypeOK, RouteEntry
<1>5. PipesOK' /\ BuffersOK' /\ ReportsOK'
  BY <1>1 DEF BusInv, TransferOK, PipesOK, BuffersOK, ReportsOK, rptVars, pipeVars
<1>6. CASE Goto(t, "fault", NoLoc) /\ UNCHANGED routeVars
  <2>1. ControlOK'
    BY <1>6, IdleLemma, GotoLemma DEF BusInv, TransferOK, PCs
  <2> QED
    BY <1>5, <1>6, <2>1 DEF StepOK, TransferOK
<1>7. CASE /\ UnsubscribeFull(m, loc[t].pipe, loc[t].app)
           /\ Goto(t, "walk", l)
  <2>1. [RouteNext]_routeVars
    BY <1>3, <1>4, <1>7, UnsubscribeFullRoutes
  <2>2. loc[t].idx + 1 \in 0 .. MaxMsgIds
    BY <1>3 DEF RouteIdxs
  <2>3. /\ l \in Locals /\ l.pipe = loc[t].pipe /\ l.deleting
        /\ l.app = loc[t].app /\ l.cursor = loc[t].cursor
    BY <1>2, <1>3, <2>2 DEF Locals
  <2>4. LocalsFit("walk", l)
    BY <1>2, <1>3, <2>3 DEF LocalsFit
  <2> HIDE DEF l
  <2>5. ControlOK'
    BY <1>7, <2>3, <2>4, GotoLemma DEF BusInv, TransferOK, PCs
  <2> QED
    BY <1>5, <2>1, <2>5 DEF StepOK, TransferOK
<1> QED
  BY <1>6, <1>7 DEF DeleteUnsubscribe

LEMMA DeleteDrainOK ==
  ASSUME BusInv, NEW t \in Tasks, DeleteDrain(t)
  PROVE  StepOK
<1>1. loc[t] \in Locals /\ LocalsFit("drain", loc[t])
  BY DEF DeleteDrain, BusInv, TransferOK, ControlOK
<1>2. LocalsFit("rcvBegun", loc[t]) /\ LocalsFit("deleted", loc[t]) /\ loc[t].pipe \in Pipes
  BY <1>1 DEF LocalsFit
<1>3. CASE ValidPipe(loc[t].pipe)
  BY <1>1, <1>2, <1>3, RcvBeginOK DEF DeleteDrain
<1>4. CASE ~ValidPipe(loc[t].pipe)
  <2>1. Goto(t, "deleted", loc[t]) /\ UNCHANGED <<routeVars, pipeVars, buf, rptVars, handles>>
    BY <1>4 DEF DeleteDrain
  <2>2. ControlOK'
    BY <1>1, <1>2, <2>1, GotoLemma DEF BusInv, TransferOK, PCs
  <2>3. PipesOK' /\ BuffersOK' /\ ReportsOK'
    BY <2>1 DEF BusInv, TransferOK, PipesOK, BuffersOK, ReportsOK, rptVars, pipeVars
  <2> QED
    BY <2>1, <2>2, <2>3 DEF StepOK, TransferOK
<1> QED
  BY <1>3, <1>4

LEMMA DeleteFinishOK ==
  ASSUME BusInv, NEW t \in Tasks, DeleteFinish(t)
  PROVE  StepOK
<1> USE RouteTableAssumption
<1> DEFINE p == loc[t].pipe
           q == PipeTbl[p].SysQueueId
           e == RemovedPipe(PipeTbl[p])
           l == [NoLoc EXCEPT !.app = loc[t].app, !.cursor = loc[t].cursor + 1]
<1>1. /\ pc[t] = "deleted"
      /\ queue' = IF q = NoQueue THEN queue ELSE [queue EXCEPT ![q] = Unused]
      /\ PipeTbl' = [PipeTbl EXCEPT ![p] = e]
      /\ PipesInUse' = PipesInUse - 1
      /\ DepthInUse' = [DepthInUse EXCEPT ![p] = 0]
      /\ UNCHANGED <<routeVars, buf, rptVars>>
  BY DEF DeleteFinish
<1>2. /\ p \in Pipes /\ loc[t].app \in Apps
      /\ loc[t].cursor \in Pipes \cup {-1} /\ loc[t] \in Locals
  BY <1>1 DEF BusInv, TransferOK, ControlOK, LocalsFit
<1>3. e \in PipeD /\ q \in QueueIds \cup {NoQueue}
  <2>1. PipeTbl[p] \in PipeD /\ q \in QueueIds \cup {NoQueue}
    BY <1>2, BuffTypes DEF BusInv, TransferOK
  <2>2. ASSUME NEW x \in PipeD PROVE RemovedPipe(x) \in PipeD
    BY DEF RemovedPipe, PipeD
  <2> QED
    BY <2>1, <2>2
<1>4. PipesOK'
  <2>1. Unused \in QueueD /\ 0 \in 0 .. U16 - 1
    BY DEF Unused, QueueD, U16
  <2> HIDE DEF e, p, q
  <2>2. queue' \in [QueueIds -> QueueD]
    BY <1>1, <1>3, <2>1 DEF BusInv, TransferOK, PipesOK
  <2>3. PipeTbl' \in [Pipes -> PipeD] /\ DepthInUse' \in [Pipes -> 0 .. U16 - 1]
    BY <1>1, <1>2, <1>3, <2>1 DEF BusInv, TransferOK, PipesOK
  <2>4. PipesInUse' \in Int
    BY <1>1 DEF BusInv, TransferOK, PipesOK
  <2> QED
    BY <2>2, <2>3, <2>4 DEF PipesOK
<1>5. BuffersOK'
  BY <1>1 DEF BusInv, TransferOK, BuffersOK
<1>6. CASE loc[t].cursor = -1
  <2>1. /\ Goto(t, "idle", NoLoc)
        /\ handles' = [handles EXCEPT ![loc[t].app] = handles[loc[t].app] \ {p}]
    BY <1>6 DEF DeleteFinish
  <2>2. ControlOK'
    BY <2>1, IdleLemma, GotoLemma DEF BusInv, TransferOK, PCs
  <2>3. ReportsOK'
    BY <1>1, <1>2, <2>1 DEF BusInv, TransferOK, ReportsOK, rptVars
  <2> QED
    BY <1>1, <1>4, <1>5, <2>2, <2>3 DEF StepOK, TransferOK
<1>7. CASE loc[t].cursor # -1
  <2>1. Goto(t, "cleaning", l) /\ UNCHANGED handles
    BY <1>7 DEF DeleteFinish
  <2>2. loc[t].cursor + 1 \in 0 .. MaxPipes /\ loc[t].cursor + 1 \in -1 .. MaxPipes
    BY <1>2, <1>7 DEF Pipes
  <2>3. NoLoc \in Locals /\ ~NoLoc.deleting
    BY IdleLemma DEF NoLoc
  <2>4. l \in Locals /\ ~l.deleting /\ l.app = loc[t].app /\ l.cursor = loc[t].cursor + 1
    BY <1>2, <2>2, <2>3 DEF Locals
  <2>5. LocalsFit("cleaning", l)
    BY <1>2, <2>2, <2>4 DEF LocalsFit
  <2> HIDE DEF l
  <2>6. ControlOK'
    BY <2>1, <2>4, <2>5, GotoLemma DEF BusInv, TransferOK, PCs
  <2>7. ReportsOK'
    BY <1>1, <2>1 DEF BusInv, TransferOK, ReportsOK, rptVars
  <2> QED
    BY <1>1, <1>4, <1>5, <2>6, <2>7 DEF StepOK, TransferOK
<1> QED
  BY <1>6, <1>7

(* Steps that only move tasks.                                             *)
LEMMA ControlOnly ==
  ASSUME BusInv, UNCHANGED <<routeVars, pipeVars, buf, rptVars, handles>>, ControlOK'
  PROVE  StepOK
BY DEF StepOK, BusInv, TransferOK, PipesOK, BuffersOK, ReportsOK, rptVars, pipeVars

LEMMA ExitAppOK ==
  ASSUME BusInv, NEW t \in Tasks, ExitApp(t)
  PROVE  StepOK
<1>1. ControlOK'
  BY IdleLemma, GotoLemma DEF ExitApp, BusInv, TransferOK, PCs
<1> QED
  BY <1>1, ControlOnly DEF ExitApp

LEMMA CleanUpAppOK ==
  ASSUME BusInv, NEW a \in Apps, CleanUpApp(a)
  PROVE  StepOK
<1> DEFINE l == [NoLoc EXCEPT !.app = a, !.cursor = 0]
<1>a. NoLoc \in Locals /\ ~NoLoc.deleting
  BY IdleLemma DEF NoLoc
<1>b. 0 \in 0 .. MaxPipes /\ 0 \in -1 .. MaxPipes
  BY RouteTableAssumption
<1>1. NoLoc \in Locals /\ ~NoLoc.deleting /\ 0 \in 0 .. MaxPipes /\ 0 \in -1 .. MaxPipes
  BY <1>a, <1>b
<1>2. l \in Locals /\ ~l.deleting /\ l.app = a /\ l.cursor = 0
  BY <1>1 DEF Locals
<1>3. LocalsFit("cleaning", l)
  BY <1>1, <1>2 DEF LocalsFit
<1>4. Goto(ES, "cleaning", l) /\ UNCHANGED <<routeVars, pipeVars, buf, rptVars, handles>>
  BY DEF CleanUpApp
<1> HIDE DEF l
<1>5. ControlOK'
  BY <1>2, <1>3, <1>4, GotoLemma, SoftwareBusAssumption DEF BusInv, TransferOK, PCs
<1> QED
  BY <1>4, <1>5, ControlOnly

LEMMA CleanUpPipeOK ==
  ASSUME BusInv, CleanUpPipe
  PROVE  StepOK
<1> USE RouteTableAssumption, SoftwareBusAssumption
<1> DEFINE a == loc[ES].app
           p == loc[ES].cursor
<1>1. /\ pc[ES] = "cleaning"
      /\ UNCHANGED <<routeVars, PipesInUse, DepthInUse, rptVars>>
  BY DEF CleanUpPipe
<1>2. loc[ES] \in Locals /\ ~loc[ES].deleting /\ a \in Apps /\ p \in 0 .. MaxPipes
  BY <1>1 DEF BusInv, TransferOK, ControlOK, LocalsFit
<1>3. CASE p \notin Pipes
  <2>1. /\ pc' = [t \in Tasks |-> IF t = ES THEN "idle"
                                  ELSE IF AppOf[t] = a THEN "dead" ELSE pc[t]]
        /\ loc' = [t \in Tasks |-> IF t = ES \/ AppOf[t] = a THEN NoLoc ELSE loc[t]]
        /\ handles' = [handles EXCEPT ![a] = {}]
        /\ queue' = [q \in QueueIds |->
             IF \E i \in Pipes : Owns(a, i) /\ PipeTbl[i].SysQueueId = q
             THEN Unused ELSE queue[q]]
        /\ UNCHANGED <<PipeTbl, buf>>
    BY <1>3 DEF CleanUpPipe
  <2>2. ControlOK'
    <3>1. NoLoc \in Locals /\ LocalsFit("idle", NoLoc) /\ LocalsFit("dead", NoLoc)
      BY IdleLemma
    <3>2. ASSUME NEW t \in Tasks
          PROVE  pc'[t] \in PCs /\ loc'[t] \in Locals /\ LocalsFit(pc'[t], loc'[t])
      <4>1. pc[t] \in PCs /\ loc[t] \in Locals /\ LocalsFit(pc[t], loc[t])
        BY DEF BusInv, TransferOK, ControlOK
      <4>2. CASE t = ES
        <5>1. pc'[t] = "idle" /\ loc'[t] = NoLoc
          BY <2>1, <4>2
        <5> QED
          BY <3>1, <5>1 DEF PCs
      <4>3. CASE t # ES /\ AppOf[t] = a
        <5>1. pc'[t] = "dead" /\ loc'[t] = NoLoc
          BY <2>1, <4>3
        <5> QED
          BY <3>1, <5>1 DEF PCs
      <4>4. CASE t # ES /\ AppOf[t] # a
        <5>1. pc'[t] = pc[t] /\ loc'[t] = loc[t]
          BY <2>1, <4>4
        <5> QED
          BY <4>1, <5>1
      <4> QED
        BY <4>2, <4>3, <4>4
    <3>3. pc' \in [Tasks -> PCs]
      BY <2>1, <3>2
    <3>4. loc' \in [Tasks -> Locals]
      BY <2>1, <3>2
    <3> QED
      BY <3>2, <3>3, <3>4 DEF ControlOK
  <2>3. queue' \in [QueueIds -> QueueD]
    <3>1. Unused \in QueueD /\ queue \in [QueueIds -> QueueD]
      BY DEF Unused, QueueD, BusInv, TransferOK, PipesOK
    <3> QED
      BY <2>1, <3>1
  <2>4. PipesOK' /\ BuffersOK' /\ ReportsOK'
    BY <1>1, <1>2, <2>1, <2>3 DEF BusInv, TransferOK, PipesOK, BuffersOK, ReportsOK, rptVars
  <2> QED
    BY <1>1, <2>2, <2>4 DEF StepOK, TransferOK
<1>4. CASE p \in Pipes /\ Owns(a, p)
  <2> DEFINE l == [loc[ES] EXCEPT !.pipe = p, !.deleting = TRUE]
  <2>1. WalkFrom(ES, p, 0, l) /\ UNCHANGED <<handles, queue>>
    BY <1>4 DEF CleanUpPipe
  <2>2. l \in Locals /\ l.deleting /\ l.pipe = p /\ l.app = a /\ l.cursor = p
    BY <1>2, <1>4 DEF Locals
  <2>3. LocalsFit("drain", l)
    BY <1>2, <1>4, <2>2 DEF LocalsFit
  <2> HIDE DEF l
  <2>4. PipesOK' /\ BuffersOK' /\ ControlOK'
    BY <1>1, <1>4, <2>1, <2>2, <2>3, WalkFromOK DEF BusInv
  <2>5. ReportsOK'
    BY <1>1, <2>1 DEF BusInv, TransferOK, ReportsOK, rptVars
  <2> QED
    BY <1>1, <2>4, <2>5 DEF StepOK, TransferOK
<1>5. CASE p \in Pipes /\ ~Owns(a, p)
  <2> DEFINE l == [loc[ES] EXCEPT !.cursor = loc[ES].cursor + 1]
  <2>1. Goto(ES, "cleaning", l) /\ UNCHANGED <<PipeTbl, buf, handles, queue>>
    BY <1>5 DEF CleanUpPipe
  <2>2. p + 1 \in 0 .. MaxPipes /\ p + 1 \in -1 .. MaxPipes
    BY <1>5 DEF Pipes
  <2>3. l \in Locals /\ ~l.deleting /\ l.app = a /\ l.cursor = p + 1
    BY <1>2, <2>2 DEF Locals
  <2>4. LocalsFit("cleaning", l)
    BY <1>2, <2>2, <2>3 DEF LocalsFit
  <2> HIDE DEF l
  <2>5. ControlOK'
    BY <2>1, <2>3, <2>4, GotoLemma DEF BusInv, TransferOK, PCs
  <2> QED
    BY <1>1, <2>1, <2>5, ControlOnly DEF pipeVars
<1> QED
  BY <1>3, <1>4, <1>5

LEMMA StartAppOK ==
  ASSUME BusInv, NEW a \in Apps, StartApp(a)
  PROVE  StepOK
<1>1. /\ \A t \in Tasks : AppOf[t] = a => pc[t] = "dead"
      /\ pc' = [t \in Tasks |-> IF AppOf[t] = a THEN "idle" ELSE pc[t]]
      /\ UNCHANGED <<routeVars, pipeVars, buf, rptVars, handles, loc>>
  BY DEF StartApp, TasksOf
<1>2. ASSUME NEW t \in Tasks
      PROVE  pc'[t] \in PCs /\ LocalsFit(pc'[t], loc'[t])
  <2>1. pc[t] \in PCs /\ LocalsFit(pc[t], loc[t]) /\ loc'[t] = loc[t]
    BY <1>1 DEF BusInv, TransferOK, ControlOK
  <2>2. CASE AppOf[t] = a
    <3>1. pc'[t] = "idle" /\ pc[t] = "dead"
      BY <1>1, <2>2
    <3> QED
      BY <2>1, <3>1 DEF PCs, LocalsFit
  <2>3. CASE AppOf[t] # a
    BY <1>1, <2>1, <2>3
  <2> QED
    BY <2>2, <2>3
<1>3. pc' \in [Tasks -> PCs]
  BY <1>1, <1>2
<1>4. ControlOK'
  BY <1>1, <1>2, <1>3 DEF BusInv, TransferOK, ControlOK
<1> QED
  BY <1>1, <1>4, ControlOnly

LEMMA RouteCmdOK ==
  ASSUME BusInv, NEW m \in MsgIds, NEW p \in Pipes, NEW active \in BOOLEAN,
         RouteCmd(m, p, active)
  PROVE  StepOK
<1>1. RouteNext
  BY DEF RouteCmd, RouteNext
<1>2. ControlOK'
  BY StayLemma DEF RouteCmd, BusInv, TransferOK
<1>3. PipesOK' /\ BuffersOK' /\ ReportsOK'
  BY DEF RouteCmd, BusInv, TransferOK, PipesOK, BuffersOK, ReportsOK, rptVars, pipeVars
<1> QED
  BY <1>1, <1>2, <1>3 DEF StepOK, TransferOK

LEMMA SetSubscriptionReportingOK ==
  ASSUME BusInv, NEW state \in BOOLEAN, SetSubscriptionReporting(state)
  PROVE  StepOK
<1>1. ControlOK'
  BY StayLemma DEF SetSubscriptionReporting, BusInv, TransferOK
<1>2. PipesOK' /\ BuffersOK' /\ ReportsOK' /\ UNCHANGED routeVars
  BY DEF SetSubscriptionReporting, BusInv, TransferOK, PipesOK, BuffersOK, ReportsOK, pipeVars
<1> QED
  BY <1>1, <1>2 DEF StepOK, TransferOK

-----------------------------------------------------------------------------
(* The theorems *)

LEMMA BusStep ==
  ASSUME BusInv, [Next]_vars
  PROVE  [RouteNext]_routeVars /\ BusInv'
<1>1. StepOK
  <2>1. CASE UNCHANGED vars
    <3>1. UNCHANGED <<routeVars, pipeVars, buf, rptVars, handles, pc, loc>>
      BY <2>1 DEF vars
    <3>2. ControlOK'
      BY <3>1 DEF BusInv, TransferOK, ControlOK
    <3> QED
      BY <3>1, <3>2, ControlOnly
  <2>2. ASSUME NEW t \in Tasks, Call(t)
        PROVE  StepOK
    <3>1. CASE \E depth \in Depths : CreatePipe(t, depth)
      BY <3>1, CreatePipeOK
    <3>2. CASE ExitApp(t)
      BY <3>2, ExitAppOK
    <3>3. CASE \E m \in MsgIds : SendMsg(t, m)
      BY <3>3, SendMsgOK
    <3>4. ASSUME NEW p \in Pipes, DeletePipe(t, p)
          PROVE  StepOK
      BY <3>4, DeletePipeOK
    <3>5. ASSUME NEW p \in Pipes, NEW o \in BOOLEAN, SetPipeOpts(t, p, o)
          PROVE  StepOK
      BY <3>5, SetPipeOptsOK
    <3>6. ASSUME NEW p \in Pipes, NEW timeout \in TimeOuts, RcvMsg(t, p, timeout)
          PROVE  StepOK
      BY <3>6, RcvMsgOK
    <3>7. ASSUME NEW p \in Pipes, NEW m \in MsgIds, NEW scope \in Scopes,
                 NEW lim \in MsgLims, Subscribe(t, m, p, lim, scope)
          PROVE  StepOK
      BY <3>7, SubscribeOK
    <3>8. ASSUME NEW p \in Pipes, NEW m \in MsgIds, NEW scope \in Scopes,
                 Unsubscribe(t, m, p, scope)
          PROVE  StepOK
      BY <3>8, UnsubscribeOK
    <3> QED
      BY <2>2, <3>1, <3>2, <3>3, <3>4, <3>5, <3>6, <3>7, <3>8 DEF Call
  <2>3. ASSUME NEW t \in Tasks, Continue(t)
        PROVE  StepOK
    BY <2>3, SendReportOK, RcvReadQueueOK, RcvWakeOK, RcvTimeOutOK, RcvFinishOK,
       DeleteUnsubscribeOK, DeleteWalkOK, DeleteDrainOK, DeleteFinishOK,
       CleanUpPipeOK DEF Continue
  <2>4. ASSUME NEW a \in Apps, CleanUpApp(a) \/ StartApp(a)
        PROVE  StepOK
    BY <2>4, CleanUpAppOK, StartAppOK
  <2>5. ASSUME NEW m \in MsgIds, NEW p \in Pipes, NEW active \in BOOLEAN,
               RouteCmd(m, p, active)
        PROVE  StepOK
    BY <2>5, RouteCmdOK
  <2>6. ASSUME NEW state \in BOOLEAN, SetSubscriptionReporting(state)
        PROVE  StepOK
    BY <2>6, SetSubscriptionReportingOK
  <2> QED
    BY <2>1, <2>2, <2>3, <2>4, <2>5, <2>6 DEF Next
<1>2. RouteInv'
  BY <1>1, RouteStepInv DEF StepOK, BusInv
<1> QED
  BY <1>1, <1>2 DEF StepOK, BusInv

LEMMA BusInit == Init => BusInv
<1> SUFFICES ASSUME Init PROVE BusInv
  OBVIOUS
<1> USE SoftwareBusAssumption, RouteTableAssumption
<1>1. RouteInv
  BY InitInv DEF Init
<1>2. PipesOK
  <2>1. Unused \in QueueD /\ 0 \in 0 .. U16 - 1
    BY DEF Unused, QueueD, U16
  <2>2. PipeTbl \in [Pipes -> PipeD]
    BY DEF Init, PipeD
  <2>3. /\ PipesInUse = 0
        /\ DepthInUse = [p \in Pipes |-> 0]
        /\ queue = [q \in QueueIds |-> Unused]
    BY DEF Init
  <2>4. queue \in [QueueIds -> QueueD] /\ DepthInUse \in [Pipes -> 0 .. U16 - 1]
    BY <2>1, <2>3
  <2> QED
    BY <2>2, <2>3, <2>4 DEF PipesOK
<1>3. BuffersOK
  BY DEF Init, BuffersOK, BufferD, FreeBuf
<1>4. ReportsOK
  BY DEF Init, ReportsOK
<1>5. ControlOK
  <2>1. NoLoc \in Locals /\ LocalsFit("idle", NoLoc)
    BY IdleLemma
  <2> QED
    BY <2>1 DEF Init, ControlOK, PCs
<1> QED
  BY <1>1, <1>2, <1>3, <1>4, <1>5 DEF BusInv, TransferOK

(* Between any two locked sections the tables are well-formed and every     *)
(* task's locals fit the place it is at, whatever the tasks call.           *)
THEOREM BusInvariance == Spec => []BusInv
  BY BusInit, BusStep, PTL DEF Spec

(* The pipe table, the queues, the buffers and the calls under way keep     *)
(* their types: no step indexes a table outside its bounds or reads a       *)
(* local that was never set.                                                *)
THEOREM BusTypeCorrect == Spec => []TypeOK
<1>1. BusInv => TypeOK
  BY DEF BusInv, RouteInv, TransferOK, PipesOK, BuffersOK, ReportsOK, ControlOK, TypeOK
<1> QED
  BY <1>1, BusInvariance, PTL

(* The Software Bus implements SBRouteTable: every locked section changes   *)
(* the routing state as one of that module's operations does.               *)
THEOREM BusImplementsRouteTable == Spec => RoutesAsSpecified
<1>1. Init => RouteInit
  BY DEF Init
<1>2. BusInv /\ [Next]_vars => [RouteNext]_routeVars
  BY BusStep
<1> QED
  BY <1>1, <1>2, BusInvariance, PTL DEF Spec, RoutesAsSpecified, RouteSpec

(* So the tables of the bus have the properties of the routing state, at    *)
(* every unlock of every call, whatever applications do: indices are        *)
(* conserved, lists and counts exact, and limits kept.                      *)
THEOREM BusRoutesSound ==
  Spec => [](RouteIdxConserved /\ RoutesWellFormed /\ RouteStatsExact
             /\ BuffCountWithinLimit)
<1>1. RouteSpec => [](RouteIdxConserved /\ RoutesWellFormed /\ RouteStatsExact
                      /\ BuffCountWithinLimit)
  BY RouteIndicesConserved, RouteListsWellFormed, RouteStatisticsExact,
     MessageLimitRespected, PTL
<1> QED
  BY <1>1, BusImplementsRouteTable, PTL DEF RoutesAsSpecified

-----------------------------------------------------------------------------
(* Unsubscribing *)

(* A message id keeps its route only as long as it has a destination.       *)
MappedHaveDest == \A m \in MappedIds : RoutingTbl[MsgMap[m]].Destinations > 0

(* A step that rewrites one route and keeps the map.                       *)
LEMMA SameDestinations ==
  ASSUME RouteInv, MappedHaveDest, NEW r \in RouteIdxs, NEW e,
         RoutingTbl' = [RoutingTbl EXCEPT ![r] = e],
         e.Destinations = RoutingTbl[r].Destinations, UNCHANGED MsgMap
  PROVE  MappedHaveDest'
<1>1. \A k \in RouteIdxs : RoutingTbl'[k] = IF k = r THEN e ELSE RoutingTbl[k]
  BY DEF RouteInv, RouteTypeOK
<1>2. \A k \in RouteIdxs : RoutingTbl'[k].Destinations = RoutingTbl[k].Destinations
  BY <1>1
<1>3. MappedIds' = MappedIds
  BY DEF MappedIds, IsMapped
<1>4. \A m \in MappedIds : MsgMap[m] \in RouteIdxs
  BY DEF MappedIds, IsMapped, RouteInv, RouteTypeOK
<1> QED
  BY <1>2, <1>3, <1>4 DEF MappedHaveDest

(* Without a failed allocation (SubscribeNoBlock) every routing step keeps  *)
(* it: CFE_SB_UnsubscribeFull gives the route back with its last node.      *)
LEMMA MappedHaveDestStep ==
  ASSUME RouteInv, MappedHaveDest, ~PoolMayRunOut, [RouteNext]_routeVars
  PROVE  MappedHaveDest'
<1>a. RoutingTbl \in [RouteIdxs -> RouteEntry]
  BY DEF RouteInv, RouteTypeOK
<1>b. \A r \in RouteIdxs : RoutingTbl[r] \in RouteEntry /\ RoutingTbl[r].Destinations \in Nat
  BY EntryLemma
<1>c. MsgMap \in [MsgIds -> RouteIdxs \cup {InvalidRouteIdx}] /\ InvalidRouteIdx \notin RouteIdxs
  BY DEF RouteInv, RouteTypeOK, InvalidRouteIdx, RouteIdxs
<1>1. CASE UNCHANGED routeVars
  BY <1>1 DEF routeVars, MappedHaveDest, MappedIds, IsMapped
<1>2. ASSUME NEW m \in MsgIds, NEW p \in Pipes, NEW lim \in MsgLims,
             NEW scope \in Scopes, AddSubscription(m, p, lim, scope)
      PROVE  MappedHaveDest'
  <2> DEFINE r == RouteFor(m)
             e == [RoutingTbl[r] EXCEPT
                     !.MsgId = IF IsMapped(m) THEN RoutingTbl[r].MsgId ELSE m,
                     !.Destinations = RoutingTbl[r].Destinations + 1,
                     !.ListHeadPtr = AddDest(RoutingTbl[r].ListHeadPtr,
                                             NewDest(p, lim, scope))]
  <2>1. /\ SubscribeAdmits(m, p) /\ ClaimRoute(m) /\ UNCHANGED RouteIdxStack
        /\ RoutingTbl' = [RoutingTbl EXCEPT ![r] = e]
    BY <1>2 DEF AddSubscription
  <2>2. /\ r \in RouteIdxs
        /\ \A n \in MsgIds : MsgMap'[n] = IF n = m THEN r ELSE MsgMap[n]
        /\ MappedIds' = MappedIds \cup {m}
    BY <2>1, ClaimLemma DEF SubscribeAdmits
  <2>3. \A n \in MappedIds : n # m => MsgMap[n] # r /\ MsgMap[n] \in RouteIdxs
    BY <2>1, AdmittedRoute, <1>c DEF MappedIds, IsMapped
  <2> HIDE DEF r
  <2>4. e.Destinations > 0
    BY <2>2, <1>b DEF RouteEntry
  <2> HIDE DEF e
  <2>5. \A k \in RouteIdxs : RoutingTbl'[k] = IF k = r THEN e ELSE RoutingTbl[k]
    BY <1>a, <2>1
  <2>6. \A n \in MappedIds : n \in MsgIds
    BY DEF MappedIds
  <2> QED
    BY <2>2, <2>3, <2>4, <2>5, <2>6 DEF MappedHaveDest
<1>3. ASSUME NEW m \in MsgIds, NEW p \in Pipes, RemoveSubscription(m, p)
      PROVE  MappedHaveDest'
  <2> DEFINE r == MsgMap[m]
             list == RoutingTbl[r].ListHeadPtr
             left == RoutingTbl[r].Destinations - 1
             e == [RoutingTbl[r] EXCEPT
                     !.Destinations = left,
                     !.ListHeadPtr = RemoveDest(list, DestPos(list, p))]
  <2>1. CASE ~HasDest(list, p)
    BY <1>3, <2>1 DEF RemoveSubscription, routeVars, MappedHaveDest, MappedIds, IsMapped
  <2>2. CASE HasDest(list, p)
    <3>1. /\ IsMapped(m) /\ RoutingTbl' = [RoutingTbl EXCEPT ![r] = e]
          /\ IF left = 0 THEN MsgMap' = [MsgMap EXCEPT ![m] = InvalidRouteIdx]
                         ELSE UNCHANGED MsgMap
      BY <1>3, <2>2 DEF RemoveSubscription, FreeRoute
    <3>2. r \in RouteIdxs /\ m \in MappedIds
      BY <3>1, MappedRoute
    <3>3. RoutingTbl[r].Destinations > 0 /\ RoutingTbl[r].Destinations \in Nat
      BY <1>b, <3>2 DEF MappedHaveDest
    <3> HIDE DEF r, list
    <3>4. e.Destinations = left
      BY <1>b, <3>2 DEF RouteEntry
    <3> HIDE DEF e
    <3>5. \A k \in RouteIdxs : RoutingTbl'[k] = IF k = r THEN e ELSE RoutingTbl[k]
      BY <1>a, <3>1
    <3>6. \A n \in MappedIds : n # m => MsgMap[n] # r
      BY <3>2 DEF RouteInv, RouteIdxConserved, r
    <3>7. \A n \in MappedIds : n \in MsgIds /\ MsgMap[n] \in RouteIdxs
      BY <1>c DEF MappedIds, IsMapped
    <3>8. CASE left = 0
      <4>1. MappedIds' = MappedIds \ {m} /\ \A n \in MsgIds \ {m} : MsgMap'[n] = MsgMap[n]
        BY <1>c, <3>1, <3>8 DEF MappedIds, IsMapped
      <4> QED
        BY <4>1, <3>5, <3>6, <3>7 DEF MappedHaveDest
    <3>9. CASE left # 0
      <4>1. MappedIds' = MappedIds /\ MsgMap' = MsgMap
        BY <3>1, <3>9 DEF MappedIds, IsMapped
      <4>2. e.Destinations > 0
        BY <3>3, <3>4, <3>9
      <4> QED
        BY <4>1, <4>2, <3>5, <3>7 DEF MappedHaveDest
    <3> QED
      BY <3>8, <3>9
  <2> QED
    BY <2>1, <2>2
<1>4. ASSUME NEW m \in MsgIds, NEW p \in Pipes, CountReceive(m, p)
      PROVE  MappedHaveDest'
  <2> DEFINE r == MsgMap[m]
             list == RoutingTbl[r].ListHeadPtr
             pos == DestPos(list, p)
             new == [list EXCEPT ![pos].BuffCount = IF @ > 0 THEN @ - 1 ELSE @]
             e == [RoutingTbl[r] EXCEPT !.ListHeadPtr = new]
  <2>1. CASE ~Subscribed(m, p)
    BY <1>4, <2>1 DEF CountReceive, routeVars, MappedHaveDest, MappedIds, IsMapped
  <2>2. CASE Subscribed(m, p)
    <3>1. RoutingTbl' = [RoutingTbl EXCEPT ![r] = e] /\ UNCHANGED MsgMap
      BY <1>4, <2>2 DEF CountReceive
    <3>2. r \in RouteIdxs
      BY <2>2, SubscribedNode
    <3> HIDE DEF r, new
    <3>3. e.Destinations = RoutingTbl[r].Destinations
      BY <1>b, <3>2 DEF RouteEntry
    <3> HIDE DEF e
    <3> QED
      BY <3>1, <3>2, <3>3, SameDestinations
  <2> QED
    BY <2>1, <2>2
<1>5. ASSUME NEW m \in MsgIds, NEW p \in Pipes, NEW active \in BOOLEAN,
             SetActive(m, p, active)
      PROVE  MappedHaveDest'
  <2> DEFINE r == MsgMap[m]
             list == RoutingTbl[r].ListHeadPtr
             pos == DestPos(list, p)
             new == [list EXCEPT ![pos].Active = active]
             e == [RoutingTbl[r] EXCEPT !.ListHeadPtr = new]
  <2>1. RoutingTbl' = [RoutingTbl EXCEPT ![r] = e] /\ UNCHANGED MsgMap
    BY <1>5 DEF SetActive
  <2>2. r \in RouteIdxs
    BY <1>5, SubscribedNode DEF SetActive
  <2> HIDE DEF r, new
  <2>3. e.Destinations = RoutingTbl[r].Destinations
    BY <1>b, <2>2 DEF RouteEntry
  <2> HIDE DEF e
  <2> QED
    BY <2>1, <2>2, <2>3, SameDestinations
<1>6. ASSUME NEW m \in MsgIds, IsMapped(m), NEW incr \in BOOLEAN,
             NEW D \in SUBSET BelowLimit(m), CountSend(m, incr, D)
      PROVE  MappedHaveDest'
  <2> DEFINE r == MsgMap[m]
             list == RoutingTbl[r].ListHeadPtr
             new == [i \in DOMAIN list |->
                       IF i \in D THEN [list[i] EXCEPT !.BuffCount = @ + 1] ELSE list[i]]
             seq == IF m \in Tlm /\ incr THEN (RoutingTbl[r].SeqCnt + 1) % SeqMod
                    ELSE RoutingTbl[r].SeqCnt
             e == [RoutingTbl[r] EXCEPT !.SeqCnt = seq, !.ListHeadPtr = new]
  <2>1. RoutingTbl' = [RoutingTbl EXCEPT ![r] = e] /\ UNCHANGED MsgMap
    BY <1>6 DEF CountSend
  <2>2. r \in RouteIdxs
    BY <1>6, MappedRoute
  <2> HIDE DEF r, new, seq
  <2>3. e.Destinations = RoutingTbl[r].Destinations
    BY <1>b, <2>2 DEF RouteEntry
  <2> HIDE DEF e
  <2> QED
    BY <2>1, <2>2, <2>3, SameDestinations
<1>7. ASSUME NEW m \in MsgIds, NEW p \in Pipes
      PROVE  ~SubscribeNoBlock(m, p)
  BY DEF SubscribeNoBlock
<1>8. CASE RouteNext
  BY <1>8, <1>2, <1>3, <1>4, <1>5, <1>6, <1>7 DEF RouteNext
<1> QED
  BY <1>1, <1>8

LEMMA NoFaultHere ==
  ASSUME RouteInv, MappedHaveDest, NEW m \in MsgIds \cup {NoMsgId}, NEW p, NEW a
  PROVE  ~UnsubscribeFaults(m, p, a)
<1> SUFFICES ASSUME m # NoMsgId, IsMapped(m)
             PROVE  RoutingTbl[MsgMap[m]].ListHeadPtr # <<>>
  BY DEF UnsubscribeFaults
<1>1. MsgMap[m] \in RouteIdxs /\ m \in MappedIds
  BY MappedRoute
<1>2. Len(RoutingTbl[MsgMap[m]].ListHeadPtr) > 0
  BY <1>1, EntryLemma DEF MappedHaveDest
<1> QED
  BY <1>2

LEMMA NoFaultStep ==
  ASSUME BusInv, MappedHaveDest, NoUnsubscribeFault, [Next]_vars
  PROVE  NoUnsubscribeFault'
<1>a. pc \in [Tasks -> PCs]
  BY DEF BusInv, TransferOK, ControlOK
<1>b. ASSUME NEW t \in Tasks, NEW there, NEW l, there # "fault", Goto(t, there, l)
      PROVE  NoUnsubscribeFault'
  BY <1>a, <1>b DEF Goto, NoUnsubscribeFault
<1>c. ASSUME UNCHANGED pc
      PROVE  NoUnsubscribeFault'
  BY <1>c DEF NoUnsubscribeFault
<1>1. CASE UNCHANGED vars
  BY <1>1, <1>c DEF vars
<1>2. ASSUME NEW t \in Tasks, Call(t)
      PROVE  NoUnsubscribeFault'
  <2>1. CASE \E depth \in Depths : CreatePipe(t, depth)
    BY <2>1, <1>c DEF CreatePipe, Stay
  <2>2. CASE ExitApp(t)
    BY <2>2, <1>b DEF ExitApp
  <2>3. CASE \E m \in MsgIds : SendMsg(t, m)
    BY <2>3, <1>c DEF SendMsg, Stay
  <2>4. ASSUME NEW p \in Pipes, DeletePipe(t, p)
        PROVE  NoUnsubscribeFault'
    BY <2>4, <1>b DEF DeletePipe, WalkFrom
  <2>5. ASSUME NEW p \in Pipes, NEW o \in BOOLEAN, SetPipeOpts(t, p, o)
        PROVE  NoUnsubscribeFault'
    BY <2>5, <1>c DEF SetPipeOpts, Stay
  <2>6. ASSUME NEW p \in Pipes, NEW timeout \in TimeOuts, RcvMsg(t, p, timeout)
        PROVE  NoUnsubscribeFault'
    BY <2>6, <1>b DEF RcvMsg, RcvBegin
  <2>7. ASSUME NEW p \in Pipes, NEW m \in MsgIds, NEW scope \in Scopes,
               NEW lim \in MsgLims, Subscribe(t, m, p, lim, scope)
        PROVE  NoUnsubscribeFault'
    <3>1. Report(t, m, p, scope, "SUB") \/ Stay
      BY <2>7 DEF Subscribe
    <3> QED
      BY <3>1, <1>b, <1>c DEF Report, Stay
  <2>8. ASSUME NEW p \in Pipes, NEW m \in MsgIds, NEW scope \in Scopes,
               Unsubscribe(t, m, p, scope)
        PROVE  NoUnsubscribeFault'
    <3>1. ~UnsubscribeFaults(m, p, AppOf[t])
      BY NoFaultHere DEF BusInv
    <3>2. Report(t, m, p, scope, "UNSUB") \/ Stay
      BY <2>8, <3>1 DEF Unsubscribe
    <3> QED
      BY <3>2, <1>b, <1>c DEF Report, Stay
  <2> QED
    BY <1>2, <2>1, <2>2, <2>3, <2>4, <2>5, <2>6, <2>7, <2>8 DEF Call
<1>3. ASSUME NEW t \in Tasks, Continue(t)
      PROVE  NoUnsubscribeFault'
  <2>1. CASE SendReport(t)
    BY <2>1, <1>b DEF SendReport
  <2>2. CASE RcvReadQueue(t) \/ RcvWake(t) \/ RcvTimeOut(t)
    <3>1. \E l : Goto(t, "rcvRead", l) \/ Goto(t, "rcvBlocked", l)
      BY <2>2 DEF RcvReadQueue, RcvWake, RcvTimeOut, TakeMessage
    <3> QED
      BY <3>1, <1>b
  <2>3. CASE RcvFinish(t)
    <3>1. \E l : Goto(t, "idle", l) \/ Goto(t, "drain", l) \/ Goto(t, "deleted", l)
      BY <2>3 DEF RcvFinish, RcvReturn
    <3> QED
      BY <3>1, <1>b
  <2>4. CASE DeleteUnsubscribe(t)
    <3>1. loc[t].idx \in RouteIdxs
      BY <2>4 DEF DeleteUnsubscribe, BusInv, TransferOK, ControlOK, LocalsFit
    <3>2. RoutingTbl[loc[t].idx].MsgId \in MsgIds \cup {NoMsgId}
      BY <3>1 DEF BusInv, RouteInv, RouteTypeOK, RouteEntry
    <3>3. ~UnsubscribeFaults(RoutingTbl[loc[t].idx].MsgId, loc[t].pipe, loc[t].app)
      BY <3>2, NoFaultHere DEF BusInv
    <3> QED
      BY <2>4, <3>3, <1>b DEF DeleteUnsubscribe
  <2>5. CASE DeleteWalk(t)
    BY <2>5, <1>b DEF DeleteWalk, WalkFrom
  <2>6. CASE DeleteDrain(t)
    BY <2>6, <1>b DEF DeleteDrain, RcvBegin
  <2>7. CASE DeleteFinish(t)
    <3>1. \E l : Goto(t, "idle", l) \/ Goto(t, "cleaning", l)
      BY <2>7 DEF DeleteFinish
    <3> QED
      BY <3>1, <1>b
  <2>8. CASE t = ES /\ CleanUpPipe
    <3>1. CASE loc[ES].cursor \notin Pipes
      <4>1. pc' = [u \in Tasks |-> IF u = ES THEN "idle"
                     ELSE IF AppOf[u] = loc[ES].app THEN "dead" ELSE pc[u]]
        BY <2>8, <3>1 DEF CleanUpPipe
      <4> QED
        BY <4>1 DEF NoUnsubscribeFault
    <3>2. CASE loc[ES].cursor \in Pipes
      <4>1. \E l : Goto(ES, "unsub", l) \/ Goto(ES, "drain", l) \/ Goto(ES, "cleaning", l)
        BY <2>8, <3>2 DEF CleanUpPipe, WalkFrom
      <4> QED
        BY <4>1, <1>b, SoftwareBusAssumption
    <3> QED
      BY <3>1, <3>2
  <2> QED
    BY <1>3, <2>1, <2>2, <2>3, <2>4, <2>5, <2>6, <2>7, <2>8 DEF Continue
<1>4. ASSUME NEW a \in Apps, CleanUpApp(a) \/ StartApp(a)
      PROVE  NoUnsubscribeFault'
  <2>1. CASE CleanUpApp(a)
    BY <2>1, <1>b, SoftwareBusAssumption DEF CleanUpApp
  <2>2. CASE StartApp(a)
    BY <2>2 DEF StartApp, NoUnsubscribeFault
  <2> QED
    BY <1>4, <2>1, <2>2
<1>5. ASSUME NEW m \in MsgIds, NEW p \in Pipes, NEW active \in BOOLEAN,
             RouteCmd(m, p, active)
      PROVE  NoUnsubscribeFault'
  BY <1>5, <1>c DEF RouteCmd, Stay
<1>6. ASSUME NEW state \in BOOLEAN, SetSubscriptionReporting(state)
      PROVE  NoUnsubscribeFault'
  BY <1>6, <1>c DEF SetSubscriptionReporting, Stay
<1> QED
  BY <1>1, <1>2, <1>3, <1>4, <1>5, <1>6 DEF Next

(* While no allocation of a destination block fails, no unsubscription      *)
(* dereferences a NULL list head, forced cleanup and concurrent             *)
(* unsubscriptions of the same message id included (the do-while of         *)
(* CFE_SB_UnsubscribeFull).                                                 *)
THEOREM UnsubscribeNeverFaults ==
  ASSUME ~PoolMayRunOut
  PROVE  Spec => []NoUnsubscribeFault
<1> DEFINE FaultInv == MappedHaveDest /\ NoUnsubscribeFault
<1>1. Init => FaultInv
  BY DEF Init, RouteInit, MappedHaveDest, MappedIds, IsMapped, NoUnsubscribeFault
<1>2. BusInv /\ FaultInv /\ [Next]_vars => FaultInv'
  BY BusStep, MappedHaveDestStep, NoFaultStep DEF BusInv
<1>3. FaultInv => NoUnsubscribeFault
  OBVIOUS
<1> HIDE DEF FaultInv
<1> QED
  BY <1>1, <1>2, <1>3, BusInvariance, PTL DEF Spec

-----------------------------------------------------------------------------
(***************************************************************************)
(* From here on applications come and go in order: each has one task, and   *)
(* ES cleans an application up only after that task has exited.  Then no    *)
(* two tasks are ever at work on one pipe, although every call gives the    *)
(* lock back many times, and deleting a pipe leaves nothing behind.  The    *)
(* second half counts: every buffer's references, every queue's messages    *)
(* and every subscription's messages in transit.                            *)
(***************************************************************************)

OneTaskPerApp == \A t, u \in Tasks : AppOf[t] = AppOf[u] => t = u
NoForcedCleanUp == \A t \in Tasks : "CleanUpForced" \notin Uses[t]
OrderlyProgram == OneTaskPerApp /\ NoForcedCleanUp

Listed(r, p) == HasDest(RoutingTbl[r].ListHeadPtr, p)

(* Every pipe in use has an open queue of its own.                         *)
QueuesDistinct ==
  \A p \in Pipes : ValidPipe(p) =>
    /\ PipeTbl[p].SysQueueId \in OpenQueues
    /\ \A x \in Pipes : ValidPipe(x) /\ PipeTbl[x].SysQueueId = PipeTbl[p].SysQueueId
                        => x = p

ListedValid ==
  \A r \in RouteIdxs, p \in Pipes : Listed(r, p) => ValidPipe(p)

Resting == {"idle", "report", "exited", "dead", "fault"}

(* A task that deletes a pipe does so for its owner; the routes its walk    *)
(* has passed do not list the pipe any more, and none does once the walk    *)
(* has ended.                                                               *)
DeleterOK(t) ==
  LET l == loc[t]
  IN l.deleting =>
       /\ Owns(l.app, l.pipe)
       /\ IF l.cursor = -1 THEN l.app = AppOf[t] ELSE l.pipe = l.cursor
       /\ \A r \in RouteIdxs : Listed(r, l.pipe) =>
            pc[t] \in {"unsub", "walk"} /\ r >= l.idx

(* Only ES cleans up, only after an application whose task has exited, and  *)
(* the pipes its cursor has passed are not that application's.              *)
CleanerOK(t) ==
  LET l == loc[t]
  IN l.cursor # -1 =>
       /\ t = ES /\ l.app # AppOf[ES]
       /\ l.deleting \/ pc[t] = "cleaning"
       /\ \A u \in Tasks : AppOf[u] = l.app => pc[u] = "exited"
       /\ \A p \in Pipes : p < l.cursor => ~Owns(l.app, p)

RestingOK(t) == pc[t] \in Resting => ~loc[t].deleting /\ loc[t].cursor = -1

TasksOK == \A t \in Tasks : DeleterOK(t) /\ CleanerOK(t) /\ RestingOK(t)

OrderlyInv ==
  /\ QueuesDistinct /\ ListedValid /\ TasksOK
  /\ PipesInUseExact /\ DeadAppsOwnNothing

-----------------------------------------------------------------------------
(* What the routing operations do to the set of listed pipes *)

LEMMA ListedEntry ==
  ASSUME RouteInv, NEW r \in RouteIdxs, NEW e, RoutingTbl' = [RoutingTbl EXCEPT ![r] = e]
  PROVE  \A k \in RouteIdxs : \A q :
           Listed(k, q)' <=> IF k = r THEN HasDest(e.ListHeadPtr, q) ELSE Listed(k, q)
<1>1. \A k \in RouteIdxs : RoutingTbl'[k] = IF k = r THEN e ELSE RoutingTbl[k]
  BY DEF RouteInv, RouteTypeOK
<1> QED
  BY <1>1 DEF Listed

LEMMA ListedAdd ==
  ASSUME RouteInv, NEW m \in MsgIds, NEW p \in Pipes, NEW lim \in MsgLims,
         NEW scope \in Scopes, AddSubscription(m, p, lim, scope)
  PROVE  \A k \in RouteIdxs : \A q :
           Listed(k, q)' <=> Listed(k, q) \/ (k = RouteFor(m) /\ q = p)
<1> DEFINE r == RouteFor(m)
           list == RoutingTbl[r].ListHeadPtr
           d == NewDest(p, lim, scope)
           new == AddDest(list, d)
           e == [RoutingTbl[r] EXCEPT
                   !.MsgId = IF IsMapped(m) THEN RoutingTbl[r].MsgId ELSE m,
                   !.Destinations = RoutingTbl[r].Destinations + 1,
                   !.ListHeadPtr = new]
<1>1. SubscribeAdmits(m, p) /\ ClaimRoute(m) /\ UNCHANGED RouteIdxStack
      /\ RoutingTbl' = [RoutingTbl EXCEPT ![r] = e]
  BY DEF AddSubscription
<1>2. r \in RouteIdxs
  BY <1>1, AdmittedRoute
<1>3. RoutingTbl[r] \in RouteEntry /\ list \in Seq(Dest)
  BY <1>2, EntryLemma
<1>4. d \in Dest /\ d.PipeId = p
  BY DEF NewDest, Dest
<1>5. \A q : HasDest(new, q) <=> q = p \/ HasDest(list, q)
  BY <1>3, <1>4, AddDestPipes
<1> HIDE DEF r, new
<1>6. e.ListHeadPtr = new
  BY <1>3 DEF RouteEntry
<1> HIDE DEF e
<1>7. \A k \in RouteIdxs : \A q :
        Listed(k, q)' <=> IF k = r THEN HasDest(e.ListHeadPtr, q) ELSE Listed(k, q)
  BY <1>1, <1>2, ListedEntry
<1> QED
  BY <1>5, <1>6, <1>7 DEF Listed, r

LEMMA ListedRemove ==
  ASSUME RouteInv, NEW m \in MsgIds, NEW p \in Pipes, RemoveSubscription(m, p)
  PROVE  \A k \in RouteIdxs : \A q :
           Listed(k, q)' <=> Listed(k, q) /\ ~(k = MsgMap[m] /\ q = p)
<1> DEFINE r == MsgMap[m]
           list == RoutingTbl[r].ListHeadPtr
           new == RemoveDest(list, DestPos(list, p))
           e == [RoutingTbl[r] EXCEPT
                   !.Destinations = RoutingTbl[r].Destinations - 1,
                   !.ListHeadPtr = new]
<1>1. CASE ~HasDest(list, p)
  BY <1>1 DEF RemoveSubscription, routeVars, Listed
<1>2. CASE HasDest(list, p)
  <2>1. IsMapped(m) /\ RoutingTbl' = [RoutingTbl EXCEPT ![r] = e]
    BY <1>2 DEF RemoveSubscription
  <2>2. r \in RouteIdxs
    BY <2>1, MappedRoute
  <2>3. RoutingTbl[r] \in RouteEntry /\ list \in Seq(Dest) /\ NoDup(list)
    BY <2>2, EntryLemma
  <2>4. \A q : HasDest(new, q) <=> HasDest(list, q) /\ q # p
    BY <1>2, <2>3, RemoveDestPipes
  <2> HIDE DEF r, new
  <2>5. e.ListHeadPtr = new
    BY <2>3 DEF RouteEntry
  <2> HIDE DEF e
  <2>6. \A k \in RouteIdxs : \A q :
          Listed(k, q)' <=> IF k = r THEN HasDest(e.ListHeadPtr, q) ELSE Listed(k, q)
    BY <2>1, <2>2, ListedEntry
  <2> QED
    BY <2>4, <2>5, <2>6 DEF Listed, r
<1> QED
  BY <1>1, <1>2

SameLists == \A k \in RouteIdxs : \A q : Listed(k, q)' <=> Listed(k, q)

(* A step that rewrites one list and keeps the pipes on it.                 *)
LEMMA SameListEntry ==
  ASSUME RouteInv, NEW r \in RouteIdxs, NEW new,
         SamePipes(RoutingTbl[r].ListHeadPtr, new),
         NEW e, e.ListHeadPtr = new, RoutingTbl' = [RoutingTbl EXCEPT ![r] = e]
  PROVE  SameLists
<1>1. \A q : HasDest(new, q) <=> HasDest(RoutingTbl[r].ListHeadPtr, q)
  BY SamePipesLemma
<1>2. \A k \in RouteIdxs : \A q :
        Listed(k, q)' <=> IF k = r THEN HasDest(e.ListHeadPtr, q) ELSE Listed(k, q)
  BY ListedEntry
<1> QED
  BY <1>1, <1>2 DEF SameLists, Listed

LEMMA ListedNoBlock ==
  ASSUME RouteInv, NEW m \in MsgIds, NEW p \in Pipes, SubscribeNoBlock(m, p)
  PROVE  SameLists
<1> DEFINE r == RouteFor(m)
           e == [RoutingTbl[r] EXCEPT
                   !.MsgId = IF IsMapped(m) THEN RoutingTbl[r].MsgId ELSE m]
<1>1. SubscribeAdmits(m, p) /\ ClaimRoute(m) /\ UNCHANGED RouteIdxStack
      /\ RoutingTbl' = [RoutingTbl EXCEPT ![r] = e]
  BY DEF SubscribeNoBlock
<1>2. r \in RouteIdxs
  BY <1>1, AdmittedRoute
<1> HIDE DEF r
<1>3. e.ListHeadPtr = RoutingTbl[r].ListHeadPtr
  BY <1>2, EntryLemma DEF RouteEntry
<1>4. SamePipes(RoutingTbl[r].ListHeadPtr, RoutingTbl[r].ListHeadPtr)
  BY DEF SamePipes
<1> HIDE DEF e
<1> QED
  BY <1>1, <1>2, <1>3, <1>4, SameListEntry

LEMMA ListedNode ==
  ASSUME RouteInv, NEW r \in RouteIdxs, NEW pos \in DOMAIN RoutingTbl[r].ListHeadPtr,
         NEW d, d.PipeId = RoutingTbl[r].ListHeadPtr[pos].PipeId,
         RoutingTbl' = [RoutingTbl EXCEPT ![r].ListHeadPtr[pos] = d]
  PROVE  SameLists
<1> DEFINE list == RoutingTbl[r].ListHeadPtr
           new == [list EXCEPT ![pos] = d]
           e == [RoutingTbl[r] EXCEPT !.ListHeadPtr = new]
<1>1. RoutingTbl' = [RoutingTbl EXCEPT ![r] = e]
  OBVIOUS
<1>2. e.ListHeadPtr = new
  BY EntryLemma DEF RouteEntry
<1>3. SamePipes(list, new)
  BY DEF SamePipes
<1> HIDE DEF e, new
<1> QED
  BY <1>1, <1>2, <1>3, SameListEntry

LEMMA ListedReceive ==
  ASSUME RouteInv, NEW m \in MsgIds, NEW p \in Pipes, CountReceive(m, p)
  PROVE  SameLists
<1> DEFINE r == MsgMap[m]
           pos == DestPos(RoutingTbl[r].ListHeadPtr, p)
           old == RoutingTbl[r].ListHeadPtr[pos]
           d == [old EXCEPT !.BuffCount = IF @ > 0 THEN @ - 1 ELSE @]
<1>1. CASE ~Subscribed(m, p)
  BY <1>1 DEF CountReceive, routeVars, SameLists, Listed
<1>2. CASE Subscribed(m, p)
  <2>1. r \in RouteIdxs /\ pos \in DOMAIN RoutingTbl[r].ListHeadPtr /\ old \in Dest
    BY <1>2, SubscribedNode
  <2>2. RoutingTbl' = [RoutingTbl EXCEPT ![r].ListHeadPtr[pos] = d]
    BY <1>2 DEF CountReceive
  <2>3. d.PipeId = old.PipeId
    BY <2>1 DEF Dest
  <2> HIDE DEF d, pos, r
  <2> QED
    BY <2>1, <2>2, <2>3, ListedNode
<1> QED
  BY <1>1, <1>2

LEMMA ListedSetActive ==
  ASSUME RouteInv, NEW m \in MsgIds, NEW p \in Pipes, NEW active \in BOOLEAN,
         SetActive(m, p, active)
  PROVE  SameLists
<1> DEFINE r == MsgMap[m]
           pos == DestPos(RoutingTbl[r].ListHeadPtr, p)
           old == RoutingTbl[r].ListHeadPtr[pos]
           d == [old EXCEPT !.Active = active]
<1>1. r \in RouteIdxs /\ pos \in DOMAIN RoutingTbl[r].ListHeadPtr /\ old \in Dest
  BY SubscribedNode DEF SetActive
<1>2. RoutingTbl' = [RoutingTbl EXCEPT ![r].ListHeadPtr[pos] = d]
  BY DEF SetActive
<1>3. d.PipeId = old.PipeId
  BY <1>1 DEF Dest
<1> HIDE DEF d, pos, r
<1> QED
  BY <1>1, <1>2, <1>3, ListedNode

LEMMA ListedSend ==
  ASSUME RouteInv, NEW m \in MsgIds, IsMapped(m), NEW incr, NEW D, CountSend(m, incr, D)
  PROVE  SameLists
<1> DEFINE r == MsgMap[m]
           list == RoutingTbl[r].ListHeadPtr
           new == [i \in DOMAIN list |->
                     IF i \in D THEN [list[i] EXCEPT !.BuffCount = @ + 1] ELSE list[i]]
           seq == IF m \in Tlm /\ incr THEN (RoutingTbl[r].SeqCnt + 1) % SeqMod
                  ELSE RoutingTbl[r].SeqCnt
           e == [RoutingTbl[r] EXCEPT !.SeqCnt = seq, !.ListHeadPtr = new]
<1>1. RoutingTbl' = [RoutingTbl EXCEPT ![r] = e]
  BY DEF CountSend
<1>2. r \in RouteIdxs
  BY MappedRoute
<1>3. list \in Seq(Dest) /\ RoutingTbl[r] \in RouteEntry
  BY <1>2, EntryLemma
<1>4. \A i \in DOMAIN list : list[i] \in Dest
  BY <1>3, LenProperties, ElementOfSeq
<1> HIDE DEF r, seq
<1>5. SamePipes(list, new)
  <2> HIDE DEF list
  <2>1. \A i \in DOMAIN list : new[i].PipeId = list[i].PipeId
    BY <1>4 DEF Dest
  <2> QED
    BY <2>1 DEF SamePipes
<1> HIDE DEF new
<1>6. e.ListHeadPtr = new
  BY <1>3 DEF RouteEntry
<1> HIDE DEF e
<1> QED
  BY <1>1, <1>2, <1>5, <1>6, SameListEntry

-----------------------------------------------------------------------------
(* Steps that leave the ownership of pipes and queues alone *)

SameOwners ==
  \A p \in Pipes : /\ PipeTbl'[p].InUse = PipeTbl[p].InUse
                   /\ PipeTbl'[p].AppId = PipeTbl[p].AppId
                   /\ PipeTbl'[p].SysQueueId = PipeTbl[p].SysQueueId
SameOpen == \A q \in QueueIds : queue'[q].open = queue[q].open
FewerLists == \A k \in RouteIdxs, p \in Pipes : Listed(k, p)' => Listed(k, p)
Quiet == SameOwners /\ SameOpen /\ FewerLists /\ UNCHANGED PipesInUse

OthersStay(t) == \A u \in Tasks \ {t} : pc'[u] = pc[u] /\ loc'[u] = loc[u]
TaskOK(t) == DeleterOK(t) /\ CleanerOK(t) /\ RestingOK(t)

LEMMA GotoFacts ==
  ASSUME BusInv, NEW t \in Tasks, NEW there, NEW l, Goto(t, there, l)
  PROVE  OthersStay(t) /\ pc'[t] = there /\ loc'[t] = l
BY DEF BusInv, TransferOK, ControlOK, Goto, OthersStay

LEMMA QuietOwners ==
  ASSUME SameOwners
  PROVE  /\ \A p \in Pipes : ValidPipe(p)' <=> ValidPipe(p)
         /\ \A a : \A p \in Pipes : Owns(a, p)' <=> Owns(a, p)
BY DEF SameOwners, ValidPipe, Owns

(* In such a step another task has to keep only its own place.              *)
LEMMA QuietStep ==
  ASSUME BusInv, OrderlyInv, NEW t \in Tasks, OthersStay(t), Quiet, TaskOK(t)',
         pc[t] \in {"exited", "dead"} => pc'[t] = pc[t], pc'[t] = "dead" => pc[t] = "dead"
  PROVE  OrderlyInv'
<1>1. /\ \A p \in Pipes : ValidPipe(p)' <=> ValidPipe(p)
      /\ \A a : \A p \in Pipes : Owns(a, p)' <=> Owns(a, p)
  BY QuietOwners DEF Quiet
<1>2. QueuesDistinct'
  <2>1. OpenQueues' = OpenQueues
    BY DEF Quiet, SameOpen, OpenQueues
  <2>2. \A p \in Pipes : PipeTbl'[p].SysQueueId = PipeTbl[p].SysQueueId
    BY DEF Quiet, SameOwners
  <2> QED
    BY <1>1, <2>1, <2>2 DEF OrderlyInv, QueuesDistinct
<1>3. ListedValid'
  BY <1>1 DEF OrderlyInv, ListedValid, Quiet, FewerLists
<1>4. ASSUME NEW u \in Tasks PROVE TaskOK(u)'
  <2>1. CASE u = t
    BY <2>1
  <2>2. CASE u # t
    <3>1. pc'[u] = pc[u] /\ loc'[u] = loc[u] /\ TaskOK(u)
      BY <2>2 DEF OthersStay, OrderlyInv, TasksOK, TaskOK
    <3>2. DeleterOK(u)'
      <4>1. SUFFICES ASSUME loc[u].deleting
                     PROVE  DeleterOK(u)'
        BY <3>1 DEF DeleterOK
      <4>2. loc[u].pipe \in Pipes
        BY <4>1 DEF BusInv, TransferOK, ControlOK, LocalsFit
      <4> QED
        BY <1>1, <3>1, <4>1, <4>2 DEF DeleterOK, TaskOK, Quiet, FewerLists
    <3>3. CleanerOK(u)'
      <4>1. SUFFICES ASSUME loc[u].cursor # -1
                     PROVE  CleanerOK(u)'
        BY <3>1 DEF CleanerOK
      <4>2. \A v \in Tasks : AppOf[v] = loc[u].app => pc'[v] = "exited"
        BY <3>1, <4>1 DEF TaskOK, CleanerOK, OthersStay
      <4> QED
        BY <1>1, <3>1, <4>1, <4>2 DEF CleanerOK, TaskOK
    <3>4. RestingOK(u)'
      BY <3>1 DEF RestingOK, TaskOK
    <3> QED
      BY <3>2, <3>3, <3>4 DEF TaskOK
  <2> QED
    BY <2>1, <2>2
<1>5. PipesInUseExact'
  <2>1. {p \in Pipes : ValidPipe(p)}' = {p \in Pipes : ValidPipe(p)}
    BY <1>1
  <2> QED
    BY <2>1 DEF OrderlyInv, PipesInUseExact, Quiet
<1>6. DeadAppsOwnNothing'
  <2>1. \A v \in Tasks : pc'[v] = "dead" => pc[v] = "dead"
    BY DEF OthersStay
  <2> QED
    BY <1>1, <2>1 DEF OrderlyInv, DeadAppsOwnNothing, TasksOf
<1> QED
  BY <1>2, <1>3, <1>4, <1>5, <1>6 DEF OrderlyInv, TasksOK, TaskOK

(* A task that neither deletes nor cleans up.                              *)
LEMMA FreeTask ==
  ASSUME NEW t \in Tasks, ~loc'[t].deleting, loc'[t].cursor = -1
  PROVE  TaskOK(t)'
BY DEF TaskOK, DeleterOK, CleanerOK, RestingOK

LEMMA NoLocFree == ~NoLoc.deleting /\ NoLoc.cursor = -1 /\ NoLoc.app = NoApp
BY DEF NoLoc

(* A deletion past its walk that goes on, or a receive of its own.          *)
LEMMA GoesOn ==
  ASSUME BusInv, OrderlyInv, NEW t \in Tasks, OthersStay(t), Quiet,
         loc'[t].deleting = loc[t].deleting, loc'[t].pipe = loc[t].pipe,
         loc'[t].app = loc[t].app, loc'[t].cursor = loc[t].cursor,
         pc[t] \in {"rcvBegun", "rcvBlocked", "rcvRead", "drain"},
         pc'[t] \in {"rcvBegun", "rcvBlocked", "rcvRead", "drain", "deleted"}
  PROVE  OrderlyInv'
<1>1. TaskOK(t)
  BY DEF OrderlyInv, TasksOK, TaskOK
<1>2. \A a : \A p \in Pipes : Owns(a, p)' <=> Owns(a, p)
  BY QuietOwners DEF Quiet
<1>3. DeleterOK(t)'
  <2>1. SUFFICES ASSUME loc[t].deleting
                 PROVE  DeleterOK(t)'
    BY DEF DeleterOK
  <2>2. loc[t].pipe \in Pipes
    BY <2>1 DEF BusInv, TransferOK, ControlOK, LocalsFit
  <2> QED
    BY <1>1, <1>2, <2>1, <2>2 DEF DeleterOK, TaskOK, Quiet, FewerLists
<1>4. CleanerOK(t)'
  <2>1. SUFFICES ASSUME loc[t].cursor # -1
                 PROVE  CleanerOK(t)'
    BY DEF CleanerOK
  <2>2. /\ t = ES /\ loc[t].app # AppOf[ES] /\ loc[t].deleting
        /\ \A u \in Tasks : AppOf[u] = loc[t].app => pc[u] = "exited"
        /\ \A p \in Pipes : p < loc[t].cursor => ~Owns(loc[t].app, p)
    BY <1>1, <2>1 DEF TaskOK, CleanerOK
  <2>3. \A u \in Tasks : AppOf[u] = loc[t].app => pc'[u] = "exited"
    BY <2>2 DEF OthersStay
  <2> QED
    BY <1>2, <2>1, <2>2, <2>3 DEF CleanerOK
<1>5. RestingOK(t)'
  BY DEF RestingOK, Resting
<1> QED
  BY <1>3, <1>4, <1>5, QuietStep DEF TaskOK

LEMMA SameFields ==
  ASSUME PipesOK, NEW p \in Pipes, NEW e, PipeTbl' = [PipeTbl EXCEPT ![p] = e],
         e.InUse = PipeTbl[p].InUse, e.AppId = PipeTbl[p].AppId,
         e.SysQueueId = PipeTbl[p].SysQueueId
  PROVE  SameOwners
<1>1. \A x \in Pipes : PipeTbl'[x] = IF x = p THEN e ELSE PipeTbl[x]
  BY DEF PipesOK
<1> QED
  BY <1>1 DEF SameOwners

LEMMA SameAll ==
  /\ UNCHANGED PipeTbl => SameOwners
  /\ UNCHANGED queue => SameOpen
  /\ UNCHANGED routeVars => FewerLists /\ SameLists
  /\ SameLists => FewerLists
BY DEF SameOwners, SameOpen, FewerLists, SameLists, Listed, routeVars

(* A ground command, or a call that is over at its unlock.                  *)
LEMMA QuietStay ==
  ASSUME BusInv, OrderlyInv, Stay, Quiet
  PROVE  OrderlyInv'
<1>1. ES \in Tasks
  BY SoftwareBusAssumption
<1>2. OthersStay(ES) /\ pc' = pc /\ loc' = loc
  BY DEF Stay, OthersStay
<1>3. TaskOK(ES)
  BY <1>1 DEF OrderlyInv, TasksOK, TaskOK
<1>4. TaskOK(ES)'
  <2>1. \A a : \A p \in Pipes : Owns(a, p)' <=> Owns(a, p)
    BY QuietOwners DEF Quiet
  <2>2. loc[ES].deleting => loc[ES].pipe \in Pipes
    BY <1>1 DEF BusInv, TransferOK, ControlOK, LocalsFit
  <2>3. DeleterOK(ES)'
    BY <1>2, <1>3, <2>1, <2>2 DEF DeleterOK, TaskOK, Quiet, FewerLists
  <2>4. CleanerOK(ES)'
    BY <1>2, <1>3, <2>1 DEF CleanerOK, TaskOK
  <2>5. RestingOK(ES)'
    BY <1>2, <1>3 DEF RestingOK, TaskOK
  <2> QED
    BY <2>3, <2>4, <2>5 DEF TaskOK
<1> QED
  BY <1>1, <1>2, <1>4, QuietStep

(* A call under way that returns, or one that begins and deletes nothing.   *)
LEMMA QuietFree ==
  ASSUME BusInv, OrderlyInv, Quiet, NEW t \in Tasks, NEW there, NEW l,
         Goto(t, there, l), ~l.deleting, l.cursor = -1,
         pc[t] \notin {"exited", "dead"}, there # "dead"
  PROVE  OrderlyInv'
<1>1. OthersStay(t) /\ pc'[t] = there /\ loc'[t] = l
  BY GotoFacts
<1>2. TaskOK(t)'
  BY <1>1, FreeTask
<1> QED
  BY <1>1, <1>2, QuietStep

LEMMA SetPipeOptsOrderly ==
  ASSUME BusInv, OrderlyInv, NEW t \in Tasks, NEW p \in Pipes, NEW o \in BOOLEAN,
         SetPipeOpts(t, p, o)
  PROVE  OrderlyInv'
<1> DEFINE e == [PipeTbl[p] EXCEPT !.IgnoreMine = o]
<1>1. /\ PipeTbl' = [PipeTbl EXCEPT ![p] = e] /\ UNCHANGED <<routeVars, PipesInUse, queue>>
      /\ Stay
  BY DEF SetPipeOpts
<1>2. /\ e.InUse = PipeTbl[p].InUse /\ e.AppId = PipeTbl[p].AppId
      /\ e.SysQueueId = PipeTbl[p].SysQueueId
  BY BuffTypes DEF BusInv, TransferOK, PipeD
<1> HIDE DEF e
<1>3. Quiet
  BY <1>1, <1>2, SameFields, SameAll DEF Quiet, BusInv, TransferOK
<1> QED
  BY <1>1, <1>3, QuietStay

(* (Un)subscribing leaves the task idle or about to report.                 *)
LEMMA ReportOrderly ==
  ASSUME BusInv, OrderlyInv, Quiet, NEW t \in Tasks, pc[t] = "idle",
         NEW m, NEW p, NEW scope, NEW type,
         Report(t, m, p, scope, type) \/ Stay \/ Goto(t, "fault", NoLoc)
  PROVE  OrderlyInv'
<1> DEFINE r == [MsgId |-> m, Pipe |-> p, SubType |-> type]
           l == [NoLoc EXCEPT !.report = r]
<1>1. ~l.deleting /\ l.cursor = -1
  BY DEF NoLoc
<1> HIDE DEF l
<1>2. Goto(t, "report", l) \/ Stay \/ Goto(t, "fault", NoLoc)
  BY DEF Report, l
<1> QED
  BY <1>1, <1>2, NoLocFree, QuietFree, QuietStay

LEMMA UnsubscribeFullFewer ==
  ASSUME RouteInv, NEW m \in MsgIds \cup {NoMsgId}, NEW p \in Pipes, NEW a,
         UnsubscribeFull(m, p, a)
  PROVE  FewerLists
<1>1. CASE Owns(a, p) /\ m # NoMsgId /\ IsMapped(m)
  BY <1>1, ListedRemove DEF UnsubscribeFull, FewerLists
<1>2. CASE ~(Owns(a, p) /\ m # NoMsgId /\ IsMapped(m))
  BY <1>2, SameAll DEF UnsubscribeFull
<1> QED
  BY <1>1, <1>2

LEMMA UnsubscribeOrderly ==
  ASSUME BusInv, OrderlyInv, NEW t \in Tasks, NEW m \in MsgIds, NEW p \in Pipes,
         NEW scope \in Scopes, Unsubscribe(t, m, p, scope)
  PROVE  OrderlyInv'
<1>1. UNCHANGED <<PipeTbl, PipesInUse, queue>> /\ pc[t] = "idle"
  BY DEF Unsubscribe, pipeVars, Calls
<1>2. UNCHANGED routeVars \/ UnsubscribeFull(m, p, AppOf[t])
  BY DEF Unsubscribe
<1>3. FewerLists
  BY <1>2, UnsubscribeFullFewer, SameAll DEF BusInv
<1>4. Quiet
  BY <1>1, <1>3, SameAll DEF Quiet
<1>5. Report(t, m, p, scope, "UNSUB") \/ Stay \/ Goto(t, "fault", NoLoc)
  BY DEF Unsubscribe
<1> QED
  BY <1>1, <1>4, <1>5, ReportOrderly

(* CFE_SB_SendMsgFull changes no list and opens and closes no queue.        *)
LEMMA SendMsgFullQuiet ==
  ASSUME BusInv, NEW m \in MsgIds, NEW a, NEW data, NEW incr \in BOOLEAN,
         SendMsgFull(a, m, data, incr), UNCHANGED <<PipeTbl, PipesInUse>>
  PROVE  Quiet
<1>1. CASE UNCHANGED <<routeVars, queue, DepthInUse, buf>>
  BY <1>1, SameAll DEF Quiet
<1>2. CASE IsMapped(m) /\ ~UNCHANGED <<routeVars, queue, DepthInUse, buf>>
  <2> DEFINE D == Accepting(m, a)
             qs == {PipeTbl[p].SysQueueId :
                      p \in {RoutingTbl[MsgMap[m]].ListHeadPtr[i].PipeId : i \in D}}
  <2>1. PICK b \in FreeBufs :
          /\ CountSend(m, incr, D)
          /\ queue' = [q \in QueueIds |->
               IF q \in qs THEN [queue[q] EXCEPT !.msgs = Append(@, b)] ELSE queue[q]]
    BY <1>2, Zenon DEF SendMsgFull
  <2> HIDE DEF D, qs
  <2>2. SameLists
    BY <1>2, <2>1, ListedSend DEF BusInv
  <2>3. SameOpen
    <3>1. \A q \in QueueIds : queue[q] \in QueueD
      BY DEF BusInv, TransferOK, PipesOK
    <3> QED
      BY <2>1, <3>1 DEF SameOpen, QueueD
  <2> QED
    BY <2>2, <2>3, SameAll DEF Quiet
<1> QED
  BY <1>1, <1>2 DEF SendMsgFull

LEMMA SendMsgOrderly ==
  ASSUME BusInv, OrderlyInv, NEW t \in Tasks, NEW m \in MsgIds, SendMsg(t, m)
  PROVE  OrderlyInv'
<1>1. Quiet /\ Stay
  BY SendMsgFullQuiet DEF SendMsg
<1> QED
  BY <1>1, QuietStay

LEMMA SendReportOrderly ==
  ASSUME BusInv, OrderlyInv, NEW t \in Tasks, SendReport(t)
  PROVE  OrderlyInv'
<1>1. Quiet
  BY SendMsgFullQuiet, SoftwareBusAssumption DEF SendReport
<1> QED
  BY <1>1, NoLocFree, QuietFree DEF SendReport

LEMMA RcvBeginQuiet ==
  ASSUME BusInv, NEW t \in Tasks, NEW p \in Pipes, NEW l, RcvBegin(t, p, l)
  PROVE  Quiet /\ Goto(t, "rcvBegun", l)
<1> DEFINE e == [PipeTbl[p] EXCEPT !.ToTrashBuff = PipeTbl[p].CurrentBuff]
<1>1. /\ PipeTbl' = [PipeTbl EXCEPT ![p] = e] /\ UNCHANGED <<routeVars, PipesInUse, queue>>
      /\ Goto(t, "rcvBegun", l)
  BY DEF RcvBegin
<1>2. /\ e.InUse = PipeTbl[p].InUse /\ e.AppId = PipeTbl[p].AppId
      /\ e.SysQueueId = PipeTbl[p].SysQueueId
  BY BuffTypes DEF BusInv, TransferOK, PipeD
<1> HIDE DEF e
<1> QED
  BY <1>1, <1>2, SameFields, SameAll DEF Quiet, BusInv, TransferOK

LEMMA RcvMsgOrderly ==
  ASSUME BusInv, OrderlyInv, NEW t \in Tasks, NEW p \in Pipes, NEW timeout \in TimeOuts,
         RcvMsg(t, p, timeout)
  PROVE  OrderlyInv'
<1> DEFINE l == [NoLoc EXCEPT !.pipe = p, !.timeout = timeout]
<1>1. RcvBegin(t, p, l) /\ pc[t] = "idle"
  BY DEF RcvMsg, Calls
<1>2. ~l.deleting /\ l.cursor = -1
  BY DEF NoLoc
<1> HIDE DEF l
<1> QED
  BY <1>1, <1>2, RcvBeginQuiet, QuietFree

LEMMA TakeMessageQuiet ==
  ASSUME BusInv, NEW t \in Tasks, NEW q \in QueueIds, TakeMessage(t, q)
  PROVE  SameOpen
<1>1. queue' = [queue EXCEPT ![q].msgs = Tail(queue[q].msgs)]
  BY DEF TakeMessage
<1>2. queue \in [QueueIds -> QueueD] /\ queue[q] \in QueueD
  BY DEF BusInv, TransferOK, PipesOK
<1>3. [queue[q] EXCEPT !.msgs = Tail(queue[q].msgs)].open = queue[q].open
  BY <1>2 DEF QueueD
<1> QED
  BY <1>1, <1>2, <1>3 DEF SameOpen

(* The four steps of CFE_SB_RcvMsg after its first statement.               *)
LEMMA ReceivesGoOn ==
  ASSUME BusInv, OrderlyInv, NEW t \in Tasks, Quiet,
         pc[t] \in {"rcvBegun", "rcvBlocked"}, NEW there \in {"rcvBlocked", "rcvRead"},
         NEW l, Goto(t, there, l), l.deleting = loc[t].deleting, l.pipe = loc[t].pipe,
         l.app = loc[t].app, l.cursor = loc[t].cursor
  PROVE  OrderlyInv'
<1>1. OthersStay(t) /\ pc'[t] = there /\ loc'[t] = l
  BY GotoFacts
<1> QED
  BY <1>1, GoesOn

LEMMA RcvReadQueueOrderly ==
  ASSUME BusInv, OrderlyInv, NEW t \in Tasks, RcvReadQueue(t)
  PROVE  OrderlyInv'
<1> DEFINE p == loc[t].pipe
           q == PipeTbl[p].SysQueueId
           e == [PipeTbl[p] EXCEPT !.CurrentBuff = NULL]
<1>1. /\ pc[t] = "rcvBegun"
      /\ PipeTbl' = [PipeTbl EXCEPT ![p] = e] /\ UNCHANGED <<routeVars, PipesInUse>>
  BY DEF RcvReadQueue
<1>2. loc[t] \in Locals /\ LocalsFit(pc[t], loc[t])
  BY DEF BusInv, TransferOK, ControlOK
<1>3. p \in Pipes
  BY <1>1, <1>2 DEF LocalsFit
<1>4. /\ e.InUse = PipeTbl[p].InUse /\ e.AppId = PipeTbl[p].AppId /\ e.SysQueueId = q
      /\ q \in QueueIds \cup {NoQueue}
  BY <1>3, BuffTypes DEF BusInv, TransferOK, PipeD
<1>5. SameOpen /\ \E there \in {"rcvBlocked", "rcvRead"} : \E l :
        /\ Goto(t, there, l) /\ l.deleting = loc[t].deleting /\ l.pipe = loc[t].pipe
        /\ l.app = loc[t].app /\ l.cursor = loc[t].cursor
  <2>1. CASE IsOpen(q) /\ TakeMessage(t, q)
    <3> DEFINE l == [loc[t] EXCEPT !.status = "ok", !.msg = Head(queue[q].msgs),
                                   !.queue = NoQueue]
    <3>1. Goto(t, "rcvRead", l)
      BY <2>1 DEF TakeMessage
    <3>2. /\ l.deleting = loc[t].deleting /\ l.pipe = loc[t].pipe
          /\ l.app = loc[t].app /\ l.cursor = loc[t].cursor
      BY <1>2 DEF Locals
    <3>3. SameOpen
      BY <1>4, <2>1, TakeMessageQuiet DEF IsOpen
    <3> HIDE DEF l
    <3> QED
      BY <3>1, <3>2, <3>3
  <2>2. ASSUME NEW st, UNCHANGED queue, Goto(t, "rcvRead", [loc[t] EXCEPT !.status = st])
        PROVE  <1>5!1 /\ <1>5!2
    <3> DEFINE l == [loc[t] EXCEPT !.status = st]
    <3>1. /\ l.deleting = loc[t].deleting /\ l.pipe = loc[t].pipe
          /\ l.app = loc[t].app /\ l.cursor = loc[t].cursor
      BY <1>2 DEF Locals
    <3>2. SameOpen /\ Goto(t, "rcvRead", l)
      BY <2>2, SameAll
    <3> HIDE DEF l
    <3> QED
      BY <3>1, <3>2
  <2>3. CASE UNCHANGED queue /\ Goto(t, "rcvBlocked", [loc[t] EXCEPT !.queue = q])
    <3> DEFINE l == [loc[t] EXCEPT !.queue = q]
    <3>1. /\ l.deleting = loc[t].deleting /\ l.pipe = loc[t].pipe
          /\ l.app = loc[t].app /\ l.cursor = loc[t].cursor
      BY <1>2 DEF Locals
    <3>2. SameOpen /\ Goto(t, "rcvBlocked", l)
      BY <2>3, SameAll
    <3> HIDE DEF l
    <3> QED
      BY <3>1, <3>2
  <2> QED
    BY <2>1, <2>2, <2>3 DEF RcvReadQueue
<1> HIDE DEF e, p, q
<1>6. Quiet
  BY <1>1, <1>3, <1>4, <1>5, SameFields, SameAll DEF Quiet, BusInv, TransferOK, q
<1> QED
  BY <1>1, <1>5, <1>6, ReceivesGoOn

LEMMA RcvWakeOrderly ==
  ASSUME BusInv, OrderlyInv, NEW t \in Tasks, RcvWake(t) \/ RcvTimeOut(t)
  PROVE  OrderlyInv'
<1>1. pc[t] = "rcvBlocked" /\ UNCHANGED <<routeVars, PipeTbl, PipesInUse>>
  BY DEF RcvWake, RcvTimeOut, pipeVars
<1>2. loc[t] \in Locals /\ loc[t].queue \in QueueIds
  BY <1>1 DEF BusInv, TransferOK, ControlOK, LocalsFit
<1>3. SameOpen
  BY <1>2, TakeMessageQuiet, SameAll DEF RcvWake, RcvTimeOut, pipeVars
<1>4. Quiet
  BY <1>1, <1>3, SameAll DEF Quiet
<1>5. CASE RcvWake(t)
  <2> DEFINE l == [loc[t] EXCEPT !.status = "ok", !.msg = Head(queue[loc[t].queue].msgs),
                                 !.queue = NoQueue]
  <2>1. Goto(t, "rcvRead", l)
    BY <1>5 DEF RcvWake, TakeMessage
  <2>2. /\ l.deleting = loc[t].deleting /\ l.pipe = loc[t].pipe
        /\ l.app = loc[t].app /\ l.cursor = loc[t].cursor
    BY <1>2 DEF Locals
  <2> HIDE DEF l
  <2> QED
    BY <1>1, <1>4, <2>1, <2>2, ReceivesGoOn
<1>6. CASE RcvTimeOut(t)
  <2> DEFINE l == [loc[t] EXCEPT !.status = "timeout", !.queue = NoQueue]
  <2>1. Goto(t, "rcvRead", l)
    BY <1>6 DEF RcvTimeOut
  <2>2. /\ l.deleting = loc[t].deleting /\ l.pipe = loc[t].pipe
        /\ l.app = loc[t].app /\ l.cursor = loc[t].cursor
    BY <1>2 DEF Locals
  <2> HIDE DEF l
  <2> QED
    BY <1>1, <1>4, <2>1, <2>2, ReceivesGoOn
<1> QED
  BY <1>5, <1>6

(* The locked section of CFE_SB_RcvMsg.                                    *)
LEMMA RcvFinishOrderly ==
  ASSUME BusInv, OrderlyInv, NEW t \in Tasks, RcvFinish(t)
  PROVE  OrderlyInv'
<1> DEFINE p == loc[t].pipe
           ok == loc[t].status = "ok"
           msg == loc[t].msg
           e == [PipeTbl[p] EXCEPT !.ToTrashBuff = NULL,
                   !.CurrentBuff = IF ok THEN msg ELSE PipeTbl[p].CurrentBuff]
           l == [loc[t] EXCEPT !.status = "none", !.msg = NULL]
<1>1. /\ pc[t] = "rcvRead" /\ PipeTbl' = [PipeTbl EXCEPT ![p] = e]
      /\ RcvReturn(t) /\ UNCHANGED <<PipesInUse, queue>>
  BY DEF RcvFinish
<1>2. loc[t] \in Locals /\ p \in Pipes /\ (ok => msg \in Bufs)
  BY <1>1 DEF BusInv, TransferOK, ControlOK, LocalsFit
<1>3. /\ e.InUse = PipeTbl[p].InUse /\ e.AppId = PipeTbl[p].AppId
      /\ e.SysQueueId = PipeTbl[p].SysQueueId
  BY <1>2, BuffTypes DEF BusInv, TransferOK, PipeD
<1>4. SameLists
  <2>1. CASE ok /\ ValidPipe(p)
    <3>1. PICK m \in MsgIdRead(msg) : CountReceive(m, p)
      BY <2>1 DEF RcvFinish
    <3>2. m \in MsgIds
      BY <1>2, <2>1, <3>1 DEF MsgIdRead, BusInv, TransferOK, BuffersOK
    <3> QED
      BY <1>2, <3>1, <3>2, ListedReceive DEF BusInv
  <2>2. CASE ~(ok /\ ValidPipe(p))
    BY <2>2, SameAll DEF RcvFinish
  <2> QED
    BY <2>1, <2>2
<1> HIDE DEF e
<1>5. Quiet
  BY <1>1, <1>2, <1>3, <1>4, SameFields, SameAll DEF Quiet, BusInv, TransferOK
<1>6. /\ l.deleting = loc[t].deleting /\ l.pipe = loc[t].pipe
      /\ l.app = loc[t].app /\ l.cursor = loc[t].cursor
  BY <1>2 DEF Locals
<1>7. CASE ~loc[t].deleting
  <2>1. Goto(t, "idle", NoLoc)
    BY <1>1, <1>7 DEF RcvReturn
  <2> QED
    BY <1>1, <1>5, <2>1, NoLocFree, QuietFree
<1>8. CASE loc[t].deleting
  <2>1. PICK there \in {"drain", "deleted"} : Goto(t, there, l)
    BY <1>1, <1>8 DEF RcvReturn
  <2> HIDE DEF l
  <2>2. OthersStay(t) /\ pc'[t] = there /\ loc'[t] = l
    BY <2>1, GotoFacts
  <2> QED
    BY <1>1, <1>5, <1>6, <2>2, GoesOn
<1> QED
  BY <1>7, <1>8

-----------------------------------------------------------------------------
(* CFE_SB_DeletePipeFull *)

(* A route that lists a pipe belongs to the message id its entry names.     *)
LEMMA ListedMapped ==
  ASSUME RouteInv, NEW r \in RouteIdxs, NEW p, Listed(r, p)
  PROVE  LET m == RoutingTbl[r].MsgId
         IN m \in MsgIds /\ m # NoMsgId /\ IsMapped(m) /\ MsgMap[m] = r
<1>1. r \in MappedIdxs
  BY DEF Listed, HasDest, RouteInv, RoutesWellFormed
<1>2. PICK m \in MappedIds : MsgMap[m] = r
  BY <1>1 DEF MappedIdxs
<1>3. RoutingTbl[r].MsgId = m /\ m \in MsgIds /\ IsMapped(m)
  BY <1>2 DEF RouteInv, RoutesWellFormed, MappedIds
<1> QED
  BY <1>2, <1>3, RouteTableAssumption

(* The walk over the routing table stops at the first route from index i on *)
(* that lists the pipe, and ends only when none does.                       *)
LEMMA WalkFromOrderly ==
  ASSUME BusInv, OrderlyInv, NEW t \in Tasks, NEW p \in Pipes, NEW i \in Nat,
         NEW l \in Locals, l.deleting, l.pipe = p, Owns(l.app, p),
         IF l.cursor = -1 THEN l.app = AppOf[t] ELSE l.pipe = l.cursor,
         \A r \in RouteIdxs : Listed(r, p) => r >= i,
         l.cursor # -1 => /\ t = ES /\ l.app # AppOf[ES]
                          /\ \A u \in Tasks : AppOf[u] = l.app => pc[u] = "exited"
                          /\ \A x \in Pipes : x < l.cursor => ~Owns(l.app, x),
         pc[t] \notin {"exited", "dead"}, WalkFrom(t, p, i, l),
         UNCHANGED <<routeVars, PipesInUse, queue>>
  PROVE  OrderlyInv'
<1> DEFINE found == RoutesListing(p, i)
<1>1. \A r \in RouteIdxs : Listed(r, p) => r \in found
  BY ListedMapped DEF RoutesListing, Listed, BusInv
<1>2. ASSUME NEW there \in {"unsub", "drain"}, NEW k, k.deleting, k.pipe = p,
             k.app = l.app, k.cursor = l.cursor, Goto(t, there, k), SameOwners,
             \A r \in RouteIdxs : Listed(r, p) => there = "unsub" /\ r >= k.idx
      PROVE  OrderlyInv'
  <2>1. OthersStay(t) /\ pc'[t] = there /\ loc'[t] = k
    BY <1>2, GotoFacts
  <2>2. Quiet /\ SameLists
    BY <1>2, SameAll DEF Quiet
  <2>3. \A a : \A x \in Pipes : Owns(a, x)' <=> Owns(a, x)
    BY <1>2, QuietOwners
  <2>4. DeleterOK(t)'
    <3>1. \A r \in RouteIdxs : Listed(r, p)' => there \in {"unsub", "walk"} /\ r >= k.idx
      BY <1>2, <2>2 DEF SameLists
    <3> QED
      BY <1>2, <2>1, <2>3, <3>1 DEF DeleterOK
  <2>5. CleanerOK(t)'
    <3>1. SUFFICES ASSUME l.cursor # -1 PROVE CleanerOK(t)'
      BY <1>2, <2>1 DEF CleanerOK
    <3>2. \A u \in Tasks : AppOf[u] = l.app => pc'[u] = "exited"
      BY <2>1, <3>1 DEF OthersStay
    <3>3. \A x \in Pipes : x < l.cursor => ~Owns(l.app, x)'
      BY <2>3, <3>1
    <3> QED
      BY <1>2, <2>1, <3>1, <3>2, <3>3 DEF CleanerOK
  <2>6. RestingOK(t)'
    BY <2>1 DEF RestingOK, Resting
  <2> QED
    BY <2>1, <2>2, <2>4, <2>5, <2>6, QuietStep DEF TaskOK
<1>3. CASE found # {}
  <2> DEFINE k == [l EXCEPT !.idx = Min(found)]
  <2>1. Goto(t, "unsub", k) /\ UNCHANGED PipeTbl
    BY <1>3 DEF WalkFrom
  <2>2. Min(found) \in RouteIdxs /\ \A y \in found : Min(found) <= y
    <3>1. found \subseteq Nat /\ found \subseteq RouteIdxs
      BY RouteTableAssumption DEF RoutesListing, RouteIdxs
    <3> QED
      BY <1>3, <3>1, MinLemma
  <2>3. k.idx = Min(found) /\ k.pipe = p /\ k.deleting /\ k.app = l.app /\ k.cursor = l.cursor
    <3> HIDE DEF found
    <3> QED
      BY DEF Locals
  <2>4. \A r \in RouteIdxs : Listed(r, p) => r >= Min(found)
    <3>1. ASSUME NEW r \in RouteIdxs, Listed(r, p) PROVE r >= Min(found)
      <4>1. Min(found) <= r
        BY <1>1, <2>2, <3>1
      <4>2. r \in Int /\ Min(found) \in Int
        BY <2>2, RouteTableAssumption DEF RouteIdxs
      <4> HIDE DEF found
      <4> QED
        BY <4>1, <4>2
    <3> QED
      BY <3>1
  <2> HIDE DEF k, found
  <2> QED
    BY <1>2, <2>1, <2>3, <2>4, SameAll
<1>4. CASE found = {}
  <2> DEFINE k == [l EXCEPT !.idx = 0]
             e == [PipeTbl[p] EXCEPT !.ToTrashBuff = NULL]
  <2>1. Goto(t, "drain", k) /\ PipeTbl' = [PipeTbl EXCEPT ![p] = e]
    BY <1>4 DEF WalkFrom
  <2>2. /\ e.InUse = PipeTbl[p].InUse /\ e.AppId = PipeTbl[p].AppId
        /\ e.SysQueueId = PipeTbl[p].SysQueueId
    BY BuffTypes DEF BusInv, TransferOK, PipeD
  <2>3. k.pipe = p /\ k.deleting /\ k.app = l.app /\ k.cursor = l.cursor
    BY DEF Locals
  <2> HIDE DEF k, e
  <2>4. SameOwners
    BY <2>1, <2>2, SameFields DEF BusInv, TransferOK
  <2>5. \A r \in RouteIdxs : ~Listed(r, p)
    BY <1>1, <1>4
  <2> QED
    BY <1>2, <2>1, <2>3, <2>4, <2>5
<1> QED
  BY <1>3, <1>4

LEMMA DeletePipeOrderly ==
  ASSUME BusInv, OrderlyInv, NEW t \in Tasks, NEW p \in Pipes, DeletePipe(t, p)
  PROVE  OrderlyInv'
<1> DEFINE l == [NoLoc EXCEPT !.pipe = p, !.app = AppOf[t], !.deleting = TRUE]
<1>1. /\ WalkFrom(t, p, 0, l) /\ pc[t] = "idle" /\ Owns(AppOf[t], p)
      /\ UNCHANGED <<routeVars, PipesInUse, queue>>
  BY DEF DeletePipe, Calls
<1>2. NoLoc \in Locals /\ NoLoc.cursor = -1 /\ AppOf[t] \in Apps
  BY IdleLemma, SoftwareBusAssumption DEF NoLoc
<1>3. l \in Locals /\ l.deleting /\ l.pipe = p /\ l.app = AppOf[t] /\ l.cursor = -1
  BY <1>2 DEF Locals
<1> HIDE DEF l
<1>4. \A r \in RouteIdxs : r >= 0
  BY RouteTableAssumption DEF RouteIdxs
<1> QED
  BY <1>1, <1>3, <1>4, WalkFromOrderly

LEMMA DeleteWalkOrderly ==
  ASSUME BusInv, OrderlyInv, NEW t \in Tasks, DeleteWalk(t)
  PROVE  OrderlyInv'
<1>1. /\ pc[t] = "walk" /\ WalkFrom(t, loc[t].pipe, loc[t].idx, loc[t])
      /\ UNCHANGED <<routeVars, PipesInUse, queue>>
  BY DEF DeleteWalk
<1>2. loc[t] \in Locals /\ loc[t].pipe \in Pipes /\ loc[t].deleting /\ loc[t].idx \in Nat
  BY <1>1, RouteTableAssumption DEF BusInv, TransferOK, ControlOK, LocalsFit, Locals
<1>3. DeleterOK(t) /\ CleanerOK(t)
  BY DEF OrderlyInv, TasksOK
<1> QED
  BY <1>1, <1>2, <1>3, WalkFromOrderly DEF DeleterOK, CleanerOK

(* CFE_SB_UnsubscribeWithAppId of the walk: the route at its index does not *)
(* list the pipe any more, whoever changed that route since it was found.   *)
LEMMA DeleteUnsubscribeOrderly ==
  ASSUME BusInv, OrderlyInv, NEW t \in Tasks, DeleteUnsubscribe(t)
  PROVE  OrderlyInv'
<1>a. PICK p, i, a, c : p = loc[t].pipe /\ i = loc[t].idx /\ a = loc[t].app /\ c = loc[t].cursor
  OBVIOUS
<1> DEFINE m == RoutingTbl[i].MsgId
           l == [loc[t] EXCEPT !.idx = loc[t].idx + 1]
<1>1. pc[t] = "unsub" /\ UNCHANGED <<PipeTbl, PipesInUse, queue>>
  BY DEF DeleteUnsubscribe, pipeVars
<1>2. loc[t] \in Locals /\ i \in RouteIdxs /\ p \in Pipes /\ loc[t].deleting
  BY <1>a, <1>1 DEF BusInv, TransferOK, ControlOK, LocalsFit
<1>3. m \in MsgIds \cup {NoMsgId}
  BY <1>2 DEF BusInv, RouteInv, RouteTypeOK, RouteEntry
<1>4. DeleterOK(t) /\ CleanerOK(t)
  BY DEF OrderlyInv, TasksOK
<1>5. Owns(a, p) /\ \A r \in RouteIdxs : Listed(r, p) => r >= i
  BY <1>a, <1>2, <1>4 DEF DeleterOK
<1>6. CASE Goto(t, "fault", NoLoc) /\ UNCHANGED routeVars
  <2>1. Quiet
    BY <1>1, <1>6, SameAll DEF Quiet
  <2> QED
    BY <1>1, <1>6, <2>1, NoLocFree, QuietFree
<1>7. CASE UnsubscribeFull(m, p, a) /\ Goto(t, "walk", l)
  <2>1. Quiet
    BY <1>1, <1>2, <1>3, <1>7, UnsubscribeFullFewer, SameAll DEF Quiet, BusInv
  <2>2. ~Listed(i, p)'
    <3>1. CASE Listed(i, p)
      <4>1. m \in MsgIds /\ m # NoMsgId /\ IsMapped(m) /\ MsgMap[m] = i
        BY <1>2, <3>1, ListedMapped DEF BusInv
      <4>2. RemoveSubscription(m, p)
        BY <1>5, <1>7, <4>1 DEF UnsubscribeFull
      <4> HIDE DEF m
      <4> QED
        BY <1>2, <4>1, <4>2, ListedRemove DEF BusInv
    <3>2. CASE ~Listed(i, p)
      BY <1>2, <2>1, <3>2 DEF Quiet, FewerLists
    <3> QED
      BY <3>1, <3>2
  <2>3. l.deleting /\ l.pipe = p /\ l.idx = i + 1 /\ l.app = a /\ l.cursor = c
    BY <1>a, <1>2 DEF Locals
  <2> HIDE DEF l
  <2>4. OthersStay(t) /\ pc'[t] = "walk" /\ loc'[t] = l
    BY <1>7, GotoFacts
  <2>5. \A o : \A x \in Pipes : Owns(o, x)' <=> Owns(o, x)
    BY <2>1, QuietOwners DEF Quiet
  <2>6. DeleterOK(t)'
    <3>1. ASSUME NEW r \in RouteIdxs, Listed(r, p)' PROVE r >= i + 1
      <4>1. Listed(r, p) /\ r # i
        BY <1>2, <2>1, <2>2, <3>1 DEF Quiet, FewerLists
      <4>2. r >= i /\ r \in Int /\ i \in Int
        BY <1>2, <1>5, <4>1, RouteTableAssumption DEF RouteIdxs
      <4> QED
        BY <4>1, <4>2
    <3>2. IF c = -1 THEN a = AppOf[t] ELSE p = c
      BY <1>a, <1>2, <1>4 DEF DeleterOK
    <3> QED
      BY <1>2, <1>5, <2>3, <2>4, <2>5, <3>1, <3>2 DEF DeleterOK
  <2>7. CleanerOK(t)'
    <3>1. SUFFICES ASSUME c # -1 PROVE CleanerOK(t)'
      BY <2>3, <2>4 DEF CleanerOK
    <3>2. /\ t = ES /\ a # AppOf[ES]
          /\ \A u \in Tasks : AppOf[u] = a => pc[u] = "exited"
          /\ \A x \in Pipes : x < c => ~Owns(a, x)
      BY <1>a, <1>4, <3>1 DEF CleanerOK
    <3>3. \A u \in Tasks : AppOf[u] = a => pc'[u] = "exited"
      BY <1>1, <2>4, <3>2 DEF OthersStay
    <3> QED
      BY <2>3, <2>4, <2>5, <3>1, <3>2, <3>3 DEF CleanerOK
  <2>8. RestingOK(t)'
    BY <2>4 DEF RestingOK, Resting
  <2> QED
    BY <1>1, <2>1, <2>4, <2>6, <2>7, <2>8, QuietStep DEF TaskOK
<1> QED
  BY <1>a, <1>6, <1>7 DEF DeleteUnsubscribe

LEMMA DeleteDrainOrderly ==
  ASSUME BusInv, OrderlyInv, NEW t \in Tasks, DeleteDrain(t)
  PROVE  OrderlyInv'
<1>1. pc[t] = "drain" /\ loc[t].pipe \in Pipes
  BY DEF DeleteDrain, BusInv, TransferOK, ControlOK, LocalsFit
<1>2. Quiet /\ \E there \in {"rcvBegun", "deleted"} : Goto(t, there, loc[t])
  <2>1. CASE ValidPipe(loc[t].pipe)
    BY <1>1, <2>1, RcvBeginQuiet DEF DeleteDrain
  <2>2. CASE ~ValidPipe(loc[t].pipe)
    BY <2>2, SameAll DEF DeleteDrain, Quiet, pipeVars
  <2> QED
    BY <2>1, <2>2
<1>3. PICK there \in {"rcvBegun", "deleted"} : Goto(t, there, loc[t])
  BY <1>2
<1>4. OthersStay(t) /\ pc'[t] = there /\ loc'[t] = loc[t]
  BY <1>3, GotoFacts
<1> QED
  BY <1>1, <1>2, <1>4, GoesOn

-----------------------------------------------------------------------------
(* Applications and ground commands that leave the pipes alone *)

LEMMA ExitAppOrderly ==
  ASSUME BusInv, OrderlyInv, NEW t \in Tasks, ExitApp(t)
  PROVE  OrderlyInv'
<1>1. Quiet /\ pc[t] = "idle" /\ Goto(t, "exited", NoLoc)
  BY SameAll DEF ExitApp, Calls, Quiet, pipeVars
<1> QED
  BY <1>1, NoLocFree, QuietFree

LEMMA CleanUpAppOrderly ==
  ASSUME OrderlyProgram, BusInv, OrderlyInv, NEW a \in Apps, CleanUpApp(a)
  PROVE  OrderlyInv'
<1> DEFINE l == [NoLoc EXCEPT !.app = a, !.cursor = 0]
<1>1. ES \in Tasks
  BY SoftwareBusAssumption
<1>2. /\ a # AppOf[ES] /\ pc[ES] = "idle" /\ Goto(ES, "cleaning", l) /\ Quiet
  BY SameAll DEF CleanUpApp, Calls, Quiet, pipeVars
<1>3. \A u \in Tasks : AppOf[u] = a => pc[u] = "exited"
  BY <1>1 DEF CleanUpApp, Calls, OrderlyProgram, NoForcedCleanUp, TasksOf
<1>4. l.app = a /\ l.cursor = 0 /\ ~l.deleting
  BY DEF NoLoc
<1> HIDE DEF l
<1>5. OthersStay(ES) /\ pc'[ES] = "cleaning" /\ loc'[ES] = l
  BY <1>1, <1>2, GotoFacts
<1>6. TaskOK(ES)'
  <2>1. DeleterOK(ES)' /\ RestingOK(ES)'
    BY <1>4, <1>5 DEF DeleterOK, RestingOK, Resting
  <2>2. \A u \in Tasks : AppOf[u] = a => pc'[u] = "exited"
    BY <1>2, <1>3, <1>5 DEF OthersStay
  <2>3. \A p \in Pipes : ~(p < 0)
    BY RouteTableAssumption DEF Pipes
  <2>4. CleanerOK(ES)'
    BY <1>2, <1>4, <1>5, <2>2, <2>3 DEF CleanerOK
  <2> QED
    BY <2>1, <2>4 DEF TaskOK
<1> QED
  BY <1>1, <1>2, <1>5, <1>6, QuietStep

LEMMA RouteCmdOrderly ==
  ASSUME BusInv, OrderlyInv, NEW m \in MsgIds, NEW p \in Pipes, NEW active \in BOOLEAN,
         RouteCmd(m, p, active)
  PROVE  OrderlyInv'
<1>1. Quiet /\ Stay
  BY ListedSetActive, SameAll DEF RouteCmd, Quiet, pipeVars, BusInv
<1> QED
  BY <1>1, QuietStay

LEMMA SetSubscriptionReportingOrderly ==
  ASSUME BusInv, OrderlyInv, NEW state \in BOOLEAN, SetSubscriptionReporting(state)
  PROVE  OrderlyInv'
<1>1. Quiet /\ Stay
  BY SameAll DEF SetSubscriptionReporting, Quiet, pipeVars
<1> QED
  BY <1>1, QuietStay

-----------------------------------------------------------------------------
(* Steps that change who owns a pipe, or who is subscribed *)

(* Although the lock is given back many times on the way, no two tasks are  *)
(* ever deleting the same pipe.                                             *)
LEMMA OneDeleter ==
  ASSUME OrderlyProgram, OrderlyInv, NEW t \in Tasks, NEW u \in Tasks,
         loc[t].deleting, loc[u].deleting, loc[t].pipe = loc[u].pipe
  PROVE  t = u
<1>1. TaskOK(t) /\ TaskOK(u)
  BY DEF OrderlyInv, TasksOK, TaskOK
<1>2. loc[t].app = loc[u].app
  BY <1>1 DEF TaskOK, DeleterOK, Owns
<1>3. CASE loc[t].cursor = -1 /\ loc[u].cursor = -1
  BY <1>1, <1>2, <1>3 DEF TaskOK, DeleterOK, OrderlyProgram, OneTaskPerApp
<1>4. CASE loc[t].cursor # -1 /\ loc[u].cursor # -1
  BY <1>1, <1>4 DEF TaskOK, CleanerOK
<1>5. ASSUME NEW v \in Tasks, NEW w \in Tasks, TaskOK(v), TaskOK(w), loc[v].deleting,
             loc[w].deleting, loc[v].app = loc[w].app, loc[v].cursor = -1, loc[w].cursor # -1
      PROVE  FALSE
  <2>1. AppOf[v] = loc[w].app
    BY <1>5 DEF TaskOK, DeleterOK
  <2>2. pc[v] = "exited"
    BY <1>5, <2>1 DEF TaskOK, CleanerOK
  <2> QED
    BY <1>5, <2>2 DEF TaskOK, RestingOK, Resting
<1> QED
  BY <1>1, <1>2, <1>3, <1>4, <1>5

(* Nor is anybody deleting a pipe whose owner's task is between two calls.  *)
LEMMA OwnersPipeStays ==
  ASSUME OrderlyProgram, OrderlyInv, NEW t \in Tasks, pc[t] = "idle",
         NEW p \in Pipes, Owns(AppOf[t], p), NEW u \in Tasks, loc[u].deleting
  PROVE  loc[u].pipe # p
<1>1. SUFFICES ASSUME loc[u].pipe = p PROVE FALSE
  OBVIOUS
<1>2. TaskOK(t) /\ TaskOK(u)
  BY DEF OrderlyInv, TasksOK, TaskOK
<1>3. loc[u].app = AppOf[t]
  BY <1>1, <1>2 DEF TaskOK, DeleterOK, Owns
<1>4. CASE loc[u].cursor = -1
  <2>1. AppOf[u] = AppOf[t]
    BY <1>2, <1>3, <1>4 DEF TaskOK, DeleterOK
  <2>2. u = t
    BY <2>1 DEF OrderlyProgram, OneTaskPerApp
  <2> QED
    BY <1>2, <2>2 DEF TaskOK, RestingOK, Resting
<1>5. CASE loc[u].cursor # -1
  BY <1>2, <1>3, <1>5 DEF TaskOK, CleanerOK
<1> QED
  BY <1>4, <1>5

(* A new subscription on a pipe of the caller's.                           *)
LEMMA NewSubscription ==
  ASSUME OrderlyProgram, BusInv, OrderlyInv, NEW t \in Tasks, pc[t] = "idle",
         NEW p \in Pipes, Owns(AppOf[t], p), UNCHANGED <<PipeTbl, PipesInUse, queue>>,
         \A k \in RouteIdxs : \A q : Listed(k, q)' => Listed(k, q) \/ q = p,
         OthersStay(t), ~loc'[t].deleting, loc'[t].cursor = -1,
         pc'[t] \notin {"exited", "dead"}
  PROVE  OrderlyInv'
<1>1. /\ \A x \in Pipes : ValidPipe(x)' <=> ValidPipe(x)
      /\ \A a : \A x \in Pipes : Owns(a, x)' <=> Owns(a, x)
  BY DEF ValidPipe, Owns
<1>2. QueuesDistinct' /\ PipesInUseExact'
  BY DEF OrderlyInv, QueuesDistinct, PipesInUseExact, OpenQueues, ValidPipe
<1>3. ListedValid'
  BY <1>1 DEF OrderlyInv, ListedValid, Owns
<1>4. ASSUME NEW u \in Tasks PROVE TaskOK(u)'
  <2>1. CASE u = t
    BY <2>1, FreeTask
  <2>2. CASE u # t
    <3>1. pc'[u] = pc[u] /\ loc'[u] = loc[u] /\ TaskOK(u)
      BY <2>2 DEF OthersStay, OrderlyInv, TasksOK, TaskOK
    <3>2. DeleterOK(u)'
      <4>1. SUFFICES ASSUME loc[u].deleting
                     PROVE  DeleterOK(u)'
        BY <3>1 DEF DeleterOK
      <4>2. loc[u].pipe \in Pipes /\ loc[u].pipe # p
        BY <4>1, OwnersPipeStays DEF BusInv, TransferOK, ControlOK, LocalsFit
      <4> QED
        BY <1>1, <3>1, <4>1, <4>2 DEF DeleterOK, TaskOK
    <3>3. CleanerOK(u)'
      <4>1. SUFFICES ASSUME loc[u].cursor # -1
                     PROVE  CleanerOK(u)'
        BY <3>1 DEF CleanerOK
      <4>2. \A v \in Tasks : AppOf[v] = loc[u].app => pc'[v] = "exited"
        BY <3>1, <4>1 DEF TaskOK, CleanerOK, OthersStay
      <4> QED
        BY <1>1, <3>1, <4>1, <4>2 DEF CleanerOK, TaskOK
    <3>4. RestingOK(u)'
      BY <3>1 DEF RestingOK, TaskOK
    <3> QED
      BY <3>2, <3>3, <3>4 DEF TaskOK
  <2> QED
    BY <2>1, <2>2
<1>5. DeadAppsOwnNothing'
  <2>1. \A v \in Tasks : pc'[v] = "dead" => pc[v] = "dead"
    BY DEF OthersStay
  <2> QED
    BY <1>1, <2>1 DEF OrderlyInv, DeadAppsOwnNothing, TasksOf
<1> QED
  BY <1>2, <1>3, <1>4, <1>5 DEF OrderlyInv, TasksOK, TaskOK

LEMMA SubscribeOrderly ==
  ASSUME OrderlyProgram, BusInv, OrderlyInv, NEW t \in Tasks, NEW m \in MsgIds,
         NEW p \in Pipes, NEW lim \in MsgLims, NEW scope \in Scopes,
         Subscribe(t, m, p, lim, scope)
  PROVE  OrderlyInv'
<1>1. pc[t] = "idle" /\ Owns(AppOf[t], p) /\ UNCHANGED <<PipeTbl, PipesInUse, queue>>
  BY DEF Subscribe, Calls, pipeVars
<1>2. \A k \in RouteIdxs : \A q : Listed(k, q)' => Listed(k, q) \/ q = p
  BY ListedAdd, ListedNoBlock DEF Subscribe, SameLists, BusInv
<1> DEFINE l == [NoLoc EXCEPT !.report = [MsgId |-> m, Pipe |-> p, SubType |-> "SUB"]]
<1>3. Goto(t, "report", l) \/ Stay
  BY DEF Subscribe, Report
<1>4. ~l.deleting /\ l.cursor = -1
  BY DEF NoLoc
<1> HIDE DEF l
<1>5. ~loc[t].deleting /\ loc[t].cursor = -1
  BY <1>1 DEF OrderlyInv, TasksOK, RestingOK, Resting
<1>6. /\ OthersStay(t) /\ ~loc'[t].deleting /\ loc'[t].cursor = -1
      /\ pc'[t] \in {"report", "idle"}
  <2>1. CASE Goto(t, "report", l)
    BY <1>4, <2>1, GotoFacts
  <2>2. CASE Stay
    BY <1>1, <1>5, <2>2 DEF Stay, OthersStay
  <2> QED
    BY <1>3, <2>1, <2>2
<1> QED
  BY <1>1, <1>2, <1>6, NewSubscription

LEMMA PipesFinite == \A S \in SUBSET Pipes : IsFiniteSet(S)
<1>1. IsFiniteSet(Pipes)
  BY FS_Interval, RouteTableAssumption DEF Pipes
<1> QED
  BY <1>1, FS_Subset

(* CFE_SB_CreatePipe: the entry was free and the queue nobody's.            *)
LEMMA CreatePipeOrderly ==
  ASSUME BusInv, OrderlyInv, NEW t \in Tasks, NEW depth \in Depths, CreatePipe(t, depth)
  PROVE  OrderlyInv'
<1> USE SoftwareBusAssumption, RouteTableAssumption
<1> DEFINE free == {x \in Pipes : ~PipeTbl[x].InUse}
           ids == {q \in QueueIds : QueueIdUnheld(q)}
<1>1. PICK p, qn : p = Min(free) /\ qn = Min(ids)
  OBVIOUS
<1> DEFINE e == [PipeTbl[p] EXCEPT !.InUse = TRUE, !.AppId = AppOf[t],
                   !.SysQueueId = qn, !.CurrentBuff = NULL, !.ToTrashBuff = NULL]
           n == [open |-> TRUE, depth |-> depth, msgs |-> <<>>]
<1>2. /\ p \in Pipes /\ ~ValidPipe(p)
      /\ qn \in QueueIds /\ \A x \in Pipes : PipeTbl[x].SysQueueId # qn
  <2>1. free # {} /\ free \subseteq Nat /\ ids # {} /\ ids \subseteq Nat
    BY DEF CreatePipe, Pipes
  <2>2. p \in free /\ qn \in ids
    BY <1>1, <2>1, MinLemma
  <2> QED
    BY <2>2 DEF ValidPipe, QueueIdUnheld
<1>3. /\ queue' = [queue EXCEPT ![qn] = n]
      /\ PipeTbl' = [PipeTbl EXCEPT ![p] = e]
      /\ PipesInUse' = PipesInUse + 1
      /\ UNCHANGED routeVars /\ pc' = pc /\ loc' = loc /\ pc[t] = "idle"
  BY <1>1 DEF CreatePipe, Stay, Calls
<1>4. e.InUse /\ e.AppId = AppOf[t] /\ e.SysQueueId = qn
  BY <1>2, BuffTypes DEF BusInv, TransferOK, PipeD
<1> HIDE DEF e
<1>5. \A x \in Pipes : PipeTbl'[x] = IF x = p THEN e ELSE PipeTbl[x]
  BY <1>2, <1>3 DEF BusInv, TransferOK, PipesOK
<1>6. /\ \A x \in Pipes : ValidPipe(x)' <=> ValidPipe(x) \/ x = p
      /\ \A a : \A x \in Pipes : Owns(a, x)' <=> Owns(a, x) \/ (x = p /\ a = AppOf[t])
  BY <1>2, <1>4, <1>5 DEF ValidPipe, Owns
<1>7. QueuesDistinct'
  <2>1. OpenQueues' = OpenQueues \cup {qn}
    <3>1. \A q \in QueueIds : queue'[q] = IF q = qn THEN n ELSE queue[q]
      BY <1>2, <1>3 DEF BusInv, TransferOK, PipesOK
    <3>2. n.open
      OBVIOUS
    <3> HIDE DEF n
    <3> QED
      BY <1>2, <3>1, <3>2 DEF OpenQueues
  <2>2. \A x \in Pipes : PipeTbl'[x].SysQueueId = IF x = p THEN qn ELSE PipeTbl[x].SysQueueId
    BY <1>4, <1>5
  <2> QED
    BY <1>2, <1>6, <2>1, <2>2 DEF OrderlyInv, QueuesDistinct
<1>8. ListedValid'
  BY <1>3, <1>6 DEF OrderlyInv, ListedValid, Listed, routeVars
<1>9. ASSUME NEW u \in Tasks PROVE TaskOK(u)'
  <2>1. TaskOK(u)
    BY DEF OrderlyInv, TasksOK, TaskOK
  <2>2. DeleterOK(u)'
    <3>1. SUFFICES ASSUME loc[u].deleting
                   PROVE  DeleterOK(u)'
      BY <1>3 DEF DeleterOK
    <3>2. loc[u].pipe \in Pipes
      BY <3>1 DEF BusInv, TransferOK, ControlOK, LocalsFit
    <3> QED
      BY <1>3, <1>6, <2>1, <3>1, <3>2 DEF DeleterOK, TaskOK, Listed, routeVars
  <2>3. CleanerOK(u)'
    <3>1. SUFFICES ASSUME loc[u].cursor # -1
                   PROVE  CleanerOK(u)'
      BY <1>3 DEF CleanerOK
    <3>2. AppOf[t] # loc[u].app
      BY <1>3, <2>1, <3>1 DEF TaskOK, CleanerOK
    <3> QED
      BY <1>3, <1>6, <2>1, <3>1, <3>2 DEF CleanerOK, TaskOK
  <2>4. RestingOK(u)'
    BY <1>3, <2>1 DEF RestingOK, TaskOK
  <2> QED
    BY <2>2, <2>3, <2>4 DEF TaskOK
<1>10. PipesInUseExact'
  <2> DEFINE V == {x \in Pipes : ValidPipe(x)}
  <2>1. V' = V \cup {p} /\ p \notin V
    BY <1>2, <1>6
  <2>2. IsFiniteSet(V)
    BY PipesFinite
  <2>3. Cardinality(V \cup {p}) = Cardinality(V) + 1
    BY <2>1, <2>2, FS_AddElement
  <2> QED
    BY <1>3, <2>1, <2>3 DEF OrderlyInv, PipesInUseExact
<1>11. DeadAppsOwnNothing'
  BY <1>3, <1>6 DEF OrderlyInv, DeadAppsOwnNothing, TasksOf
<1> QED
  BY <1>7, <1>8, <1>9, <1>10, <1>11 DEF OrderlyInv, TasksOK, TaskOK

(* The end of CFE_SB_DeletePipeFull: what it clears without looking again   *)
(* is still the pipe it began with.                                         *)
LEMMA DeleteFinishOrderly ==
  ASSUME OrderlyProgram, BusInv, OrderlyInv, NEW t \in Tasks, DeleteFinish(t)
  PROVE  OrderlyInv'
<1>1. PICK p, qn, a, c : /\ p = loc[t].pipe /\ qn = PipeTbl[p].SysQueueId
                         /\ a = loc[t].app /\ c = loc[t].cursor
  OBVIOUS
<1> DEFINE e == RemovedPipe(PipeTbl[p])
           l == [NoLoc EXCEPT !.app = a, !.cursor = c + 1]
<1>2. /\ pc[t] = "deleted"
      /\ queue' = IF qn = NoQueue THEN queue ELSE [queue EXCEPT ![qn] = Unused]
      /\ PipeTbl' = [PipeTbl EXCEPT ![p] = e]
      /\ PipesInUse' = PipesInUse - 1
      /\ IF c = -1 THEN Goto(t, "idle", NoLoc) ELSE Goto(t, "cleaning", l)
      /\ UNCHANGED routeVars
  BY <1>1 DEF DeleteFinish
<1>3. loc[t].deleting /\ p \in Pipes
  BY <1>1, <1>2 DEF BusInv, TransferOK, ControlOK, LocalsFit
<1>4. TaskOK(t)
  BY DEF OrderlyInv, TasksOK, TaskOK
<1>5. /\ Owns(a, p) /\ (c = -1 \/ p = c)
      /\ \A r \in RouteIdxs : ~Listed(r, p)
  BY <1>1, <1>2, <1>3, <1>4 DEF TaskOK, DeleterOK
<1>6. ~e.InUse
  BY <1>3, BuffTypes DEF BusInv, TransferOK, PipeD, RemovedPipe
<1> HIDE DEF e
<1>7. \A x \in Pipes : PipeTbl'[x] = IF x = p THEN e ELSE PipeTbl[x]
  BY <1>2, <1>3 DEF BusInv, TransferOK, PipesOK
<1>8. /\ \A x \in Pipes : ValidPipe(x)' <=> ValidPipe(x) /\ x # p
      /\ \A o : \A x \in Pipes : Owns(o, x)' <=> Owns(o, x) /\ x # p
  BY <1>6, <1>7 DEF ValidPipe, Owns
<1>9. QueuesDistinct'
  <2>1. \A q \in QueueIds : q # qn => queue'[q] = queue[q]
    BY <1>2 DEF BusInv, TransferOK, PipesOK
  <2>2. ASSUME NEW x \in Pipes, ValidPipe(x)'
        PROVE  PipeTbl'[x].SysQueueId = PipeTbl[x].SysQueueId /\ PipeTbl[x].SysQueueId # qn
               /\ ValidPipe(x)
    BY <1>1, <1>3, <1>5, <1>7, <1>8, <2>2 DEF OrderlyInv, QueuesDistinct, Owns
  <2>3. \A x \in Pipes : ValidPipe(x)' => PipeTbl'[x].SysQueueId \in OpenQueues'
    BY <2>1, <2>2 DEF OrderlyInv, QueuesDistinct, OpenQueues
  <2> QED
    BY <2>2, <2>3 DEF OrderlyInv, QueuesDistinct
<1>10. ListedValid'
  BY <1>2, <1>3, <1>5, <1>8 DEF OrderlyInv, ListedValid, Listed, routeVars
<1>11. l.app = a /\ l.cursor = c + 1 /\ ~l.deleting
  BY DEF NoLoc
<1> HIDE DEF l
<1>12. OthersStay(t) /\ pc'[t] \in {"idle", "cleaning"}
       /\ IF c = -1 THEN loc'[t] = NoLoc ELSE pc'[t] = "cleaning" /\ loc'[t] = l
  BY <1>2, GotoFacts
<1>13. TaskOK(t)'
  <2>1. CASE c = -1
    BY <1>12, <2>1, FreeTask, NoLocFree
  <2>2. CASE c # -1
    <3>1. DeleterOK(t)' /\ RestingOK(t)'
      BY <1>11, <1>12, <2>2 DEF DeleterOK, RestingOK, Resting
    <3>2. /\ t = ES /\ a # AppOf[ES]
          /\ \A u \in Tasks : AppOf[u] = a => pc[u] = "exited"
          /\ \A x \in Pipes : x < c => ~Owns(a, x)
      BY <1>1, <1>4, <2>2 DEF TaskOK, CleanerOK
    <3>3. \A u \in Tasks : AppOf[u] = a => pc'[u] = "exited"
      BY <1>12, <3>2 DEF OthersStay
    <3>4. \A x \in Pipes : x < c + 1 => ~Owns(a, x)'
      <4>1. c \in Int /\ \A x \in Pipes : x \in Int
        BY <1>3, <1>5, <2>2, RouteTableAssumption DEF Pipes
      <4>2. \A x \in Pipes : x < c + 1 => x < c \/ x = p
        BY <1>5, <2>2, <4>1
      <4> QED
        BY <1>8, <3>2, <4>2
    <3>5. CleanerOK(t)'
      BY <1>11, <1>12, <2>2, <3>2, <3>3, <3>4 DEF CleanerOK
    <3> QED
      BY <3>1, <3>5 DEF TaskOK
  <2> QED
    BY <2>1, <2>2
<1>14. ASSUME NEW u \in Tasks PROVE TaskOK(u)'
  <2>1. CASE u = t
    BY <1>13, <2>1
  <2>2. CASE u # t
    <3>1. pc'[u] = pc[u] /\ loc'[u] = loc[u] /\ TaskOK(u)
      BY <1>12, <2>2 DEF OthersStay, OrderlyInv, TasksOK, TaskOK
    <3>2. DeleterOK(u)'
      <4>1. SUFFICES ASSUME loc[u].deleting
                     PROVE  DeleterOK(u)'
        BY <3>1 DEF DeleterOK
      <4>2. loc[u].pipe \in Pipes /\ loc[u].pipe # p
        BY <1>1, <1>3, <2>2, <4>1, OneDeleter DEF BusInv, TransferOK, ControlOK, LocalsFit
      <4> QED
        BY <1>2, <1>8, <3>1, <4>1, <4>2 DEF DeleterOK, TaskOK, Listed, routeVars
    <3>3. CleanerOK(u)'
      <4>1. SUFFICES ASSUME loc[u].cursor # -1
                     PROVE  CleanerOK(u)'
        BY <3>1 DEF CleanerOK
      <4>2. \A v \in Tasks : AppOf[v] = loc[u].app => pc'[v] = "exited"
        BY <1>2, <1>12, <3>1, <4>1 DEF TaskOK, CleanerOK, OthersStay
      <4> QED
        BY <1>8, <3>1, <4>1, <4>2 DEF CleanerOK, TaskOK
    <3>4. RestingOK(u)'
      BY <3>1 DEF RestingOK, TaskOK
    <3> QED
      BY <3>2, <3>3, <3>4 DEF TaskOK
  <2> QED
    BY <2>1, <2>2
<1>15. PipesInUseExact'
  <2> DEFINE V == {x \in Pipes : ValidPipe(x)}
  <2>1. V' = V \ {p} /\ p \in V
    BY <1>3, <1>5, <1>8 DEF Owns
  <2>2. IsFiniteSet(V)
    BY PipesFinite
  <2>3. Cardinality(V \ {p}) = Cardinality(V) - 1
    BY <2>1, <2>2, FS_RemoveElement
  <2> QED
    BY <1>2, <2>1, <2>3 DEF OrderlyInv, PipesInUseExact
<1>16. DeadAppsOwnNothing'
  <2>1. \A v \in Tasks : pc'[v] = "dead" => pc[v] = "dead"
    BY <1>12 DEF OthersStay
  <2> QED
    BY <1>8, <2>1 DEF OrderlyInv, DeadAppsOwnNothing, TasksOf
<1> QED
  BY <1>9, <1>10, <1>14, <1>15, <1>16 DEF OrderlyInv, TasksOK, TaskOK

-----------------------------------------------------------------------------
(* CFE_SB_CleanUpApp and the application's end *)

(* One iteration of the loop over the pipe table.                          *)
LEMMA CleanUpEntryOrderly ==
  ASSUME BusInv, OrderlyInv, CleanUpPipe, loc[ES].cursor \in Pipes
  PROVE  OrderlyInv'
<1>1. ES \in Tasks
  BY SoftwareBusAssumption
<1>2. PICK a, p : a = loc[ES].app /\ p = loc[ES].cursor
  OBVIOUS
<1>3. /\ pc[ES] = "cleaning" /\ UNCHANGED <<routeVars, PipesInUse, queue>>
      /\ p \in Pipes
  BY <1>2 DEF CleanUpPipe
<1>4. loc[ES] \in Locals /\ ~loc[ES].deleting
  BY <1>1, <1>3 DEF BusInv, TransferOK, ControlOK, LocalsFit
<1>5. p \in Int /\ p # -1 /\ \A x \in Pipes : x \in Int
  BY <1>3, RouteTableAssumption DEF Pipes
<1>6. /\ a # AppOf[ES] /\ \A u \in Tasks : AppOf[u] = a => pc[u] = "exited"
      /\ \A x \in Pipes : x < p => ~Owns(a, x)
  BY <1>1, <1>2, <1>5 DEF OrderlyInv, TasksOK, CleanerOK
<1>7. CASE Owns(a, p)
  <2> DEFINE l == [loc[ES] EXCEPT !.pipe = p, !.deleting = TRUE]
  <2>1. WalkFrom(ES, p, 0, l)
    BY <1>2, <1>3, <1>7 DEF CleanUpPipe
  <2>2. l \in Locals /\ l.deleting /\ l.pipe = p /\ l.app = a /\ l.cursor = p
    BY <1>2, <1>3, <1>4 DEF Locals
  <2> HIDE DEF l
  <2>3. \A r \in RouteIdxs : r >= 0
    BY RouteTableAssumption DEF RouteIdxs
  <2> QED
    BY <1>1, <1>3, <1>5, <1>6, <1>7, <2>1, <2>2, <2>3, WalkFromOrderly
<1>8. CASE ~Owns(a, p)
  <2> DEFINE l == [loc[ES] EXCEPT !.cursor = loc[ES].cursor + 1]
  <2>1. Goto(ES, "cleaning", l) /\ UNCHANGED PipeTbl
    BY <1>2, <1>3, <1>8 DEF CleanUpPipe
  <2>2. ~l.deleting /\ l.app = a /\ l.cursor = p + 1
    BY <1>2, <1>4 DEF Locals
  <2> HIDE DEF l
  <2>3. OthersStay(ES) /\ pc'[ES] = "cleaning" /\ loc'[ES] = l
    BY <1>1, <2>1, GotoFacts
  <2>4. Quiet
    BY <1>3, <2>1, SameAll DEF Quiet
  <2>5. \A o : \A x \in Pipes : Owns(o, x)' <=> Owns(o, x)
    BY <2>4, QuietOwners DEF Quiet
  <2>6. \A x \in Pipes : x < p + 1 => ~Owns(a, x)
    <3>1. \A x \in Pipes : x < p + 1 => x < p \/ x = p
      BY <1>5
    <3> QED
      BY <1>6, <1>8, <3>1
  <2>7. \A u \in Tasks : AppOf[u] = a => pc'[u] = "exited"
    BY <1>6, <2>3 DEF OthersStay
  <2>8. TaskOK(ES)'
    <3>1. DeleterOK(ES)' /\ RestingOK(ES)'
      BY <2>2, <2>3 DEF DeleterOK, RestingOK, Resting
    <3>2. CleanerOK(ES)'
      BY <1>6, <2>2, <2>3, <2>5, <2>6, <2>7 DEF CleanerOK
    <3> QED
      BY <3>1, <3>2 DEF TaskOK
  <2> QED
    BY <1>1, <1>3, <2>3, <2>4, <2>8, QuietStep
<1> QED
  BY <1>7, <1>8

(* After the last entry the application owns no pipe, so none of its queues *)
(* is left for OSAL to delete under a subscription.                         *)
LEMMA CleanUpEndOrderly ==
  ASSUME BusInv, OrderlyInv, CleanUpPipe, loc[ES].cursor \notin Pipes
  PROVE  OrderlyInv'
<1> USE SoftwareBusAssumption
<1>1. PICK a, c : a = loc[ES].app /\ c = loc[ES].cursor
  OBVIOUS
<1>2. /\ pc[ES] = "cleaning" /\ UNCHANGED <<routeVars, PipesInUse, PipeTbl>>
      /\ pc' = [t \in Tasks |-> IF t = ES THEN "idle"
                                ELSE IF AppOf[t] = a THEN "dead" ELSE pc[t]]
      /\ loc' = [t \in Tasks |-> IF t = ES \/ AppOf[t] = a THEN NoLoc ELSE loc[t]]
      /\ queue' = [q \in QueueIds |->
                     IF \E i \in Pipes : Owns(a, i) /\ PipeTbl[i].SysQueueId = q
                     THEN Unused ELSE queue[q]]
  BY <1>1 DEF CleanUpPipe
<1>3. c \in 0 .. MaxPipes /\ c \notin Pipes
  BY <1>1, <1>2 DEF BusInv, TransferOK, ControlOK, LocalsFit
<1>4. c # -1 /\ \A x \in Pipes : x < c
  BY <1>3, RouteTableAssumption DEF Pipes
<1>5. \A x \in Pipes : ~Owns(a, x)
  BY <1>1, <1>4 DEF OrderlyInv, TasksOK, CleanerOK
<1>6. queue' = queue
  BY <1>2, <1>5 DEF BusInv, TransferOK, PipesOK
<1>7. /\ \A x \in Pipes : ValidPipe(x)' <=> ValidPipe(x)
      /\ \A o : \A x \in Pipes : Owns(o, x)' <=> Owns(o, x)
  BY <1>2 DEF ValidPipe, Owns
<1>8. QueuesDistinct' /\ PipesInUseExact'
  BY <1>2, <1>6 DEF OrderlyInv, QueuesDistinct, PipesInUseExact, OpenQueues, ValidPipe
<1>9. ListedValid'
  BY <1>2, <1>7 DEF OrderlyInv, ListedValid, Listed, routeVars
<1>10. ASSUME NEW u \in Tasks PROVE TaskOK(u)'
  <2>1. CASE u = ES \/ AppOf[u] = a
    BY <1>2, <2>1, NoLocFree, FreeTask
  <2>2. CASE ~(u = ES \/ AppOf[u] = a)
    <3>1. pc'[u] = pc[u] /\ loc'[u] = loc[u] /\ TaskOK(u)
      BY <1>2, <2>2 DEF OrderlyInv, TasksOK, TaskOK
    <3>2. DeleterOK(u)'
      <4>1. SUFFICES ASSUME loc[u].deleting
                     PROVE  DeleterOK(u)'
        BY <3>1 DEF DeleterOK
      <4>2. loc[u].pipe \in Pipes
        BY <4>1 DEF BusInv, TransferOK, ControlOK, LocalsFit
      <4> QED
        BY <1>2, <1>7, <3>1, <4>1, <4>2 DEF DeleterOK, TaskOK, Listed, routeVars
    <3>3. CleanerOK(u)'
      BY <2>2, <3>1 DEF CleanerOK, TaskOK
    <3>4. RestingOK(u)'
      BY <3>1 DEF RestingOK, TaskOK
    <3> QED
      BY <3>2, <3>3, <3>4 DEF TaskOK
  <2> QED
    BY <2>1, <2>2
<1>11. DeadAppsOwnNothing'
  <2>1. \A v \in Tasks : pc'[v] = "dead" => AppOf[v] = a \/ pc[v] = "dead"
    BY <1>2
  <2> QED
    BY <1>5, <1>7, <2>1 DEF OrderlyInv, DeadAppsOwnNothing, TasksOf
<1> QED
  BY <1>8, <1>9, <1>10, <1>11 DEF OrderlyInv, TasksOK, TaskOK

LEMMA StartAppOrderly ==
  ASSUME BusInv, OrderlyInv, NEW a \in Apps, StartApp(a)
  PROVE  OrderlyInv'
<1> USE SoftwareBusAssumption
<1>1. /\ \A t \in Tasks : AppOf[t] = a => pc[t] = "dead"
      /\ pc' = [t \in Tasks |-> IF AppOf[t] = a THEN "idle" ELSE pc[t]]
      /\ UNCHANGED <<routeVars, PipeTbl, PipesInUse, queue, loc>> /\ pc[ES] = "idle"
  BY DEF StartApp, TasksOf, Calls, pipeVars
<1>2. \A t \in Tasks : loc[t].cursor = -1
  BY <1>1 DEF OrderlyInv, TasksOK, CleanerOK, RestingOK, Resting
<1>3. /\ \A x \in Pipes : ValidPipe(x)' <=> ValidPipe(x)
      /\ \A o : \A x \in Pipes : Owns(o, x)' <=> Owns(o, x)
  BY <1>1 DEF ValidPipe, Owns
<1>4. QueuesDistinct' /\ PipesInUseExact'
  BY <1>1 DEF OrderlyInv, QueuesDistinct, PipesInUseExact, OpenQueues, ValidPipe
<1>5. ListedValid'
  BY <1>1, <1>3 DEF OrderlyInv, ListedValid, Listed, routeVars
<1>6. ASSUME NEW u \in Tasks PROVE TaskOK(u)'
  <2>1. TaskOK(u)
    BY DEF OrderlyInv, TasksOK, TaskOK
  <2>2. CASE AppOf[u] = a
    <3>1. ~loc[u].deleting
      BY <1>1, <2>1, <2>2 DEF TaskOK, RestingOK, Resting
    <3> QED
      BY <1>1, <1>2, <3>1, FreeTask
  <2>3. CASE AppOf[u] # a
    <3>1. pc'[u] = pc[u] /\ loc'[u] = loc[u]
      BY <1>1, <2>3
    <3>2. DeleterOK(u)'
      <4>1. SUFFICES ASSUME loc[u].deleting
                     PROVE  DeleterOK(u)'
        BY <3>1 DEF DeleterOK
      <4>2. loc[u].pipe \in Pipes
        BY <4>1 DEF BusInv, TransferOK, ControlOK, LocalsFit
      <4> QED
        BY <1>1, <1>3, <2>1, <3>1, <4>1, <4>2 DEF DeleterOK, TaskOK, Listed, routeVars
    <3>3. CleanerOK(u)'
      BY <1>2, <3>1 DEF CleanerOK
    <3>4. RestingOK(u)'
      BY <2>1, <3>1 DEF RestingOK, TaskOK
    <3> QED
      BY <3>2, <3>3, <3>4 DEF TaskOK
  <2> QED
    BY <2>2, <2>3
<1>7. DeadAppsOwnNothing'
  <2>1. \A v \in Tasks : pc'[v] = "dead" => pc[v] = "dead"
    BY <1>1
  <2> QED
    BY <1>3, <2>1 DEF OrderlyInv, DeadAppsOwnNothing, TasksOf
<1> QED
  BY <1>4, <1>5, <1>6, <1>7 DEF OrderlyInv, TasksOK, TaskOK

-----------------------------------------------------------------------------
(* The theorems *)

LEMMA OrderlyInit == Init => OrderlyInv
<1> SUFFICES ASSUME Init PROVE OrderlyInv
  OBVIOUS
<1>1. \A p \in Pipes : ~ValidPipe(p)
  BY DEF Init, ValidPipe
<1>2. \A r \in RouteIdxs : \A p : ~Listed(r, p)
  BY DEF Init, RouteInit, Listed, HasDest
<1>3. \A t \in Tasks : pc[t] = "idle" /\ ~loc[t].deleting /\ loc[t].cursor = -1
  BY NoLocFree DEF Init
<1>4. TasksOK
  BY <1>3 DEF TasksOK, DeleterOK, CleanerOK, RestingOK
<1>5. PipesInUseExact
  <2>1. {p \in Pipes : ValidPipe(p)} = {}
    BY <1>1
  <2> QED
    BY <2>1, FS_EmptySet DEF PipesInUseExact, Init
<1> QED
  BY <1>1, <1>2, <1>4, <1>5 DEF OrderlyInv, QueuesDistinct, ListedValid, DeadAppsOwnNothing, Owns

LEMMA OrderlyStep ==
  ASSUME OrderlyProgram, BusInv, OrderlyInv, [Next]_vars
  PROVE  OrderlyInv'
<1>1. CASE UNCHANGED vars
  <2>1. Stay /\ UNCHANGED <<routeVars, PipeTbl, PipesInUse, queue>>
    BY <1>1 DEF vars, Stay, pipeVars
  <2> QED
    BY <2>1, SameAll, QuietStay DEF Quiet
<1>2. ASSUME NEW t \in Tasks, Call(t)
      PROVE  OrderlyInv'
  <2>1. CASE \E depth \in Depths : CreatePipe(t, depth)
    BY <2>1, CreatePipeOrderly
  <2>2. CASE ExitApp(t)
    BY <2>2, ExitAppOrderly
  <2>3. CASE \E m \in MsgIds : SendMsg(t, m)
    BY <2>3, SendMsgOrderly
  <2>4. ASSUME NEW p \in Pipes, DeletePipe(t, p) PROVE OrderlyInv'
    BY <2>4, DeletePipeOrderly
  <2>5. ASSUME NEW p \in Pipes, NEW o \in BOOLEAN, SetPipeOpts(t, p, o) PROVE OrderlyInv'
    BY <2>5, SetPipeOptsOrderly
  <2>6. ASSUME NEW p \in Pipes, NEW timeout \in TimeOuts, RcvMsg(t, p, timeout)
        PROVE  OrderlyInv'
    BY <2>6, RcvMsgOrderly
  <2>7. ASSUME NEW p \in Pipes, NEW m \in MsgIds, NEW scope \in Scopes,
               NEW lim \in MsgLims, Subscribe(t, m, p, lim, scope)
        PROVE  OrderlyInv'
    BY <2>7, SubscribeOrderly
  <2>8. ASSUME NEW p \in Pipes, NEW m \in MsgIds, NEW scope \in Scopes,
               Unsubscribe(t, m, p, scope)
        PROVE  OrderlyInv'
    BY <2>8, UnsubscribeOrderly
  <2> QED
    BY <1>2, <2>1, <2>2, <2>3, <2>4, <2>5, <2>6, <2>7, <2>8 DEF Call
<1>3. ASSUME NEW t \in Tasks, Continue(t)
      PROVE  OrderlyInv'
  BY <1>3, SendReportOrderly, RcvReadQueueOrderly, RcvWakeOrderly, RcvFinishOrderly,
     DeleteUnsubscribeOrderly, DeleteWalkOrderly, DeleteDrainOrderly, DeleteFinishOrderly,
     CleanUpEntryOrderly, CleanUpEndOrderly DEF Continue
<1>4. ASSUME NEW a \in Apps, CleanUpApp(a) \/ StartApp(a)
      PROVE  OrderlyInv'
  BY <1>4, CleanUpAppOrderly, StartAppOrderly
<1>5. ASSUME NEW m \in MsgIds, NEW p \in Pipes, NEW active \in BOOLEAN,
             RouteCmd(m, p, active)
      PROVE  OrderlyInv'
  BY <1>5, RouteCmdOrderly
<1>6. ASSUME NEW state \in BOOLEAN, SetSubscriptionReporting(state)
      PROVE  OrderlyInv'
  BY <1>6, SetSubscriptionReportingOrderly
<1> QED
  BY <1>1, <1>2, <1>3, <1>4, <1>5, <1>6 DEF Next

(* When each application has one task and is cleaned up only after it has   *)
(* exited, the ownership of pipes, queues and deletions stays in order      *)
(* through every interleaving of the locked sections.                       *)
THEOREM OrderlyInvariance ==
  ASSUME OrderlyProgram
  PROVE  Spec => []OrderlyInv
<1>1. Init => OrderlyInv
  BY OrderlyInit
<1>2. BusInv /\ OrderlyInv /\ [Next]_vars => OrderlyInv'
  BY OrderlyStep
<1> QED
  BY <1>1, <1>2, BusInvariance, PTL DEF Spec

(* Deleting a pipe (CFE_SB_DeletePipeFull, CFE_SB_CleanUpApp) leaves no     *)
(* subscription behind: every destination on a list is a pipe in use with   *)
(* an open queue.                                                           *)
THEOREM DeletedPipesUnsubscribed ==
  ASSUME OrderlyProgram
  PROVE  Spec => []NoStaleDestination
<1>1. ASSUME BusInv, OrderlyInv PROVE NoStaleDestination
  <2>1. ASSUME NEW r \in RouteIdxs, NEW i \in DOMAIN RoutingTbl[r].ListHeadPtr
        PROVE  LET p == RoutingTbl[r].ListHeadPtr[i].PipeId
               IN ValidPipe(p) /\ PipeTbl[p].SysQueueId \in OpenQueues
    <3> DEFINE list == RoutingTbl[r].ListHeadPtr
               p == list[i].PipeId
    <3>1. list \in Seq(Dest)
      BY <1>1, EntryLemma DEF BusInv
    <3>2. list[i] \in Dest
      BY <2>1, <3>1, LenProperties, ElementOfSeq
    <3>3. p \in Pipes
      BY <3>2 DEF Dest
    <3>4. Listed(r, p)
      BY <2>1 DEF Listed, HasDest
    <3> QED
      BY <1>1, <3>3, <3>4 DEF OrderlyInv, ListedValid, QueuesDistinct
  <2> QED
    BY <2>1 DEF NoStaleDestination
<1> QED
  BY <1>1, OrderlyInvariance, BusInvariance, PTL

(* The statistics packet's PipesInUse counts the pipes in use, and a        *)
(* deleted application owns none, whatever the other tasks do while         *)
(* CFE_SB_CleanUpApp is at work.                                            *)
THEOREM PipesAccounted ==
  ASSUME OrderlyProgram
  PROVE  Spec => [](PipesInUseExact /\ DeadAppsOwnNothing)
<1>1. OrderlyInv => PipesInUseExact /\ DeadAppsOwnNothing
  BY DEF OrderlyInv
<1> QED
  BY <1>1, OrderlyInvariance, PTL

-----------------------------------------------------------------------------
(* Who is at work on which pipe *)

Receiving == {"rcvBegun", "rcvBlocked", "rcvRead"}

(* The task of the pipe's owner, or ES once that task has exited.          *)
Minds(t, p) ==
  \/ pc[t] # "exited" /\ Owns(AppOf[t], p)
  \/ loc[t].cursor # -1 /\ Owns(loc[t].app, p)

HoldsNothing(p) == QueueOf(p) = <<>> /\ PipeTbl[p].CurrentBuff = NULL

(* What a task in CFE_SB_RcvMsg, or at the end of a deletion, may rely on   *)
(* about its pipe although it has not held the lock since it looked.        *)
WorkerOK(t) ==
  LET l    == loc[t]
      pipe == PipeTbl[l.pipe]
  IN /\ pc[t] # "exited" => \A p \in handles[AppOf[t]] : Owns(AppOf[t], p)
     /\ pc[t] \in Receiving /\ ~l.deleting => Owns(AppOf[t], l.pipe)
     /\ l.msg # NULL <=> pc[t] = "rcvRead" /\ l.status = "ok"
     /\ l.timeout # "POLL" => pc[t] \in Receiving /\ ~l.deleting
     /\ pc[t] = "rcvBegun" => pipe.CurrentBuff = pipe.ToTrashBuff
     /\ pc[t] = "rcvBlocked" => ~l.deleting /\ l.queue = pipe.SysQueueId
     /\ pc[t] \in {"rcvBlocked", "rcvRead"} => pipe.CurrentBuff = NULL
     /\ pc[t] = "deleted" \/ (l.deleting /\ pc[t] = "rcvRead" /\ l.status # "ok")
          => HoldsNothing(l.pipe)

(* A free entry of PipeTbl holds no buffer and no queue, and a buffer to be *)
(* given back has a receiver that will.                                     *)
EntryOK(p) ==
  /\ ~ValidPipe(p) => PipeTbl[p].SysQueueId = NoQueue /\ PipeTbl[p].CurrentBuff = NULL
  /\ PipeTbl[p].ToTrashBuff # NULL =>
       \E t \in Tasks : pc[t] \in Receiving /\ loc[t].pipe = p

QueueFits(q) ==
  /\ Len(queue[q].msgs) <= queue[q].depth
  /\ queue[q].depth \in Depths \cup {0}

WorkInv ==
  /\ \A t \in Tasks : WorkerOK(t)
  /\ \A p \in Pipes : EntryOK(p)
  /\ \A q \in QueueIds : QueueFits(q)

-----------------------------------------------------------------------------
(* One task at a time *)

LEMMA MindsAlone ==
  ASSUME OrderlyProgram, OrderlyInv, NEW t \in Tasks, NEW u \in Tasks, NEW p,
         Minds(t, p), Minds(u, p)
  PROVE  t = u
<1>1. CleanerOK(t) /\ CleanerOK(u)
  BY DEF OrderlyInv, TasksOK
<1>2. ASSUME NEW v \in Tasks, CleanerOK(v), loc[v].cursor # -1, Owns(loc[v].app, p)
      PROVE  v = ES /\ \A w \in Tasks : Owns(AppOf[w], p) => pc[w] = "exited"
  BY <1>2 DEF CleanerOK, Owns
<1>3. CASE pc[t] # "exited" /\ Owns(AppOf[t], p) /\ pc[u] # "exited" /\ Owns(AppOf[u], p)
  BY <1>3 DEF Owns, OrderlyProgram, OneTaskPerApp
<1> QED
  BY <1>1, <1>2, <1>3 DEF Minds

LEMMA WorkerPipe ==
  ASSUME BusInv, NEW t \in Tasks, pc[t] \in Receiving \/ loc[t].deleting
  PROVE  loc[t].pipe \in Pipes
BY DEF BusInv, TransferOK, ControlOK, LocalsFit, Receiving

LEMMA WorkersMind ==
  ASSUME OrderlyInv, WorkInv, NEW t \in Tasks, pc[t] \in Receiving \/ loc[t].deleting
  PROVE  Minds(t, loc[t].pipe) /\ ValidPipe(loc[t].pipe)
<1>1. DeleterOK(t) /\ RestingOK(t) /\ WorkerOK(t)
  BY DEF OrderlyInv, TasksOK, WorkInv
<1>2. CASE loc[t].deleting
  <2>1. pc[t] # "exited"
    BY <1>1, <1>2 DEF RestingOK, Resting
  <2> QED
    BY <1>1, <1>2, <2>1 DEF DeleterOK, Minds, Owns
<1>3. CASE ~loc[t].deleting
  <2>1. pc[t] \in Receiving /\ pc[t] # "exited"
    BY <1>3 DEF Receiving
  <2>2. Owns(AppOf[t], loc[t].pipe)
    BY <1>1, <1>3, <2>1 DEF WorkerOK
  <2> QED
    BY <2>1, <2>2 DEF Minds, Owns
<1> QED
  BY <1>2, <1>3

(* A task between two calls minds the pipes it has been given.             *)
LEMMA CallerMinds ==
  ASSUME WorkInv, NEW t \in Tasks, pc[t] = "idle", NEW p \in handles[AppOf[t]]
  PROVE  Minds(t, p) /\ Owns(AppOf[t], p)
BY DEF WorkInv, WorkerOK, Minds

(* Nobody else is in CFE_SB_RcvMsg on a task's pipe, so ToTrashBuff is      *)
(* empty unless the task itself is.                                         *)
LEMMA NothingToTrash ==
  ASSUME OrderlyProgram, OrderlyInv, WorkInv, NEW t \in Tasks, NEW p \in Pipes,
         Minds(t, p), pc[t] \notin Receiving
  PROVE  PipeTbl[p].ToTrashBuff = NULL
<1>1. SUFFICES ASSUME NEW u \in Tasks, pc[u] \in Receiving, loc[u].pipe = p PROVE FALSE
  BY DEF WorkInv, EntryOK
<1>2. Minds(u, p)
  BY <1>1, WorkersMind
<1> QED
  BY <1>1, <1>2, MindsAlone

(* The part of a pipe table entry that transfers depend on.                *)
SameEntry(p) ==
  /\ PipeTbl'[p].InUse = PipeTbl[p].InUse
  /\ PipeTbl'[p].AppId = PipeTbl[p].AppId
  /\ PipeTbl'[p].SysQueueId = PipeTbl[p].SysQueueId
  /\ PipeTbl'[p].CurrentBuff = PipeTbl[p].CurrentBuff
  /\ PipeTbl'[p].ToTrashBuff = PipeTbl[p].ToTrashBuff

LEMMA SameEntryLemma ==
  ASSUME NEW p, SameEntry(p)
  PROVE  /\ ValidPipe(p)' <=> ValidPipe(p)
         /\ \A a : Owns(a, p)' <=> Owns(a, p)
BY DEF SameEntry, ValidPipe, Owns

(* A task that stays where it is, and whose pipes stay as they are.        *)
LEMMA WorkerKept ==
  ASSUME BusInv, OrderlyInv, WorkInv, NEW u \in Tasks, pc'[u] = pc[u], loc'[u] = loc[u],
         handles'[AppOf[u]] = handles[AppOf[u]],
         \A p \in Pipes : Minds(u, p) =>
           /\ SameEntry(p)
           /\ QueueOf(p)' = QueueOf(p) \/ \E r \in RouteIdxs : Listed(r, p)
  PROVE  WorkerOK(u)'
<1>1. WorkerOK(u)
  BY DEF WorkInv
<1>2. ASSUME pc[u] # "exited", NEW p \in handles[AppOf[u]] PROVE Owns(AppOf[u], p)'
  <2>1. p \in Pipes
    BY <1>2, SoftwareBusAssumption DEF BusInv, TransferOK, ReportsOK
  <2>2. Minds(u, p) /\ Owns(AppOf[u], p)
    BY <1>1, <1>2 DEF WorkerOK, Minds
  <2> QED
    BY <2>1, <2>2, SameEntryLemma
<1>3. CASE pc[u] \in Receiving \/ loc[u].deleting
  <2>1. PICK y \in Pipes : y = loc[u].pipe
    BY <1>3, WorkerPipe
  <2>2. SameEntry(y) /\ (QueueOf(y)' = QueueOf(y) \/ \E r \in RouteIdxs : Listed(r, y))
    BY <1>3, <2>1, WorkersMind
  <2>3. HoldsNothing(y) /\ pc[u] \notin {"unsub", "walk"} /\ loc[u].deleting => HoldsNothing(y)'
    <3>1. SUFFICES ASSUME HoldsNothing(y), pc[u] \notin {"unsub", "walk"}, loc[u].deleting
                   PROVE  HoldsNothing(y)'
      OBVIOUS
    <3>2. \A r \in RouteIdxs : ~Listed(r, y)
      BY <2>1, <3>1 DEF OrderlyInv, TasksOK, DeleterOK
    <3>3. QueueOf(y)' = QueueOf(y)
      BY <2>2, <3>2
    <3> QED
      BY <2>2, <3>1, <3>3 DEF HoldsNothing, SameEntry
  <2>4. pc[u] = "deleted" => loc[u].deleting
    BY DEF BusInv, TransferOK, ControlOK, LocalsFit
  <2> QED
    BY <1>1, <1>2, <2>1, <2>2, <2>3, <2>4, SameEntryLemma DEF WorkerOK, SameEntry
<1>4. CASE ~(pc[u] \in Receiving \/ loc[u].deleting)
  <2>1. pc[u] \notin {"deleted", "rcvBegun", "rcvBlocked", "rcvRead"}
    BY <1>4 DEF BusInv, TransferOK, ControlOK, LocalsFit, Receiving
  <2> QED
    BY <1>1, <1>2, <1>4, <2>1 DEF WorkerOK
<1> QED
  BY <1>3, <1>4

(* A task outside CFE_SB_RcvMsg and not at the end of a deletion.          *)
LEMMA AwayOK ==
  ASSUME NEW t \in Tasks, pc'[t] \notin Receiving \cup {"deleted"},
         loc'[t].msg = NULL, loc'[t].timeout = "POLL",
         pc'[t] # "exited" => \A p \in handles'[AppOf[t]] : Owns(AppOf[t], p)'
  PROVE  WorkerOK(t)'
BY DEF WorkerOK, Receiving

LEMMA AwayLocals ==
  ASSUME WorkInv, NEW t \in Tasks, pc[t] \notin Receiving
  PROVE  loc[t].msg = NULL /\ loc[t].timeout = "POLL"
BY DEF WorkInv, WorkerOK, Receiving

(* A step of task t on pipes X, which nobody else is at work on.           *)
LEMMA WorkStep ==
  ASSUME OrderlyProgram, BusInv, OrderlyInv, WorkInv, NEW t \in Tasks, OthersStay(t),
         NEW X \in SUBSET Pipes,
         \A x \in X : (Minds(t, x) \/ ~ValidPipe(x)) /\ EntryOK(x)',
         \A p \in Pipes \ X : /\ SameEntry(p)
                              /\ QueueOf(p)' = QueueOf(p) \/ \E r \in RouteIdxs : Listed(r, p),
         \A u \in Tasks \ {t} : handles'[AppOf[u]] = handles[AppOf[u]],
         pc[t] \in Receiving => \/ loc[t].pipe \in X
                                \/ pc'[t] \in Receiving /\ loc'[t].pipe = loc[t].pipe,
         WorkerOK(t)', \A q \in QueueIds : QueueFits(q)'
  PROVE  WorkInv'
<1>1. ASSUME NEW u \in Tasks, u # t, NEW p \in Pipes, Minds(u, p)
      PROVE  p \notin X
  <2>1. ValidPipe(p)
    BY <1>1 DEF Minds, Owns
  <2> QED
    BY <1>1, <2>1, MindsAlone
<1>2. ASSUME NEW u \in Tasks, u # t PROVE WorkerOK(u)'
  BY <1>1, <1>2, WorkerKept DEF OthersStay
<1>3. ASSUME NEW p \in Pipes, p \notin X PROVE EntryOK(p)'
  <2>1. EntryOK(p) /\ SameEntry(p)
    BY <1>3 DEF WorkInv
  <2>2. ASSUME PipeTbl[p].ToTrashBuff # NULL
        PROVE  \E v \in Tasks : pc'[v] \in Receiving /\ loc'[v].pipe = p
    <3>1. PICK v \in Tasks : pc[v] \in Receiving /\ loc[v].pipe = p
      BY <2>1, <2>2 DEF EntryOK
    <3> QED
      BY <1>3, <3>1 DEF OthersStay
  <2> QED
    BY <2>1, <2>2, SameEntryLemma DEF EntryOK, SameEntry
<1> QED
  BY <1>2, <1>3 DEF WorkInv

-----------------------------------------------------------------------------
(* What is counted *)

(* CFE_SB_CreatePipe refuses a depth above CFE_PLATFORM_SB_MAX_PIPE_DEPTH,  *)
(* so that a queue and one reader's message fit a uint16.                   *)
ShortQueues == \A d \in Depths : d < U16 - 1

OpenIn(Q) == {q \in QueueIds : Q[q].open}
PlacesIn(Q, b) ==
  {s \in UNION {{q} \X DOMAIN Q[q].msgs : q \in OpenIn(Q)} : Q[s[1]].msgs[s[2]] = b}
Places(b) == PlacesIn(queue, b)
Holders(b) == {p \in Pipes : b \in {PipeTbl[p].CurrentBuff, PipeTbl[p].ToTrashBuff}}
Takers(b) == {t \in Tasks : loc[t].msg = b}

DepthsExact ==
  \A p \in Pipes : DepthInUse[p] = Len(QueueOf(p)) + Cardinality(InHand(p))

CountInv == BuffersRefCounted /\ DepthsExact /\ NoWedgedSubscription

LEMMA ReferencesParts ==
  \A b : References(b) = Cardinality(Places(b)) + Cardinality(Holders(b)) + Cardinality(Takers(b))
BY DEF References, Places, PlacesIn, OpenQueues, OpenIn, Holders, Takers

(* A buffer's places are the positions it has in open queues.              *)
LEMMA PlacesLemma ==
  ASSUME NEW Q, NEW b, NEW s
  PROVE  s \in PlacesIn(Q, b) <=>
           /\ s[1] \in OpenIn(Q) /\ s[2] \in DOMAIN Q[s[1]].msgs
           /\ s = <<s[1], s[2]>> /\ Q[s[1]].msgs[s[2]] = b
<1>1. ASSUME s \in PlacesIn(Q, b)
      PROVE  /\ s[1] \in OpenIn(Q) /\ s[2] \in DOMAIN Q[s[1]].msgs
             /\ s = <<s[1], s[2]>> /\ Q[s[1]].msgs[s[2]] = b
  <2>1. PICK q \in OpenIn(Q) : s \in {q} \X DOMAIN Q[q].msgs
    BY <1>1 DEF PlacesIn
  <2>2. s[1] = q /\ s[2] \in DOMAIN Q[q].msgs /\ s = <<s[1], s[2]>>
    BY <2>1
  <2> QED
    BY <1>1, <2>2 DEF PlacesIn
<1>2. ASSUME s[1] \in OpenIn(Q), s[2] \in DOMAIN Q[s[1]].msgs,
             s = <<s[1], s[2]>>, Q[s[1]].msgs[s[2]] = b
      PROVE  s \in PlacesIn(Q, b)
  <2>1. s \in {s[1]} \X DOMAIN Q[s[1]].msgs
    BY <1>2
  <2> QED
    BY <1>2, <2>1 DEF PlacesIn
<1> QED
  BY <1>1, <1>2

LEMMA QueueType ==
  ASSUME BusInv, NEW q \in QueueIds
  PROVE  /\ queue[q] \in QueueD /\ queue[q].msgs \in Seq(Bufs)
         /\ Len(queue[q].msgs) \in Nat /\ DOMAIN queue[q].msgs = 1 .. Len(queue[q].msgs)
         /\ queue[q].depth \in Nat
<1>1. queue[q] \in QueueD
  BY DEF BusInv, TransferOK, PipesOK
<1>2. queue[q].msgs \in Seq(Bufs) /\ queue[q].depth \in Nat
  BY <1>1 DEF QueueD
<1> QED
  BY <1>1, <1>2, LenProperties

LEMMA QueueOfType ==
  ASSUME BusInv, NEW p \in Pipes
  PROVE  /\ QueueOf(p) \in Seq(Bufs)
         /\ Len(QueueOf(p)) \in Nat /\ DOMAIN QueueOf(p) = 1 .. Len(QueueOf(p))
<1>1. PipeTbl[p].SysQueueId \in QueueIds \cup {NoQueue}
  BY BuffTypes DEF BusInv, TransferOK
<1>2. <<>> \in Seq(Bufs)
  OBVIOUS
<1>3. QueueOf(p) \in Seq(Bufs)
  BY <1>1, <1>2, QueueType DEF QueueOf
<1> QED
  BY <1>3, LenProperties

LEMMA QueueShort ==
  ASSUME BusInv, WorkInv, ShortQueues, NEW q \in QueueIds
  PROVE  Len(queue[q].msgs) < U16 - 1
<1>1. /\ Len(queue[q].msgs) \in Nat /\ queue[q].depth \in Nat
      /\ Len(queue[q].msgs) <= queue[q].depth
      /\ queue[q].depth \in Depths \/ queue[q].depth = 0
  BY QueueType DEF WorkInv, QueueFits
<1>2. queue[q].depth < U16 - 1
  BY <1>1 DEF ShortQueues, U16
<1>3. U16 - 1 \in Nat
  BY DEF U16
<1> HIDE DEF U16
<1> QED
  BY <1>1, <1>2, <1>3

LEMMA CountsFinite ==
  ASSUME BusInv, WorkInv, ShortQueues, NEW b
  PROVE  /\ IsFiniteSet(Places(b)) /\ Cardinality(Places(b)) \in Nat
         /\ IsFiniteSet(Holders(b)) /\ Cardinality(Holders(b)) \in Nat
         /\ IsFiniteSet(Takers(b)) /\ Cardinality(Takers(b)) \in Nat
<1>1. Holders(b) \in SUBSET Pipes /\ Takers(b) \in SUBSET Tasks
  BY DEF Holders, Takers
<1>2. IsFiniteSet(Holders(b)) /\ IsFiniteSet(Takers(b))
  BY <1>1, PipesFinite, FS_Subset, SoftwareBusAssumption
<1>3. IsFiniteSet(QueueIds \X (1 .. U16))
  <2>0. U16 \in Int /\ 1 \in Int
    BY DEF U16
  <2>1. IsFiniteSet(1 .. U16)
    BY <2>0, FS_Interval
  <2> QED
    BY <2>1, FS_Product, SoftwareBusAssumption
<1>4. ASSUME NEW s \in Places(b) PROVE s \in QueueIds \X (1 .. U16)
  <2>1. /\ s[1] \in QueueIds /\ s[2] \in DOMAIN queue[s[1]].msgs /\ s = <<s[1], s[2]>>
    BY <1>4, PlacesLemma DEF Places, OpenIn
  <2>2. s[2] \in 1 .. Len(queue[s[1]].msgs) /\ Len(queue[s[1]].msgs) < U16 - 1
        /\ Len(queue[s[1]].msgs) \in Nat
    BY <2>1, QueueType, QueueShort
  <2>3. s[2] \in 1 .. U16
    <3>1. U16 \in Nat
      BY DEF U16
    <3>2. ASSUME NEW n \in Nat, n < U16 - 1, NEW i \in 1 .. n PROVE i \in 1 .. U16
      BY <3>1, <3>2
    <3> QED
      BY <2>2, <3>2
  <2> QED
    BY <2>1, <2>3
<1>5. IsFiniteSet(Places(b))
  <2>1. Places(b) \in SUBSET (QueueIds \X (1 .. U16))
    BY <1>4
  <2> QED
    BY <1>3, <2>1, FS_Subset
<1> QED
  BY <1>2, <1>5, FS_CardinalityType

(* The positions a message id has in a pipe's queue, and its readers.       *)
Waiting(p, m) == {i \in DOMAIN QueueOf(p) : buf[QueueOf(p)[i]].MsgId = m}
Settling(p, m) == {t \in InHand(p) : buf[loc[t].msg].MsgId = m}

LEMMA TransitParts ==
  \A p, m : InTransit(p, m) = Cardinality(Waiting(p, m)) + Cardinality(Settling(p, m))
BY DEF InTransit, Waiting, Settling

LEMMA TransitFinite ==
  ASSUME BusInv, NEW p \in Pipes, NEW m
  PROVE  /\ IsFiniteSet(Waiting(p, m)) /\ Cardinality(Waiting(p, m)) \in Nat
         /\ IsFiniteSet(Settling(p, m)) /\ Cardinality(Settling(p, m)) \in Nat
         /\ IsFiniteSet(InHand(p)) /\ Cardinality(InHand(p)) \in Nat
         /\ InTransit(p, m) \in Nat
<1>1. IsFiniteSet(1 .. Len(QueueOf(p)))
  BY QueueOfType, FS_Interval
<1>2. Waiting(p, m) \in SUBSET (1 .. Len(QueueOf(p)))
  BY QueueOfType DEF Waiting
<1>3. Settling(p, m) \in SUBSET Tasks /\ InHand(p) \in SUBSET Tasks
  BY DEF Settling, InHand
<1>4. IsFiniteSet(Waiting(p, m)) /\ IsFiniteSet(Settling(p, m)) /\ IsFiniteSet(InHand(p))
  BY <1>1, <1>2, <1>3, FS_Subset, SoftwareBusAssumption
<1>5. /\ Cardinality(Waiting(p, m)) \in Nat /\ Cardinality(Settling(p, m)) \in Nat
      /\ Cardinality(InHand(p)) \in Nat
  BY <1>4, FS_CardinalityType
<1>6. InTransit(p, m) = Cardinality(Waiting(p, m)) + Cardinality(Settling(p, m))
  BY TransitParts
<1> QED
  BY <1>4, <1>5, <1>6

(* A node counts nothing, or what a node of that pipe and id counted.       *)
CountsDown ==
  \A r \in RouteIdxs : \A i \in DOMAIN RoutingTbl'[r].ListHeadPtr :
    LET d == RoutingTbl'[r].ListHeadPtr[i]
    IN \/ d.BuffCount = 0
       \/ /\ RoutingTbl'[r].MsgId = RoutingTbl[r].MsgId
          /\ \E j \in DOMAIN RoutingTbl[r].ListHeadPtr :
               /\ RoutingTbl[r].ListHeadPtr[j].PipeId = d.PipeId
               /\ RoutingTbl[r].ListHeadPtr[j].BuffCount = d.BuffCount

LEMMA NodeType ==
  ASSUME NEW R \in [RouteIdxs -> RouteEntry], NEW r \in RouteIdxs,
         NEW i \in DOMAIN R[r].ListHeadPtr
  PROVE  /\ R[r].ListHeadPtr[i] \in Dest
         /\ R[r].ListHeadPtr[i].PipeId \in Pipes
         /\ R[r].ListHeadPtr[i].BuffCount \in Nat
<1>1. R[r].ListHeadPtr \in Seq(Dest)
  BY DEF RouteEntry
<1>2. R[r].ListHeadPtr[i] \in Dest
  BY <1>1, LenProperties, ElementOfSeq
<1> QED
  BY <1>2 DEF Dest

OpenMsgs(q) == IF queue[q].open THEN queue[q].msgs ELSE <<>>

(* A step that moves no message.                                           *)
LEMMA CalmStep ==
  ASSUME BusInv, BusInv', CountInv, CountsDown, UNCHANGED buf,
         \A q \in QueueIds : OpenMsgs(q)' = OpenMsgs(q),
         \A p \in Pipes : /\ QueueOf(p)' = QueueOf(p) /\ DepthInUse'[p] = DepthInUse[p]
                          /\ \A b \in Bufs :
                               b \in {PipeTbl'[p].CurrentBuff, PipeTbl'[p].ToTrashBuff}
                               <=> b \in {PipeTbl[p].CurrentBuff, PipeTbl[p].ToTrashBuff},
         \A u \in Tasks : /\ loc'[u].msg = loc[u].msg
                          /\ loc[u].msg # NULL => loc'[u].pipe = loc[u].pipe
  PROVE  CountInv'
<1>1. ASSUME NEW b \in Bufs PROVE buf'[b].UseCount = References(b)'
  <2>1. ASSUME NEW s PROVE s \in PlacesIn(queue', b) <=> s \in PlacesIn(queue, b)
    <3>1. DOMAIN <<>> = {}
      OBVIOUS
    <3>2. \A q \in QueueIds : \A i :
            /\ q \in OpenIn(queue) /\ i \in DOMAIN queue[q].msgs /\ queue[q].msgs[i] = b
               <=> i \in DOMAIN OpenMsgs(q) /\ OpenMsgs(q)[i] = b
            /\ q \in OpenIn(queue') /\ i \in DOMAIN queue'[q].msgs /\ queue'[q].msgs[i] = b
               <=> i \in DOMAIN OpenMsgs(q)' /\ OpenMsgs(q)'[i] = b
      BY <3>1 DEF OpenIn, OpenMsgs
    <3>3. \A Q, q : q \in OpenIn(Q) => q \in QueueIds
      BY DEF OpenIn
    <3>4. /\ s \in PlacesIn(queue', b) <=>
               /\ s[1] \in OpenIn(queue') /\ s[2] \in DOMAIN queue'[s[1]].msgs
               /\ s = <<s[1], s[2]>> /\ queue'[s[1]].msgs[s[2]] = b
          /\ s \in PlacesIn(queue, b) <=>
               /\ s[1] \in OpenIn(queue) /\ s[2] \in DOMAIN queue[s[1]].msgs
               /\ s = <<s[1], s[2]>> /\ queue[s[1]].msgs[s[2]] = b
      BY PlacesLemma
    <3> QED
      BY <3>2, <3>3, <3>4
  <2>2. Places(b)' = Places(b)
    BY <2>1 DEF Places
  <2>3. Holders(b)' = Holders(b) /\ Takers(b)' = Takers(b)
    BY DEF Holders, Takers
  <2>4. References(b)' = References(b)
    BY <2>2, <2>3 DEF References, Places, PlacesIn, OpenIn, OpenQueues, Holders, Takers
  <2> QED
    BY <2>4 DEF CountInv, BuffersRefCounted
<1>2. ASSUME NEW p \in Pipes PROVE InHand(p)' = InHand(p)
  BY DEF InHand
<1>3. ASSUME NEW p \in Pipes, NEW m PROVE InTransit(p, m)' = InTransit(p, m)
  BY <1>2 DEF InTransit, InHand
<1>4. DepthsExact'
  BY <1>2 DEF CountInv, DepthsExact
<1>5. NoWedgedSubscription'
  <2>1. ASSUME NEW r \in RouteIdxs, NEW i \in DOMAIN RoutingTbl'[r].ListHeadPtr,
               NEW d, d = RoutingTbl'[r].ListHeadPtr[i], NEW m, m = RoutingTbl'[r].MsgId
        PROVE  d.BuffCount <= InTransit(d.PipeId, m)'
    <3>1. d.PipeId \in Pipes
      BY <2>1, NodeType DEF BusInv, RouteInv, RouteTypeOK
    <3>2. /\ InTransit(d.PipeId, m)' = InTransit(d.PipeId, m)
          /\ InTransit(d.PipeId, m) \in Nat
      BY <1>3, <3>1, TransitFinite
    <3>3. CASE d.BuffCount = 0
      BY <3>2, <3>3
    <3>4. CASE d.BuffCount # 0
      BY <2>1, <3>2, <3>4 DEF CountsDown, CountInv, NoWedgedSubscription
    <3> QED
      BY <3>3, <3>4
  <2> QED
    BY <2>1 DEF NoWedgedSubscription
<1> QED
  BY <1>1, <1>4, <1>5 DEF CountInv, BuffersRefCounted

-----------------------------------------------------------------------------
(* What the routing operations do to the counts of messages in transit *)

LEMMA CountsDownEntry ==
  ASSUME RouteInv, NEW r \in RouteIdxs, NEW e, RoutingTbl' = [RoutingTbl EXCEPT ![r] = e],
         \A i \in DOMAIN e.ListHeadPtr :
           \/ e.ListHeadPtr[i].BuffCount = 0
           \/ /\ e.MsgId = RoutingTbl[r].MsgId
              /\ \E j \in DOMAIN RoutingTbl[r].ListHeadPtr :
                   /\ RoutingTbl[r].ListHeadPtr[j].PipeId = e.ListHeadPtr[i].PipeId
                   /\ RoutingTbl[r].ListHeadPtr[j].BuffCount = e.ListHeadPtr[i].BuffCount
  PROVE  CountsDown
<1>1. \A k \in RouteIdxs : RoutingTbl'[k] = IF k = r THEN e ELSE RoutingTbl[k]
  BY DEF RouteInv, RouteTypeOK
<1> QED
  BY <1>1 DEF CountsDown

LEMMA CountsSame == ASSUME UNCHANGED routeVars PROVE CountsDown
BY DEF CountsDown, routeVars

(* A route that is claimed for a message id has no destinations yet.        *)
LEMMA ClaimedEmpty ==
  ASSUME RouteInv, NEW m \in MsgIds, NEW p \in Pipes, SubscribeAdmits(m, p),
         ClaimRoute(m), UNCHANGED RouteIdxStack
  PROVE  RouteFor(m) \in RouteIdxs
         /\ (IsMapped(m) \/ RoutingTbl[RouteFor(m)].ListHeadPtr = <<>>)
<1>1. RouteFor(m) \in RouteIdxs /\ \A n \in MappedIds : n # m => MsgMap[n] # RouteFor(m)
  BY AdmittedRoute
<1>2. ASSUME ~IsMapped(m) PROVE RouteFor(m) \notin MappedIdxs
  BY <1>1, <1>2 DEF MappedIdxs, MappedIds
<1> QED
  BY <1>1, <1>2 DEF RouteInv, RoutesWellFormed

LEMMA CountsAdd ==
  ASSUME RouteInv, NEW m \in MsgIds, NEW p \in Pipes, NEW lim \in MsgLims,
         NEW scope \in Scopes, AddSubscription(m, p, lim, scope)
  PROVE  CountsDown
<1> DEFINE r == RouteFor(m)
           list == RoutingTbl[r].ListHeadPtr
           d == NewDest(p, lim, scope)
           new == AddDest(list, d)
           e == [RoutingTbl[r] EXCEPT
                   !.MsgId = IF IsMapped(m) THEN RoutingTbl[r].MsgId ELSE m,
                   !.Destinations = RoutingTbl[r].Destinations + 1,
                   !.ListHeadPtr = new]
<1>1. SubscribeAdmits(m, p) /\ ClaimRoute(m) /\ UNCHANGED RouteIdxStack
      /\ RoutingTbl' = [RoutingTbl EXCEPT ![r] = e]
  BY DEF AddSubscription
<1>2. r \in RouteIdxs /\ (IsMapped(m) \/ list = <<>>)
  BY <1>1, ClaimedEmpty
<1>3. RoutingTbl[r] \in RouteEntry /\ list \in Seq(Dest)
  BY <1>2, EntryLemma
<1>4. d \in Dest /\ d.BuffCount = 0
  BY DEF NewDest, Dest
<1>5. new \in Seq(Dest) /\ Len(new) = Len(list) + 1 /\ new[1] = d
      /\ \A i \in 1 .. Len(list) : new[i + 1] = list[i]
  BY <1>3, <1>4, AddDestLemma
<1>6. /\ Len(list) \in Nat /\ DOMAIN list = 1 .. Len(list)
      /\ DOMAIN new = 1 .. Len(list) + 1
  BY <1>3, <1>5, LenProperties
<1>7. e.ListHeadPtr = new /\ (IsMapped(m) => e.MsgId = RoutingTbl[r].MsgId)
  <2> HIDE DEF r, new
  <2> QED
    BY <1>3 DEF RouteEntry
<1>8. Len(<<>>) = 0
  OBVIOUS
<1>9. ASSUME NEW i \in DOMAIN new
      PROVE  \/ new[i].BuffCount = 0
             \/ IsMapped(m) /\ \E j \in DOMAIN list : list[j] = new[i]
  <2> HIDE DEF list, new, d
  <2>1. CASE i = 1
    BY <1>4, <1>5, <2>1
  <2>2. CASE i # 1
    <3>1. i - 1 \in 1 .. Len(list) /\ (i - 1) + 1 = i
      BY <1>6, <2>2
    <3>2. new[i] = list[i - 1]
      BY <1>5, <3>1
    <3>3. list # <<>>
      BY <1>6, <1>8, <3>1
    <3> QED
      BY <1>2, <1>6, <3>1, <3>2, <3>3
  <2> QED
    BY <2>1, <2>2
<1> HIDE DEF e, new, r
<1> QED
  BY <1>1, <1>2, <1>7, <1>9, CountsDownEntry

LEMMA CountsNoBlock ==
  ASSUME RouteInv, NEW m \in MsgIds, NEW p \in Pipes, SubscribeNoBlock(m, p)
  PROVE  CountsDown
<1> DEFINE r == RouteFor(m)
           e == [RoutingTbl[r] EXCEPT
                   !.MsgId = IF IsMapped(m) THEN RoutingTbl[r].MsgId ELSE m]
<1>1. SubscribeAdmits(m, p) /\ ClaimRoute(m) /\ UNCHANGED RouteIdxStack
      /\ RoutingTbl' = [RoutingTbl EXCEPT ![r] = e]
  BY DEF SubscribeNoBlock
<1>2. r \in RouteIdxs /\ (IsMapped(m) \/ RoutingTbl[r].ListHeadPtr = <<>>)
  BY <1>1, ClaimedEmpty
<1> HIDE DEF r
<1>3. e.ListHeadPtr = RoutingTbl[r].ListHeadPtr
      /\ (IsMapped(m) => e.MsgId = RoutingTbl[r].MsgId)
  BY <1>2, EntryLemma DEF RouteEntry
<1>4. DOMAIN <<>> = {}
  OBVIOUS
<1> HIDE DEF e
<1> QED
  BY <1>1, <1>2, <1>3, <1>4, CountsDownEntry

LEMMA CountsRemove ==
  ASSUME RouteInv, NEW m \in MsgIds, NEW p \in Pipes, RemoveSubscription(m, p)
  PROVE  CountsDown
<1> DEFINE r == MsgMap[m]
           list == RoutingTbl[r].ListHeadPtr
           pos == DestPos(list, p)
           new == RemoveDest(list, pos)
           e == [RoutingTbl[r] EXCEPT
                   !.Destinations = RoutingTbl[r].Destinations - 1,
                   !.ListHeadPtr = new]
<1>1. CASE ~HasDest(list, p)
  BY <1>1, CountsSame DEF RemoveSubscription
<1>2. CASE HasDest(list, p)
  <2>1. IsMapped(m) /\ RoutingTbl' = [RoutingTbl EXCEPT ![r] = e]
    BY <1>2 DEF RemoveSubscription
  <2>2. r \in RouteIdxs
    BY <2>1, MappedRoute
  <2>3. RoutingTbl[r] \in RouteEntry /\ list \in Seq(Dest) /\ NoDup(list)
    BY <2>2, EntryLemma
  <2>4. pos \in DOMAIN list
    BY <1>2, <2>3, DestPosLemma
  <2>5. /\ new \in Seq(Dest) /\ Len(new) = Len(list) - 1
        /\ \A j \in 1 .. Len(list) - 1 : new[j] = IF j < pos THEN list[j] ELSE list[j + 1]
    <3> HIDE DEF list, pos
    <3> QED
      BY <2>3, <2>4, RemoveDestLemma
  <2>6. /\ Len(list) \in Nat /\ DOMAIN list = 1 .. Len(list)
        /\ DOMAIN new = 1 .. Len(list) - 1
    BY <2>3, <2>5, LenProperties
  <2> HIDE DEF r, new, list, pos
  <2>7. e.ListHeadPtr = new /\ e.MsgId = RoutingTbl[r].MsgId
    BY <2>3 DEF RouteEntry
  <2>8. ASSUME NEW i \in DOMAIN new PROVE \E j \in DOMAIN list : list[j] = new[i]
    <3>1. i \in DOMAIN list /\ i + 1 \in DOMAIN list
      BY <2>6
    <3> QED
      BY <2>5, <2>6, <3>1
  <2> HIDE DEF e
  <2> QED
    BY <2>1, <2>2, <2>7, <2>8, CountsDownEntry DEF list
<1> QED
  BY <1>1, <1>2

LEMMA CountsSetActive ==
  ASSUME RouteInv, NEW m \in MsgIds, NEW p \in Pipes, NEW active \in BOOLEAN,
         SetActive(m, p, active)
  PROVE  CountsDown
<1> DEFINE r == MsgMap[m]
           list == RoutingTbl[r].ListHeadPtr
           pos == DestPos(list, p)
           d == [list[pos] EXCEPT !.Active = active]
           new == [list EXCEPT ![pos] = d]
           e == [RoutingTbl[r] EXCEPT !.ListHeadPtr = new]
<1>1. r \in RouteIdxs /\ pos \in DOMAIN list /\ list[pos] \in Dest
  BY SubscribedNode DEF SetActive
<1>2. RoutingTbl' = [RoutingTbl EXCEPT ![r] = e]
  BY DEF SetActive
<1>3. d.PipeId = list[pos].PipeId /\ d.BuffCount = list[pos].BuffCount
  BY <1>1 DEF Dest
<1>4. RoutingTbl[r] \in RouteEntry
  BY <1>1, EntryLemma
<1>5. e.ListHeadPtr = new /\ e.MsgId = RoutingTbl[r].MsgId
  <2> HIDE DEF r, new
  <2> QED
    BY <1>4 DEF RouteEntry
<1> HIDE DEF d, pos, r
<1>6. ASSUME NEW i \in DOMAIN new
      PROVE  i \in DOMAIN list /\ list[i].PipeId = new[i].PipeId
             /\ list[i].BuffCount = new[i].BuffCount
  BY <1>1, <1>3, <1>6
<1> HIDE DEF e, new
<1> QED
  BY <1>1, <1>2, <1>5, <1>6, CountsDownEntry

-----------------------------------------------------------------------------
(* Steps that touch no pipe and no message *)

SettledInv == WorkInv /\ CountInv

(* Everything a transfer depends on stays as it is.                        *)
Untouched ==
  /\ \A p \in Pipes : SameEntry(p)
  /\ UNCHANGED <<queue, buf, DepthInUse, handles>>

LEMMA UntouchedQueues ==
  ASSUME Untouched
  PROVE  /\ \A p \in Pipes : QueueOf(p)' = QueueOf(p)
         /\ \A q \in QueueIds : OpenMsgs(q)' = OpenMsgs(q)
         /\ WorkInv => \A q \in QueueIds : QueueFits(q)'
BY DEF Untouched, SameEntry, QueueOf, OpenMsgs, WorkInv, QueueFits

LEMMA UntouchedCounts ==
  ASSUME BusInv, BusInv', CountInv, Untouched, CountsDown,
         \A u \in Tasks : /\ loc'[u].msg = loc[u].msg
                          /\ loc[u].msg # NULL => loc'[u].pipe = loc[u].pipe
  PROVE  CountInv'
<1>1. \A p \in Pipes : QueueOf(p)' = QueueOf(p)
  BY UntouchedQueues
<1>2. \A q \in QueueIds : OpenMsgs(q)' = OpenMsgs(q)
  BY UntouchedQueues
<1>3. ASSUME NEW p \in Pipes
      PROVE  /\ PipeTbl'[p].CurrentBuff = PipeTbl[p].CurrentBuff
             /\ PipeTbl'[p].ToTrashBuff = PipeTbl[p].ToTrashBuff
  BY DEF Untouched, SameEntry
<1>4. UNCHANGED <<buf, DepthInUse>>
  BY DEF Untouched
<1> QED
  BY <1>1, <1>2, <1>3, <1>4, CalmStep

(* The ground commands, and the calls that are over at their unlock.        *)
LEMMA StayStep ==
  ASSUME OrderlyProgram, BusInv, BusInv', OrderlyInv, SettledInv, Stay, Untouched, CountsDown
  PROVE  SettledInv'
<1>1. pc' = pc /\ loc' = loc /\ UNCHANGED handles /\ \A p \in Pipes : SameEntry(p)
  BY DEF Stay, Untouched
<1>2. \A p \in Pipes : QueueOf(p)' = QueueOf(p)
  BY UntouchedQueues
<1>3. \A u \in Tasks : WorkerOK(u)'
  BY <1>1, <1>2, WorkerKept DEF SettledInv
<1>4. \A p \in Pipes : EntryOK(p)'
  BY <1>1, SameEntryLemma DEF SettledInv, WorkInv, EntryOK, SameEntry
<1>5. WorkInv'
  BY <1>3, <1>4, UntouchedQueues DEF SettledInv, WorkInv
<1>6. CountInv'
  BY <1>1, UntouchedCounts DEF SettledInv
<1> QED
  BY <1>5, <1>6 DEF SettledInv

(* A task that goes from one place outside CFE_SB_RcvMsg to another.        *)
LEMMA AwayStep ==
  ASSUME OrderlyProgram, BusInv, BusInv', OrderlyInv, SettledInv, Untouched, CountsDown,
         NEW t \in Tasks, NEW there, NEW l, Goto(t, there, l),
         there \notin Receiving \cup {"deleted"}, pc[t] \notin Receiving \cup {"exited"},
         l.msg = NULL, l.timeout = "POLL"
  PROVE  SettledInv'
<1>1. OthersStay(t) /\ pc'[t] = there /\ loc'[t] = l
  BY GotoFacts
<1>2. UNCHANGED handles /\ \A p \in Pipes : SameEntry(p)
  BY DEF Untouched
<1>3. \A p \in handles[AppOf[t]] : p \in Pipes /\ Owns(AppOf[t], p)
  BY SoftwareBusAssumption DEF SettledInv, WorkInv, WorkerOK, BusInv, TransferOK, ReportsOK
<1>4. WorkerOK(t)'
  <2>1. \A p \in handles'[AppOf[t]] : Owns(AppOf[t], p)'
    BY <1>2, <1>3, SameEntryLemma
  <2> QED
    BY <1>1, <2>1, AwayOK
<1>5. WorkInv'
  <2>1. {} \in SUBSET Pipes /\ WorkInv
    BY DEF SettledInv
  <2>2. \A p \in Pipes \ {} : SameEntry(p) /\ QueueOf(p)' = QueueOf(p)
    BY <1>2, UntouchedQueues
  <2>3. \A q \in QueueIds : QueueFits(q)'
    BY <2>1, UntouchedQueues
  <2> QED
    BY <1>1, <1>2, <1>4, <2>1, <2>2, <2>3, WorkStep
<1>6. CountInv'
  <2>1. loc[t].msg = NULL
    BY AwayLocals DEF SettledInv
  <2>2. \A u \in Tasks : /\ loc'[u].msg = loc[u].msg
                         /\ loc[u].msg # NULL => loc'[u].pipe = loc[u].pipe
    BY <1>1, <2>1 DEF OthersStay
  <2> QED
    BY <2>2, UntouchedCounts DEF SettledInv
<1> QED
  BY <1>5, <1>6 DEF SettledInv

LEMMA UntouchedAll ==
  ASSUME UNCHANGED <<PipeTbl, queue, buf, DepthInUse, handles>>
  PROVE  Untouched
BY DEF Untouched, SameEntry

LEMMA NoLocAway == NoLoc.msg = NULL /\ NoLoc.timeout = "POLL"
BY DEF NoLoc

LEMMA ReportSettled ==
  ASSUME OrderlyProgram, BusInv, BusInv', OrderlyInv, SettledInv, Untouched, CountsDown,
         NEW t \in Tasks, pc[t] = "idle", NEW m, NEW p, NEW scope, NEW type,
         Report(t, m, p, scope, type) \/ Stay \/ Goto(t, "fault", NoLoc)
  PROVE  SettledInv'
<1> DEFINE r == [MsgId |-> m, Pipe |-> p, SubType |-> type]
           l == [NoLoc EXCEPT !.report = r]
<1>1. l.msg = NULL /\ l.timeout = "POLL"
  BY DEF NoLoc
<1> HIDE DEF l
<1>2. Goto(t, "report", l) \/ Stay \/ Goto(t, "fault", NoLoc)
  BY DEF Report, l
<1>3. pc[t] \notin Receiving \cup {"exited"}
      /\ {"report", "fault"} \cap (Receiving \cup {"deleted"}) = {}
  BY DEF Receiving
<1> QED
  BY <1>1, <1>2, <1>3, NoLocAway, AwayStep, StayStep

LEMMA SubscribeSettled ==
  ASSUME OrderlyProgram, BusInv, BusInv', OrderlyInv, SettledInv, NEW t \in Tasks,
         NEW m \in MsgIds, NEW p \in Pipes, NEW lim \in MsgLims, NEW scope \in Scopes,
         Subscribe(t, m, p, lim, scope)
  PROVE  SettledInv'
<1>1. pc[t] = "idle" /\ UNCHANGED <<PipeTbl, queue, buf, DepthInUse, handles>>
  BY DEF Subscribe, Calls, pipeVars
<1>2. CountsDown
  BY CountsAdd, CountsNoBlock DEF Subscribe, BusInv
<1>3. Report(t, m, p, scope, "SUB") \/ Stay
  BY DEF Subscribe
<1> QED
  BY <1>1, <1>2, <1>3, UntouchedAll, ReportSettled

LEMMA UnsubscribeFullCounts ==
  ASSUME RouteInv, NEW m \in MsgIds \cup {NoMsgId}, NEW p \in Pipes, NEW a,
         UnsubscribeFull(m, p, a)
  PROVE  CountsDown
<1>1. CASE Owns(a, p) /\ m # NoMsgId /\ IsMapped(m)
  BY <1>1, CountsRemove DEF UnsubscribeFull
<1>2. CASE ~(Owns(a, p) /\ m # NoMsgId /\ IsMapped(m))
  BY <1>2, CountsSame DEF UnsubscribeFull
<1> QED
  BY <1>1, <1>2

LEMMA UnsubscribeSettled ==
  ASSUME OrderlyProgram, BusInv, BusInv', OrderlyInv, SettledInv, NEW t \in Tasks,
         NEW m \in MsgIds, NEW p \in Pipes, NEW scope \in Scopes, Unsubscribe(t, m, p, scope)
  PROVE  SettledInv'
<1>1. pc[t] = "idle" /\ UNCHANGED <<PipeTbl, queue, buf, DepthInUse, handles>>
  BY DEF Unsubscribe, Calls, pipeVars
<1>2. UNCHANGED routeVars \/ UnsubscribeFull(m, p, AppOf[t])
  BY DEF Unsubscribe
<1>3. CountsDown
  BY <1>2, UnsubscribeFullCounts, CountsSame DEF BusInv
<1>4. Report(t, m, p, scope, "UNSUB") \/ Stay \/ Goto(t, "fault", NoLoc)
  BY DEF Unsubscribe
<1> QED
  BY <1>1, <1>3, <1>4, UntouchedAll, ReportSettled

LEMMA SetPipeOptsSettled ==
  ASSUME OrderlyProgram, BusInv, BusInv', OrderlyInv, SettledInv, NEW t \in Tasks,
         NEW p \in Pipes, NEW o \in BOOLEAN, SetPipeOpts(t, p, o)
  PROVE  SettledInv'
<1> DEFINE e == [PipeTbl[p] EXCEPT !.IgnoreMine = o]
<1>1. /\ PipeTbl' = [PipeTbl EXCEPT ![p] = e] /\ Stay
      /\ UNCHANGED <<routeVars, queue, buf, DepthInUse, handles>>
  BY DEF SetPipeOpts
<1>2. /\ e.InUse = PipeTbl[p].InUse /\ e.AppId = PipeTbl[p].AppId
      /\ e.SysQueueId = PipeTbl[p].SysQueueId
      /\ e.CurrentBuff = PipeTbl[p].CurrentBuff /\ e.ToTrashBuff = PipeTbl[p].ToTrashBuff
  BY BuffTypes DEF BusInv, TransferOK, PipeD
<1> HIDE DEF e
<1>3. \A x \in Pipes : PipeTbl'[x] = IF x = p THEN e ELSE PipeTbl[x]
  BY <1>1 DEF BusInv, TransferOK, PipesOK
<1>4. Untouched
  BY <1>1, <1>2, <1>3 DEF Untouched, SameEntry
<1> QED
  BY <1>1, <1>4, CountsSame, StayStep

LEMMA GroundCommandSettled ==
  ASSUME OrderlyProgram, BusInv, BusInv', OrderlyInv, SettledInv,
         \/ \E m \in MsgIds, p \in Pipes, active \in BOOLEAN : RouteCmd(m, p, active)
         \/ \E state \in BOOLEAN : SetSubscriptionReporting(state)
         \/ UNCHANGED vars
  PROVE  SettledInv'
<1>1. Stay /\ UNCHANGED <<PipeTbl, queue, buf, DepthInUse, handles>>
  BY DEF RouteCmd, SetSubscriptionReporting, vars, Stay, pipeVars
<1>2. CountsDown
  BY CountsSetActive, CountsSame DEF RouteCmd, SetSubscriptionReporting, vars, BusInv
<1> QED
  BY <1>1, <1>2, UntouchedAll, StayStep

LEMMA ExitAppSettled ==
  ASSUME OrderlyProgram, BusInv, BusInv', OrderlyInv, SettledInv, NEW t \in Tasks, ExitApp(t)
  PROVE  SettledInv'
<1>1. /\ pc[t] = "idle" /\ Goto(t, "exited", NoLoc)
      /\ UNCHANGED <<routeVars, PipeTbl, queue, buf, DepthInUse, handles>>
  BY DEF ExitApp, Calls, pipeVars
<1> QED
  BY <1>1, CountsSame, UntouchedAll, NoLocAway, AwayStep DEF Receiving

LEMMA CleanUpAppSettled ==
  ASSUME OrderlyProgram, BusInv, BusInv', OrderlyInv, SettledInv, NEW a \in Apps, CleanUpApp(a)
  PROVE  SettledInv'
<1> DEFINE l == [NoLoc EXCEPT !.app = a, !.cursor = 0]
<1>1. /\ pc[ES] = "idle" /\ Goto(ES, "cleaning", l)
      /\ UNCHANGED <<routeVars, PipeTbl, queue, buf, DepthInUse, handles>>
  BY DEF CleanUpApp, Calls, pipeVars
<1>2. l.msg = NULL /\ l.timeout = "POLL"
  BY DEF NoLoc
<1> HIDE DEF l
<1> QED
  BY <1>1, <1>2, CountsSame, UntouchedAll, AwayStep, SoftwareBusAssumption DEF Receiving

LEMMA DeleteUnsubscribeSettled ==
  ASSUME OrderlyProgram, BusInv, BusInv', OrderlyInv, SettledInv, NEW t \in Tasks,
         DeleteUnsubscribe(t)
  PROVE  SettledInv'
<1> DEFINE m == RoutingTbl[loc[t].idx].MsgId
           l == [loc[t] EXCEPT !.idx = loc[t].idx + 1]
<1>1. pc[t] = "unsub" /\ UNCHANGED <<PipeTbl, queue, buf, DepthInUse, handles>>
  BY DEF DeleteUnsubscribe, pipeVars
<1>2. loc[t] \in Locals /\ loc[t].idx \in RouteIdxs /\ loc[t].pipe \in Pipes
  BY <1>1 DEF BusInv, TransferOK, ControlOK, LocalsFit
<1>3. m \in MsgIds \cup {NoMsgId}
  BY <1>2 DEF BusInv, RouteInv, RouteTypeOK, RouteEntry
<1>4. l.msg = NULL /\ l.timeout = "POLL"
  BY <1>1, <1>2, AwayLocals DEF Locals, Receiving, SettledInv
<1>5. /\ UNCHANGED routeVars \/ UnsubscribeFull(m, loc[t].pipe, loc[t].app)
      /\ Goto(t, "fault", NoLoc) \/ Goto(t, "walk", l)
  BY DEF DeleteUnsubscribe
<1> HIDE DEF m, l
<1>6. CountsDown
  BY <1>2, <1>3, <1>5, UnsubscribeFullCounts, CountsSame DEF BusInv
<1> QED
  BY <1>1, <1>4, <1>5, <1>6, UntouchedAll, NoLocAway, AwayStep DEF Receiving

(* The walk of CFE_SB_DeletePipeFull: what it releases at its end is        *)
(* nothing, because nobody is in CFE_SB_RcvMsg on that pipe.                *)
LEMMA WalkFromSettled ==
  ASSUME OrderlyProgram, BusInv, BusInv', OrderlyInv, SettledInv, NEW t \in Tasks,
         NEW p \in Pipes, NEW i, NEW l \in Locals, Minds(t, p),
         pc[t] \notin Receiving \cup {"exited"}, l.msg = NULL, l.timeout = "POLL",
         WalkFrom(t, p, i, l), UNCHANGED <<routeVars, DepthInUse, queue, handles>>
  PROVE  SettledInv'
<1>1. PipeTbl[p].ToTrashBuff = NULL
  BY NothingToTrash DEF SettledInv
<1>2. CASE RoutesListing(p, i) # {}
  <2> DEFINE k == [l EXCEPT !.idx = Min(RoutesListing(p, i))]
  <2>1. Goto(t, "unsub", k) /\ UNCHANGED <<PipeTbl, buf>>
    BY <1>2 DEF WalkFrom
  <2>2. k.msg = NULL /\ k.timeout = "POLL"
    BY DEF Locals
  <2> HIDE DEF k
  <2> QED
    BY <2>1, <2>2, CountsSame, UntouchedAll, AwayStep DEF Receiving
<1>3. CASE RoutesListing(p, i) = {}
  <2> DEFINE k == [l EXCEPT !.idx = 0]
             e == [PipeTbl[p] EXCEPT !.ToTrashBuff = NULL]
  <2>1. /\ Goto(t, "drain", k) /\ buf' = DecrBufUseCnt(buf, NULL)
        /\ PipeTbl' = [PipeTbl EXCEPT ![p] = e]
    BY <1>1, <1>3 DEF WalkFrom
  <2>2. k.msg = NULL /\ k.timeout = "POLL"
    BY DEF Locals
  <2>3. UNCHANGED buf
    BY <2>1 DEF DecrBufUseCnt
  <2>4. /\ e.InUse = PipeTbl[p].InUse /\ e.AppId = PipeTbl[p].AppId
        /\ e.SysQueueId = PipeTbl[p].SysQueueId
        /\ e.CurrentBuff = PipeTbl[p].CurrentBuff /\ e.ToTrashBuff = PipeTbl[p].ToTrashBuff
    BY <1>1, BuffTypes DEF BusInv, TransferOK, PipeD
  <2> HIDE DEF k, e
  <2>5. \A x \in Pipes : PipeTbl'[x] = IF x = p THEN e ELSE PipeTbl[x]
    BY <2>1 DEF BusInv, TransferOK, PipesOK
  <2>6. Untouched
    BY <2>3, <2>4, <2>5 DEF Untouched, SameEntry
  <2> QED
    BY <2>1, <2>2, <2>6, CountsSame, AwayStep DEF Receiving
<1> QED
  BY <1>2, <1>3

LEMMA DeletePipeSettled ==
  ASSUME OrderlyProgram, BusInv, BusInv', OrderlyInv, SettledInv, NEW t \in Tasks,
         NEW p \in Pipes, DeletePipe(t, p)
  PROVE  SettledInv'
<1> DEFINE l == [NoLoc EXCEPT !.pipe = p, !.app = AppOf[t], !.deleting = TRUE]
<1>1. /\ WalkFrom(t, p, 0, l) /\ pc[t] = "idle" /\ p \in handles[AppOf[t]]
      /\ UNCHANGED <<routeVars, DepthInUse, queue, handles>>
  BY DEF DeletePipe, Calls
<1>2. NoLoc \in Locals /\ AppOf[t] \in Apps
  BY IdleLemma, SoftwareBusAssumption
<1>3. l \in Locals /\ l.msg = NULL /\ l.timeout = "POLL"
  BY <1>2, NoLocAway DEF Locals
<1> HIDE DEF l
<1>4. Minds(t, p)
  BY <1>1, CallerMinds DEF SettledInv
<1> QED
  BY <1>1, <1>3, <1>4, WalkFromSettled DEF Receiving

LEMMA DeleteWalkSettled ==
  ASSUME OrderlyProgram, BusInv, BusInv', OrderlyInv, SettledInv, NEW t \in Tasks, DeleteWalk(t)
  PROVE  SettledInv'
<1>1. /\ pc[t] = "walk" /\ WalkFrom(t, loc[t].pipe, loc[t].idx, loc[t])
      /\ UNCHANGED <<routeVars, DepthInUse, queue, handles>>
  BY DEF DeleteWalk
<1>2. loc[t] \in Locals /\ loc[t].pipe \in Pipes /\ loc[t].deleting
  BY <1>1 DEF BusInv, TransferOK, ControlOK, LocalsFit
<1>3. Minds(t, loc[t].pipe)
  BY <1>2, WorkersMind DEF SettledInv
<1>4. pc[t] \notin Receiving \cup {"exited"}
  BY <1>1 DEF Receiving
<1>5. loc[t].msg = NULL /\ loc[t].timeout = "POLL"
  BY <1>4, AwayLocals DEF SettledInv
<1> QED
  BY <1>1, <1>2, <1>3, <1>4, <1>5, WalkFromSettled

LEMMA CleanUpEntrySettled ==
  ASSUME OrderlyProgram, BusInv, BusInv', OrderlyInv, SettledInv, CleanUpPipe,
         loc[ES].cursor \in Pipes
  PROVE  SettledInv'
<1>1. ES \in Tasks
  BY SoftwareBusAssumption
<1>2. PICK a, p : a = loc[ES].app /\ p = loc[ES].cursor
  OBVIOUS
<1>3. /\ pc[ES] = "cleaning" /\ p \in Pipes
      /\ UNCHANGED <<routeVars, DepthInUse, queue, handles>>
  BY <1>2 DEF CleanUpPipe
<1>4. loc[ES] \in Locals /\ p # -1
  BY <1>1, <1>3, RouteTableAssumption DEF BusInv, TransferOK, ControlOK, Pipes
<1>5. pc[ES] \notin Receiving \cup {"exited"}
  BY <1>3 DEF Receiving
<1>6. loc[ES].msg = NULL /\ loc[ES].timeout = "POLL"
  BY <1>1, <1>5, AwayLocals DEF SettledInv
<1>7. CASE Owns(a, p)
  <2> DEFINE l == [loc[ES] EXCEPT !.pipe = p, !.deleting = TRUE]
  <2>1. WalkFrom(ES, p, 0, l)
    BY <1>2, <1>3, <1>7 DEF CleanUpPipe
  <2>2. l \in Locals /\ l.msg = NULL /\ l.timeout = "POLL"
    BY <1>3, <1>4, <1>6 DEF Locals
  <2>3. Minds(ES, p)
    BY <1>2, <1>4, <1>7 DEF Minds
  <2> HIDE DEF l
  <2> QED
    BY <1>1, <1>3, <1>5, <2>1, <2>2, <2>3, WalkFromSettled
<1>8. CASE ~Owns(a, p)
  <2> DEFINE l == [loc[ES] EXCEPT !.cursor = loc[ES].cursor + 1]
  <2>1. Goto(ES, "cleaning", l) /\ UNCHANGED <<PipeTbl, buf>>
    BY <1>2, <1>3, <1>8 DEF CleanUpPipe
  <2>2. l.msg = NULL /\ l.timeout = "POLL"
    BY <1>4, <1>6 DEF Locals
  <2> HIDE DEF l
  <2> QED
    BY <1>1, <1>3, <1>5, <2>1, <2>2, CountsSame, UntouchedAll, AwayStep DEF Receiving
<1> QED
  BY <1>7, <1>8

-----------------------------------------------------------------------------
(* CFE_SB_RcvMsg up to the message *)

LEMMA HandlesKept ==
  ASSUME BusInv, WorkInv, NEW t \in Tasks, pc[t] # "exited", SameOwners, UNCHANGED handles
  PROVE  \A p \in handles'[AppOf[t]] : Owns(AppOf[t], p)'
<1>1. \A p \in handles[AppOf[t]] : p \in Pipes /\ Owns(AppOf[t], p)
  BY SoftwareBusAssumption DEF WorkInv, WorkerOK, BusInv, TransferOK, ReportsOK
<1> QED
  BY <1>1, QuietOwners

(* A receiver that moves its pipe's buffer between CurrentBuff and          *)
(* ToTrashBuff and gives none back.                                         *)
LEMMA ReceiverStep ==
  ASSUME OrderlyProgram, BusInv, BusInv', OrderlyInv, SettledInv, NEW t \in Tasks,
         NEW p \in Pipes, Minds(t, p), pc[t] \in Receiving => loc[t].pipe = p, OthersStay(t),
         pc'[t] \in Receiving, loc'[t].pipe = p, loc[t].msg = NULL, loc'[t].msg = NULL,
         SameOwners, \A x \in Pipes \ {p} : PipeTbl'[x] = PipeTbl[x],
         \A b \in Bufs : b \in {PipeTbl'[p].CurrentBuff, PipeTbl'[p].ToTrashBuff}
                         <=> b \in {PipeTbl[p].CurrentBuff, PipeTbl[p].ToTrashBuff},
         UNCHANGED <<routeVars, queue, buf, DepthInUse, handles>>, WorkerOK(t)'
  PROVE  SettledInv'
<1>1. \A x \in Pipes : QueueOf(x)' = QueueOf(x)
  BY DEF SameOwners, QueueOf
<1>2. WorkInv'
  <2>1. ValidPipe(p)'
    BY QuietOwners DEF Minds, Owns
  <2>2. EntryOK(p)'
    BY <2>1 DEF EntryOK
  <2>3. \A x \in Pipes \ {p} : SameEntry(x)
    BY DEF SameEntry
  <2>4. \A q \in QueueIds : QueueFits(q)'
    BY DEF SettledInv, WorkInv, QueueFits
  <2>5. {p} \in SUBSET Pipes /\ WorkInv
    BY DEF SettledInv
  <2>6. \A x \in {p} : Minds(t, x) /\ EntryOK(x)'
    BY <2>2
  <2> QED
    BY <1>1, <2>3, <2>4, <2>5, <2>6, WorkStep
<1>3. CountInv'
  <2>1. \A q \in QueueIds : OpenMsgs(q)' = OpenMsgs(q)
    BY DEF OpenMsgs
  <2>2. \A u \in Tasks : /\ loc'[u].msg = loc[u].msg
                         /\ loc[u].msg # NULL => loc'[u].pipe = loc[u].pipe
    BY DEF OthersStay
  <2>3. \A x \in Pipes : \A b \in Bufs :
          b \in {PipeTbl'[x].CurrentBuff, PipeTbl'[x].ToTrashBuff}
          <=> b \in {PipeTbl[x].CurrentBuff, PipeTbl[x].ToTrashBuff}
    OBVIOUS
  <2> QED
    BY <1>1, <2>1, <2>2, <2>3, CountsSame, CalmStep DEF SettledInv
<1> QED
  BY <1>2, <1>3 DEF SettledInv

LEMMA RcvBeginSettled ==
  ASSUME OrderlyProgram, BusInv, BusInv', OrderlyInv, SettledInv, NEW t \in Tasks,
         NEW p \in Pipes, NEW l, RcvBegin(t, p, l), Minds(t, p),
         pc[t] \notin Receiving \cup {"exited"}, l.pipe = p, l.msg = NULL,
         l.timeout # "POLL" => ~l.deleting, ~l.deleting => Owns(AppOf[t], p)
  PROVE  SettledInv'
<1> DEFINE e == [PipeTbl[p] EXCEPT !.ToTrashBuff = PipeTbl[p].CurrentBuff]
<1>1. /\ PipeTbl' = [PipeTbl EXCEPT ![p] = e] /\ Goto(t, "rcvBegun", l)
      /\ UNCHANGED <<routeVars, queue, buf, DepthInUse, handles>>
  BY DEF RcvBegin
<1>2. /\ e.InUse = PipeTbl[p].InUse /\ e.AppId = PipeTbl[p].AppId
      /\ e.SysQueueId = PipeTbl[p].SysQueueId
      /\ e.CurrentBuff = PipeTbl[p].CurrentBuff /\ e.ToTrashBuff = PipeTbl[p].CurrentBuff
  BY BuffTypes DEF BusInv, TransferOK, PipeD
<1> HIDE DEF e
<1>3. \A x \in Pipes : PipeTbl'[x] = IF x = p THEN e ELSE PipeTbl[x]
  BY <1>1 DEF BusInv, TransferOK, PipesOK
<1>4. SameOwners
  BY <1>2, <1>3 DEF SameOwners
<1>5. OthersStay(t) /\ pc'[t] = "rcvBegun" /\ loc'[t] = l
  BY <1>1, GotoFacts
<1>6. PipeTbl[p].ToTrashBuff = NULL /\ loc[t].msg = NULL /\ NULL \notin Bufs
  BY NothingToTrash, AwayLocals, SoftwareBusAssumption DEF SettledInv
<1>7. \A x \in handles'[AppOf[t]] : Owns(AppOf[t], x)'
  BY <1>1, <1>4, HandlesKept DEF SettledInv
<1>8. Owns(AppOf[t], p)' <=> Owns(AppOf[t], p)
  BY <1>4, QuietOwners
<1>9. WorkerOK(t)'
  BY <1>2, <1>3, <1>5, <1>7, <1>8 DEF WorkerOK, Receiving
<1>10. \A b \in Bufs : b \in {PipeTbl'[p].CurrentBuff, PipeTbl'[p].ToTrashBuff}
                       <=> b \in {PipeTbl[p].CurrentBuff, PipeTbl[p].ToTrashBuff}
  BY <1>2, <1>3, <1>6
<1> QED
  BY <1>1, <1>3, <1>4, <1>5, <1>6, <1>9, <1>10, ReceiverStep DEF Receiving

LEMMA RcvMsgSettled ==
  ASSUME OrderlyProgram, BusInv, BusInv', OrderlyInv, SettledInv, NEW t \in Tasks,
         NEW p \in Pipes, NEW timeout \in TimeOuts, RcvMsg(t, p, timeout)
  PROVE  SettledInv'
<1> DEFINE l == [NoLoc EXCEPT !.pipe = p, !.timeout = timeout]
<1>1. RcvBegin(t, p, l) /\ pc[t] = "idle" /\ p \in handles[AppOf[t]]
  BY DEF RcvMsg, Calls
<1>2. l.pipe = p /\ l.msg = NULL /\ ~l.deleting
  BY DEF NoLoc
<1> HIDE DEF l
<1>3. Minds(t, p) /\ Owns(AppOf[t], p)
  BY <1>1, CallerMinds DEF SettledInv
<1> QED
  BY <1>1, <1>2, <1>3, RcvBeginSettled DEF Receiving

LEMMA DeleteDrainSettled ==
  ASSUME OrderlyProgram, BusInv, BusInv', OrderlyInv, SettledInv, NEW t \in Tasks, DeleteDrain(t)
  PROVE  SettledInv'
<1>1. pc[t] = "drain" /\ loc[t].pipe \in Pipes /\ loc[t].deleting
  BY DEF DeleteDrain, BusInv, TransferOK, ControlOK, LocalsFit
<1>2. Minds(t, loc[t].pipe) /\ ValidPipe(loc[t].pipe)
  BY <1>1, WorkersMind DEF SettledInv
<1>3. pc[t] \notin Receiving \cup {"exited"}
  BY <1>1 DEF Receiving
<1>4. loc[t].msg = NULL /\ loc[t].timeout = "POLL"
  BY <1>3, AwayLocals DEF SettledInv
<1>5. RcvBegin(t, loc[t].pipe, loc[t])
  BY <1>2 DEF DeleteDrain
<1> QED
  BY <1>1, <1>2, <1>3, <1>4, <1>5, RcvBeginSettled

(* CurrentBuff = NULL and an OS_QueueGet that returns nothing or blocks.    *)
LEMMA RcvNothingSettled ==
  ASSUME OrderlyProgram, BusInv, BusInv', OrderlyInv, SettledInv, NEW t \in Tasks,
         RcvReadQueue(t), UNCHANGED queue
  PROVE  SettledInv'
<1>1. PICK p, qn : p = loc[t].pipe /\ qn = PipeTbl[p].SysQueueId
  OBVIOUS
<1> DEFINE e == [PipeTbl[p] EXCEPT !.CurrentBuff = NULL]
<1>2. /\ pc[t] = "rcvBegun" /\ PipeTbl' = [PipeTbl EXCEPT ![p] = e]
      /\ UNCHANGED <<routeVars, queue, buf, DepthInUse, handles>>
  BY <1>1 DEF RcvReadQueue
<1>3. pc[t] \in Receiving /\ pc[t] # "exited" /\ loc[t] \in Locals
  BY <1>2 DEF Receiving, BusInv, TransferOK, ControlOK
<1>4. p \in Pipes /\ Minds(t, p) /\ ValidPipe(p) /\ WorkerOK(t)
  BY <1>1, <1>3, WorkerPipe, WorkersMind DEF SettledInv, WorkInv
<1>5. /\ e.InUse = PipeTbl[p].InUse /\ e.AppId = PipeTbl[p].AppId /\ e.SysQueueId = qn
      /\ e.CurrentBuff = NULL /\ e.ToTrashBuff = PipeTbl[p].ToTrashBuff
  BY <1>1, <1>4, BuffTypes DEF BusInv, TransferOK, PipeD
<1> HIDE DEF e
<1>6. \A x \in Pipes : PipeTbl'[x] = IF x = p THEN e ELSE PipeTbl[x]
  BY <1>2, <1>4 DEF BusInv, TransferOK, PipesOK
<1>7. SameOwners
  BY <1>1, <1>5, <1>6 DEF SameOwners
<1>8. qn \in OpenQueues
  BY <1>1, <1>4 DEF OrderlyInv, QueuesDistinct
<1>9. IsOpen(qn) /\ qn # NoQueue /\ queue[qn].msgs \in Seq(Bufs)
  BY <1>8, QueueType, SoftwareBusAssumption DEF IsOpen, OpenQueues, NoQueue
<1>10. ~TakeMessage(t, qn) \/ queue[qn].msgs = <<>>
  <2>1. SUFFICES ASSUME TakeMessage(t, qn), queue[qn].msgs # <<>> PROVE FALSE
    OBVIOUS
  <2>2. queue' = [queue EXCEPT ![qn].msgs = Tail(queue[qn].msgs)]
    BY <2>1 DEF TakeMessage
  <2>3. queue'[qn].msgs = Tail(queue[qn].msgs)
    BY <1>8, <2>2 DEF OpenQueues, QueueD, BusInv, TransferOK, PipesOK
  <2>4. Len(Tail(queue[qn].msgs)) = Len(queue[qn].msgs) - 1 /\ Len(queue[qn].msgs) \in Nat
    BY <1>9, <2>1, HeadTailProperties
  <2>5. queue[qn].msgs = Tail(queue[qn].msgs)
    BY <2>3
  <2>6. PICK n \in Nat : n = Len(queue[qn].msgs) /\ n = n - 1
    BY <2>4, <2>5
  <2> QED
    BY <2>6
<1>11. /\ queue[qn].msgs = <<>>
       /\ IF loc[t].timeout = "POLL"
          THEN Goto(t, "rcvRead", [loc[t] EXCEPT !.status = "empty"])
          ELSE Goto(t, "rcvBlocked", [loc[t] EXCEPT !.queue = qn])
  BY <1>1, <1>2, <1>9, <1>10 DEF RcvReadQueue
<1>12. PICK there, l : /\ Goto(t, there, l) /\ l.pipe = p /\ l.msg = loc[t].msg
                       /\ l.timeout = loc[t].timeout /\ l.deleting = loc[t].deleting
                       /\ \/ there = "rcvRead" /\ l.status # "ok"
                          \/ there = "rcvBlocked" /\ l.queue = qn /\ l.timeout # "POLL"
  <2> DEFINE l1 == [loc[t] EXCEPT !.status = "empty"]
             l2 == [loc[t] EXCEPT !.queue = qn]
  <2>1. /\ l1.pipe = p /\ l1.msg = loc[t].msg /\ l1.timeout = loc[t].timeout
        /\ l1.deleting = loc[t].deleting /\ l1.status # "ok"
        /\ l2.pipe = p /\ l2.msg = loc[t].msg /\ l2.timeout = loc[t].timeout
        /\ l2.deleting = loc[t].deleting /\ l2.queue = qn
    BY <1>1, <1>3 DEF Locals
  <2> HIDE DEF l1, l2
  <2>2. IF loc[t].timeout = "POLL" THEN Goto(t, "rcvRead", l1) ELSE Goto(t, "rcvBlocked", l2)
    BY <1>11 DEF l1, l2
  <2> QED
    BY <2>1, <2>2
<1>13. OthersStay(t) /\ pc'[t] = there /\ loc'[t] = l
  BY <1>12, GotoFacts
<1>14. loc[t].msg = NULL
  BY <1>2, <1>4 DEF WorkerOK
<1>15. \A x \in handles'[AppOf[t]] : Owns(AppOf[t], x)'
  BY <1>2, <1>3, <1>7, HandlesKept DEF SettledInv
<1>16. Owns(AppOf[t], p)' <=> Owns(AppOf[t], p)
  BY <1>4, <1>7, QuietOwners
<1>17. QueueOf(p)' = <<>>
  BY <1>1, <1>2, <1>4, <1>7, <1>9, <1>11 DEF QueueOf, SameOwners
<1>18. HoldsNothing(p)'
  BY <1>4, <1>5, <1>6, <1>17 DEF HoldsNothing
<1>19. WorkerOK(t)'
  <2>1. /\ ~loc[t].deleting => Owns(AppOf[t], p)
        /\ loc[t].timeout # "POLL" => ~loc[t].deleting
        /\ there \in Receiving
    BY <1>1, <1>3, <1>4, <1>12 DEF WorkerOK, Receiving
  <2>2. PipeTbl'[p].CurrentBuff = NULL /\ PipeTbl'[p].SysQueueId = qn
    BY <1>4, <1>5, <1>6
  <2> QED
    BY <1>12, <1>13, <1>14, <1>15, <1>16, <1>18, <2>1, <2>2 DEF WorkerOK, Receiving
<1>20. \A b \in Bufs : b \in {PipeTbl'[p].CurrentBuff, PipeTbl'[p].ToTrashBuff}
                       <=> b \in {PipeTbl[p].CurrentBuff, PipeTbl[p].ToTrashBuff}
  <2>1. PipeTbl[p].CurrentBuff = PipeTbl[p].ToTrashBuff
    BY <1>1, <1>2, <1>4 DEF WorkerOK
  <2> QED
    BY <1>4, <1>5, <1>6, <2>1, SoftwareBusAssumption
<1>21. there \in Receiving
  BY <1>12 DEF Receiving
<1> QED
  BY <1>1, <1>2, <1>4, <1>6, <1>7, <1>12, <1>13, <1>14, <1>19, <1>20, <1>21, ReceiverStep

LEMMA RcvTimeOutSettled ==
  ASSUME OrderlyProgram, BusInv, BusInv', OrderlyInv, SettledInv, NEW t \in Tasks, RcvTimeOut(t)
  PROVE  SettledInv'
<1> DEFINE l == [loc[t] EXCEPT !.status = "timeout", !.queue = NoQueue]
<1>1. PICK p : p = loc[t].pipe
  OBVIOUS
<1>2. /\ pc[t] = "rcvBlocked" /\ Goto(t, "rcvRead", l)
      /\ UNCHANGED <<routeVars, PipeTbl, queue, buf, DepthInUse, handles>>
  BY DEF RcvTimeOut, pipeVars
<1>3. pc[t] \in Receiving /\ pc[t] # "exited" /\ loc[t] \in Locals
  BY <1>2 DEF Receiving, BusInv, TransferOK, ControlOK
<1>4. p \in Pipes /\ Minds(t, p) /\ WorkerOK(t)
  BY <1>1, <1>3, WorkerPipe, WorkersMind DEF SettledInv, WorkInv
<1>5. /\ l.pipe = p /\ l.msg = loc[t].msg /\ l.timeout = loc[t].timeout
      /\ l.deleting = loc[t].deleting /\ l.status # "ok"
  BY <1>1, <1>3 DEF Locals
<1> HIDE DEF l
<1>6. OthersStay(t) /\ pc'[t] = "rcvRead" /\ loc'[t] = l
  BY <1>2, GotoFacts
<1>7. SameOwners
  BY <1>2, SameAll
<1>8. loc[t].msg = NULL /\ ~loc[t].deleting
  BY <1>2, <1>4 DEF WorkerOK
<1>9. WorkerOK(t)'
  <2>1. \A x \in handles'[AppOf[t]] : Owns(AppOf[t], x)'
    BY <1>2, <1>3, <1>7, HandlesKept DEF SettledInv
  <2>2. Owns(AppOf[t], p)'
    BY <1>1, <1>3, <1>4, <1>7, <1>8, QuietOwners DEF WorkerOK
  <2>3. PipeTbl'[p].CurrentBuff = NULL
    BY <1>1, <1>2, <1>4 DEF WorkerOK
  <2> QED
    BY <1>5, <1>6, <1>8, <2>1, <2>2, <2>3 DEF WorkerOK, Receiving
<1> QED
  BY <1>1, <1>2, <1>4, <1>5, <1>6, <1>7, <1>8, <1>9, ReceiverStep DEF Receiving

-----------------------------------------------------------------------------
(* Pipes and applications that come and go *)

(* A message that has been taken off a queue is in the hands of the task    *)
(* that minds the pipe.                                                     *)
LEMMA InHandMinds ==
  ASSUME OrderlyInv, WorkInv, NEW p \in Pipes, NEW u \in InHand(p)
  PROVE  /\ u \in Tasks /\ Minds(u, p) /\ ValidPipe(p)
         /\ pc[u] = "rcvRead" /\ loc[u].status = "ok" /\ loc[u].pipe = p
<1>1. u \in Tasks /\ loc[u].pipe = p /\ loc[u].msg # NULL
  BY DEF InHand
<1>2. pc[u] = "rcvRead" /\ loc[u].status = "ok"
  BY <1>1 DEF WorkInv, WorkerOK
<1> QED
  BY <1>1, <1>2, WorkersMind DEF Receiving

LEMMA FreeEntry ==
  ASSUME OrderlyInv, WorkInv, NEW p \in Pipes, ~ValidPipe(p)
  PROVE  /\ InHand(p) = {} /\ QueueOf(p) = <<>>
         /\ PipeTbl[p].CurrentBuff = NULL /\ PipeTbl[p].ToTrashBuff = NULL
<1>1. InHand(p) = {}
  BY InHandMinds
<1>2. EntryOK(p)
  BY DEF WorkInv
<1>3. ~\E t \in Tasks : pc[t] \in Receiving /\ loc[t].pipe = p
  BY WorkersMind
<1> QED
  BY <1>1, <1>2, <1>3 DEF EntryOK, QueueOf

LEMMA CreatePipeSettled ==
  ASSUME OrderlyProgram, BusInv, BusInv', OrderlyInv, SettledInv, NEW t \in Tasks,
         NEW depth \in Depths, CreatePipe(t, depth)
  PROVE  SettledInv'
<1> USE SoftwareBusAssumption, RouteTableAssumption
<1> DEFINE free == {x \in Pipes : ~PipeTbl[x].InUse}
           ids == {q \in QueueIds : QueueIdUnheld(q)}
<1>1. PICK p, qn : p = Min(free) /\ qn = Min(ids)
  OBVIOUS
<1> DEFINE e == [PipeTbl[p] EXCEPT !.InUse = TRUE, !.AppId = AppOf[t],
                   !.SysQueueId = qn, !.CurrentBuff = NULL, !.ToTrashBuff = NULL]
           n == [open |-> TRUE, depth |-> depth, msgs |-> <<>>]
<1>2. /\ p \in Pipes /\ ~ValidPipe(p)
      /\ qn \in QueueIds /\ ~queue[qn].open /\ \A x \in Pipes : PipeTbl[x].SysQueueId # qn
  <2>1. free # {} /\ free \subseteq Nat /\ ids # {} /\ ids \subseteq Nat
    BY DEF CreatePipe, Pipes
  <2>2. p \in free /\ qn \in ids
    BY <1>1, <2>1, MinLemma
  <2> QED
    BY <2>2 DEF ValidPipe, QueueIdUnheld
<1>3. /\ queue' = [queue EXCEPT ![qn] = n]
      /\ PipeTbl' = [PipeTbl EXCEPT ![p] = e]
      /\ DepthInUse' = [DepthInUse EXCEPT ![p] = 0]
      /\ handles' = [handles EXCEPT ![AppOf[t]] = handles[AppOf[t]] \cup {p}]
      /\ UNCHANGED <<routeVars, buf>> /\ pc' = pc /\ loc' = loc /\ pc[t] = "idle"
  BY <1>1 DEF CreatePipe, Stay, Calls
<1>4. /\ e.InUse /\ e.AppId = AppOf[t] /\ e.SysQueueId = qn
      /\ e.CurrentBuff = NULL /\ e.ToTrashBuff = NULL
  BY <1>2, BuffTypes DEF BusInv, TransferOK, PipeD
<1> HIDE DEF e
<1>5. \A x \in Pipes : PipeTbl'[x] = IF x = p THEN e ELSE PipeTbl[x]
  BY <1>2, <1>3 DEF BusInv, TransferOK, PipesOK
<1>6. \A q \in QueueIds : queue'[q] = IF q = qn THEN n ELSE queue[q]
  BY <1>2, <1>3 DEF BusInv, TransferOK, PipesOK
<1>7. n.open /\ n.depth = depth /\ n.msgs = <<>>
  OBVIOUS
<1> HIDE DEF n, free, ids
<1>8. /\ InHand(p) = {} /\ QueueOf(p) = <<>>
      /\ PipeTbl[p].CurrentBuff = NULL /\ PipeTbl[p].ToTrashBuff = NULL
  BY <1>2, FreeEntry DEF SettledInv
<1>9. ASSUME NEW x \in Pipes PROVE QueueOf(x)' = QueueOf(x)
  <2>1. PipeTbl[x].SysQueueId \in QueueIds \cup {NoQueue} /\ qn # NoQueue
    BY <1>2, BuffTypes DEF BusInv, TransferOK, NoQueue
  <2>2. CASE x = p
    BY <1>2, <1>4, <1>5, <1>6, <1>7, <1>8, <2>1, <2>2 DEF QueueOf
  <2>3. CASE x # p
    BY <1>2, <1>5, <1>6, <2>1, <2>3 DEF QueueOf
  <2> QED
    BY <2>2, <2>3
<1>10. \A q \in QueueIds : OpenMsgs(q)' = OpenMsgs(q)
  BY <1>2, <1>6, <1>7 DEF OpenMsgs
<1>11. ASSUME NEW x \in Pipes PROVE DepthInUse'[x] = DepthInUse[x]
  <2>1. DepthInUse[p] = 0
    <3>1. Len(<<>>) = 0 /\ Cardinality({}) = 0
      BY FS_EmptySet
    <3>2. DepthInUse[p] = Len(QueueOf(p)) + Cardinality(InHand(p))
      BY <1>2 DEF SettledInv, CountInv, DepthsExact
    <3> QED
      BY <1>8, <3>1, <3>2
  <2> QED
    BY <1>3, <2>1 DEF BusInv, TransferOK, PipesOK
<1>12. CountInv'
  BY <1>3, <1>4, <1>5, <1>8, <1>9, <1>10, <1>11, CountsSame, CalmStep DEF SettledInv
<1>13. OthersStay(t)
  BY <1>3 DEF OthersStay
<1>14. /\ handles'[AppOf[t]] = handles[AppOf[t]] \cup {p}
       /\ \A u \in Tasks \ {t} : handles'[AppOf[u]] = handles[AppOf[u]]
  BY <1>3 DEF BusInv, TransferOK, ReportsOK, OrderlyProgram, OneTaskPerApp
<1>15. WorkerOK(t)'
  <2>1. \A x \in handles[AppOf[t]] : x \in Pipes /\ Owns(AppOf[t], x)
    BY <1>3, CallerMinds DEF SettledInv, BusInv, TransferOK, ReportsOK
  <2>2. \A x \in handles'[AppOf[t]] : Owns(AppOf[t], x)'
    BY <1>2, <1>4, <1>5, <1>14, <2>1 DEF Owns, ValidPipe
  <2>3. loc[t].msg = NULL /\ loc[t].timeout = "POLL"
    BY <1>3, AwayLocals DEF SettledInv, Receiving
  <2> QED
    BY <1>3, <2>2, <2>3, AwayOK DEF Receiving
<1>16. \A q \in QueueIds : QueueFits(q)'
  <2>1. Len(<<>>) = 0 /\ depth >= 0
    OBVIOUS
  <2> QED
    BY <1>6, <1>7, <2>1 DEF SettledInv, WorkInv, QueueFits
<1>17. WorkInv'
  <2>1. EntryOK(p)'
    BY <1>2, <1>4, <1>5 DEF EntryOK, ValidPipe
  <2>2. \A x \in Pipes \ {p} : SameEntry(x)
    BY <1>5 DEF SameEntry
  <2>3. PICK X : X = {p}
    OBVIOUS
  <2>4. X \in SUBSET Pipes /\ WorkInv /\ pc[t] \notin Receiving
    BY <1>2, <1>3, <2>3 DEF SettledInv, Receiving
  <2>5. \A x \in X : (Minds(t, x) \/ ~ValidPipe(x)) /\ EntryOK(x)'
    BY <1>2, <2>1, <2>3
  <2>6. \A y \in Pipes \ X : /\ SameEntry(y)
                             /\ QueueOf(y)' = QueueOf(y) \/ \E r \in RouteIdxs : Listed(r, y)
    BY <1>9, <2>2, <2>3
  <2>7. \A u \in Tasks \ {t} : handles'[AppOf[u]] = handles[AppOf[u]]
    BY <1>14
  <2> QED
    BY <1>13, <1>15, <1>16, <2>4, <2>5, <2>6, <2>7, WorkStep
<1> QED
  BY <1>12, <1>17 DEF SettledInv

(* The pipe is empty when CFE_SB_DeletePipeFull closes its queue and resets *)
(* its statistics, so neither step loses a message.                         *)
LEMMA DeleteFinishSettled ==
  ASSUME OrderlyProgram, BusInv, BusInv', OrderlyInv, SettledInv, NEW t \in Tasks,
         DeleteFinish(t)
  PROVE  SettledInv'
<1> USE SoftwareBusAssumption
<1>1. PICK p, qn, a, c : /\ p = loc[t].pipe /\ qn = PipeTbl[p].SysQueueId
                         /\ a = loc[t].app /\ c = loc[t].cursor
  OBVIOUS
<1> DEFINE e == RemovedPipe(PipeTbl[p])
           l == [NoLoc EXCEPT !.app = a, !.cursor = c + 1]
<1>2. /\ pc[t] = "deleted"
      /\ queue' = IF qn = NoQueue THEN queue ELSE [queue EXCEPT ![qn] = Unused]
      /\ PipeTbl' = [PipeTbl EXCEPT ![p] = e]
      /\ DepthInUse' = [DepthInUse EXCEPT ![p] = 0]
      /\ IF c = -1 THEN /\ Goto(t, "idle", NoLoc)
                        /\ handles' = [handles EXCEPT ![a] = handles[a] \ {p}]
                   ELSE Goto(t, "cleaning", l) /\ UNCHANGED handles
      /\ UNCHANGED <<routeVars, buf>>
  BY <1>1 DEF DeleteFinish
<1>3. loc[t].deleting /\ p \in Pipes /\ a \in Apps
  BY <1>1, <1>2 DEF BusInv, TransferOK, ControlOK, LocalsFit
<1>4. Minds(t, p) /\ ValidPipe(p) /\ pc[t] \notin Receiving
  BY <1>1, <1>2, <1>3, WorkersMind DEF SettledInv, Receiving
<1>5. Owns(a, p) /\ (c = -1 => a = AppOf[t])
  BY <1>1, <1>3 DEF OrderlyInv, TasksOK, DeleterOK
<1>6. qn \in OpenQueues /\ \A x \in Pipes : x # p => PipeTbl[x].SysQueueId # qn
  <2>1. qn \in OpenQueues /\ qn # NoQueue
    BY <1>1, <1>3, <1>4 DEF OrderlyInv, QueuesDistinct, OpenQueues, NoQueue
  <2>2. ASSUME NEW x \in Pipes, x # p, PipeTbl[x].SysQueueId = qn PROVE FALSE
    <3>1. ValidPipe(x)
      BY <2>1, <2>2 DEF SettledInv, WorkInv, EntryOK
    <3> QED
      BY <1>1, <1>3, <1>4, <2>2, <3>1 DEF OrderlyInv, QueuesDistinct
  <2> QED
    BY <2>1, <2>2
<1>7. QueueOf(p) = <<>> /\ PipeTbl[p].CurrentBuff = NULL /\ PipeTbl[p].ToTrashBuff = NULL
  <2>1. HoldsNothing(p)
    BY <1>1, <1>2 DEF SettledInv, WorkInv, WorkerOK
  <2> QED
    BY <1>3, <1>4, <2>1, NothingToTrash DEF HoldsNothing, SettledInv
<1>8. InHand(p) = {}
  <2>1. SUFFICES ASSUME NEW u \in InHand(p) PROVE FALSE
    OBVIOUS
  <2>2. u \in Tasks /\ Minds(u, p) /\ pc[u] = "rcvRead"
    BY <1>3, InHandMinds DEF SettledInv
  <2>3. u = t
    BY <1>4, <2>2, MindsAlone
  <2> QED
    BY <1>2, <2>2, <2>3
<1>9. /\ ~e.InUse /\ e.SysQueueId = NoQueue
      /\ e.CurrentBuff = NULL /\ e.ToTrashBuff = PipeTbl[p].ToTrashBuff
  BY <1>3, BuffTypes DEF BusInv, TransferOK, PipeD, RemovedPipe
<1>10. l.msg = NULL /\ l.timeout = "POLL"
  BY DEF NoLoc
<1> HIDE DEF e, l
<1>11. \A x \in Pipes : PipeTbl'[x] = IF x = p THEN e ELSE PipeTbl[x]
  BY <1>2, <1>3 DEF BusInv, TransferOK, PipesOK
<1>12. qn \in QueueIds /\ qn # NoQueue
       /\ \A q \in QueueIds : queue'[q] = IF q = qn THEN Unused ELSE queue[q]
  BY <1>2, <1>6 DEF BusInv, TransferOK, PipesOK, OpenQueues, NoQueue
<1>13. ~Unused.open /\ Unused.depth = 0 /\ Unused.msgs = <<>>
  BY DEF Unused
<1>14. queue[qn].msgs = <<>>
  BY <1>1, <1>7, <1>12 DEF QueueOf
<1>15. ASSUME NEW x \in Pipes PROVE QueueOf(x)' = QueueOf(x)
  <2>1. PipeTbl[x].SysQueueId \in QueueIds \cup {NoQueue}
    BY BuffTypes DEF BusInv, TransferOK
  <2>2. CASE x = p
    BY <1>7, <1>9, <1>11, <2>2 DEF QueueOf
  <2>3. CASE x # p
    BY <1>6, <1>11, <1>12, <2>1, <2>3 DEF QueueOf
  <2> QED
    BY <2>2, <2>3
<1>16. \A q \in QueueIds : OpenMsgs(q)' = OpenMsgs(q)
  BY <1>12, <1>13, <1>14 DEF OpenMsgs
<1>17. \A x \in Pipes : DepthInUse'[x] = DepthInUse[x]
  <2>1. Len(<<>>) = 0 /\ Cardinality({}) = 0
    BY FS_EmptySet
  <2>2. DepthInUse[p] = Len(QueueOf(p)) + Cardinality(InHand(p))
    BY <1>3 DEF SettledInv, CountInv, DepthsExact
  <2>3. DepthInUse[p] = 0
    BY <1>7, <1>8, <2>1, <2>2
  <2> QED
    BY <1>2, <2>3 DEF BusInv, TransferOK, PipesOK
<1>18. /\ OthersStay(t) /\ pc'[t] \in {"idle", "cleaning"}
       /\ loc'[t].msg = NULL /\ loc'[t].timeout = "POLL"
  BY <1>2, <1>10, NoLocAway, GotoFacts
<1>19. loc[t].msg = NULL
  BY <1>4, AwayLocals DEF SettledInv
<1>20. CountInv'
  <2>1. \A u \in Tasks : /\ loc'[u].msg = loc[u].msg
                         /\ loc[u].msg # NULL => loc'[u].pipe = loc[u].pipe
    BY <1>18, <1>19 DEF OthersStay
  <2> QED
    BY <1>2, <1>7, <1>9, <1>11, <1>15, <1>16, <1>17, <2>1, CountsSame, CalmStep DEF SettledInv
<1>21. /\ handles'[AppOf[t]] \subseteq handles[AppOf[t]] /\ p \notin handles'[AppOf[t]]
       /\ \A u \in Tasks \ {t} : handles'[AppOf[u]] = handles[AppOf[u]]
  <2>1. CASE c = -1
    BY <1>2, <1>5, <2>1 DEF BusInv, TransferOK, ReportsOK, OrderlyProgram, OneTaskPerApp
  <2>2. CASE c # -1
    <3>1. UNCHANGED handles /\ t = ES /\ a # AppOf[ES]
      BY <1>1, <1>2, <2>2 DEF OrderlyInv, TasksOK, CleanerOK
    <3>2. ~Owns(AppOf[t], p)
      BY <1>5, <3>1 DEF Owns
    <3>3. \A x \in handles[AppOf[t]] : Owns(AppOf[t], x)
      BY <1>2 DEF SettledInv, WorkInv, WorkerOK
    <3> QED
      BY <3>1, <3>2, <3>3
  <2> QED
    BY <2>1, <2>2
<1>22. WorkerOK(t)'
  <2>1. \A x \in handles[AppOf[t]] : x \in Pipes /\ Owns(AppOf[t], x)
    BY <1>2 DEF SettledInv, WorkInv, WorkerOK, BusInv, TransferOK, ReportsOK
  <2>2. \A x \in handles'[AppOf[t]] : Owns(AppOf[t], x)'
    BY <1>11, <1>21, <2>1 DEF Owns, ValidPipe
  <2> QED
    BY <1>18, <2>2, AwayOK DEF Receiving
<1>23. \A q \in QueueIds : QueueFits(q)'
  <2>1. Len(<<>>) = 0
    OBVIOUS
  <2> QED
    BY <1>12, <1>13, <2>1 DEF SettledInv, WorkInv, QueueFits
<1>24. WorkInv'
  <2>1. EntryOK(p)'
    BY <1>3, <1>7, <1>9, <1>11 DEF EntryOK, ValidPipe
  <2>2. \A x \in Pipes \ {p} : SameEntry(x)
    BY <1>11 DEF SameEntry
  <2>3. {p} \in SUBSET Pipes /\ WorkInv
    BY <1>3 DEF SettledInv
  <2>4. \A x \in {p} : Minds(t, x) /\ EntryOK(x)'
    BY <1>4, <2>1
  <2>5. OthersStay(t) /\ pc[t] \notin Receiving
    BY <1>4, <1>18
  <2>6. \A u \in Tasks \ {t} : handles'[AppOf[u]] = handles[AppOf[u]]
    BY <1>21
  <2>7. \A x \in Pipes \ {p} : SameEntry(x) /\ QueueOf(x)' = QueueOf(x)
    BY <1>15, <2>2
  <2> QED
    BY <1>22, <1>23, <2>3, <2>4, <2>5, <2>6, <2>7, WorkStep
<1> QED
  BY <1>20, <1>24 DEF SettledInv

(* The end of CFE_SB_CleanUpApp: the application has no pipe any more.      *)
LEMMA CleanUpEndSettled ==
  ASSUME OrderlyProgram, BusInv, BusInv', OrderlyInv, SettledInv, CleanUpPipe,
         loc[ES].cursor \notin Pipes
  PROVE  SettledInv'
<1> USE SoftwareBusAssumption
<1>1. PICK a, c : a = loc[ES].app /\ c = loc[ES].cursor
  OBVIOUS
<1>2. /\ pc[ES] = "cleaning" /\ UNCHANGED <<routeVars, PipeTbl, buf, DepthInUse>>
      /\ pc' = [t \in Tasks |-> IF t = ES THEN "idle"
                                ELSE IF AppOf[t] = a THEN "dead" ELSE pc[t]]
      /\ loc' = [t \in Tasks |-> IF t = ES \/ AppOf[t] = a THEN NoLoc ELSE loc[t]]
      /\ handles' = [handles EXCEPT ![a] = {}]
      /\ queue' = [q \in QueueIds |->
                     IF \E i \in Pipes : Owns(a, i) /\ PipeTbl[i].SysQueueId = q
                     THEN Unused ELSE queue[q]]
  BY <1>1 DEF CleanUpPipe
<1>3. c \in 0 .. MaxPipes /\ c \notin Pipes /\ a \in Apps
  BY <1>1, <1>2 DEF BusInv, TransferOK, ControlOK, LocalsFit
<1>4. c # -1 /\ \A x \in Pipes : x < c
  BY <1>3, RouteTableAssumption DEF Pipes
<1>5. /\ \A x \in Pipes : ~Owns(a, x)
      /\ a # AppOf[ES] /\ \A u \in Tasks : AppOf[u] = a => pc[u] = "exited"
  BY <1>1, <1>4 DEF OrderlyInv, TasksOK, CleanerOK
<1>6. queue' = queue
  BY <1>2, <1>5 DEF BusInv, TransferOK, PipesOK
<1>7. \A x \in Pipes : SameEntry(x) /\ QueueOf(x)' = QueueOf(x)
  BY <1>2, <1>6 DEF SameEntry, QueueOf
<1>8. /\ handles'[a] = {}
      /\ \A u \in Tasks : AppOf[u] # a => handles'[AppOf[u]] = handles[AppOf[u]]
  BY <1>2, <1>3 DEF BusInv, TransferOK, ReportsOK
<1>9. \A u \in Tasks : u = ES \/ AppOf[u] = a => pc[u] \notin Receiving /\ loc[u].msg = NULL
  <2>1. \A u \in Tasks : u = ES \/ AppOf[u] = a => pc[u] \notin Receiving
    BY <1>2, <1>5 DEF Receiving
  <2> QED
    BY <2>1, AwayLocals DEF SettledInv
<1>10. ASSUME NEW u \in Tasks PROVE WorkerOK(u)'
  <2>1. CASE u = ES
    <3>1. pc'[u] = "idle" /\ loc'[u] = NoLoc /\ handles'[AppOf[u]] = handles[AppOf[u]]
      BY <1>2, <1>5, <1>8, <2>1
    <3>2. \A x \in handles[AppOf[u]] : x \in Pipes /\ Owns(AppOf[u], x)
      BY <1>2, <2>1 DEF SettledInv, WorkInv, WorkerOK, BusInv, TransferOK, ReportsOK
    <3>3. \A x \in handles'[AppOf[u]] : Owns(AppOf[u], x)'
      BY <1>7, <3>1, <3>2, SameEntryLemma
    <3> QED
      BY <3>1, <3>3, NoLocAway, AwayOK DEF Receiving
  <2>2. CASE u # ES /\ AppOf[u] = a
    <3>1. pc'[u] = "dead" /\ loc'[u] = NoLoc /\ handles'[AppOf[u]] = {}
      BY <1>2, <1>8, <2>2
    <3> QED
      BY <3>1, NoLocAway, AwayOK DEF Receiving
  <2>3. CASE u # ES /\ AppOf[u] # a
    <3>1. pc'[u] = pc[u] /\ loc'[u] = loc[u] /\ handles'[AppOf[u]] = handles[AppOf[u]]
      BY <1>2, <1>8, <2>3
    <3> QED
      BY <1>7, <3>1, WorkerKept DEF SettledInv
  <2> QED
    BY <2>1, <2>2, <2>3
<1>11. ASSUME NEW x \in Pipes PROVE EntryOK(x)'
  <2>1. EntryOK(x)
    BY DEF SettledInv, WorkInv
  <2>2. ASSUME NEW u \in Tasks, pc[u] \in Receiving, loc[u].pipe = x
        PROVE  pc'[u] \in Receiving /\ loc'[u].pipe = x
    BY <1>2, <1>9, <2>2
  <2> QED
    BY <1>2, <2>1, <2>2 DEF EntryOK, ValidPipe
<1>12. CountInv'
  <2>1. \A u \in Tasks : /\ loc'[u].msg = loc[u].msg
                         /\ loc[u].msg # NULL => loc'[u].pipe = loc[u].pipe
    BY <1>2, <1>9, NoLocAway
  <2>2. \A q \in QueueIds : OpenMsgs(q)' = OpenMsgs(q)
    BY <1>6 DEF OpenMsgs
  <2> QED
    BY <1>2, <1>7, <2>1, <2>2, CountsSame, CalmStep DEF SettledInv
<1>13. \A q \in QueueIds : QueueFits(q)'
  BY <1>6 DEF SettledInv, WorkInv, QueueFits
<1> QED
  BY <1>10, <1>11, <1>12, <1>13 DEF SettledInv, WorkInv

LEMMA StartAppSettled ==
  ASSUME OrderlyProgram, BusInv, BusInv', OrderlyInv, SettledInv, NEW a \in Apps, StartApp(a)
  PROVE  SettledInv'
<1> USE SoftwareBusAssumption
<1>1. /\ \A t \in Tasks : AppOf[t] = a => pc[t] = "dead"
      /\ pc' = [t \in Tasks |-> IF AppOf[t] = a THEN "idle" ELSE pc[t]]
      /\ UNCHANGED <<routeVars, PipeTbl, queue, buf, DepthInUse, handles, loc>>
  BY DEF StartApp, TasksOf, pipeVars
<1>2. \A x \in Pipes : SameEntry(x) /\ QueueOf(x)' = QueueOf(x)
  BY <1>1 DEF SameEntry, QueueOf
<1>3. ASSUME NEW u \in Tasks PROVE WorkerOK(u)'
  <2>1. CASE AppOf[u] = a
    <3>1. pc[u] = "dead" /\ pc'[u] = "idle" /\ loc'[u] = loc[u]
      BY <1>1, <2>1
    <3>2. \A x \in handles[AppOf[u]] : x \in Pipes /\ Owns(AppOf[u], x)
      BY <3>1 DEF SettledInv, WorkInv, WorkerOK, BusInv, TransferOK, ReportsOK
    <3>3. \A x \in handles'[AppOf[u]] : Owns(AppOf[u], x)'
      BY <1>1, <1>2, <3>2, SameEntryLemma
    <3>4. loc[u].msg = NULL /\ loc[u].timeout = "POLL"
      BY <3>1, AwayLocals DEF SettledInv, Receiving
    <3> QED
      BY <3>1, <3>3, <3>4, AwayOK DEF Receiving
  <2>2. CASE AppOf[u] # a
    <3>1. pc'[u] = pc[u] /\ loc'[u] = loc[u] /\ handles'[AppOf[u]] = handles[AppOf[u]]
      BY <1>1, <2>2
    <3> QED
      BY <1>2, <3>1, WorkerKept DEF SettledInv
  <2> QED
    BY <2>1, <2>2
<1>4. ASSUME NEW x \in Pipes PROVE EntryOK(x)'
  <2>1. EntryOK(x)
    BY DEF SettledInv, WorkInv
  <2>2. ASSUME NEW u \in Tasks, pc[u] \in Receiving PROVE pc'[u] \in Receiving
    BY <1>1, <2>2 DEF Receiving
  <2> QED
    BY <1>1, <2>1, <2>2 DEF EntryOK, ValidPipe
<1>5. CountInv'
  <2>1. \A q \in QueueIds : OpenMsgs(q)' = OpenMsgs(q)
    BY <1>1 DEF OpenMsgs
  <2> QED
    BY <1>1, <1>2, <2>1, CountsSame, CalmStep DEF SettledInv
<1>6. \A q \in QueueIds : QueueFits(q)'
  BY <1>1 DEF SettledInv, WorkInv, QueueFits
<1> QED
  BY <1>3, <1>4, <1>5, <1>6 DEF SettledInv, WorkInv

-----------------------------------------------------------------------------
(* Taking a message off a queue *)

LEMMA SameNumber ==
  ASSUME NEW S, NEW T, IsFiniteSet(S), NEW F \in [S -> T],
         \A x, y \in S : F[x] = F[y] => x = y, \A z \in T : \E x \in S : F[x] = z
  PROVE  IsFiniteSet(T) /\ Cardinality(T) = Cardinality(S)
<1>1. F \in Bijection(S, T)
  BY DEF Bijection, Injection, Surjection, IsInjective
<1>2. ExistsBijection(S, T)
  BY <1>1 DEF ExistsBijection
<1> QED
  BY <1>2, FS_Bijection

Positions(s, B) == {i \in DOMAIN s : s[i] \in B}

(* The positions of a sequence with an element of B, after its head is gone.*)
LEMMA TailPositions ==
  ASSUME NEW S, NEW s \in Seq(S), s # <<>>, NEW B
  PROVE  /\ IsFiniteSet(Positions(Tail(s), B))
         /\ Cardinality(Positions(Tail(s), B)) = Cardinality(Positions(s, B) \ {1})
         /\ 1 \in Positions(s, B) <=> Head(s) \in B
<1>0. PICK W, V : W = Positions(s, B) /\ V = Positions(Tail(s), B)
  OBVIOUS
<1>1. /\ Tail(s) \in Seq(S) /\ Len(Tail(s)) = Len(s) - 1 /\ Len(s) \in Nat
      /\ \A i \in 1 .. Len(Tail(s)) : Tail(s)[i] = s[i + 1]
  BY HeadTailProperties, LenProperties
<1>2. DOMAIN s = 1 .. Len(s) /\ DOMAIN Tail(s) = 1 .. Len(Tail(s)) /\ Len(s) # 0
  BY <1>1, LenProperties, EmptySeq
<1>3. PICK n \in Nat : n = Len(s) /\ n # 0 /\ n - 1 = Len(Tail(s))
  BY <1>1, <1>2
<1>4. 1 \in W <=> Head(s) \in B
  BY <1>0, <1>2, <1>3 DEF Positions
<1> DEFINE F == [i \in W \ {1} |-> i - 1]
<1>5. W \ {1} \subseteq 2 .. n
  BY <1>0, <1>2, <1>3 DEF Positions
<1>6. IsFiniteSet(W \ {1})
  <2>1. IsFiniteSet(2 .. n)
    BY FS_Interval
  <2> QED
    BY <1>5, <2>1, FS_Subset
<1>7. ASSUME NEW i \in W \ {1} PROVE F[i] = i - 1 /\ i - 1 \in V /\ i \in 2 .. n
  <2>1. i \in 2 .. n /\ i - 1 \in 1 .. n - 1 /\ (i - 1) + 1 = i
    BY <1>5
  <2>2. Tail(s)[i - 1] = s[i]
    BY <1>1, <1>3, <2>1
  <2> QED
    BY <1>0, <1>2, <1>3, <2>1, <2>2 DEF Positions
<1>8. ASSUME NEW j \in V PROVE j + 1 \in W \ {1} /\ F[j + 1] = j
  <2>1. j \in 1 .. n - 1 /\ j + 1 \in 1 .. n /\ j + 1 # 1 /\ (j + 1) - 1 = j
    BY <1>0, <1>2, <1>3 DEF Positions
  <2>2. Tail(s)[j] = s[j + 1]
    BY <1>1, <1>3, <2>1
  <2>3. j + 1 \in W \ {1}
    BY <1>0, <1>2, <1>3, <2>1, <2>2 DEF Positions
  <2> QED
    BY <2>1, <2>3
<1>9. F \in [W \ {1} -> V]
  BY <1>7
<1>10. ASSUME NEW x \in W \ {1}, NEW y \in W \ {1}, F[x] = F[y] PROVE x = y
  <2>1. x \in Int /\ y \in Int /\ x - 1 = y - 1
    BY <1>7, <1>10
  <2> QED
    BY <2>1
<1> HIDE DEF F
<1>11. PICK U : U = W \ {1}
  OBVIOUS
<1>12. /\ F \in [U -> V] /\ IsFiniteSet(U)
       /\ \A x, y \in U : F[x] = F[y] => x = y
       /\ \A z \in V : \E x \in U : F[x] = z
  BY <1>6, <1>8, <1>9, <1>10, <1>11
<1>13. IsFiniteSet(V) /\ Cardinality(V) = Cardinality(U)
  BY <1>12, SameNumber
<1> QED
  BY <1>0, <1>4, <1>11, <1>13

(* R are the queues Q after a message has been taken off queue k.           *)
Popped(Q, R, k) ==
  /\ k \in OpenIn(Q) /\ Q[k].msgs # <<>> /\ R[k].open /\ R[k].msgs = Tail(Q[k].msgs)
  /\ \A q \in QueueIds \ {k} : R[q] = Q[q]

(* The places of a buffer after the head of one queue is gone.              *)
LEMMA TailPlaces ==
  ASSUME NEW Q \in [QueueIds -> QueueD], NEW R \in [QueueIds -> QueueD], NEW b,
         IsFiniteSet(PlacesIn(Q, b)), NEW k, Popped(Q, R, k)
  PROVE  Cardinality(PlacesIn(R, b)) = IF b = Head(Q[k].msgs)
                                       THEN Cardinality(PlacesIn(Q, b)) - 1
                                       ELSE Cardinality(PlacesIn(Q, b))
<1>0. /\ k \in OpenIn(Q) /\ Q[k].msgs # <<>> /\ R[k].open /\ R[k].msgs = Tail(Q[k].msgs)
      /\ \A q \in QueueIds \ {k} : R[q] = Q[q]
  BY DEF Popped
<1>1. PICK P, T : P = PlacesIn(Q, b) \ {<<k, 1>>} /\ T = PlacesIn(R, b)
  OBVIOUS
<1> USE <1>0
<1>2. OpenIn(R) = OpenIn(Q) /\ k \in QueueIds
  BY DEF OpenIn
<1>3. Q[k].msgs \in Seq(Bufs)
  BY <1>2 DEF QueueD
<1>4. /\ Tail(Q[k].msgs) \in Seq(Bufs) /\ Len(Tail(Q[k].msgs)) = Len(Q[k].msgs) - 1
      /\ \A i \in 1 .. Len(Tail(Q[k].msgs)) : Tail(Q[k].msgs)[i] = Q[k].msgs[i + 1]
  BY <1>3, HeadTailProperties
<1>5. PICK n \in Nat \ {0} : DOMAIN Q[k].msgs = 1 .. n /\ DOMAIN R[k].msgs = 1 .. n - 1
  <2>1. /\ DOMAIN Q[k].msgs = 1 .. Len(Q[k].msgs) /\ Len(Q[k].msgs) \in Nat
        /\ DOMAIN R[k].msgs = 1 .. Len(Tail(Q[k].msgs)) /\ Len(Q[k].msgs) # 0
    BY <1>3, <1>4, LenProperties, EmptySeq
  <2> QED
    BY <1>4, <2>1
<1>6. \A i \in 1 .. n - 1 : R[k].msgs[i] = Q[k].msgs[i + 1]
  <2>1. DOMAIN Tail(Q[k].msgs) = 1 .. Len(Tail(Q[k].msgs))
    BY <1>4, LenProperties
  <2> QED
    BY <1>4, <1>5, <2>1
<1>7. ASSUME NEW x
      PROVE  /\ x \in T <=> /\ x[1] \in OpenIn(Q) /\ x[2] \in DOMAIN R[x[1]].msgs
                            /\ x = <<x[1], x[2]>> /\ R[x[1]].msgs[x[2]] = b
             /\ x \in PlacesIn(Q, b) <=>
                  /\ x[1] \in OpenIn(Q) /\ x[2] \in DOMAIN Q[x[1]].msgs
                  /\ x = <<x[1], x[2]>> /\ Q[x[1]].msgs[x[2]] = b
  BY <1>1, <1>2, PlacesLemma
<1>8. <<k, 1>> \in PlacesIn(Q, b) <=> b = Head(Q[k].msgs)
  <2>1. Head(Q[k].msgs) = Q[k].msgs[1]
    BY <1>3, <1>5
  <2>2. PICK x : x = <<k, 1>>
    OBVIOUS
  <2>3. x[1] = k /\ x[2] = 1 /\ x = <<x[1], x[2]>> /\ 1 \in 1 .. n
    BY <2>2
  <2> QED
    BY <1>5, <1>7, <2>1, <2>2, <2>3
<1> DEFINE F == [x \in P |-> IF x[1] = k THEN <<k, x[2] - 1>> ELSE x]
<1>9. \A q \in OpenIn(Q) : q # k => R[q] = Q[q]
  BY DEF OpenIn
<1>10. ASSUME NEW x \in P
       PROVE  /\ x[1] = k => x[2] \in 2 .. n /\ x = <<k, x[2]>>
              /\ F[x] \in T /\ F[x] = IF x[1] = k THEN <<k, x[2] - 1>> ELSE x
  <2>1. /\ x[1] \in OpenIn(Q) /\ x[2] \in DOMAIN Q[x[1]].msgs /\ x # <<k, 1>>
        /\ x = <<x[1], x[2]>> /\ Q[x[1]].msgs[x[2]] = b
    BY <1>1, <1>7
  <2>2. CASE x[1] = k
    <3>1. PICK i \in 2 .. n : i = x[2] /\ x = <<k, i>>
      BY <1>5, <2>1, <2>2
    <3>2. PICK y : y = <<k, i - 1>>
      OBVIOUS
    <3>3. y[1] = k /\ y[2] = i - 1 /\ i - 1 \in 1 .. n - 1 /\ (i - 1) + 1 = i
      BY <3>2
    <3>4. R[k].msgs[i - 1] = b
      BY <1>6, <2>1, <2>2, <3>1, <3>3
    <3>5. y \in T
      BY <1>5, <1>7, <2>1, <2>2, <3>2, <3>3, <3>4
    <3> QED
      BY <2>2, <3>1, <3>2, <3>5
  <2>3. CASE x[1] # k
    BY <1>7, <1>9, <2>1, <2>3
  <2> QED
    BY <2>2, <2>3
<1>11. ASSUME NEW y \in T PROVE \E x \in P : F[x] = y
  <2>1. /\ y[1] \in OpenIn(Q) /\ y[2] \in DOMAIN R[y[1]].msgs
        /\ y = <<y[1], y[2]>> /\ R[y[1]].msgs[y[2]] = b
    BY <1>7
  <2>2. CASE y[1] = k
    <3>1. PICK i \in 1 .. n - 1 : i = y[2] /\ y = <<k, i>>
      BY <1>5, <2>1, <2>2
    <3>2. PICK x : x = <<k, i + 1>>
      OBVIOUS
    <3>3. /\ x[1] = k /\ x[2] = i + 1 /\ x = <<x[1], x[2]>> /\ x # <<k, 1>>
          /\ i + 1 \in 1 .. n /\ (i + 1) - 1 = i
      BY <3>1, <3>2
    <3>4. Q[k].msgs[i + 1] = b
      BY <1>6, <2>1, <2>2, <3>1
    <3>5. x \in P
      BY <1>1, <1>5, <1>7, <2>1, <2>2, <3>3, <3>4
    <3>6. F[x] = <<k, (i + 1) - 1>>
      BY <3>3, <3>5
    <3> QED
      BY <3>1, <3>3, <3>5, <3>6
  <2>3. CASE y[1] # k
    <3>1. y \in P
      BY <1>1, <1>7, <1>9, <2>1, <2>3
    <3> QED
      BY <2>3, <3>1
  <2> QED
    BY <2>2, <2>3
<1>12. ASSUME NEW x \in P, NEW y \in P, F[x] = F[y] PROVE x = y
  <2>1. CASE x[1] = k /\ y[1] = k
    <3>1. PICK i \in 2 .. n, j \in 2 .. n : x = <<k, i>> /\ y = <<k, j>>
      BY <1>10, <2>1
    <3>2. <<k, i - 1>> = <<k, j - 1>>
      BY <1>10, <1>12, <2>1, <3>1
    <3>3. i - 1 = j - 1
      BY <3>2
    <3> QED
      BY <3>1, <3>3
  <2>2. CASE ~(x[1] = k /\ y[1] = k)
    <3>1. \A z \in P : (F[z])[1] = z[1]
      BY <1>10
    <3> QED
      BY <1>10, <1>12, <2>2, <3>1
  <2> QED
    BY <2>1, <2>2
<1>13. F \in [P -> T]
  BY <1>10
<1>14. IsFiniteSet(P)
  BY <1>1, FS_RemoveElement
<1> HIDE DEF F
<1>15. Cardinality(T) = Cardinality(P)
  BY <1>11, <1>12, <1>13, <1>14, SameNumber
<1>16. Cardinality(P) = IF <<k, 1>> \in PlacesIn(Q, b) THEN Cardinality(PlacesIn(Q, b)) - 1
                        ELSE Cardinality(PlacesIn(Q, b))
  BY <1>1, FS_RemoveElement
<1> QED
  BY <1>1, <1>8, <1>15, <1>16

LEMMA OwnQueue ==
  ASSUME OrderlyInv, WorkInv, NEW p \in Pipes, ValidPipe(p)
  PROVE  /\ PipeTbl[p].SysQueueId \in OpenIn(queue) /\ PipeTbl[p].SysQueueId \in QueueIds
         /\ PipeTbl[p].SysQueueId # NoQueue
         /\ QueueOf(p) = queue[PipeTbl[p].SysQueueId].msgs
         /\ \A x \in Pipes : x # p => PipeTbl[x].SysQueueId # PipeTbl[p].SysQueueId
<1>1. /\ PipeTbl[p].SysQueueId \in OpenIn(queue) /\ PipeTbl[p].SysQueueId \in QueueIds
      /\ PipeTbl[p].SysQueueId # NoQueue
  BY SoftwareBusAssumption DEF OrderlyInv, QueuesDistinct, OpenQueues, OpenIn, NoQueue
<1>2. ASSUME NEW x \in Pipes, x # p, PipeTbl[x].SysQueueId = PipeTbl[p].SysQueueId PROVE FALSE
  <2>1. ValidPipe(x)
    BY <1>1, <1>2 DEF WorkInv, EntryOK
  <2> QED
    BY <1>2, <2>1 DEF OrderlyInv, QueuesDistinct
<1> QED
  BY <1>1, <1>2 DEF QueueOf

LEMMA OneHand ==
  ASSUME OrderlyProgram, OrderlyInv, WorkInv, NEW p \in Pipes, NEW t \in Tasks, Minds(t, p)
  PROVE  InHand(p) \subseteq {t}
BY InHandMinds, MindsAlone

(* OS_QueueGet with a message: it changes hands, and whoever counted it     *)
(* counts it still.                                                         *)
LEMMA TakeSettled ==
  ASSUME OrderlyProgram, ShortQueues, BusInv, BusInv', OrderlyInv, SettledInv, NEW t \in Tasks,
         NEW p \in Pipes, p = loc[t].pipe, NEW qn, qn = PipeTbl[p].SysQueueId,
         pc[t] \in {"rcvBegun", "rcvBlocked"}, queue[qn].msgs # <<>>, TakeMessage(t, qn),
         SameOwners, \A x \in Pipes \ {p} : PipeTbl'[x] = PipeTbl[x],
         PipeTbl'[p].CurrentBuff = NULL,
         \A b \in Bufs : b \in {PipeTbl'[p].CurrentBuff, PipeTbl'[p].ToTrashBuff}
                         <=> b \in {PipeTbl[p].CurrentBuff, PipeTbl[p].ToTrashBuff},
         UNCHANGED <<routeVars, buf, DepthInUse, handles>>
  PROVE  SettledInv'
<1>1. PICK s, h : s = queue[qn].msgs /\ h = Head(s)
  OBVIOUS
<1> DEFINE l == [loc[t] EXCEPT !.status = "ok", !.msg = h, !.queue = NoQueue]
<1>2. Goto(t, "rcvRead", l) /\ queue' = [queue EXCEPT ![qn].msgs = Tail(s)]
  BY <1>1 DEF TakeMessage
<1>3. /\ pc[t] \in Receiving /\ pc[t] # "exited" /\ pc[t] # "rcvRead" /\ loc[t] \in Locals
      /\ WorkerOK(t) /\ WorkInv
  BY DEF Receiving, BusInv, TransferOK, ControlOK, SettledInv, WorkInv
<1>4. Minds(t, p) /\ ValidPipe(p)
  BY <1>3, WorkersMind
<1>5. /\ qn \in OpenIn(queue) /\ qn \in QueueIds /\ qn # NoQueue /\ QueueOf(p) = s
      /\ \A x \in Pipes : x # p => PipeTbl[x].SysQueueId # qn
  BY <1>1, <1>3, <1>4, OwnQueue
<1>6. s \in Seq(Bufs) /\ s # <<>> /\ Len(s) \in Nat
  BY <1>1, <1>5, QueueType
<1>7. /\ h \in Bufs /\ Tail(s) \in Seq(Bufs) /\ Len(Tail(s)) = Len(s) - 1
  BY <1>1, <1>6, HeadTailProperties
<1>8. /\ l.pipe = p /\ l.msg = h /\ l.timeout = loc[t].timeout /\ l.status = "ok"
      /\ l.deleting = loc[t].deleting
  BY <1>3 DEF Locals
<1> HIDE DEF l
<1>9. OthersStay(t) /\ pc'[t] = "rcvRead" /\ loc'[t] = l
  BY <1>2, GotoFacts
<1>10. /\ queue'[qn].msgs = Tail(s) /\ queue'[qn].open = queue[qn].open
       /\ queue'[qn].depth = queue[qn].depth
       /\ \A q \in QueueIds \ {qn} : queue'[q] = queue[q]
  <2> DEFINE e == [queue[qn] EXCEPT !.msgs = Tail(s)]
  <2>1. queue[qn] \in QueueD /\ queue \in [QueueIds -> QueueD]
    BY <1>5 DEF BusInv, TransferOK, PipesOK
  <2>2. e.msgs = Tail(s) /\ e.open = queue[qn].open /\ e.depth = queue[qn].depth
    BY <2>1 DEF QueueD
  <2>3. queue' = [queue EXCEPT ![qn] = e]
    BY <1>2
  <2> HIDE DEF e
  <2> QED
    BY <1>5, <2>1, <2>2, <2>3
<1>11. loc[t].msg = NULL
  BY <1>3 DEF WorkerOK
<1>12. QueueOf(p)' = Tail(s)
  BY <1>5, <1>10 DEF QueueOf, SameOwners
<1>13. ASSUME NEW x \in Pipes, x # p PROVE QueueOf(x)' = QueueOf(x)
  <2>1. PipeTbl[x].SysQueueId \in QueueIds \cup {NoQueue}
    BY BuffTypes DEF BusInv, TransferOK
  <2>2. PipeTbl'[x].SysQueueId = PipeTbl[x].SysQueueId /\ PipeTbl[x].SysQueueId # qn
    BY <1>5, <1>13 DEF SameOwners
  <2>3. PipeTbl[x].SysQueueId # NoQueue
        => queue'[PipeTbl[x].SysQueueId] = queue[PipeTbl[x].SysQueueId]
    BY <1>10, <2>1, <2>2
  <2> QED
    BY <2>2, <2>3 DEF QueueOf
<1>14. WorkerOK(t)'
  <2>1. \A x \in handles'[AppOf[t]] : Owns(AppOf[t], x)'
    BY <1>3, HandlesKept
  <2>2. Owns(AppOf[t], p)' <=> Owns(AppOf[t], p)
    BY QuietOwners
  <2>3. /\ ~loc[t].deleting => Owns(AppOf[t], p)
        /\ loc[t].timeout # "POLL" => ~loc[t].deleting
    BY <1>3 DEF WorkerOK
  <2> QED
    BY <1>7, <1>8, <1>9, <2>1, <2>2, <2>3, SoftwareBusAssumption DEF WorkerOK, Receiving
<1>15. WorkInv'
  <2>1. EntryOK(p)'
    <3>1. ValidPipe(p)'
      BY <1>4, QuietOwners
    <3> QED
      BY <1>8, <1>9, <3>1 DEF EntryOK, Receiving
  <2>2. \A x \in Pipes \ {p} : SameEntry(x) /\ QueueOf(x)' = QueueOf(x)
    BY <1>13 DEF SameEntry
  <2>3. \A x \in {p} : Minds(t, x) /\ EntryOK(x)'
    BY <1>4, <2>1
  <2>4. \A q \in QueueIds : QueueFits(q)'
    <3>1. QueueFits(qn)'
      <4>1. QueueFits(qn) /\ queue[qn].depth \in Nat
        BY <1>3, <1>5, QueueType DEF WorkInv
      <4>2. Len(s) <= queue[qn].depth /\ queue[qn].depth \in Depths \cup {0}
        BY <1>1, <4>1 DEF QueueFits
      <4>3. Len(Tail(s)) <= queue[qn].depth
        BY <1>6, <1>7, <4>1, <4>2
      <4> QED
        BY <1>10, <4>2, <4>3 DEF QueueFits
    <3> QED
      BY <1>3, <1>10, <3>1 DEF WorkInv, QueueFits
  <2>5. {p} \in SUBSET Pipes /\ loc[t].pipe \in {p}
    OBVIOUS
  <2>6. \A u \in Tasks \ {t} : handles'[AppOf[u]] = handles[AppOf[u]]
    OBVIOUS
  <2> QED
    BY <1>3, <1>9, <1>14, <2>2, <2>3, <2>4, <2>5, <2>6, WorkStep
<1>16. ASSUME NEW b \in Bufs PROVE buf'[b].UseCount = References(b)'
  <2>1. /\ IsFiniteSet(Places(b)) /\ Cardinality(Places(b)) \in Nat
        /\ Cardinality(Holders(b)) \in Nat
        /\ IsFiniteSet(Takers(b)) /\ Cardinality(Takers(b)) \in Nat
    BY <1>3, CountsFinite
  <2>2. queue \in [QueueIds -> QueueD] /\ queue' \in [QueueIds -> QueueD] /\ queue[qn].open
    BY <1>5 DEF BusInv, TransferOK, PipesOK, OpenIn
  <2>3. Popped(queue, queue', qn) /\ h = Head(queue[qn].msgs)
    BY <1>1, <1>5, <1>10, <2>2 DEF Popped
  <2>4. Cardinality(Places(b)') = IF b = h THEN Cardinality(Places(b)) - 1
                                  ELSE Cardinality(Places(b))
    <3>1. IsFiniteSet(PlacesIn(queue, b))
      BY <2>1 DEF Places
    <3> QED
      BY <2>2, <2>3, <3>1, TailPlaces DEF Places
  <2>5. Holders(b)' = Holders(b)
    BY DEF Holders
  <2>6. Takers(b)' = (IF b = h THEN Takers(b) \cup {t} ELSE Takers(b)) /\ t \notin Takers(b)
    BY <1>8, <1>9, <1>11, SoftwareBusAssumption DEF Takers, OthersStay
  <2>7. Cardinality(Takers(b)') = IF b = h THEN Cardinality(Takers(b)) + 1
                                  ELSE Cardinality(Takers(b))
    <3>1. Cardinality(Takers(b) \cup {t}) = Cardinality(Takers(b)) + 1
      BY <2>1, <2>6, FS_AddElement
    <3> QED
      BY <2>6, <3>1
  <2>8. /\ References(b) = Cardinality(Places(b)) + Cardinality(Holders(b)) + Cardinality(Takers(b))
        /\ References(b)' = Cardinality(Places(b)') + Cardinality(Holders(b)')
                            + Cardinality(Takers(b)')
    BY DEF References, Places, PlacesIn, OpenQueues, OpenIn, Holders, Takers
  <2>9. References(b)' = References(b)
    BY <2>1, <2>4, <2>5, <2>7, <2>8
  <2> QED
    BY <2>9 DEF SettledInv, CountInv, BuffersRefCounted
<1>17. InHand(p) = {} /\ InHand(p)' = {t}
  <2>1. InHand(p) \subseteq {t} /\ t \notin InHand(p)
    BY <1>3, <1>4, <1>11, OneHand DEF InHand
  <2>2. \A u \in Tasks : u # t => ~(loc'[u].pipe = p /\ loc'[u].msg # NULL)
    BY <1>9, <2>1 DEF InHand, OthersStay
  <2> QED
    BY <1>7, <1>8, <1>9, <2>1, <2>2, SoftwareBusAssumption DEF InHand
<1>18. ASSUME NEW x \in Pipes, x # p PROVE InHand(x)' = InHand(x)
  BY <1>8, <1>9, <1>11, <1>18 DEF InHand, OthersStay
<1>19. DepthsExact'
  <2>1. Cardinality({}) = 0 /\ Cardinality({t}) = 1
    BY FS_EmptySet, FS_Singleton
  <2>2. \A x \in Pipes : DepthInUse[x] = Len(QueueOf(x)) + Cardinality(InHand(x))
    BY DEF SettledInv, CountInv, DepthsExact
  <2>3. DepthInUse'[p] = Len(QueueOf(p)') + Cardinality(InHand(p)')
    <3>1. DepthInUse[p] = Len(s) + 0
      BY <1>5, <1>17, <2>1, <2>2
    <3>2. Len(QueueOf(p)') + Cardinality(InHand(p)') = (Len(s) - 1) + 1
      BY <1>7, <1>12, <1>17, <2>1
    <3>3. DepthInUse'[p] = DepthInUse[p] /\ Len(s) + 0 = (Len(s) - 1) + 1
      BY <1>6
    <3> QED
      BY <3>1, <3>2, <3>3
  <2> QED
    BY <1>13, <1>18, <2>2, <2>3 DEF DepthsExact
<1>20. ASSUME NEW x \in Pipes, NEW m PROVE InTransit(x, m)' = InTransit(x, m)
  <2>1. CASE x # p
    <3>1. Waiting(x, m)' = Waiting(x, m)
      BY <1>13, <2>1 DEF Waiting
    <3>2. \A u \in InHand(x) : loc'[u] = loc[u]
      BY <1>9, <1>11 DEF InHand, OthersStay
    <3>3. Settling(x, m)' = Settling(x, m)
      BY <1>18, <2>1, <3>2 DEF Settling
    <3> QED
      BY <3>1, <3>3 DEF InTransit, Waiting, Settling
  <2>2. CASE x = p
    <3>1. PICK B : B = {b \in Bufs : buf[b].MsgId = m}
      OBVIOUS
    <3>2. PICK W, V : W = Positions(s, B) /\ V = Positions(Tail(s), B)
      OBVIOUS
    <3>3. Cardinality(V) = Cardinality(W \ {1}) /\ (1 \in W <=> h \in B)
      <4>1. s \in Seq(Bufs) /\ s # <<>>
        BY <1>6
      <4>2. Cardinality(V) = Cardinality(W \ {1}) /\ (1 \in W <=> Head(s) \in B)
        BY <3>2, <4>1, TailPositions
      <4> QED
        BY <1>1, <4>2
    <3>4. /\ \A i \in DOMAIN s : s[i] \in Bufs
          /\ \A i \in DOMAIN Tail(s) : Tail(s)[i] \in Bufs
      BY <1>6, <1>7, ElementOfSeq, LenProperties
    <3>5. Waiting(p, m) = W /\ Waiting(p, m)' = V
      BY <1>5, <1>12, <3>1, <3>2, <3>4 DEF Waiting, Positions
    <3>6. Settling(p, m) = {} /\ Settling(p, m)' = IF h \in B THEN {t} ELSE {}
      BY <1>7, <1>8, <1>9, <1>17, <3>1 DEF Settling
    <3>7. IsFiniteSet(W) /\ Cardinality(W) \in Nat
      BY <3>5, TransitFinite
    <3>8. Cardinality(V) = IF h \in B THEN Cardinality(W) - 1 ELSE Cardinality(W)
      <4>1. Cardinality(W \ {1}) = IF 1 \in W THEN Cardinality(W) - 1 ELSE Cardinality(W)
        BY <3>7, FS_RemoveElement
      <4> QED
        BY <3>3, <4>1
    <3>9. Cardinality({}) = 0 /\ Cardinality({t}) = 1
      BY FS_EmptySet, FS_Singleton
    <3>10. /\ InTransit(p, m) = Cardinality(Waiting(p, m)) + Cardinality(Settling(p, m))
           /\ InTransit(p, m)' = Cardinality(Waiting(p, m)') + Cardinality(Settling(p, m)')
      BY DEF InTransit, Waiting, Settling
    <3> QED
      BY <2>2, <3>5, <3>6, <3>7, <3>8, <3>9, <3>10
  <2> QED
    BY <2>1, <2>2
<1>21. NoWedgedSubscription'
  <2>1. ASSUME NEW r \in RouteIdxs, NEW i \in DOMAIN RoutingTbl'[r].ListHeadPtr,
               NEW d, d = RoutingTbl'[r].ListHeadPtr[i], NEW m, m = RoutingTbl'[r].MsgId
        PROVE  d.BuffCount <= InTransit(d.PipeId, m)'
    <3>1. RoutingTbl' = RoutingTbl
      BY DEF routeVars
    <3>2. d.PipeId \in Pipes
      BY <2>1, <3>1, NodeType DEF BusInv, RouteInv, RouteTypeOK
    <3>3. d.BuffCount <= InTransit(d.PipeId, m)
      BY <2>1, <3>1 DEF SettledInv, CountInv, NoWedgedSubscription
    <3> QED
      BY <1>20, <3>2, <3>3
  <2> QED
    BY <2>1 DEF NoWedgedSubscription
<1> QED
  BY <1>15, <1>16, <1>19, <1>21 DEF SettledInv, CountInv, BuffersRefCounted

LEMMA RcvReadQueueSettled ==
  ASSUME OrderlyProgram, ShortQueues, BusInv, BusInv', OrderlyInv, SettledInv, NEW t \in Tasks,
         RcvReadQueue(t)
  PROVE  SettledInv'
<1>1. CASE UNCHANGED queue
  BY <1>1, RcvNothingSettled
<1>2. CASE ~UNCHANGED queue
  <2>1. PICK p, qn : p = loc[t].pipe /\ qn = PipeTbl[p].SysQueueId
    OBVIOUS
  <2> DEFINE e == [PipeTbl[p] EXCEPT !.CurrentBuff = NULL]
  <2>2. /\ pc[t] = "rcvBegun" /\ PipeTbl' = [PipeTbl EXCEPT ![p] = e]
        /\ queue[qn].msgs # <<>> /\ TakeMessage(t, qn)
        /\ UNCHANGED <<routeVars, buf, DepthInUse, handles>>
    BY <1>2, <2>1 DEF RcvReadQueue
  <2>3. p \in Pipes /\ PipeTbl[p].CurrentBuff = PipeTbl[p].ToTrashBuff
    BY <2>1, <2>2, WorkerPipe DEF SettledInv, WorkInv, WorkerOK, Receiving
  <2>4. /\ e.InUse = PipeTbl[p].InUse /\ e.AppId = PipeTbl[p].AppId
        /\ e.SysQueueId = PipeTbl[p].SysQueueId
        /\ e.CurrentBuff = NULL /\ e.ToTrashBuff = PipeTbl[p].ToTrashBuff
    BY <2>3, BuffTypes DEF BusInv, TransferOK, PipeD
  <2> HIDE DEF e
  <2>5. \A x \in Pipes : PipeTbl'[x] = IF x = p THEN e ELSE PipeTbl[x]
    BY <2>2, <2>3 DEF BusInv, TransferOK, PipesOK
  <2>6. SameOwners
    BY <2>4, <2>5 DEF SameOwners
  <2>7. /\ PipeTbl'[p].CurrentBuff = NULL
        /\ \A b \in Bufs : b \in {PipeTbl'[p].CurrentBuff, PipeTbl'[p].ToTrashBuff}
                           <=> b \in {PipeTbl[p].CurrentBuff, PipeTbl[p].ToTrashBuff}
    BY <2>3, <2>4, <2>5, SoftwareBusAssumption
  <2>8. \A x \in Pipes \ {p} : PipeTbl'[x] = PipeTbl[x]
    BY <2>5
  <2> QED
    BY <2>1, <2>2, <2>3, <2>6, <2>7, <2>8, TakeSettled
<1> QED
  BY <1>1, <1>2

LEMMA RcvWakeSettled ==
  ASSUME OrderlyProgram, ShortQueues, BusInv, BusInv', OrderlyInv, SettledInv, NEW t \in Tasks,
         RcvWake(t)
  PROVE  SettledInv'
<1>1. PICK p, qn : p = loc[t].pipe /\ qn = PipeTbl[p].SysQueueId
  OBVIOUS
<1>2. pc[t] = "rcvBlocked" /\ UNCHANGED <<routeVars, PipeTbl, buf, DepthInUse, handles>>
  BY DEF RcvWake
<1>3. p \in Pipes /\ loc[t].queue = qn /\ PipeTbl[p].CurrentBuff = NULL
  BY <1>1, <1>2, WorkerPipe DEF SettledInv, WorkInv, WorkerOK, Receiving
<1>4. queue[qn].msgs # <<>> /\ TakeMessage(t, qn)
  BY <1>3 DEF RcvWake
<1>5. SameOwners
  BY <1>2, SameAll
<1>6. /\ PipeTbl'[p].CurrentBuff = NULL
      /\ \A b \in Bufs : b \in {PipeTbl'[p].CurrentBuff, PipeTbl'[p].ToTrashBuff}
                         <=> b \in {PipeTbl[p].CurrentBuff, PipeTbl[p].ToTrashBuff}
      /\ \A x \in Pipes \ {p} : PipeTbl'[x] = PipeTbl[x]
  BY <1>2, <1>3
<1> QED
  BY <1>1, <1>2, <1>3, <1>4, <1>5, <1>6, TakeSettled

-----------------------------------------------------------------------------
(* CFE_SB_RcvMsg with the lock *)

(* CFE_SB_DecrBufUseCnt on a buffer that is in use.                        *)
LEMMA DecrFacts ==
  ASSUME BuffersOK, NEW w \in Bufs \cup {NULL}, buf' = DecrBufUseCnt(buf, w),
         w # NULL => buf[w].UseCount # 0, NEW b \in Bufs
  PROVE  /\ buf'[b].UseCount = IF b = w THEN buf[b].UseCount - 1 ELSE buf[b].UseCount
         /\ b # w \/ buf[b].UseCount # 1 => buf'[b].MsgId = buf[b].MsgId
<1>1. CASE w = NULL
  BY <1>1, SoftwareBusAssumption DEF DecrBufUseCnt
<1>2. CASE w # NULL
  <2> DEFINE new == IF buf[w].UseCount = 1 THEN FreeBuf
                    ELSE [buf[w] EXCEPT !.UseCount = buf[w].UseCount - 1]
  <2>1. w \in Bufs /\ buf' = [buf EXCEPT ![w] = new]
    BY <1>2 DEF DecrBufUseCnt
  <2>2. buf[w] \in BufferD /\ buf[w].UseCount \in Nat
    BY <2>1 DEF BuffersOK, BufferD
  <2>3. /\ new.UseCount = buf[w].UseCount - 1
        /\ buf[w].UseCount # 1 => new.MsgId = buf[w].MsgId
    BY <2>2 DEF FreeBuf, BufferD
  <2> HIDE DEF new
  <2>4. buf'[b] = IF b = w THEN new ELSE buf[b]
    BY <2>1 DEF BuffersOK
  <2> QED
    BY <2>3, <2>4
<1> QED
  BY <1>1, <1>2

(* A buffer on a queue or in a task's hands is in use, and twice when a     *)
(* pipe holds it too.                                                       *)
LEMMA Needed ==
  ASSUME BusInv, WorkInv, ShortQueues, BuffersRefCounted, NEW b \in Bufs
  PROVE  /\ buf[b].UseCount \in Nat
         /\ Places(b) # {} \/ Takers(b) # {} \/ Holders(b) # {} => buf[b].UseCount # 0
         /\ (Places(b) # {} \/ Takers(b) # {}) /\ Holders(b) # {} => buf[b].UseCount # 1
<1>1. PICK i, j, k : /\ i = Cardinality(Places(b)) /\ j = Cardinality(Holders(b))
                     /\ k = Cardinality(Takers(b))
  OBVIOUS
<1>2. i \in Nat /\ j \in Nat /\ k \in Nat
  BY <1>1, CountsFinite
<1>3. /\ i = 0 => Places(b) = {}
      /\ j = 0 => Holders(b) = {}
      /\ k = 0 => Takers(b) = {}
  BY <1>1, CountsFinite, FS_EmptySet
<1>4. buf[b].UseCount = i + j + k
  BY <1>1, ReferencesParts DEF BuffersRefCounted
<1> QED
  BY <1>2, <1>3, <1>4

(* CFE_SB_GetDestPtr finds the node that counted the message, if it is      *)
(* still there.                                                             *)
LEMMA CountedDown ==
  ASSUME RouteInv, NEW m \in MsgIds, NEW p \in Pipes, CountReceive(m, p),
         NEW r \in RouteIdxs, NEW i \in DOMAIN RoutingTbl'[r].ListHeadPtr,
         NEW d, d = RoutingTbl'[r].ListHeadPtr[i]
  PROVE  /\ RoutingTbl'[r].MsgId = RoutingTbl[r].MsgId
         /\ i \in DOMAIN RoutingTbl[r].ListHeadPtr
         /\ d.PipeId = RoutingTbl[r].ListHeadPtr[i].PipeId
         /\ d.BuffCount <= RoutingTbl[r].ListHeadPtr[i].BuffCount
         /\ d.PipeId = p /\ RoutingTbl[r].MsgId = m =>
              \/ d.BuffCount = 0
              \/ d.BuffCount = RoutingTbl[r].ListHeadPtr[i].BuffCount - 1
<1>1. CASE ~Subscribed(m, p)
  <2>1. RoutingTbl' = RoutingTbl
    BY <1>1 DEF CountReceive, routeVars
  <2>2. d = RoutingTbl[r].ListHeadPtr[i] /\ i \in DOMAIN RoutingTbl[r].ListHeadPtr
    BY <2>1
  <2>3. d.BuffCount \in Nat
    BY <2>2, NodeType DEF RouteInv, RouteTypeOK
  <2>4. ~(d.PipeId = p /\ RoutingTbl[r].MsgId = m)
    <3>1. SUFFICES ASSUME d.PipeId = p, RoutingTbl[r].MsgId = m PROVE FALSE
      OBVIOUS
    <3>2. Listed(r, p)
      BY <2>2, <3>1 DEF Listed, HasDest
    <3>3. IsMapped(m) /\ MsgMap[m] = r
      BY <3>1, <3>2, ListedMapped
    <3> QED
      BY <1>1, <3>2, <3>3 DEF Subscribed, Listed
  <2> QED
    BY <2>1, <2>2, <2>3, <2>4
<1>2. CASE Subscribed(m, p)
  <2>1. PICK k, pos, old : /\ k = MsgMap[m] /\ pos = DestPos(RoutingTbl[k].ListHeadPtr, p)
                           /\ old = RoutingTbl[k].ListHeadPtr[pos]
    OBVIOUS
  <2>2. /\ k \in RouteIdxs /\ pos \in DOMAIN RoutingTbl[k].ListHeadPtr
        /\ old \in Dest /\ old.PipeId = p
    BY <1>2, <2>1, SubscribedNode
  <2>3. RoutingTbl[k] \in RouteEntry /\ NoDup(RoutingTbl[k].ListHeadPtr)
    BY <2>2, EntryLemma
  <2> DEFINE n == IF old.BuffCount > 0 THEN old.BuffCount - 1 ELSE old.BuffCount
             new == [old EXCEPT !.BuffCount = n]
             list == [RoutingTbl[k].ListHeadPtr EXCEPT ![pos] = new]
             e == [RoutingTbl[k] EXCEPT !.ListHeadPtr = list]
  <2>4. RoutingTbl' = [RoutingTbl EXCEPT ![k] = e]
    BY <1>2, <2>1 DEF CountReceive
  <2>5. old.BuffCount \in Nat
    BY <2>2 DEF Dest
  <2>6. /\ new.PipeId = p /\ new.BuffCount <= old.BuffCount
        /\ new.BuffCount = 0 \/ new.BuffCount = old.BuffCount - 1
    BY <2>2, <2>5 DEF Dest
  <2> HIDE DEF new
  <2>7. e.MsgId = RoutingTbl[k].MsgId /\ e.ListHeadPtr = list
    BY <2>3 DEF RouteEntry
  <2> HIDE DEF e
  <2>8. RoutingTbl'[r] = IF r = k THEN e ELSE RoutingTbl[r]
    BY <2>2, <2>4 DEF RouteInv, RouteTypeOK
  <2>9. CASE r # k
    <3>1. RoutingTbl'[r] = RoutingTbl[r]
      BY <2>8, <2>9
    <3>2. d = RoutingTbl[r].ListHeadPtr[i] /\ i \in DOMAIN RoutingTbl[r].ListHeadPtr
      BY <3>1
    <3>3. d.BuffCount \in Nat
      BY <3>2, NodeType DEF RouteInv, RouteTypeOK
    <3>4. ~(d.PipeId = p /\ RoutingTbl[r].MsgId = m)
      <4>1. SUFFICES ASSUME d.PipeId = p, RoutingTbl[r].MsgId = m PROVE FALSE
        OBVIOUS
      <4>2. Listed(r, p)
        BY <3>2, <4>1 DEF Listed, HasDest
      <4> QED
        BY <2>1, <2>9, <4>1, <4>2, ListedMapped
    <3> QED
      BY <3>1, <3>2, <3>3, <3>4
  <2>10. CASE r = k
    <3>1. /\ i \in DOMAIN RoutingTbl[k].ListHeadPtr
          /\ d = IF i = pos THEN new ELSE RoutingTbl[k].ListHeadPtr[i]
      BY <2>2, <2>7, <2>8, <2>10
    <3>2. RoutingTbl[r].ListHeadPtr[i].BuffCount \in Nat
      BY <2>10, <3>1, NodeType DEF RouteInv, RouteTypeOK
    <3>3. CASE i = pos
      BY <2>1, <2>2, <2>6, <2>7, <2>8, <2>10, <3>1, <3>3
    <3>4. CASE i # pos
      <4>1. RoutingTbl[k].ListHeadPtr[i].PipeId # p
        BY <2>1, <2>2, <2>3, <3>1, <3>4 DEF NoDup
      <4> QED
        BY <2>7, <2>8, <2>10, <3>1, <3>2, <3>4, <4>1
    <3> QED
      BY <3>3, <3>4
  <2> QED
    BY <2>9, <2>10
<1> QED
  BY <1>1, <1>2

(* What the locked section of CFE_SB_RcvMsg does for task t on pipe p: the  *)
(* buffer in ToTrashBuff goes, the message taken takes its place.           *)
Settles(t, p, w) ==
  /\ p \in Pipes /\ loc[t].pipe = p /\ pc[t] = "rcvRead" /\ Minds(t, p) /\ ValidPipe(p)
  /\ w = PipeTbl[p].ToTrashBuff /\ w \in Bufs \cup {NULL} /\ PipeTbl[p].CurrentBuff = NULL
  /\ buf' = DecrBufUseCnt(buf, w)
  /\ PipeTbl'[p].ToTrashBuff = NULL /\ PipeTbl'[p].CurrentBuff = loc[t].msg
  /\ SameOwners /\ \A x \in Pipes \ {p} : PipeTbl'[x] = PipeTbl[x]
  /\ OthersStay(t) /\ loc'[t].msg = NULL /\ loc'[t].timeout = "POLL"
  /\ IF loc[t].deleting THEN /\ pc'[t] = IF loc[t].status = "ok" THEN "drain" ELSE "deleted"
                             /\ loc'[t].pipe = p
                        ELSE pc'[t] = "idle"
  /\ UNCHANGED <<queue, handles>>

LEMMA RcvFinishSettles ==
  ASSUME BusInv, OrderlyInv, WorkInv, NEW t \in Tasks, RcvFinish(t)
  PROVE  Settles(t, loc[t].pipe, PipeTbl[loc[t].pipe].ToTrashBuff)
<1>1. PICK p, w, ok : p = loc[t].pipe /\ w = PipeTbl[p].ToTrashBuff /\ ok = (loc[t].status = "ok")
  OBVIOUS
<1> DEFINE e == [PipeTbl[p] EXCEPT !.ToTrashBuff = NULL,
                   !.CurrentBuff = IF ok THEN loc[t].msg ELSE PipeTbl[p].CurrentBuff]
           l == [loc[t] EXCEPT !.status = "none", !.msg = NULL]
<1>2. /\ pc[t] = "rcvRead" /\ buf' = DecrBufUseCnt(buf, w)
      /\ PipeTbl' = [PipeTbl EXCEPT ![p] = e] /\ RcvReturn(t) /\ UNCHANGED <<queue, handles>>
  BY <1>1 DEF RcvFinish
<1>3. pc[t] \in Receiving /\ loc[t] \in Locals /\ WorkerOK(t)
  BY <1>2 DEF Receiving, BusInv, TransferOK, ControlOK, WorkInv
<1>4. p \in Pipes /\ Minds(t, p) /\ ValidPipe(p)
  BY <1>1, <1>3, WorkerPipe, WorkersMind
<1>5. w \in Bufs \cup {NULL}
  BY <1>1, <1>4, BuffTypes DEF BusInv, TransferOK
<1>6. /\ PipeTbl[p].CurrentBuff = NULL /\ (loc[t].msg # NULL <=> ok)
      /\ loc[t].deleting => loc[t].timeout = "POLL"
  BY <1>1, <1>2, <1>3 DEF WorkerOK
<1>7. /\ e.InUse = PipeTbl[p].InUse /\ e.AppId = PipeTbl[p].AppId
      /\ e.SysQueueId = PipeTbl[p].SysQueueId
      /\ e.CurrentBuff = loc[t].msg /\ e.ToTrashBuff = NULL
  BY <1>4, <1>6, BuffTypes DEF BusInv, TransferOK, PipeD
<1> HIDE DEF e
<1>8. \A x \in Pipes : PipeTbl'[x] = IF x = p THEN e ELSE PipeTbl[x]
  BY <1>2, <1>4 DEF BusInv, TransferOK, PipesOK
<1>9. SameOwners
  BY <1>7, <1>8 DEF SameOwners
<1>10. l.msg = NULL /\ l.timeout = loc[t].timeout /\ l.pipe = p
  BY <1>1, <1>3 DEF Locals
<1> HIDE DEF l
<1>11. \/ ~loc[t].deleting /\ Goto(t, "idle", NoLoc)
       \/ loc[t].deleting /\ Goto(t, IF ok THEN "drain" ELSE "deleted", l)
  BY <1>1, <1>2 DEF RcvReturn, l
<1>12. /\ OthersStay(t) /\ loc'[t].msg = NULL /\ loc'[t].timeout = "POLL"
       /\ IF loc[t].deleting THEN /\ pc'[t] = IF loc[t].status = "ok" THEN "drain" ELSE "deleted"
                                  /\ loc'[t].pipe = p
                             ELSE pc'[t] = "idle"
  <2>1. CASE ~loc[t].deleting
    <3>1. Goto(t, "idle", NoLoc)
      BY <1>11, <2>1
    <3> QED
      BY <2>1, <3>1, NoLocAway, GotoFacts DEF BusInv, TransferOK, ControlOK
  <2>2. CASE loc[t].deleting
    <3>1. PICK there : there = (IF loc[t].status = "ok" THEN "drain" ELSE "deleted")
      OBVIOUS
    <3>2. Goto(t, there, l)
      BY <1>1, <1>11, <2>2, <3>1
    <3>3. OthersStay(t) /\ pc'[t] = there /\ loc'[t] = l
      BY <3>2, GotoFacts DEF BusInv, TransferOK, ControlOK
    <3> QED
      BY <1>6, <1>10, <2>2, <3>1, <3>3
  <2> QED
    BY <2>1, <2>2
<1>13. /\ PipeTbl'[p].ToTrashBuff = NULL /\ PipeTbl'[p].CurrentBuff = loc[t].msg
       /\ \A x \in Pipes \ {p} : PipeTbl'[x] = PipeTbl[x]
  BY <1>4, <1>7, <1>8
<1> QED
  BY <1>1, <1>2, <1>4, <1>5, <1>6, <1>9, <1>12, <1>13 DEF Settles

LEMMA SettlesQueues ==
  ASSUME NEW t, NEW p, NEW w, Settles(t, p, w)
  PROVE  \A x \in Pipes : QueueOf(x)' = QueueOf(x)
BY DEF Settles, QueueOf, SameOwners

LEMMA SettlesWork ==
  ASSUME OrderlyProgram, BusInv, OrderlyInv, WorkInv, NEW t \in Tasks, NEW p, NEW w,
         Settles(t, p, w)
  PROVE  WorkInv'
<1>1. \A x \in Pipes : QueueOf(x)' = QueueOf(x)
  BY SettlesQueues
<1>2. p \in Pipes /\ Minds(t, p) /\ ValidPipe(p) /\ pc[t] = "rcvRead" /\ loc[t].pipe = p
  BY DEF Settles
<1>3. EntryOK(p)'
  <2>1. ValidPipe(p)' /\ PipeTbl'[p].ToTrashBuff = NULL
    BY <1>2, QuietOwners DEF Settles
  <2> QED
    BY <2>1 DEF EntryOK
<1>4. \A x \in handles'[AppOf[t]] : Owns(AppOf[t], x)'
  BY <1>2, HandlesKept DEF Settles
<1>5. WorkerOK(t)'
  <2>1. CASE pc'[t] # "deleted"
    <3>1. pc'[t] \notin Receiving \cup {"deleted"}
      BY <2>1 DEF Settles, Receiving
    <3> QED
      BY <1>4, <3>1, AwayOK DEF Settles
  <2>2. CASE pc'[t] = "deleted"
    <3>1. loc[t].deleting /\ loc[t].status # "ok" /\ loc'[t].pipe = p /\ loc'[t].msg = NULL
          /\ loc'[t].timeout = "POLL"
      BY <2>2 DEF Settles
    <3>2. HoldsNothing(p) /\ loc[t].msg = NULL
      BY <1>2, <3>1 DEF WorkInv, WorkerOK
    <3>3. HoldsNothing(p)'
      BY <1>1, <1>2, <3>2 DEF HoldsNothing, Settles
    <3> QED
      BY <1>4, <2>2, <3>1, <3>3 DEF WorkerOK, Receiving
  <2> QED
    BY <2>1, <2>2
<1>6. \A q \in QueueIds : QueueFits(q)'
  BY DEF Settles, WorkInv, QueueFits
<1>7. \A x \in Pipes \ {p} : SameEntry(x) /\ QueueOf(x)' = QueueOf(x)
  BY <1>1 DEF Settles, SameEntry
<1>8. {p} \in SUBSET Pipes /\ loc[t].pipe \in {p} /\ OthersStay(t)
  BY <1>2 DEF Settles
<1>9. \A x \in {p} : Minds(t, x) /\ EntryOK(x)'
  BY <1>2, <1>3
<1>10. \A u \in Tasks \ {t} : handles'[AppOf[u]] = handles[AppOf[u]]
  BY DEF Settles
<1> QED
  BY <1>5, <1>6, <1>7, <1>8, <1>9, <1>10, WorkStep

(* Every buffer loses the reference it had from ToTrashBuff.               *)
LEMMA SettlesBuffers ==
  ASSUME ShortQueues, BusInv, WorkInv, BuffersRefCounted, NEW t \in Tasks,
         NEW p, NEW w, Settles(t, p, w)
  PROVE  /\ BuffersRefCounted'
         /\ \A b \in Bufs : Places(b) # {} \/ Takers(b) # {} => buf'[b].MsgId = buf[b].MsgId
<1>1. w # NULL => w \in Bufs /\ p \in Holders(w)
  BY DEF Settles, Holders
<1>2. w # NULL => buf[w].UseCount # 0
  BY <1>1, Needed
<1>3. ASSUME NEW b \in Bufs
      PROVE  /\ buf'[b].UseCount = IF b = w THEN buf[b].UseCount - 1 ELSE buf[b].UseCount
             /\ b # w \/ buf[b].UseCount # 1 => buf'[b].MsgId = buf[b].MsgId
  BY <1>2, DecrFacts DEF Settles, BusInv, TransferOK
<1>4. ASSUME NEW b \in Bufs, Places(b) # {} \/ Takers(b) # {}
      PROVE  buf'[b].MsgId = buf[b].MsgId
  <2>1. b = w => buf[b].UseCount # 1
    BY <1>1, <1>4, Needed, SoftwareBusAssumption
  <2> QED
    BY <1>3, <2>1
<1>5. ASSUME NEW b \in Bufs PROVE buf'[b].UseCount = References(b)'
  <2>1. /\ IsFiniteSet(Holders(b)) /\ IsFiniteSet(Takers(b))
        /\ Cardinality(Places(b)) \in Nat /\ Cardinality(Holders(b)) \in Nat
        /\ Cardinality(Takers(b)) \in Nat
    BY CountsFinite
  <2>2. Places(b)' = Places(b)
    BY DEF Settles, Places
  <2>3. PICK H, T, g : H = Holders(b) \ {p} /\ T = Takers(b) \ {t} /\ g = loc[t].msg
    OBVIOUS
  <2>4. /\ p \in Holders(b) <=> b = w
        /\ Holders(b)' = IF b = g THEN H \cup {p} ELSE H
    BY <2>3, SoftwareBusAssumption DEF Settles, Holders
  <2>5. /\ t \in Takers(b) <=> b = g
        /\ Takers(b)' = T
    BY <2>3, SoftwareBusAssumption DEF Settles, Takers, OthersStay
  <2>6. IsFiniteSet(H) /\ Cardinality(H) \in Nat
        /\ Cardinality(H) = IF b = w THEN Cardinality(Holders(b)) - 1 ELSE Cardinality(Holders(b))
    <3>1. IsFiniteSet(H)
      BY <2>1, <2>3, FS_RemoveElement
    <3>2. Cardinality(H) = IF p \in Holders(b) THEN Cardinality(Holders(b)) - 1
                           ELSE Cardinality(Holders(b))
      BY <2>1, <2>3, FS_RemoveElement
    <3> QED
      BY <2>4, <3>1, <3>2, FS_CardinalityType
  <2>7. Cardinality(T) = IF b = g THEN Cardinality(Takers(b)) - 1 ELSE Cardinality(Takers(b))
    <3>1. Cardinality(T) = IF t \in Takers(b) THEN Cardinality(Takers(b)) - 1
                           ELSE Cardinality(Takers(b))
      BY <2>1, <2>3, FS_RemoveElement
    <3> QED
      BY <2>5, <3>1
  <2>8. Cardinality(Holders(b)') = IF b = g THEN Cardinality(H) + 1 ELSE Cardinality(H)
    <3>1. Cardinality(H \cup {p}) = Cardinality(H) + 1
      <4>1. p \notin H
        BY <2>3
      <4> QED
        BY <2>6, <4>1, FS_AddElement
    <3> QED
      BY <2>4, <3>1
  <2>9. /\ References(b) = Cardinality(Places(b)) + Cardinality(Holders(b)) + Cardinality(Takers(b))
        /\ References(b)' = Cardinality(Places(b)') + Cardinality(Holders(b)')
                            + Cardinality(Takers(b)')
    BY DEF References, Places, PlacesIn, OpenQueues, OpenIn, Holders, Takers
  <2>10. References(b)' = IF b = w THEN References(b) - 1 ELSE References(b)
    BY <2>1, <2>2, <2>5, <2>6, <2>7, <2>8, <2>9
  <2>11. buf[b].UseCount = References(b)
    BY DEF BuffersRefCounted
  <2> QED
    BY <1>3, <2>10, <2>11
<1> QED
  BY <1>4, <1>5 DEF BuffersRefCounted

(* The reader's message is settled, every other one is where it was.        *)
LEMMA SettlesHands ==
  ASSUME OrderlyProgram, BusInv, OrderlyInv, WorkInv, NEW t \in Tasks, NEW p, NEW w,
         Settles(t, p, w)
  PROVE  /\ InHand(p) = (IF loc[t].msg = NULL THEN {} ELSE {t}) /\ InHand(p)' = {}
         /\ \A x \in Pipes \ {p} : InHand(x)' = InHand(x) /\ t \notin InHand(x)
<1>1. /\ p \in Pipes /\ Minds(t, p) /\ loc[t].pipe = p /\ loc'[t].msg = NULL
      /\ \A u \in Tasks \ {t} : loc'[u] = loc[u]
  BY DEF Settles, OthersStay
<1>2. InHand(p) \subseteq {t}
  BY <1>1, OneHand
<1>3. InHand(p) = IF loc[t].msg = NULL THEN {} ELSE {t}
  BY <1>1, <1>2 DEF InHand
<1>4. InHand(p)' = {}
  BY <1>1, <1>2 DEF InHand
<1>5. ASSUME NEW x \in Pipes, x # p PROVE InHand(x)' = InHand(x) /\ t \notin InHand(x)
  BY <1>1, <1>5 DEF InHand
<1> QED
  BY <1>3, <1>4, <1>5

LEMMA SettlesTransit ==
  ASSUME OrderlyProgram, ShortQueues, BusInv, OrderlyInv, WorkInv, BuffersRefCounted,
         NEW t \in Tasks, NEW p, NEW w, Settles(t, p, w), NEW x \in Pipes, NEW m
  PROVE  InTransit(x, m)' =
           IF x = p /\ loc[t].msg # NULL /\ buf[loc[t].msg].MsgId = m
           THEN InTransit(x, m) - 1 ELSE InTransit(x, m)
<1>1. \A b \in Bufs : Places(b) # {} \/ Takers(b) # {} => buf'[b].MsgId = buf[b].MsgId
  BY SettlesBuffers
<1>2. QueueOf(x)' = QueueOf(x) /\ QueueOf(x) \in Seq(Bufs) /\ DOMAIN <<>> = {}
  BY SettlesQueues, QueueOfType
<1>3. ASSUME NEW i \in DOMAIN QueueOf(x)
      PROVE  buf'[QueueOf(x)[i]].MsgId = buf[QueueOf(x)[i]].MsgId
  <2>1. ValidPipe(x)
    BY <1>2, <1>3 DEF QueueOf, WorkInv, EntryOK
  <2>2. PICK q, b, s : q = PipeTbl[x].SysQueueId /\ b = QueueOf(x)[i] /\ s = <<q, i>>
    OBVIOUS
  <2>3. q \in OpenIn(queue) /\ QueueOf(x) = queue[q].msgs
    BY <2>1, <2>2, OwnQueue
  <2>4. b \in Bufs
    BY <1>2, <1>3, <2>2, ElementOfSeq, LenProperties
  <2>5. s[1] = q /\ s[2] = i
    BY <2>2
  <2>6. s \in PlacesIn(queue, b)
    BY <1>3, <2>2, <2>3, <2>5, PlacesLemma
  <2> QED
    BY <1>1, <2>2, <2>4, <2>6 DEF Places
<1>4. Waiting(x, m)' = Waiting(x, m)
  BY <1>2, <1>3 DEF Waiting
<1>5. /\ InTransit(x, m) = Cardinality(Waiting(x, m)) + Cardinality(Settling(x, m))
      /\ InTransit(x, m)' = Cardinality(Waiting(x, m)') + Cardinality(Settling(x, m)')
  BY DEF InTransit, Waiting, Settling
<1>6. /\ Cardinality(Waiting(x, m)) \in Nat
      /\ Cardinality(Settling(x, m)) \in Nat
  BY TransitFinite
<1>7. Cardinality({}) = 0 /\ Cardinality({t}) = 1
  BY FS_EmptySet, FS_Singleton
<1>8. CASE x = p
  <2>1. InHand(p) = (IF loc[t].msg = NULL THEN {} ELSE {t}) /\ InHand(p)' = {}
    BY SettlesHands
  <2>2. Settling(p, m)' = {}
    BY <2>1 DEF Settling
  <2>3. CASE loc[t].msg # NULL /\ buf[loc[t].msg].MsgId = m
    <3>1. Settling(p, m) = {t}
      BY <2>1, <2>3 DEF Settling
    <3> QED
      BY <1>4, <1>5, <1>6, <1>7, <1>8, <2>2, <2>3, <3>1
  <2>4. CASE ~(loc[t].msg # NULL /\ buf[loc[t].msg].MsgId = m)
    <3>1. Settling(p, m) = {}
      BY <2>1, <2>4 DEF Settling
    <3> QED
      BY <1>4, <1>5, <1>6, <1>7, <1>8, <2>2, <2>4, <3>1
  <2> QED
    BY <2>3, <2>4
<1>9. CASE x # p
  <2>1. InHand(x)' = InHand(x) /\ t \notin InHand(x)
    BY <1>9, SettlesHands
  <2>2. ASSUME NEW u \in InHand(x)
        PROVE  loc'[u] = loc[u] /\ buf'[loc[u].msg].MsgId = buf[loc[u].msg].MsgId
    <3>1. u \in Tasks /\ u # t /\ loc[u].msg # NULL
      BY <2>1 DEF InHand
    <3>2. loc[u].msg \in Bufs
      BY <3>1, BuffTypes DEF BusInv, TransferOK, ControlOK, Locals
    <3>3. loc'[u] = loc[u] /\ u \in Takers(loc[u].msg)
      BY <3>1 DEF Settles, OthersStay, Takers
    <3> QED
      BY <1>1, <3>2, <3>3
  <2>3. Settling(x, m)' = Settling(x, m)
    BY <2>1, <2>2 DEF Settling
  <2> QED
    BY <1>4, <1>5, <1>9, <2>3
<1> QED
  BY <1>8, <1>9

LEMMA HandCounts ==
  ASSUME BusInv, NEW t \in Tasks, NEW p \in Pipes, t \in InHand(p)
  PROVE  InTransit(p, buf[loc[t].msg].MsgId) >= 1
<1>1. PICK m : m = buf[loc[t].msg].MsgId
  OBVIOUS
<1>2. t \in Settling(p, m)
  BY <1>1 DEF Settling
<1>3. IsFiniteSet(Settling(p, m)) /\ Cardinality(Settling(p, m)) \in Nat
      /\ Cardinality(Waiting(p, m)) \in Nat
  BY TransitFinite
<1>4. Cardinality(Settling(p, m)) # 0
  BY <1>2, <1>3, FS_EmptySet
<1>5. InTransit(p, m) = Cardinality(Waiting(p, m)) + Cardinality(Settling(p, m))
  BY TransitParts
<1> QED
  BY <1>1, <1>3, <1>4, <1>5

(* One less than a short count of messages does not wrap.                   *)
LEMMA CountDownMod ==
  ASSUME NEW n \in Nat, n < U16 - 1
  PROVE  (n + 1 - 1) % U16 = n
BY DEF U16

LEMMA RcvFinishSettled ==
  ASSUME OrderlyProgram, ShortQueues, BusInv, BusInv', OrderlyInv, SettledInv, NEW t \in Tasks,
         RcvFinish(t)
  PROVE  SettledInv'
<1>1. PICK p, w, g : p = loc[t].pipe /\ w = PipeTbl[p].ToTrashBuff /\ g = loc[t].msg
  OBVIOUS
<1>2. WorkInv /\ CountInv /\ BuffersRefCounted /\ DepthsExact
  BY DEF SettledInv, CountInv
<1>3. Settles(t, p, w)
  BY <1>1, <1>2, RcvFinishSettles
<1>4. p \in Pipes /\ ValidPipe(p) /\ pc[t] = "rcvRead"
  BY <1>3 DEF Settles
<1>5. loc[t].status = "ok" <=> g # NULL
  BY <1>1, <1>2, <1>4 DEF WorkInv, WorkerOK
<1>6. WorkInv' /\ BuffersRefCounted'
  BY <1>2, <1>3, SettlesWork, SettlesBuffers
<1>7. \A x \in Pipes : QueueOf(x)' = QueueOf(x)
  BY <1>3, SettlesQueues
<1>8. IF g # NULL
      THEN /\ \E m \in MsgIdRead(g) : CountReceive(m, p)
           /\ DepthInUse' = [DepthInUse EXCEPT ![p] = (DepthInUse[p] - 1) % U16]
      ELSE UNCHANGED <<routeVars, DepthInUse>>
  BY <1>1, <1>4, <1>5 DEF RcvFinish
<1>9. /\ InHand(p) = (IF g = NULL THEN {} ELSE {t}) /\ InHand(p)' = {}
      /\ \A x \in Pipes \ {p} : InHand(x)' = InHand(x)
  BY <1>1, <1>2, <1>3, SettlesHands
<1>10. DepthsExact'
  <2>1. Cardinality({}) = 0 /\ Cardinality({t}) = 1
    BY FS_EmptySet, FS_Singleton
  <2>2. \A x \in Pipes : DepthInUse[x] = Len(QueueOf(x)) + Cardinality(InHand(x))
    BY <1>2 DEF DepthsExact
  <2>3. Len(QueueOf(p)) \in Nat /\ Len(QueueOf(p)) < U16 - 1
    <3>1. PipeTbl[p].SysQueueId \in QueueIds /\ QueueOf(p) = queue[PipeTbl[p].SysQueueId].msgs
      BY <1>2, <1>4, OwnQueue
    <3> QED
      BY <1>2, <1>4, <3>1, QueueShort, QueueOfType
  <2>4. DepthInUse'[p] = Len(QueueOf(p)')
    <3>1. CASE g = NULL
      <4>1. DepthInUse'[p] = DepthInUse[p] /\ DepthInUse[p] = Len(QueueOf(p)) + 0
        BY <1>4, <1>8, <1>9, <2>1, <2>2, <3>1
      <4>2. Len(QueueOf(p)) + 0 = Len(QueueOf(p))
        BY <2>3
      <4> QED
        BY <1>4, <1>7, <4>1, <4>2
    <3>2. CASE g # NULL
      <4>1. DepthInUse[p] = Len(QueueOf(p)) + 1
        BY <1>4, <1>9, <2>1, <2>2, <3>2
      <4>2. (DepthInUse[p] - 1) % U16 = Len(QueueOf(p))
        BY <2>3, <4>1, CountDownMod
      <4>3. DepthInUse'[p] = (DepthInUse[p] - 1) % U16
        BY <1>4, <1>8, <3>2 DEF BusInv, TransferOK, PipesOK
      <4> QED
        BY <1>4, <1>7, <4>2, <4>3
    <3> QED
      BY <3>1, <3>2
  <2>5. DepthInUse'[p] = Len(QueueOf(p)') + Cardinality(InHand(p)')
    <3>1. Len(QueueOf(p)') + 0 = Len(QueueOf(p)')
      BY <1>4, <1>7, <2>3
    <3> QED
      BY <1>9, <2>1, <2>4, <3>1
  <2>6. ASSUME NEW x \in Pipes, x # p PROVE DepthInUse'[x] = DepthInUse[x]
    BY <1>8, <2>6 DEF BusInv, TransferOK, PipesOK
  <2>7. ASSUME NEW x \in Pipes, x # p
        PROVE  DepthInUse'[x] = Len(QueueOf(x)') + Cardinality(InHand(x)')
    BY <1>7, <1>9, <2>2, <2>6, <2>7
  <2> QED
    BY <2>5, <2>7 DEF DepthsExact
<1>11. NoWedgedSubscription'
  <2>1. ASSUME NEW r \in RouteIdxs, NEW i \in DOMAIN RoutingTbl'[r].ListHeadPtr,
               NEW d, d = RoutingTbl'[r].ListHeadPtr[i], NEW m, m = RoutingTbl'[r].MsgId
        PROVE  d.BuffCount <= InTransit(d.PipeId, m)'
    <3>1. /\ RouteInv /\ RoutingTbl' \in [RouteIdxs -> RouteEntry]
          /\ RoutingTbl \in [RouteIdxs -> RouteEntry]
      BY DEF BusInv, RouteInv, RouteTypeOK
    <3>2. d.PipeId \in Pipes /\ d.BuffCount \in Nat
      BY <2>1, <3>1, NodeType
    <3>3. InTransit(d.PipeId, m) \in Nat
      BY <3>2, TransitFinite
    <3>4. InTransit(d.PipeId, m)' =
            IF d.PipeId = p /\ g # NULL /\ buf[g].MsgId = m
            THEN InTransit(d.PipeId, m) - 1 ELSE InTransit(d.PipeId, m)
      BY <1>1, <1>2, <1>3, <3>2, SettlesTransit
    <3>5. \A j \in DOMAIN RoutingTbl[r].ListHeadPtr :
            RoutingTbl[r].ListHeadPtr[j].BuffCount
              <= InTransit(RoutingTbl[r].ListHeadPtr[j].PipeId, RoutingTbl[r].MsgId)
      BY DEF SettledInv, CountInv, NoWedgedSubscription
    <3>6. CASE g = NULL
      <4>1. RoutingTbl' = RoutingTbl
        BY <1>8, <3>6 DEF routeVars
      <4> QED
        BY <2>1, <3>3, <3>4, <3>5, <3>6, <4>1
    <3>7. CASE g # NULL
      <4>1. g \in Bufs /\ t \in Takers(g)
        BY <1>1, <3>7, BuffTypes DEF Takers, BusInv, TransferOK, ControlOK, Locals
      <4>2. buf[g].UseCount \in Nat /\ buf[g].UseCount # 0
        BY <1>2, <4>1, Needed
      <4>3. PICK k \in MsgIdRead(g) : CountReceive(k, p)
        BY <1>8, <3>7
      <4>4. k = buf[g].MsgId
        BY <4>2, <4>3 DEF MsgIdRead
      <4>5. k \in MsgIds
        BY <4>1, <4>2, <4>4 DEF BusInv, TransferOK, BuffersOK
      <4>6. PICK old : old = RoutingTbl[r].ListHeadPtr[i]
        OBVIOUS
      <4>7. /\ m = RoutingTbl[r].MsgId /\ i \in DOMAIN RoutingTbl[r].ListHeadPtr
            /\ d.PipeId = old.PipeId /\ d.BuffCount <= old.BuffCount
            /\ d.PipeId = p /\ m = k => d.BuffCount = 0 \/ d.BuffCount = old.BuffCount - 1
        BY <1>4, <2>1, <3>1, <4>3, <4>5, <4>6, CountedDown
      <4>8. old.BuffCount \in Nat /\ old.BuffCount <= InTransit(d.PipeId, m)
        BY <3>1, <3>5, <4>6, <4>7, NodeType
      <4>9. CASE d.PipeId = p /\ m = k
        <5>1. InTransit(d.PipeId, m)' = InTransit(d.PipeId, m) - 1
          BY <3>4, <3>7, <4>4, <4>9
        <5>2. InTransit(p, m) >= 1
          BY <1>1, <1>4, <1>9, <3>7, <4>4, <4>9, HandCounts
        <5>3. InTransit(d.PipeId, m) >= 1
          BY <4>9, <5>2
        <5>4. d.BuffCount = 0 \/ d.BuffCount = old.BuffCount - 1
          BY <4>7, <4>9
        <5> QED
          BY <3>3, <4>8, <5>1, <5>3, <5>4
      <4>10. CASE ~(d.PipeId = p /\ m = k)
        <5>1. InTransit(d.PipeId, m)' = InTransit(d.PipeId, m)
          BY <3>4, <4>4, <4>10
        <5> QED
          BY <3>2, <3>3, <4>7, <4>8, <5>1
      <4> QED
        BY <4>9, <4>10
    <3> QED
      BY <3>6, <3>7
  <2> QED
    BY <2>1 DEF NoWedgedSubscription
<1> QED
  BY <1>6, <1>10, <1>11 DEF SettledInv, CountInv

-----------------------------------------------------------------------------
(* Sending *)

(* What CFE_SB_SendMsgFull does for message id m when it has buffer b: the  *)
(* destinations at positions D of the list get it.                          *)
PutOn(list, D, q) == \E i \in D : PipeTbl[list[i].PipeId].SysQueueId = q
GoesTo(list, D, x) == \E i \in D : list[i].PipeId = x

Posts(m, b, list, D) ==
  /\ m \in MsgIds /\ IsMapped(m) /\ list = RoutingTbl[MsgMap[m]].ListHeadPtr
  /\ b \in Bufs /\ buf[b].UseCount = 0
  /\ D \subseteq DOMAIN list /\ IsFiniteSet(D)
  /\ \A i \in D : LET q == PipeTbl[list[i].PipeId].SysQueueId
                  IN Len(queue[q].msgs) < queue[q].depth
  /\ \A q \in QueueIds :
       /\ queue'[q].open = queue[q].open /\ queue'[q].depth = queue[q].depth
       /\ queue'[q].msgs = IF PutOn(list, D, q) THEN Append(queue[q].msgs, b)
                           ELSE queue[q].msgs
  /\ \A x \in Pipes : DepthInUse'[x] = IF GoesTo(list, D, x) THEN (DepthInUse[x] + 1) % U16
                                       ELSE DepthInUse[x]
  /\ \A c \in Bufs \ {b} : buf'[c] = buf[c]
  /\ IF D = {} THEN buf' = buf ELSE buf'[b].UseCount = Cardinality(D) /\ buf'[b].MsgId = m
  /\ \A r \in RouteIdxs :
       /\ RoutingTbl'[r].MsgId = RoutingTbl[r].MsgId
       /\ DOMAIN RoutingTbl'[r].ListHeadPtr = DOMAIN RoutingTbl[r].ListHeadPtr
       /\ \A i \in DOMAIN RoutingTbl[r].ListHeadPtr :
            LET old == RoutingTbl[r].ListHeadPtr[i]
                new == RoutingTbl'[r].ListHeadPtr[i]
            IN /\ new.PipeId = old.PipeId
               /\ new.BuffCount = IF r = MsgMap[m] /\ i \in D THEN old.BuffCount + 1
                                  ELSE old.BuffCount

(* CountSend, node by node.                                                *)
LEMMA CountedUp ==
  ASSUME RouteInv, NEW m \in MsgIds, IsMapped(m), NEW incr, NEW D, CountSend(m, incr, D),
         NEW r \in RouteIdxs
  PROVE  /\ RoutingTbl'[r].MsgId = RoutingTbl[r].MsgId
         /\ DOMAIN RoutingTbl'[r].ListHeadPtr = DOMAIN RoutingTbl[r].ListHeadPtr
         /\ \A i \in DOMAIN RoutingTbl[r].ListHeadPtr :
              LET old == RoutingTbl[r].ListHeadPtr[i]
                  new == RoutingTbl'[r].ListHeadPtr[i]
              IN /\ new.PipeId = old.PipeId
                 /\ new.BuffCount = IF r = MsgMap[m] /\ i \in D THEN old.BuffCount + 1
                                    ELSE old.BuffCount
<1>1. PICK k, list : k = MsgMap[m] /\ list = RoutingTbl[k].ListHeadPtr
  OBVIOUS
<1> DEFINE new == [i \in DOMAIN list |->
                     IF i \in D THEN [list[i] EXCEPT !.BuffCount = @ + 1] ELSE list[i]]
           seq == IF m \in Tlm /\ incr THEN (RoutingTbl[k].SeqCnt + 1) % SeqMod
                  ELSE RoutingTbl[k].SeqCnt
           e == [RoutingTbl[k] EXCEPT !.SeqCnt = seq, !.ListHeadPtr = new]
<1>2. RoutingTbl' = [RoutingTbl EXCEPT ![k] = e]
  BY <1>1 DEF CountSend
<1>3. k \in RouteIdxs
  BY <1>1, MappedRoute
<1>4. list \in Seq(Dest) /\ RoutingTbl[k] \in RouteEntry
  BY <1>1, <1>3, EntryLemma
<1>5. \A i \in DOMAIN list : list[i] \in Dest
  BY <1>4, LenProperties, ElementOfSeq
<1>6. /\ DOMAIN new = DOMAIN list
      /\ \A i \in DOMAIN list :
           /\ new[i].PipeId = list[i].PipeId
           /\ new[i].BuffCount = IF i \in D THEN list[i].BuffCount + 1 ELSE list[i].BuffCount
  BY <1>5 DEF Dest
<1> HIDE DEF new, seq
<1>7. e.ListHeadPtr = new /\ e.MsgId = RoutingTbl[k].MsgId
  BY <1>4 DEF RouteEntry
<1> HIDE DEF e
<1>8. RoutingTbl'[r] = IF r = k THEN e ELSE RoutingTbl[r]
  BY <1>2, <1>3 DEF RouteInv, RouteTypeOK
<1>9. CASE r = k
  BY <1>1, <1>6, <1>7, <1>8, <1>9
<1>10. CASE r # k
  BY <1>1, <1>8, <1>10
<1> QED
  BY <1>9, <1>10

LEMMA SendMsgFullPosts ==
  ASSUME BusInv, NEW m \in MsgIds, NEW a, NEW data, NEW incr, SendMsgFull(a, m, data, incr)
  PROVE  \/ UNCHANGED <<routeVars, queue, DepthInUse, buf>>
         \/ \E b, list, D : Posts(m, b, list, D)
<1>1. SUFFICES ASSUME ~UNCHANGED <<routeVars, queue, DepthInUse, buf>>
               PROVE  \E b, list, D : Posts(m, b, list, D)
  OBVIOUS
<1>2. IsMapped(m)
  BY <1>1 DEF SendMsgFull
<1> DEFINE D == Accepting(m, a)
           list == RoutingTbl[MsgMap[m]].ListHeadPtr
           pipes == {list[i].PipeId : i \in D}
           qs == {PipeTbl[p].SysQueueId : p \in pipes}
<1>3. PICK b \in FreeBufs :
        /\ CountSend(m, incr, D)
        /\ queue' = [q \in QueueIds |->
             IF q \in qs THEN [queue[q] EXCEPT !.msgs = Append(@, b)] ELSE queue[q]]
        /\ DepthInUse' = [p \in Pipes |->
             IF p \in pipes THEN (DepthInUse[p] + 1) % U16 ELSE DepthInUse[p]]
        /\ buf' = IF D = {} THEN buf ELSE
             [buf EXCEPT ![b] = [UseCount |-> Cardinality(D), MsgId |-> m, data |-> data]]
  BY <1>1, <1>2, Zenon DEF SendMsgFull
<1>4. D \subseteq DOMAIN list /\ IsFiniteSet(D) /\ Cardinality(D) \in Nat
  BY <1>2, AcceptingLemma DEF BusInv
<1>5. \A i \in D : LET q == PipeTbl[list[i].PipeId].SysQueueId
                   IN Len(queue[q].msgs) < queue[q].depth
  BY DEF Accepting
<1>6. b \in Bufs /\ buf[b].UseCount = 0
  BY DEF FreeBufs
<1>7. /\ \A q : q \in qs <=> PutOn(list, D, q)
      /\ \A x : x \in pipes <=> GoesTo(list, D, x)
  BY DEF PutOn, GoesTo
<1> HIDE DEF D, list, qs, pipes
<1>8. ASSUME NEW q \in QueueIds
      PROVE  /\ queue'[q].open = queue[q].open /\ queue'[q].depth = queue[q].depth
             /\ queue'[q].msgs = IF PutOn(list, D, q) THEN Append(queue[q].msgs, b)
                                 ELSE queue[q].msgs
  <2>1. queue[q] \in QueueD
    BY DEF BusInv, TransferOK, PipesOK
  <2> DEFINE e == [queue[q] EXCEPT !.msgs = Append(queue[q].msgs, b)]
  <2>2. /\ e.open = queue[q].open /\ e.depth = queue[q].depth
        /\ e.msgs = Append(queue[q].msgs, b)
    BY <2>1 DEF QueueD
  <2>3. queue'[q] = IF q \in qs THEN e ELSE queue[q]
    BY <1>3
  <2> HIDE DEF e
  <2> QED
    BY <1>7, <2>2, <2>3
<1>9. \A x \in Pipes : DepthInUse'[x] = IF GoesTo(list, D, x) THEN (DepthInUse[x] + 1) % U16
                                        ELSE DepthInUse[x]
  BY <1>3, <1>7
<1>10. /\ \A c \in Bufs \ {b} : buf'[c] = buf[c]
       /\ IF D = {} THEN buf' = buf ELSE buf'[b].UseCount = Cardinality(D) /\ buf'[b].MsgId = m
  <2>1. buf \in [Bufs -> BufferD]
    BY DEF BusInv, TransferOK, BuffersOK
  <2> QED
    BY <1>3, <1>6, <2>1
<1>11. list = RoutingTbl[MsgMap[m]].ListHeadPtr
  BY DEF list
<1>12. \A r \in RouteIdxs :
         /\ RoutingTbl'[r].MsgId = RoutingTbl[r].MsgId
         /\ DOMAIN RoutingTbl'[r].ListHeadPtr = DOMAIN RoutingTbl[r].ListHeadPtr
         /\ \A i \in DOMAIN RoutingTbl[r].ListHeadPtr :
              LET old == RoutingTbl[r].ListHeadPtr[i]
                  new == RoutingTbl'[r].ListHeadPtr[i]
              IN /\ new.PipeId = old.PipeId
                 /\ new.BuffCount = IF r = MsgMap[m] /\ i \in D THEN old.BuffCount + 1
                                    ELSE old.BuffCount
  BY <1>2, <1>3, CountedUp DEF BusInv
<1>13. Posts(m, b, list, D)
  BY <1>2, <1>4, <1>5, <1>6, <1>8, <1>9, <1>10, <1>11, <1>12 DEF Posts
<1> QED
  BY <1>13

(* Every destination is a pipe in use with a queue of its own.              *)
LEMMA PostTargets ==
  ASSUME BusInv, OrderlyInv, WorkInv, NEW m, NEW b, NEW list, NEW D, Posts(m, b, list, D),
         NEW i \in D, NEW x, x = list[i].PipeId, NEW q, q = PipeTbl[x].SysQueueId
  PROVE  /\ x \in Pipes /\ ValidPipe(x) /\ Listed(MsgMap[m], x) /\ MsgMap[m] \in RouteIdxs
         /\ q \in OpenIn(queue) /\ q \in QueueIds /\ q # NoQueue /\ QueueOf(x) = queue[q].msgs
         /\ \A y \in Pipes : y # x => PipeTbl[y].SysQueueId # q
         /\ GoesTo(list, D, x) /\ PutOn(list, D, q)
         /\ Len(queue[q].msgs) < queue[q].depth
<1>1. PICK r : r = MsgMap[m]
  OBVIOUS
<1>2. /\ m \in MsgIds /\ IsMapped(m) /\ list = RoutingTbl[r].ListHeadPtr
      /\ i \in DOMAIN list /\ Len(queue[q].msgs) < queue[q].depth
  BY <1>1 DEF Posts
<1>3. r \in RouteIdxs
  BY <1>1, <1>2, MappedRoute DEF BusInv
<1>4. x \in Pipes
  BY <1>2, <1>3, NodeType DEF BusInv, RouteInv, RouteTypeOK
<1>5. Listed(r, x)
  BY <1>2 DEF Listed, HasDest
<1>6. ValidPipe(x)
  BY <1>3, <1>4, <1>5 DEF OrderlyInv, ListedValid
<1>7. GoesTo(list, D, x) /\ PutOn(list, D, q)
  BY DEF GoesTo, PutOn
<1> QED
  BY <1>1, <1>2, <1>3, <1>4, <1>5, <1>6, <1>7, OwnQueue

LEMMA PostQueues ==
  ASSUME BusInv, OrderlyInv, WorkInv, NEW m, NEW b, NEW list, NEW D, Posts(m, b, list, D),
         UNCHANGED PipeTbl, NEW x \in Pipes
  PROVE  QueueOf(x)' = IF GoesTo(list, D, x) THEN Append(QueueOf(x), b) ELSE QueueOf(x)
<1>1. PICK q : q = PipeTbl[x].SysQueueId
  OBVIOUS
<1>2. q \in QueueIds \cup {NoQueue}
  BY <1>1, BuffTypes DEF BusInv, TransferOK
<1>3. q \in QueueIds => queue'[q].msgs = IF PutOn(list, D, q) THEN Append(queue[q].msgs, b)
                                         ELSE queue[q].msgs
  BY DEF Posts
<1>4. CASE GoesTo(list, D, x)
  <2>1. PICK i \in D : list[i].PipeId = x
    BY <1>4 DEF GoesTo
  <2>2. q \in QueueIds /\ q # NoQueue /\ PutOn(list, D, q)
    BY <1>1, <2>1, PostTargets
  <2> QED
    BY <1>1, <1>3, <1>4, <2>2 DEF QueueOf
<1>5. CASE ~GoesTo(list, D, x)
  <2>1. ~PutOn(list, D, q)
    <3>1. SUFFICES ASSUME NEW i \in D, PipeTbl[list[i].PipeId].SysQueueId = q PROVE FALSE
      BY DEF PutOn
    <3>2. list[i].PipeId # x
      BY <1>5 DEF GoesTo
    <3> QED
      BY <1>1, <3>1, <3>2, PostTargets
  <2> QED
    BY <1>1, <1>2, <1>3, <1>5, <2>1 DEF QueueOf
<1> QED
  BY <1>4, <1>5

(* A free buffer is nowhere.                                               *)
LEMMA FreeNowhere ==
  ASSUME BusInv, WorkInv, ShortQueues, BuffersRefCounted, NEW b \in Bufs, buf[b].UseCount = 0
  PROVE  Places(b) = {} /\ Holders(b) = {} /\ Takers(b) = {}
BY Needed

(* The places of buffer c in queues some of which have got b at their end.  *)
LEMMA AppendPlaces ==
  ASSUME BusInv, NEW Q, NEW b \in Bufs, NEW P,
         \A q \in QueueIds :
           /\ Q[q].open = queue[q].open
           /\ Q[q].msgs = IF q \in P THEN Append(queue[q].msgs, b) ELSE queue[q].msgs,
         NEW c \in Bufs, NEW s
  PROVE  s \in PlacesIn(Q, c) <=>
           \/ s \in Places(c)
           \/ /\ c = b /\ s[1] \in P /\ s[1] \in OpenIn(queue)
              /\ s = <<s[1], Len(queue[s[1]].msgs) + 1>>
<1>1. PICK q, n : q = s[1] /\ n = s[2]
  OBVIOUS
<1>2. /\ s \in PlacesIn(Q, c) <=>
           /\ q \in OpenIn(Q) /\ n \in DOMAIN Q[q].msgs
           /\ s = <<q, n>> /\ Q[q].msgs[n] = c
      /\ s \in Places(c) <=>
           /\ q \in OpenIn(queue) /\ n \in DOMAIN queue[q].msgs
           /\ s = <<q, n>> /\ queue[q].msgs[n] = c
  BY <1>1, PlacesLemma DEF Places
<1>3. q \in OpenIn(Q) <=> q \in OpenIn(queue)
  BY DEF OpenIn
<1>4. CASE q \notin OpenIn(queue)
  BY <1>1, <1>2, <1>3, <1>4
<1>5. CASE q \in OpenIn(queue) /\ q \notin P
  <2>1. Q[q].msgs = queue[q].msgs
    BY <1>5 DEF OpenIn
  <2> QED
    BY <1>1, <1>2, <1>3, <1>5, <2>1
<1>6. CASE q \in OpenIn(queue) /\ q \in P
  <2>1. PICK old, new : old = queue[q].msgs /\ new = Q[q].msgs
    OBVIOUS
  <2>2. /\ old \in Seq(Bufs) /\ Len(old) \in Nat /\ DOMAIN old = 1 .. Len(old)
    BY <1>6, <2>1, QueueType DEF OpenIn
  <2>3. new = Append(old, b)
    BY <1>6, <2>1 DEF OpenIn
  <2>4. /\ new \in Seq(Bufs) /\ Len(new) = Len(old) + 1
        /\ \A i \in 1 .. Len(old) : new[i] = old[i]
        /\ new[Len(old) + 1] = b
    BY <2>2, <2>3, AppendProperties
  <2>5. DOMAIN new = 1 .. Len(old) + 1
    BY <2>4, LenProperties
  <2>6. n \in DOMAIN new /\ new[n] = c <=>
          \/ n \in DOMAIN old /\ old[n] = c
          \/ n = Len(old) + 1 /\ c = b
    BY <2>2, <2>4, <2>5
  <2>7. s = <<q, Len(old) + 1>> => n = Len(old) + 1
    BY <1>1
  <2> QED
    BY <1>1, <1>2, <1>3, <1>6, <2>1, <2>6, <2>7
<1> QED
  BY <1>4, <1>5, <1>6

(* A buffer gets as many places as there are destinations.                  *)
LEMMA PostPlaces ==
  ASSUME BusInv, OrderlyInv, WorkInv, NEW m, NEW b, NEW list, NEW D, Posts(m, b, list, D),
         Places(b) = {}
  PROVE  /\ Cardinality(Places(b)') = Cardinality(D)
         /\ \A c \in Bufs : c # b => Places(c)' = Places(c)
<1>1. PICK P : P = {q \in QueueIds : PutOn(list, D, q)}
  OBVIOUS
<1>2. /\ b \in Bufs /\ IsFiniteSet(D)
      /\ \A q \in QueueIds :
           /\ queue'[q].open = queue[q].open
           /\ queue'[q].msgs = IF q \in P THEN Append(queue[q].msgs, b) ELSE queue[q].msgs
  BY <1>1 DEF Posts
<1>3. ASSUME NEW c \in Bufs, NEW s
      PROVE  s \in PlacesIn(queue', c) <=>
               \/ s \in Places(c)
               \/ /\ c = b /\ s[1] \in P /\ s[1] \in OpenIn(queue)
                  /\ s = <<s[1], Len(queue[s[1]].msgs) + 1>>
  BY <1>2, AppendPlaces
<1>4. \A c \in Bufs : c # b => Places(c)' = Places(c)
  BY <1>3 DEF Places
<1> DEFINE Own(i) == PipeTbl[list[i].PipeId].SysQueueId
           End(i) == <<Own(i), Len(queue[Own(i)].msgs) + 1>>
           F == [i \in D |-> End(i)]
<1>5. ASSUME NEW i \in D
      PROVE  Own(i) \in P /\ Own(i) \in OpenIn(queue)
  BY <1>1, PostTargets
<1>6. ASSUME NEW i \in D, NEW j \in D, Own(i) = Own(j) PROVE i = j
  <2>1. list[i].PipeId = list[j].PipeId
    BY <1>6, PostTargets
  <2>2. NoDup(list) /\ i \in DOMAIN list /\ j \in DOMAIN list
    BY MappedRoute, EntryLemma DEF Posts, BusInv
  <2> QED
    BY <2>1, <2>2 DEF NoDup
<1>7. \A q \in P : \E i \in D : Own(i) = q
  BY <1>1 DEF PutOn
<1> HIDE DEF Own
<1>8. ASSUME NEW i \in D PROVE End(i) \in PlacesIn(queue', b)
  <2>1. PICK s : s = End(i)
    OBVIOUS
  <2>2. s[1] = Own(i) /\ s = <<s[1], Len(queue[s[1]].msgs) + 1>>
    BY <2>1
  <2> QED
    BY <1>2, <1>3, <1>5, <2>1, <2>2
<1>9. ASSUME NEW s \in PlacesIn(queue', b) PROVE \E i \in D : End(i) = s
  <2>1. s[1] \in P /\ s = <<s[1], Len(queue[s[1]].msgs) + 1>>
    BY <1>2, <1>3, <1>9
  <2> QED
    BY <1>7, <2>1
<1>10. \A i, j \in D : End(i) = End(j) => i = j
  BY <1>6
<1> HIDE DEF End
<1>11. /\ F \in [D -> PlacesIn(queue', b)]
       /\ \A i, j \in D : F[i] = F[j] => i = j
       /\ \A s \in PlacesIn(queue', b) : \E i \in D : F[i] = s
  BY <1>8, <1>9, <1>10
<1> HIDE DEF F
<1>12. Cardinality(PlacesIn(queue', b)) = Cardinality(D)
  BY <1>2, <1>11, SameNumber
<1> QED
  BY <1>4, <1>12 DEF Places

(* Everybody else's messages stay where they are.                           *)
SameHands == \A u \in Tasks : /\ loc'[u].msg = loc[u].msg
                              /\ loc[u].msg # NULL => loc'[u].pipe = loc[u].pipe

LEMMA PostBuffers ==
  ASSUME ShortQueues, BusInv, OrderlyInv, WorkInv, BuffersRefCounted, NEW m, NEW b, NEW list,
         NEW D, Posts(m, b, list, D), UNCHANGED PipeTbl, SameHands
  PROVE  BuffersRefCounted'
<1>1. b \in Bufs /\ buf[b].UseCount = 0 /\ IsFiniteSet(D)
  BY DEF Posts
<1>2. Places(b) = {} /\ Holders(b) = {} /\ Takers(b) = {}
  BY <1>1, FreeNowhere
<1>3. ASSUME NEW c \in Bufs PROVE buf'[c].UseCount = References(c)'
  <2>1. Holders(c)' = Holders(c) /\ Takers(c)' = Takers(c)
    BY DEF Holders, Takers, SameHands
  <2>2. References(c)' = Cardinality(Places(c)') + Cardinality(Holders(c)')
                         + Cardinality(Takers(c)')
    BY DEF References, Places, PlacesIn, OpenQueues, OpenIn, Holders, Takers
  <2>3. CASE c # b
    <3>1. Places(c)' = Places(c)
      BY <1>2, <2>3, PostPlaces
    <3>2. References(c)' = References(c)
      BY <2>1, <2>2, <3>1, ReferencesParts
    <3>3. buf'[c] = buf[c]
      BY <2>3 DEF Posts
    <3> QED
      BY <3>2, <3>3 DEF BuffersRefCounted
  <2>4. CASE c = b
    <3>1. Cardinality(Places(b)') = Cardinality(D) /\ Cardinality(D) \in Nat
      BY <1>1, <1>2, PostPlaces, FS_CardinalityType
    <3>2. References(b)' = Cardinality(D)
      BY <1>2, <2>1, <2>2, <2>4, <3>1, FS_EmptySet
    <3>3. buf'[b].UseCount = Cardinality(D)
      BY <1>1, FS_EmptySet DEF Posts
    <3> QED
      BY <2>4, <3>2, <3>3
  <2> QED
    BY <2>3, <2>4
<1> QED
  BY <1>3 DEF BuffersRefCounted

LEMMA CountUpMod ==
  ASSUME NEW n \in Nat, NEW h \in Nat, NEW d \in Nat, n < d, d < U16 - 1, h <= 1
  PROVE  (n + h + 1) % U16 = n + 1 + h
BY DEF U16

LEMMA FewHands ==
  ASSUME OrderlyProgram, OrderlyInv, WorkInv, NEW x \in Pipes
  PROVE  Cardinality(InHand(x)) \in Nat /\ Cardinality(InHand(x)) <= 1
<1>1. CASE InHand(x) = {}
  BY <1>1, FS_EmptySet
<1>2. CASE InHand(x) # {}
  <2>1. PICK u \in InHand(x) : TRUE
    BY <1>2
  <2>2. u \in Tasks /\ InHand(x) \subseteq {u}
    BY <2>1, InHandMinds, MindsAlone DEF InHand
  <2>3. InHand(x) = {u}
    BY <2>1, <2>2
  <2> QED
    BY <2>3, FS_Singleton
<1> QED
  BY <1>1, <1>2

LEMMA PostDepths ==
  ASSUME OrderlyProgram, ShortQueues, BusInv, OrderlyInv, WorkInv, DepthsExact, NEW m, NEW b,
         NEW list, NEW D, Posts(m, b, list, D), UNCHANGED PipeTbl, SameHands
  PROVE  DepthsExact'
<1>1. ASSUME NEW x \in Pipes PROVE DepthInUse'[x] = Len(QueueOf(x)') + Cardinality(InHand(x)')
  <2>1. InHand(x)' = InHand(x)
    BY DEF InHand, SameHands
  <2>2. DepthInUse[x] = Len(QueueOf(x)) + Cardinality(InHand(x))
    BY DEF DepthsExact
  <2>3. QueueOf(x)' = IF GoesTo(list, D, x) THEN Append(QueueOf(x), b) ELSE QueueOf(x)
    BY PostQueues
  <2>4. DepthInUse'[x] = IF GoesTo(list, D, x) THEN (DepthInUse[x] + 1) % U16 ELSE DepthInUse[x]
    BY DEF Posts
  <2>5. CASE GoesTo(list, D, x)
    <3>1. PICK i \in D : list[i].PipeId = x
      BY <2>5 DEF GoesTo
    <3>2. PICK q, n, h, d : /\ q = PipeTbl[x].SysQueueId /\ n = Len(QueueOf(x))
                            /\ h = Cardinality(InHand(x)) /\ d = queue[q].depth
      OBVIOUS
    <3>3. q \in QueueIds /\ QueueOf(x) = queue[q].msgs /\ n < d
      BY <3>1, <3>2, PostTargets
    <3>4. n \in Nat /\ d \in Nat /\ QueueOf(x) \in Seq(Bufs)
      BY <3>2, <3>3, QueueType
    <3>5. d < U16 - 1
      <4>1. d \in Depths \/ d = 0
        BY <3>2, <3>3 DEF WorkInv, QueueFits
      <4>2. 0 < U16 - 1
        BY DEF U16
      <4> QED
        BY <4>1, <4>2 DEF ShortQueues
    <3>6. h \in Nat /\ h <= 1
      BY <3>2, FewHands
    <3>7. (n + h + 1) % U16 = n + 1 + h
      BY <3>3, <3>4, <3>5, <3>6, CountUpMod
    <3>8. Len(QueueOf(x)') = n + 1
      <4>1. b \in Bufs
        BY DEF Posts
      <4>2. Len(Append(QueueOf(x), b)) = Len(QueueOf(x)) + 1
        BY <3>4, <4>1, AppendProperties
      <4> QED
        BY <2>3, <2>5, <3>2, <4>2
    <3> QED
      <4>1. DepthInUse'[x] = (n + h + 1) % U16
        BY <2>2, <2>4, <2>5, <3>2
      <4>2. Cardinality(InHand(x)') = h
        BY <2>1, <3>2
      <4> QED
        BY <3>7, <3>8, <4>1, <4>2
  <2>6. CASE ~GoesTo(list, D, x)
    BY <2>1, <2>2, <2>3, <2>4, <2>6
  <2> QED
    BY <2>5, <2>6
<1> QED
  BY <1>1 DEF DepthsExact

(* Every destination has one more message of this id in transit.            *)
LEMMA PostTransit ==
  ASSUME ShortQueues, BusInv, OrderlyInv, WorkInv, BuffersRefCounted, NEW m, NEW b, NEW list,
         NEW D, Posts(m, b, list, D), UNCHANGED PipeTbl, SameHands, NEW x \in Pipes, NEW k
  PROVE  InTransit(x, k)' = IF GoesTo(list, D, x) /\ k = m THEN InTransit(x, k) + 1
                            ELSE InTransit(x, k)
<1>1. b \in Bufs /\ buf[b].UseCount = 0 /\ \A c \in Bufs : c # b => buf'[c] = buf[c]
  BY DEF Posts
<1>2. Places(b) = {} /\ Takers(b) = {}
  BY <1>1, FreeNowhere
<1>3. PICK old, new : old = QueueOf(x) /\ new = QueueOf(x)'
  OBVIOUS
<1>4. old \in Seq(Bufs) /\ Len(old) \in Nat /\ DOMAIN old = 1 .. Len(old)
  BY <1>3, QueueOfType
<1>5. new = IF GoesTo(list, D, x) THEN Append(old, b) ELSE old
  BY <1>3, PostQueues
<1>6. ASSUME NEW i \in DOMAIN old
      PROVE  old[i] \in Bufs /\ buf'[old[i]].MsgId = buf[old[i]].MsgId
  <2>1. old[i] \in Bufs
    BY <1>4, <1>6, ElementOfSeq
  <2>2. old[i] # b
    <3>1. SUFFICES ASSUME old[i] = b PROVE FALSE
      OBVIOUS
    <3>2. ValidPipe(x)
      BY <1>3, <1>6 DEF QueueOf, WorkInv, EntryOK
    <3>3. PICK q, s : q = PipeTbl[x].SysQueueId /\ s = <<q, i>>
      OBVIOUS
    <3>4. q \in OpenIn(queue) /\ old = queue[q].msgs
      BY <1>3, <3>2, <3>3, OwnQueue
    <3>5. s[1] = q /\ s[2] = i
      BY <3>3
    <3>6. s \in PlacesIn(queue, b)
      BY <1>6, <3>1, <3>3, <3>4, <3>5, PlacesLemma
    <3> QED
      BY <1>2, <3>6 DEF Places
  <2> QED
    BY <1>1, <2>1, <2>2
<1>7. Settling(x, k)' = Settling(x, k)
  <2>1. InHand(x)' = InHand(x)
    BY DEF InHand, SameHands
  <2>2. ASSUME NEW u \in InHand(x)
        PROVE  loc'[u].msg = loc[u].msg /\ buf'[loc[u].msg].MsgId = buf[loc[u].msg].MsgId
    <3>1. u \in Tasks /\ loc[u].msg # NULL
      BY DEF InHand
    <3>2. loc[u].msg \in Bufs
      BY <3>1 DEF BusInv, TransferOK, ControlOK, Locals
    <3>3. loc[u].msg # b
      BY <1>2, <3>1 DEF Takers
    <3> QED
      BY <1>1, <3>1, <3>2, <3>3 DEF SameHands
  <2> QED
    BY <2>1, <2>2 DEF Settling
<1>8. /\ InTransit(x, k) = Cardinality(Waiting(x, k)) + Cardinality(Settling(x, k))
      /\ InTransit(x, k)' = Cardinality(Waiting(x, k)') + Cardinality(Settling(x, k)')
  BY DEF InTransit, Waiting, Settling
<1>9. /\ IsFiniteSet(Waiting(x, k)) /\ Cardinality(Waiting(x, k)) \in Nat
      /\ Cardinality(Settling(x, k)) \in Nat
  BY TransitFinite
<1>10. CASE ~GoesTo(list, D, x)
  <2>1. Waiting(x, k)' = Waiting(x, k)
    BY <1>3, <1>5, <1>6, <1>10 DEF Waiting
  <2> QED
    BY <1>7, <1>8, <1>10, <2>1
<1>11. CASE GoesTo(list, D, x)
  <2>1. D # {}
    BY <1>11 DEF GoesTo
  <2>2. buf'[b].MsgId = m
    BY <2>1 DEF Posts
  <2>3. /\ new \in Seq(Bufs) /\ Len(new) = Len(old) + 1
        /\ \A i \in 1 .. Len(old) : new[i] = old[i]
        /\ new[Len(old) + 1] = b
    BY <1>1, <1>4, <1>5, <1>11, AppendProperties
  <2>4. DOMAIN new = 1 .. Len(old) + 1
    BY <2>3, LenProperties
  <2>5. PICK W, V, n : W = Waiting(x, k) /\ V = Waiting(x, k)' /\ n = Len(old) + 1
    OBVIOUS
  <2>6. ASSUME NEW i PROVE i \in V <=> i \in W \/ (i = n /\ k = m)
    <3>1. i \in V <=> i \in DOMAIN new /\ buf'[new[i]].MsgId = k
      BY <1>3, <2>5 DEF Waiting
    <3>2. i \in W <=> i \in DOMAIN old /\ buf[old[i]].MsgId = k
      BY <1>3, <2>5 DEF Waiting
    <3>3. i \in DOMAIN new <=> i \in DOMAIN old \/ i = n
      BY <1>4, <2>4, <2>5
    <3>4. n \notin DOMAIN old /\ new[n] = b
      BY <1>4, <2>3, <2>5
    <3>5. i \in DOMAIN old => new[i] = old[i] /\ buf'[old[i]].MsgId = buf[old[i]].MsgId
      BY <1>4, <1>6, <2>3
    <3> QED
      BY <2>2, <3>1, <3>2, <3>3, <3>4, <3>5
  <2>7. n \notin W
    BY <1>3, <1>4, <2>5 DEF Waiting
  <2>8. Cardinality(V) = IF k = m THEN Cardinality(W) + 1 ELSE Cardinality(W)
    <3>1. V = IF k = m THEN W \cup {n} ELSE W
      BY <2>6
    <3>2. Cardinality(W \cup {n}) = Cardinality(W) + 1
      BY <1>9, <2>5, <2>7, FS_AddElement
    <3> QED
      BY <3>1, <3>2
  <2> QED
    BY <1>7, <1>8, <1>9, <1>11, <2>5, <2>8
<1> QED
  BY <1>10, <1>11

LEMMA PostWork ==
  ASSUME OrderlyProgram, BusInv, OrderlyInv, WorkInv, NEW m, NEW b, NEW list, NEW D,
         Posts(m, b, list, D), UNCHANGED <<PipeTbl, handles>>, NEW t \in Tasks, OthersStay(t),
         pc[t] \in {"idle", "report"}, pc'[t] \in {"idle", "report"},
         loc'[t].msg = NULL, loc'[t].timeout = "POLL"
  PROVE  WorkInv'
<1>1. ASSUME NEW x \in Pipes
      PROVE  /\ SameEntry(x)
             /\ QueueOf(x)' = QueueOf(x) \/ \E r \in RouteIdxs : Listed(r, x)
  <2>1. SameEntry(x)
    BY DEF SameEntry
  <2>2. CASE GoesTo(list, D, x)
    <3>1. PICK i \in D : list[i].PipeId = x
      BY <2>2 DEF GoesTo
    <3> QED
      BY <2>1, <3>1, PostTargets
  <2>3. CASE ~GoesTo(list, D, x)
    BY <2>1, <2>3, PostQueues
  <2> QED
    BY <2>2, <2>3
<1>2. ASSUME NEW q \in QueueIds PROVE QueueFits(q)'
  <2>1. /\ queue'[q].depth = queue[q].depth /\ b \in Bufs
        /\ queue'[q].msgs = IF PutOn(list, D, q) THEN Append(queue[q].msgs, b)
                            ELSE queue[q].msgs
    BY DEF Posts
  <2>2. /\ Len(queue[q].msgs) <= queue[q].depth /\ queue[q].depth \in Depths \cup {0}
    BY DEF WorkInv, QueueFits
  <2>3. CASE PutOn(list, D, q)
    <3>1. PICK i \in D : PipeTbl[list[i].PipeId].SysQueueId = q
      BY <2>3 DEF PutOn
    <3>2. Len(queue[q].msgs) < queue[q].depth
      BY <3>1, PostTargets
    <3>3. /\ queue[q].msgs \in Seq(Bufs) /\ Len(queue[q].msgs) \in Nat /\ queue[q].depth \in Nat
      BY QueueType
    <3>4. Len(Append(queue[q].msgs, b)) = Len(queue[q].msgs) + 1
      BY <2>1, <3>3, AppendProperties
    <3>5. Len(queue'[q].msgs) <= queue'[q].depth
      BY <2>1, <2>3, <3>2, <3>3, <3>4
    <3> QED
      BY <2>1, <2>2, <3>5 DEF QueueFits
  <2>4. CASE ~PutOn(list, D, q)
    BY <2>1, <2>2, <2>4 DEF QueueFits
  <2> QED
    BY <2>3, <2>4
<1>3. WorkerOK(t)'
  <2>1. \A x \in handles[AppOf[t]] : x \in Pipes /\ Owns(AppOf[t], x)
    BY SoftwareBusAssumption DEF WorkInv, WorkerOK, BusInv, TransferOK, ReportsOK
  <2>2. \A x \in handles'[AppOf[t]] : Owns(AppOf[t], x)'
    BY <1>1, <2>1, SameEntryLemma
  <2>3. pc'[t] \notin Receiving \cup {"deleted"}
    BY DEF Receiving
  <2> QED
    BY <2>2, <2>3, AwayOK
<1>4. {} \in SUBSET Pipes /\ pc[t] \notin Receiving
  BY DEF Receiving
<1>5. \A x \in Pipes \ {} : /\ SameEntry(x)
                            /\ QueueOf(x)' = QueueOf(x) \/ \E r \in RouteIdxs : Listed(r, x)
  BY <1>1
<1>6. \A u \in Tasks \ {t} : handles'[AppOf[u]] = handles[AppOf[u]]
  OBVIOUS
<1> QED
  BY <1>2, <1>3, <1>4, <1>5, <1>6, WorkStep

LEMMA PostSettled ==
  ASSUME OrderlyProgram, ShortQueues, BusInv, BusInv', OrderlyInv, SettledInv, NEW m, NEW b,
         NEW list, NEW D, Posts(m, b, list, D), UNCHANGED <<PipeTbl, handles>>,
         NEW t \in Tasks, OthersStay(t), pc[t] \in {"idle", "report"},
         pc'[t] \in {"idle", "report"}, loc'[t].msg = NULL, loc'[t].timeout = "POLL"
  PROVE  SettledInv'
<1>1. WorkInv /\ CountInv /\ BuffersRefCounted /\ DepthsExact /\ NoWedgedSubscription
  BY DEF SettledInv, CountInv
<1>2. SameHands
  <2>1. loc[t].msg = NULL
    BY <1>1, AwayLocals DEF Receiving
  <2> QED
    BY <2>1 DEF SameHands, OthersStay
<1>3. WorkInv' /\ BuffersRefCounted' /\ DepthsExact'
  <2>1. WorkInv'
    BY <1>1, PostWork
  <2> QED
    BY <1>1, <1>2, <2>1, PostBuffers, PostDepths
<1>4. NoWedgedSubscription'
  <2>1. ASSUME NEW r \in RouteIdxs, NEW i \in DOMAIN RoutingTbl'[r].ListHeadPtr,
               NEW d, d = RoutingTbl'[r].ListHeadPtr[i], NEW k, k = RoutingTbl'[r].MsgId
        PROVE  d.BuffCount <= InTransit(d.PipeId, k)'
    <3>1. PICK old, x : old = RoutingTbl[r].ListHeadPtr[i] /\ x = old.PipeId
      OBVIOUS
    <3>2. /\ i \in DOMAIN RoutingTbl[r].ListHeadPtr /\ k = RoutingTbl[r].MsgId /\ d.PipeId = x
          /\ d.BuffCount = IF r = MsgMap[m] /\ i \in D THEN old.BuffCount + 1
                           ELSE old.BuffCount
      BY <2>1, <3>1 DEF Posts
    <3>3. x \in Pipes /\ old.BuffCount \in Nat
      BY <3>1, <3>2, NodeType DEF BusInv, RouteInv, RouteTypeOK
    <3>4. old.BuffCount <= InTransit(x, k) /\ InTransit(x, k) \in Nat
      BY <1>1, <3>1, <3>2, <3>3, TransitFinite DEF NoWedgedSubscription
    <3>5. InTransit(x, k)' = IF GoesTo(list, D, x) /\ k = m THEN InTransit(x, k) + 1
                             ELSE InTransit(x, k)
      BY <1>1, <1>2, <3>3, PostTransit
    <3>6. r = MsgMap[m] /\ i \in D => GoesTo(list, D, x) /\ k = m
      <4>1. SUFFICES ASSUME r = MsgMap[m], i \in D PROVE GoesTo(list, D, x) /\ k = m
        OBVIOUS
      <4>2. list = RoutingTbl[r].ListHeadPtr /\ m \in MsgIds /\ IsMapped(m)
        BY <4>1 DEF Posts
      <4>3. GoesTo(list, D, x)
        BY <3>1, <4>1, <4>2 DEF GoesTo
      <4>4. RoutingTbl[MsgMap[m]].MsgId = m
        BY <4>2, MappedRoute DEF BusInv, RouteInv, RoutesWellFormed
      <4> QED
        BY <3>2, <4>1, <4>3, <4>4
    <3> QED
      BY <3>2, <3>3, <3>4, <3>5, <3>6
  <2> QED
    BY <2>1 DEF NoWedgedSubscription
<1> QED
  BY <1>3, <1>4 DEF SettledInv, CountInv

LEMMA SendMsgSettled ==
  ASSUME OrderlyProgram, ShortQueues, BusInv, BusInv', OrderlyInv, SettledInv, NEW t \in Tasks,
         NEW m \in MsgIds, SendMsg(t, m)
  PROVE  SettledInv'
<1>1. Stay /\ UNCHANGED <<PipeTbl, handles>> /\ pc[t] = "idle"
  BY DEF SendMsg, Calls
<1>2. CASE UNCHANGED <<routeVars, queue, DepthInUse, buf>>
  BY <1>1, <1>2, UntouchedAll, CountsSame, StayStep
<1>3. CASE \E b, list, D : Posts(m, b, list, D)
  <2>1. PICK b, list, D : Posts(m, b, list, D)
    BY <1>3
  <2>2. WorkInv /\ pc[t] \notin Receiving
    BY <1>1 DEF SettledInv, Receiving
  <2>3. loc[t].msg = NULL /\ loc[t].timeout = "POLL"
    BY <2>2, AwayLocals
  <2>4. pc' = pc /\ loc' = loc /\ OthersStay(t)
    BY <1>1 DEF Stay, OthersStay
  <2> QED
    BY <1>1, <2>1, <2>3, <2>4, PostSettled
<1> QED
  BY <1>2, <1>3, SendMsgFullPosts DEF SendMsg

LEMMA SendReportSettled ==
  ASSUME OrderlyProgram, ShortQueues, BusInv, BusInv', OrderlyInv, SettledInv, NEW t \in Tasks,
         SendReport(t)
  PROVE  SettledInv'
<1>1. Goto(t, "idle", NoLoc) /\ UNCHANGED <<PipeTbl, handles>> /\ pc[t] = "report"
  BY DEF SendReport
<1>2. CASE UNCHANGED <<routeVars, queue, DepthInUse, buf>>
  <2>1. "idle" \notin Receiving \cup {"deleted"} /\ pc[t] \notin Receiving \cup {"exited"}
    BY <1>1 DEF Receiving
  <2> QED
    BY <1>1, <1>2, <2>1, UntouchedAll, CountsSame, NoLocAway, AwayStep
<1>3. CASE \E b, list, D : Posts(ReportMid, b, list, D)
  <2>1. PICK b, list, D : Posts(ReportMid, b, list, D)
    BY <1>3
  <2>2. OthersStay(t) /\ pc'[t] = "idle" /\ loc'[t].msg = NULL /\ loc'[t].timeout = "POLL"
    BY <1>1, GotoFacts, NoLocAway
  <2> QED
    BY <1>1, <2>1, <2>2, PostSettled
<1> QED
  BY <1>2, <1>3, SendMsgFullPosts, SoftwareBusAssumption DEF SendReport

-----------------------------------------------------------------------------
(* The theorems about what is counted *)

LEMMA SettledInit == Init => SettledInv
<1> SUFFICES ASSUME Init PROVE SettledInv
  OBVIOUS
<1>1. ASSUME NEW p \in Pipes
      PROVE  /\ ~ValidPipe(p) /\ PipeTbl[p].SysQueueId = NoQueue
             /\ PipeTbl[p].CurrentBuff = NULL /\ PipeTbl[p].ToTrashBuff = NULL
             /\ DepthInUse[p] = 0 /\ QueueOf(p) = <<>>
  BY DEF Init, ValidPipe, QueueOf
<1>2. ASSUME NEW t \in Tasks
      PROVE  /\ pc[t] = "idle" /\ loc[t].msg = NULL /\ loc[t].timeout = "POLL"
             /\ ~loc[t].deleting /\ handles[AppOf[t]] = {}
  BY NoLocAway, NoLocFree, SoftwareBusAssumption DEF Init
<1>3. ASSUME NEW q \in QueueIds
      PROVE  ~queue[q].open /\ queue[q].depth = 0 /\ queue[q].msgs = <<>> /\ Len(<<>>) = 0
  BY DEF Init, Unused
<1>4. WorkInv
  <2>1. \A t \in Tasks : WorkerOK(t)
    BY <1>2 DEF WorkerOK, Receiving
  <2>2. \A p \in Pipes : EntryOK(p)
    BY <1>1 DEF EntryOK
  <2>3. \A q \in QueueIds : QueueFits(q)
    BY <1>3 DEF QueueFits
  <2> QED
    BY <2>1, <2>2, <2>3 DEF WorkInv
<1>5. Cardinality({}) = 0
  BY FS_EmptySet
<1>6. BuffersRefCounted
  <2>1. ASSUME NEW b \in Bufs PROVE buf[b].UseCount = References(b)
    <3>1. OpenIn(queue) = {}
      BY <1>3 DEF OpenIn
    <3>2. Places(b) = {}
      BY <3>1, PlacesLemma DEF Places
    <3>3. Holders(b) = {} /\ Takers(b) = {}
      BY <1>1, <1>2, SoftwareBusAssumption DEF Holders, Takers
    <3>4. buf[b].UseCount = 0
      BY DEF Init, FreeBuf
    <3> QED
      BY <1>5, <3>2, <3>3, <3>4, ReferencesParts
  <2> QED
    BY <2>1 DEF BuffersRefCounted
<1>7. DepthsExact
  <2>1. ASSUME NEW p \in Pipes PROVE DepthInUse[p] = Len(QueueOf(p)) + Cardinality(InHand(p))
    <3>1. InHand(p) = {}
      BY <1>2 DEF InHand
    <3>2. Len(<<>>) = 0
      OBVIOUS
    <3> QED
      BY <1>1, <1>5, <3>1, <3>2
  <2> QED
    BY <2>1 DEF DepthsExact
<1>8. NoWedgedSubscription
  <2>1. \A r \in RouteIdxs : DOMAIN RoutingTbl[r].ListHeadPtr = {}
    BY DEF Init, RouteInit
  <2> QED
    BY <2>1 DEF NoWedgedSubscription
<1> QED
  BY <1>4, <1>6, <1>7, <1>8 DEF SettledInv, CountInv

LEMMA SettledStep ==
  ASSUME OrderlyProgram, ShortQueues, BusInv, BusInv', OrderlyInv, SettledInv, [Next]_vars
  PROVE  SettledInv'
<1>1. CASE UNCHANGED vars
  BY <1>1, GroundCommandSettled
<1>2. ASSUME NEW t \in Tasks, Call(t)
      PROVE  SettledInv'
  <2>1. CASE \E depth \in Depths : CreatePipe(t, depth)
    BY <2>1, CreatePipeSettled
  <2>2. CASE ExitApp(t)
    BY <2>2, ExitAppSettled
  <2>3. CASE \E m \in MsgIds : SendMsg(t, m)
    BY <2>3, SendMsgSettled
  <2>4. ASSUME NEW p \in Pipes, DeletePipe(t, p) PROVE SettledInv'
    BY <2>4, DeletePipeSettled
  <2>5. ASSUME NEW p \in Pipes, NEW o \in BOOLEAN, SetPipeOpts(t, p, o) PROVE SettledInv'
    BY <2>5, SetPipeOptsSettled
  <2>6. ASSUME NEW p \in Pipes, NEW timeout \in TimeOuts, RcvMsg(t, p, timeout)
        PROVE  SettledInv'
    BY <2>6, RcvMsgSettled
  <2>7. ASSUME NEW p \in Pipes, NEW m \in MsgIds, NEW scope \in Scopes,
               NEW lim \in MsgLims, Subscribe(t, m, p, lim, scope)
        PROVE  SettledInv'
    BY <2>7, SubscribeSettled
  <2>8. ASSUME NEW p \in Pipes, NEW m \in MsgIds, NEW scope \in Scopes,
               Unsubscribe(t, m, p, scope)
        PROVE  SettledInv'
    BY <2>8, UnsubscribeSettled
  <2> QED
    BY <1>2, <2>1, <2>2, <2>3, <2>4, <2>5, <2>6, <2>7, <2>8 DEF Call
<1>3. ASSUME NEW t \in Tasks, Continue(t)
      PROVE  SettledInv'
  <2>1. CASE SendReport(t)
    BY <2>1, SendReportSettled
  <2>2. CASE RcvReadQueue(t) \/ RcvWake(t) \/ RcvTimeOut(t) \/ RcvFinish(t)
    BY <2>2, RcvReadQueueSettled, RcvWakeSettled, RcvTimeOutSettled, RcvFinishSettled
  <2>3. CASE DeleteUnsubscribe(t) \/ DeleteWalk(t) \/ DeleteDrain(t) \/ DeleteFinish(t)
    BY <2>3, DeleteUnsubscribeSettled, DeleteWalkSettled, DeleteDrainSettled, DeleteFinishSettled
  <2>4. CASE CleanUpPipe
    BY <2>4, CleanUpEntrySettled, CleanUpEndSettled
  <2> QED
    BY <1>3, <2>1, <2>2, <2>3, <2>4 DEF Continue
<1>4. ASSUME NEW a \in Apps, CleanUpApp(a) \/ StartApp(a)
      PROVE  SettledInv'
  BY <1>4, CleanUpAppSettled, StartAppSettled
<1>5. ASSUME \/ \E m \in MsgIds, p \in Pipes, active \in BOOLEAN : RouteCmd(m, p, active)
             \/ \E state \in BOOLEAN : SetSubscriptionReporting(state)
      PROVE  SettledInv'
  BY <1>5, GroundCommandSettled
<1> QED
  BY <1>1, <1>2, <1>3, <1>4, <1>5 DEF Next

(* With pipe depths below the range of a uint16 as well, every count of     *)
(* messages, buffers and queue entries is exact at every unlock, although   *)
(* CFE_SB_RcvMsg and CFE_SB_DeletePipeFull work on the pipe table without   *)
(* the lock in between.                                                     *)
THEOREM SettledInvariance ==
  ASSUME OrderlyProgram, ShortQueues
  PROVE  Spec => []SettledInv
<1>1. Init => SettledInv
  BY SettledInit
<1>2. BusInv /\ BusInv' /\ OrderlyInv /\ SettledInv /\ [Next]_vars => SettledInv'
  BY SettledStep
<1> QED
  BY <1>1, <1>2, BusInvariance, OrderlyInvariance, PTL DEF Spec

(* A buffer is returned to the pool when its last reference goes and not    *)
(* before: UseCount is the number of queue entries, pipes and readers that  *)
(* refer to it (CFE_SB_SendMsgFull, RcvMsg, DeletePipeFull, DecrBufUseCnt). *)
THEOREM BuffersCounted ==
  ASSUME OrderlyProgram, ShortQueues
  PROVE  Spec => []BuffersRefCounted
<1>1. SettledInv => BuffersRefCounted
  BY DEF SettledInv, CountInv
<1> QED
  BY <1>1, SettledInvariance, PTL

(* Whatever falls between the locked sections of CFE_SB_DeletePipeFull, a   *)
(* deletion leaves neither a buffer nor a subscription behind.              *)
THEOREM DeletionsClean ==
  ASSUME OrderlyProgram, ShortQueues
  PROVE  Spec => []DeletionsLeaveNothing
<1>1. BuffersRefCounted /\ NoStaleDestination => DeletionsLeaveNothing
  BY DEF DeletionsLeaveNothing
<1> QED
  BY <1>1, BuffersCounted, DeletedPipesUnsubscribed, PTL

(* BuffCount never exceeds the messages in transit to its pipe, so that a   *)
(* reader that empties its pipe opens the message limit again               *)
(* (CFE_SB_SendMsgFull counts up, CFE_SB_RcvMsg counts down).               *)
THEOREM SubscriptionsNotWedged ==
  ASSUME OrderlyProgram, ShortQueues
  PROVE  Spec => []NoWedgedSubscription
<1>1. SettledInv => NoWedgedSubscription
  BY DEF SettledInv, CountInv
<1> QED
  BY <1>1, SettledInvariance, PTL

(* The statistics packet is exact: PipesInUse counts the pipes in use, and  *)
(* PipeDepthStats[].InUse the messages sent to a pipe and not yet settled,  *)
(* without a wrap of the uint16; and a deleted application owns nothing.    *)
THEOREM PipesCounted ==
  ASSUME OrderlyProgram, ShortQueues
  PROVE  Spec => []PipesExact
<1>1. TypeOK /\ OrderlyInv /\ SettledInv => PipesExact
  BY DEF OrderlyInv, SettledInv, CountInv, DepthsExact, PipesExact, PipeStatsExact
<1> QED
  BY <1>1, BusTypeCorrect, OrderlyInvariance, SettledInvariance, PTL
=============================================================================

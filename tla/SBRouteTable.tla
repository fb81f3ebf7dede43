---------------------------- MODULE SBRouteTable ----------------------------
(***************************************************************************)
(* The routing state of the cFE Software Bus (CFE_SB): the message map, the *)
(* routing table with its destination lists, and the stack of free routing  *)
(* table indices.  Every action here is the routing part of one locked      *)
(* section of cfe_sb_api.c (between CFE_SB_LockSharedData and               *)
(* CFE_SB_UnlockSharedData), so it is one atomic step.  Who may call it,     *)
(* and what the call does to pipes and buffers, is module SoftwareBus.      *)
(*                                                                         *)
(* A destination list is the sequence of its nodes from ListHeadPtr on.     *)
(***************************************************************************)
EXTENDS Integers, Sequences, FiniteSets

CONSTANTS
  MsgIds,          \* the valid message ids (one message key each)
  Tlm,             \* those whose packet type is telemetry
  MaxPipes,        \* CFE_PLATFORM_SB_MAX_PIPES: entries of PipeTbl
  MaxMsgIds,       \* CFE_PLATFORM_SB_MAX_MSG_IDS: entries of RoutingTbl
  MaxDest,         \* CFE_PLATFORM_SB_MAX_DEST_PER_PKT
  MsgLims,         \* the MsgId-to-pipe limits subscribers ask for
  Scopes,          \* subset of {"GLOBAL", "LOCAL"} subscribers ask for
  SeqMod,          \* values of the uint32 RouteEntry.SeqCnt (2^32)
  PoolMayRunOut,   \* whether CFE_ES_GetPoolBuf can fail for a destination
  NoMsgId          \* CFE_SB_INVALID_MSG_ID

ASSUME RouteTableAssumption ==
  /\ IsFiniteSet(MsgIds)
  /\ NoMsgId \notin MsgIds
  /\ Tlm \subseteq MsgIds
  /\ MaxPipes \in Nat \ {0}
  /\ MaxMsgIds \in Nat \ {0}
  /\ MaxDest \in Nat \ {0}
  /\ MsgLims \subseteq Nat
  /\ Scopes \subseteq {"GLOBAL", "LOCAL"}
  /\ SeqMod \in Nat \ {0}
  /\ PoolMayRunOut \in BOOLEAN

VARIABLES
  MsgMap,             \* MsgId -> routing table index, or InvalidRouteIdx
  RoutingTbl,         \* index -> route entry
  RouteIdxStack,      \* the array behind the stack of free indices
  RouteIdxTop,        \* its top: entries RouteIdxTop .. MaxMsgIds-1 are free
  MsgIdsInUse,        \* StatTlmMsg.Payload.MsgIdsInUse
  SubscriptionsInUse  \* StatTlmMsg.Payload.SubscriptionsInUse

routeVars == <<MsgMap, RoutingTbl, RouteIdxStack, RouteIdxTop,
               MsgIdsInUse, SubscriptionsInUse>>

Pipes == 0 .. MaxPipes - 1
RouteIdxs == 0 .. MaxMsgIds - 1
InvalidRouteIdx == -1

(* CFE_SB_DestinationD_t: one subscription.                                *)
Dest == [PipeId : Pipes, MsgId2PipeLim : MsgLims, Active : BOOLEAN,
         BuffCount : Nat, Scope : Scopes]

(* CFE_SB_RouteEntry_t: one routing table entry.                           *)
RouteEntry == [MsgId : MsgIds \cup {NoMsgId}, SeqCnt : 0 .. SeqMod - 1,
               Destinations : Nat, ListHeadPtr : Seq(Dest)]

RouteTypeOK ==
  /\ MsgMap \in [MsgIds -> RouteIdxs \cup {InvalidRouteIdx}]
  /\ RoutingTbl \in [RouteIdxs -> RouteEntry]
  /\ RouteIdxStack \in [RouteIdxs -> RouteIdxs]
  /\ RouteIdxTop \in 0 .. MaxMsgIds
  /\ MsgIdsInUse \in Int
  /\ SubscriptionsInUse \in Int

-----------------------------------------------------------------------------
(* CFE_SB_InitMsgMap, CFE_SB_InitRoutingTbl and CFE_SB_InitIdxStack.       *)
RouteInit ==
  /\ MsgMap = [m \in MsgIds |-> InvalidRouteIdx]
  /\ RoutingTbl = [r \in RouteIdxs |->
       [MsgId |-> NoMsgId, SeqCnt |-> 0, Destinations |-> 0,
        ListHeadPtr |-> <<>>]]
  /\ RouteIdxStack = [r \in RouteIdxs |-> r]
  /\ RouteIdxTop = 0
  /\ MsgIdsInUse = 0
  /\ SubscriptionsInUse = 0

(* CFE_SB_IsValidRouteIdx(CFE_SB_GetRoutingTblIdx(key)).                   *)
IsMapped(m) == MsgMap[m] # InvalidRouteIdx

HasDest(list, p) == \E i \in DOMAIN list : list[i].PipeId = p

(* The first node of a list for a pipe, as every list walk finds it.       *)
DestPos(list, p) ==
  CHOOSE i \in DOMAIN list :
    list[i].PipeId = p /\ \A j \in 1 .. i - 1 : list[j].PipeId # p

(* CFE_SB_DuplicateSubscribeCheck, and CFE_SB_GetDestPtr # NULL.           *)
Subscribed(m, p) ==
  IsMapped(m) /\ HasDest(RoutingTbl[MsgMap[m]].ListHeadPtr, p)

(* CFE_SB_AddDest links the new node at the head.                          *)
AddDest(list, d) == <<d>> \o list

(* CFE_SB_RemoveDest unlinks one node.                                     *)
RemoveDest(list, pos) ==
  [j \in 1 .. Len(list) - 1 |-> IF j < pos THEN list[j] ELSE list[j + 1]]

(* The index CFE_SB_RouteIdxPop_Unsync returns while RouteIdxTop is below  *)
(* CFE_PLATFORM_SB_MAX_MSG_IDS.                                            *)
RouteIdxAvail == RouteIdxTop < MaxMsgIds
RouteFor(m) == IF IsMapped(m) THEN MsgMap[m] ELSE RouteIdxStack[RouteIdxTop]

(* Mutant of ClaimRoute: every subscription counts a message id.            *)
ClaimRouteCountsAll(m) ==
  /\ MsgMap' = [MsgMap EXCEPT ![m] = RouteFor(m)]
  /\ RouteIdxTop' = IF IsMapped(m) THEN RouteIdxTop ELSE RouteIdxTop + 1
  /\ MsgIdsInUse' = MsgIdsInUse + 1

(* A subscription to a message id without a route takes a free index, maps *)
(* the id to it and writes the id into the entry (its SeqCnt stays).       *)
ClaimRoute(m) ==
  IF IsMapped(m)
  THEN UNCHANGED <<MsgMap, RouteIdxTop, MsgIdsInUse>>
  ELSE /\ MsgMap' = [MsgMap EXCEPT ![m] = RouteIdxStack[RouteIdxTop]]
       /\ RouteIdxTop' = RouteIdxTop + 1
       /\ MsgIdsInUse' = MsgIdsInUse + 1

(* Mutant of SubscribeAdmits: no duplicate check.                           *)
SubscribeAdmitsDuplicate(m, p) ==
  /\ IsMapped(m) \/ RouteIdxAvail
  /\ RoutingTbl[RouteFor(m)].Destinations < MaxDest

(* What lets a subscription pass the checks that precede the allocation of *)
(* its destination block.                                                  *)
SubscribeAdmits(m, p) ==
  /\ ~Subscribed(m, p)
  /\ IsMapped(m) \/ RouteIdxAvail
  /\ RoutingTbl[RouteFor(m)].Destinations < MaxDest

NewDest(p, lim, scope) ==
  [PipeId |-> p, MsgId2PipeLim |-> lim, Active |-> TRUE, BuffCount |-> 0,
   Scope |-> scope]

(* CFE_SB_SubscribeFull, when it adds the destination.                     *)
AddSubscription(m, p, lim, scope) ==
  /\ SubscribeAdmits(m, p)
  /\ ClaimRoute(m)
  /\ LET route == RoutingTbl[RouteFor(m)]
     IN RoutingTbl' = [RoutingTbl EXCEPT ![RouteFor(m)] =
          [route EXCEPT
             !.MsgId = IF IsMapped(m) THEN route.MsgId ELSE m,
             !.Destinations = route.Destinations + 1,
             !.ListHeadPtr = AddDest(route.ListHeadPtr,
                                     NewDest(p, lim, scope))]]
  /\ SubscriptionsInUse' = SubscriptionsInUse + 1
  /\ UNCHANGED RouteIdxStack

(* CFE_SB_SubscribeFull, when CFE_SB_GetDestinationBlk finds the pool      *)
(* exhausted: the route claimed before the allocation is kept.             *)
SubscribeNoBlock(m, p) ==
  /\ PoolMayRunOut
  /\ SubscribeAdmits(m, p)
  /\ ClaimRoute(m)
  /\ RoutingTbl' = [RoutingTbl EXCEPT ![RouteFor(m)].MsgId =
                      IF IsMapped(m) THEN @ ELSE m]
  /\ UNCHANGED <<RouteIdxStack, SubscriptionsInUse>>

(* Mutant of RouteIdxPush: stores at the old top, then decrements it.       *)
RouteIdxPushTooHigh(r) ==
  /\ RouteIdxTop' = RouteIdxTop - 1
  /\ RouteIdxStack' = IF RouteIdxTop \in RouteIdxs
                      THEN [RouteIdxStack EXCEPT ![RouteIdxTop] = r]
                      ELSE RouteIdxStack

(* CFE_SB_RouteIdxPush_Unsync.                                             *)
RouteIdxPush(r) ==
  IF RouteIdxTop > 0
  THEN /\ RouteIdxTop' = RouteIdxTop - 1
       /\ RouteIdxStack' = [RouteIdxStack EXCEPT ![RouteIdxTop - 1] = r]
  ELSE UNCHANGED <<RouteIdxTop, RouteIdxStack>>

(* Mutant of FreeRoute: the message id keeps its empty route.              *)
FreeRouteKept(m) == UNCHANGED <<MsgMap, RouteIdxStack, RouteIdxTop, MsgIdsInUse>>

(* The last destination of a message id is gone: its route is given back.  *)
FreeRoute(m) ==
  /\ MsgIdsInUse' = MsgIdsInUse - 1
  /\ RouteIdxPush(MsgMap[m])
  /\ MsgMap' = [MsgMap EXCEPT ![m] = InvalidRouteIdx]

(* CFE_SB_UnsubscribeFull for a message id with a non-empty list: the walk  *)
(* removes the pipe's node if it finds one, then tests Destinations.       *)
RemoveSubscription(m, p) ==
  /\ IsMapped(m)
  /\ RoutingTbl[MsgMap[m]].ListHeadPtr # <<>>
  /\ LET r     == MsgMap[m]
         route == RoutingTbl[r]
         list  == route.ListHeadPtr
         left  == route.Destinations - 1
     IN IF HasDest(list, p)
        THEN /\ RoutingTbl' = [RoutingTbl EXCEPT ![r] =
                  [route EXCEPT
                     !.Destinations = left,
                     !.ListHeadPtr = RemoveDest(list, DestPos(list, p))]]
             /\ SubscriptionsInUse' = SubscriptionsInUse - 1
             /\ IF left = 0
                THEN FreeRoute(m)
                ELSE UNCHANGED <<MsgMap, RouteIdxStack, RouteIdxTop,
                                 MsgIdsInUse>>
        ELSE UNCHANGED routeVars

(* The routing part of CFE_SB_SendMsgFull: the route's sequence count, and *)
(* the BuffCount of the nodes (positions D) whose queue took the message.  *)
CountSend(m, incr, D) ==
  /\ LET route == RoutingTbl[MsgMap[m]]
         list  == route.ListHeadPtr
     IN RoutingTbl' = [RoutingTbl EXCEPT ![MsgMap[m]] =
          [route EXCEPT
             !.SeqCnt = IF m \in Tlm /\ incr
                        THEN (route.SeqCnt + 1) % SeqMod ELSE route.SeqCnt,
             !.ListHeadPtr = [i \in DOMAIN list |->
                IF i \in D THEN [list[i] EXCEPT !.BuffCount = @ + 1]
                           ELSE list[i]]]]
  /\ UNCHANGED <<MsgMap, RouteIdxStack, RouteIdxTop, MsgIdsInUse,
                 SubscriptionsInUse>>

(* The nodes of a route below their MsgId-to-pipe limit.                   *)
BelowLimit(m) ==
  LET route == RoutingTbl[MsgMap[m]]
  IN {i \in DOMAIN route.ListHeadPtr :
        /\ i <= route.Destinations
        /\ route.ListHeadPtr[i].Active
        /\ route.ListHeadPtr[i].BuffCount <
             route.ListHeadPtr[i].MsgId2PipeLim}

(* Mutant of CountReceive: BuffCount-- without its guard.                   *)
CountReceiveUnguarded(m, p) ==
  IF Subscribed(m, p)
  THEN LET r   == MsgMap[m]
           pos == DestPos(RoutingTbl[r].ListHeadPtr, p)
       IN /\ RoutingTbl' = [RoutingTbl EXCEPT
                ![r].ListHeadPtr[pos].BuffCount = @ - 1]
          /\ UNCHANGED <<MsgMap, RouteIdxStack, RouteIdxTop, MsgIdsInUse,
                         SubscriptionsInUse>>
  ELSE UNCHANGED routeVars

(* Mutant of CountReceive: nothing is counted down for a disabled route.    *)
CountReceiveIfActive(m, p) ==
  IF Subscribed(m, p)
  THEN LET r   == MsgMap[m]
           pos == DestPos(RoutingTbl[r].ListHeadPtr, p)
       IN /\ RoutingTbl' = [RoutingTbl EXCEPT ![r].ListHeadPtr[pos] =
                IF @.Active /\ @.BuffCount > 0
                THEN [@ EXCEPT !.BuffCount = @ - 1] ELSE @]
          /\ UNCHANGED <<MsgMap, RouteIdxStack, RouteIdxTop, MsgIdsInUse,
                         SubscriptionsInUse>>
  ELSE UNCHANGED routeVars

(* Mutant of CountReceive: the receiver forgets to count down.              *)
CountReceiveForgotten(m, p) == UNCHANGED routeVars

(* The routing part of CFE_SB_RcvMsg: GetDestPtr, and BuffCount-- guarded  *)
(* against a count that a resubscription has reset.                        *)
CountReceive(m, p) ==
  IF Subscribed(m, p)
  THEN LET r   == MsgMap[m]
           pos == DestPos(RoutingTbl[r].ListHeadPtr, p)
       IN /\ RoutingTbl' = [RoutingTbl EXCEPT ![r].ListHeadPtr[pos].BuffCount =
                              IF @ > 0 THEN @ - 1 ELSE @]
          /\ UNCHANGED <<MsgMap, RouteIdxStack, RouteIdxTop, MsgIdsInUse,
                         SubscriptionsInUse>>
  ELSE UNCHANGED routeVars

(* CFE_SB_EnableRouteCmd and CFE_SB_DisableRouteCmd.                       *)
SetActive(m, p, active) ==
  /\ Subscribed(m, p)
  /\ LET r   == MsgMap[m]
         pos == DestPos(RoutingTbl[r].ListHeadPtr, p)
     IN RoutingTbl' = [RoutingTbl EXCEPT ![r].ListHeadPtr[pos].Active = active]
  /\ UNCHANGED <<MsgMap, RouteIdxStack, RouteIdxTop, MsgIdsInUse,
                 SubscriptionsInUse>>

RouteNext ==
  \E m \in MsgIds :
    \/ \E p \in Pipes :
         \/ \E lim \in MsgLims, scope \in Scopes :
              AddSubscription(m, p, lim, scope)
         \/ SubscribeNoBlock(m, p)
         \/ RemoveSubscription(m, p)
         \/ CountReceive(m, p)
         \/ \E active \in BOOLEAN : SetActive(m, p, active)
    \/ IsMapped(m) /\ \E incr \in BOOLEAN, D \in SUBSET BelowLimit(m) :
         CountSend(m, incr, D)

RouteSpec == RouteInit /\ [][RouteNext]_routeVars

-----------------------------------------------------------------------------
(* Properties of the routing state. *)

FreeIdxs == {RouteIdxStack[i] : i \in RouteIdxTop .. MaxMsgIds - 1}
MappedIds == {m \in MsgIds : IsMapped(m)}
MappedIdxs == {MsgMap[m] : m \in MappedIds}

(* No routing table index is lost or handed out twice: at every moment each *)
(* index is either on the free stack exactly once or the route of exactly   *)
(* one message id (CFE_SB_RouteIdxPop_Unsync / RouteIdxPush_Unsync).        *)
RouteIdxConserved ==
  /\ \A i, j \in RouteIdxTop .. MaxMsgIds - 1 :
       RouteIdxStack[i] = RouteIdxStack[j] => i = j
  /\ \A m, n \in MappedIds : MsgMap[m] = MsgMap[n] => m = n
  /\ FreeIdxs \cap MappedIdxs = {}
  /\ FreeIdxs \cup MappedIdxs = RouteIdxs

(* The list of a mapped message id is that id's list, a route nobody maps   *)
(* to has no destinations, the Destinations count that bounds the send loop *)
(* is the length of the list, no pipe is on a list twice, and the list      *)
(* never exceeds CFE_PLATFORM_SB_MAX_DEST_PER_PKT.                          *)
RoutesWellFormed ==
  /\ \A m \in MappedIds : RoutingTbl[MsgMap[m]].MsgId = m
  /\ \A r \in RouteIdxs \ MappedIdxs : RoutingTbl[r].ListHeadPtr = <<>>
  /\ \A r \in RouteIdxs :
       LET route == RoutingTbl[r]
       IN /\ route.Destinations = Len(route.ListHeadPtr)
          /\ route.Destinations <= MaxDest
          /\ \A i, j \in DOMAIN route.ListHeadPtr :
               route.ListHeadPtr[i].PipeId = route.ListHeadPtr[j].PipeId => i = j

(* The statistics packet's counters agree with the tables: MsgIdsInUse      *)
(* counts the mapped message ids and equals the depth popped off the free   *)
(* stack, SubscriptionsInUse counts the (route, pipe) subscriptions.        *)
Subscriptions ==
  {s \in RouteIdxs \X Pipes : HasDest(RoutingTbl[s[1]].ListHeadPtr, s[2])}

RouteStatsExact ==
  /\ MsgIdsInUse = Cardinality(MappedIds)
  /\ RouteIdxTop = MsgIdsInUse
  /\ SubscriptionsInUse = Cardinality(Subscriptions)

(* No subscription is ever credited with more messages in transit than its  *)
(* MsgId-to-pipe limit (the test in CFE_SB_SendMsgFull precedes the put).   *)
BuffCountWithinLimit ==
  \A r \in RouteIdxs : \A i \in DOMAIN RoutingTbl[r].ListHeadPtr :
    LET d == RoutingTbl[r].ListHeadPtr[i] IN d.BuffCount <= d.MsgId2PipeLim

=============================================================================

---------------------------- MODULE SoftwareBus ----------------------------
(***************************************************************************)
(* The cFE Software Bus at the granularity of its mutex.  A step of a task  *)
(* is one locked section of cfe_sb_api.c, or the unlocked statements        *)
(* between two of them: CFE_SB_RcvMsg saves and clears the pipe's current   *)
(* buffer and reads the OS queue before it takes the lock, and              *)
(* CFE_SB_DeletePipeFull gives the lock back around every unsubscription    *)
(* and every message it drains.  The routing state is SBRouteTable's.       *)
(*                                                                         *)
(* A call that is refused or fails before it changes anything modelled here *)
(* only bumps an error counter and sends an event; such calls are the       *)
(* stuttering steps of this module, unless they happen in the middle of a   *)
(* longer call.                                                            *)
(***************************************************************************)
EXTENDS SBRouteTable

CONSTANTS
  Apps,            \* application ids
  Tasks,           \* application tasks, and ES
  ES,              \* the Executive Services task that cleans up apps
  AppOf,           \* task -> the application it belongs to
  Uses,            \* task -> the calls its program makes
  Cmds,            \* the SB ground commands that may arrive
  Bufs,            \* message buffers the SB memory pool can hold
  QueueIds,        \* OSAL queue ids: naturals above 0
  Depths,          \* pipe depths asked for
  TimeOuts,        \* subset of {"POLL", "PEND", "TIMED"}: RcvMsg's TimeOut
  ReportMid,       \* CFE_SB_ONESUB_TLM_MID
  NoApp, NULL

CallNames == {"CreatePipe", "DeletePipe", "SetPipeOpts", "Subscribe",
              "Unsubscribe", "SendMsg", "PassMsg", "RcvMsg", "ExitApp",
              "CleanUpExited", "CleanUpForced", "StartApp"}

ASSUME SoftwareBusAssumption ==
  /\ IsFiniteSet(Bufs) /\ NULL \notin Bufs
  /\ IsFiniteSet(Tasks) /\ ES \in Tasks
  /\ NoApp \notin Apps
  /\ AppOf \in [Tasks -> Apps]
  /\ Uses \in [Tasks -> SUBSET CallNames]
  /\ Cmds \subseteq {"Route", "Reporting"}
  /\ QueueIds \subseteq Nat \ {0} /\ IsFiniteSet(QueueIds)
  /\ Depths \subseteq Nat \ {0}
  /\ TimeOuts \subseteq {"POLL", "PEND", "TIMED"}
  /\ ReportMid \in MsgIds

VARIABLES
  PipeTbl,               \* CFE_SB.PipeTbl
  PipesInUse,            \* StatTlmMsg.Payload.PipesInUse
  DepthInUse,            \* StatTlmMsg.Payload.PipeDepthStats[].InUse
  queue,                 \* the OS queues, by queue id
  buf,                   \* buffer descriptors; UseCount 0 is a free block
  SubscriptionReporting, \* CFE_SB.SubscriptionReporting
  SubRprtMsg,            \* payload of the one report message, CFE_SB.SubRprtMsg
  handles,               \* app -> the pipe ids CreatePipe has given it
  pc,                    \* task -> where it is
  loc                    \* task -> its local variables

pipeVars == <<PipeTbl, PipesInUse, DepthInUse, queue>>
rptVars  == <<SubscriptionReporting, SubRprtMsg>>
vars == <<routeVars, pipeVars, buf, rptVars, handles, pc, loc>>

NoQueue == 0                       \* CFE_SB_UNUSED_QUEUE
U16 == 65536                       \* values of a uint16
Unused == [open |-> FALSE, depth |-> 0, msgs |-> <<>>]
FreeBuf == [UseCount |-> 0, MsgId |-> NoMsgId, data |-> NULL]
Reports == [MsgId : MsgIds, Pipe : Pipes, SubType : {"SUB", "UNSUB"}]

(* The locals a task carries from one step of a call to the next: the pipe, *)
(* RcvMsg's TimeOut, queue, message and status, DeletePipeFull's app id and *)
(* route index, CleanUpApp's pipe index, and the subscription to report.    *)
NoLoc == [pipe |-> NULL, timeout |-> "POLL", queue |-> NoQueue, msg |-> NULL,
          status |-> "none", app |-> NoApp, idx |-> 0, deleting |-> FALSE,
          cursor |-> -1, report |-> NULL]

PipeD == [InUse : BOOLEAN, AppId : Apps \cup {NoApp},
          SysQueueId : QueueIds \cup {NoQueue},
          CurrentBuff : Bufs \cup {NULL}, ToTrashBuff : Bufs \cup {NULL},
          IgnoreMine : BOOLEAN]

QueueD == [open : BOOLEAN, depth : Nat, msgs : Seq(Bufs)]
BufferD == [UseCount : Nat, MsgId : MsgIds \cup {NoMsgId},
            data : Reports \cup {NULL}]
Locals == [pipe : Pipes \cup {NULL}, timeout : {"POLL", "PEND", "TIMED"},
           queue : QueueIds \cup {NoQueue}, msg : Bufs \cup {NULL},
           status : {"none", "ok", "empty", "timeout", "error"},
           app : Apps \cup {NoApp}, idx : 0 .. MaxMsgIds,
           deleting : BOOLEAN, cursor : -1 .. MaxPipes,
           report : Reports \cup {NULL}]

PCs == {"idle", "report", "rcvBegun", "rcvBlocked", "rcvRead", "unsub",
        "walk", "drain", "deleted", "cleaning", "exited", "dead", "fault"}

(* The type invariant: the pipe table, queues, buffers and calls under way  *)
(* (CFE_SB_PipeD_t, CFE_SB_BufferD_t).                                      *)
TypeOK ==
  /\ RouteTypeOK
  /\ PipeTbl \in [Pipes -> PipeD]
  /\ PipesInUse \in Int
  /\ DepthInUse \in [Pipes -> 0 .. U16 - 1]
  /\ queue \in [QueueIds -> QueueD]
  /\ buf \in [Bufs -> BufferD]
  /\ SubscriptionReporting \in BOOLEAN
  /\ SubRprtMsg \in Reports \cup {NULL}
  /\ handles \in [Apps -> SUBSET Pipes]
  /\ pc \in [Tasks -> PCs]
  /\ loc \in [Tasks -> Locals]

(* CFE_SB_EarlyInit: the tables are empty, reporting is off.               *)
Init ==
  /\ RouteInit
  /\ PipeTbl = [p \in Pipes |->
       [InUse |-> FALSE, AppId |-> NoApp, SysQueueId |-> NoQueue,
        CurrentBuff |-> NULL, ToTrashBuff |-> NULL, IgnoreMine |-> FALSE]]
  /\ PipesInUse = 0
  /\ DepthInUse = [p \in Pipes |-> 0]
  /\ queue = [q \in QueueIds |-> Unused]
  /\ buf = [b \in Bufs |-> FreeBuf]
  /\ SubscriptionReporting = FALSE
  /\ SubRprtMsg = NULL
  /\ handles = [a \in Apps |-> {}]
  /\ pc = [t \in Tasks |-> "idle"]
  /\ loc = [t \in Tasks |-> NoLoc]

-----------------------------------------------------------------------------
(* Helpers *)

Min(S) == CHOOSE x \in S : \A y \in S : x <= y

Calls(t, c) == pc[t] = "idle" /\ c \in Uses[t]

Goto(t, there, locals) ==
  /\ pc' = [pc EXCEPT ![t] = there]
  /\ loc' = [loc EXCEPT ![t] = locals]

Stay == UNCHANGED <<pc, loc>>

(* CFE_SB_ValidatePipeId and CFE_SB_GetPipeIdx: an entry's PipeId is its    *)
(* index while InUse and CFE_SB_INVALID_PIPE otherwise.                     *)
ValidPipe(p) == PipeTbl[p].InUse
Owns(a, p) == ValidPipe(p) /\ PipeTbl[p].AppId = a

(* OSAL knows the queue id.                                                *)
IsOpen(q) == q # NoQueue /\ queue[q].open

(* CFE_SB_DecrBufUseCnt, returning the block to the pool at zero.          *)
DecrBufUseCnt(bs, b) ==
  IF b = NULL \/ bs[b].UseCount = 0 THEN bs
  ELSE [bs EXCEPT ![b] = IF bs[b].UseCount = 1 THEN FreeBuf
              ELSE [bs[b] EXCEPT !.UseCount = bs[b].UseCount - 1]]

FreeBufs == {b \in Bufs : buf[b].UseCount = 0}

-----------------------------------------------------------------------------
(* Pipes *)

(* OSAL hands out ids that no table or pending call still holds.           *)
QueueIdUnheld(q) ==
  /\ ~queue[q].open
  /\ \A p \in Pipes : PipeTbl[p].SysQueueId # q
  /\ \A t \in Tasks : loc[t].queue # q

(* CFE_SB_CreatePipe: the first free entry, a new queue, and every field    *)
(* but Opts.                                                               *)
CreatePipe(t, depth) ==
  LET free == {p \in Pipes : ~PipeTbl[p].InUse}
      p    == Min(free)
      ids  == {q \in QueueIds : QueueIdUnheld(q)}
  IN /\ Calls(t, "CreatePipe")
     /\ free # {} /\ ids # {}
     /\ queue' = [queue EXCEPT ![Min(ids)] =
                    [open |-> TRUE, depth |-> depth, msgs |-> <<>>]]
     /\ PipeTbl' = [PipeTbl EXCEPT ![p] =
          [PipeTbl[p] EXCEPT !.InUse = TRUE, !.AppId = AppOf[t],
                             !.SysQueueId = Min(ids),
                             !.CurrentBuff = NULL, !.ToTrashBuff = NULL]]
     /\ PipesInUse' = PipesInUse + 1
     /\ DepthInUse' = [DepthInUse EXCEPT ![p] = 0]
     /\ handles' = [handles EXCEPT ![AppOf[t]] = @ \cup {p}]
     /\ UNCHANGED <<routeVars, buf, rptVars>> /\ Stay

(* CFE_SB_SetPipeOpts.                                                     *)
SetPipeOpts(t, p, ignoreMine) ==
  /\ Calls(t, "SetPipeOpts")
  /\ p \in handles[AppOf[t]] /\ Owns(AppOf[t], p)
  /\ PipeTbl' = [PipeTbl EXCEPT ![p].IgnoreMine = ignoreMine]
  /\ UNCHANGED <<routeVars, PipesInUse, DepthInUse, queue, buf, rptVars,
                 handles>> /\ Stay

-----------------------------------------------------------------------------
(* Subscriptions *)

(* With reporting enabled a GLOBAL request leaves its details in the one    *)
(* SubRprtMsg and sends that message once the lock has been given back.     *)
Report(t, m, p, scope, subType) ==
  IF SubscriptionReporting /\ scope = "GLOBAL"
  THEN LET r == [MsgId |-> m, Pipe |-> p, SubType |-> subType]
       IN SubRprtMsg' = r /\ Goto(t, "report", [NoLoc EXCEPT !.report = r])
  ELSE UNCHANGED SubRprtMsg /\ Stay

(* CFE_SB_SubscribeFull by the owner of the pipe.                          *)
Subscribe(t, m, p, lim, scope) ==
  /\ Calls(t, "Subscribe")
  /\ p \in handles[AppOf[t]] /\ Owns(AppOf[t], p)
  /\ \/ AddSubscription(m, p, lim, scope) /\ Report(t, m, p, scope, "SUB")
     \/ SubscribeNoBlock(m, p) /\ UNCHANGED SubRprtMsg /\ Stay
  /\ UNCHANGED <<pipeVars, buf, SubscriptionReporting, handles>>

(* CFE_SB_UnsubscribeFull for app a.                                       *)
UnsubscribeFull(m, p, a) ==
  IF Owns(a, p) /\ m # NoMsgId /\ IsMapped(m)
  THEN RemoveSubscription(m, p)
  ELSE UNCHANGED routeVars

(* Its do-while dereferences ListHeadPtr before it tests it, so a mapped    *)
(* message id without destinations is a NULL dereference.                   *)
UnsubscribeFaults(m, p, a) ==
  /\ Owns(a, p) /\ m # NoMsgId /\ IsMapped(m)
  /\ RoutingTbl[MsgMap[m]].ListHeadPtr = <<>>

Unsubscribe(t, m, p, scope) ==
  /\ Calls(t, "Unsubscribe")
  /\ p \in handles[AppOf[t]] /\ Owns(AppOf[t], p)
  /\ IsMapped(m)
  /\ \/ /\ UnsubscribeFaults(m, p, AppOf[t])
        /\ Goto(t, "fault", NoLoc)
        /\ UNCHANGED <<routeVars, SubRprtMsg>>
     \/ /\ UnsubscribeFull(m, p, AppOf[t])
        /\ IF IsMapped(m)' THEN UNCHANGED SubRprtMsg /\ Stay
                           ELSE Report(t, m, p, scope, "UNSUB")
  /\ UNCHANGED <<pipeVars, buf, SubscriptionReporting, handles>>

-----------------------------------------------------------------------------
(* Sending *)

(* The nodes of m's route whose queue takes a message from app a: active,   *)
(* not ignoring its owner's own messages, below the message limit, and      *)
(* OS_QueuePut succeeds (the pipe has a queue and it is not full).          *)
Accepting(m, a) ==
  LET list == RoutingTbl[MsgMap[m]].ListHeadPtr
  IN {i \in BelowLimit(m) :
        LET pipe == PipeTbl[list[i].PipeId]
        IN /\ ~(pipe.IgnoreMine /\ pipe.AppId = a)
           /\ IsOpen(pipe.SysQueueId)
           /\ Len(queue[pipe.SysQueueId].msgs) < queue[pipe.SysQueueId].depth}

(* The locked section of CFE_SB_SendMsgFull for a message of app a: nothing *)
(* without a route or a buffer; otherwise one buffer goes to every          *)
(* accepting queue and is freed at once if there was none.                  *)
SendMsgFull(a, m, data, incr) ==
  \/ /\ ~IsMapped(m) \/ FreeBufs = {}
     /\ UNCHANGED <<routeVars, queue, DepthInUse, buf>>
  \/ /\ IsMapped(m)
     /\ \E b \in FreeBufs :
          LET list  == RoutingTbl[MsgMap[m]].ListHeadPtr
              D     == Accepting(m, a)
              pipes == {list[i].PipeId : i \in D}
              qs    == {PipeTbl[p].SysQueueId : p \in pipes}
          IN /\ CountSend(m, incr, D)
             /\ queue' = [q \in QueueIds |->
                  IF q \in qs THEN [queue[q] EXCEPT !.msgs = Append(@, b)]
                              ELSE queue[q]]
             /\ DepthInUse' = [p \in Pipes |->
                  IF p \in pipes THEN (DepthInUse[p] + 1) % U16
                                 ELSE DepthInUse[p]]
             /\ buf' = IF D = {} THEN buf ELSE
                  [buf EXCEPT ![b] = [UseCount |-> Cardinality(D),
                                      MsgId |-> m, data |-> data]]

(* CFE_SB_SendMsg and CFE_SB_PassMsg.                                      *)
SendMsg(t, m) ==
  /\ \/ Calls(t, "SendMsg") /\ SendMsgFull(AppOf[t], m, NULL, TRUE)
     \/ Calls(t, "PassMsg") /\ SendMsgFull(AppOf[t], m, NULL, FALSE)
  /\ UNCHANGED <<PipeTbl, PipesInUse, rptVars, handles>> /\ Stay

(* The CFE_SB_SendMsg(&CFE_SB.SubRprtMsg) of (Un)SubscribeFull: it copies   *)
(* whatever the shared message holds by now.                               *)
SendReport(t) ==
  /\ pc[t] = "report"
  /\ SendMsgFull(AppOf[t], ReportMid, SubRprtMsg, TRUE)
  /\ Goto(t, "idle", NoLoc)
  /\ UNCHANGED <<PipeTbl, PipesInUse, rptVars, handles>>

-----------------------------------------------------------------------------
(* Receiving *)

(* CFE_SB_RcvMsg, first unlocked statement: ToTrashBuff = CurrentBuff.     *)
RcvBegin(t, p, locals) ==
  /\ PipeTbl' = [PipeTbl EXCEPT ![p].ToTrashBuff = PipeTbl[p].CurrentBuff]
  /\ Goto(t, "rcvBegun", locals)
  /\ UNCHANGED <<routeVars, PipesInUse, DepthInUse, queue, buf, rptVars,
                 handles>>

RcvMsg(t, p, timeout) ==
  /\ Calls(t, "RcvMsg")
  /\ p \in handles[AppOf[t]] /\ ValidPipe(p)
  /\ RcvBegin(t, p, [NoLoc EXCEPT !.pipe = p, !.timeout = timeout])

(* OS_QueueGet(q) with a message present.                                  *)
TakeMessage(t, q) ==
  /\ queue' = [queue EXCEPT ![q].msgs = Tail(@)]
  /\ Goto(t, "rcvRead", [loc[t] EXCEPT !.status = "ok",
                           !.msg = Head(queue[q].msgs), !.queue = NoQueue])

(* The second unlocked statement, CurrentBuff = NULL, then CFE_SB_ReadQueue:*)
(* the queue id is read from the pipe entry as it is now.                  *)
RcvReadQueue(t) ==
  LET p == loc[t].pipe
      q == PipeTbl[p].SysQueueId
  IN /\ pc[t] = "rcvBegun"
     /\ PipeTbl' = [PipeTbl EXCEPT ![p].CurrentBuff = NULL]
     /\ \/ /\ ~IsOpen(q)
           /\ Goto(t, "rcvRead", [loc[t] EXCEPT !.status = "error"])
           /\ UNCHANGED queue
        \/ IsOpen(q) /\ queue[q].msgs # <<>> /\ TakeMessage(t, q)
        \/ /\ IsOpen(q) /\ queue[q].msgs = <<>>
           /\ IF loc[t].timeout = "POLL"
              THEN Goto(t, "rcvRead", [loc[t] EXCEPT !.status = "empty"])
              ELSE Goto(t, "rcvBlocked", [loc[t] EXCEPT !.queue = q])
           /\ UNCHANGED queue
     /\ UNCHANGED <<routeVars, PipesInUse, DepthInUse, buf, rptVars, handles>>

(* A pending OS_QueueGet returns with a message, or its timeout expires.   *)
RcvWake(t) ==
  /\ pc[t] = "rcvBlocked"
  /\ queue[loc[t].queue].msgs # <<>>
  /\ TakeMessage(t, loc[t].queue)
  /\ UNCHANGED <<routeVars, PipeTbl, PipesInUse, DepthInUse, buf, rptVars,
                 handles>>

RcvTimeOut(t) ==
  /\ pc[t] = "rcvBlocked" /\ loc[t].timeout = "TIMED"
  /\ Goto(t, "rcvRead", [loc[t] EXCEPT !.status = "timeout",
                                       !.queue = NoQueue])
  /\ UNCHANGED <<routeVars, pipeVars, buf, rptVars, handles>>

(* The MsgId read from a buffer descriptor: any, if the block is free.     *)
MsgIdRead(b) == IF buf[b].UseCount > 0 THEN {buf[b].MsgId} ELSE MsgIds

(* Mutant of RcvReturn: the drain loop of DeletePipeFull polls only once.   *)
RcvReturnDrainsOnce(t) ==
  IF ~loc[t].deleting
  THEN Goto(t, "idle", NoLoc)
  ELSE Goto(t, "deleted", [loc[t] EXCEPT !.status = "none", !.msg = NULL])

(* Where RcvMsg returns to: its caller, or DeletePipeFull's drain loop,     *)
(* which polls again after a message and ends the pipe otherwise.          *)
RcvReturn(t) ==
  IF ~loc[t].deleting
  THEN Goto(t, "idle", NoLoc)
  ELSE Goto(t, IF loc[t].status = "ok" THEN "drain" ELSE "deleted",
            [loc[t] EXCEPT !.status = "none", !.msg = NULL])

(* The locked section of CFE_SB_RcvMsg: free the previous buffer, make the  *)
(* message the current one and settle BuffCount and the depth statistic,    *)
(* all through the pipe entry as it is now.                                *)
RcvFinish(t) ==
  LET p   == loc[t].pipe
      ok  == loc[t].status = "ok"
      msg == loc[t].msg
  IN /\ pc[t] = "rcvRead"
     /\ buf' = DecrBufUseCnt(buf, PipeTbl[p].ToTrashBuff)
     /\ PipeTbl' = [PipeTbl EXCEPT ![p] =
          [PipeTbl[p] EXCEPT !.ToTrashBuff = NULL,
             !.CurrentBuff = IF ok THEN msg ELSE PipeTbl[p].CurrentBuff]]
     /\ IF ok /\ ValidPipe(p)
        THEN /\ \E m \in MsgIdRead(msg) : CountReceive(m, p)
             /\ DepthInUse' = [DepthInUse EXCEPT ![p] = (@ - 1) % U16]
        ELSE UNCHANGED <<routeVars, DepthInUse>>
     /\ RcvReturn(t)
     /\ UNCHANGED <<PipesInUse, queue, rptVars, handles>>

-----------------------------------------------------------------------------
(* Deleting a pipe *)

(* Mutant of RoutesListing: the walk starts one route late.                 *)
RoutesListingAfter(p, i) ==
  {r \in RouteIdxs : r > i /\ HasDest(RoutingTbl[r].ListHeadPtr, p)}

(* Mutant of RoutesListing: the walk ends at its first unsubscription.      *)
RoutesListingFirst(p, i) ==
  {r \in RouteIdxs : i = 0 /\ HasDest(RoutingTbl[r].ListHeadPtr, p)}

(* Mutant of RoutesListing: the pipe is drained while still subscribed.     *)
RoutesListingNone(p, i) == {}

(* The routes from index i on that CFE_SB_DeletePipeFull will unsubscribe   *)
(* pipe p from.                                                            *)
RoutesListing(p, i) ==
  {r \in RouteIdxs : /\ r >= i
                     /\ RoutingTbl[r].MsgId # NoMsgId
                     /\ HasDest(RoutingTbl[r].ListHeadPtr, p)}

(* The for-loop of CFE_SB_DeletePipeFull from route i on, up to the next    *)
(* route that lists the pipe; after the last one ToTrashBuff is released    *)
(* and the drain loop starts, all in the same locked section.               *)
WalkFrom(t, p, i, locals) ==
  LET found == RoutesListing(p, i)
  IN IF found # {}
     THEN /\ Goto(t, "unsub", [locals EXCEPT !.idx = Min(found)])
          /\ UNCHANGED <<PipeTbl, buf>>
     ELSE /\ Goto(t, "drain", [locals EXCEPT !.idx = 0])
          /\ buf' = DecrBufUseCnt(buf, PipeTbl[p].ToTrashBuff)
          /\ PipeTbl' = [PipeTbl EXCEPT ![p].ToTrashBuff = NULL]

DeletePipe(t, p) ==
  /\ Calls(t, "DeletePipe")
  /\ p \in handles[AppOf[t]] /\ Owns(AppOf[t], p)
  /\ WalkFrom(t, p, 0, [NoLoc EXCEPT !.pipe = p, !.app = AppOf[t],
                                     !.deleting = TRUE])
  /\ UNCHANGED <<routeVars, PipesInUse, DepthInUse, queue, rptVars, handles>>

(* CFE_SB_UnsubscribeWithAppId(RoutingTbl[i].MsgId, ...), with the lock     *)
(* given back before and after: the id is read from the entry as it is now. *)
DeleteUnsubscribe(t) ==
  LET m == RoutingTbl[loc[t].idx].MsgId
  IN /\ pc[t] = "unsub"
     /\ IF UnsubscribeFaults(m, loc[t].pipe, loc[t].app)
        THEN Goto(t, "fault", NoLoc) /\ UNCHANGED routeVars
        ELSE /\ UnsubscribeFull(m, loc[t].pipe, loc[t].app)
             /\ Goto(t, "walk", [loc[t] EXCEPT !.idx = @ + 1])
     /\ UNCHANGED <<pipeVars, buf, rptVars, handles>>

DeleteWalk(t) ==
  /\ pc[t] = "walk"
  /\ WalkFrom(t, loc[t].pipe, loc[t].idx, loc[t])
  /\ UNCHANGED <<routeVars, PipesInUse, DepthInUse, queue, rptVars, handles>>

(* Mutant of DeleteDrain: the drain loop pends instead of polling.          *)
DeleteDrainPends(t) ==
  /\ pc[t] = "drain"
  /\ IF ValidPipe(loc[t].pipe)
     THEN RcvBegin(t, loc[t].pipe, [loc[t] EXCEPT !.timeout = "PEND"])
     ELSE /\ Goto(t, "deleted", loc[t])
          /\ UNCHANGED <<routeVars, pipeVars, buf, rptVars, handles>>

(* CFE_SB_RcvMsg(..., CFE_SB_POLL) of the drain loop; on an entry that is   *)
(* no longer in use it fails and the loop ends.                            *)
DeleteDrain(t) ==
  /\ pc[t] = "drain"
  /\ IF ValidPipe(loc[t].pipe)
     THEN RcvBegin(t, loc[t].pipe, loc[t])
     ELSE /\ Goto(t, "deleted", loc[t])
          /\ UNCHANGED <<routeVars, pipeVars, buf, rptVars, handles>>

(* Mutant of RemovedPipe: InUse is not cleared.                             *)
RemovedPipeInUse(entry) ==
  [entry EXCEPT !.SysQueueId = NoQueue, !.CurrentBuff = NULL]

(* The pipe table entry after deletion: AppId and Opts stay as they were.   *)
RemovedPipe(entry) ==
  [entry EXCEPT !.InUse = FALSE, !.SysQueueId = NoQueue, !.CurrentBuff = NULL]

(* The rest of CFE_SB_DeletePipeFull.  Nothing is validated again.         *)
DeleteFinish(t) ==
  LET p == loc[t].pipe
      q == PipeTbl[p].SysQueueId
  IN /\ pc[t] = "deleted"
     /\ queue' = IF q = NoQueue THEN queue ELSE [queue EXCEPT ![q] = Unused]
     /\ PipeTbl' = [PipeTbl EXCEPT ![p] = RemovedPipe(PipeTbl[p])]
     /\ PipesInUse' = PipesInUse - 1
     /\ DepthInUse' = [DepthInUse EXCEPT ![p] = 0]
     /\ IF loc[t].cursor = -1
        THEN /\ Goto(t, "idle", NoLoc)
             /\ handles' = [handles EXCEPT ![loc[t].app] = @ \ {p}]
        ELSE /\ Goto(t, "cleaning", [NoLoc EXCEPT !.app = loc[t].app,
                                       !.cursor = loc[t].cursor + 1])
             /\ UNCHANGED handles
     /\ UNCHANGED <<routeVars, buf, rptVars>>

-----------------------------------------------------------------------------
(* Applications coming and going (what ES does to the bus) *)

(* CFE_ES_ExitApp: the task makes no more calls and waits to be deleted.   *)
ExitApp(t) ==
  /\ Calls(t, "ExitApp")
  /\ Goto(t, "exited", NoLoc)
  /\ UNCHANGED <<routeVars, pipeVars, buf, rptVars, handles>>

TasksOf(a) == {t \in Tasks : AppOf[t] = a}

(* CFE_SB_CleanUpApp(a), called by ES when the application has exited and   *)
(* no task of it runs any more, or (forced) while one still runs: the kill  *)
(* timeout of a stopped application has passed, or its main task has exited *)
(* and a child task has not.                                                *)
CleanUpApp(a) ==
  /\ a # AppOf[ES]
  /\ \/ Calls(ES, "CleanUpExited") /\ \A t \in TasksOf(a) : pc[t] = "exited"
     \/ Calls(ES, "CleanUpForced") /\ \E t \in TasksOf(a) : pc[t] # "dead"
  /\ Goto(ES, "cleaning", [NoLoc EXCEPT !.app = a, !.cursor = 0])
  /\ UNCHANGED <<routeVars, pipeVars, buf, rptVars, handles>>

(* One iteration of its loop over the pipe table; after the last one ES     *)
(* goes on to delete the application's tasks and what they have created in  *)
(* OSAL, the queues of any pipe it still has among it.                      *)
CleanUpPipe ==
  LET a == loc[ES].app
      p == loc[ES].cursor
  IN /\ pc[ES] = "cleaning"
     /\ IF p \notin Pipes
        THEN /\ pc' = [t \in Tasks |->
                  IF t = ES THEN "idle"
                  ELSE IF AppOf[t] = a THEN "dead" ELSE pc[t]]
             /\ loc' = [t \in Tasks |->
                  IF t = ES \/ AppOf[t] = a THEN NoLoc ELSE loc[t]]
             /\ handles' = [handles EXCEPT ![a] = {}]
             /\ queue' = [q \in QueueIds |->
                  IF \E i \in Pipes : Owns(a, i) /\ PipeTbl[i].SysQueueId = q
                  THEN Unused ELSE queue[q]]
             /\ UNCHANGED <<PipeTbl, buf>>
        ELSE /\ IF Owns(a, p)
                THEN WalkFrom(ES, p, 0, [loc[ES] EXCEPT !.pipe = p,
                                                       !.deleting = TRUE])
                ELSE /\ Goto(ES, "cleaning", [loc[ES] EXCEPT !.cursor = @ + 1])
                     /\ UNCHANGED <<PipeTbl, buf>>
             /\ UNCHANGED <<handles, queue>>
     /\ UNCHANGED <<routeVars, PipesInUse, DepthInUse, rptVars>>

(* CFE_ES_AppCreate for a restarted or reloaded application.               *)
StartApp(a) ==
  /\ Calls(ES, "StartApp")
  /\ TasksOf(a) # {} /\ \A t \in TasksOf(a) : pc[t] = "dead"
  /\ pc' = [t \in Tasks |-> IF AppOf[t] = a THEN "idle" ELSE pc[t]]
  /\ UNCHANGED <<routeVars, pipeVars, buf, rptVars, handles, loc>>

-----------------------------------------------------------------------------
(* Ground commands to the SB task *)

(* CFE_SB_EnableRouteCmd, CFE_SB_DisableRouteCmd.                          *)
RouteCmd(m, p, active) ==
  /\ "Route" \in Cmds
  /\ ValidPipe(p)
  /\ SetActive(m, p, active)
  /\ UNCHANGED <<pipeVars, buf, rptVars, handles>> /\ Stay

(* CFE_SB_EnableSubReportingCmd, CFE_SB_DisableSubReportingCmd.            *)
SetSubscriptionReporting(state) ==
  /\ "Reporting" \in Cmds
  /\ SubscriptionReporting' = state
  /\ UNCHANGED <<routeVars, pipeVars, buf, SubRprtMsg, handles>> /\ Stay

-----------------------------------------------------------------------------
(* The calls a task starts, and the steps that carry a started call on.    *)
Call(t) ==
  \/ \E depth \in Depths : CreatePipe(t, depth)
  \/ ExitApp(t)
  \/ \E m \in MsgIds : SendMsg(t, m)
  \/ \E p \in Pipes :
       \/ DeletePipe(t, p)
       \/ \E ignoreMine \in BOOLEAN : SetPipeOpts(t, p, ignoreMine)
       \/ \E timeout \in TimeOuts : RcvMsg(t, p, timeout)
       \/ \E m \in MsgIds, scope \in Scopes :
            \/ \E lim \in MsgLims : Subscribe(t, m, p, lim, scope)
            \/ Unsubscribe(t, m, p, scope)

Continue(t) ==
  \/ SendReport(t)
  \/ RcvReadQueue(t) \/ RcvWake(t) \/ RcvTimeOut(t) \/ RcvFinish(t)
  \/ DeleteUnsubscribe(t) \/ DeleteWalk(t) \/ DeleteDrain(t)
  \/ DeleteFinish(t)
  \/ t = ES /\ CleanUpPipe

Next ==
  \/ \E t \in Tasks : Call(t) \/ Continue(t)
  \/ \E a \in Apps : CleanUpApp(a) \/ StartApp(a)
  \/ \E m \in MsgIds, p \in Pipes, active \in BOOLEAN : RouteCmd(m, p, active)
  \/ \E state \in BOOLEAN : SetSubscriptionReporting(state)

Spec == Init /\ [][Next]_vars

(* The scheduler runs every ready task, so a call that has been started    *)
(* goes on; a task blocked on an empty queue is not ready.                 *)
FairSpec == Spec /\ \A t \in Tasks : WF_vars(Continue(t))

-----------------------------------------------------------------------------
(* Properties *)

OpenQueues == {q \in QueueIds : queue[q].open}

QueueOf(p) == IF PipeTbl[p].SysQueueId = NoQueue THEN <<>>
              ELSE queue[PipeTbl[p].SysQueueId].msgs

(* Tasks that have taken a message off pipe p's queue and not yet settled   *)
(* it under the lock.                                                       *)
InHand(p) == {t \in Tasks : loc[t].pipe = p /\ loc[t].msg # NULL}

(* Who still needs buffer b: its places in open queues, the pipes whose     *)
(* reader was last given it or is about to give it back, and the tasks that *)
(* have just taken it off a queue.                                          *)
References(b) ==
    Cardinality({s \in UNION {{q} \X DOMAIN queue[q].msgs : q \in OpenQueues} :
                   queue[s[1]].msgs[s[2]] = b})
  + Cardinality({p \in Pipes : b \in {PipeTbl[p].CurrentBuff,
                                      PipeTbl[p].ToTrashBuff}})
  + Cardinality({t \in Tasks : loc[t].msg = b})

(* A message buffer's UseCount is the number of places that still refer to  *)
(* it: none is returned to the pool while a queue or a reader needs it, and *)
(* none stays allocated once nobody does (CFE_SB_SendMsgFull, RcvMsg,       *)
(* DeletePipeFull and CFE_SB_DecrBufUseCnt together).                       *)
BuffersRefCounted == \A b \in Bufs : buf[b].UseCount = References(b)

(* Deleting a pipe leaves no subscription behind: every destination on a    *)
(* list is a pipe in use with an open queue, so no message is put on a dead *)
(* pipe and no later owner of the entry inherits a subscription.            *)
NoStaleDestination ==
  \A r \in RouteIdxs : \A i \in DOMAIN RoutingTbl[r].ListHeadPtr :
    LET p == RoutingTbl[r].ListHeadPtr[i].PipeId
    IN ValidPipe(p) /\ PipeTbl[p].SysQueueId \in OpenQueues

(* Messages with id m between OS_QueuePut and the end of RcvMsg on pipe p.  *)
InTransit(p, m) ==
    Cardinality({i \in DOMAIN QueueOf(p) : buf[QueueOf(p)[i]].MsgId = m})
  + Cardinality({t \in InHand(p) : buf[loc[t].msg].MsgId = m})

(* BuffCount never counts a message that is no longer in transit, whatever  *)
(* is unsubscribed and resubscribed meanwhile: a reader that empties its    *)
(* pipe brings the count back to zero, so the message limit cannot shut a   *)
(* subscription off for good.                                               *)
NoWedgedSubscription ==
  \A r \in RouteIdxs : \A i \in DOMAIN RoutingTbl[r].ListHeadPtr :
    LET d == RoutingTbl[r].ListHeadPtr[i]
    IN d.BuffCount <= InTransit(d.PipeId, RoutingTbl[r].MsgId)

(* PipesInUse is the number of pipes currently in use, whoever creates and  *)
(* deletes pipes at the same time (PipesInUse-- in CFE_SB_DeletePipeFull).  *)
PipesInUseExact == PipesInUse = Cardinality({p \in Pipes : ValidPipe(p)})

(* The statistics packet's PipesInUse and PipeDepthStats[].InUse agree with *)
(* the pipe table and the queues; a message counts as on the pipe until its *)
(* reader settles it under the lock.                                        *)
PipeStatsExact ==
  /\ PipesInUseExact
  /\ \A p \in Pipes :
       DepthInUse[p] = Len(QueueOf(p)) + Cardinality(InHand(p))

(* CFE_SB_CleanUpApp leaves a deleted application without pipes.            *)
DeadAppsOwnNothing ==
  \A a \in Apps : (TasksOf(a) # {} /\ \A t \in TasksOf(a) : pc[t] = "dead")
                   => \A p \in Pipes : ~Owns(a, p)

(* The pipe table, its statistics and the applications agree: what the      *)
(* statistics packet counts is there, and nothing of a deleted application  *)
(* is (CFE_SB_DeletePipeFull, CFE_SB_CleanUpApp).                           *)
PipesExact == TypeOK /\ PipeStatsExact /\ DeadAppsOwnNothing

(* Whatever falls between the locked sections of a pipe's deletion, it      *)
(* leaves neither a buffer nor a subscription (CFE_SB_DeletePipeFull).      *)
DeletionsLeaveNothing == BuffersRefCounted /\ NoStaleDestination

(* The subscription report a task is about to send tells of the request     *)
(* that task made (CFE_SB.SubRprtMsg is shared and sent after the unlock).  *)
ReportsOwnRequest ==
  \A t \in Tasks : pc[t] = "report" => SubRprtMsg = loc[t].report

(* Deleting a pipe comes to an end: the drain loop of DeletePipeFull cannot *)
(* be kept busy by senders, because the pipe is off every list by then.     *)
DeletePipeCompletes == \A t \in Tasks : loc[t].deleting ~> ~loc[t].deleting

(* Whatever runs while Executive Services deletes the pipes of a removed    *)
(* application (its own task reads the same queue, deletes the same pipe or *)
(* subscribes again, and may die in between), a deletion does not get stuck: *)
(* it ends, or a new subscription has put its pipe back on a list, which is *)
(* all that can keep the drain loop of DeletePipeFull busy.                 *)
DeletionsEndOnceUnlisted ==
  LET listed(p) == \E r \in RouteIdxs : HasDest(RoutingTbl[r].ListHeadPtr, p)
  IN \A t \in Tasks : []<>(~loc[t].deleting \/ listed(loc[t].pipe))

(* A message id subscribed on a pipe is never there more often than the     *)
(* limit its subscription asked for.                                        *)
MsgLimitHolds ==
  \A r \in RouteIdxs : \A i \in DOMAIN RoutingTbl[r].ListHeadPtr :
    LET d == RoutingTbl[r].ListHeadPtr[i]
    IN InTransit(d.PipeId, RoutingTbl[r].MsgId) <= d.MsgId2PipeLim

(* Unsubscribing what is not subscribed is harmless: no call of             *)
(* CFE_SB_UnsubscribeFull dereferences a NULL list head.                    *)
NoUnsubscribeFault == \A t \in Tasks : pc[t] # "fault"

(* A pipe just created has no options set, whoever had the entry before.    *)
NewPipeHasDefaultOpts ==
  [][\A p \in Pipes : ~ValidPipe(p) /\ ValidPipe(p)' => ~PipeTbl'[p].IgnoreMine]_vars

(* What the bus does to the routing state is what SBRouteTable allows.      *)
RoutesAsSpecified == RouteSpec
=============================================================================

----------------------------- MODULE SBZeroCopy -----------------------------
(***************************************************************************)
(* Zero-copy buffers of the Software Bus (cfe_sb_api.c, cfe_sb_priv.c).  An *)
(* application gets a message buffer with a descriptor, fills it and sends  *)
(* or releases it.  The descriptors of all applications are on one doubly   *)
(* linked list, so that CFE_SB_CleanUpApp finds what a removed application  *)
(* still holds.  Two parts of this run without the SB lock:                 *)
(*  - CFE_SB_ZeroCopyGetPtr writes the owner into the descriptor, and the   *)
(*    use count into the buffer, after the descriptor is on the list;       *)
(*  - CFE_SB_ZeroCopyReleaseAppId walks the list while other applications   *)
(*    get and give back descriptors.                                        *)
(* Descriptors and buffers are blocks of two sizes of one pool: memory that *)
(* keeps its contents when it is free.                                      *)
(***************************************************************************)
EXTENDS Integers, FiniteSets, Sequences, Functions

CONSTANTS
  Apps,        \* applications, with one task each
  Mortal,      \* the applications that may exit and be cleaned up
  NumDescs,    \* descriptors the pool can hold
  Bufs,        \* message buffers the pool can hold
  MaxHeld,     \* application -> how many buffers its program holds at most
  Depth,       \* depth of the receiver's pipe
  Windows,     \* subset of {"owner", "release"}: see ReleaseAppId, GiveBack
  ES, NULL

Descs == 1 .. NumDescs

ASSUME ZeroCopyAssumption ==
  /\ Mortal \subseteq Apps /\ IsFiniteSet(Apps)
  /\ ES \notin Apps /\ NULL \notin Apps
  /\ NumDescs \in Nat \ {0} /\ IsFiniteSet(Bufs) /\ Depth \in Nat
  /\ MaxHeld \in [Apps -> Nat]
  /\ NULL \notin Descs \cup Bufs
  /\ Windows \subseteq {"owner", "release"}

VARIABLES
  ZeroCopyTail,    \* CFE_SB.ZeroCopyTail
  zcd,             \* descriptor -> what its memory holds
  buf,             \* buffer -> the UseCount its memory holds
  freeDescs,       \* the free descriptors, the one given back last first
  freeBufs,        \* the free buffers
  SBBuffersInUse,  \* StatTlmMsg.Payload.SBBuffersInUse
  queue,           \* buffers sent and not yet done with by their receiver
  held,            \* application -> the <<descriptor, buffer>> it may use
  pc, loc          \* where each task is, and what it works on

pool == <<freeDescs, freeBufs>>
vars == <<ZeroCopyTail, zcd, buf, pool, SBBuffersInUse, queue, held, pc,
          loc>>

Tasks  == Apps \cup {ES}
Handle == Descs \X Bufs
NoLoc  == [desc |-> NULL, buf |-> NULL, prev |-> NULL, app |-> NULL]

AllocDescs == Descs \ Range(freeDescs)
AllocBufs  == Bufs \ freeBufs

(* CFE_SB_ZeroCopyD_t, and what a task carries between two locked sections. *)
ZeroCopyD == [AppID : Apps \cup {NULL}, Buffer : Bufs \cup {NULL},
              Prev : Descs \cup {NULL}, Next : Descs \cup {NULL}]
Locals == [desc : Descs \cup {NULL}, buf : Bufs \cup {NULL},
           prev : Descs \cup {NULL}, app : Apps \cup {NULL}]
Places == {"idle", "owner", "put", "send", "exited", "dead", "walk", "release"}

(* The type invariant: the descriptors' pointers, a use count that does not *)
(* wrap and the statistic (CFE_SB_ZeroCopyD_t, CFE_SB_BufferD_t).           *)
TypeOK ==
  /\ ZeroCopyTail \in Descs \cup {NULL}
  /\ zcd \in [Descs -> ZeroCopyD]
  /\ buf \in [Bufs -> 0 .. 1]
  /\ freeDescs \in Seq(Descs) /\ IsInjective(freeDescs)
  /\ freeBufs \subseteq Bufs
  /\ SBBuffersInUse \in 0 .. Cardinality(Bufs)
  /\ queue \in Seq(Bufs)
  /\ held \in [Apps -> SUBSET Handle]
  /\ pc \in [Tasks -> Places]
  /\ loc \in [Tasks -> Locals]

Init ==
  /\ ZeroCopyTail = NULL
  /\ zcd = [d \in Descs |-> [AppID |-> NULL, Buffer |-> NULL,
                             Prev |-> NULL, Next |-> NULL]]
  /\ buf = [b \in Bufs |-> 0]
  /\ freeDescs = [i \in Descs |-> i] /\ freeBufs = Bufs
  /\ SBBuffersInUse = 0
  /\ queue = <<>>
  /\ held = [a \in Apps |-> {}]
  /\ pc = [t \in Tasks |-> "idle"]
  /\ loc = [t \in Tasks |-> NoLoc]

-----------------------------------------------------------------------------
(* Helpers *)

Goto(t, there, locals) ==
  /\ pc' = [pc EXCEPT ![t] = there]
  /\ loc' = [loc EXCEPT ![t] = locals]

(* The descriptors with d, for buffer b, at the end of the list; the AppID  *)
(* in d's memory is still the one of the last owner.                        *)
Linked(d, b) ==
  [x \in Descs |->
     IF x = d THEN [zcd[x] EXCEPT !.Buffer = b, !.Next = NULL,
                                  !.Prev = ZeroCopyTail]
     ELSE IF x = ZeroCopyTail THEN [zcd[x] EXCEPT !.Next = d]
     ELSE zcd[x]]

(* The descriptors without d on the list; d's memory keeps the pointers the *)
(* walk may still read, Prev and Buffer.                                    *)
Delinked(d) ==
  [x \in Descs |-> IF x = d THEN [zcd[d] EXCEPT !.Next = NULL] ELSE
     [zcd[x] EXCEPT !.Next = IF x = zcd[d].Prev THEN zcd[d].Next ELSE @,
                    !.Prev = IF x = zcd[d].Next THEN zcd[d].Prev ELSE @]]

(* CFE_SB_ZeroCopyReleaseDesc's test of a handle: the descriptor's block is *)
(* allocated (CFE_ES_GetPoolBufInfo) and it describes this buffer.          *)
MayRelease(d, b) == d \in AllocDescs /\ zcd[d].Buffer = b

(* CFE_SB_ZeroCopyReleaseDesc, one locked section.                          *)
ReleaseDesc(d) ==
  /\ zcd' = Delinked(d)
  /\ ZeroCopyTail' = IF ZeroCopyTail = d THEN zcd[d].Prev ELSE ZeroCopyTail
  /\ freeDescs' = <<d>> \o freeDescs

(* CFE_ES_PutPoolBuf for a message buffer, which refuses a free block, and  *)
(* the statistic that goes with it.  The use count of a free block is not   *)
(* read before GetPtr sets it: it is 0 here.                                *)
PutBuf(b) ==
  /\ freeBufs' = freeBufs \cup {b}
  /\ SBBuffersInUse' = SBBuffersInUse - (IF b \in AllocBufs THEN 1 ELSE 0)
  /\ buf' = [buf EXCEPT ![b] = 0]

(* Mutant of DecrBufUseCnt: the block stays allocated at zero.              *)
DecrBufUseCntOnly(b) ==
  /\ buf' = [buf EXCEPT ![b] = 0]
  /\ UNCHANGED <<freeBufs, SBBuffersInUse>>

(* CFE_SB_DecrBufUseCnt; a count is at most 1 with one receiver.            *)
DecrBufUseCnt(b) ==
  IF buf[b] = 1 THEN PutBuf(b) ELSE UNCHANGED <<buf, freeBufs, SBBuffersInUse>>

-----------------------------------------------------------------------------
(* Applications *)

(* CFE_SB_ZeroCopyGetPtr.  Without a block of either size nothing happens.  *)
(* The locked section puts the descriptor on the list.                      *)
GetPtr(a) ==
  /\ pc[a] = "idle" /\ Cardinality(held[a]) < MaxHeld[a]
  /\ freeDescs # <<>>
  /\ \E b \in freeBufs : LET d == Head(freeDescs) IN
       /\ freeDescs' = Tail(freeDescs) /\ freeBufs' = freeBufs \ {b}
       /\ zcd' = Linked(d, b)
       /\ ZeroCopyTail' = d
       /\ Goto(a, "owner", [NoLoc EXCEPT !.desc = d, !.buf = b])
  /\ SBBuffersInUse' = SBBuffersInUse + 1
  /\ UNCHANGED <<buf, queue, held>>

(* The statements after the lock has been given back: the caller's id and   *)
(* the use count.                                                           *)
GetPtrOwner(a) ==
  /\ pc[a] = "owner"
  /\ zcd' = [zcd EXCEPT ![loc[a].desc].AppID = a]
  /\ buf' = [buf EXCEPT ![loc[a].buf] = 1]
  /\ held' = [held EXCEPT ![a] = @ \cup {<<loc[a].desc, loc[a].buf>>}]
  /\ Goto(a, "idle", NoLoc)
  /\ UNCHANGED <<ZeroCopyTail, pool, SBBuffersInUse, queue>>

(* The first locked section of CFE_SB_ZeroCopyReleasePtr, ZeroCopySend and  *)
(* ZeroCopyPass: the descriptor is given back, or the call is refused.  It  *)
(* may happen in the middle of a walk if "release" is one of the Windows.   *)
GiveBack(a, h, then) ==
  /\ pc[a] = "idle" /\ h \in held[a]
  /\ "release" \in Windows \/ pc[ES] = "idle"
  /\ held' = [held EXCEPT ![a] = @ \ {h}]
  /\ IF MayRelease(h[1], h[2])
     THEN ReleaseDesc(h[1]) /\ Goto(a, then, [NoLoc EXCEPT !.buf = h[2]])
     ELSE UNCHANGED <<ZeroCopyTail, zcd, freeDescs, pc, loc>>
  /\ UNCHANGED <<buf, freeBufs, SBBuffersInUse, queue>>

ReleasePtr(a, h) == GiveBack(a, h, "put")
ZeroCopySend(a, h) == GiveBack(a, h, "send")

(* The second locked section of CFE_SB_ZeroCopyReleasePtr.                  *)
ReleasePut(a) ==
  /\ pc[a] = "put"
  /\ PutBuf(loc[a].buf)
  /\ Goto(a, "idle", NoLoc)
  /\ UNCHANGED <<ZeroCopyTail, zcd, freeDescs, queue, held>>

(* CFE_SB_SendMsgFull with CFE_SB_SEND_ZEROCOPY: the message goes on the    *)
(* queue of the receiver, which makes the use count 2 and then 1 again; or  *)
(* nobody takes it, or it is refused, and the sender's use ends.            *)
SendMsgFull(a) ==
  /\ pc[a] = "send"
  /\ \/ Len(queue) < Depth /\ queue' = Append(queue, loc[a].buf)
        /\ UNCHANGED <<buf, freeBufs, SBBuffersInUse>>
     \/ DecrBufUseCnt(loc[a].buf) /\ UNCHANGED queue
  /\ Goto(a, "idle", NoLoc)
  /\ UNCHANGED <<ZeroCopyTail, zcd, freeDescs, held>>

(* CFE_SB_RcvMsg releases the message its pipe had given out before.        *)
Received ==
  /\ queue # <<>>
  /\ queue' = Tail(queue)
  /\ DecrBufUseCnt(Head(queue))
  /\ UNCHANGED <<ZeroCopyTail, zcd, freeDescs, held, pc, loc>>

-----------------------------------------------------------------------------
(* Removing an application *)

(* An application that looks at its run status leaves between two calls.  A *)
(* task that is stopped in the middle of a call is not modelled here.       *)
ExitApp(a) ==
  /\ a \in Mortal /\ pc[a] = "idle"
  /\ pc' = [pc EXCEPT ![a] = "exited"]
  /\ UNCHANGED <<ZeroCopyTail, zcd, buf, pool, SBBuffersInUse, queue, held,
                 loc>>

(* CFE_SB_CleanUpApp reaches CFE_SB_ZeroCopyReleaseAppId, which starts at   *)
(* the tail.  A descriptor without its owner yet may be there if "owner" is *)
(* one of the Windows.                                                      *)
ReleaseAppId(a) ==
  /\ pc[ES] = "idle" /\ pc[a] = "exited"
  /\ "owner" \in Windows \/ \A x \in Apps : pc[x] # "owner"
  /\ Goto(ES, "walk", [NoLoc EXCEPT !.desc = ZeroCopyTail, !.app = a])
  /\ UNCHANGED <<ZeroCopyTail, zcd, buf, pool, SBBuffersInUse, queue, held>>

(* Mutant of Found: the walk forgets the first descriptor of the list.      *)
FoundLater(d, a) == zcd[d].AppID = a /\ zcd[d].Prev # NULL

(* The descriptor at d belongs to application a.                            *)
Found(d, a) == zcd[d].AppID = a

(* prev = zcd->Prev, read before the descriptor is released.                *)
Onward(d) == zcd[d].Prev

(* One turn of its loop, without the lock: the memory of the descriptor is  *)
(* read, whoever has it by now.  At the end ES deletes the task.            *)
Walk ==
  LET d == loc[ES].desc
      a == loc[ES].app
  IN /\ pc[ES] = "walk"
     /\ IF d = NULL
        THEN /\ pc' = [pc EXCEPT ![ES] = "idle", ![a] = "dead"]
             /\ loc' = [loc EXCEPT ![ES] = NoLoc]
             /\ held' = [held EXCEPT ![a] = {}]
        ELSE /\ IF Found(d, a)
                THEN Goto(ES, "release", [loc[ES] EXCEPT !.prev = Onward(d),
                                                  !.buf = zcd[d].Buffer])
                ELSE Goto(ES, "walk", [loc[ES] EXCEPT !.desc = Onward(d)])
             /\ UNCHANGED held
     /\ UNCHANGED <<ZeroCopyTail, zcd, buf, pool, SBBuffersInUse, queue>>

Turned == [loc[ES] EXCEPT !.desc = loc[ES].prev, !.prev = NULL, !.buf = NULL]

(* CFE_SB_ZeroCopyReleasePtr for the descriptor found: the locked section   *)
(* that gives the descriptor back, then the one for the buffer.             *)
WalkRelease ==
  /\ pc[ES] = "release"
  /\ IF MayRelease(loc[ES].desc, loc[ES].buf)
     THEN /\ ReleaseDesc(loc[ES].desc)
          /\ Goto(ES, "put", loc[ES])
     ELSE /\ Goto(ES, "walk", Turned)
          /\ UNCHANGED <<ZeroCopyTail, zcd, freeDescs>>
  /\ UNCHANGED <<buf, freeBufs, SBBuffersInUse, queue, held>>

WalkPut ==
  /\ pc[ES] = "put"
  /\ PutBuf(loc[ES].buf)
  /\ Goto(ES, "walk", Turned)
  /\ UNCHANGED <<ZeroCopyTail, zcd, freeDescs, queue, held>>

(* CFE_ES_AppCreate, for a restart.                                         *)
StartApp(a) ==
  /\ pc[a] = "dead"
  /\ pc' = [pc EXCEPT ![a] = "idle"]
  /\ UNCHANGED <<ZeroCopyTail, zcd, buf, pool, SBBuffersInUse, queue, held,
                 loc>>

-----------------------------------------------------------------------------
CleanUp == Walk \/ WalkRelease \/ WalkPut

Next ==
  \/ \E a \in Apps :
       \/ GetPtr(a) \/ GetPtrOwner(a) \/ ReleasePut(a) \/ SendMsgFull(a)
       \/ \E h \in Handle : ReleasePtr(a, h) \/ ZeroCopySend(a, h)
       \/ ExitApp(a) \/ ReleaseAppId(a) \/ StartApp(a)
  \/ Received
  \/ CleanUp

Spec == Init /\ [][Next]_vars

-----------------------------------------------------------------------------
(* Properties *)

(* A walk from the tail, when nobody interferes, does not leave S.          *)
Walked(S) ==
  /\ ZeroCopyTail \in S \cup {NULL}
  /\ \A d \in S : zcd[d].Prev \in S \cup {NULL}

(* The list holds the allocated descriptors and nothing else (a walk meets  *)
(* the smallest set it does not leave), and its two directions agree,       *)
(* whoever links and delinks while ES walks it.                             *)
ListExact ==
  /\ Walked(AllocDescs)
  /\ \A S \in SUBSET AllocDescs : Walked(S) => S = AllocDescs
  /\ \A d \in AllocDescs :
       /\ zcd[d].Next = NULL <=> d = ZeroCopyTail
       /\ zcd[d].Next # NULL => zcd[zcd[d].Next].Prev = d

(* How often buffer b is needed: by a descriptor on the list, by a task     *)
(* between the two halves of a release or a send, or by its receiver.       *)
Uses(b) ==
    Cardinality({d \in AllocDescs : zcd[d].Buffer = b})
  + Cardinality({t \in Tasks : pc[t] \in {"put", "send"} /\ loc[t].buf = b})
  + Cardinality({i \in DOMAIN queue : queue[i] = b})

(* A buffer is allocated exactly while it has one user, so it is neither    *)
(* leaked nor given to two messages, and SBBuffersInUse counts them, through *)
(* releases, sends that nobody takes and the clean-up of an application.    *)
BuffersAccounted ==
  /\ \A b \in Bufs : Uses(b) = IF b \in AllocBufs THEN 1 ELSE 0
  /\ SBBuffersInUse = Cardinality(AllocBufs)

(* What an application has got and not yet sent or released is still its    *)
(* own: no clean-up of another application takes it away.  This fails as    *)
(* soon as one of the Windows opens, and no run checks it.                  *)
HandlesStayValid ==
  \A a \in Apps : \A h \in held[a] :
    pc[a] # "exited" => MayRelease(h[1], h[2]) /\ zcd[h[1]].AppID = a

(* CFE_SB_CleanUpApp leaves nothing of a removed application allocated,     *)
(* although the walk is not locked against the others.                      *)
DeadAppsHoldNothing ==
  \A a \in Apps : pc[a] = "dead" =>
    \A d \in AllocDescs : \/ zcd[d].AppID # a
                          \/ \E x \in Apps : pc[x] = "owner" /\ loc[x].desc = d

(* The descriptor list is whole and holds nothing of a dead application     *)
(* (CFE_SB_ZeroCopyReleaseDesc, CFE_SB_ZeroCopyReleaseAppId).               *)
DescriptorsExact == TypeOK /\ ListExact /\ DeadAppsHoldNothing
=============================================================================

--------------------------- MODULE SBDestinations ---------------------------
(***************************************************************************)
(* The destination blocks of the Software Bus: memory from the pool, linked *)
(* into the list of one route each (cfe_sb_priv.c).  SBRouteTable keeps the *)
(* destinations of a route as a set; here a block has an identity and its   *)
(* pointers outlive it, because two walks of a list do not keep the lock:   *)
(*  - CFE_SB_DeletePipeFull unlocks to unsubscribe, then reads Next from    *)
(*    the block that was given back (cfe_sb_api.c);                         *)
(*  - the commands that enable and disable a route never lock               *)
(*    (CFE_SB_GetDestPtr from cfe_sb_task.c).                               *)
(* A route keeps its message id here: the index stack is in SBRouteTable.   *)
(***************************************************************************)
EXTENDS Integers, FiniteSets, Sequences

CONSTANTS
  Tasks,       \* application tasks
  Routes,      \* entries of RoutingTbl
  Pipes,       \* pipes
  OwnerOf,     \* pipe -> the task that owns it
  Commands,    \* set of <<route, pipe>> the ground enables and disables
  NumBlocks,   \* destination blocks in the memory pool
  SB, NULL

ASSUME DestinationAssumption ==
  /\ SB \notin Tasks /\ NULL \notin Routes \cup Pipes
  /\ OwnerOf \in [Pipes -> Tasks] /\ Commands \subseteq Routes \X Pipes
  /\ Routes \subseteq Nat /\ IsFiniteSet(Routes)
  /\ NumBlocks \in Nat \ {0} /\ NULL \notin 1 .. NumBlocks

Blocks == 1 .. NumBlocks

VARIABLES
  ListHeadPtr,  \* route -> the first block of its list, or NULL
  dest,         \* block -> what its memory holds, whoever it belongs to
  pool,         \* the free blocks, the one given back last first
  inUse,        \* the pipes that exist
  commanded,    \* subscription -> the state last commanded, at first active
  astray,       \* the block where the route command stands has been given back
  misled,       \* blocks written by a command that had gone astray
  pc, loc       \* where each task is: the route, pipe and block it works on

vars == <<ListHeadPtr, dest, pool, inUse, commanded, astray, misled, pc, loc>>

Ptrs  == Blocks \cup {NULL}
NoLoc == [route |-> NULL, pipe |-> NULL, ptr |-> NULL, active |-> FALSE]

(* The type invariant: a pointer is a block of the pool or NULL, also one kept*)
(* over an unlock (CFE_SB_DestinationD_t).                                  *)
TypeOK ==
  /\ ListHeadPtr \in [Routes -> Ptrs]
  /\ dest \in [Blocks -> [PipeId : Pipes \cup {NULL}, Active : BOOLEAN,
                          Next : Ptrs, Prev : Ptrs]]
  /\ pool \in Seq(Blocks) /\ inUse \subseteq Pipes
  /\ commanded \in [Routes \X Pipes -> BOOLEAN]
  /\ astray \in BOOLEAN /\ misled \subseteq Blocks
  /\ pc \in [Tasks \cup {SB} -> {"idle", "unsubscribe", "resume", "find", "write"}]
  /\ \A x \in Tasks \cup {SB} :
       loc[x] \in [route : Routes \cup {NULL}, pipe : Pipes \cup {NULL},
                   ptr : Ptrs, active : BOOLEAN]

Init ==
  /\ ListHeadPtr = [r \in Routes |-> NULL]
  /\ dest = [b \in Blocks |-> [PipeId |-> NULL, Active |-> FALSE,
                               Next |-> NULL, Prev |-> NULL]]
  /\ pool = [i \in Blocks |-> i] /\ inUse = Pipes
  /\ commanded = [s \in Routes \X Pipes |-> TRUE]
  /\ astray = FALSE /\ misled = {}
  /\ pc = [x \in Tasks \cup {SB} |-> "idle"]
  /\ loc = [x \in Tasks \cup {SB} |-> NoLoc]

Go(x, step, l) == pc' = [pc EXCEPT ![x] = step] /\ loc' = [loc EXCEPT ![x] = l]

-----------------------------------------------------------------------------
(* The blocks met when Next is followed from b: the n-th of them, or NULL.  *)
Nth(b) == LET f[n \in 0 .. NumBlocks] ==
                IF n = 0 THEN b
                ELSE IF f[n - 1] = NULL THEN NULL ELSE dest[f[n - 1]].Next
          IN f

(* The blocks of route r, and the first of those from b that is p's.        *)
List(r) == {Nth(ListHeadPtr[r])[n] : n \in 0 .. NumBlocks} \ {NULL}
FindFrom(b, p) ==
  LET f == Nth(b)
      at == {n \in 0 .. NumBlocks : f[n] # NULL /\ dest[f[n]].PipeId = p}
  IN IF at = {} THEN NULL ELSE f[CHOOSE n \in at : \A m \in at : n <= m]

(* CFE_SB_AddDest of block b, at the head.  As a mutant, the block keeps     *)
(* the state of its last subscription.                                      *)
AddDestAsItWas(r, p, b) ==
  [c \in Blocks |->
     IF c = b THEN [PipeId |-> p, Active |-> dest[b].Active,
                    Next |-> ListHeadPtr[r], Prev |-> NULL]
     ELSE IF c = ListHeadPtr[r] THEN [dest[c] EXCEPT !.Prev = b]
     ELSE dest[c]]
AddDest(r, p, b) ==
  [c \in Blocks |->
     IF c = b THEN [PipeId |-> p, Active |-> TRUE,
                    Next |-> ListHeadPtr[r], Prev |-> NULL]
     ELSE IF c = ListHeadPtr[r] THEN [dest[c] EXCEPT !.Prev = b]
     ELSE dest[c]]

(* CFE_SB_RemoveDest of block b, whose own pointers are cleared.            *)
RemoveDest(b) ==
  LET d == dest[b] IN
  [c \in Blocks |->
     IF c = b THEN [d EXCEPT !.Next = NULL, !.Prev = NULL]
     ELSE IF c = d.Next THEN [dest[c] EXCEPT !.Prev = d.Prev]
     ELSE IF c = d.Prev THEN [dest[c] EXCEPT !.Next = d.Next]
     ELSE dest[c]]

(* CFE_SB_UnsubscribeFull for a subscription that exists.                   *)
Remove(r, b) ==
  /\ dest' = RemoveDest(b)
  /\ ListHeadPtr' = IF dest[b].Prev = NULL
                      THEN [ListHeadPtr EXCEPT ![r] = dest[b].Next]
                      ELSE ListHeadPtr
  /\ pool' = <<b>> \o pool
  /\ commanded' = [commanded EXCEPT ![<<r, dest[b].PipeId>>] = TRUE]
  /\ astray' = (astray \/ (pc[SB] # "idle" /\ loc[SB].ptr = b))
  /\ misled' = misled \ {b}
  /\ UNCHANGED inUse

-----------------------------------------------------------------------------
(* CFE_SB_SubscribeFull, not for a pipe that is being deleted.              *)
Subscribe(t, r, p) ==
  /\ pc[t] = "idle" /\ OwnerOf[p] = t /\ p \in inUse
  /\ FindFrom(ListHeadPtr[r], p) = NULL
  /\ pool # <<>>
  /\ dest' = AddDest(r, p, Head(pool))
  /\ ListHeadPtr' = [ListHeadPtr EXCEPT ![r] = Head(pool)]
  /\ pool' = Tail(pool) /\ misled' = misled \ {Head(pool)}
  /\ UNCHANGED <<inUse, commanded, astray, pc, loc>>

(* CFE_SB_Unsubscribe.                                                     *)
Unsubscribe(t, r, p) ==
  /\ pc[t] = "idle" /\ OwnerOf[p] = t /\ p \in inUse
  /\ FindFrom(ListHeadPtr[r], p) # NULL
  /\ Remove(r, FindFrom(ListHeadPtr[r], p))
  /\ UNCHANGED <<pc, loc>>

CreatePipe(t, p) ==
  /\ pc[t] = "idle" /\ OwnerOf[p] = t /\ p \notin inUse
  /\ inUse' = inUse \cup {p}
  /\ UNCHANGED <<ListHeadPtr, dest, pool, commanded, astray, misled, pc, loc>>

-----------------------------------------------------------------------------
(* CFE_SB_DeletePipeFull.  The walk, from block b of the list it found in    *)
(* route r, then through the lists of the later routes: at a block of pipe  *)
(* p it unlocks and unsubscribes; at the end the pipe is free.  As a        *)
(* mutant, a route is left out.                                             *)
LaterRoutesButOne(r) == {s \in Routes : s > r + 1}
LaterRoutes(r) == {s \in Routes : s > r}
WalkFrom(t, p, r, b) ==
  \E here \in {FindFrom(b, p)},
     later \in {{s \in LaterRoutes(r) : FindFrom(ListHeadPtr[s], p) # NULL}} :
    IF here # NULL
    THEN /\ Go(t, "unsubscribe", [NoLoc EXCEPT !.route = r, !.pipe = p, !.ptr = here])
         /\ UNCHANGED inUse
    ELSE IF later # {}
    THEN LET s == CHOOSE s \in later : \A x \in later : s <= x IN
         /\ Go(t, "unsubscribe", [NoLoc EXCEPT !.route = s, !.pipe = p,
                                    !.ptr = FindFrom(ListHeadPtr[s], p)])
         /\ UNCHANGED inUse
    ELSE Go(t, "idle", NoLoc) /\ inUse' = inUse \ {p}

DeletePipe(t, p) ==
  /\ pc[t] = "idle" /\ OwnerOf[p] = t /\ p \in inUse
  /\ WalkFrom(t, p, -1, NULL)
  /\ UNCHANGED <<ListHeadPtr, dest, pool, commanded, astray, misled>>

(* CFE_SB_UnsubscribeWithAppId: no effect when the route does not list p.   *)
DeleteUnsubscribe(t) ==
  /\ pc[t] = "unsubscribe"
  /\ \E b \in {FindFrom(ListHeadPtr[loc[t].route], loc[t].pipe)} :
     IF b = NULL
     THEN UNCHANGED <<ListHeadPtr, dest, pool, inUse, commanded, astray, misled>>
     ELSE Remove(loc[t].route, b)
  /\ Go(t, "resume", loc[t])

(* DestPtr = DestPtr->Next, from a block that may be anyone's by now.  As a *)
(* mutant, the walk goes on at that block itself.                           *)
SameBlock(b) == b
NextBlock(b) == dest[b].Next

DeleteResume(t) ==
  /\ pc[t] = "resume"
  /\ WalkFrom(t, loc[t].pipe, loc[t].route, NextBlock(loc[t].ptr))
  /\ UNCHANGED <<ListHeadPtr, dest, pool, commanded, astray, misled>>

-----------------------------------------------------------------------------
(* CFE_SB_EnableRouteCmd and CFE_SB_DisableRouteCmd: the list is walked one  *)
(* block at a time, and the block that was found is written.                *)
RouteCmd(r, p, active) ==
  /\ pc[SB] = "idle" /\ <<r, p>> \in Commands /\ p \in inUse
  /\ Go(SB, "find", [route |-> r, pipe |-> p, ptr |-> ListHeadPtr[r],
                     active |-> active])
  /\ UNCHANGED <<ListHeadPtr, dest, pool, inUse, commanded, astray, misled>>

(* CFE_SB_GetDestPtr.                                                      *)
RouteFind ==
  /\ pc[SB] = "find"
  /\ LET l == loc[SB] IN
     IF l.ptr = NULL THEN Go(SB, "idle", NoLoc)
     ELSE IF dest[l.ptr].PipeId = l.pipe THEN Go(SB, "write", l)
     ELSE Go(SB, "find", [l EXCEPT !.ptr = dest[l.ptr].Next])
  /\ astray' = (astray /\ loc[SB].ptr # NULL)
  /\ UNCHANGED <<ListHeadPtr, dest, pool, inUse, commanded, misled>>

(* What the command writes.                                                *)
Switched(b, active) == [dest EXCEPT ![b].Active = active]

RouteWrite ==
  /\ pc[SB] = "write"
  /\ LET l == loc[SB] IN
     /\ dest' = Switched(l.ptr, l.active)
     /\ commanded' = IF astray THEN commanded
                      ELSE [commanded EXCEPT ![<<l.route, l.pipe>>] = l.active]
     /\ misled' = IF astray THEN misled \cup {l.ptr} ELSE misled \ {l.ptr}
  /\ astray' = FALSE
  /\ Go(SB, "idle", NoLoc)
  /\ UNCHANGED <<ListHeadPtr, pool, inUse>>

-----------------------------------------------------------------------------
Deleting(t) == DeleteUnsubscribe(t) \/ DeleteResume(t)

AppStep(t) ==
  \/ \E r \in Routes, p \in Pipes : Subscribe(t, r, p) \/ Unsubscribe(t, r, p)
  \/ \E p \in Pipes : CreatePipe(t, p) \/ DeletePipe(t, p)
  \/ Deleting(t)

Next ==
  \/ \E t \in Tasks : AppStep(t)
  \/ \E r \in Routes, p \in Pipes, active \in BOOLEAN : RouteCmd(r, p, active)
  \/ RouteFind \/ RouteWrite

Spec == Init /\ [][Next]_vars

(* Calls and commands that have begun go on.                               *)
FairSpec == /\ Spec
            /\ \A t \in Tasks : WF_vars(Deleting(t))
            /\ WF_vars(RouteFind \/ RouteWrite)

-----------------------------------------------------------------------------
(* Each list is doubly linked, no block is in two of them or both in one    *)
(* and free, and none is lost (CFE_SB_AddDest, CFE_SB_RemoveDest,           *)
(* CFE_SB_PutDestinationBlk).                                               *)
ListsExact ==
  /\ \A r \in Routes : \A b \in List(r) :
       /\ dest[b].Next # NULL => dest[dest[b].Next].Prev = b
       /\ dest[b].Prev = NULL <=> b = ListHeadPtr[r]
  /\ \A b \in Blocks :
       Cardinality({r \in Routes : b \in List(r)})
         + Cardinality({i \in DOMAIN pool : pool[i] = b}) = 1

(* A route lists a pipe at most once, and only a pipe that exists: the walk *)
(* of CFE_SB_DeletePipeFull misses no route, even when it goes on in the    *)
(* list of another one.                                                     *)
DeletedPipesUnlisted ==
  \A r \in Routes : \A b, c \in List(r) :
    /\ dest[b].PipeId \in inUse
    /\ dest[b].PipeId = dest[c].PipeId => b = c

(* Both at once: the destination lists as the rest of the bus takes them to *)
(* be, although CFE_SB_DeletePipeFull reads blocks it has given back.       *)
DestinationsExact == TypeOK /\ ListsExact /\ DeletedPipesUnlisted

(* A destination is enabled when it is subscribed and is then in the state  *)
(* that the ground last commanded for its route and pipe, although the      *)
(* route commands walk the list without the lock while applications change  *)
(* it (CFE_SB_EnableRouteCmd, CFE_SB_DisableRouteCmd, CFE_SB_GetDestPtr).   *)
(* What takes a command to another destination, and what alone does, is that *)
(* the very block it stands at is given back: only a block written by such  *)
(* a command, and not subscribed or commanded since, may differ.            *)
ActiveAsCommanded ==
  \A r \in Routes : \A b \in List(r) \ misled :
    dest[b].Active = commanded[<<r, dest[b].PipeId>>]

(* A pipe's deletion ends, whatever lists it is led through.                *)
DeletesEnd == \A t \in Tasks : pc[t] # "idle" ~> pc[t] = "idle"
=============================================================================

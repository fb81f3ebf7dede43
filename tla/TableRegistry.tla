---------------------------- MODULE TableRegistry ----------------------------
(***************************************************************************)
(* Table Services: the registry of tables, the access descriptors that list *)
(* the users of each, and the memory both hold (cfe_tbl_api.c,              *)
(* cfe_tbl_internal.c), with the dumps of dump-only tables by the Table     *)
(* Services task (cfe_tbl_task_cmds.c) and the cleanup that Executive       *)
(* Services makes when an application exits (CFE_TBL_CleanUpApp).           *)
(*                                                                         *)
(* CFE_TBL_Register, CFE_TBL_Share and CFE_TBL_RemoveAccessLink hold the    *)
(* registry's mutex and are one step each; the dump commands, the ownership *)
(* test of CFE_TBL_Unregister and the walk of CFE_TBL_CleanUpApp hold none. *)
(***************************************************************************)
EXTENDS Integers, FiniteSets

CONSTANTS
  Apps,             \* application ids
  Tables,           \* full table names
  OwnerOf,          \* table -> the application in whose name it is registered
  DoubleBuffered, DumpOnly,   \* tables registered with these options
  Sharing,          \* set of <<application, table>>: who shares what
  Unregistering,    \* applications that call CFE_TBL_Unregister
  Exiting,          \* applications that may exit
  Killing,          \* applications that may be removed while their task runs
  Restarting,       \* those whose id is given to a new application afterwards
  NumTables,        \* CFE_PLATFORM_TBL_MAX_NUM_TABLES
  NumHandles,       \* CFE_PLATFORM_TBL_MAX_NUM_HANDLES
  NumLoads,         \* CFE_PLATFORM_TBL_MAX_SIMULTANEOUS_LOADS
  NumBuffers,       \* table buffers in the memory pool
  MaxLost,          \* bound on the buffers that failed registrations lose
  Careful,          \* the ground waits for the report of its last dump
  Windows,          \* subset of {"dump", "file", "cleanup"}: see MayDetach
  TBL, ES, NULL

ASSUME RegistryAssumption ==
  /\ Apps \cap {TBL, ES, NULL} = {} /\ TBL # ES
  /\ OwnerOf \in [Tables -> Apps]
  /\ DoubleBuffered \cup DumpOnly \subseteq Tables
  /\ DoubleBuffered \cap DumpOnly = {}
  /\ Sharing \subseteq Apps \X Tables
  /\ Unregistering \cup Exiting \cup Killing \subseteq Apps
  /\ Restarting \subseteq Exiting
  /\ NumTables \in Nat \ {0} /\ NumHandles \in Nat \ {0}
  /\ NumLoads \in Nat \ {0} /\ NumBuffers \in Nat /\ MaxLost \in Nat
  /\ NULL \notin 1 .. NumBuffers
  /\ Careful \in BOOLEAN /\ Windows \subseteq {"dump", "file", "cleanup"}

None    == -1      \* CFE_TBL_END_OF_LIST, CFE_TBL_NO_LOAD_IN_PROGRESS...
Regs    == 0 .. NumTables - 1
Handles == 0 .. NumHandles - 1
Loads   == 0 .. NumLoads - 1
Buffers == 1 .. NumBuffers

VARIABLES
  Registry,     \* Registry[]
  Desc,         \* Handles[]: the access descriptors; Late is not in the code:
                \* taken while the application was being removed
  Taken,        \* LoadBuffs[].Taken
  Dumps,        \* DumpControlBlocks[]
  pool,         \* the free buffers of the pool
  lost,         \* the buffers that nothing refers to any more
  app,          \* the state of each application
  pc            \* where each task is: [at, arg, i]

vars == <<Registry, Desc, Taken, Dumps, pool, lost, app, pc>>

NoRec == [OwnerAppId |-> NULL, Name |-> NULL, DoubleBuffered |-> FALSE,
          Buffers |-> <<NULL, NULL>>, HeadOfAccessList |-> None,
          LoadInProgress |-> None, DumpControlIndex |-> None]
Idle == [at |-> "idle", arg |-> None, i |-> None]

(* The type invariant: links, registry indices and buffers stay inside their*)
(* arrays (CFE_TBL_RegistryRec_t, CFE_TBL_AccessDescriptor_t).              *)
TypeOK ==
  /\ Registry \in [Regs ->
       [OwnerAppId : Apps \cup {NULL}, Name : Tables \cup {NULL},
        DoubleBuffered : BOOLEAN,
        Buffers : (Buffers \cup {NULL}) \X (Buffers \cup {NULL}),
        HeadOfAccessList : Handles \cup {None},
        LoadInProgress : Loads \cup {None}, DumpControlIndex : Loads \cup {None}]]
  /\ Desc \in [Handles ->
       [UsedFlag : BOOLEAN, AppId : Apps \cup {NULL}, Late : BOOLEAN, RegIndex : Regs,
        PrevLink : Handles \cup {None}, NextLink : Handles \cup {None}]]
  /\ Taken \in [Loads -> BOOLEAN]
  /\ Dumps \in [Loads -> [State : {"free", "pending", "performed"},
                          RegRecPtr : Regs \cup {None}]]
  /\ pool \subseteq Buffers /\ lost \subseteq Buffers
  /\ app \in [Apps -> {"new", "up", "exiting", "killed", "gone"}]
  /\ \A x \in Apps \cup {TBL, ES} :
       pc[x].at \in {"idle", "remove", "dump", "file", "dumps", "mark", "fault"}

(* After CFE_TBL_EarlyInit.                                                *)
Init ==
  /\ Registry = [r \in Regs |-> NoRec]
  /\ Desc = [h \in Handles |-> [UsedFlag |-> FALSE, AppId |-> NULL, Late |-> FALSE,
                                RegIndex |-> 0, PrevLink |-> None, NextLink |-> None]]
  /\ Taken = [i \in Loads |-> FALSE]
  /\ Dumps = [i \in Loads |-> [State |-> "free", RegRecPtr |-> None]]
  /\ pool = Buffers /\ lost = {}
  /\ app = [a \in Apps |-> "new"]
  /\ pc = [x \in Apps \cup {TBL, ES} |-> Idle]

Go(x, at, arg, i) == pc' = [pc EXCEPT ![x] = [at |-> at, arg |-> arg, i |-> i]]
Done(x) == pc' = [pc EXCEPT ![x] = Idle]

-----------------------------------------------------------------------------
(* Searches: each takes the first that fits.                               *)
First(S) == CHOOSE x \in S : \A y \in S : x <= y

(* CFE_TBL_FindTableInRegistry.                                            *)
Registered(t) == {r \in Regs : /\ Registry[r].OwnerAppId # NULL
                               /\ Registry[r].Name = t}

(* CFE_TBL_FindFreeRegistryEntry: an entry that an owner has left is not    *)
(* free while others still use it.  As a mutant, an entry without an owner. *)
UnownedRegs == {r \in Regs : Registry[r].OwnerAppId = NULL}
FreeRegs == {r \in Regs : /\ Registry[r].OwnerAppId = NULL
                          /\ Registry[r].HeadOfAccessList = None}

(* CFE_TBL_FindFreeHandle.                                                 *)
FreeHandles == {h \in Handles : ~Desc[h].UsedFlag}

(* CFE_TBL_ValidateAccess.                                                 *)
ValidAccess(a, h) == Desc[h].UsedFlag /\ Desc[h].AppId = a

-----------------------------------------------------------------------------
(* The application's task can make a call: a task that Executive Services   *)
(* removes by force runs on until the clean-up is over.                     *)
Ready(a) == app[a] \in {"up", "killed"} /\ pc[a].at = "idle"

(* The descriptor of a new user.                                           *)
NewDesc(a, r, next) ==
  [UsedFlag |-> TRUE, AppId |-> a, Late |-> app[a] = "killed", RegIndex |-> r,
   PrevLink |-> None, NextLink |-> next]

(* CFE_TBL_Register: the buffers come from the pool before the descriptor   *)
(* and the owner are set.  When the second buffer cannot be had, the first  *)
(* is not given back.                                                       *)
Register(a, t) ==
  /\ Ready(a) /\ a = OwnerOf[t]
  /\ Registered(t) = {} /\ FreeRegs # {} /\ FreeHandles # {}
  /\ LET r == First(FreeRegs)
         h == First(FreeHandles)
         rec(b0, b1) ==
           [NoRec EXCEPT !.OwnerAppId = a, !.Name = t, !.Buffers = <<b0, b1>>,
                         !.DoubleBuffered = t \in DoubleBuffered,
                         !.HeadOfAccessList = h]
         registered(b0, b1) ==
           /\ Registry' = [Registry EXCEPT ![r] = rec(b0, b1)]
           /\ Desc' = [Desc EXCEPT ![h] = NewDesc(a, r, None)]
         b0 == First(pool)
         b1 == First(pool \ {b0})
     IN /\ pool # {}
        /\ IF t \notin DoubleBuffered
           THEN registered(b0, NULL) /\ pool' = pool \ {b0} /\ UNCHANGED lost
           ELSE IF pool # {b0}
           THEN registered(b0, b1) /\ pool' = pool \ {b0, b1} /\ UNCHANGED lost
           ELSE /\ Cardinality(lost) < MaxLost
                /\ Registry' = [Registry EXCEPT ![r] = NoRec]
                /\ pool' = {} /\ lost' = lost \cup {b0}
                /\ UNCHANGED Desc
  /\ UNCHANGED <<Taken, Dumps, app, pc>>

(* Where CFE_TBL_Share puts the new descriptor h: at the head of the list.  *)
(* As a mutant, the old head is not linked back to it.                      *)
LinkedOneWay(a, r, h) ==
  [Desc EXCEPT ![h] = NewDesc(a, r, Registry[r].HeadOfAccessList)]
Linked(a, r, h) ==
  [Desc EXCEPT ![h] = NewDesc(a, r, Registry[r].HeadOfAccessList),
               ![Registry[r].HeadOfAccessList].PrevLink = h]

Share(a, t) ==
  /\ Ready(a) /\ <<a, t>> \in Sharing
  /\ ~\E h \in Handles : ValidAccess(a, h) /\ Desc[h].RegIndex \in Registered(t)
  /\ Registered(t) # {} /\ FreeHandles # {}
  /\ LET r == First(Registered(t))
         h == First(FreeHandles)
     IN /\ Desc' = Linked(a, r, h)
        /\ Registry' = [Registry EXCEPT ![r].HeadOfAccessList = h]
  /\ UNCHANGED <<Taken, Dumps, pool, lost, app, pc>>

-----------------------------------------------------------------------------
(* A registry record whose owner has left it.                              *)
Disowned(r) == [Registry EXCEPT ![r].OwnerAppId = NULL, ![r].Name = NULL]

(* The access list of h without h: its neighbours are linked to each other. *)
Unlinked(h) ==
  LET p == Desc[h].PrevLink
      n == Desc[h].NextLink
  IN [k \in Handles |->
        IF k = h THEN [Desc[k] EXCEPT !.UsedFlag = FALSE]
        ELSE IF k = n THEN [Desc[k] EXCEPT !.PrevLink = p]
        ELSE IF k = p THEN [Desc[k] EXCEPT !.NextLink = n]
        ELSE Desc[k]]

(* A load buffer is given back with the last user.                          *)
LoadReturned(r) ==
  IF Registry[r].DoubleBuffered \/ Registry[r].LoadInProgress = None
    THEN Taken
    ELSE [Taken EXCEPT ![Registry[r].LoadInProgress] = FALSE]

(* The pool with a table's buffers given back; as a mutant, only the first. *)
WithFirstOf(rec) == pool \cup ({rec.Buffers[1]} \ {NULL})
WithBuffersOf(rec) == pool \cup ({rec.Buffers[1], rec.Buffers[2]} \ {NULL})

(* CFE_TBL_RemoveAccessLink: the last user's descriptor takes the memory of *)
(* the table with it.                                                       *)
RemoveAccessLink(h) ==
  LET r == Desc[h].RegIndex
      rec == Registry[r]
      head == IF Desc[h].PrevLink = None THEN Desc[h].NextLink
                                         ELSE rec.HeadOfAccessList
  IN /\ Desc' = Unlinked(h)
     /\ IF head # None
        THEN /\ Registry' = [Registry EXCEPT ![r].HeadOfAccessList = head]
             /\ UNCHANGED <<Taken, pool>>
        ELSE /\ Registry' = [Registry EXCEPT ![r] =
                  [rec EXCEPT !.HeadOfAccessList = None,
                     !.Buffers = IF rec.DoubleBuffered THEN <<NULL, NULL>>
                                                       ELSE <<NULL, rec.Buffers[2]>>,
                     !.LoadInProgress = IF rec.DoubleBuffered THEN rec.LoadInProgress
                                                              ELSE None]]
             /\ Taken' = LoadReturned(r)
             /\ pool' = WithBuffersOf(rec)

(* The places where the Table Services task has looked at a table and not   *)
(* finished with it: between finding the table to dump and filling in the   *)
(* control block, and while the dump's file is written.  Without the        *)
(* window, no table loses a user there.  And a dump may be asked for while  *)
(* the cleanup that has dropped the dumps has not yet taken the table away. *)
MayDetach == pc[TBL].at = "idle" \/ pc[TBL].at \in Windows
MayDump   == pc[ES].at = "idle" \/ "cleanup" \in Windows

(* CFE_TBL_Unregister: the owner leaves its table, any user its descriptor. *)
Unregister(a, h) ==
  /\ Ready(a) /\ a \in Unregistering /\ ValidAccess(a, h) /\ MayDetach
  /\ Registry' = IF Registry[Desc[h].RegIndex].OwnerAppId = a
                   THEN Disowned(Desc[h].RegIndex) ELSE Registry
  /\ Go(a, "remove", h, None)
  /\ UNCHANGED <<Desc, Taken, Dumps, pool, lost, app>>

UnregisterRemove(a) ==
  /\ pc[a].at = "remove" /\ MayDetach
  /\ RemoveAccessLink(pc[a].arg)
  /\ Done(a)
  /\ UNCHANGED <<Dumps, lost, app>>

-----------------------------------------------------------------------------
(* Dumps of dump-only tables.                                              *)

(* CFE_TBL_DumpCmd finds the table.                                        *)
DumpCmd(t) ==
  /\ pc[TBL].at = "idle" /\ t \in DumpOnly /\ Registered(t) # {} /\ MayDump
  /\ Careful => \A i \in Loads : Dumps[i].State = "free"
                                  \/ Dumps[i].RegRecPtr \notin Registered(t)
  /\ Go(TBL, "dump", First(Registered(t)), None)
  /\ UNCHANGED <<Registry, Desc, Taken, Dumps, pool, lost, app>>

(* Then takes a control block and a working buffer (a dump-only table is    *)
(* loaded from the start, so CFE_TBL_GetWorkingBuffer takes a load buffer   *)
(* unless the table has one); refused when one of them cannot be had.       *)
DumpCmdStart ==
  /\ pc[TBL].at = "dump"
  /\ LET r == pc[TBL].arg
         blocks == {i \in Loads : Dumps[i].State = "free"}
         free == {i \in Loads : ~Taken[i]}
         had == Registry[r].LoadInProgress
         b == IF had # None THEN had ELSE First(free)
     IN IF /\ Registry[r].DumpControlIndex = None /\ blocks # {}
           /\ had # None \/ free # {}
        THEN /\ Dumps' = [Dumps EXCEPT ![First(blocks)] =
                            [State |-> "pending", RegRecPtr |-> r]]
             /\ Registry' = [Registry EXCEPT ![r].LoadInProgress = b,
                                ![r].DumpControlIndex = First(blocks)]
             /\ Taken' = [Taken EXCEPT ![b] = TRUE]
        ELSE UNCHANGED <<Registry, Taken, Dumps>>
  /\ Done(TBL)
  /\ UNCHANGED <<Desc, pool, lost, app>>

(* CFE_TBL_DumpToBuffer, which the owner's CFE_TBL_Manage calls.           *)
DumpToBuffer(a, h) ==
  /\ Ready(a) /\ ValidAccess(a, h)
  /\ LET r == Desc[h].RegIndex
         i == Registry[r].DumpControlIndex
     IN /\ Registry[r].OwnerAppId = a /\ i # None
        /\ Registry' = [Registry EXCEPT ![r].DumpControlIndex = None]
        /\ Dumps' = [Dumps EXCEPT ![i].State = "performed"]
  /\ UNCHANGED <<Desc, Taken, pool, lost, app, pc>>

(* CFE_TBL_HousekeepingCmd finds a dump that was performed and writes its   *)
(* file.                                                                    *)
HousekeepingCmd ==
  /\ pc[TBL].at = "idle"
  /\ LET performed == {i \in Loads : Dumps[i].State = "performed"}
     IN performed # {} /\ Go(TBL, "file", Dumps[First(performed)].RegRecPtr, First(performed))
  /\ UNCHANGED <<Registry, Desc, Taken, Dumps, pool, lost, app>>

(* Then gives the load buffer and the control block back.                   *)
HousekeepingCmdDone ==
  /\ pc[TBL].at = "file"
  /\ LET r == pc[TBL].arg
         b == Registry[r].LoadInProgress
     IN IF b = None
        THEN Go(TBL, "fault", None, None) /\ UNCHANGED <<Registry, Taken, Dumps>>
        ELSE /\ Taken' = [Taken EXCEPT ![b] = FALSE]
             /\ Registry' = [Registry EXCEPT ![r].LoadInProgress = None]
             /\ Dumps' = [Dumps EXCEPT ![pc[TBL].i].State = "free"]
             /\ Done(TBL)
  /\ UNCHANGED <<Desc, pool, lost, app>>

-----------------------------------------------------------------------------
(* Executive Services starts an application, and cleans up after one.       *)
StartApp(a) ==
  /\ app[a] = "new" \/ (app[a] = "gone" /\ a \in Restarting)
  /\ app' = [app EXCEPT ![a] = "up"]
  /\ UNCHANGED <<Registry, Desc, Taken, Dumps, pool, lost, pc>>

(* CleanUpApp begins with the tables.  An application that exits in order   *)
(* makes no call any more; the task of one that is removed by force goes on *)
(* with its own, and is deleted after the clean-up.                         *)
BeginCleanUp(a, state) ==
  /\ app[a] = "up" /\ pc[ES].at = "idle"
  /\ app' = [app EXCEPT ![a] = state]
  /\ Go(ES, "dumps", a, 0)
  /\ UNCHANGED <<Registry, Desc, Taken, Dumps, pool, lost>>

ExitApp(a) == a \in Exiting /\ pc[a].at = "idle" /\ BeginCleanUp(a, "exiting")
KillApp(a) == a \in Killing /\ BeginCleanUp(a, "killed")

(* CFE_TBL_CleanUpApp: first the dumps of the application's tables.  As a   *)
(* mutant, none.                                                            *)
DumpsKept(a) == Dumps
DumpsDropped(a) ==
  [i \in Loads |-> IF /\ Dumps[i].State # "free"
                      /\ Registry[Dumps[i].RegRecPtr].OwnerAppId = a
                     THEN [Dumps[i] EXCEPT !.State = "free"] ELSE Dumps[i]]

CleanUpDumps ==
  /\ pc[ES].at = "dumps" /\ MayDetach
  /\ Dumps' = DumpsDropped(pc[ES].arg)
  /\ Go(ES, "mark", pc[ES].arg, 0)
  /\ UNCHANGED <<Registry, Desc, Taken, pool, lost, app>>

(* Then its descriptors, those it no longer uses included: a descriptor     *)
(* keeps its application's id when it is removed.                           *)
HandlesToScan == NumHandles

CleanUpHandle ==
  /\ pc[ES].at = "mark" /\ pc[ES].i < HandlesToScan /\ MayDetach
  /\ LET a == pc[ES].arg
         h == pc[ES].i
         r == Desc[h].RegIndex
     IN IF Desc[h].AppId = a
        THEN /\ Registry' = IF Registry[r].OwnerAppId = a THEN Disowned(r)
                                                         ELSE Registry
             /\ Go(ES, "remove", a, h)
        ELSE Go(ES, "mark", a, h + 1) /\ UNCHANGED Registry
  /\ UNCHANGED <<Desc, Taken, Dumps, pool, lost, app>>

CleanUpRemove ==
  /\ pc[ES].at = "remove" /\ MayDetach
  /\ RemoveAccessLink(pc[ES].i)
  /\ Go(ES, "mark", pc[ES].arg, pc[ES].i + 1)
  /\ UNCHANGED <<Dumps, lost, app>>

(* The rest of CleanUpApp: the application's task is deleted, wherever it   *)
(* is.                                                                      *)
CleanUpDone ==
  /\ pc[ES].at = "mark" /\ pc[ES].i = HandlesToScan
  /\ app' = [app EXCEPT ![pc[ES].arg] = "gone"]
  /\ pc' = [pc EXCEPT ![ES] = Idle, ![pc[ES].arg] = Idle]
  /\ UNCHANGED <<Registry, Desc, Taken, Dumps, pool, lost>>

-----------------------------------------------------------------------------
Manage(a) == \E h \in Handles : DumpToBuffer(a, h)
CleanUp == CleanUpDumps \/ CleanUpHandle \/ CleanUpRemove \/ CleanUpDone
DumpTask == DumpCmdStart \/ HousekeepingCmd \/ HousekeepingCmdDone

Next ==
  \/ \E a \in Apps, t \in Tables : Register(a, t) \/ Share(a, t)
  \/ \E a \in Apps, h \in Handles : Unregister(a, h)
  \/ \E a \in Apps : UnregisterRemove(a) \/ StartApp(a) \/ Manage(a)
  \/ \E a \in Apps : ExitApp(a) \/ KillApp(a)
  \/ \E t \in Tables : DumpCmd(t)
  \/ DumpTask
  \/ CleanUp

Spec == Init /\ [][Next]_vars

(* Calls return, the owner of a table keeps managing it, housekeeping       *)
(* requests keep coming, and a cleanup goes on to its end.                  *)
FairSpec ==
  /\ Spec
  /\ \A a \in Apps : WF_vars(UnregisterRemove(a)) /\ SF_vars(Manage(a))
  /\ WF_vars(DumpCmdStart) /\ SF_vars(HousekeepingCmd)
  /\ WF_vars(HousekeepingCmdDone) /\ SF_vars(CleanUp)

-----------------------------------------------------------------------------
(* Users of entry r: the descriptors in use that refer to it.              *)
Users(r) == {h \in Handles : Desc[h].UsedFlag /\ Desc[h].RegIndex = r}

(* The access list of each registry entry is a doubly linked list of        *)
(* exactly the descriptors in use for it, beginning at HeadOfAccessList     *)
(* (CFE_TBL_Share, CFE_TBL_RemoveAccessLink).                               *)
AccessListsExact ==
  \A r \in Regs :
    LET head == Registry[r].HeadOfAccessList IN
    /\ IF head = None THEN Users(r) = {}
                      ELSE head \in Users(r) /\ Desc[head].PrevLink = None
    /\ \A h \in Users(r) :
         /\ Desc[h].PrevLink = None <=> h = head
         /\ Desc[h].NextLink # None =>
              Desc[h].NextLink \in Users(r) /\ Desc[Desc[h].NextLink].PrevLink = h
         /\ h # head =>
              Desc[h].PrevLink \in Users(r) /\ Desc[Desc[h].PrevLink].NextLink = h

(* A table stays in memory until its last user has left it                  *)
(* (CFE_TBL_Unregister): while a descriptor refers to it, it has its        *)
(* buffers, and no other table or the pool has them.                        *)
UsersHaveMemory ==
  \A r \in Regs : Users(r) # {} =>
    LET own == {Registry[r].Buffers[1], Registry[r].Buffers[2]} \ {NULL} IN
    /\ Cardinality(own) = IF Registry[r].DoubleBuffered THEN 2 ELSE 1
    /\ own \cap pool = {}
    /\ \A s \in Regs \ {r} :
         own \cap {Registry[s].Buffers[1], Registry[s].Buffers[2]} = {}

(* A buffer of the pool is free, in the registry, or lost by a registration *)
(* that failed: exits and unregistrations give every buffer back.           *)
BuffersAccounted ==
  Buffers = pool \cup lost \cup
            UNION {{Registry[r].Buffers[1], Registry[r].Buffers[2]} \ {NULL} : r \in Regs}

(* A load buffer is taken exactly while one table dumps into it, and a      *)
(* table that waits for a dump has a control block of its own.              *)
LoadBuffersAccounted ==
  /\ \A i \in Loads :
       Cardinality({r \in Regs : Registry[r].LoadInProgress = i}) =
         IF Taken[i] THEN 1 ELSE 0
  /\ \A i \in Loads : Dumps[i].State = "pending" =>
       Registry[Dumps[i].RegRecPtr].DumpControlIndex = i

(* No LoadBuffs[] entry is indexed with CFE_TBL_NO_LOAD_IN_PROGRESS.        *)
NoBadIndex == pc[TBL].at # "fault"

(* After its clean-up an application owns no table and uses no descriptor,   *)
(* but those that its task took during the clean-up itself.                 *)
DeadAppsHoldNothing ==
  \A a \in Apps : app[a] = "gone" =>
    LET late == {h \in Handles : ValidAccess(a, h) /\ Desc[h].Late} IN
    /\ \A h \in Handles : ValidAccess(a, h) => h \in late
    /\ \A r \in Regs : Registry[r].OwnerAppId = a => \E h \in late : Desc[h].RegIndex = r

(* No exit and no unregistration loses a buffer, a load buffer, a dump or a *)
(* table (CFE_TBL_CleanUpApp, CFE_TBL_RemoveAccessLink).                    *)
MemoryAccounted ==
  TypeOK /\ BuffersAccounted /\ LoadBuffersAccounted /\ DeadAppsHoldNothing

(* A dump the ground has asked for ends: its file is written, or its table  *)
(* is gone, and the control block is free again.                            *)
DumpsEnd == \A i \in Loads : Dumps[i].State # "free" ~> Dumps[i].State = "free"
=============================================================================

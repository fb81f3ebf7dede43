------------------------ MODULE AppLifeCycleProofs ------------------------
(***************************************************************************)
(* Proofs about the life cycle of applications (AppLifeCycle): the tables  *)
(* agree, whatever applications are created, stopped or restarted and      *)
(* however their tasks end, for every number of applications, entries and  *)
(* tasks.                                                                  *)
(***************************************************************************)
EXTENDS AppLifeCycle, FiniteSetTheorems, WellFoundedInduction, TLAPS

Creators == {"ES", "main"}
Creating(p) == proc[p].at \in {"load", "start"}

(* An entry of the table is free, claimed by a creator or filled; a filled *)
(* one has a main task of its own and a loaded module, and no other entry  *)
(* has its name.                                                           *)
Filled(s) == AppTable[s].Name # NoApp
Claimant(s) == \E p \in Creators : Creating(p) /\ proc[p].slot = s

EntriesInv ==
  \A s \in Slots :
    /\ Filled(s) => /\ AppTable[s].AppState # UNDEFINED
                    /\ AppTable[s].Main \in Indexes
                    /\ TaskTable[AppTable[s].Main] = s
                    /\ task[AppTable[s].Main].creator = None
                    /\ AppTable[s].Name \in modules \ leaked
    /\ AppTable[s].AppState # UNDEFINED /\ ~Filled(s) => Claimant(s)

NamesInv ==
  \A s, t \in Slots : Filled(s) /\ AppTable[s].Name = AppTable[t].Name => s = t

(* A task with a record belongs to a filled entry, and is its main task or *)
(* was created by it.                                                      *)
TasksInv ==
  \A i \in Indexes :
    /\ Used(i) => /\ task[i].at \notin {"none", "leaving"}
                  /\ Filled(TaskTable[i])
                  /\ i # AppTable[TaskTable[i]].Main
                       => task[i].creator = AppTable[TaskTable[i]].Main
    /\ ~Used(i) => task[i].at \in {"none", "leaving"}

(* Where the creators are, and what they hold there.                       *)
CreatorsInv ==
  /\ \A p \in Creators :
       /\ proc[p].at \in {"create", "load", "start"} => proc[p].name \in Apps
       /\ Creating(p) => AppTable[proc[p].slot] = [NoRecord EXCEPT !.AppState = EARLY_INIT]
       /\ proc[p].at = "start" =>
            /\ proc[p].name \in modules \ leaked
            /\ \A s \in Slots : AppTable[s].Name # proc[p].name
  /\ Creating("ES") /\ Creating("main") => proc["ES"].slot # proc["main"].slot
  /\ proc["ES"].at = "start" /\ proc["main"].at = "start"
       => proc["ES"].name # proc["main"].name
  /\ proc["ES"].cursor <= NumSlots
  /\ proc["ES"].at = "clean" =>
       /\ AppTable[proc["ES"].slot].Name = proc["ES"].name
       /\ proc["ES"].name \in Apps

LoadedInv ==
  \A a \in modules \ leaked :
    \/ \E s \in Slots : AppTable[s].Name = a
    \/ \E p \in Creators : proc[p].at = "start" /\ proc[p].name = a

FilledSlots == {s \in Slots : Filled(s)}
UsedIndexes == {i \in Indexes : Used(i)}

CountsInv ==
  counts.Tasks = Cardinality(UsedIndexes) /\ counts.Apps = Cardinality(FilledSlots)

AppInv ==
  TypeOK /\ EntriesInv /\ NamesInv /\ TasksInv /\ CreatorsInv /\ LoadedInv /\ CountsInv

-----------------------------------------------------------------------------
(* Helpers *)

(* The first free entry and the first free task index exist.               *)
LEMMA LeastExists ==
  ASSUME NEW S, S \subseteq Nat, S # {}
  PROVE  Min(S) \in S
<1> DEFINE R == OpToRel(<, Nat)
<1>1. R = {ss \in Nat \X Nat : ss[1] < ss[2]}
  BY DEF OpToRel
<1>2. IsWellFoundedOn(R, Nat)
  BY NatLessThanWellFounded
<1> HIDE DEF R
<1>3. \A x, y \in Nat : y < x => <<y, x>> \in R
  BY <1>1
<1>4. PICK x \in S : \A y \in S : <<y, x>> \notin R
  BY <1>2, WFMin
<1>5. ASSUME NEW y \in S PROVE x <= y
  <2>1. x \in Nat /\ y \in Nat
    OBVIOUS
  <2>2. ~(y < x)
    BY <2>1, <1>3, <1>4
  <2> QED
    BY <2>1, <2>2
<1> QED
  BY <1>4, <1>5 DEF Min

(* The ranges of the constants and of the states.                          *)
LEMMA ConstantsOK ==
  /\ NumSlots \in Nat /\ NumSlots >= 1 /\ MaxTasks \in Nat /\ KillTimeout \in Nat
  /\ 0 \in Slots /\ None \notin Slots /\ None \notin Indexes
  /\ Slots \subseteq Nat /\ Indexes \subseteq Nat
  /\ IsFiniteSet(Slots) /\ IsFiniteSet(Indexes)
  /\ NoApp \notin Apps
<1>1. NumSlots \in Nat \ {0} /\ MaxTasks \in Nat \ {0} /\ KillTimeout \in Nat
      /\ NoApp \notin Apps
  BY LifeCycleAssumption
<1>2. IsFiniteSet(Slots) /\ IsFiniteSet(Indexes)
  BY <1>1, FS_Interval DEF Slots, Indexes
<1> QED
  BY <1>1, <1>2 DEF Slots, Indexes, None

LEMMA RecordsOK ==
  /\ NoRecord \in AppRecord /\ NoTask \in TaskRecord /\ IdleProc \in Creator
  /\ NoRecord.AppState = UNDEFINED /\ NoRecord.Name = NoApp /\ NoRecord.Main = None
  /\ NoTask.at = "none"
  /\ [NoRecord EXCEPT !.AppState = EARLY_INIT] \in AppRecord
  /\ [NoRecord EXCEPT !.AppState = EARLY_INIT].AppState = EARLY_INIT
  /\ [NoRecord EXCEPT !.AppState = EARLY_INIT].Name = NoApp
  /\ [NoRecord EXCEPT !.AppState = EARLY_INIT].Main = None
  /\ IdleProc.at = "wait" /\ IdleProc.cursor = 0
BY ConstantsOK DEF NoRecord, NoTask, IdleProc, AppRecord, TaskRecord, Creator, TaskStates,
   Places, Requests, RunStatuses, SysRequests, UNDEFINED, EARLY_INIT, STOPPED, Slots

(* What TypeOK says of the parts of an entry, a task and a creator.        *)
LEMMA TypeParts ==
  ASSUME TypeOK
  PROVE  /\ \A s \in Slots : /\ AppTable[s] \in AppRecord
                             /\ AppTable[s].AppState \in UNDEFINED .. STOPPED
                             /\ AppTable[s].Name \in Apps \cup {NoApp}
                             /\ AppTable[s].Req \in Requests
                             /\ AppTable[s].Timer \in 0 .. KillTimeout
                             /\ AppTable[s].Main \in Indexes \cup {None}
         /\ \A i \in Indexes : /\ task[i] \in TaskRecord
                               /\ task[i].at \in TaskStates
                               /\ task[i].creator \in Indexes \cup {None}
                               /\ task[i].status \in RunStatuses
                               /\ TaskTable[i] \in Slots \cup {None}
         /\ \A p \in Creators : /\ proc[p] \in Creator
                                /\ proc[p].at \in Places
                                /\ proc[p].cursor \in Nat
                                /\ proc[p].slot \in Slots
                                /\ proc[p].name \in Apps \cup {NoApp}
                                /\ proc[p].req \in Requests
<1>1. ASSUME NEW s \in Slots
      PROVE  /\ AppTable[s] \in AppRecord
             /\ AppTable[s].AppState \in UNDEFINED .. STOPPED
             /\ AppTable[s].Name \in Apps \cup {NoApp}
             /\ AppTable[s].Req \in Requests
             /\ AppTable[s].Timer \in 0 .. KillTimeout
             /\ AppTable[s].Main \in Indexes \cup {None}
  <2>1. AppTable[s] \in AppRecord
    BY DEF TypeOK
  <2> QED
    BY <2>1 DEF AppRecord
<1>2. ASSUME NEW i \in Indexes
      PROVE  /\ task[i] \in TaskRecord
             /\ task[i].at \in TaskStates
             /\ task[i].creator \in Indexes \cup {None}
             /\ task[i].status \in RunStatuses
             /\ TaskTable[i] \in Slots \cup {None}
  <2>1. task[i] \in TaskRecord /\ TaskTable[i] \in Slots \cup {None}
    BY DEF TypeOK
  <2> QED
    BY <2>1 DEF TaskRecord
<1>3. ASSUME NEW p \in Creators
      PROVE  /\ proc[p] \in Creator
             /\ proc[p].at \in Places
             /\ proc[p].cursor \in Nat
             /\ proc[p].slot \in Slots
             /\ proc[p].name \in Apps \cup {NoApp}
             /\ proc[p].req \in Requests
  <2>1. proc[p] \in Creator
    BY DEF TypeOK, Creators
  <2> QED
    BY <2>1 DEF Creator
<1> QED
  BY <1>1, <1>2, <1>3

-----------------------------------------------------------------------------
(* The steps that change no name, main task, record or module: most calls  *)
(* of the tasks, the requests, the scan and the start-up's waiting.        *)
QuietEntry(s) ==
  \/ AppTable'[s] = AppTable[s]
  \/ /\ Filled(s)
     /\ AppTable'[s].Name = AppTable[s].Name /\ AppTable'[s].Main = AppTable[s].Main
     /\ AppTable'[s].AppState # UNDEFINED

QuietTask(i) ==
  \/ task'[i] = task[i]
  \/ Used(i) /\ task'[i].creator = task[i].creator /\ task'[i].at \notin {"none", "leaving"}
  \/ ~Used(i) /\ task'[i].at \in {"none", "leaving"}

QuietCreator(p) ==
  \/ proc'[p] = proc[p]
  \/ /\ ~Creating(p) /\ proc'[p].at \notin {"clean", "load", "start"}
     /\ proc'[p].at = "create" => proc'[p].name \in Apps

Quiet ==
  /\ AppTable' \in [Slots -> AppRecord] /\ \A s \in Slots : QuietEntry(s)
  /\ task' \in [Indexes -> TaskRecord] /\ \A i \in Indexes : QuietTask(i)
  /\ proc' \in [Creators -> Creator] /\ \A p \in Creators : QuietCreator(p)
  /\ proc'["ES"].cursor <= NumSlots
  /\ SystemState' \in CORE_READY .. OPERATIONAL
  /\ UNCHANGED <<TaskTable, modules, leaked, counts>>

LEMMA QuietStep ==
  ASSUME AppInv, Quiet
  PROVE  AppInv'
<1>1. UNCHANGED TaskTable /\ UNCHANGED modules /\ UNCHANGED leaked /\ UNCHANGED counts
  BY DEF Quiet
<1>2. TypeOK'
  BY <1>1 DEF AppInv, TypeOK, Quiet, Creators
<1>3. \A s \in Slots : /\ AppTable'[s].Name = AppTable[s].Name
                       /\ AppTable'[s].Main = AppTable[s].Main
                       /\ Filled(s)' <=> Filled(s)
                       /\ \/ AppTable'[s].AppState = AppTable[s].AppState
                          \/ Filled(s) /\ AppTable'[s].AppState # UNDEFINED
  <2> SUFFICES ASSUME NEW s \in Slots
               PROVE  /\ AppTable'[s].Name = AppTable[s].Name
                      /\ AppTable'[s].Main = AppTable[s].Main
                      /\ Filled(s)' <=> Filled(s)
                      /\ \/ AppTable'[s].AppState = AppTable[s].AppState
                         \/ Filled(s) /\ AppTable'[s].AppState # UNDEFINED
    OBVIOUS
  <2>1. QuietEntry(s)
    BY DEF Quiet
  <2>2. AppTable'[s].Name = AppTable[s].Name
    BY <2>1 DEF QuietEntry
  <2>3. Filled(s)' <=> Filled(s)
    BY <2>2 DEF Filled
  <2> QED
    BY <2>1, <2>2, <2>3 DEF QuietEntry
<1>4. \A i \in Indexes : QuietTask(i)
  BY DEF Quiet
<1>5. \A p \in Creators : QuietCreator(p)
  BY DEF Quiet
<1>6. TypeOK /\ EntriesInv /\ NamesInv /\ TasksInv /\ CreatorsInv /\ LoadedInv /\ CountsInv
  BY DEF AppInv
<1>7. EntriesInv'
  <2> SUFFICES ASSUME NEW s \in Slots
               PROVE  /\ Filled(s)' => /\ AppTable'[s].AppState # UNDEFINED
                                       /\ AppTable'[s].Main \in Indexes
                                       /\ TaskTable'[AppTable'[s].Main] = s
                                       /\ task'[AppTable'[s].Main].creator = None
                                       /\ AppTable'[s].Name \in modules' \ leaked'
                      /\ AppTable'[s].AppState # UNDEFINED /\ ~Filled(s)' => Claimant(s)'
    BY DEF EntriesInv
  <2>1. ASSUME Filled(s)
        PROVE  /\ AppTable'[s].AppState # UNDEFINED
               /\ AppTable'[s].Main \in Indexes
               /\ TaskTable'[AppTable'[s].Main] = s
               /\ task'[AppTable'[s].Main].creator = None
               /\ AppTable'[s].Name \in modules' \ leaked'
    <3>1. PICK m \in Indexes : m = AppTable[s].Main
      BY <2>1, <1>6 DEF EntriesInv
    <3>2. TaskTable[m] = s /\ task[m].creator = None /\ Used(m)
          /\ AppTable[s].AppState # UNDEFINED /\ AppTable[s].Name \in modules \ leaked
      BY <2>1, <3>1, <1>6, ConstantsOK DEF EntriesInv, Used
    <3>3. task'[m].creator = None
      BY <3>2, <1>4 DEF QuietTask
    <3> QED
      BY <3>1, <3>2, <3>3, <1>1, <1>3
  <2>2. ASSUME ~Filled(s), AppTable'[s].AppState # UNDEFINED
        PROVE  Claimant(s)'
    <3>1. PICK p \in Creators : Creating(p) /\ proc[p].slot = s
      BY <2>2, <1>3, <1>6 DEF EntriesInv, Claimant
    <3>2. proc'[p] = proc[p]
      BY <3>1, <1>5 DEF QuietCreator
    <3> QED
      BY <3>1, <3>2 DEF Claimant, Creating
  <2> QED
    BY <2>1, <2>2, <1>3
<1>8. NamesInv'
  BY <1>3, <1>6 DEF NamesInv
<1>9. TasksInv'
  <2> SUFFICES ASSUME NEW i \in Indexes
               PROVE  /\ Used(i)' => /\ task'[i].at \notin {"none", "leaving"}
                                     /\ Filled(TaskTable[i])'
                                     /\ i # AppTable'[TaskTable'[i]].Main
                                          => task'[i].creator = AppTable'[TaskTable'[i]].Main
                      /\ ~Used(i)' => task'[i].at \in {"none", "leaving"}
    BY DEF TasksInv
  <2>1. QuietTask(i) /\ (Used(i)' <=> Used(i))
    BY <1>1, <1>4 DEF Used
  <2>2. CASE Used(i)
    <3>1. PICK s \in Slots : s = TaskTable[i]
      BY <2>2, <1>6, TypeParts DEF Used
    <3>2. /\ task[i].at \notin {"none", "leaving"} /\ Filled(s)
          /\ i # AppTable[s].Main => task[i].creator = AppTable[s].Main
      BY <2>2, <3>1, <1>6 DEF TasksInv
    <3>3. task'[i].creator = task[i].creator /\ task'[i].at \notin {"none", "leaving"}
      BY <2>1, <2>2, <3>2 DEF QuietTask
    <3>4. Filled(s)' /\ TaskTable'[i] = s
      BY <3>1, <3>2, <1>1, <1>3
    <3> QED
      BY <3>1, <3>2, <3>3, <3>4, <2>1, <2>2, <1>3 DEF Filled
  <2>3. CASE ~Used(i)
    <3>1. task[i].at \in {"none", "leaving"}
      BY <2>3, <1>6 DEF TasksInv
    <3> QED
      BY <3>1, <2>1, <2>3 DEF QuietTask
  <2> QED
    BY <2>2, <2>3
<1>10. CreatorsInv'
  <2>1. ASSUME NEW p \in Creators
        PROVE  /\ proc'[p].at \in {"create", "load", "start"} => proc'[p].name \in Apps
               /\ Creating(p)' => Creating(p) /\ proc'[p] = proc[p]
               /\ Creating(p)' => AppTable'[proc'[p].slot]
                                    = [NoRecord EXCEPT !.AppState = EARLY_INIT]
               /\ proc'[p].at = "start" =>
                    /\ proc'[p].name \in modules' \ leaked'
                    /\ \A s \in Slots : AppTable'[s].Name # proc'[p].name
    <3>0. QuietCreator(p)
      BY <1>5
    <3>1. proc'[p].at \in {"create", "load", "start"} => proc'[p].name \in Apps
      BY <3>0, <1>6 DEF QuietCreator, CreatorsInv
    <3>2. Creating(p)' => Creating(p) /\ proc'[p] = proc[p]
      BY <3>0 DEF QuietCreator, Creating
    <3>3. ASSUME Creating(p)'
          PROVE  AppTable'[proc'[p].slot] = [NoRecord EXCEPT !.AppState = EARLY_INIT]
      <4>1. PICK s \in Slots : s = proc[p].slot
        BY <1>6, TypeParts
      <4>2. AppTable[s] = [NoRecord EXCEPT !.AppState = EARLY_INIT]
        BY <4>1, <3>2, <3>3, <1>6 DEF CreatorsInv
      <4>3. ~Filled(s)
        BY <4>2, RecordsOK DEF Filled
      <4>4. QuietEntry(s)
        BY DEF Quiet
      <4>5. AppTable'[s] = AppTable[s]
        BY <4>3, <4>4 DEF QuietEntry
      <4> QED
        BY <4>1, <4>2, <4>5, <3>2, <3>3
    <3>4. ASSUME proc'[p].at = "start"
          PROVE  /\ proc'[p].name \in modules' \ leaked'
                 /\ \A s \in Slots : AppTable'[s].Name # proc'[p].name
      <4>1. proc'[p] = proc[p]
        BY <3>2, <3>4 DEF Creating
      <4> QED
        BY <4>1, <3>4, <1>1, <1>3, <1>6 DEF CreatorsInv
    <3> QED
      BY <3>1, <3>2, <3>3, <3>4
  <2>2. proc'["ES"].at = "clean" =>
          /\ AppTable'[proc'["ES"].slot].Name = proc'["ES"].name
          /\ proc'["ES"].name \in Apps
    <3>1. QuietCreator("ES") /\ proc["ES"].slot \in Slots
      BY <1>5, <1>6, TypeParts DEF Creators
    <3> QED
      BY <3>1, <1>3, <1>6 DEF QuietCreator, CreatorsInv
  <2>3. /\ Creating("ES")' /\ Creating("main")' => proc'["ES"].slot # proc'["main"].slot
        /\ proc'["ES"].at = "start" /\ proc'["main"].at = "start"
             => proc'["ES"].name # proc'["main"].name
    BY <2>1, <1>6 DEF CreatorsInv, Creators, Creating
  <2>4. proc'["ES"].cursor <= NumSlots
    BY DEF Quiet
  <2> QED
    BY <2>1, <2>2, <2>3, <2>4 DEF CreatorsInv
<1>11. LoadedInv'
  <2> SUFFICES ASSUME NEW a \in modules \ leaked
               PROVE  \/ \E s \in Slots : AppTable'[s].Name = a
                      \/ \E p \in Creators : proc'[p].at = "start" /\ proc'[p].name = a
    BY <1>1 DEF LoadedInv
  <2>1. \A p \in Creators : proc[p].at = "start" => proc'[p] = proc[p]
    BY <1>5 DEF QuietCreator, Creating
  <2> QED
    BY <2>1, <1>3, <1>6 DEF LoadedInv
<1>12. CountsInv'
  <2>1. UsedIndexes' = UsedIndexes /\ FilledSlots' = FilledSlots
    BY <1>1, <1>3 DEF UsedIndexes, FilledSlots, Used
  <2> QED
    BY <2>1, <1>1, <1>6 DEF CountsInv
<1> QED
  BY <1>2, <1>7, <1>8, <1>9, <1>10, <1>11, <1>12 DEF AppInv

-----------------------------------------------------------------------------
(* The steps of a creator on an entry that is not filled: it is claimed,   *)
(* its module loaded, or it is given up.                                   *)
ClaimedRecord == [NoRecord EXCEPT !.AppState = EARLY_INIT]

OwnsOnly(p, s) ==
  /\ Creating(p) => proc[p].slot = s
  /\ \A q \in Creators : q # p /\ Creating(q) => proc[q].slot # s

Goes(r, e, s) ==
  \/ r.at \in {"load", "start"} /\ r.slot = s /\ e = ClaimedRecord /\ r.name \in Apps
  \/ r.at \notin {"load", "start", "create", "clean"} /\ e.AppState = UNDEFINED

ModulesMove(p, r) ==
  \A a \in Apps : a \in modules' \ leaked' <=>
    \/ a \in modules \ leaked /\ ~(proc[p].at = "start" /\ a = proc[p].name)
    \/ r.at = "start" /\ a = r.name

LEMMA UnfilledStep ==
  ASSUME AppInv, NEW s \in Slots, NEW e \in AppRecord, ~Filled(s), e.Name = NoApp,
         NEW p \in Creators, NEW r \in Creator, OwnsOnly(p, s), Goes(r, e, s),
         r.cursor <= NumSlots \/ p = "main", proc[p].at # "clean",
         AppTable' = [AppTable EXCEPT ![s] = e], proc' = [proc EXCEPT ![p] = r],
         UNCHANGED <<TaskTable, task, counts, SystemState>>,
         modules' \subseteq Apps, leaked' \subseteq modules', ModulesMove(p, r),
         r.at = "start" /\ proc[p].at # "start" => r.name \notin modules,
         r.at = "start" => proc[p].at # "start"
  PROVE  AppInv'
<1>1. TypeOK /\ EntriesInv /\ NamesInv /\ TasksInv /\ CreatorsInv /\ LoadedInv /\ CountsInv
  BY DEF AppInv
<1>2. /\ AppTable' \in [Slots -> AppRecord] /\ AppTable'[s] = e
      /\ \A t \in Slots : t # s => AppTable'[t] = AppTable[t]
  BY <1>1 DEF TypeOK
<1>3. /\ proc' \in [Creators -> Creator] /\ proc'[p] = r
      /\ \A q \in Creators : q # p => proc'[q] = proc[q]
  BY <1>1 DEF TypeOK, Creators
<1>4. UNCHANGED TaskTable /\ UNCHANGED task /\ UNCHANGED counts /\ UNCHANGED SystemState
  OBVIOUS
<1>5. \A t \in Slots : AppTable'[t].Name = AppTable[t].Name /\ (Filled(t)' <=> Filled(t))
  <2> TAKE t \in Slots
  <2>1. AppTable'[t].Name = AppTable[t].Name
    BY <1>2 DEF Filled
  <2> QED
    BY <2>1 DEF Filled
<1>6. TypeOK'
  BY <1>1, <1>2, <1>3, <1>4 DEF TypeOK, Creators
<1>7. \A t \in Slots : Filled(t) => t # s /\ AppTable'[t] = AppTable[t]
  BY <1>2
<1>8. \A t \in Slots : Filled(t) => AppTable[t].Name \in modules' \ leaked'
  <2> SUFFICES ASSUME NEW t \in Slots, Filled(t)
               PROVE  AppTable[t].Name \in modules' \ leaked'
    OBVIOUS
  <2>1. PICK a : a = AppTable[t].Name
    OBVIOUS
  <2>2. a \in modules \ leaked /\ a \in Apps
    BY <2>1, <1>1 DEF EntriesInv, TypeOK
  <2>3. proc[p].at = "start" => a # proc[p].name
    BY <2>1, <1>1 DEF CreatorsInv
  <2> QED
    BY <2>1, <2>2, <2>3 DEF ModulesMove
<1>9. EntriesInv'
  <2> SUFFICES ASSUME NEW t \in Slots
               PROVE  /\ Filled(t)' => /\ AppTable'[t].AppState # UNDEFINED
                                       /\ AppTable'[t].Main \in Indexes
                                       /\ TaskTable'[AppTable'[t].Main] = t
                                       /\ task'[AppTable'[t].Main].creator = None
                                       /\ AppTable'[t].Name \in modules' \ leaked'
                      /\ AppTable'[t].AppState # UNDEFINED /\ ~Filled(t)' => Claimant(t)'
    BY DEF EntriesInv
  <2>1. ASSUME Filled(t)
        PROVE  /\ AppTable'[t].AppState # UNDEFINED
               /\ AppTable'[t].Main \in Indexes
               /\ TaskTable'[AppTable'[t].Main] = t
               /\ task'[AppTable'[t].Main].creator = None
               /\ AppTable'[t].Name \in modules' \ leaked'
    BY <2>1, <1>1, <1>4, <1>7, <1>8 DEF EntriesInv
  <2>2. ASSUME ~Filled(t), AppTable'[t].AppState # UNDEFINED, t # s
        PROVE  Claimant(t)'
    <3>1. PICK q \in Creators : Creating(q) /\ proc[q].slot = t
      BY <2>2, <1>1, <1>2 DEF EntriesInv, Claimant
    <3>2. q # p
      BY <3>1, <2>2 DEF OwnsOnly
    <3> QED
      BY <3>1, <3>2, <1>3 DEF Claimant, Creating
  <2>3. ASSUME AppTable'[s].AppState # UNDEFINED
        PROVE  Claimant(s)'
    <3>1. r.at \in {"load", "start"} /\ r.slot = s
      BY <2>3, <1>2 DEF Goes
    <3> QED
      BY <3>1, <1>3 DEF Claimant, Creating
  <2> QED
    BY <2>1, <2>2, <2>3, <1>5
<1>10. NamesInv'
  BY <1>1, <1>5 DEF NamesInv
<1>11. TasksInv'
  <2> SUFFICES ASSUME NEW i \in Indexes
               PROVE  /\ Used(i)' => /\ task'[i].at \notin {"none", "leaving"}
                                     /\ Filled(TaskTable[i])'
                                     /\ i # AppTable'[TaskTable'[i]].Main
                                          => task'[i].creator = AppTable'[TaskTable'[i]].Main
                      /\ ~Used(i)' => task'[i].at \in {"none", "leaving"}
    BY DEF TasksInv
  <2>1. Used(i)' <=> Used(i)
    BY <1>4 DEF Used
  <2>2. CASE Used(i)
    <3>1. PICK t \in Slots : t = TaskTable[i]
      BY <2>2, <1>1, TypeParts DEF Used
    <3>2. /\ task[i].at \notin {"none", "leaving"} /\ Filled(t)
          /\ i # AppTable[t].Main => task[i].creator = AppTable[t].Main
      BY <2>2, <3>1, <1>1 DEF TasksInv
    <3>3. AppTable'[t] = AppTable[t] /\ TaskTable'[i] = t
      BY <3>1, <3>2, <1>4, <1>7
    <3> QED
      BY <3>1, <3>2, <3>3, <2>1, <2>2, <1>4 DEF Filled
  <2>3. CASE ~Used(i)
    BY <2>1, <2>3, <1>1, <1>4 DEF TasksInv
  <2> QED
    BY <2>2, <2>3
<1>12. ASSUME NEW q \in Creators, q # p
       PROVE  /\ proc'[q].at \in {"create", "load", "start"} => proc'[q].name \in Apps
              /\ Creating(q)' => AppTable'[proc'[q].slot] = ClaimedRecord
              /\ proc'[q].at = "start" =>
                   /\ proc'[q].name \in modules' \ leaked'
                   /\ \A t \in Slots : AppTable'[t].Name # proc'[q].name
  <2>1. proc'[q] = proc[q] /\ proc[q].slot \in Slots
    BY <1>3, <1>12, <1>1, TypeParts
  <2>2. ASSUME Creating(q)
        PROVE  AppTable'[proc[q].slot] = ClaimedRecord
    <3>1. proc[q].slot # s /\ AppTable[proc[q].slot] = ClaimedRecord
      BY <2>2, <1>12, <1>1 DEF OwnsOnly, CreatorsInv, ClaimedRecord
    <3> QED
      BY <3>1, <2>1, <1>2
  <2>3. ASSUME proc[q].at = "start"
        PROVE  /\ proc[q].name \in modules' \ leaked'
               /\ \A t \in Slots : AppTable'[t].Name # proc[q].name
    <3>1. proc[q].name \in modules \ leaked /\ proc[q].name \in Apps
      BY <2>3, <1>1 DEF CreatorsInv
    <3>2. proc[p].at = "start" => proc[q].name # proc[p].name
      BY <2>3, <1>12, <1>1 DEF CreatorsInv, Creators
    <3>3. proc[q].name \in modules' \ leaked'
      BY <3>1, <3>2 DEF ModulesMove
    <3>4. \A t \in Slots : AppTable[t].Name # proc[q].name
      BY <2>3, <1>1 DEF CreatorsInv
    <3> QED
      BY <3>3, <3>4, <1>5
  <2>4. proc[q].at \in {"create", "load", "start"} => proc[q].name \in Apps
    BY <1>1 DEF CreatorsInv
  <2> QED
    BY <2>1, <2>2, <2>3, <2>4 DEF Creating
<1>13. /\ r.at \in {"create", "load", "start"} => r.name \in Apps
       /\ r.at \in {"load", "start"} => AppTable'[r.slot] = ClaimedRecord
  BY <1>2 DEF Goes
<1>14. ASSUME r.at = "start"
       PROVE  /\ r.name \in modules' \ leaked' /\ r.name \notin modules
              /\ \A t \in Slots : AppTable'[t].Name # r.name
  <2>1. r.name \in Apps /\ r.name \notin modules
    BY <1>14, <1>13
  <2>2. r.name \in modules' \ leaked'
    BY <2>1, <1>14 DEF ModulesMove
  <2>3. ASSUME NEW t \in Slots PROVE AppTable'[t].Name # r.name
    <3>1. CASE Filled(t)
      BY <3>1, <2>1, <1>1, <1>5 DEF EntriesInv
    <3>2. CASE ~Filled(t)
      BY <3>2, <2>1, <1>5, ConstantsOK DEF Filled
    <3> QED
      BY <3>1, <3>2
  <2> QED
    BY <2>1, <2>2, <2>3
<1>15. CreatorsInv'
  <2>1. ASSUME NEW q \in Creators
        PROVE  /\ proc'[q].at \in {"create", "load", "start"} => proc'[q].name \in Apps
               /\ Creating(q)' => AppTable'[proc'[q].slot] = ClaimedRecord
               /\ proc'[q].at = "start" =>
                    /\ proc'[q].name \in modules' \ leaked'
                    /\ \A t \in Slots : AppTable'[t].Name # proc'[q].name
    <3>1. CASE q = p
      BY <3>1, <1>3, <1>13, <1>14 DEF Creating
    <3> QED
      BY <3>1, <1>12
  <2>2. ASSUME NEW q \in Creators, q # p, Creating(q)', Creating(p)'
        PROVE  proc'[q].slot # proc'[p].slot
    <3>1. proc'[q] = proc[q] /\ Creating(q)
      BY <2>2, <1>3 DEF Creating
    <3>2. r.slot = s
      BY <2>2, <1>3 DEF Creating, Goes
    <3> QED
      BY <2>2, <3>1, <3>2, <1>3 DEF OwnsOnly
  <2>3. ASSUME NEW q \in Creators, q # p, proc'[q].at = "start", proc'[p].at = "start"
        PROVE  proc'[q].name # proc'[p].name
    <3>1. proc[q].at = "start" /\ proc'[q] = proc[q] /\ r.at = "start"
      BY <2>3, <1>3
    <3>2. proc[q].name \in modules
      BY <3>1, <1>1 DEF CreatorsInv
    <3> QED
      BY <3>1, <3>2, <1>3, <1>14
  <2>4. proc'["ES"].cursor <= NumSlots
    <3>1. CASE p = "ES"
      BY <3>1, <1>3
    <3>2. CASE p # "ES"
      BY <3>2, <1>1, <1>3 DEF CreatorsInv, Creators
    <3> QED
      BY <3>1, <3>2
  <2>5. proc'["ES"].at = "clean" =>
          /\ AppTable'[proc'["ES"].slot].Name = proc'["ES"].name
          /\ proc'["ES"].name \in Apps
    <3>1. CASE p = "ES"
      BY <3>1, <1>3 DEF Goes
    <3>2. CASE p # "ES"
      <4>1. proc'["ES"] = proc["ES"] /\ proc["ES"].slot \in Slots
        BY <3>2, <1>1, <1>3, TypeParts DEF Creators
      <4> QED
        BY <4>1, <1>1, <1>5 DEF CreatorsInv
    <3> QED
      BY <3>1, <3>2
  <2>6. Creating("ES")' /\ Creating("main")' => proc'["ES"].slot # proc'["main"].slot
    BY <2>2 DEF Creators
  <2>7. proc'["ES"].at = "start" /\ proc'["main"].at = "start"
          => proc'["ES"].name # proc'["main"].name
    BY <2>3 DEF Creators
  <2> QED
    BY <2>1, <2>4, <2>5, <2>6, <2>7 DEF CreatorsInv, ClaimedRecord
<1>16. LoadedInv'
  <2> SUFFICES ASSUME NEW a, a \in modules' \ leaked'
               PROVE  \/ \E t \in Slots : AppTable'[t].Name = a
                      \/ \E q \in Creators : proc'[q].at = "start" /\ proc'[q].name = a
    BY DEF LoadedInv
  <2>1. CASE r.at = "start" /\ a = r.name
    BY <2>1, <1>3
  <2>2. CASE ~(r.at = "start" /\ a = r.name)
    <3>1. a \in modules \ leaked /\ ~(proc[p].at = "start" /\ a = proc[p].name)
      BY <2>2 DEF ModulesMove
    <3>2. CASE \E t \in Slots : AppTable[t].Name = a
      BY <3>2, <1>5
    <3>3. CASE \E q \in Creators : proc[q].at = "start" /\ proc[q].name = a
      <4>1. PICK q \in Creators : proc[q].at = "start" /\ proc[q].name = a
        BY <3>3
      <4>2. q # p
        BY <4>1, <3>1
      <4> QED
        BY <4>1, <4>2, <1>3
    <3> QED
      BY <3>1, <3>2, <3>3, <1>1 DEF LoadedInv
  <2> QED
    BY <2>1, <2>2
<1>17. CountsInv'
  <2>1. UsedIndexes' = UsedIndexes /\ FilledSlots' = FilledSlots
    BY <1>4, <1>5 DEF UsedIndexes, FilledSlots, Used
  <2> QED
    BY <2>1, <1>1, <1>4 DEF CountsInv
<1> QED
  BY <1>6, <1>9, <1>10, <1>11, <1>15, <1>16, <1>17 DEF AppInv

-----------------------------------------------------------------------------
(* A task that is created takes an index that no record names.             *)
LEMMA TaskCreated ==
  ASSUME TypeOK, TasksInv, FreeIndexes # {}, NEW c \in Indexes \cup {None},
         NEW s \in Slots, TaskCreate(c, s)
  PROVE  /\ NewTask \in Indexes /\ ~Used(NewTask)
         /\ task' \in [Indexes -> TaskRecord] /\ TaskTable' \in [Indexes -> Slots \cup {None}]
         /\ task'[NewTask].at = "init" /\ task'[NewTask].creator = c
         /\ TaskTable'[NewTask] = s
         /\ \A i \in Indexes : i # NewTask => task'[i] = task[i] /\ TaskTable'[i] = TaskTable[i]
         /\ UsedIndexes' = UsedIndexes \cup {NewTask}
<1>1. NewTask \in FreeIndexes
  <2>1. FreeIndexes \subseteq Nat
    BY ConstantsOK DEF FreeIndexes
  <2> QED
    BY <2>1, LeastExists DEF NewTask
<1>2. PICK m : m = NewTask
  OBVIOUS
<1>3. m \in Indexes /\ task[m].at = "none"
  BY <1>1, <1>2, ConstantsOK DEF FreeIndexes, Live
<1>4. ~Used(m)
  BY <1>3 DEF TasksInv
<1> DEFINE k == [NoTask EXCEPT !.at = "init", !.creator = c]
<1>5. k \in TaskRecord /\ k.at = "init" /\ k.creator = c
  BY DEF NoTask, TaskRecord, TaskStates, RunStatuses
<1>6. task' = [task EXCEPT ![m] = k] /\ TaskTable' = [TaskTable EXCEPT ![m] = s]
  BY <1>2 DEF TaskCreate
<1> HIDE DEF k
<1>7. task \in [Indexes -> TaskRecord] /\ TaskTable \in [Indexes -> Slots \cup {None}]
  BY DEF TypeOK
<1>8. /\ task' \in [Indexes -> TaskRecord] /\ TaskTable' \in [Indexes -> Slots \cup {None}]
      /\ task'[m].at = "init" /\ task'[m].creator = c
      /\ TaskTable'[m] = s
      /\ \A i \in Indexes : i # m => task'[i] = task[i] /\ TaskTable'[i] = TaskTable[i]
  BY <1>3, <1>5, <1>6, <1>7
<1>9. UsedIndexes' = UsedIndexes \cup {m}
  BY <1>3, <1>8, ConstantsOK DEF UsedIndexes, Used
<1> QED
  BY <1>2, <1>3, <1>4, <1>8, <1>9

(* An index is counted once more.                                          *)
LEMMA CountUp ==
  ASSUME NEW S, IsFiniteSet(S), NEW x, x \notin S
  PROVE  Cardinality(S \cup {x}) = Cardinality(S) + 1 /\ Cardinality(S) \in Nat
BY FS_AddElement, FS_CardinalityType

LEMMA CountedSets ==
  /\ IsFiniteSet(UsedIndexes) /\ UsedIndexes \subseteq Indexes
  /\ IsFiniteSet(FilledSlots) /\ FilledSlots \subseteq Slots
<1>1. UsedIndexes \subseteq Indexes /\ FilledSlots \subseteq Slots
  BY DEF UsedIndexes, FilledSlots
<1> QED
  BY <1>1, ConstantsOK, FS_Subset

(* The claimed entry is filled: the application exists.                    *)
LEMMA FillStep ==
  ASSUME AppInv, NEW p \in Creators, proc[p].at = "start", FreeIndexes # {},
         NEW s \in Slots, s = proc[p].slot, NEW e \in AppRecord, NEW r \in Creator,
         e.AppState # UNDEFINED, e.Name = proc[p].name, e.Main = NewTask,
         TaskCreate(None, s), AppTable' = [AppTable EXCEPT ![s] = e],
         proc' = [proc EXCEPT ![p] = r], r.at \in {"scan", "wait"},
         r.cursor <= NumSlots \/ p = "main",
         counts' = [Tasks |-> counts.Tasks + 1, Apps |-> counts.Apps + 1],
         UNCHANGED <<modules, leaked, SystemState>>
  PROVE  AppInv'
<1>1. TypeOK /\ EntriesInv /\ NamesInv /\ TasksInv /\ CreatorsInv /\ LoadedInv /\ CountsInv
  BY DEF AppInv
<1>2. /\ AppTable' \in [Slots -> AppRecord] /\ AppTable'[s] = e
      /\ \A t \in Slots : t # s => AppTable'[t] = AppTable[t]
  BY <1>1 DEF TypeOK
<1>3. /\ proc' \in [Creators -> Creator] /\ proc'[p] = r
      /\ \A q \in Creators : q # p => proc'[q] = proc[q]
  BY <1>1 DEF TypeOK, Creators
<1>4. UNCHANGED modules /\ UNCHANGED leaked /\ UNCHANGED SystemState
  OBVIOUS
<1>5. PICK m : m = NewTask
  OBVIOUS
<1>6. /\ m \in Indexes /\ ~Used(m)
      /\ task' \in [Indexes -> TaskRecord] /\ TaskTable' \in [Indexes -> Slots \cup {None}]
      /\ task'[m].at = "init" /\ task'[m].creator = None /\ TaskTable'[m] = s
      /\ \A i \in Indexes : i # m => task'[i] = task[i] /\ TaskTable'[i] = TaskTable[i]
      /\ UsedIndexes' = UsedIndexes \cup {m}
  BY <1>1, <1>5, TaskCreated
<1>7. /\ AppTable[s] = ClaimedRecord /\ proc[p].name \in modules \ leaked
      /\ proc[p].name \in Apps /\ \A t \in Slots : AppTable[t].Name # proc[p].name
  BY <1>1 DEF CreatorsInv, Creating, ClaimedRecord
<1>8. ~Filled(s)
  BY <1>7, RecordsOK DEF Filled, ClaimedRecord
<1>9. Filled(s)'
  BY <1>2, <1>7, ConstantsOK DEF Filled
<1>10. \A t \in Slots : t # s => (Filled(t)' <=> Filled(t))
  BY <1>2 DEF Filled
<1>11. TypeOK'
  <2>1. counts' \in [Tasks : Nat, Apps : Nat]
    BY <1>1 DEF TypeOK
  <2> QED
    BY <2>1, <1>1, <1>2, <1>3, <1>4, <1>6 DEF TypeOK, Creators
<1>12. EntriesInv'
  <2> SUFFICES ASSUME NEW t \in Slots
               PROVE  /\ Filled(t)' => /\ AppTable'[t].AppState # UNDEFINED
                                       /\ AppTable'[t].Main \in Indexes
                                       /\ TaskTable'[AppTable'[t].Main] = t
                                       /\ task'[AppTable'[t].Main].creator = None
                                       /\ AppTable'[t].Name \in modules' \ leaked'
                      /\ AppTable'[t].AppState # UNDEFINED /\ ~Filled(t)' => Claimant(t)'
    BY DEF EntriesInv
  <2>1. CASE t = s
    BY <2>1, <1>2, <1>4, <1>5, <1>6, <1>7, <1>9
  <2>2. CASE t # s
    <3>1. AppTable'[t] = AppTable[t] /\ (Filled(t)' <=> Filled(t))
      BY <2>2, <1>2, <1>10
    <3>2. ASSUME Filled(t)
          PROVE  /\ AppTable[t].AppState # UNDEFINED
                 /\ AppTable[t].Main \in Indexes
                 /\ TaskTable'[AppTable[t].Main] = t
                 /\ task'[AppTable[t].Main].creator = None
                 /\ AppTable[t].Name \in modules' \ leaked'
      <4>1. PICK k : k = AppTable[t].Main
        OBVIOUS
      <4>2. /\ k \in Indexes /\ TaskTable[k] = t /\ task[k].creator = None
            /\ AppTable[t].AppState # UNDEFINED /\ AppTable[t].Name \in modules \ leaked
        BY <4>1, <3>2, <1>1 DEF EntriesInv
      <4>3. k # m
        BY <4>2, <1>6, ConstantsOK DEF Used
      <4> QED
        BY <4>1, <4>2, <4>3, <1>4, <1>6
    <3>3. ASSUME AppTable[t].AppState # UNDEFINED, ~Filled(t)
          PROVE  Claimant(t)'
      <4>1. PICK q \in Creators : Creating(q) /\ proc[q].slot = t
        BY <3>3, <1>1 DEF EntriesInv, Claimant
      <4>2. q # p
        BY <4>1, <2>2
      <4> QED
        BY <4>1, <4>2, <1>3 DEF Claimant, Creating
    <3> QED
      BY <3>1, <3>2, <3>3
  <2> QED
    BY <2>1, <2>2
<1>13. NamesInv'
  <2> SUFFICES ASSUME NEW t \in Slots, NEW u \in Slots, Filled(t)',
                      AppTable'[t].Name = AppTable'[u].Name
               PROVE  t = u
    BY DEF NamesInv
  <2>1. CASE t # s /\ u # s
    BY <2>1, <1>1, <1>2, <1>10 DEF NamesInv
  <2>2. CASE t = s /\ u # s
    BY <2>2, <1>2, <1>7
  <2>3. CASE t # s /\ u = s
    BY <2>3, <1>2, <1>7
  <2> QED
    BY <2>1, <2>2, <2>3
<1>14. TasksInv'
  <2> SUFFICES ASSUME NEW i \in Indexes
               PROVE  /\ Used(i)' => /\ task'[i].at \notin {"none", "leaving"}
                                     /\ Filled(TaskTable[i])'
                                     /\ i # AppTable'[TaskTable'[i]].Main
                                          => task'[i].creator = AppTable'[TaskTable'[i]].Main
                      /\ ~Used(i)' => task'[i].at \in {"none", "leaving"}
    BY DEF TasksInv
  <2>1. CASE i = m
    <3>1. TaskTable'[i] = s /\ AppTable'[s].Main = i /\ task'[i].at = "init"
      BY <2>1, <1>2, <1>5, <1>6
    <3> QED
      BY <3>1, <1>9, ConstantsOK DEF Used, Filled
  <2>2. CASE i # m
    <3>1. task'[i] = task[i] /\ TaskTable'[i] = TaskTable[i]
      BY <2>2, <1>6
    <3>2. CASE Used(i)
      <4>1. PICK t \in Slots : t = TaskTable[i]
        BY <3>2, <1>1, TypeParts DEF Used
      <4>2. /\ task[i].at \notin {"none", "leaving"} /\ Filled(t)
            /\ i # AppTable[t].Main => task[i].creator = AppTable[t].Main
        BY <3>2, <4>1, <1>1 DEF TasksInv
      <4>3. t # s
        BY <4>2, <1>8
      <4>4. AppTable'[t] = AppTable[t] /\ TaskTable'[i] = t
        BY <4>1, <4>3, <3>1, <1>2
      <4> QED
        BY <4>2, <4>4, <3>1, ConstantsOK DEF Filled, Used
    <3>3. CASE ~Used(i)
      BY <3>1, <3>3, <1>1 DEF TasksInv, Used
    <3> QED
      BY <3>2, <3>3
  <2> QED
    BY <2>1, <2>2
<1>15. CreatorsInv'
  <2>1. ASSUME NEW q \in Creators
        PROVE  /\ proc'[q].at \in {"create", "load", "start"} =>
                    q # p /\ proc'[q] = proc[q] /\ proc'[q].name \in Apps
               /\ Creating(q)' => AppTable'[proc'[q].slot] = ClaimedRecord
               /\ proc'[q].at = "start" =>
                    /\ proc'[q].name \in modules' \ leaked'
                    /\ \A t \in Slots : AppTable'[t].Name # proc'[q].name
    <3>1. CASE q = p
      BY <3>1, <1>3 DEF Creating
    <3>2. CASE q # p
      <4>1. proc'[q] = proc[q] /\ proc[q].slot \in Slots
        BY <3>2, <1>1, <1>3, TypeParts
      <4>2. proc[q].at \in {"create", "load", "start"} => proc[q].name \in Apps
        BY <1>1 DEF CreatorsInv
      <4>3. ASSUME Creating(q) PROVE AppTable'[proc[q].slot] = ClaimedRecord
        <5>1. proc[q].slot # s
          BY <4>3, <3>2, <1>1 DEF CreatorsInv, Creators, Creating
        <5>2. AppTable[proc[q].slot] = ClaimedRecord
          BY <4>3, <1>1 DEF CreatorsInv, ClaimedRecord
        <5> QED
          BY <5>1, <5>2, <4>1, <1>2
      <4>4. ASSUME proc[q].at = "start"
            PROVE  /\ proc[q].name \in modules' \ leaked'
                   /\ \A t \in Slots : AppTable'[t].Name # proc[q].name
        <5>1. /\ proc[q].name \in modules \ leaked
              /\ \A t \in Slots : AppTable[t].Name # proc[q].name
          BY <4>4, <1>1 DEF CreatorsInv
        <5>2. proc[q].name # proc[p].name
          BY <4>4, <3>2, <1>1 DEF CreatorsInv, Creators
        <5> QED
          BY <5>1, <5>2, <1>2, <1>4
      <4> QED
        BY <4>1, <4>2, <4>3, <4>4, <3>2 DEF Creating
    <3> QED
      BY <3>1, <3>2
  <2>2. proc'["ES"].cursor <= NumSlots
    <3>1. CASE p = "ES"
      BY <3>1, <1>3
    <3>2. CASE p # "ES"
      BY <3>2, <1>1, <1>3 DEF CreatorsInv, Creators
    <3> QED
      BY <3>1, <3>2
  <2>3. proc'["ES"].at = "clean" =>
          /\ AppTable'[proc'["ES"].slot].Name = proc'["ES"].name
          /\ proc'["ES"].name \in Apps
    <3>1. CASE p = "ES"
      BY <3>1, <1>3
    <3>2. CASE p # "ES"
      <4>1. proc'["ES"] = proc["ES"] /\ proc["ES"].slot \in Slots
        BY <3>2, <1>1, <1>3, TypeParts DEF Creators
      <4>2. ASSUME proc["ES"].at = "clean" PROVE proc["ES"].slot # s
        BY <4>2, <4>1, <1>1, <1>8, ConstantsOK DEF CreatorsInv, Filled
      <4> QED
        BY <4>1, <4>2, <1>1, <1>2 DEF CreatorsInv
    <3> QED
      BY <3>1, <3>2
  <2>4. ~(proc'["ES"].at \in {"load", "start"} /\ proc'["main"].at \in {"load", "start"})
    BY <2>1 DEF Creators
  <2> QED
    BY <2>1, <2>2, <2>3, <2>4 DEF CreatorsInv, ClaimedRecord, Creating
<1>16. LoadedInv'
  <2> SUFFICES ASSUME NEW a \in modules \ leaked
               PROVE  \/ \E t \in Slots : AppTable'[t].Name = a
                      \/ \E q \in Creators : proc'[q].at = "start" /\ proc'[q].name = a
    BY <1>4 DEF LoadedInv
  <2>1. CASE \E t \in Slots : AppTable[t].Name = a
    <3>1. PICK t \in Slots : AppTable[t].Name = a
      BY <2>1
    <3>2. t # s
      BY <3>1, <1>1, <1>8, ConstantsOK DEF TypeOK, Filled
    <3> QED
      BY <3>1, <3>2, <1>2
  <2>2. CASE \E q \in Creators : proc[q].at = "start" /\ proc[q].name = a
    <3>1. PICK q \in Creators : proc[q].at = "start" /\ proc[q].name = a
      BY <2>2
    <3>2. CASE q = p
      BY <3>1, <3>2, <1>2
    <3>3. CASE q # p
      BY <3>1, <3>3, <1>3
    <3> QED
      BY <3>2, <3>3
  <2> QED
    BY <2>1, <2>2, <1>1 DEF LoadedInv
<1>17. CountsInv'
  <2>1. FilledSlots' = FilledSlots \cup {s}
    BY <1>9, <1>10 DEF FilledSlots
  <2>2. m \notin UsedIndexes /\ s \notin FilledSlots
    BY <1>6, <1>8 DEF UsedIndexes, FilledSlots
  <2>3. /\ Cardinality(UsedIndexes') = Cardinality(UsedIndexes) + 1
        /\ Cardinality(FilledSlots') = Cardinality(FilledSlots) + 1
    BY <2>1, <2>2, <1>6, CountUp, CountedSets
  <2> QED
    BY <2>3, <1>1 DEF CountsInv
<1> QED
  BY <1>11, <1>12, <1>13, <1>14, <1>15, <1>16, <1>17 DEF AppInv

-----------------------------------------------------------------------------
(* The steps that create or end a child task change the tasks and their    *)
(* records only; the main tasks stay.                                      *)
MainKept(i) ==
  IsMain(i) => TaskTable'[i] = TaskTable[i] /\ task'[i].creator = task[i].creator

LEMMA ChildStep ==
  ASSUME AppInv, UNCHANGED <<AppTable, modules, leaked, SystemState, proc>>,
         task' \in [Indexes -> TaskRecord], TaskTable' \in [Indexes -> Slots \cup {None}],
         counts' \in [Tasks : Nat, Apps : Nat], counts'.Apps = counts.Apps,
         counts'.Tasks = Cardinality(UsedIndexes'), TasksInv',
         \A i \in Indexes : Used(i) => MainKept(i)
  PROVE  AppInv'
<1>1. TypeOK /\ EntriesInv /\ NamesInv /\ TasksInv /\ CreatorsInv /\ LoadedInv /\ CountsInv
  BY DEF AppInv
<1>2. AppTable' = AppTable /\ modules' = modules /\ leaked' = leaked
      /\ SystemState' = SystemState /\ proc' = proc
  OBVIOUS
<1>3. TypeOK'
  BY <1>1, <1>2 DEF TypeOK
<1>4. EntriesInv'
  <2> SUFFICES ASSUME NEW s \in Slots
               PROVE  /\ Filled(s)' => /\ AppTable'[s].AppState # UNDEFINED
                                       /\ AppTable'[s].Main \in Indexes
                                       /\ TaskTable'[AppTable'[s].Main] = s
                                       /\ task'[AppTable'[s].Main].creator = None
                                       /\ AppTable'[s].Name \in modules' \ leaked'
                      /\ AppTable'[s].AppState # UNDEFINED /\ ~Filled(s)' => Claimant(s)'
    BY DEF EntriesInv
  <2>1. ASSUME Filled(s)
        PROVE  /\ AppTable[s].AppState # UNDEFINED
               /\ AppTable[s].Main \in Indexes
               /\ TaskTable'[AppTable[s].Main] = s
               /\ task'[AppTable[s].Main].creator = None
               /\ AppTable[s].Name \in modules \ leaked
    <3>1. PICK m : m = AppTable[s].Main
      OBVIOUS
    <3>2. /\ m \in Indexes /\ TaskTable[m] = s /\ task[m].creator = None
          /\ AppTable[s].AppState # UNDEFINED /\ AppTable[s].Name \in modules \ leaked
      BY <3>1, <2>1, <1>1 DEF EntriesInv
    <3>3. Used(m) /\ IsMain(m)
      BY <3>1, <3>2, ConstantsOK DEF Used, IsMain, SlotOf
    <3>4. TaskTable'[m] = s /\ task'[m].creator = None
      BY <3>2, <3>3 DEF MainKept
    <3> QED
      BY <3>1, <3>2, <3>4
  <2>2. ASSUME AppTable[s].AppState # UNDEFINED, ~Filled(s) PROVE Claimant(s)'
    BY <2>2, <1>1, <1>2 DEF EntriesInv, Claimant, Creating
  <2> QED
    BY <2>1, <2>2, <1>2 DEF Filled
<1>5. NamesInv'
  BY <1>1, <1>2 DEF NamesInv, Filled
<1>6. CreatorsInv'
  BY <1>1, <1>2 DEF CreatorsInv, Creating
<1>7. LoadedInv'
  BY <1>1, <1>2 DEF LoadedInv
<1>8. CountsInv'
  <2>1. FilledSlots' = FilledSlots
    BY <1>2 DEF FilledSlots, Filled
  <2> QED
    BY <2>1, <1>1 DEF CountsInv
<1> QED
  BY <1>3, <1>4, <1>5, <1>6, <1>7, <1>8 DEF AppInv

(* A task's slot, when it has a record.                                    *)
LEMMA TaskSlot ==
  ASSUME AppInv, NEW i \in Indexes, Used(i)
  PROVE  /\ TaskTable[i] \in Slots /\ Filled(TaskTable[i])
         /\ AppTable[TaskTable[i]].AppState # UNDEFINED
         /\ task[i].at \notin {"none", "leaving"}
         /\ IsMain(i) \/ task[i].creator = AppTable[TaskTable[i]].Main
<1>1. TypeOK /\ EntriesInv /\ TasksInv
  BY DEF AppInv
<1>2. PICK s \in Slots : s = TaskTable[i]
  BY <1>1, TypeParts DEF Used
<1>3. /\ Filled(s) /\ task[i].at \notin {"none", "leaving"}
      /\ i # AppTable[s].Main => task[i].creator = AppTable[s].Main
  BY <1>1, <1>2 DEF TasksInv
<1> QED
  BY <1>1, <1>2, <1>3 DEF EntriesInv, IsMain, SlotOf

LEMMA CreateChildStep ==
  ASSUME AppInv, NEW i \in Indexes, CreateChildTask(i)
  PROVE  AppInv'
<1>1. TypeOK /\ TasksInv /\ CountsInv
  BY DEF AppInv
<1>2. Used(i) /\ IsMain(i) /\ FreeIndexes # {} /\ TaskCreate(i, TaskTable[i])
  BY DEF CreateChildTask, May, MainRuns, SlotOf
<1>3. counts' = [counts EXCEPT !.Tasks = @ + 1]
      /\ UNCHANGED <<AppTable, modules, leaked, SystemState, proc>>
  BY DEF CreateChildTask
<1>4. PICK s \in Slots : s = TaskTable[i] /\ Filled(s)
  BY <1>2, TaskSlot
<1>5. PICK m : m = NewTask
  OBVIOUS
<1>6. /\ m \in Indexes /\ ~Used(m)
      /\ task' \in [Indexes -> TaskRecord] /\ TaskTable' \in [Indexes -> Slots \cup {None}]
      /\ task'[m].at = "init" /\ task'[m].creator = i /\ TaskTable'[m] = s
      /\ \A j \in Indexes : j # m => task'[j] = task[j] /\ TaskTable'[j] = TaskTable[j]
      /\ UsedIndexes' = UsedIndexes \cup {m}
  BY <1>1, <1>2, <1>4, <1>5, TaskCreated
<1>7. counts' \in [Tasks : Nat, Apps : Nat] /\ counts'.Apps = counts.Apps
      /\ counts'.Tasks = counts.Tasks + 1
  <2>1. counts \in [Tasks : Nat, Apps : Nat]
    BY <1>1 DEF TypeOK
  <2> QED
    BY <2>1, <1>3
<1>8. counts'.Tasks = Cardinality(UsedIndexes')
  <2>1. m \notin UsedIndexes
    BY <1>6 DEF UsedIndexes
  <2>2. Cardinality(UsedIndexes') = Cardinality(UsedIndexes) + 1
    BY <2>1, <1>6, CountUp, CountedSets
  <2> QED
    BY <2>2, <1>1, <1>7 DEF CountsInv
<1>9. TasksInv'
  <2> SUFFICES ASSUME NEW j \in Indexes
               PROVE  /\ Used(j)' => /\ task'[j].at \notin {"none", "leaving"}
                                     /\ Filled(TaskTable[j])'
                                     /\ j # AppTable'[TaskTable'[j]].Main
                                          => task'[j].creator = AppTable'[TaskTable'[j]].Main
                      /\ ~Used(j)' => task'[j].at \in {"none", "leaving"}
    BY DEF TasksInv
  <2>1. CASE j = m
    <3>1. /\ TaskTable'[j] = s /\ task'[j].at = "init" /\ AppTable' = AppTable
          /\ task'[j].creator = AppTable[s].Main
      BY <2>1, <1>2, <1>3, <1>4, <1>6 DEF IsMain, SlotOf
    <3> QED
      BY <3>1, <1>4, ConstantsOK DEF Used, Filled
  <2>2. CASE j # m
    BY <2>2, <1>1, <1>3, <1>6 DEF TasksInv, Used, Filled
  <2> QED
    BY <2>1, <2>2
<1>10. \A j \in Indexes : Used(j) => MainKept(j)
  BY <1>6 DEF MainKept
<1> QED
  BY <1>3, <1>6, <1>7, <1>8, <1>9, <1>10, ChildStep

(* A child task that has a record ends, or will.                           *)
LEMMA EndChildStep ==
  ASSUME AppInv, NEW j \in Indexes, Used(j), ~IsMain(j), NEW k \in TaskRecord,
         k.at \in {"none", "leaving"}, task' = [task EXCEPT ![j] = k],
         TaskTable' = [TaskTable EXCEPT ![j] = None],
         counts' = [counts EXCEPT !.Tasks = @ - 1],
         UNCHANGED <<AppTable, modules, leaked, SystemState, proc>>
  PROVE  AppInv'
<1>1. TypeOK /\ TasksInv /\ CountsInv
  BY DEF AppInv
<1>2. /\ task' \in [Indexes -> TaskRecord] /\ TaskTable' \in [Indexes -> Slots \cup {None}]
      /\ task'[j] = k /\ TaskTable'[j] = None
      /\ \A i \in Indexes : i # j => task'[i] = task[i] /\ TaskTable'[i] = TaskTable[i]
  BY <1>1 DEF TypeOK
<1>3. UsedIndexes' = UsedIndexes \ {j} /\ j \in UsedIndexes
  BY <1>2 DEF UsedIndexes, Used
<1>4. /\ Cardinality(UsedIndexes') = Cardinality(UsedIndexes) - 1
      /\ Cardinality(UsedIndexes') \in Nat
  <2>1. IsFiniteSet(UsedIndexes) /\ IsFiniteSet(UsedIndexes \ {j})
    BY CountedSets, FS_RemoveElement
  <2> QED
    BY <2>1, <1>3, FS_RemoveElement, FS_CardinalityType
<1>5. /\ counts' \in [Tasks : Nat, Apps : Nat] /\ counts'.Apps = counts.Apps
      /\ counts'.Tasks = Cardinality(UsedIndexes')
  <2>1. counts \in [Tasks : Nat, Apps : Nat] /\ counts.Tasks = Cardinality(UsedIndexes)
    BY <1>1 DEF TypeOK, CountsInv
  <2>2. counts'.Tasks = counts.Tasks - 1 /\ counts'.Apps = counts.Apps
    BY <2>1
  <2>3. counts'.Tasks = Cardinality(UsedIndexes')
    BY <2>1, <2>2, <1>4
  <2> QED
    BY <2>1, <2>2, <2>3, <1>4
<1>6. TasksInv'
  <2> SUFFICES ASSUME NEW i \in Indexes
               PROVE  /\ Used(i)' => /\ task'[i].at \notin {"none", "leaving"}
                                     /\ Filled(TaskTable[i])'
                                     /\ i # AppTable'[TaskTable'[i]].Main
                                          => task'[i].creator = AppTable'[TaskTable'[i]].Main
                      /\ ~Used(i)' => task'[i].at \in {"none", "leaving"}
    BY DEF TasksInv
  <2>1. CASE i = j
    BY <2>1, <1>2 DEF Used
  <2>2. CASE i # j
    BY <2>2, <1>1, <1>2 DEF TasksInv, Used, Filled
  <2> QED
    BY <2>1, <2>2
<1>7. \A i \in Indexes : Used(i) => MainKept(i)
  BY <1>2 DEF MainKept
<1> QED
  BY <1>2, <1>5, <1>6, <1>7, ChildStep

-----------------------------------------------------------------------------
(* CFE_ES_CleanUpApp removes the application's tasks and records, and no   *)
(* other: whoever a task of the main task belongs to, it is this slot.     *)
Remains(i, s) == Used(i) /\ TaskTable[i] # s

LEMMA CleanTasks ==
  ASSUME AppInv, NEW s \in Slots, Filled(s), NEW m, m = AppTable[s].Main,
         task' = [i \in Indexes |-> IF i \in TasksBy(m) THEN NoTask ELSE task[i]],
         TaskTable' = [i \in Indexes |->
                         IF i = m \/ i \in ChildRecords(s) THEN None ELSE TaskTable[i]]
  PROVE  /\ task' \in [Indexes -> TaskRecord] /\ TaskTable' \in [Indexes -> Slots \cup {None}]
         /\ \A i \in Indexes :
              /\ Remains(i, s) => task'[i] = task[i] /\ TaskTable'[i] = TaskTable[i]
              /\ ~Remains(i, s) => TaskTable'[i] = None /\ task'[i].at \in {"none", "leaving"}
         /\ UsedIndexes' = UsedIndexes \ ({m} \cup ChildRecords(s))
         /\ m \in UsedIndexes /\ m \notin ChildRecords(s) /\ ChildRecords(s) \subseteq UsedIndexes
<1>1. TypeOK /\ EntriesInv /\ TasksInv
  BY DEF AppInv
<1>2. m \in Indexes /\ TaskTable[m] = s /\ task[m].creator = None
  BY <1>1 DEF EntriesInv
<1>3. ASSUME NEW i \in Indexes
      PROVE  TaskTable'[i] = IF TaskTable[i] = s THEN None ELSE TaskTable[i]
  <2>1. (i = m \/ i \in ChildRecords(s)) <=> TaskTable[i] = s
    BY <1>2 DEF ChildRecords
  <2> QED
    BY <2>1
<1>4. ASSUME NEW i \in Indexes
      PROVE  task'[i] = IF i \in TasksBy(m) THEN NoTask ELSE task[i]
  OBVIOUS
<1>5. task' \in [Indexes -> TaskRecord]
  BY <1>1, RecordsOK DEF TypeOK
<1>6. TaskTable' \in [Indexes -> Slots \cup {None}]
  BY <1>1 DEF TypeOK
<1>7. ASSUME NEW i \in Indexes, Remains(i, s)
      PROVE  task'[i] = task[i] /\ TaskTable'[i] = TaskTable[i]
  <2>1. PICK t \in Slots : t = TaskTable[i] /\ Filled(t)
    BY <1>7, TaskSlot DEF Remains
  <2>2. t # s /\ i # m
    BY <2>1, <1>2, <1>7 DEF Remains
  <2>3. PICK n : n = AppTable[t].Main
    OBVIOUS
  <2>4. n \in Indexes /\ TaskTable[n] = t /\ task[n].creator = None
    BY <2>1, <2>3, <1>1 DEF EntriesInv
  <2>5. n # m
    BY <2>2, <2>4, <1>2
  <2>6. i = n \/ task[i].creator = n
    BY <2>1, <2>3, <1>1, <1>7 DEF TasksInv, Remains
  <2>7. task[i].creator # m
    BY <2>4, <2>5, <2>6, <1>2, ConstantsOK
  <2>8. i \notin TasksBy(m)
    BY <2>2, <2>7 DEF TasksBy
  <2> QED
    BY <2>1, <2>2, <2>8, <1>3, <1>4
<1>8. ASSUME NEW i \in Indexes, ~Remains(i, s)
      PROVE  TaskTable'[i] = None /\ task'[i].at \in {"none", "leaving"}
  <2>1. CASE Used(i)
    <3>1. TaskTable[i] = s /\ task[i].at \notin {"none", "leaving"}
      BY <2>1, <1>1, <1>8 DEF Remains, TasksInv
    <3>2. i = m \/ task[i].creator = m
      BY <2>1, <3>1, <1>1 DEF TasksInv
    <3>3. i \in TasksBy(m)
      BY <3>1, <3>2, ConstantsOK DEF TasksBy, Live
    <3> QED
      BY <3>1, <3>3, <1>3, <1>4, RecordsOK
  <2>2. CASE ~Used(i)
    <3>1. task[i].at \in {"none", "leaving"} /\ TaskTable[i] = None
      BY <2>2, <1>1 DEF TasksInv, Used
    <3> QED
      BY <3>1, <1>3, <1>4, RecordsOK
  <2> QED
    BY <2>1, <2>2
<1>9. \A i \in Indexes : TaskTable[i] = s <=> i \in {m} \cup ChildRecords(s)
  BY <1>2 DEF ChildRecords
<1>10. UsedIndexes' = UsedIndexes \ ({m} \cup ChildRecords(s))
  BY <1>3, <1>9 DEF UsedIndexes, Used
<1>11. m \in UsedIndexes /\ m \notin ChildRecords(s) /\ ChildRecords(s) \subseteq UsedIndexes
  BY <1>2, ConstantsOK DEF ChildRecords, UsedIndexes, Used
<1> QED
  BY <1>5, <1>6, <1>7, <1>8, <1>10, <1>11

LEMMA CleanUpStep ==
  ASSUME AppInv, CleanUpApp
  PROVE  AppInv'
<1>1. TypeOK /\ EntriesInv /\ NamesInv /\ TasksInv /\ CreatorsInv /\ LoadedInv /\ CountsInv
  BY DEF AppInv
<1>2. PICK s \in Slots : s = proc["ES"].slot
  BY <1>1, TypeParts DEF Creators
<1>3. PICK m : m = AppTable[s].Main
  OBVIOUS
<1>4. proc["ES"].at = "clean"
  BY DEF CleanUpApp
<1>5. Filled(s) /\ AppTable[s].Name = proc["ES"].name /\ proc["ES"].name \in Apps
  BY <1>1, <1>2, <1>4, ConstantsOK DEF CreatorsInv, Filled
<1>6. /\ task' = [i \in Indexes |-> IF i \in TasksBy(m) THEN NoTask ELSE task[i]]
      /\ TaskTable' = [i \in Indexes |->
                         IF i = m \/ i \in ChildRecords(s) THEN None ELSE TaskTable[i]]
      /\ counts' = [Tasks |-> counts.Tasks - 1 - Cardinality(ChildRecords(s)),
                    Apps |-> counts.Apps - 1]
      /\ modules' = modules \ {AppTable[s].Name}
      /\ AppTable' = [AppTable EXCEPT ![s] = NoRecord]
      /\ leaked' = leaked /\ SystemState' = SystemState
  BY <1>2, <1>3 DEF CleanUpApp, CountedOut, Unloaded
<1>r. PICK r \in Creator : /\ proc' = [proc EXCEPT !["ES"] = r]
                           /\ r.at \in {"create", "scan"} /\ r.cursor <= NumSlots
                           /\ r.at = "create" => r.name \in Apps
  <2>1. proc["ES"] \in Creator /\ proc["ES"].cursor <= NumSlots /\ proc["ES"].cursor \in Nat
    BY <1>1, TypeParts DEF CreatorsInv, Creators
  <2>2. CASE proc' = [proc EXCEPT !["ES"].at = "create", !["ES"].slot = 0,
                                  !["ES"].req = "UNDEFINED"]
    <3> DEFINE x == [proc["ES"] EXCEPT !.at = "create", !.slot = 0, !.req = "UNDEFINED"]
    <3>1. x \in Creator /\ x.at = "create" /\ x.cursor = proc["ES"].cursor
          /\ x.name = proc["ES"].name
      BY <2>1, ConstantsOK DEF Creator, Places, Requests
    <3>2. proc' = [proc EXCEPT !["ES"] = x]
      BY <2>2, <1>1 DEF TypeOK
    <3> HIDE DEF x
    <3> QED
      BY <3>1, <3>2, <2>1, <1>5
  <2>3. CASE proc' = Created("ES")
    <3> DEFINE x == [IdleProc EXCEPT !.cursor = proc["ES"].cursor, !.at = "scan"]
    <3>1. x \in Creator /\ x.at = "scan" /\ x.cursor = proc["ES"].cursor
      BY <2>1, ConstantsOK DEF Creator, Places, Requests, IdleProc
    <3>2. proc' = [proc EXCEPT !["ES"] = x]
      BY <2>3 DEF Created
    <3> HIDE DEF x
    <3> QED
      BY <3>1, <3>2, <2>1
  <2> QED
    BY <2>2, <2>3 DEF CleanUpApp
<1>7. proc' \in [Creators -> Creator] /\ proc'["ES"] = r /\ proc'["main"] = proc["main"]
  BY <1>r, <1>1 DEF TypeOK, Creators
<1>8. /\ AppTable' \in [Slots -> AppRecord] /\ AppTable'[s] = NoRecord
      /\ \A t \in Slots : t # s => AppTable'[t] = AppTable[t]
  BY <1>1, <1>6, RecordsOK DEF TypeOK
<1>9. /\ task' \in [Indexes -> TaskRecord] /\ TaskTable' \in [Indexes -> Slots \cup {None}]
      /\ \A i \in Indexes :
           /\ Remains(i, s) => task'[i] = task[i] /\ TaskTable'[i] = TaskTable[i]
           /\ ~Remains(i, s) => TaskTable'[i] = None /\ task'[i].at \in {"none", "leaving"}
      /\ UsedIndexes' = UsedIndexes \ ({m} \cup ChildRecords(s))
      /\ m \in UsedIndexes /\ m \notin ChildRecords(s) /\ ChildRecords(s) \subseteq UsedIndexes
  BY <1>3, <1>5, <1>6, CleanTasks
<1>10. ~Filled(s)' /\ AppTable'[s].AppState = UNDEFINED
  BY <1>8, RecordsOK DEF Filled
<1>11. \A t \in Slots : t # s => (Filled(t)' <=> Filled(t))
  BY <1>8 DEF Filled
<1>12. AppTable[s].Name \notin leaked /\ AppTable[s].Name \in Apps
  BY <1>1, <1>5 DEF EntriesInv
<1>13. /\ Cardinality(UsedIndexes') = Cardinality(UsedIndexes) - 1 - Cardinality(ChildRecords(s))
       /\ Cardinality(UsedIndexes') \in Nat
  <2> DEFINE C == ChildRecords(s)
  <2>1. IsFiniteSet(UsedIndexes) /\ C \subseteq UsedIndexes /\ IsFiniteSet(C)
    BY <1>9, CountedSets, FS_Subset
  <2>2. IsFiniteSet(C \cup {m}) /\ Cardinality(C \cup {m}) = Cardinality(C) + 1
    BY <2>1, <1>9, FS_AddElement
  <2>3. C \cup {m} \subseteq UsedIndexes /\ UsedIndexes' = UsedIndexes \ (C \cup {m})
    BY <1>9
  <2>4. UsedIndexes \cap (C \cup {m}) = C \cup {m}
    BY <2>3
  <2>5. /\ IsFiniteSet(UsedIndexes')
        /\ Cardinality(UsedIndexes') = Cardinality(UsedIndexes) - Cardinality(C \cup {m})
    <3>1. Cardinality(UsedIndexes \ (C \cup {m}))
            = Cardinality(UsedIndexes) - Cardinality(UsedIndexes \cap (C \cup {m}))
      BY <2>1, <2>2, FS_Difference
    <3>2. IsFiniteSet(UsedIndexes \ (C \cup {m}))
      BY <2>1, FS_Subset
    <3> QED
      BY <3>1, <3>2, <2>3, <2>4
  <2>6. Cardinality(UsedIndexes) \in Nat /\ Cardinality(C) \in Nat
        /\ Cardinality(UsedIndexes') \in Nat
    BY <2>1, <2>5, FS_CardinalityType
  <2> HIDE DEF C
  <2>7. Cardinality(UsedIndexes') = Cardinality(UsedIndexes) - 1 - Cardinality(C)
    BY <2>2, <2>5, <2>6
  <2> QED
    BY <2>6, <2>7 DEF C
<1>14. /\ Cardinality(FilledSlots') = Cardinality(FilledSlots) - 1
       /\ Cardinality(FilledSlots') \in Nat
  <2>1. FilledSlots' = FilledSlots \ {s} /\ s \in FilledSlots
    BY <1>5, <1>10, <1>11 DEF FilledSlots
  <2>2. IsFiniteSet(FilledSlots) /\ IsFiniteSet(FilledSlots \ {s})
    BY CountedSets, FS_RemoveElement
  <2> QED
    BY <2>1, <2>2, FS_RemoveElement, FS_CardinalityType
<1>15. /\ counts'.Tasks = Cardinality(UsedIndexes') /\ counts'.Apps = Cardinality(FilledSlots')
       /\ counts' \in [Tasks : Nat, Apps : Nat]
  <2>1. counts.Tasks = Cardinality(UsedIndexes) /\ counts.Apps = Cardinality(FilledSlots)
    BY <1>1 DEF CountsInv
  <2>2. counts'.Tasks = Cardinality(UsedIndexes') /\ counts'.Apps = Cardinality(FilledSlots')
    BY <2>1, <1>6, <1>13, <1>14
  <2>3. counts' = [Tasks |-> Cardinality(UsedIndexes'), Apps |-> Cardinality(FilledSlots')]
    BY <2>1, <1>6, <1>13, <1>14
  <2> QED
    BY <2>2, <2>3, <1>13, <1>14
<1>16. TypeOK'
  <2>1. modules' \subseteq Apps /\ leaked' \subseteq modules'
    BY <1>1, <1>6, <1>12 DEF TypeOK
  <2> QED
    BY <2>1, <1>1, <1>6, <1>7, <1>8, <1>9, <1>15 DEF TypeOK, Creators
<1>17. EntriesInv'
  <2> SUFFICES ASSUME NEW t \in Slots
               PROVE  /\ Filled(t)' => /\ AppTable'[t].AppState # UNDEFINED
                                       /\ AppTable'[t].Main \in Indexes
                                       /\ TaskTable'[AppTable'[t].Main] = t
                                       /\ task'[AppTable'[t].Main].creator = None
                                       /\ AppTable'[t].Name \in modules' \ leaked'
                      /\ AppTable'[t].AppState # UNDEFINED /\ ~Filled(t)' => Claimant(t)'
    BY DEF EntriesInv
  <2>1. CASE t = s
    BY <2>1, <1>10
  <2>2. CASE t # s
    <3>1. AppTable'[t] = AppTable[t] /\ (Filled(t)' <=> Filled(t))
      BY <2>2, <1>8, <1>11
    <3>2. ASSUME Filled(t)
          PROVE  /\ AppTable[t].AppState # UNDEFINED
                 /\ AppTable[t].Main \in Indexes
                 /\ TaskTable'[AppTable[t].Main] = t
                 /\ task'[AppTable[t].Main].creator = None
                 /\ AppTable[t].Name \in modules' \ leaked'
      <4>1. PICK k : k = AppTable[t].Main
        OBVIOUS
      <4>2. /\ k \in Indexes /\ TaskTable[k] = t /\ task[k].creator = None
            /\ AppTable[t].AppState # UNDEFINED /\ AppTable[t].Name \in modules \ leaked
        BY <4>1, <3>2, <1>1 DEF EntriesInv
      <4>3. Remains(k, s)
        BY <4>2, <2>2, ConstantsOK DEF Remains, Used
      <4>4. task'[k] = task[k] /\ TaskTable'[k] = TaskTable[k]
        BY <4>2, <4>3, <1>9
      <4>5. AppTable[t].Name # AppTable[s].Name
        BY <3>2, <2>2, <1>1 DEF NamesInv
      <4> QED
        BY <4>1, <4>2, <4>4, <4>5, <1>6
    <3>3. ASSUME AppTable[t].AppState # UNDEFINED, ~Filled(t)
          PROVE  Claimant(t)'
      <4>1. PICK q \in Creators : Creating(q) /\ proc[q].slot = t
        BY <3>3, <1>1 DEF EntriesInv, Claimant
      <4>2. q = "main"
        BY <4>1, <1>4 DEF Creators, Creating
      <4> QED
        BY <4>1, <4>2, <1>7 DEF Claimant, Creating
    <3> QED
      BY <3>1, <3>2, <3>3
  <2> QED
    BY <2>1, <2>2
<1>18. NamesInv'
  <2> SUFFICES ASSUME NEW t \in Slots, NEW u \in Slots, Filled(t)',
                      AppTable'[t].Name = AppTable'[u].Name
               PROVE  t = u
    BY DEF NamesInv
  <2>1. t # s /\ u # s
    BY <1>10 DEF Filled
  <2> QED
    BY <2>1, <1>1, <1>8, <1>11 DEF NamesInv
<1>19. TasksInv'
  <2> SUFFICES ASSUME NEW i \in Indexes
               PROVE  /\ Used(i)' => /\ task'[i].at \notin {"none", "leaving"}
                                     /\ Filled(TaskTable[i])'
                                     /\ i # AppTable'[TaskTable'[i]].Main
                                          => task'[i].creator = AppTable'[TaskTable'[i]].Main
                      /\ ~Used(i)' => task'[i].at \in {"none", "leaving"}
    BY DEF TasksInv
  <2>1. CASE Remains(i, s)
    <3>1. PICK t \in Slots : t = TaskTable[i] /\ Filled(t)
      BY <2>1, TaskSlot DEF Remains
    <3>2. t # s /\ task'[i] = task[i] /\ TaskTable'[i] = t /\ AppTable'[t] = AppTable[t]
      BY <3>1, <2>1, <1>8, <1>9 DEF Remains
    <3>3. /\ task[i].at \notin {"none", "leaving"}
          /\ i # AppTable[t].Main => task[i].creator = AppTable[t].Main
      BY <3>1, <2>1, <1>1 DEF TasksInv, Remains
    <3> QED
      BY <3>1, <3>2, <3>3, ConstantsOK DEF Filled, Used
  <2>2. CASE ~Remains(i, s)
    BY <2>2, <1>9 DEF Used
  <2> QED
    BY <2>1, <2>2
<1>20. CreatorsInv'
  <2>1. /\ proc'["ES"].at \in {"create", "load", "start"} => proc'["ES"].name \in Apps
        /\ ~Creating("ES")' /\ proc'["ES"].at # "start" /\ proc'["ES"].at # "clean"
        /\ proc'["ES"].cursor <= NumSlots
    BY <1>r, <1>7 DEF Creating
  <2>2. proc["main"].at \in {"create", "load", "start"} => proc["main"].name \in Apps
    BY <1>1 DEF CreatorsInv, Creators
  <2>3. ASSUME Creating("main")
        PROVE  AppTable'[proc["main"].slot] = ClaimedRecord
    <3>1. AppTable[proc["main"].slot] = ClaimedRecord /\ proc["main"].slot \in Slots
      BY <2>3, <1>1, TypeParts DEF CreatorsInv, Creators, ClaimedRecord
    <3>2. proc["main"].slot # s
      BY <3>1, <1>5, RecordsOK DEF Filled, ClaimedRecord
    <3> QED
      BY <3>1, <3>2, <1>8
  <2>4. ASSUME proc["main"].at = "start"
        PROVE  /\ proc["main"].name \in modules' \ leaked'
               /\ \A t \in Slots : AppTable'[t].Name # proc["main"].name
    <3>1. /\ proc["main"].name \in modules \ leaked
          /\ \A t \in Slots : AppTable[t].Name # proc["main"].name
      BY <2>4, <1>1 DEF CreatorsInv, Creators
    <3>2. NoApp # proc["main"].name
      BY <3>1, <1>1, ConstantsOK DEF TypeOK
    <3> QED
      BY <3>1, <3>2, <1>6, <1>8, RecordsOK
  <2>5. ASSUME NEW q \in Creators
        PROVE  /\ proc'[q].at \in {"create", "load", "start"} => proc'[q].name \in Apps
               /\ Creating(q)' => AppTable'[proc'[q].slot] = ClaimedRecord
               /\ proc'[q].at = "start" =>
                    /\ proc'[q].name \in modules' \ leaked'
                    /\ \A t \in Slots : AppTable'[t].Name # proc'[q].name
    <3>1. CASE q = "ES"
      BY <3>1, <2>1
    <3>2. CASE q = "main"
      BY <3>2, <2>2, <2>3, <2>4, <1>7 DEF Creating
    <3> QED
      BY <3>1, <3>2 DEF Creators
  <2> QED
    BY <2>1, <2>5 DEF CreatorsInv, ClaimedRecord
<1>21. LoadedInv'
  <2> SUFFICES ASSUME NEW a, a \in modules' \ leaked'
               PROVE  \/ \E t \in Slots : AppTable'[t].Name = a
                      \/ \E q \in Creators : proc'[q].at = "start" /\ proc'[q].name = a
    BY DEF LoadedInv
  <2>1. a \in modules \ leaked /\ a # AppTable[s].Name
    BY <1>6
  <2>2. CASE \E t \in Slots : AppTable[t].Name = a
    BY <2>1, <2>2, <1>8
  <2>3. CASE \E q \in Creators : proc[q].at = "start" /\ proc[q].name = a
    BY <2>3, <1>4, <1>7 DEF Creators
  <2> QED
    BY <2>1, <2>2, <2>3, <1>1 DEF LoadedInv
<1>22. CountsInv'
  BY <1>15 DEF CountsInv
<1> QED
  BY <1>16, <1>17, <1>18, <1>19, <1>20, <1>21, <1>22 DEF AppInv

-----------------------------------------------------------------------------
(* The parts of a quiet step.                                              *)
TableQuiet == AppTable' \in [Slots -> AppRecord] /\ \A s \in Slots : QuietEntry(s)
TasksQuiet == task' \in [Indexes -> TaskRecord] /\ \A i \in Indexes : QuietTask(i)
ProcsQuiet == /\ proc' \in [Creators -> Creator] /\ \A p \in Creators : QuietCreator(p)
              /\ proc'["ES"].cursor <= NumSlots

LEMMA QuietSame ==
  ASSUME AppInv
  PROVE  /\ AppTable' = AppTable => TableQuiet
         /\ task' = task => TasksQuiet
         /\ proc' = proc => ProcsQuiet
<1>1. TypeOK /\ CreatorsInv
  BY DEF AppInv
<1>2. AppTable' = AppTable => TableQuiet
  BY <1>1 DEF TypeOK, TableQuiet, QuietEntry
<1>3. task' = task => TasksQuiet
  BY <1>1 DEF TypeOK, TasksQuiet, QuietTask
<1>4. proc' = proc => ProcsQuiet
  BY <1>1 DEF TypeOK, ProcsQuiet, QuietCreator, Creators, CreatorsInv
<1> QED
  BY <1>2, <1>3, <1>4

LEMMA QuietEntryChange ==
  ASSUME AppInv, NEW s \in Slots, Filled(s), NEW e \in AppRecord,
         e.Name = AppTable[s].Name, e.Main = AppTable[s].Main, e.AppState # UNDEFINED,
         AppTable' = [AppTable EXCEPT ![s] = e]
  PROVE  TableQuiet
<1>1. AppTable \in [Slots -> AppRecord]
  BY DEF AppInv, TypeOK
<1>2. /\ AppTable' \in [Slots -> AppRecord] /\ AppTable'[s] = e
      /\ \A t \in Slots : t # s => AppTable'[t] = AppTable[t]
  BY <1>1
<1> QED
  BY <1>2 DEF TableQuiet, QuietEntry

LEMMA QuietTaskChange ==
  ASSUME AppInv, NEW i \in Indexes, NEW k \in TaskRecord,
         \/ Used(i) /\ k.creator = task[i].creator /\ k.at \notin {"none", "leaving"}
         \/ ~Used(i) /\ k.at \in {"none", "leaving"},
         task' = [task EXCEPT ![i] = k]
  PROVE  TasksQuiet
<1>1. task \in [Indexes -> TaskRecord]
  BY DEF AppInv, TypeOK
<1>2. /\ task' \in [Indexes -> TaskRecord] /\ task'[i] = k
      /\ \A j \in Indexes : j # i => task'[j] = task[j]
  BY <1>1
<1> QED
  BY <1>2 DEF TasksQuiet, QuietTask

LEMMA QuietCreatorChange ==
  ASSUME AppInv, NEW p \in Creators, NEW r \in Creator, ~Creating(p),
         r.at \notin {"clean", "load", "start"}, r.at = "create" => r.name \in Apps,
         r.cursor <= NumSlots \/ p = "main", proc' = [proc EXCEPT ![p] = r]
  PROVE  ProcsQuiet
<1>1. proc \in [Creators -> Creator] /\ proc["ES"].cursor <= NumSlots
  BY DEF AppInv, TypeOK, CreatorsInv, Creators
<1>2. /\ proc' \in [Creators -> Creator] /\ proc'[p] = r
      /\ \A q \in Creators : q # p => proc'[q] = proc[q]
  BY <1>1
<1>3. proc'["ES"].cursor <= NumSlots
  BY <1>1, <1>2 DEF Creators
<1> QED
  BY <1>2, <1>3 DEF ProcsQuiet, QuietCreator

LEMMA QuietParts ==
  ASSUME AppInv, TableQuiet, TasksQuiet, ProcsQuiet,
         SystemState' \in CORE_READY .. OPERATIONAL,
         UNCHANGED <<TaskTable, modules, leaked, counts>>
  PROVE  AppInv'
BY QuietStep DEF Quiet, TableQuiet, TasksQuiet, ProcsQuiet

(* CFE_ES_SetAppState raises the state of a filled entry.                  *)
LEMMA StateRaised ==
  ASSUME AppInv, NEW s \in Slots, Filled(s), NEW x \in {LATE_INIT, RUNNING, STOPPED}
  PROVE  \E e \in AppRecord :
           /\ SetAppState(s, x) = [AppTable EXCEPT ![s] = e]
           /\ e.Name = AppTable[s].Name /\ e.Main = AppTable[s].Main
           /\ e.AppState # UNDEFINED
<1>1. /\ AppTable \in [Slots -> AppRecord] /\ AppTable[s] \in AppRecord
      /\ AppTable[s].AppState \in 0 .. 5 /\ AppTable[s].AppState # UNDEFINED
  BY TypeParts DEF AppInv, TypeOK, EntriesInv, UNDEFINED, STOPPED
<1>2. x \in {2, 3, 5}
  BY DEF LATE_INIT, RUNNING, STOPPED
<1>3. PICK y : y = IF AppTable[s].AppState >= x THEN AppTable[s].AppState ELSE x
  OBVIOUS
<1>4. y \in 0 .. 5 /\ y # UNDEFINED
  BY <1>1, <1>2, <1>3 DEF UNDEFINED
<1> DEFINE e == [AppTable[s] EXCEPT !.AppState = y]
<1>5. e \in AppRecord /\ e.Name = AppTable[s].Name /\ e.Main = AppTable[s].Main
      /\ e.AppState = y
  BY <1>1, <1>4 DEF AppRecord, UNDEFINED, STOPPED
<1>6. SetAppState(s, x) = [AppTable EXCEPT ![s] = e]
  BY <1>1, <1>3 DEF SetAppState
<1> HIDE DEF e
<1> QED
  BY <1>4, <1>5, <1>6

(* A request is a quiet change of the entry.                               *)
LEMMA RequestQuiet ==
  ASSUME AppInv, NEW s \in Slots, Filled(s), NEW req \in Requests,
         AppTable' = Requested(s, req)
  PROVE  TableQuiet
<1>1. AppTable \in [Slots -> AppRecord] /\ AppTable[s] \in AppRecord
  BY TypeParts DEF AppInv, TypeOK
<1> DEFINE e == [AppTable[s] EXCEPT !.Req = req, !.AppState = WAITING, !.Timer = KillTimeout]
<1>0. WAITING \in UNDEFINED .. STOPPED /\ WAITING # UNDEFINED
      /\ KillTimeout \in 0 .. KillTimeout
  BY ConstantsOK DEF UNDEFINED, STOPPED, WAITING
<1>2. e \in AppRecord /\ e.Name = AppTable[s].Name /\ e.Main = AppTable[s].Main
      /\ e.AppState # UNDEFINED
  BY <1>0, <1>1 DEF AppRecord
<1>3. AppTable' = [AppTable EXCEPT ![s] = e]
  BY <1>1 DEF Requested
<1> HIDE DEF e
<1> QED
  BY <1>2, <1>3, QuietEntryChange

(* An entry beyond its creation is filled.                                 *)
LEMMA BeyondCreation ==
  ASSUME AppInv, NEW s \in Slots, AppTable[s].AppState \notin {UNDEFINED, EARLY_INIT}
  PROVE  Filled(s)
<1> SUFFICES ASSUME ~Filled(s) PROVE FALSE
  OBVIOUS
<1>1. PICK p \in Creators : Creating(p) /\ proc[p].slot = s
  BY DEF AppInv, EntriesInv, Claimant
<1>2. AppTable[s] = [NoRecord EXCEPT !.AppState = EARLY_INIT]
  BY <1>1 DEF AppInv, CreatorsInv
<1> QED
  BY <1>2, RecordsOK

-----------------------------------------------------------------------------
(* The steps of the tasks.                                                 *)

LEMMA TaskAtChange ==
  ASSUME AppInv, NEW i \in Indexes, Used(i), NEW x \in TaskStates \ {"none", "leaving"},
         task' = [task EXCEPT ![i].at = x]
  PROVE  TasksQuiet
<1>1. task \in [Indexes -> TaskRecord] /\ task[i] \in TaskRecord
  BY TypeParts DEF AppInv, TypeOK
<1> DEFINE k == [task[i] EXCEPT !.at = x]
<1>2. k \in TaskRecord /\ k.at = x /\ k.creator = task[i].creator
  BY <1>1 DEF TaskRecord
<1>3. task' = [task EXCEPT ![i] = k]
  BY <1>1
<1> HIDE DEF k
<1> QED
  BY <1>2, <1>3, QuietTaskChange

LEMMA TaskWorkStep ==
  ASSUME AppInv, NEW i \in Indexes,
         WaitForSystemState(i) \/ WaitEnds(i)
           \/ (\E status \in RunStatuses : RunLoop(i, status)) \/ ExitApp(i)
  PROVE  AppInv'
<1>1. TypeOK /\ TasksInv
  BY DEF AppInv
<1>2. UNCHANGED <<TaskTable, modules, leaked, counts>> /\ SystemState' = SystemState
      /\ proc' = proc
  BY DEF WaitForSystemState, WaitEnds, RunLoop, ExitApp
<1>3. ProcsQuiet /\ SystemState' \in CORE_READY .. OPERATIONAL
  BY <1>1, <1>2, QuietSame DEF TypeOK
<1>4. Used(i)
  <2>1. CASE task[i].at \in {"sync", "leave"}
    BY <2>1, <1>1 DEF TasksInv
  <2>2. CASE May(i, "Sync") \/ May(i, "ChildExitApp") \/ \E status \in RunStatuses : May(i, status)
    BY <2>2 DEF May
  <2> QED
    BY <2>1, <2>2 DEF WaitForSystemState, WaitEnds, RunLoop, ExitApp
<1>5. PICK s \in Slots : s = SlotOf(i) /\ Filled(s)
  BY <1>4, TaskSlot DEF SlotOf
<1>6. CASE WaitForSystemState(i)
  <2>1. PICK min : AppTable' = StateDeclared(s, min)
    BY <1>5, <1>6 DEF WaitForSystemState
  <2>2. PICK x \in {LATE_INIT, RUNNING, STOPPED} : AppTable' = SetAppState(s, x)
    BY <2>1 DEF StateDeclared
  <2>3. TableQuiet
    BY <2>2, <1>5, StateRaised, QuietEntryChange
  <2>4. PICK y \in TaskStates \ {"none", "leaving"} : task' = [task EXCEPT ![i].at = y]
    <3>1. \E y \in {"sync", "run"} : task' = [task EXCEPT ![i].at = y]
      BY <1>6, Zenon DEF WaitForSystemState
    <3> QED
      BY <3>1 DEF TaskStates
  <2>5. TasksQuiet
    BY <2>4, <1>4, TaskAtChange
  <2> QED
    BY <2>3, <2>5, <1>2, <1>3, QuietParts
<1>7. CASE WaitEnds(i)
  <2>1. AppTable' = AppTable /\ task' = [task EXCEPT ![i].at = "run"]
    BY <1>7 DEF WaitEnds
  <2>2. TasksQuiet
    BY <2>1, <1>4, TaskAtChange DEF TaskStates
  <2> QED
    BY <2>1, <2>2, <1>2, <1>3, QuietSame, QuietParts
<1>8. ASSUME NEW status \in RunStatuses, RunLoop(i, status)
      PROVE  AppInv'
  <2>1. CASE status = "APP_RUN"
    <3>1. AppTable' = SetAppState(s, RUNNING)
      BY <2>1, <1>5, <1>8 DEF RunLoop
    <3>2. TableQuiet
      BY <3>1, <1>5, StateRaised, QuietEntryChange
    <3>3. \E x \in {"leave", "run"} : task' = [task EXCEPT ![i].at = x]
      BY <2>1, <1>8, Zenon DEF RunLoop
    <3>4. TasksQuiet
      BY <3>3, <1>4, TaskAtChange DEF TaskStates
    <3> QED
      BY <3>2, <3>4, <1>2, <1>3, QuietParts
  <2>2. CASE status # "APP_RUN"
    <3>1. AppTable' = [AppTable EXCEPT ![s].Req = status]
          /\ task' = [task EXCEPT ![i].at = "leave", ![i].status = status]
      BY <2>2, <1>5, <1>8 DEF RunLoop
    <3>2. AppTable \in [Slots -> AppRecord] /\ AppTable[s] \in AppRecord
          /\ AppTable[s].AppState # UNDEFINED
          /\ task \in [Indexes -> TaskRecord] /\ task[i] \in TaskRecord
      BY <1>5, TypeParts DEF AppInv, TypeOK, EntriesInv
    <3> DEFINE e == [AppTable[s] EXCEPT !.Req = status]
               k == [task[i] EXCEPT !.at = "leave", !.status = status]
    <3>3. e \in AppRecord /\ e.Name = AppTable[s].Name /\ e.Main = AppTable[s].Main
          /\ e.AppState # UNDEFINED
      BY <3>2 DEF AppRecord, Requests
    <3>4. k \in TaskRecord /\ k.at = "leave" /\ k.creator = task[i].creator
      BY <3>2 DEF TaskRecord, TaskStates
    <3>5. AppTable' = [AppTable EXCEPT ![s] = e] /\ task' = [task EXCEPT ![i] = k]
      BY <3>1, <3>2
    <3> HIDE DEF e, k
    <3>6. TableQuiet
      BY <3>3, <3>5, <1>5, QuietEntryChange
    <3>7. TasksQuiet
      BY <3>4, <3>5, <1>4, QuietTaskChange
    <3> QED
      BY <3>6, <3>7, <1>2, <1>3, QuietParts
  <2> QED
    BY <2>1, <2>2
<1>9. CASE ExitApp(i)
  <2>1. PICK req \in RunStatuses : req = ExitStatus(task[i].status)
    BY <1>1, TypeParts DEF ExitStatus, RunStatuses
  <2>2. PICK e \in AppRecord :
           /\ SetAppState(s, STOPPED) = [AppTable EXCEPT ![s] = e]
           /\ e.Name = AppTable[s].Name /\ e.Main = AppTable[s].Main
           /\ e.AppState # UNDEFINED
    BY <1>5, StateRaised
  <2>3. AppTable' = [[AppTable EXCEPT ![s] = e] EXCEPT ![s].Req = req]
        /\ task' = [task EXCEPT ![i].at = "sleep"]
    BY <2>1, <2>2, <1>5, <1>9 DEF ExitApp
  <2> DEFINE f == [e EXCEPT !.Req = req]
  <2>4. f \in AppRecord /\ f.Name = e.Name /\ f.Main = e.Main /\ f.AppState = e.AppState
    BY DEF AppRecord, Requests
  <2>5. AppTable' = [AppTable EXCEPT ![s] = f]
    <3>1. AppTable \in [Slots -> AppRecord]
      BY <1>1 DEF TypeOK
    <3> QED
      BY <3>1, <2>3
  <2> HIDE DEF f
  <2>6. TableQuiet
    BY <2>2, <2>4, <2>5, <1>5, QuietEntryChange
  <2>7. TasksQuiet
    BY <2>3, <1>4, TaskAtChange DEF TaskStates
  <2> QED
    BY <2>6, <2>7, <1>2, <1>3, QuietParts
<1> QED
  BY <1>6, <1>7, <1>8, <1>9

LEMMA TaskEndStep ==
  ASSUME AppInv, NEW i \in Indexes,
         \/ \E j \in Indexes : DeleteChildTask(i, j)
         \/ ExitChildTask(i) \/ TaskExit(i) \/ ProcessCoreException(i)
  PROVE  AppInv'
<1>1. TypeOK /\ EntriesInv /\ TasksInv
  BY DEF AppInv
<1>2. ASSUME NEW j \in Indexes, DeleteChildTask(i, j)
      PROVE  AppInv'
  <2>1. /\ Used(j) /\ task[j].creator = i
        /\ task' = [task EXCEPT ![j] = NoTask] /\ TaskTable' = [TaskTable EXCEPT ![j] = None]
        /\ counts' = [counts EXCEPT !.Tasks = @ - 1]
        /\ UNCHANGED <<AppTable, modules, leaked, SystemState, proc>>
    BY <1>2 DEF DeleteChildTask
  <2>2. ~IsMain(j)
    <3>1. TaskTable[j] \in Slots /\ Filled(TaskTable[j])
      BY <2>1, TaskSlot
    <3> QED
      BY <3>1, <2>1, <1>1, ConstantsOK DEF EntriesInv, IsMain, SlotOf
  <2> QED
    BY <2>1, <2>2, RecordsOK, EndChildStep
<1>3. CASE ExitChildTask(i)
  <2>1. /\ Used(i) /\ ~IsMain(i)
        /\ task' = [task EXCEPT ![i].at = "leaving"]
        /\ TaskTable' = [TaskTable EXCEPT ![i] = None]
        /\ counts' = [counts EXCEPT !.Tasks = @ - 1]
        /\ UNCHANGED <<AppTable, modules, leaked, SystemState, proc>>
    BY <1>3 DEF ExitChildTask, May
  <2> DEFINE k == [task[i] EXCEPT !.at = "leaving"]
  <2>2. task \in [Indexes -> TaskRecord] /\ task[i] \in TaskRecord
    BY <1>1, TypeParts DEF TypeOK
  <2>3. k \in TaskRecord /\ k.at = "leaving"
    BY <2>2 DEF TaskRecord, TaskStates
  <2>4. task' = [task EXCEPT ![i] = k]
    BY <2>1, <2>2
  <2> HIDE DEF k
  <2> QED
    BY <2>1, <2>3, <2>4, EndChildStep
<1>4. CASE TaskExit(i)
  <2>1. /\ task[i].at = "leaving" /\ task' = [task EXCEPT ![i] = NoTask]
        /\ UNCHANGED <<TaskTable, modules, leaked, counts>>
        /\ AppTable' = AppTable /\ SystemState' = SystemState /\ proc' = proc
    BY <1>4 DEF TaskExit
  <2>2. ~Used(i)
    BY <2>1, <1>1 DEF TasksInv
  <2>3. TasksQuiet
    BY <2>1, <2>2, RecordsOK, QuietTaskChange
  <2>4. SystemState' \in CORE_READY .. OPERATIONAL
    BY <2>1, <1>1 DEF TypeOK
  <2> QED
    BY <2>1, <2>3, <2>4, QuietSame, QuietParts
<1>5. CASE ProcessCoreException(i)
  <2>1. /\ Used(i) /\ task' = [task EXCEPT ![i].at = "faulted"]
        /\ AppTable' = ExceptionRequest(i)
        /\ UNCHANGED <<TaskTable, modules, leaked, counts>>
        /\ SystemState' = SystemState /\ proc' = proc
    BY <1>5 DEF ProcessCoreException, May
  <2>2. PICK s \in Slots : s = SlotOf(i) /\ Filled(s)
    BY <2>1, TaskSlot DEF SlotOf
  <2>3. TasksQuiet
    BY <2>1, TaskAtChange DEF TaskStates
  <2>4. TableQuiet
    <3>1. AppTable' = Requested(s, "SYS_RESTART") \/ AppTable' = AppTable
      BY <2>1, <2>2 DEF ExceptionRequest
    <3> QED
      BY <3>1, <2>2, RequestQuiet, QuietSame DEF Requests, SysRequests
  <2>5. SystemState' \in CORE_READY .. OPERATIONAL
    BY <2>1, <1>1 DEF TypeOK
  <2> QED
    BY <2>1, <2>3, <2>4, <2>5, QuietSame, QuietParts
<1> QED
  BY <1>2, <1>3, <1>4, <1>5

-----------------------------------------------------------------------------
(* The steps of the ground's commands, of the scan and of the start-up.    *)

LEMMA EnoughSlots == "ES" \in Creators /\ "main" \in Creators /\ 0 <= NumSlots
BY ConstantsOK DEF Creators

LEMMA CommandStep ==
  ASSUME AppInv, NEW a \in Apps,
         StartAppCmd(a) \/ StopAppCmd(a) \/ RestartAppCmd(a) \/ ReloadAppCmd(a)
  PROVE  AppInv'
<1>1. TypeOK /\ proc["ES"].at = "wait" /\ proc \in [Creators -> Creator]
      /\ proc["ES"] \in Creator /\ ~Creating("ES")
  BY TypeParts DEF AppInv, TypeOK, Creators, Creating, StartAppCmd, StopAppCmd, RestartAppCmd,
     ReloadAppCmd, RequestCmd
<1>2. UNCHANGED <<TaskTable, modules, leaked, counts>> /\ SystemState' = SystemState
      /\ task' = task
  BY DEF StartAppCmd, StopAppCmd, RestartAppCmd, ReloadAppCmd, RequestCmd
<1>3. TasksQuiet /\ SystemState' \in CORE_READY .. OPERATIONAL
  BY <1>1, <1>2, QuietSame DEF TypeOK
<1>4. CASE StartAppCmd(a)
  <2>1. AppTable' = AppTable
        /\ proc' = [proc EXCEPT !["ES"].at = "create", !["ES"].name = a, !["ES"].cursor = 0]
    BY <1>4 DEF StartAppCmd, Names
  <2> DEFINE r == [proc["ES"] EXCEPT !.at = "create", !.name = a, !.cursor = 0]
  <2>2. r \in Creator /\ r.at = "create" /\ r.name = a /\ r.cursor = 0
    BY <1>1 DEF Creator, Places
  <2>3. proc' = [proc EXCEPT !["ES"] = r]
    BY <2>1, <1>1
  <2> HIDE DEF r
  <2>4. ProcsQuiet
    BY <2>2, <2>3, <1>1, EnoughSlots, QuietCreatorChange
  <2> QED
    BY <2>1, <2>4, <1>2, <1>3, QuietSame, QuietParts
<1>5. ASSUME NEW cmd, NEW req \in SysRequests, RequestCmd(a, cmd, req)
      PROVE  AppInv'
  <2>1. PICK s \in SlotsOf(a) : AppTable' = Requested(s, req)
    BY <1>5 DEF RequestCmd
  <2>2. s \in Slots /\ Filled(s)
    BY ConstantsOK DEF SlotsOf, Filled
  <2>3. TableQuiet
    BY <2>1, <2>2, RequestQuiet DEF Requests
  <2>4. proc' = [proc EXCEPT !["ES"].at = "scan", !["ES"].cursor = 0]
    BY <1>5 DEF RequestCmd, Scan
  <2> DEFINE r == [proc["ES"] EXCEPT !.at = "scan", !.cursor = 0]
  <2>5. r \in Creator /\ r.at = "scan" /\ r.cursor = 0
    BY <1>1 DEF Creator, Places
  <2>6. proc' = [proc EXCEPT !["ES"] = r]
    BY <2>4, <1>1
  <2> HIDE DEF r
  <2>7. ProcsQuiet
    BY <2>5, <2>6, <1>1, EnoughSlots, QuietCreatorChange
  <2> QED
    BY <2>3, <2>7, <1>2, <1>3, QuietParts
<1> QED
  BY <1>4, <1>5 DEF StopAppCmd, RestartAppCmd, ReloadAppCmd, SysRequests

LEMMA ScanStep ==
  ASSUME AppInv, ScanTime \/ ScanAppTable
  PROVE  AppInv'
<1>1. /\ TypeOK /\ EntriesInv /\ NamesInv /\ TasksInv /\ CreatorsInv /\ LoadedInv
      /\ CountsInv
  BY DEF AppInv
<1>2. proc \in [Creators -> Creator] /\ proc["ES"] \in Creator /\ ~Creating("ES")
      /\ proc["ES"].cursor \in 0 .. NumSlots
  BY <1>1, TypeParts, ConstantsOK DEF TypeOK, Creators, Creating, CreatorsInv, ScanTime,
     ScanAppTable
<1>3. UNCHANGED <<TaskTable, modules, leaked, counts>> /\ SystemState' = SystemState
      /\ task' = task
  BY DEF ScanTime, ScanAppTable
<1>4. TasksQuiet /\ SystemState' \in CORE_READY .. OPERATIONAL
  BY <1>1, <1>3, QuietSame DEF TypeOK
<1>5. CASE ScanTime
  <2>1. AppTable' = AppTable /\ proc' = [proc EXCEPT !["ES"].at = "scan", !["ES"].cursor = 0]
    BY <1>5 DEF ScanTime, Scan
  <2> DEFINE r == [proc["ES"] EXCEPT !.at = "scan", !.cursor = 0]
  <2>2. r \in Creator /\ r.at = "scan" /\ r.cursor = 0
    BY <1>2 DEF Creator, Places
  <2>3. proc' = [proc EXCEPT !["ES"] = r]
    BY <2>1, <1>2
  <2> HIDE DEF r
  <2>4. ProcsQuiet
    BY <2>2, <2>3, <1>2, EnoughSlots, QuietCreatorChange
  <2> QED
    BY <2>1, <2>4, <1>3, <1>4, QuietSame, QuietParts
<1>6. CASE ScanAppTable
  <2>1. PICK s \in 0 .. NumSlots : s = proc["ES"].cursor
    BY <1>2
  <2>2. CASE s = NumSlots
    <3>1. proc' = [proc EXCEPT !["ES"] = IdleProc] /\ AppTable' = AppTable
      BY <2>1, <2>2, <1>6 DEF ScanAppTable
    <3>x. IdleProc \in Creator /\ IdleProc.at = "wait" /\ IdleProc.cursor = 0
      BY RecordsOK
    <3>2. ProcsQuiet
      BY <3>1, <1>2, <3>x, EnoughSlots, QuietCreatorChange
    <3> QED
      BY <3>1, <3>2, <1>3, <1>4, QuietSame, QuietParts
  <2>3. ASSUME s # NumSlots PROVE s \in Slots /\ s + 1 \in Nat /\ s + 1 <= NumSlots
    BY <2>3, ConstantsOK DEF Slots
  <2>4. CASE s # NumSlots /\ ~Due(s)
    <3>0. s \in Slots /\ s + 1 \in Nat /\ s + 1 <= NumSlots
      BY <2>3, <2>4
    <3>1. proc' = [proc EXCEPT !["ES"].cursor = s + 1] /\ AppTable' = TimerRun(s)
      BY <2>1, <2>4, <1>6 DEF ScanAppTable
    <3> DEFINE r == [proc["ES"] EXCEPT !.cursor = s + 1]
    <3>2. r \in Creator /\ r.at = proc["ES"].at /\ r.cursor = s + 1
      BY <3>0, <1>2 DEF Creator
    <3>3. proc' = [proc EXCEPT !["ES"] = r]
      BY <3>1, <1>2
    <3> HIDE DEF r
    <3>4. proc["ES"].at = "scan"
      BY <1>6 DEF ScanAppTable
    <3>5. ProcsQuiet
      BY <3>0, <3>2, <3>3, <3>4, <1>2, QuietCreatorChange DEF Creators
    <3>6. CASE AppTable[s].AppState = WAITING
      <4>1. AppTable' = [AppTable EXCEPT ![s].Timer = @ - 1]
        BY <3>1, <3>6 DEF TimerRun
      <4>2. Filled(s)
        BY <3>0, <3>6, BeyondCreation DEF WAITING, UNDEFINED, EARLY_INIT
      <4>3. AppTable \in [Slots -> AppRecord] /\ AppTable[s] \in AppRecord
            /\ AppTable[s].Timer \in 0 .. KillTimeout
        BY <3>0, <1>1, TypeParts DEF TypeOK
      <4>4. AppTable[s].Timer - 1 \in 0 .. KillTimeout
        BY <4>3, <3>6, <2>4, ConstantsOK DEF Due
      <4> DEFINE e == [AppTable[s] EXCEPT !.Timer = AppTable[s].Timer - 1]
      <4>5. e \in AppRecord /\ e.Name = AppTable[s].Name /\ e.Main = AppTable[s].Main
            /\ e.AppState = AppTable[s].AppState
        BY <4>3, <4>4 DEF AppRecord
      <4>6. AppTable' = [AppTable EXCEPT ![s] = e]
        BY <4>1, <4>3, <3>0
      <4> HIDE DEF e
      <4>7. AppTable[s].AppState # UNDEFINED
        BY <3>6 DEF WAITING, UNDEFINED
      <4>8. TableQuiet
        BY <4>2, <4>5, <4>6, <4>7, <3>0, QuietEntryChange
      <4> QED
        BY <4>8, <3>5, <1>3, <1>4, QuietParts
    <3>7. CASE AppTable[s].AppState # WAITING
      <4>1. AppTable' = AppTable
        BY <3>1, <3>7 DEF TimerRun
      <4> QED
        BY <4>1, <3>5, <1>3, <1>4, QuietSame, QuietParts
    <3> QED
      BY <3>6, <3>7
  <2>5. CASE s # NumSlots /\ Due(s)
    <3>0. s \in Slots /\ s + 1 \in Nat /\ s + 1 <= NumSlots
      BY <2>3, <2>5
    <3>1. /\ proc' = [proc EXCEPT !["ES"].at = "clean", !["ES"].slot = s,
                        !["ES"].cursor = s + 1, !["ES"].name = AppTable[s].Name,
                        !["ES"].req = AppTable[s].Req]
          /\ AppTable' = AppTable
      BY <2>1, <2>5, <1>6 DEF ScanAppTable
    <3>2. Filled(s)
      BY <3>0, <2>5, BeyondCreation DEF Due, WAITING, STOPPED, UNDEFINED, EARLY_INIT
    <3>3. AppTable[s].Name \in Apps /\ AppTable[s].Req \in Requests
      BY <3>0, <3>2, <1>1, TypeParts DEF Filled
    <3> DEFINE r == [proc["ES"] EXCEPT !.at = "clean", !.slot = s, !.cursor = s + 1,
                                       !.name = AppTable[s].Name, !.req = AppTable[s].Req]
    <3>4. r \in Creator /\ r.at = "clean" /\ r.slot = s /\ r.cursor = s + 1
          /\ r.name = AppTable[s].Name
      BY <3>0, <3>3, <1>2 DEF Creator, Places
    <3>5. proc' = [proc EXCEPT !["ES"] = r]
      BY <3>1, <1>2
    <3> HIDE DEF r
    <3>6. proc' \in [Creators -> Creator] /\ proc'["ES"] = r /\ proc'["main"] = proc["main"]
      BY <3>4, <3>5, <1>2 DEF Creators
    <3>7. TypeOK'
      BY <3>1, <3>6, <1>1, <1>3 DEF TypeOK, Creators
    <3>8. AppTable' = AppTable /\ task' = task /\ TaskTable' = TaskTable
          /\ modules' = modules /\ leaked' = leaked /\ counts' = counts
      BY <3>1, <1>3
    <3>9. EntriesInv'
      <4>1. \A t \in Slots : Claimant(t) => Claimant(t)'
        BY <3>6, <1>2 DEF Claimant, Creators, Creating
      <4> QED
        BY <4>1, <3>8, <1>1 DEF EntriesInv, Filled
    <3>10. NamesInv'
      BY <3>8, <1>1 DEF NamesInv, Filled
    <3>11. TasksInv'
      BY <3>8, <1>1 DEF TasksInv, Filled, Used
    <3>12. CreatorsInv'
      <4>1. ASSUME NEW q \in Creators
            PROVE  /\ proc'[q].at \in {"create", "load", "start"} => proc'[q] = proc[q]
                   /\ Creating(q)' => Creating(q) /\ proc'[q] = proc[q]
        BY <3>4, <3>6 DEF Creators, Creating
      <4>2. ASSUME NEW q \in Creators
            PROVE  /\ proc'[q].at \in {"create", "load", "start"} => proc'[q].name \in Apps
                   /\ Creating(q)' => AppTable'[proc'[q].slot] = ClaimedRecord
                   /\ proc'[q].at = "start" =>
                        /\ proc'[q].name \in modules' \ leaked'
                        /\ \A t \in Slots : AppTable'[t].Name # proc'[q].name
        BY <4>1, <3>8, <1>1 DEF CreatorsInv, ClaimedRecord
      <4>3. /\ ~Creating("ES")' /\ proc'["ES"].at # "start" /\ proc'["ES"].cursor <= NumSlots
            /\ AppTable'[proc'["ES"].slot].Name = proc'["ES"].name
            /\ proc'["ES"].name \in Apps
        BY <3>0, <3>3, <3>4, <3>6, <3>8 DEF Creating
      <4> QED
        BY <4>2, <4>3 DEF CreatorsInv, ClaimedRecord
    <3>13. LoadedInv'
      <4>1. \A q \in Creators : proc[q].at = "start" => proc'[q] = proc[q]
        BY <3>6, <1>2 DEF Creators, Creating
      <4> QED
        BY <4>1, <3>8, <1>1 DEF LoadedInv
    <3>14. CountsInv'
      <4>1. UsedIndexes' = UsedIndexes /\ FilledSlots' = FilledSlots
        BY <3>8 DEF UsedIndexes, FilledSlots, Used, Filled
      <4> QED
        BY <4>1, <3>8, <1>1 DEF CountsInv
    <3> QED
      BY <3>7, <3>9, <3>10, <3>11, <3>12, <3>13, <3>14 DEF AppInv
  <2> QED
    BY <2>2, <2>4, <2>5
<1> QED
  BY <1>5, <1>6

LEMMA StartupStep ==
  ASSUME AppInv, StartApplications \/ MainTaskSyncDelay
  PROVE  AppInv'
<1>1. TypeOK /\ proc \in [Creators -> Creator] /\ proc["main"] \in Creator
      /\ ~Creating("main")
  BY TypeParts DEF AppInv, TypeOK, Creators, Creating, StartApplications, MainTaskSyncDelay
<1>2. UNCHANGED <<TaskTable, modules, leaked, counts>> /\ AppTable' = AppTable /\ task' = task
  BY DEF StartApplications, MainTaskSyncDelay
<1>3. TasksQuiet /\ TableQuiet
  BY <1>2, QuietSame
<1>4. ASSUME NEW x \in {"sync", "done"}, proc' = [proc EXCEPT !["main"].at = x]
      PROVE  ProcsQuiet
  <2> DEFINE r == [proc["main"] EXCEPT !.at = x]
  <2>1. r \in Creator /\ r.at = x
    BY <1>1 DEF Creator, Places
  <2>2. proc' = [proc EXCEPT !["main"] = r]
    BY <1>1, <1>4
  <2> HIDE DEF r
  <2> QED
    BY <2>1, <2>2, <1>1, QuietCreatorChange DEF Creators
<1>5. CASE StartApplications
  <2>1. SystemState' \in CORE_READY .. OPERATIONAL
    BY <1>1, <1>5 DEF StartApplications, TypeOK
  <2>2. PICK n : n = proc["main"].cursor + 1
    OBVIOUS
  <2>3. n \in Nat \ {0}
    BY <2>2, <1>1 DEF Creator
  <2>4. CASE n <= Len(Startup)
    <3>1. PICK a : a = Startup[n]
      OBVIOUS
    <3>2. a \in Apps
      <4>1. Startup \in Seq(Apps)
        BY LifeCycleAssumption
      <4>2. n \in 1 .. Len(Startup)
        BY <4>1, <2>3, <2>4
      <4> QED
        BY <4>1, <4>2, <3>1
    <3>3. proc' = [proc EXCEPT !["main"].at = "create", !["main"].name = a,
                               !["main"].cursor = n]
      BY <3>1, <2>2, <2>4, <1>5 DEF StartApplications, Names
    <3> DEFINE r == [proc["main"] EXCEPT !.at = "create", !.name = a, !.cursor = n]
    <3>4. r \in Creator /\ r.at = "create" /\ r.name = a
      BY <3>2, <2>3, <1>1 DEF Creator, Places
    <3>5. proc' = [proc EXCEPT !["main"] = r]
      BY <3>3, <1>1
    <3> HIDE DEF r
    <3>6. ProcsQuiet
      BY <3>2, <3>4, <3>5, <1>1, QuietCreatorChange DEF Creators
    <3> QED
      BY <3>6, <2>1, <1>2, <1>3, QuietParts
  <2>5. CASE ~(n <= Len(Startup))
    <3>1. proc' = [proc EXCEPT !["main"].at = "sync"]
      BY <2>2, <2>5, <1>5 DEF StartApplications
    <3> QED
      BY <3>1, <2>1, <1>2, <1>3, <1>4, QuietParts
  <2> QED
    BY <2>4, <2>5
<1>6. CASE MainTaskSyncDelay
  <2>1. SystemState' \in CORE_READY .. OPERATIONAL
    BY <1>1, <1>6 DEF MainTaskSyncDelay, TypeOK, CORE_READY, APPS_INIT, OPERATIONAL
  <2>2. proc' = [proc EXCEPT !["main"].at = "done"] \/ proc' = proc
    BY <1>6 DEF MainTaskSyncDelay
  <2>3. ProcsQuiet
    BY <2>2, <1>4, QuietSame
  <2> QED
    BY <2>1, <2>3, <1>2, <1>3, QuietParts
<1> QED
  BY <1>5, <1>6

-----------------------------------------------------------------------------
(* The steps of CFE_ES_AppCreate.                                          *)

LEMMA CreatedRecord ==
  ASSUME AppInv, NEW p \in Creators
  PROVE  \E r \in Creator :
           /\ Created(p) = [proc EXCEPT ![p] = r] /\ r.at \in {"scan", "wait"}
           /\ r.cursor <= NumSlots \/ p = "main"
<1>1. proc[p].cursor \in Nat /\ (proc[p].cursor <= NumSlots \/ p = "main")
  BY TypeParts DEF AppInv, CreatorsInv, Creators
<1>2. PICK x \in {"scan", "wait"} : x = IF p = "ES" THEN "scan" ELSE "wait"
  OBVIOUS
<1> DEFINE r == [IdleProc EXCEPT !.cursor = proc[p].cursor, !.at = x]
<1>3. r \in Creator /\ r.at = x /\ r.cursor = proc[p].cursor
  BY <1>1, ConstantsOK DEF Creator, Places, Requests, IdleProc
<1>4. Created(p) = [proc EXCEPT ![p] = r]
  BY <1>2 DEF Created
<1> HIDE DEF r
<1> QED
  BY <1>1, <1>3, <1>4

LEMMA ClaimStep ==
  ASSUME AppInv, NEW p \in Creators, AppCreateClaim(p)
  PROVE  AppInv'
<1>1. TypeOK /\ EntriesInv /\ CreatorsInv
  BY DEF AppInv
<1>2. /\ proc[p].at = "create" /\ ~Creating(p) /\ proc[p].name \in Apps
      /\ proc[p] \in Creator /\ proc \in [Creators -> Creator]
  BY <1>1, TypeParts DEF AppCreateClaim, Creating, CreatorsInv, TypeOK, Creators
<1>3. UNCHANGED <<TaskTable, task, counts, SystemState>> /\ modules' = modules
      /\ leaked' = leaked
  BY DEF AppCreateClaim
<1>4. CASE FreeSlots = {}
  <2>1. proc' = Created(p) /\ AppTable' = AppTable
    BY <1>4 DEF AppCreateClaim
  <2>2. ProcsQuiet
    BY <2>1, <1>2, CreatedRecord, QuietCreatorChange
  <2>3. SystemState' \in CORE_READY .. OPERATIONAL
    BY <1>1, <1>3 DEF TypeOK
  <2> QED
    BY <2>1, <2>2, <2>3, <1>3, QuietSame, QuietParts
<1>5. CASE FreeSlots # {}
  <2>1. PICK s : s = Min(FreeSlots)
    OBVIOUS
  <2>2. s \in Slots /\ AppTable[s].AppState = UNDEFINED
    <3>1. FreeSlots \subseteq Nat
      BY ConstantsOK DEF FreeSlots
    <3>2. s \in FreeSlots
      BY <3>1, <2>1, <1>5, LeastExists
    <3> QED
      BY <3>2 DEF FreeSlots
  <2>3. ~Filled(s)
    BY <2>2, <1>1 DEF EntriesInv
  <2>4. AppTable' = [AppTable EXCEPT ![s] = ClaimedRecord]
        /\ proc' = [proc EXCEPT ![p].at = "load", ![p].slot = s]
    BY <2>1, <1>5 DEF AppCreateClaim, Claimed, ClaimedRecord
  <2> DEFINE r == [proc[p] EXCEPT !.at = "load", !.slot = s]
  <2>5. r \in Creator /\ r.at = "load" /\ r.slot = s /\ r.name = proc[p].name
        /\ r.cursor = proc[p].cursor
    BY <2>2, <1>2 DEF Creator, Places
  <2>6. proc' = [proc EXCEPT ![p] = r]
    BY <2>4, <1>2
  <2> HIDE DEF r
  <2>7. ClaimedRecord \in AppRecord /\ ClaimedRecord.Name = NoApp
        /\ ClaimedRecord.AppState # UNDEFINED
    BY RecordsOK DEF ClaimedRecord, EARLY_INIT, UNDEFINED
  <2>8. OwnsOnly(p, s)
    BY <2>2, <2>7, <1>1, <1>2 DEF OwnsOnly, CreatorsInv, ClaimedRecord
  <2>9. Goes(r, ClaimedRecord, s)
    BY <2>5, <1>2 DEF Goes
  <2>10. r.cursor <= NumSlots \/ p = "main"
    BY <2>5, <1>1 DEF CreatorsInv, Creators
  <2>11. ModulesMove(p, r) /\ modules' \subseteq Apps /\ leaked' \subseteq modules'
    BY <2>5, <1>1, <1>2, <1>3 DEF ModulesMove, TypeOK
  <2> QED
    BY <2>2, <2>3, <2>4, <2>5, <2>6, <2>7, <2>8, <2>9, <2>10, <2>11, <1>2, <1>3, UnfilledStep
<1> QED
  BY <1>4, <1>5

(* What a creator holds while it creates.                                  *)
LEMMA CreatorHolds ==
  ASSUME AppInv, NEW p \in Creators, Creating(p)
  PROVE  /\ proc[p].slot \in Slots /\ AppTable[proc[p].slot] = ClaimedRecord
         /\ ~Filled(proc[p].slot) /\ OwnsOnly(p, proc[p].slot)
         /\ proc[p].name \in Apps /\ proc[p] \in Creator /\ proc \in [Creators -> Creator]
         /\ proc[p].cursor <= NumSlots \/ p = "main"
<1>1. TypeOK /\ CreatorsInv
  BY DEF AppInv
<1>2. /\ proc[p].slot \in Slots /\ AppTable[proc[p].slot] = ClaimedRecord
      /\ proc[p].name \in Apps /\ proc[p] \in Creator /\ proc \in [Creators -> Creator]
      /\ proc[p].cursor <= NumSlots \/ p = "main"
  BY <1>1, TypeParts DEF CreatorsInv, Creators, Creating, ClaimedRecord, TypeOK
<1>3. ~Filled(proc[p].slot)
  BY <1>2, RecordsOK DEF Filled, ClaimedRecord
<1>4. OwnsOnly(p, proc[p].slot)
  BY <1>1 DEF OwnsOnly, CreatorsInv, Creators
<1> QED
  BY <1>2, <1>3, <1>4

LEMMA LoadStep ==
  ASSUME AppInv, NEW p \in Creators, AppCreateLoad(p)
  PROVE  AppInv'
<1>1. TypeOK /\ CreatorsInv
  BY DEF AppInv
<1>2. proc[p].at = "load" /\ Creating(p)
  BY DEF AppCreateLoad, Creating
<1>3. PICK s : s = proc[p].slot
  OBVIOUS
<1>4. /\ s \in Slots /\ AppTable[s] = ClaimedRecord /\ ~Filled(s) /\ OwnsOnly(p, s)
      /\ proc[p].name \in Apps /\ proc[p] \in Creator /\ proc \in [Creators -> Creator]
      /\ proc[p].cursor <= NumSlots \/ p = "main"
  BY <1>2, <1>3, CreatorHolds
<1>5. UNCHANGED <<TaskTable, task, counts, SystemState>> /\ leaked' = leaked
  BY DEF AppCreateLoad
<1>6. modules \subseteq Apps /\ leaked \subseteq modules /\ AppTable \in [Slots -> AppRecord]
  BY <1>1 DEF TypeOK
<1>7. ClaimedRecord \in AppRecord /\ ClaimedRecord.Name = NoApp
  BY RecordsOK DEF ClaimedRecord
<1>8. ASSUME proc[p].name \notin modules, modules' = modules \cup {proc[p].name},
             proc' = [proc EXCEPT ![p].at = "start"], AppTable' = AppTable
      PROVE  AppInv'
  <2> DEFINE r == [proc[p] EXCEPT !.at = "start"]
  <2>1. r \in Creator /\ r.at = "start" /\ r.slot = s /\ r.name = proc[p].name
        /\ r.cursor = proc[p].cursor
    BY <1>3, <1>4 DEF Creator, Places
  <2>2. proc' = [proc EXCEPT ![p] = r]
    BY <1>4, <1>8
  <2> HIDE DEF r
  <2>3. AppTable' = [AppTable EXCEPT ![s] = ClaimedRecord]
    BY <1>4, <1>6, <1>8
  <2>4. Goes(r, ClaimedRecord, s)
    BY <2>1, <1>4 DEF Goes
  <2>5. ModulesMove(p, r) /\ modules' \subseteq Apps /\ leaked' \subseteq modules'
    BY <2>1, <1>2, <1>4, <1>5, <1>6, <1>8 DEF ModulesMove
  <2>6. r.cursor <= NumSlots \/ p = "main"
    BY <2>1, <1>4
  <2> QED
    BY <2>1, <2>2, <2>3, <2>4, <2>5, <2>6, <1>2, <1>4, <1>5, <1>7, <1>8, UnfilledStep
<1>9. ASSUME AppTable' = [AppTable EXCEPT ![s] = NoRecord], proc' = Created(p),
             modules' = modules
      PROVE  AppInv'
  <2>1. PICK r \in Creator : /\ proc' = [proc EXCEPT ![p] = r] /\ r.at \in {"scan", "wait"}
                             /\ r.cursor <= NumSlots \/ p = "main"
    BY <1>9, CreatedRecord
  <2>2. Goes(r, NoRecord, s)
    BY <2>1, RecordsOK DEF Goes
  <2>3. ModulesMove(p, r) /\ modules' \subseteq Apps /\ leaked' \subseteq modules'
    BY <2>1, <1>2, <1>5, <1>6, <1>9 DEF ModulesMove
  <2>4. NoRecord \in AppRecord /\ NoRecord.Name = NoApp
    BY RecordsOK
  <2> QED
    BY <2>1, <2>2, <2>3, <2>4, <1>2, <1>4, <1>5, <1>9, UnfilledStep
<1> QED
  BY <1>3, <1>8, <1>9 DEF AppCreateLoad

LEMMA StartStep ==
  ASSUME AppInv, NEW p \in Creators, AppCreateStart(p)
  PROVE  AppInv'
<1>1. TypeOK /\ CreatorsInv
  BY DEF AppInv
<1>2. proc[p].at = "start" /\ Creating(p)
  BY DEF AppCreateStart, Creating
<1>3. PICK s : s = proc[p].slot
  OBVIOUS
<1>4. /\ s \in Slots /\ AppTable[s] = ClaimedRecord /\ ~Filled(s) /\ OwnsOnly(p, s)
      /\ proc[p].name \in Apps /\ proc[p] \in Creator /\ proc \in [Creators -> Creator]
      /\ proc[p].cursor <= NumSlots \/ p = "main"
  BY <1>2, <1>3, CreatorHolds
<1>5. modules' = modules /\ SystemState' = SystemState /\ proc' = Created(p)
  BY DEF AppCreateStart
<1>6. PICK r \in Creator : /\ proc' = [proc EXCEPT ![p] = r] /\ r.at \in {"scan", "wait"}
                           /\ r.cursor <= NumSlots \/ p = "main"
  BY <1>5, CreatedRecord
<1>7. CASE FreeIndexes # {}
  <2>1. /\ TaskCreate(None, s)
        /\ AppTable' = [AppTable EXCEPT ![s] =
             [AppTable[s] EXCEPT !.Name = proc[p].name, !.Req = "APP_RUN",
                                 !.Timer = 0, !.Main = NewTask]]
        /\ counts' = [Tasks |-> counts.Tasks + 1, Apps |-> counts.Apps + 1]
        /\ leaked' = leaked
    BY <1>3, <1>7 DEF AppCreateStart
  <2>2. NewTask \in Indexes
    BY <2>1, <1>4, <1>7, TaskCreated DEF AppInv
  <2> DEFINE e == [AppTable[s] EXCEPT !.Name = proc[p].name, !.Req = "APP_RUN",
                                      !.Timer = 0, !.Main = NewTask]
  <2>3. /\ ClaimedRecord \in AppRecord /\ ClaimedRecord.AppState # UNDEFINED
        /\ 0 \in 0 .. KillTimeout
    BY RecordsOK, ConstantsOK DEF ClaimedRecord, EARLY_INIT, UNDEFINED
  <2>4. e \in AppRecord /\ e.AppState # UNDEFINED /\ e.Name = proc[p].name /\ e.Main = NewTask
    BY <2>2, <2>3, <1>4 DEF AppRecord, Requests, RunStatuses
  <2>5. AppTable' = [AppTable EXCEPT ![s] = e]
    BY <2>1
  <2>6. UNCHANGED <<modules, leaked, SystemState>>
    BY <2>1, <1>5
  <2>7. proc' = [proc EXCEPT ![p] = r] /\ r.at \in {"scan", "wait"}
        /\ (r.cursor <= NumSlots \/ p = "main")
    BY <1>6
  <2>8. TaskCreate(None, s) /\ counts' = [Tasks |-> counts.Tasks + 1, Apps |-> counts.Apps + 1]
    BY <2>1
  <2> HIDE DEF e
  <2> QED
    BY <2>4, <2>5, <2>6, <2>7, <2>8, <1>2, <1>3, <1>4, <1>7, FillStep
<1>8. CASE FreeIndexes = {}
  <2>1. /\ AppTable' = [AppTable EXCEPT ![s] = NoRecord]
        /\ leaked' = leaked \cup {proc[p].name}
        /\ UNCHANGED <<TaskTable, task, counts, SystemState>>
    BY <1>3, <1>5, <1>8 DEF AppCreateStart
  <2>2. Goes(r, NoRecord, s)
    BY <1>6, RecordsOK DEF Goes
  <2>3. proc[p].name \in modules
    BY <1>1, <1>2 DEF CreatorsInv
  <2>4. ModulesMove(p, r) /\ modules' \subseteq Apps /\ leaked' \subseteq modules'
    BY <2>1, <2>3, <1>1, <1>2, <1>5, <1>6 DEF ModulesMove, TypeOK
  <2>5. NoRecord \in AppRecord /\ NoRecord.Name = NoApp
    BY RecordsOK
  <2> QED
    BY <2>1, <2>2, <2>4, <2>5, <1>2, <1>4, <1>6, UnfilledStep
<1> QED
  BY <1>7, <1>8

-----------------------------------------------------------------------------
LEMMA AppInit ==
  ASSUME Init
  PROVE  AppInv
<1>1. AppTable = [s \in Slots |-> NoRecord] /\ TaskTable = [i \in Indexes |-> None]
      /\ task = [i \in Indexes |-> NoTask] /\ proc = [p \in Creators |-> IdleProc]
      /\ modules = {} /\ leaked = {} /\ counts = [Tasks |-> 0, Apps |-> 0]
      /\ SystemState = CORE_READY
  BY DEF Init, Creators
<1>2. TypeOK
  BY <1>1, RecordsOK DEF TypeOK, Creators, CORE_READY, OPERATIONAL
<1>3. \A s \in Slots : ~Filled(s) /\ AppTable[s].AppState = UNDEFINED
                       /\ AppTable[s].Name = NoApp
  BY <1>1, RecordsOK DEF Filled
<1>4. EntriesInv /\ NamesInv
  BY <1>3 DEF EntriesInv, NamesInv
<1>5. \A i \in Indexes : ~Used(i) /\ task[i].at = "none"
  BY <1>1, RecordsOK DEF Used
<1>6. TasksInv
  BY <1>5 DEF TasksInv
<1>7. \A p \in Creators : proc[p].at = "wait" /\ proc[p].cursor = 0
  BY <1>1, RecordsOK
<1>8. CreatorsInv
  BY <1>7, EnoughSlots DEF CreatorsInv, Creating
<1>9. LoadedInv
  BY <1>1 DEF LoadedInv
<1>10. UsedIndexes = {} /\ FilledSlots = {}
  BY <1>3, <1>5 DEF UsedIndexes, FilledSlots
<1>11. CountsInv
  BY <1>1, <1>10, FS_EmptySet DEF CountsInv
<1> QED
  BY <1>2, <1>4, <1>6, <1>8, <1>9, <1>11 DEF AppInv

LEMMA AppNext ==
  ASSUME AppInv, [Next]_vars
  PROVE  AppInv'
<1>1. CASE UNCHANGED vars
  <2>1. AppTable' = AppTable /\ task' = task /\ proc' = proc /\ SystemState' = SystemState
        /\ UNCHANGED <<TaskTable, modules, leaked, counts>>
    BY <1>1 DEF vars
  <2>2. SystemState' \in CORE_READY .. OPERATIONAL
    BY <2>1 DEF AppInv, TypeOK
  <2> QED
    BY <2>1, <2>2, QuietSame, QuietParts
<1>2. CASE ESWork
  BY <1>2, EnoughSlots, ClaimStep, LoadStep, StartStep, ScanStep, CleanUpStep
     DEF ESWork, AppCreate
<1>3. CASE StartupWork
  BY <1>3, EnoughSlots, ClaimStep, LoadStep, StartStep, StartupStep DEF StartupWork, AppCreate
<1>4. CASE \E a \in Apps :
             StartAppCmd(a) \/ StopAppCmd(a) \/ RestartAppCmd(a) \/ ReloadAppCmd(a)
  BY <1>4, CommandStep
<1>5. ASSUME NEW i \in Indexes,
             TaskWork(i) \/ \E status \in RunStatuses \ {"APP_RUN"} : RunLoop(i, status)
      PROVE  AppInv'
  <2>1. WaitForSystemState(i) \/ WaitEnds(i)
          \/ (\E status \in RunStatuses : RunLoop(i, status)) \/ ExitApp(i)
    BY <1>5 DEF TaskWork, RunStatuses
  <2> QED
    BY <2>1, TaskWorkStep
<1>6. ASSUME NEW i \in Indexes,
             \/ CreateChildTask(i) \/ \E j \in Indexes : DeleteChildTask(i, j)
             \/ ExitChildTask(i) \/ TaskExit(i) \/ ProcessCoreException(i)
      PROVE  AppInv'
  BY <1>6, CreateChildStep, TaskEndStep
<1> QED
  BY <1>1, <1>2, <1>3, <1>4, <1>5, <1>6 DEF Next

(* The inductive invariant holds in every state, however the ES task, the  *)
(* start-up thread and the applications' tasks interleave (cfe_es_apps.c). *)
THEOREM AppInvariance == Spec => []AppInv
<1>1. Init => AppInv
  BY AppInit
<1>2. AppInv /\ [Next]_vars => AppInv'
  BY AppNext
<1> QED
  BY <1>1, <1>2, PTL DEF Spec

LEMMA InvTablesAgree ==
  ASSUME AppInv
  PROVE  TablesAgree
<1>1. TypeOK /\ EntriesInv /\ TasksInv /\ LoadedInv /\ CountsInv
  BY DEF AppInv
<1>2. TasksRegistered
  <2> SUFFICES ASSUME NEW i \in Indexes
               PROVE  IF Used(i)
                      THEN Live(i) /\ AppTable[TaskTable[i]].AppState # UNDEFINED
                      ELSE ~Live(i) \/ task[i].at = "leaving"
    BY DEF TasksRegistered
  <2>1. CASE Used(i)
    BY <2>1, TaskSlot, ConstantsOK DEF Live
  <2>2. CASE ~Used(i)
    BY <2>2, <1>1 DEF TasksInv, Live
  <2> QED
    BY <2>1, <2>2
<1>3. CountsExact
  <2>1. FilledSlots = {s \in Slots : AppTable[s].AppState # UNDEFINED /\ AppTable[s].Name # NoApp}
    BY <1>1 DEF FilledSlots, Filled, EntriesInv
  <2>2. UsedIndexes = {i \in Indexes : Used(i)}
    BY DEF UsedIndexes
  <2> QED
    BY <2>1, <2>2, <1>1 DEF CountsExact, CountsInv
<1>4. ModulesOwned
  <2> SUFFICES ASSUME NEW a \in modules \ leaked,
                      ~ \E p \in {"ES", "main"} : proc[p].at = "start" /\ proc[p].name = a
               PROVE  SlotsOf(a) # {}
    BY DEF ModulesOwned
  <2>1. PICK s \in Slots : AppTable[s].Name = a
    BY <1>1 DEF LoadedInv, Creators
  <2>2. Filled(s)
    BY <2>1, <1>1, ConstantsOK DEF Filled, TypeOK
  <2> QED
    BY <2>1, <2>2, <1>1 DEF SlotsOf, EntriesInv
<1> QED
  BY <1>1, <1>2, <1>3, <1>4 DEF TablesAgree

(* The application table, the task table, the loaded modules and the       *)
(* counters agree in every state: creations that fail, exits, exceptions   *)
(* and clean-ups that fail half-way leave no record, task, count or module *)
(* behind, whatever the applications do (CFE_ES_AppCreate,                 *)
(* CFE_ES_CleanUpApp).                                                     *)
THEOREM TablesAlwaysAgree == Spec => []TablesAgree
<1>1. AppInv => TablesAgree
  BY InvTablesAgree
<1> QED
  BY <1>1, AppInvariance, PTL

(* No name is in the application table twice and no entry is filled by two *)
(* creators, although the check for a loaded module and the entry's        *)
(* completion are not under one lock (CFE_ES_AppCreate by the ES task and  *)
(* by the start-up thread).                                                *)
THEOREM SlotsAlwaysExclusive == Spec => []SlotsExclusive
<1>1. ASSUME AppInv PROVE SlotsExclusive
  <2>1. ASSUME NEW a \in Apps PROVE Cardinality(SlotsOf(a)) <= 1
    <3>1. \A s \in SlotsOf(a) : s \in Slots /\ Filled(s) /\ AppTable[s].Name = a
      BY ConstantsOK DEF SlotsOf, Filled
    <3>2. CASE SlotsOf(a) = {}
      BY <3>2, FS_EmptySet
    <3>3. CASE SlotsOf(a) # {}
      <4>1. PICK s \in SlotsOf(a) : TRUE
        BY <3>3
      <4>2. \A t \in SlotsOf(a) : t = s
        BY <3>1, <4>1, <1>1 DEF AppInv, NamesInv
      <4>3. SlotsOf(a) = {s}
        BY <4>1, <4>2
      <4> QED
        BY <4>3, FS_Singleton
    <3> QED
      BY <3>2, <3>3
  <2>2. proc["ES"].at \in {"load", "start"} /\ proc["main"].at \in {"load", "start"}
          => proc["ES"].slot # proc["main"].slot
    BY <1>1 DEF AppInv, CreatorsInv, Creating
  <2> QED
    BY <2>1, <2>2 DEF SlotsExclusive
<1> QED
  BY <1>1, AppInvariance, PTL

(* An entry that is taken and holds no application is being filled: a      *)
(* creation that fails gives its entry back (CFE_ES_AppCreate), so the     *)
(* table never loses an entry.                                             *)
NoEntryLost ==
  \A s \in Slots :
    AppTable[s].AppState # UNDEFINED /\ AppTable[s].Name = NoApp =>
      \E p \in {"ES", "main"} : proc[p].at \in {"load", "start"} /\ proc[p].slot = s

(* NoEntryLost holds in every state (CFE_ES_AppCreate).                    *)
THEOREM EntriesGivenBack == Spec => []NoEntryLost
<1>1. ASSUME AppInv PROVE NoEntryLost
  BY <1>1 DEF AppInv, EntriesInv, NoEntryLost, Filled, Claimant, Creators, Creating
<1> QED
  BY <1>1, AppInvariance, PTL
=============================================================================

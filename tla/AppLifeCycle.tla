---------------------------- MODULE AppLifeCycle ----------------------------
(***************************************************************************)
(* How Executive Services starts, stops and restarts applications           *)
(* (cfe_es_apps.c, cfe_es_api.c, cfe_es_start.c, cfe_es_task.c).  The ES    *)
(* task serves the ground's commands and scans the application table after  *)
(* each; the start-up thread creates the applications of the start-up       *)
(* script and leads them through the phases of the start-up.  Both create   *)
(* applications, while the tasks of the applications run.  The entries of   *)
(* the core applications, which no request is accepted for, are left out.   *)
(* A task is its index; what an unused entry still holds is cleared, because *)
(* it is not read again.                                                    *)
(***************************************************************************)
EXTENDS Integers, FiniteSets, Sequences, FiniteSetsExt

CONSTANTS
  Apps,         \* application names; a name stands for its file and entry too
  Startup,      \* sequence of names: the start-up script
  Commands,     \* the ground's commands, pairs of a command and a name
  Uses,         \* name -> the calls its tasks make, see May
  Syncs,        \* name -> the system states its main task waits for, in turn
  NumSlots,     \* entries of AppTable for external applications
  MaxTasks,     \* OS_MAX_TASKS
  KillTimeout,  \* CFE_PLATFORM_ES_APP_KILL_TIMEOUT
  LoadFails,    \* names whose module may fail to load
  NoApp

ASSUME LifeCycleAssumption ==
  /\ NoApp \notin Apps /\ LoadFails \subseteq Apps
  /\ Startup \in Seq(Apps)
  /\ Commands \subseteq {"Start", "Stop", "Restart", "Reload"} \X Apps
  /\ NumSlots \in Nat \ {0} /\ MaxTasks \in Nat \ {0}
  /\ KillTimeout \in Nat

Slots == 0 .. NumSlots - 1
Indexes == 0 .. MaxTasks - 1
None == -1

(* CFE_ES_AppState_* and CFE_ES_SystemState_*, in their order.             *)
UNDEFINED == 0
EARLY_INIT == 1
LATE_INIT == 2
RUNNING == 3
WAITING == 4
STOPPED == 5
CORE_READY == 3
APPS_INIT == 4
OPERATIONAL == 5

RunStatuses == {"APP_RUN", "APP_EXIT", "APP_ERROR"}
SysRequests == {"SYS_RESTART", "SYS_RELOAD", "SYS_DELETE"}

VARIABLES
  AppTable,     \* slot -> [AppState, Name, Req, Timer, Main]
  TaskTable,    \* index -> AppId of the record, None when it is not used
  task,         \* index -> the OSAL task there: [at, creator, status]
  modules,      \* names of the modules that are loaded
  leaked,       \* those whose application's main task could not be created
  counts,       \* [Tasks, Apps]: RegisteredTasks, RegisteredExternalApps
  SystemState,
  proc          \* "ES", "main" -> [at, cursor, slot, name, req]

vars == <<AppTable, TaskTable, task, modules, leaked, counts, SystemState, proc>>

NoRecord == [AppState |-> UNDEFINED, Name |-> NoApp, Req |-> "UNDEFINED",
             Timer |-> 0, Main |-> None]
NoTask == [at |-> "none", creator |-> None, status |-> "APP_RUN"]
IdleProc == [at |-> "wait", cursor |-> 0, slot |-> 0, name |-> NoApp,
             req |-> "UNDEFINED"]

(* CFE_ES_AppRecord_t, CFE_ES_TaskRecord_t and the places of the creators.  *)
Requests == RunStatuses \cup SysRequests \cup {"UNDEFINED"}
AppRecord == [AppState : UNDEFINED .. STOPPED, Name : Apps \cup {NoApp},
              Req : Requests, Timer : 0 .. KillTimeout, Main : Indexes \cup {None}]
TaskStates == {"none", "init", "sync", "run", "leave", "sleep", "faulted", "leaving"}
TaskRecord == [at : TaskStates, creator : Indexes \cup {None}, status : RunStatuses]
Places == {"wait", "scan", "clean", "create", "load", "start", "sync", "done"}
Creator == [at : Places, cursor : Nat, slot : Slots, name : Apps \cup {NoApp},
            req : Requests]

(* The type invariant: the two tables, the counters that do not wrap and the*)
(* places the creators are at.                                              *)
TypeOK ==
  /\ AppTable \in [Slots -> AppRecord]
  /\ TaskTable \in [Indexes -> Slots \cup {None}]
  /\ task \in [Indexes -> TaskRecord]
  /\ modules \subseteq Apps /\ leaked \subseteq modules
  /\ counts \in [Tasks : Nat, Apps : Nat]
  /\ SystemState \in CORE_READY .. OPERATIONAL
  /\ proc \in [{"ES", "main"} -> Creator]

(* CFE_ES_Main has started the core applications.                          *)
Init ==
  /\ AppTable = [s \in Slots |-> NoRecord]
  /\ TaskTable = [i \in Indexes |-> None]
  /\ task = [i \in Indexes |-> NoTask]
  /\ modules = {} /\ leaked = {}
  /\ counts = [Tasks |-> 0, Apps |-> 0]
  /\ SystemState = CORE_READY
  /\ proc = [p \in {"ES", "main"} |-> IdleProc]

-----------------------------------------------------------------------------
(* OS_TaskCreate, and ES's record of the task.  OSAL takes a free index;    *)
(* indexes are only compared, so the lowest stands for any.                 *)
Live(i) == i # None /\ task[i].at # "none"
Used(i) == TaskTable[i] # None
FreeIndexes == {i \in Indexes : ~Live(i)}
NewTask == Min(FreeIndexes)

TaskCreate(creator, slot) ==
  /\ task' = [task EXCEPT ![NewTask] =
                 [NoTask EXCEPT !.at = "init", !.creator = creator]]
  /\ TaskTable' = [TaskTable EXCEPT ![NewTask] = slot]

-----------------------------------------------------------------------------
(* CFE_ES_AppCreate by p: the ES task or the start-up thread.              *)
Names(p, a, next) ==
  proc' = [proc EXCEPT ![p].at = "create", ![p].name = a, ![p].cursor = next]

(* After it, ES scans the table and the start-up goes on.                  *)
Created(p) == [proc EXCEPT ![p] = [IdleProc EXCEPT !.cursor = proc[p].cursor,
                                   !.at = IF p = "ES" THEN "scan" ELSE "wait"]]

FreeSlots == {s \in Slots : AppTable[s].AppState = UNDEFINED}

(* An entry is taken under the lock.  As a mutant, its state is not written.*)
ClaimedLater(s) == [AppTable EXCEPT ![s] = NoRecord]
Claimed(s) == [AppTable EXCEPT ![s] = [NoRecord EXCEPT !.AppState = EARLY_INIT]]

AppCreateClaim(p) ==
  /\ proc[p].at = "create"
  /\ IF FreeSlots = {}
     THEN proc' = Created(p) /\ UNCHANGED AppTable
     ELSE /\ AppTable' = Claimed(Min(FreeSlots))
          /\ proc' = [proc EXCEPT ![p].at = "load", ![p].slot = Min(FreeSlots)]
  /\ UNCHANGED <<TaskTable, task, modules, leaked, counts, SystemState>>

(* OS_ModuleLoad and OS_SymbolLookup, without the lock: a module that is    *)
(* loaded already cannot be loaded.                                         *)
AppCreateLoad(p) ==
  /\ proc[p].at = "load"
  /\ \/ /\ proc[p].name \notin modules
        /\ modules' = modules \cup {proc[p].name}
        /\ proc' = [proc EXCEPT ![p].at = "start"]
        /\ UNCHANGED AppTable
     \/ /\ proc[p].name \in modules \cup LoadFails
        /\ AppTable' = [AppTable EXCEPT ![proc[p].slot] = NoRecord]
        /\ proc' = Created(p)
        /\ UNCHANGED modules
  /\ UNCHANGED <<TaskTable, task, leaked, counts, SystemState>>

(* The entry is filled and the main task created, under the lock.  Without  *)
(* a free task the module stays loaded.                                     *)
AppCreateStart(p) ==
  /\ proc[p].at = "start"
  /\ LET s == proc[p].slot IN
     IF FreeIndexes # {}
     THEN /\ TaskCreate(None, s)
          /\ AppTable' = [AppTable EXCEPT ![s] =
                [AppTable[s] EXCEPT !.Name = proc[p].name, !.Req = "APP_RUN",
                                    !.Timer = 0, !.Main = NewTask]]
          /\ counts' = [Tasks |-> counts.Tasks + 1, Apps |-> counts.Apps + 1]
          /\ UNCHANGED leaked
     ELSE /\ AppTable' = [AppTable EXCEPT ![s] = NoRecord]
          /\ leaked' = leaked \cup {proc[p].name}
          /\ UNCHANGED <<TaskTable, task, counts>>
  /\ proc' = Created(p)
  /\ UNCHANGED <<modules, SystemState>>

-----------------------------------------------------------------------------
(* The start-up: CFE_ES_StartApplications creates the applications of the   *)
(* script, then CFE_ES_MainTaskSyncDelay waits for all to be initialised    *)
(* and for all to be running.  Its timeouts are left out: the start-up must *)
(* not need them.                                                           *)
StartApplications ==
  /\ proc["main"].at = "wait"
  /\ LET n == proc["main"].cursor + 1 IN
     IF n <= Len(Startup) THEN Names("main", Startup[n], n)
                          ELSE proc' = [proc EXCEPT !["main"].at = "sync"]
  /\ UNCHANGED <<AppTable, TaskTable, task, modules, leaked, counts, SystemState>>

AllAtLeast(state) ==
  \A s \in Slots : AppTable[s].AppState = UNDEFINED \/ AppTable[s].AppState >= state

MainTaskSyncDelay ==
  /\ proc["main"].at = "sync"
  /\ \/ SystemState = CORE_READY /\ AllAtLeast(LATE_INIT)
     \/ SystemState = APPS_INIT /\ AllAtLeast(RUNNING)
  /\ SystemState' = SystemState + 1
  /\ proc' = IF SystemState = APPS_INIT
             THEN [proc EXCEPT !["main"].at = "done"] ELSE proc
  /\ UNCHANGED <<AppTable, TaskTable, task, modules, leaked, counts>>

-----------------------------------------------------------------------------
(* Requests for the application of a slot: CFE_ES_DeleteApp,                *)
(* CFE_ES_RestartApp and CFE_ES_ReloadApp accept one when it is running.    *)
(* As a mutant, also when it waits to be removed.                           *)
AcceptsAlways(s) == AppTable[s].AppState \in {RUNNING, WAITING}
Accepts(s) == AppTable[s].AppState = RUNNING

Requested(s, req) ==
  [AppTable EXCEPT ![s].Req = req, ![s].AppState = WAITING, ![s].Timer = KillTimeout]

(* The slots of a name (CFE_ES_GetAppIDByName).                            *)
SlotsOf(a) == {s \in Slots : AppTable[s].AppState # UNDEFINED /\ AppTable[s].Name = a}

(* A command of the ground; the table is scanned after it.                 *)
Scan == proc' = [proc EXCEPT !["ES"].at = "scan", !["ES"].cursor = 0]

RequestCmd(a, cmd, req) ==
  /\ proc["ES"].at = "wait" /\ <<cmd, a>> \in Commands
  /\ \E s \in SlotsOf(a) : Accepts(s) /\ AppTable' = Requested(s, req)
  /\ Scan
  /\ UNCHANGED <<TaskTable, task, modules, leaked, counts, SystemState>>

StopAppCmd(a) == RequestCmd(a, "Stop", "SYS_DELETE")
RestartAppCmd(a) == RequestCmd(a, "Restart", "SYS_RESTART")
ReloadAppCmd(a) == RequestCmd(a, "Reload", "SYS_RELOAD")

StartAppCmd(a) ==
  /\ proc["ES"].at = "wait" /\ <<"Start", a>> \in Commands
  /\ Names("ES", a, 0)
  /\ UNCHANGED <<AppTable, TaskTable, task, modules, leaked, counts, SystemState>>

(* CFE_SB_RcvMsg times out, or another message comes.                      *)
ScanTime ==
  /\ proc["ES"].at = "wait"
  /\ Scan
  /\ UNCHANGED <<AppTable, TaskTable, task, modules, leaked, counts, SystemState>>

-----------------------------------------------------------------------------
(* CFE_ES_ScanAppTable, one entry at a time.                               *)
Due(s) ==
  \/ AppTable[s].AppState = STOPPED
  \/ AppTable[s].AppState = WAITING /\ AppTable[s].Timer <= 0

(* The kill timer of an application that is asked to go.                    *)
TimerRun(s) ==
  IF AppTable[s].AppState = WAITING
  THEN [AppTable EXCEPT ![s].Timer = @ - 1] ELSE AppTable

ScanAppTable ==
  /\ proc["ES"].at = "scan"
  /\ LET s == proc["ES"].cursor IN
     IF s = NumSlots
     THEN /\ proc' = [proc EXCEPT !["ES"] = IdleProc]
          /\ UNCHANGED AppTable
     ELSE IF Due(s)
     THEN /\ proc' = [proc EXCEPT !["ES"].at = "clean", !["ES"].slot = s,
                        !["ES"].cursor = s + 1, !["ES"].name = AppTable[s].Name,
                        !["ES"].req = AppTable[s].Req]
          /\ UNCHANGED AppTable
     ELSE /\ proc' = [proc EXCEPT !["ES"].cursor = s + 1]
          /\ AppTable' = TimerRun(s)
  /\ UNCHANGED <<TaskTable, task, modules, leaked, counts, SystemState>>

(* What CFE_ES_CleanupTaskResources deletes: the tasks that a task created, *)
(* and the task.                                                            *)
TasksBy(i) == {j \in Indexes : Live(j) /\ task[j].creator = i} \cup {i}

(* The records of an application that its main task's clean-up leaves.  As  *)
(* a mutant, none is looked for.                                            *)
NoChildRecords(s) == {}
ChildRecords(s) ==
  {i \in Indexes : TaskTable[i] = s /\ i # AppTable[s].Main}

(* CFE_ES_CleanUpApp.  The services have released what the application had *)
(* of them (TableRegistry, SoftwareBus); then, under the lock, its tasks    *)
(* are deleted and its module is unloaded.  A child task is deleted as one  *)
(* of the objects of the main task, and deleting it again is an error.      *)
CleanUpOK(s) == Live(AppTable[s].Main) /\ ChildRecords(s) = {}

(* The application is counted out, also when it could not be cleaned up.    *)
CountedOut(s) ==
  [Tasks |-> counts.Tasks - 1 - Cardinality(ChildRecords(s)), Apps |-> counts.Apps - 1]

(* CFE_ES_CleanUpApp unloads the module, for a restart too.                *)
Unloaded(s) == modules \ {AppTable[s].Name}

CleanUpApp ==
  /\ proc["ES"].at = "clean"
  /\ LET s    == proc["ES"].slot
         main == AppTable[s].Main
     IN /\ task' = [i \in Indexes |-> IF i \in TasksBy(main) THEN NoTask ELSE task[i]]
        /\ TaskTable' = [i \in Indexes |->
                           IF i = main \/ i \in ChildRecords(s) THEN None ELSE TaskTable[i]]
        /\ counts' = CountedOut(s)
        /\ modules' = Unloaded(s)
        /\ AppTable' = [AppTable EXCEPT ![s] = NoRecord]
        /\ proc' = IF proc["ES"].req \in {"SYS_RESTART", "SYS_RELOAD"} /\ CleanUpOK(s)
                   THEN [proc EXCEPT !["ES"].at = "create", !["ES"].slot = 0,
                                     !["ES"].req = "UNDEFINED"]
                   ELSE Created("ES")
  /\ UNCHANGED <<leaked, SystemState>>

-----------------------------------------------------------------------------
(* The tasks of the applications.  Each call finds the application by the   *)
(* task's record (CFE_ES_GetAppIDInternal).                                 *)
SlotOf(i) == TaskTable[i]
IsMain(i) == AppTable[SlotOf(i)].Main = i

(* Task i is at a step where its program may make this call.               *)
May(i, call) ==
  /\ Live(i) /\ Used(i)
  /\ call \in Uses[AppTable[SlotOf(i)].Name]

(* CFE_ES_SetAppState only raises the state.                                *)
SetAppState(s, state) ==
  [AppTable EXCEPT ![s].AppState = IF @ >= state THEN @ ELSE state]

(* CFE_ES_WaitForSystemState declares the state that the wait implies, then *)
(* waits.  As a mutant, it only waits.                                      *)
StateUndeclared(s, min) == AppTable
StateDeclared(s, min) ==
  SetAppState(s, IF min = OPERATIONAL THEN RUNNING ELSE LATE_INIT)

WaitForSystemState(i) ==
  /\ task[i].at = "init" /\ May(i, "Sync") /\ IsMain(i)
  /\ LET min == Syncs[AppTable[SlotOf(i)].Name] IN
     /\ AppTable' = StateDeclared(SlotOf(i), min)
     /\ task' = [task EXCEPT ![i].at = IF SystemState < min THEN "sync" ELSE "run"]
  /\ UNCHANGED <<TaskTable, modules, leaked, counts, SystemState, proc>>

WaitEnds(i) ==
  /\ task[i].at = "sync"
  /\ SystemState >= Syncs[AppTable[SlotOf(i)].Name]
  /\ task' = [task EXCEPT ![i].at = "run"]
  /\ UNCHANGED <<AppTable, TaskTable, modules, leaked, counts, SystemState, proc>>

MainRuns(i) ==
  /\ IsMain(i)
  /\ task[i].at = "run" \/ (task[i].at = "init" /\ ~May(i, "Sync"))

(* CFE_ES_RunLoop: the loop ends when there is a request, or the            *)
(* application wants it to.                                                 *)
RunLoop(i, status) ==
  /\ May(i, status) /\ MainRuns(i)
  /\ LET s == SlotOf(i) IN
     IF status = "APP_RUN"
     THEN /\ AppTable' = SetAppState(s, RUNNING)
          /\ task' = [task EXCEPT ![i].at =
               IF AppTable[s].Req # "APP_RUN" THEN "leave" ELSE "run"]
     ELSE /\ AppTable' = [AppTable EXCEPT ![s].Req = status]
          /\ task' = [task EXCEPT ![i].at = "leave", ![i].status = status]
  /\ UNCHANGED <<TaskTable, modules, leaked, counts, SystemState, proc>>

(* CFE_ES_ExitApp with the run status the application gave RunLoop, or by a *)
(* child task.  APP_RUN is no exit status and is taken for an error.        *)
ExitStatus(status) == IF status = "APP_RUN" THEN "APP_ERROR" ELSE status

ExitApp(i) ==
  /\ \/ task[i].at = "leave"
     \/ May(i, "ChildExitApp") /\ ~IsMain(i) /\ task[i].at = "init"
  /\ LET s == SlotOf(i)
         t == SetAppState(s, STOPPED)
     IN AppTable' = [t EXCEPT ![s].Req = ExitStatus(task[i].status)]
  /\ task' = [task EXCEPT ![i].at = "sleep"]
  /\ UNCHANGED <<TaskTable, modules, leaked, counts, SystemState, proc>>

(* CFE_ES_CreateChildTask, by the main task only.                          *)
CreateChildTask(i) ==
  /\ May(i, "Child") /\ MainRuns(i) /\ FreeIndexes # {}
  /\ TaskCreate(i, SlotOf(i))
  /\ counts' = [counts EXCEPT !.Tasks = @ + 1]
  /\ UNCHANGED <<AppTable, modules, leaked, SystemState, proc>>

(* CFE_ES_DeleteChildTask of task j.                                       *)
DeleteChildTask(i, j) ==
  /\ May(i, "DeleteChild") /\ MainRuns(i)
  /\ Live(j) /\ task[j].creator = i /\ Used(j)
  /\ task' = [task EXCEPT ![j] = NoTask]
  /\ TaskTable' = [TaskTable EXCEPT ![j] = None]
  /\ counts' = [counts EXCEPT !.Tasks = @ - 1]
  /\ UNCHANGED <<AppTable, modules, leaked, SystemState, proc>>

(* CFE_ES_ExitChildTask: the record goes under the lock, the task later.    *)
ExitChildTask(i) ==
  /\ May(i, "ExitChild") /\ ~IsMain(i) /\ task[i].at = "init"
  /\ TaskTable' = [TaskTable EXCEPT ![i] = None]
  /\ counts' = [counts EXCEPT !.Tasks = @ - 1]
  /\ task' = [task EXCEPT ![i].at = "leaving"]
  /\ UNCHANGED <<AppTable, modules, leaked, SystemState, proc>>

TaskExit(i) ==
  /\ task[i].at = "leaving"
  /\ task' = [task EXCEPT ![i] = NoTask]
  /\ UNCHANGED <<AppTable, TaskTable, modules, leaked, counts, SystemState, proc>>

(* CFE_ES_ProcessCoreException for an application whose exception action is *)
(* to be restarted: a request like the ground's, refused like it when the   *)
(* application is not running, and then nothing else is done.  The task is  *)
(* suspended either way.                                                    *)
ExceptionRequest(i) ==
  IF Accepts(SlotOf(i)) THEN Requested(SlotOf(i), "SYS_RESTART") ELSE AppTable

ProcessCoreException(i) ==
  /\ May(i, "Fault") /\ task[i].at \notin {"faulted", "leaving", "sleep"}
  /\ AppTable' = ExceptionRequest(i)
  /\ task' = [task EXCEPT ![i].at = "faulted"]
  /\ UNCHANGED <<TaskTable, modules, leaked, counts, SystemState, proc>>

-----------------------------------------------------------------------------
AppCreate(p) == AppCreateClaim(p) \/ AppCreateLoad(p) \/ AppCreateStart(p)

ESWork == AppCreate("ES") \/ ScanTime \/ ScanAppTable \/ CleanUpApp
StartupWork == AppCreate("main") \/ StartApplications \/ MainTaskSyncDelay

(* What the main task of every application does in the end.                *)
TaskWork(i) ==
  WaitForSystemState(i) \/ WaitEnds(i) \/ RunLoop(i, "APP_RUN") \/ ExitApp(i)

Next ==
  \/ ESWork \/ StartupWork
  \/ \E a \in Apps :
       StartAppCmd(a) \/ StopAppCmd(a) \/ RestartAppCmd(a) \/ ReloadAppCmd(a)
  \/ \E i \in Indexes :
       \/ TaskWork(i) \/ \E status \in RunStatuses \ {"APP_RUN"} : RunLoop(i, status)
       \/ CreateChildTask(i) \/ \E j \in Indexes : DeleteChildTask(i, j)
       \/ ExitChildTask(i) \/ TaskExit(i) \/ ProcessCoreException(i)

Spec == Init /\ [][Next]_vars

(* ES and the start-up go on, and so does every task that has not stopped.  *)
FairSpec ==
  /\ Spec /\ WF_vars(ESWork) /\ WF_vars(StartupWork)
  /\ \A i \in Indexes : WF_vars(TaskWork(i))

-----------------------------------------------------------------------------
(* Every task that Executive Services created has its record, which names   *)
(* an application in the table, and no record is left of a task that is     *)
(* gone: the calls of a task find its application by the record             *)
(* (CFE_ES_GetAppIDInternal).                                               *)
TasksRegistered ==
  \A i \in Indexes :
    IF Used(i) THEN Live(i) /\ AppTable[TaskTable[i]].AppState # UNDEFINED
               ELSE ~Live(i) \/ task[i].at = "leaving"

(* RegisteredTasks and RegisteredExternalApps, which the housekeeping       *)
(* packet shows, are the numbers of tasks and of applications, whichever    *)
(* way a task ended.                                                        *)
CountsExact ==
  /\ counts.Tasks = Cardinality({i \in Indexes : Used(i)})
  /\ counts.Apps = Cardinality({s \in Slots :
                      AppTable[s].AppState # UNDEFINED /\ AppTable[s].Name # NoApp})

(* A name is in the table once, and an entry is being filled by one creator *)
(* only (CFE_ES_AppCreate by the ES task and by the start-up).              *)
SlotsExclusive ==
  /\ \A a \in Apps : Cardinality(SlotsOf(a)) <= 1
  /\ proc["ES"].at \in {"load", "start"} /\ proc["main"].at \in {"load", "start"}
       => proc["ES"].slot # proc["main"].slot

(* A loaded module belongs to an application of the table, or to one that   *)
(* is being created, unless there was no task for it (CFE_ES_AppCreate).    *)
ModulesOwned ==
  \A a \in modules \ leaked :
    SlotsOf(a) # {} \/ \E p \in {"ES", "main"} : proc[p].at = "start" /\ proc[p].name = a

(* The application table, the task table, the loaded modules and the        *)
(* counters agree through creations that fail, exits, exceptions and        *)
(* clean-ups that fail half-way (CFE_ES_AppCreate, CFE_ES_CleanUpApp).      *)
TablesAgree == TypeOK /\ TasksRegistered /\ CountsExact /\ ModulesOwned

(* Asked to end, by the ground or for an exception while it was running, or *)
(* ended.                                                                   *)
Doomed(s) == AppTable[s].AppState \in {WAITING, STOPPED}

(* Such an application is removed from the table, whether or not it looks at*)
(* the request, its tasks suspended or not (CFE_ES_ScanAppTable).           *)
RemovalCompletes == \A s \in Slots : Doomed(s) ~> AppTable[s].AppState = UNDEFINED

(* The main task of an application was suspended by an exception before it  *)
(* was running: the request for its restart was refused, and so is every    *)
(* request of the ground.                                                   *)
SuspendedEarly ==
  \E s \in Slots : /\ AppTable[s].AppState \in {EARLY_INIT, LATE_INIT}
                   /\ AppTable[s].Main # None /\ task[AppTable[s].Main].at = "faulted"

(* The start-up ends although the start-up thread waits for the             *)
(* applications and they wait for it (CFE_ES_WaitForSystemState), unless    *)
(* the ES task keeps creating applications or one stays suspended.          *)
StartupCompletes ==
  \/ <>(SystemState = OPERATIONAL)
  \/ []<>(proc["ES"].at = "create")
  \/ <>[]SuspendedEarly

(* An application that is to be restarted runs again.                       *)
RestartHonoured ==
  \A a \in Apps :
    (\E s \in SlotsOf(a) : AppTable[s].Req = "SYS_RESTART")
      ~> (\E s \in SlotsOf(a) : AppTable[s].Req = "APP_RUN")
=============================================================================

# Verification of the cFE core services

The repository is a flight-software tree: NASA's core Flight Executive (cFE)
with its operating system abstraction layer (OSAL) and platform support package
(PSP), the standard applications, and the CU-SRL sensor applications that run on
it. This directory holds TLA+ modules that model the part on which everything
else depends: the Software Bus, and the parts of Executive Services, Table
Services and Event Services that share state with it or with the applications.
TLC configurations check them on small instances; TLAPS proofs show most of the
safety properties for every number of tasks, tables, buffers and applications.
The rest of the tree is inventoried below, with a plan for it.

## 1. Inventory

### Core (src/cfe/fsw/cfe-core/src)

| Component | State | Operations | Interacts with | What makes it correct |
|---|---|---|---|---|
| **SB**, routing (`sb/cfe_sb_api.c`, `cfe_sb_priv.c`, `cfe_sb_init.c`) | message map (id to route index), routing table with destination lists, stack of free route indices, usage counters | subscribe, unsubscribe, send, receive, enable/disable route | ES memory pool (destination blocks) | no index lost or shared; lists without duplicates, as long as they say; counters exact; message limits kept |
| **SB**, pipes and messages (`cfe_sb_api.c`, `cfe_sb_buf.c`, `cfe_sb_priv.c`) | pipe table, OS queues, buffers with use counts, shared subscription-report message | create/delete pipe, set options, send, receive, clean up an application | OSAL queues, ES pool, ES application table, EVS | every buffer freed exactly once and not before its last reader; deletion leaves nothing behind; deletion ends |
| SB, zero copy | list of descriptors per application | get, release, send pointer, pass, release by application | as above | a pointer is either the application's or the bus's, never both |
| SB, event recursion guard | one bit set per task | request/finish around each event | EVS, which sends through SB | no unbounded recursion, no event lost for good |
| SB ground commands (`cfe_sb_task.c`) | subscription reporting flag, command counters | enable/disable route, reporting, dumps, statistics | routing, pipes | commands change the route they name |
| **ES**, applications (`es/cfe_es_apps.c`, `cfe_es_api.c`, `cfe_es_start.c`) | application and task tables, exit/control requests, kill timers, startup state | create, exit, delete, restart, reload, scan; child tasks; processor reset | every service's `CleanUpApp` | a deleted application owns nothing; a request is acted on once |
| ES, memory pool (`cfe_esmempool.c`) | block descriptors, free lists by size, check bits | create, get, put, statistics | SB, TBL, applications | blocks disjoint, none lost, none allocated twice |
| ES, critical data store (`cfe_es_cds*.c`) | registry and blocks in memory that survives a processor reset | register, copy, restore, delete | PSP, TBL | a block restored is a block written whole |
| ES, logs (`cfe_es_syslog.c`, `cfe_es_erlog.c`, `cfe_es_perf.c`) | ring buffers | write, dump, clear, mode | everyone | overwrite and discard modes keep whole entries |
| **TBL** (`tbl/`) | registry, access descriptors, load buffers, validation results | register, share, load, update, get/release address, validate, dump | ES (owners), SB (commands), CDS | nobody sees a half-updated table; an update waits for the address to be released |
| **EVS** (`evs/`) | per-application filters, counters, log | register, send (filtered), reset, log commands | SB, ES | a filter passes what its mask says; the log keeps the last entries |
| **TIME** (`time/`) | reference state in version slots, tone and data match state, flywheel, synchronisation callbacks | tone, data, one-second callbacks, adjustments | OSAL timers, SB, PSP | a reader never mixes two versions; time only jumps when commanded |
| FS (`fs/`) | none to speak of | headers, decompression | OSAL files | conversions |

### Around the core

* **OSAL** (`src/osal/src/os`): identifier map with locks and reference counts
  (`shared/osapi-idmap.c`), queues, semaphores, timers with a callback ring
  (`shared/osapi-timebase.c`), files, sockets, module loader; a POSIX, an RTEMS
  and a VxWorks implementation of each.
* **PSP** (`src/psp`): reset area, clock, watchdog.
* **Applications** (`src/apps`): SC (stored command sequences, the richest state
  machine), HS (health monitors), HK, DS, FM (a child task with a command queue),
  CS (checksums in the background), the lab bridges CI/TO/SCH, and the SRL
  additions: sensor readers such as `h3lis100dl` and `ms5611`, and `i2c_lib`.
  A sensor application is a loop that polls its device, fills a packet and sends
  it; on the bus it is a sender with one command pipe.
* **Tools and build**: table compilers, ground system, unit-test framework.

### What is hard here

* *Interleaving.* Each SB call is a few locked sections with unlocked statements
  between them. `CFE_SB_RcvMsg` moves the pipe's buffers and reads the OS queue
  before it locks; `CFE_SB_DeletePipeFull` gives the lock back for every
  unsubscription and every message it drains; subscription reports are sent from
  one shared message after the unlock.
* *Recycling.* Pipe entries, route indices, queue ids and buffers are used again,
  and what the last user left in them matters.
* *Removal without consent.* ES cleans up an application before it deletes its
  tasks, which may be in the middle of any call.
* *Memory that survives.* The critical data store is written in several steps, and
  a processor reset may come between any two of them.
* *Two masters.* The ground and the owner both load a table; ES and the
  start-up thread both create applications.
* *Limits.* Full tables, full lists, full queues, an exhausted pool after half of
  an operation has been done.
* *Time.* Kill timers, flywheel, receive timeouts racing a message.

The line at which each of these bites, and the property that would show it, is
in `PROJECT.json` under `hazards`.

## 2. Modules

| Module | Models | Specification |
|---|---|---|
| `SBRouteTable` | message map, routing table, free-index stack | `RouteSpec` |
| `SoftwareBus` | tasks, pipes, queues, buffers, reports, clean-up, over `SBRouteTable`: its actions have the routing actions as conjuncts | `FairSpec`; `RoutesAsSpecified` is the refinement, which is proved |
| `SBDestinations` | destination blocks as memory, linked lists, the two walks that do not keep the lock | `FairSpec` |
| `SBZeroCopy` | zero-copy descriptors and buffers, the unlocked clean-up walk | `Spec` |
| `EventServices` | the recursion of `CFE_SB_SendMsg` and `CFE_EVS_SendEvent` on a task's stack, flags, filters | `FairSpec` |
| `CriticalStore` | what the critical data store promises: a value per name, replaced by an operation or lost by a reset during one | `StoreSpec` (abstract) |
| `CriticalDataStore` | registry, block pool, rebuilding, processor resets | `Spec`; `ImplementsStore` is the refinement |
| `TableLoads` | images, load buffers, validation, activation, addresses | `FairSpec` |
| `TableRegistry` | registry entries, access lists, table memory, dumps, clean-up | `FairSpec` |
| `AppLifeCycle` | application and task tables, start-up, requests, scan, clean-up | `FairSpec` |
| `SoftwareBusProofs`, `SBDestinationsProofs`, `SBZeroCopyProofs`, `EventServicesProofs`, `CriticalDataStoreProofs`, `TableLoadsProofs`, `TableRegistryProofs`, `AppLifeCycleProofs` | theorems about the module they are named after, and in `SoftwareBusProofs` about `SBRouteTable` too (section 5) | |
| `MC...` | instances: constants, scenarios, symmetry | |

The modules meet where one service calls another, and each models the other side
by what it can do: `AppLifeCycle.CleanUpApp` is the caller of `CleanUpApp` in
`SoftwareBus`, of `ReleaseAppId` in `SBZeroCopy` and of `CleanUpDumps` in
`TableRegistry`; the errors of a send, which `EventServices` draws from a set, are
the refusals of `SoftwareBus.SendMsg`; `SBDestinations` refines what
`SBRouteTable` keeps as a sequence into blocks, without being checked against it.

A step is one locked section, or the unlocked statements up to the next one.
Calls that are refused without changing anything are stuttering steps. In every
module the operators named as mutants in a comment stand beside the definition
they vary and are used by no specification.

### SBRouteTable

`MsgMap` is the array behind `CFE_SB_GetRoutingTblIdx`, `RoutingTbl` the routing
table, `RouteIdxStack` and `RouteIdxTop` the stack of free indices,
`MsgIdsInUse` and `SubscriptionsInUse` the telemetry counters. A destination
list is a sequence, head first. The actions are `AddSubscription` and
`SubscribeNoBlock` (`CFE_SB_SubscribeFull` with and without a destination block),
`RemoveSubscription` (`CFE_SB_UnsubscribeFull`), `CountSend`
(`CFE_SB_SendMsgFull`), `CountReceive` (`CFE_SB_RcvMsg`) and `SetActive` (the two
route commands). `CountSend` may choose any set of destinations below their
limit; which of them really take the message depends on pipes and queues, and
`SoftwareBus` decides it. Left out: `DestCnt`, the peak statistics and the
priority field, which nothing reads back.

### SoftwareBus

| Code | Actions |
|---|---|
| `CFE_SB_CreatePipe`, `CFE_SB_SetPipeOpts` | `CreatePipe`, `SetPipeOpts` |
| `CFE_SB_Subscribe*`, `CFE_SB_Unsubscribe*`, and the report | `Subscribe`, `Unsubscribe`, then `SendReport` after the lock |
| `CFE_SB_SendMsg`, `CFE_SB_PassMsg` | `SendMsg` |
| `CFE_SB_RcvMsg` | `RcvMsg` (first unlocked assignment), `RcvReadQueue` (second one and the queue), `RcvWake` or `RcvTimeOut` if it blocked, `RcvFinish` (locked section) |
| `CFE_SB_DeletePipeFull` | `DeletePipe`, then `DeleteUnsubscribe` and `DeleteWalk` per subscription, `DeleteDrain` and a receive per message, `DeleteFinish` |
| `CFE_SB_CleanUpApp`, called by ES | `CleanUpApp`, `CleanUpPipe` per pipe entry, with a deletion for each pipe found |
| application exit and restart | `ExitApp`, `StartApp` |
| route and reporting commands | `RouteCmd`, `SetSubscriptionReporting` |

`CleanUpApp` has two guards. `CleanUpExited` is the orderly case: the
application has called `CFE_ES_ExitApp` and none of its tasks runs.
`CleanUpForced` is the case where one still runs: a stopped application did not
exit before its kill timer ran out, or its main task has exited and a child task
has not (`cfe_es_apps.c` cleans SB up at 1212 and deletes the tasks from 1243).

OSAL queues and the ES pool are modelled by what the bus sees of them. A buffer
that has been returned to the pool may be read by a late reader; the id read from
it is then any id (`MsgIdRead`). The deletion of a task inside a locked section
is not modelled.

### SBDestinations

`dest` is the memory of the blocks, whoever they belong to; `pool` hands the last
one returned out first, as the size bins of `cfe_esmempool.c` do, and clears
nothing. `DeletePipe` finds a block of its pipe, `DeleteUnsubscribe` removes the
subscription with the lock given back before and after it, and `DeleteResume`
reads `Next` from the block it had: usually NULL, because `CFE_SB_RemoveDest`
clears it, but another list's when the block has been subscribed with since.
`RouteCmd`, `RouteFind` and `RouteWrite` are the route commands, a block at a
time, with anybody coming between. Three history variables say what became of
them: `commanded` is the state last commanded for a destination, `astray` says
that the block a command holds has been given back since it got there, and `misled` are the blocks that a command wrote all the same.

### SBZeroCopy

`GetPtr` takes a descriptor and a buffer and links the descriptor under the lock;
`GetPtrOwner` writes owner and use count after it. `ReleasePtr` and
`ZeroCopySend` delink and free the descriptor first (`ReleaseDesc`, which refuses
one that does not belong to the buffer); `ReleasePut` and `SendMsgFull` do the
rest in a second step. `ExitApp` ends an application between two of its calls: one
that is removed by force in the middle of a zero-copy call is not modelled.
`ReleaseAppId`, `Walk`, `WalkRelease` and `WalkPut` are
`CFE_SB_ZeroCopyReleaseAppId`, one pointer at a time. `Received` is the receiver
that gives the last message back.

### EventServices

`stack` is the call stack of each task, a frame per `SendMsg` and `SendEvent`. A
send has the errors its task may meet (`Outcomes`); `RequestToSendEvent` tests and
sets the flag and calls `SendEvent`, `FinishSendEvent` clears it.  An event goes
through the test of the registration (`EventBegin`), the report of an application
that is not registered (`EventReport`), the filter (`EventFilter`, `EventCount`)
and a send of its own (`EventSend`). None of these is under a lock, and a task may
be interrupted between any two: two tasks can pass the test of `EventCount`, and a
count that another task has raised to its limit wraps (`Counted`; `MaxCount`
stands for 0xffff). `Register`, `Unregister`, `ResetFilter` and `DeleteTask` come at
any time. Which type bits are enabled, and the ports and log an event is
also written to, are left out.

### CriticalStore and CriticalDataStore

`CriticalStore` has, per name, a size, a value and the operation going on. A
name's value changes only by an operation on that name; a reset ends it, with the
effect of the operation, without it, or with the value invalid; while a
registration goes on the value may also read as fresh.

In `CriticalDataStore` a step is one write of memory that survives: `RegisterCDS`
(which may return the old block), `Allocate`, `Update`; `DeleteCDS`, `Remove`;
`CopyToCDS` (descriptor with the new CRC; the data is torn from here),
`CopyDone`; the start-up with `InitClear`, `InitBegin`, `InitEnd`,
`InitCDSRegistry` when the validity fields are not found, and `Rebuild` when they
are. `ProcessorReset` may come after any step; it loses RAM. A CRC is the value
it is computed from (`CRC`): collisions are left out. `RestoreFromCDS` is what a
read returns and is the mapping's `value`.

### TableLoads

`reg`, `desc`, `taken` and `results` are the registry records, access descriptors,
`LoadBuffs[].Taken` and `ValidationResults`; `image` is what each buffer holds and
`held` a history of what a reader saw when it took an address. `Load`,
`LoadWrite`, `LoadFinish` are `CFE_TBL_Load`; `Update` and `UpdateInternal`,
`Validate` and `ValidateRecord`, `GetAddress`, `GetAddressIndex`,
`GetAddressStore` the two or three steps of the others; `LoadCmd`, `LoadCmdRead`,
`ValidateCmd`, `ActivateCmd`, `AbortLoadCmd` and `HousekeepingCmd` the commands of
the Table Services task. `Manage` is a call to `CFE_TBL_Manage`.

The address `GetAddress` hands out is not protected against what happens while it
is being taken. `Taken` therefore puts `Overtaken` into `held` in two cases: the
buffers have changed roles since the index was read (`cfe_tbl_internal.c:576`), or
the owner has found a single buffered table unlocked and is about to copy into it
(`AboutToCopy`, 1085 to 1105). Both happen in the runs, the model goes on behind
them, and the properties are about all other addresses.

### TableRegistry

`Registry`, `Desc`, `Taken` and `Dumps` are the four tables of `CFE_TBL_TaskData`,
`pool` the free table buffers, `lost` those a failed registration lost.
`Register`, `Share` and `RemoveAccessLink` hold the registry's mutex; `Unregister`
and `UnregisterRemove`, `DumpCmd` and `DumpCmdStart`, `DumpToBuffer` (by
`Manage`), `HousekeepingCmd` and `HousekeepingCmdDone`, and the clean-up
`CleanUpDumps`, `CleanUpHandle`, `CleanUpRemove`, `CleanUpDone` do not.

`ExitApp` is the orderly exit: the task sleeps when the clean-up begins. `KillApp`
is the removal by the kill timer, or with a child task left: `cfe_es_apps.c` cleans
the tables up at 1207 and deletes the tasks from 1243, so the task goes on
registering, sharing, unregistering and managing behind the walk until `CleanUpDone`
deletes it wherever it is. `Desc.Late` is a history: the descriptor was taken during
the clean-up of its own application.

### AppLifeCycle

`AppTable` and `TaskTable` are ES's tables; `task` is what OSAL knows of each
index, `modules` what is loaded, `proc` where the ES task and the start-up thread
are. `StartApplications`, `AppCreateClaim`, `AppCreateLoad`, `AppCreateStart` and
`MainTaskSyncDelay` are the start-up; `StartAppCmd`, `StopAppCmd`,
`RestartAppCmd`, `ReloadAppCmd`, `ScanTime`, `ScanAppTable` and `CleanUpApp` the ES
task; `WaitForSystemState`, `WaitEnds`, `RunLoop`, `ExitApp`, `CreateChildTask`,
`DeleteChildTask`, `ExitChildTask`, `TaskExit` and `ProcessCoreException` the
tasks of an application, which may fault in any state. The time-out of the
synchronisation is left out, so that `StartupCompletes` does not owe its truth to
it. An application that faults while it initialises stays suspended for good: the
exception asks for its restart, and `CFE_ES_RestartApp` refuses one that is not
running (`cfe_es_api.c:240`). `SuspendedEarly` says that this has happened;
`StartupCompletes` ends there too, where in the code the time-out does, and
`RemovalCompletes` is about applications whose removal has been accepted
(`Doomed`).

## 3. Runs

| Run | Question | Distinct states |
|---|---|---|
| `route_table` | three ids on two routes, three pipes on lists of two, pool failing at will | 193 thousand |
| `bus_orderly` | read, resubscribe, delete, exit and restart against a sender that also reads; deletion ends although it keeps sending | 138 thousand |
| `bus_many_routes` | pipes with several subscriptions deleted amid messages, reports, ignore-mine, timed receives, pass-through sends | 798 thousand |
| `bus_forced` | an application removed in the middle of its calls, pool failing at will: deletions still end | 192 thousand |
| `destinations` | a deletion that goes on from a block which may be anyone's by then, route commands interrupted anywhere | 60 thousand |
| `zero_copy` | buffers taken, released and sent by two applications, one of which exits | 266 thousand |
| `events` | errors that are reported by messages that fail, two tasks interrupted anywhere | 466 thousand |
| `cds` | a processor reset at any write | 327 thousand |
| `table_loads` | loads by the owner and the ground against a reader of each table | 289 thousand |
| `table_registry` | registrations, sharing, dumps, exits and a forced removal with little memory | 193 thousand |
| `apps` | start-up, commands, child tasks, exceptions in any state | 175 thousand |
| `restart_lost` | a restarted application that exits as the sample application does (ends in a violation) | 201 |

The properties of each are in its `.cfg`, and in section 4.

### What a passing run leaves out

Some places in the code are not protected, and a property does not hold if
somebody else runs exactly there. Two ways keep the rest checkable. In
`SBDestinations`, `EventServices` and `TableLoads` everybody may run there; what goes
wrong is remembered (`misled`, a count that wraps, `Overtaken`), and the property is
about everything else. In `SBZeroCopy`, `TableRegistry` and `CriticalDataStore` such
a place is a *window*: a named pair of steps that nobody else comes between unless
the constant `Windows` lists its name. Likewise `Careful` says that the ground waits
for the outcome of a command before it sends the next one for the same table.
The passing runs have `Windows = {}` and `Careful = TRUE`: what they show is
conditional on that. With a window open, or another of these conditions dropped, and
the property named as the only one, TLC shows what happens:

| Change | Property | What happens |
|---|---|---|
| `zero_copy`: `Windows = {"owner"}` | `HandlesStayValid` | until `CFE_SB_ZeroCopyGetPtr` writes the owner, the descriptor has its last owner's id, whose clean-up releases it (`cfe_sb_api.c:1855`) |
| `zero_copy`: `{"release"}` | `HandlesStayValid` | the clean-up walk follows a pointer to a descriptor given back and taken again, and releases another application's buffer (`cfe_sb_priv.c:917`) |
| `cds`: `{"return"}` | `BlocksOwned` | a reset after a block is returned, before the registry is written: the registry names a free block (`cfe_es_cds.c:254`, `804`) |
| `cds`: `{"initialise"}` | `NoRegistryFault` | a reset after the validity fields, before the registry's size: the next start-up takes the store for valid and searches a registry of size zero (`cfe_es_cds.c:656`) |
| `table_loads`: `Careful = FALSE` | `NoBadIndex`, `ReadersUndisturbed`, `ActiveImageValidated` | a load aborted while its validation or activation is pending: `LoadBuffs[-1]` (`cfe_tbl_task_cmds.c:1516`), or the buffer is loaded again in between |
| `table_loads`: `Reloads = {dbl}` | `ActiveImageValidated` | the ground's file is read into the buffer that the owner is loading, which then activates it (`cfe_tbl_internal.c:814`) |
| `table_loads`: `GroundLoads = {sgl}` | `NoBadIndex` | the ground asks for the validation of the image the owner is loading; the owner's update clears `LoadInProgress`, and the validation uses it as an index (`cfe_tbl_internal.c:1157`) |
| `table_loads`: `Careful = FALSE`, `NumValidations = 2` | `ValidationsAccounted` | a second validation command takes the table's only reference to the first one's result (`cfe_tbl_task_cmds.c:961`) |
| `table_registry`: `{"dump"}` | `NoBadIndex`, `LoadBuffersAccounted`, `DumpsEnd` | the table goes while the dump command has found it and not marked it |
| `table_registry`: `{"file"}` | `NoBadIndex` | the table goes while its dump file is written (`cfe_tbl_task_cmds.c:138`) |
| `table_registry`: `{"cleanup"}` | `LoadBuffersAccounted`, `DumpsEnd` | a dump is commanded after the clean-up has dropped the application's dumps (`cfe_tbl_internal.c:1379`) |
| `table_registry`: `Careful = FALSE`, `NumLoads = 2` | `NoBadIndex`, `DumpsEnd` | a second dump of a table before housekeeping has written the first |
| `table_registry`: `Unregistering = {a1, a2}`, `Exiting = {a3}` | `NoBadIndex`, `LoadBuffersAccounted`, `DumpsEnd` | the owner of a dump-only table unregisters it with a dump pending: `CFE_TBL_Unregister` drops no dumps, as `CFE_TBL_CleanUpApp` does, and the control block names a table that is gone (`cfe_tbl_api.c:645`) |
| `table_registry`: `Killing = {a1}` | `NoBadIndex`, `DumpsEnd` | the task of the owner of a dump-only table still manages it behind the clean-up's look at the dumps: the dump is performed, the table goes, and housekeeping uses `LoadInProgress` = -1 as an index; or the task registers the table again, a dump is asked for, and nobody manages it any more |
| `table_registry`: `Killing = {a2}` | `UsersHaveMemory`, `DumpsEnd` | an application that unregisters is removed: the walk meets the descriptor it has just given back, as in the last row of the next table |

### Disagreements with the documentation

`restart_lost` is kept as a run: a running application commanded to restart sees
`CFE_ES_RunLoop` return false and calls `CFE_ES_ExitApp` with its run status,
which is still `APP_RUN`; that is taken for an error, overwrites the request, and
the application is deleted. cES1007 says that it is restarted. (An application
with a child task is not restarted either: the child is deleted twice, and the
second time is an error of the clean-up, `cfe_es_apps.c:1262`.)

The others need a change of a configuration and the property named as its only
one:

| Configuration | Property | What happens | What the documentation says |
|---|---|---|---|
| `bus_forced` | `NoUnsubscribeFault` | a subscription refused for lack of a block leaves a route without destinations; unsubscribing from it dereferences NULL (`cfe_sb_api.c:1066`) | "it is not considered an error if the Message is not currently being subscribed to" (cFE_FunctionalRequirements.md:2033) |
| `bus_forced` | `PipesInUseExact` | two deletions of one pipe both count it down (`cfe_sb_api.c:389`) | "Number of pipes currently in use" (cfe_sb_msg.h:622) |
| `bus_forced` | `BuffersRefCounted` | the drain of the clean-up gives back the buffer that the application's task has in its hands (`cfe_sb_api.c:1602`, `366`), and what the task does behind the clean-up keeps its own | "the cFE shall free resources allocation for the specified Application" (cFE_FunctionalRequirements.md:2139) |
| `bus_forced` | `DeletePipeCompletes` | the task of the application subscribes again behind the unsubscriptions, and a sender keeps the drain loop busy (`cfe_sb_api.c:366`) | the same |
| `bus_forced` | `DeadAppsOwnNothing`, `NoStaleDestination` | what an application does behind the clean-up loop survives it (`cfe_sb_priv.c:131`) | "the cFE shall free resources allocation for the specified Application" (cFE_FunctionalRequirements.md:2139) |
| `bus_forced`, `Uses <- NextOwner` | `NewPipeHasDefaultOpts` | a new pipe has the options of the entry's last owner (`cfe_sb_api.c:174`) | messages go to "all Applications that have Subscribed" (cFE_FunctionalRequirements.md:2039) |
| `bus_orderly`, `Uses <- TwoSubscribers`, `Cmds = {"Reporting"}` | `ReportsOwnRequest` | a report is overwritten by another task's before it is sent (`cfe_sb_api.c:842`) | the packet "contains the information received in the subscription API" (cfe_sb_msg.h:405) |
| `bus_orderly`, `MsgLims = {1, 2}`, `Cmds = {}` | `MsgLimitHolds` | after unsubscribing and subscribing again more messages than the limit are on the pipe (`cfe_sb_api.c:818`) | the limit holds "at any time" (cfe_sb.dox:160) |
| `events` | `ReportedByOneTask` | two tasks of an application pass the test before either increments `EventCount`, and both report it (`cfe_evs_utils.c:144`, `150`) | "Send only one "not registered" event per application" (cfe_evs_utils.c:143) |
| `cds`, `SizesOf <- MCResizes` | `BlocksOwned` | a resize to a size no block has returns the old block and then fails: the entry keeps a free block (`cfe_es_cds.c:254`, `286`) | cES1315.1 (cFE_FunctionalRequirements.md:677) |
| `table_loads`, `SourcesOf <- MCShortFiles` | `ActiveImageValidated` | a file that ends early leaves half of its data in a buffer still marked as validated, which can be activated (`cfe_tbl_task_cmds.c:484`) | an image that "has not been Validated" is not activated (cfe_tbl_events.h:729) |
| `table_registry`, `Exiting = {a1, a2, a3}` or `Restarting = {a1}` | `UsersHaveMemory` | the clean-up takes a freed descriptor that still has the application's id for one of its own and unlinks it again (`cfe_tbl_internal.c:1394`) | the table stays until the last user has left it (cfe_tbl.h:321) |

One more is seen by reading: a message id that takes over a freed route continues
the sequence count of the id before it (`cfe_sb_api.c:792`; cfe_sb.dox:316 says
that it starts at one).

### Bounds

*Bus.* Two applications with a task each, and ES. Two pipes let entries be
recycled between owners. Two message ids give a walk with a second subscription;
three ids on two routes (`route_table`) fill the table. Two buffers are enough
for one to be held while another is in transit. Limits and depths of 1 and 2 are
reached in a few steps. `QueueIds` has at least as many ids as pipes and pending
calls can hold, so `CreatePipe` is not blocked by the bound in the orderly runs.
`SeqMod` stands for 2^32: 1 in the bus runs, whose properties do not read
sequence counts, 2 in `route_table`.
*Destinations*: two routes and two blocks, so that one list can have both and a
block can move to the other list; the safety properties were checked with three
blocks too (1.9 million states). *Zero copy*: three descriptors, so
that another application's is between two of the one that exits. *Events*: two
kinds of error, one of them met twice by one send; a filter locked at 2.
*Store*: a validity field of two units, and a pool which registrations and the
block a reset loses fill to the end, whose last small block the range test of
handles refuses (`cfe_es_cds_mempool.c:388` takes the field off twice); two names
that fit, one of which changes its size within a bin and across, and one that fits
no bin; two registry entries; one
reset, which may come during the first start-up or later. *Tables*: one double and one single buffered
table, one shared load buffer and one validation result, so that each runs out;
`MaxLost` bounds how often a registration may lose a buffer. *Registry*: three tables for two
entries, three descriptors for six users; one application that is removed by force,
one that exits and one that unregisters. With `Killing = {a2, a3}`,
`Unregistering = {}` and `Exiting = {a1}` the safety properties, `NoBadIndex`
included, hold as well (91 thousand states). *Applications*: two slots and three
tasks for two applications and a child; `KillTimeout` 1.

Buffers are symmetric in `bus_many_routes` and `zero_copy`, message ids in
`route_table`; the runs with temporal properties use no symmetry.

`CHECK_DEADLOCK FALSE` is set where everybody can have stopped for good: every
application has exited, or waits for messages nobody sends.

### Fairness

* `bus_orderly`: weak fairness of `Continue(t)`: a call that was started goes on
  while it can. A priority scheduler gives that to each task as long as those
  above it pend, which cFE applications do in `CFE_SB_RcvMsg`; a task blocked on
  an empty queue is not enabled. Nothing is assumed of starting calls.
* `bus_forced`: the same, and of the clean-up once it has begun.
* `destinations`, `events`: the same, weak: the step of a call is never disabled by
  somebody else.
* `table_loads`, `table_registry`: calls return; strong fairness of `Manage` (an
  owner's main loop keeps calling it) and of `HousekeepingCmd` (the scheduler
  keeps requesting housekeeping), and of a clean-up that has begun. No fairness of
  ground commands, of releasing an address, or of an exit.
* `apps`: weak fairness of the ES task, of the start-up thread and of each task's
  next step. A task that has faulted or sleeps in `CFE_ES_ExitApp` has no step.

## 4. Properties

Where several parts say together that a data structure is right, a run checks
their conjunction, which includes the module's type invariant; TLC names the
part when it is asked for it alone.

| Checked | Parts |
|---|---|
| `PipesExact` | `TypeOK`, `PipeStatsExact`, `DeadAppsOwnNothing` |
| `DeletionsLeaveNothing` | `BuffersRefCounted`, `NoStaleDestination` |
| `DestinationsExact` | `TypeOK`, `ListsExact`, `DeletedPipesUnlisted` |
| `DescriptorsExact` | `TypeOK`, `ListExact`, `DeadAppsHoldNothing` |
| `RecursionGuarded` | `TypeOK`, `RecursionBounded`, `FlagsMatchCalls` |
| `PoolExact` | `TypeOK`, `BlocksOwned`, `FreeListsExact`, `BlocksTile` |
| `RequestsServed` | `LoadsApplied`, `ValidationsReported` |
| `MemoryAccounted` | `TypeOK`, `BuffersAccounted`, `LoadBuffersAccounted`, `DeadAppsHoldNothing` |
| `TablesAgree` | `TypeOK`, `TasksRegistered`, `CountsExact`, `ModulesOwned` |

*Bus.* `RouteIdxConserved`: each route index is free exactly once or mapped by
exactly one id. `RoutesWellFormed`: the list of a mapped id is its own, an unmapped
route is empty, `Destinations` is the list's length. `RouteStatsExact`,
`PipeStatsExact`: telemetry agrees with the tables. `NoWedgedSubscription`: the
count of messages in transit is never above the truth, so the limit cannot shut a
subscription off for good.
`BuffersRefCounted`: a buffer's use count is the number of queues and readers that
need it. `NoStaleDestination`, `DeadAppsOwnNothing`: nothing outlives its pipe or
its application. `NoUnsubscribeFault`: no mapped route without destinations is
unsubscribed from, while memory lasts. `DeletePipeCompletes`: the drain loop ends.
`DeletionsEndOnceUnlisted`: with applications removed in the middle of their calls,
a deletion ends once its pipe stays off the lists, although other tasks read from,
delete or recycle the same pipe; the pipe may be subscribed again behind the
deletion there, which `DeletePipeCompletes` does not survive. `RoutesAsSpecified`,
that `SoftwareBus` implements `RouteSpec`, is proved and not run: the bus actions are
built from the routing actions.

*Destinations.* `ListsExact`, `DeletedPipesUnlisted`, `DeletesEnd`: reading a freed
block misleads the walk without making it miss a subscription.
`ActiveAsCommanded`: a destination is in the state last commanded for it, but for
one that a command gone astray has written.

*Zero copy.* `ListExact`, `BuffersAccounted` (one holder per buffer, and the
statistic), `DeadAppsHoldNothing`. `HandlesStayValid` is no run's property: it fails
in the two windows, and with both closed says no more than that the walk tests the
owner.

*Events.* `RecursionBounded`, `FlagsMatchCalls`, `CallsReturn`; `ReportedOnce`: a task
reports an unregistered application at most once. That a locked filter stays locked
is not stated: two tasks at the limit pass the comparison, the count wraps to 0
(`cfe_evs_utils.c:255`), and the model lets it.

*Store.* `BlocksOwned`, `FreeListsExact`, `BlocksTile`: the pool as a whole, also
after a rebuilding. `LeaksBounded`: a reset loses at most a block.
`ImplementsStore`: the refinement of `CriticalStore`, with the saved registry as
the truth.

*Tables.* `ReadersUndisturbed`, `NoLostUpdate` (a user who has not been told of an
update has the active buffer and its image), `ActiveImageValidated`, `LoadsApplied`,
`ValidationsReported`; and in the registry `AccessListsExact`, `UsersHaveMemory`,
`BuffersAccounted`, `DeadAppsHoldNothing` (but for what a removed task took behind
the walk), `DumpsEnd`. `LoadBuffersAccounted`, `ValidationsAccounted` and
`NoBadIndex` of the loads hold on the instance of `table_loads` too, but everything
that could break them is excluded there; they are in the module for the changes of
configuration in section 3. `LoadsApplied` is about
double buffered tables: a single buffered one waits for its readers, and nothing
makes them release the address.

*Applications.* `TasksRegistered`, `CountsExact`, `SlotsExclusive`, `ModulesOwned`,
`RemovalCompletes`, `StartupCompletes`.

## 5. Proofs

Every theorem is about all values of the constants that satisfy the module's
assumption (finite sets, tables of at least one entry, a store with room for one
block (`cfe_es_cds_mempool.c:134`), distinct model values: the `ASSUME` of each
module, which TLC evaluates on the instances). Some need more,
stated as a named hypothesis of the theorem: except for `ShortQueues`, those are
facts about how the services are used that the code does not enforce, and
section 3 shows what happens without them. The instances of the runs that check
the property satisfy them.

| Module | Theorem | Statement | Hypothesis |
|---|---|---|---|
| `SoftwareBusProofs` | `RouteInvariance` | `RouteSpec => []RouteInv` | |
| | `RouteTypeCorrect`, `RouteIndicesConserved`, `RouteListsWellFormed`, `RouteStatisticsExact` | the four properties of `route_table` | |
| | `BusInvariance`, `BusTypeCorrect` | `Spec => []BusInv`, `[]TypeOK` | |
| | `BusImplementsRouteTable` | `Spec => RoutesAsSpecified` | |
| | `BusRoutesSound` | the routing invariants, of the bus | |
| | `UnsubscribeNeverFaults` | `Spec => []NoUnsubscribeFault` | `~PoolMayRunOut` |
| | `OrderlyInvariance` | `Spec => []OrderlyInv` | `OrderlyProgram` |
| | `DeletedPipesUnsubscribed`, `PipesAccounted` | `[]NoStaleDestination`, `[](PipesInUseExact /\ DeadAppsOwnNothing)` | `OrderlyProgram` |
| | `SettledInvariance` | `Spec => []SettledInv` | `OrderlyProgram`, `ShortQueues` |
| | `BuffersCounted`, `DeletionsClean`, `SubscriptionsNotWedged`, `PipesCounted` | `[]BuffersRefCounted`, `[]DeletionsLeaveNothing`, `[]NoWedgedSubscription`, `[]PipesExact` | `OrderlyProgram`, `ShortQueues` |
| `SBDestinationsProofs` | `DestinationsInvariance`, `ListsStayExact` | `[]DestInv`, `[]DestinationsExact` | |
| | `DestinationsAsCommanded` | `[]ActiveAsCommanded` | |
| `SBZeroCopyProofs` | `ZeroCopyInvariance` | `Spec => []ZeroCopyInv` | `NoWindows` |
| | `DescriptorsAlwaysExact`, `BuffersAlwaysAccounted` | the two properties of `zero_copy` | `NoWindows` |
| `EventServicesProofs` | `EventInvariance`, `RecursionIsGuarded`, `NotRegisteredReportedOnce` | `[]EventInv`, `[]RecursionGuarded`, `[]ReportedOnce` | |
| `CriticalDataStoreProofs` | `StoreStaysExact`, `ResetsLoseOneBlock` | `Spec /\ []Roomy => []PoolExact`, `[]LeaksBounded` | `NoWindows` |
| | `PoolStaysSound` | `Spec => []PoolSound` | |
| | `StoreKeepsItsPromise` | `Spec /\ []Roomy => ImplementsStore` | `NoWindows` |
| `TableLoadsProofs` | `LoadInvariance`, `ReadersSafe`, `UpdatesSeen` | `[]LoadInv`, `[]ReadersUndisturbed`, `[]NoLostUpdate` | `Coordinated` |
| | `ActiveImagesValid` | `[]ActiveImageValidated` | `Coordinated`, `WholeFiles` |
| `TableRegistryProofs` | `RegistryInvariance` | `Spec => []RegistryInv` | `Disciplined` |
| | `AccessListsStayExact`, `UsersKeepMemory`, `MemoryStaysAccounted` | the three invariants of `table_registry` | `Disciplined` |
| `AppLifeCycleProofs` | `AppInvariance`, `TablesAlwaysAgree`, `SlotsAlwaysExclusive`, `EntriesGivenBack` | `[]AppInv`, `[]TablesAgree`, `[]SlotsExclusive`, `[]NoEntryLost` | |

The hypotheses:

* `~PoolMayRunOut`: `CFE_ES_GetPoolBuf` does not fail for a destination block.
* `OrderlyProgram`: one task per application, and no clean-up of an application
  whose task still runs.
* `ShortQueues`: a pipe's depth is less than 65535, so that a full queue and the
  message in its reader's hands fit the `uint16` of the depth statistic.
  `CFE_SB_CreatePipe` refuses a depth above `CFE_PLATFORM_SB_MAX_PIPE_DEPTH`
  (`cfe_sb_api.c:135`; 256 in `cpu1_platform_cfg.h:159`).
* `NoWindows`: the windows are closed (section 3), and the theorem says nothing of
  what happens in them.
* `Roomy`, an assumption about the run and not a constant: a registration that has
  returned its old block to get one of another size finds one. It is
  vacuous for an application that asks for the same size every time, as HS, CS and DS
  do (`hs_app.c:251`, `cs_app.c:904`, `ds_table.c:1015`), and TLC finds it to hold of
  the instance of `cds`, which changes sizes; without it `BlocksOwned` fails as
  section 3 shows.
* `Coordinated`: the ground waits for the outcome of a command before the next
  one for the same table, and does not load a table that its owner loads again.
  Any application takes the address of any table at any moment; the address is
  `Overtaken`, and excepted, where nothing protects it. `WholeFiles`: files hold what
  their headers say.
* `Disciplined`: the ground waits for the report of a dump before it asks for the
  next one of the table, the three windows of `TableRegistry` are closed, the id of
  an application that has exited is not given to another, an application that
  unregisters tables neither exits nor is removed, and the owner of a dump-only
  table neither unregisters nor is removed by force. Any other application may be
  removed with its task still calling. Each clause is needed: section 3 shows what
  TLC finds without it. The last one came out of the proof, at the step where a
  disowned table has to have no dump.

### The inductive invariants

Each was checked by TLC on the run's instance before it was proved.

*Routing* (`RouteInv`). None of the four invariants is inductive alone. Giving an
index back needs `RouteIdxTop > 0`, which follows from the statistics (the top
equals the number of mapped ids, and one is mapped); that the index given back is
not already free needs `RouteIdxConserved`; that a claimed route is empty needs
`RoutesWellFormed`, and finding a pipe's node in a list needs the lists to be
free of duplicates. `RouteInv` is their conjunction. Lemmas about lists
(`AddDestLemma`, `RemoveDestPipes`, `DestPosLemma`...) say what one insertion or
removal does to the pipes on a list; `ClaimLemma` and `FreeLemma` do the same for
the stack and the message map; `ListUpdateLemma` covers the steps that change only
what is inside the nodes; one lemma per action puts them together.

*Bus* (`BusInv`, `OrderlyInv`). `BusInv` adds to `RouteInv` what a task's locals
hold at each place (`LocalsFit`), which is what makes the arguments of the routing
operations legal; the refinement then is one lemma per action, and with it the
invariants of the routing state carry over. `UnsubscribeNeverFaults` adds that a
mapped route has a destination (`MappedHaveDest`). `OrderlyInv` is about
ownership: a deletion works for the owner of its pipe, the routes its walk has
passed do not list that pipe any more (`DeleterOK`), the entries the clean-up
cursor has passed are not the removed application's (`CleanerOK`), and every pipe
in use has an open queue of its own.

*Counting on the bus* (`SettledInv`, two parts). `WorkInv` says what a task may
rely on although it does not hold the lock: a receiver's pipe is still in use and
its own, `CurrentBuff` and `ToTrashBuff` hold what the last unlocked statement
left there, `ToTrashBuff` is empty unless a receiver is at work, and a deletion
that has drained its pipe finds the queue empty until it ends (`WorkerOK`,
`EntryOK`). It holds because each pipe has one task that minds it: its owner's
task, or ES once that has exited (`Minds`, `MindsAlone`); a sender, the one other
actor, adds to queues of listed pipes only, which a drained pipe is not. `CountInv`
is the conjunction of the three counts: none is inductive without `WorkInv`, and
`NoWedgedSubscription` needs `BuffersRefCounted` too, because the id a reader
counts down is read from the buffer and must still be the sender's. A step then
moves one message: from the sender to as many queues as there are destinations
(`PostPlaces`, a bijection between list positions and queue places), from the head
of a queue to a reader (`TailPlaces`), from the reader to the pipe entry
(`SettlesBuffers`); the lemmas `CountsAdd`, `CountsRemove`, `CountedUp` and
`CountedDown` say what the routing operations do to `BuffCount` meanwhile.

*Destination blocks* (`DestInv`). What a walk along `Next` meets is a recursive
function of the memory. The invariant says the same without recursion: there are a
map of the blocks to routes and a position of each block in its route's list, with
which every pointer agrees (`Linked`). `WalkStays` and `WalkMeets` show, with the
least step at which it would be false, that the walk from a list's head meets the
blocks of that route and no other, each at its position, so the number of blocks is
enough steps; `LinkedAdd` and `LinkedRemove` are the insertion and removal of a
block, with the positions behind it moved. Of a deletion the invariant keeps which
routes are done (`Behind`), not where its block is: that block may be in any list,
and the proof never asks. For the commanded state it says that a route command which
has not gone `astray` still holds a block of the list it began in.

*Zero copy* (`ZeroCopyInv`). There is a rank of the descriptors that grows from
`Prev` to `Next` (`Order`); relative to it, everything the walk still has to
release is at or below its cursor, and every descriptor without an owner yet is
above it (`Ahead`). That makes both "the walk misses nothing" and "the list is
complete" facts about one state: the rank replaces an induction along the list,
which the provers cannot do. For the same reason `ListExact` says that the
allocated descriptors are the least set a walk from the tail does not leave, and
the proof takes the least rank above a descriptor left out. `UsersInv` says who
uses each buffer: a descriptor, a task between two locked sections, or a place of
the queue.

*Events* (`EventInv`). The frames of a stack and the flags of its task: each kind
of error is reported at most once on the stack, and the flags are the kinds being
reported (or more, once a task was killed while it reported). For the reports it
adds that a task about to make one has made none yet, and that `EventCount` is not 0
once one was made.

*Critical data store* (`PoolInv`, `SoundInv`). What the rebuilding finds is a walk
along sizes stored in the memory itself. The invariant says without recursion that
blocks tile the pool: from its start to the first offset never used every offset
with a descriptor is followed by the next one's (`Tiled`), and beyond there is none.
`WalkExact` shows, with the least step at which it would be false, that the walk
meets every block once and stops at `Current`; `RebuildExact` that the lists it
fills are those that were lost, which needs that the bin of a block's `SizeUsed`
is the bin of its `ActualSize`, as only the former is asked for in the rebuilding.
`PoolInv` has this for a running system (`RunOK`), with who owns each block and what
a task between two writes has done already, and for a system that is down or starts
(`StartOK`) the part of it that is in memory that survives (`Recoverable`): a reset
takes the first to the second, and `Rebuild` back again. `Lost` is the set of blocks
in use that no entry names and no task is about to name; it grows by a reset between
`Allocate` and `Update` only. `SoundInv` keeps the tiling and the free lists alone,
and with it no hypothesis is needed: whoever claims a block, the pool is sound.
`StoreInv` adds what the refinement needs: a name is in the saved registry once and
no two names share a block (`Distinct`), a name is worked on by one task at most
(`NamesOK`, `Solo`), a copy has the pool's mutex and has written its CRC (`CopyOK`),
and whoever has the registry's mutex works on its own name's entry (`HolderOK`). One
lemma per action then shows it to be a `Begin`, `Spoil`, `End` or `Reset` of
`CriticalStore`, or a stutter. At `Allocate` the attempt showed `CriticalStore` to
promise too much: a name registered again with a size of the same bin may get its
old block again, so that the data reads as fresh before the registration has ended.
`Spoil` allows that now, and the instance changes a size within a bin.

*Table loads* (`LoadInv`). For each table, where its image, its load and its
validation are and who may touch them; for each step between two others, what the
task read before is still so. `ImageInv` adds which images were validated.

*Table registry* (`RegistryInv`). That a table whose list becomes empty has no
user left is not a fact about links alone: the links of two descriptors can agree
in a cycle that the head does not reach. So `RankInv` has a rank that grows along
the links, and `SoleUser` shows with the least rank that a head without a successor
is the only user; with it, memory goes back exactly then (`MemoryInv`, `LoadInv`).
`OwnerInv` says that the owner of a table is one of its users, so another user that
leaves is never the last while the table has an owner, and the dump of an owned
table keeps its load buffer (`DumpInv`). `Removing` is what a task between the
ownership test and `CFE_TBL_RemoveAccessLink` relies on, with no lock held: the
descriptor is in use, its own, and of a table it does not own. `UserInv` is about
the descriptors that are *not* in use: they keep the id of the application that
left them, and `CFE_TBL_CleanUpApp` does not look at `UsedFlag`, so an id of an
application that may exit is only where the clean-up has been. There is one lemma
per action, and under them one per kind of change: a new user at the head of a list
(`NewUser...`), a new table (`NewTable...`), a table without an owner
(`Disowning...`), a user gone (`LostUser...`, `Remove...`).

*Applications* (`AppInv`). An entry is free, claimed by one creator, or filled;
a filled one has a main task of its own and a loaded module (`EntriesInv`,
`CreatorsInv`, `LoadedInv`); a task with a record belongs to a filled entry
(`TasksInv`); counters are cardinalities (`CountsInv`). No hypothesis is needed:
the interleaving of the ES task with the start-up thread is harmless because
loading a module that is loaded fails.

The modules are written without `@` inside a nested `EXCEPT` in the definitions
that are proved about, which the proof system resolves to the wrong expression.

### Only model-checked

* Liveness (`DeletePipeCompletes`, `DeletionsEndOnceUnlisted`, `DeletesEnd`, `CallsReturn`, `RequestsServed`,
  `DumpsEnd`, `RemovalCompletes`, `StartupCompletes`): fairness and `ENABLED` are
  out of the prover's reach.

## 6. Not modelled, and the plan

Not modelled, because there is no state a property could be about: FS and
decompression, the CCSDS accessors, PSP, sockets, files and the module loader
(I/O), shell, build tools, lab applications.

The modules cover a small share of the tree's 277 thousand lines of C. Most of
those are unit tests and their stubs, operating-system ports of OSAL and of
PSP (three each), vendored applications with their table images, and ground tools. The
modules cover the parts of `cfe-core/src/sb`, `es`, `tbl` and `evs` that
keep state shared by tasks.

Left out of the modelled parts: the deletion of a task while it holds a mutex; the
removal of an application in the middle of a zero-copy call;
registering a table again, critical tables and user-defined addresses; shared
libraries, the core applications' own entries, processor resets caused by an
application; the commands that switch event types and ports; statistics of peak
use.

Next:

1. **ES memory pool** with size bins and check bits, under `SBDestinations` and
   `SBZeroCopy`; an abstract allocator as its specification.
2. **TIME**: versioned reference state with concurrent readers, tone and data
   matching, flywheel.
3. **EVS** log and **ES** system log: the two modes of a ring.
4. **OSAL** identifier map: allocate, lock, reference count and delete.
5. **SC**: ATS and RTS state machines; **FM**: the child task's queue.

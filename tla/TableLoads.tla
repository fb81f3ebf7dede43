----------------------------- MODULE TableLoads -----------------------------
(***************************************************************************)
(* Table Services: how the contents of registered tables change while       *)
(* applications use them (cfe_tbl_api.c, cfe_tbl_internal.c and the         *)
(* commands of cfe_tbl_task_cmds.c).  Applications load, validate and       *)
(* update their tables and take and release their addresses; the Table      *)
(* Services task executes the ground's commands.  None of these paths holds *)
(* a lock: only the search for a shared load buffer is under WorkBufMutex.  *)
(*                                                                         *)
(* An image stands for the contents of a whole table.  The tables are       *)
(* registered before the first state; registration, sharing, dumps and the  *)
(* applications' exit are in TableRegistry.                                 *)
(***************************************************************************)
EXTENDS Integers, FiniteSets

CONSTANTS
  Apps,             \* applications, one task each
  Tables,           \* registered tables
  DoubleBuffered,   \* those with two buffers of their own
  Checked,          \* those with a validation function
  OwnerOf,          \* table -> the application that manages it
  Access,           \* set of <<application, table>>: the access descriptors
  Readers,          \* those of them used to take the table's address
  SourcesOf,        \* table -> what may be loaded: set of [image, form]
  Reloads,          \* tables their owner loads again after the first load
  Edits,            \* tables their owner changes in place
  GroundLoads,      \* tables the ground loads
  Valid,            \* images the validation functions accept
  Zero, Torn,       \* cleared memory; a part of an image
  NumLoads,         \* CFE_PLATFORM_TBL_MAX_SIMULTANEOUS_LOADS
  NumValidations,   \* CFE_PLATFORM_TBL_MAX_NUM_VALIDATIONS
  Careful,          \* the ground waits for the outcome of its last command
  Overtaken,        \* stands for an address that is not of the current image
  TBL, NULL

Forms == {"full",              \* a complete file, or memory
          "partial",           \* a file that begins at an offset
          "short", "long"}     \* fewer, or more, bytes than its header says

ASSUME TableAssumption ==
  /\ TBL \notin Apps /\ "LoadBuffs" \notin Tables
  /\ DoubleBuffered \cup Checked \cup Reloads \cup Edits
       \cup GroundLoads \subseteq Tables
  /\ OwnerOf \in [Tables -> Apps]
  /\ Access \subseteq Apps \X Tables /\ Readers \subseteq Access
  /\ \A t \in Tables : <<OwnerOf[t], t>> \in Access
  /\ \A t \in Tables : \A s \in SourcesOf[t] : s.form \in Forms
  /\ NumLoads \in Nat \ {0} /\ NumValidations \in Nat \ {0}
  /\ Careful \in BOOLEAN

None  == -1                    \* NO_LOAD_IN_PROGRESS, NO_VALIDATION_PENDING...
Loads == 0 .. NumLoads - 1
Slots == 0 .. NumValidations - 1
Tasks == Apps \cup {TBL}
LoadBuff(i) == <<"LoadBuffs", i>>
Buffers == (Tables \X {0, 1}) \cup {LoadBuff(i) : i \in Loads}

VARIABLES
  reg,          \* table -> the parts of its registry record that change
  image,        \* buffer -> what it holds
  validated,    \* buffer -> its Validated flag
  taken,        \* load buffer -> its Taken flag
  desc,         \* access descriptor -> [LockFlag, BufferIndex, Updated]
  held,         \* access descriptor -> the image at the address in use, or NULL,
                \* or Overtaken: see Taken
  results,      \* ValidationResults[].State
  pc, loc       \* where each task is, and its local variables

vars == <<reg, image, validated, taken, desc, held, results, pc, loc>>

Sources == UNION {SourcesOf[t] : t \in Tables}
Images == {s.image : s \in Sources} \cup {Zero, Torn}
NoLoc == [t |-> NULL, idx |-> None, working |-> NULL, src |-> NULL, ok |-> FALSE]

RegistryRec == [ActiveBufferIndex : {0, 1}, LoadInProgress : Loads \cup {0, 1, None},
                LoadPending : BOOLEAN, TableLoadedOnce : BOOLEAN,
                ValidateActiveIndex : Slots \cup {None},
                ValidateInactiveIndex : Slots \cup {None}]
AccessDescriptor == [LockFlag : BOOLEAN, BufferIndex : {0, 1}, Updated : BOOLEAN]
Locals == [t : Tables \cup {NULL}, idx : {None, 0, 1}, working : Buffers \cup {NULL},
           src : Sources \cup {NULL}, ok : BOOLEAN]
Steps == {"idle", "lock", "index", "write", "finish", "update", "validate",
          "read", "fault"}

(* The type invariant: buffer and result indices stay inside their arrays   *)
(* (CFE_TBL_RegistryRec_t, CFE_TBL_AccessDescriptor_t).                     *)
TypeOK ==
  /\ reg \in [Tables -> RegistryRec]
  /\ \A t \in Tables \ DoubleBuffered : reg[t].ActiveBufferIndex = 0
  /\ image \in [Buffers -> Images]
  /\ validated \in [Buffers -> BOOLEAN] /\ taken \in [Loads -> BOOLEAN]
  /\ desc \in [Access -> AccessDescriptor]
  /\ held \in [Access -> Images \cup {NULL, Overtaken}]
  /\ results \in [Slots -> {"free", "pending", "performed"}]
  /\ pc \in [Tasks -> Steps] /\ loc \in [Tasks -> Locals]

(* After CFE_TBL_EarlyInit and the tables' registration: nothing is loaded. *)
Init ==
  /\ reg = [t \in Tables |->
       [ActiveBufferIndex |-> 0, LoadInProgress |-> None, LoadPending |-> FALSE,
        TableLoadedOnce |-> FALSE, ValidateActiveIndex |-> None,
        ValidateInactiveIndex |-> None]]
  /\ image = [b \in Buffers |-> Zero]
  /\ validated = [b \in Buffers |-> FALSE]
  /\ taken = [i \in Loads |-> FALSE]
  /\ desc = [h \in Access |->
               [LockFlag |-> FALSE, BufferIndex |-> 0, Updated |-> FALSE]]
  /\ held = [h \in Access |-> NULL]
  /\ results = [i \in Slots |-> "free"]
  /\ pc = [x \in Tasks |-> "idle"] /\ loc = [x \in Tasks |-> NoLoc]

Go(x, step, l) == pc' = [pc EXCEPT ![x] = step] /\ loc' = [loc EXCEPT ![x] = l]
Done(x)        == Go(x, "idle", NoLoc)
Fault(x)       == Go(x, "fault", NoLoc) /\ UNCHANGED <<reg, image, validated,
                    taken, desc, held, results>>

Active(t)   == <<t, reg[t].ActiveBufferIndex>>
Inactive(t) == <<t, 1 - reg[t].ActiveBufferIndex>>
UsersOf(t)  == {h \in Access : h[2] = t}

-----------------------------------------------------------------------------
(* What loads have in common.                                              *)

(* The working buffer of a load that has begun.                            *)
Working(t) == IF t \in DoubleBuffered THEN Inactive(t)
              ELSE LoadBuff(reg[t].LoadInProgress)

(* As InactiveInUse below, but looking at the users of the active buffer.  *)
ActiveInUse(t) ==
  \E h \in UsersOf(t) : /\ desc[h].LockFlag
                        /\ desc[h].BufferIndex = reg[t].ActiveBufferIndex

(* Someone still uses the inactive buffer.                                 *)
InactiveInUse(t) ==
  \E h \in UsersOf(t) : /\ desc[h].LockFlag
                        /\ desc[h].BufferIndex = 1 - reg[t].ActiveBufferIndex

(* CFE_TBL_GetWorkingBuffer: a load in progress keeps its buffer; the first *)
(* load by an application goes to the active buffer; any other takes the    *)
(* inactive buffer or a shared one, and copies the active image into it.    *)
(* Task x goes on with the step named, which loads s into that buffer.      *)
GetWorkingBuffer(x, step, t, s) ==
  LET Then(b) == Go(x, step, [NoLoc EXCEPT !.t = t, !.working = b, !.src = s]) IN
  IF reg[t].LoadInProgress # None
    THEN Then(Working(t)) /\ UNCHANGED <<reg, image, taken>>
  ELSE IF ~reg[t].TableLoadedOnce /\ x # TBL
    THEN Then(Active(t)) /\ UNCHANGED <<reg, image, taken>>
  ELSE \E i \in Loads \cup {0, 1} :
    LET b == IF t \in DoubleBuffered THEN <<t, i>> ELSE LoadBuff(i) IN
    /\ IF t \in DoubleBuffered
         THEN /\ i = 1 - reg[t].ActiveBufferIndex /\ ~InactiveInUse(t)
              /\ UNCHANGED taken
         ELSE /\ i \in Loads /\ ~taken[i] /\ \A j \in 0 .. i - 1 : taken[j]
              /\ taken' = [taken EXCEPT ![i] = TRUE]
    /\ reg' = [reg EXCEPT ![t].LoadInProgress = i]
    /\ image' = [image EXCEPT ![b] = image[Active(t)]]
    /\ Then(b)

(* A load buffer is given back.                                             *)
Returned(i) == [taken EXCEPT ![i] = FALSE]

(* CFE_TBL_NotifyTblUsersOfUpdate, after the registry record became r.     *)
NotifiedStillPending(r) == [r EXCEPT !.LoadInProgress = None,
                                     !.TableLoadedOnce = TRUE]
Notified(r) == [r EXCEPT !.LoadInProgress = None, !.LoadPending = FALSE,
                         !.TableLoadedOnce = TRUE]
NotifyOwnerOfUpdate(t) ==
  desc' = [desc EXCEPT ![<<OwnerOf[t], t>>].Updated = TRUE]
NotifyTblUsersOfUpdate(t) ==
  desc' = [h \in Access |-> IF h[2] = t THEN [desc[h] EXCEPT !.Updated = TRUE]
                                        ELSE desc[h]]

(* The beginning of CFE_TBL_UpdateInternal: a single buffered table is not  *)
(* updated while someone has its address.                                   *)
NotLocked(t) == t \in DoubleBuffered \/ \A h \in UsersOf(t) : ~desc[h].LockFlag

-----------------------------------------------------------------------------
(* Applications.                                                           *)

(* CFE_TBL_GetAddress: lock the table, read which buffer is active, store   *)
(* the index in the descriptor and return the address.                      *)
GetAddress(a, t) ==
  /\ pc[a] = "idle" /\ <<a, t>> \in Readers /\ ~desc[<<a, t>>].LockFlag
  /\ desc' = [desc EXCEPT ![<<a, t>>].LockFlag = TRUE]
  /\ Go(a, "lock", [NoLoc EXCEPT !.t = t])
  /\ UNCHANGED <<reg, image, validated, taken, held, results>>

(* A task is between the check for users of a single buffered table and     *)
(* the copy into it.                                                        *)
AboutToCopy(t) ==
  /\ t \notin DoubleBuffered
  /\ \E x \in Apps : pc[x] = "update" /\ loc[x].t = t

(* The index goes to the descriptor and its image to the application,       *)
(* which does not use a table that was never loaded.  In two cases nothing  *)
(* protects the address handed out: the buffers have changed roles since    *)
(* the index was read, or a copy is about to begin that was decided before  *)
(* the caller's lock.                                                       *)
Taken(a, t, i) ==
  LET h == <<a, t>>
      seen == IF ~reg[t].TableLoadedOnce THEN NULL
              ELSE IF i # reg[t].ActiveBufferIndex \/ AboutToCopy(t)
              THEN Overtaken ELSE image[<<t, i>>]
  IN /\ desc' = [desc EXCEPT ![h].BufferIndex = i, ![h].Updated = FALSE]
     /\ held' = [held EXCEPT ![h] = seen]
     /\ Done(a)
     /\ UNCHANGED <<reg, image, validated, taken, results>>

(* ActiveBufferIndex is read in one step and stored in the next.           *)
GetAddressIndex(a) ==
  /\ pc[a] = "lock"
  /\ Go(a, "index", [loc[a] EXCEPT !.idx = reg[loc[a].t].ActiveBufferIndex])
  /\ UNCHANGED <<reg, image, validated, taken, desc, held, results>>

GetAddressStore(a) == pc[a] = "index" /\ Taken(a, loc[a].t, loc[a].idx)

(* CFE_TBL_ReleaseAddress.                                                 *)
ReleaseAddress(a, t) ==
  /\ pc[a] = "idle" /\ <<a, t>> \in Readers /\ desc[<<a, t>>].LockFlag
  /\ desc' = [desc EXCEPT ![<<a, t>>].LockFlag = FALSE]
  /\ held' = [held EXCEPT ![<<a, t>>] = NULL]
  /\ UNCHANGED <<reg, image, validated, taken, results, pc, loc>>

(* CFE_TBL_Load by the owner: refused while another load is in progress.    *)
Load(a, t, s) ==
  /\ pc[a] = "idle" /\ a = OwnerOf[t]
  /\ reg[t].TableLoadedOnce => t \in Reloads
  /\ reg[t].LoadInProgress = None
  /\ GetWorkingBuffer(a, "write", t, s)
  /\ UNCHANGED <<validated, desc, held, results>>

(* CFE_TBL_LoadFromFile, or the copy from memory.                          *)
LoadWrite(a) ==
  /\ pc[a] = "write"
  /\ image' = [image EXCEPT ![loc[a].working] =
                 IF loc[a].src.form = "short" THEN Torn ELSE loc[a].src.image]
  /\ Go(a, "finish", loc[a])
  /\ UNCHANGED <<reg, validated, taken, desc, held, results>>

(* A load that fails has a shared buffer to give back: not the first load   *)
(* of a table.                                                              *)
InLoadBuff(t) == t \notin DoubleBuffered /\ reg[t].TableLoadedOnce

(* The rest of CFE_TBL_Load: a load that failed, or whose image is not      *)
(* valid, gives its buffer back; the first load is in the active buffer;    *)
(* any other becomes pending and is applied at once if it may be.           *)
LoadFinish(a) ==
  /\ pc[a] = "finish"
  /\ LET t == loc[a].t
         s == loc[a].src
         loaded == \/ s.form = "full"
                   \/ s.form = "partial" /\ reg[t].TableLoadedOnce
         ok == loaded /\ (t \in Checked => s.image \in Valid)
         i == reg[t].LoadInProgress
     IN IF ~ok
        THEN IF InLoadBuff(t) /\ i = None THEN Fault(a) ELSE
             /\ taken' = IF InLoadBuff(t) THEN Returned(i) ELSE taken
             /\ image' = IF loaded THEN [image EXCEPT ![loc[a].working] = Zero]
                                   ELSE image
             /\ reg' = [reg EXCEPT ![t].LoadInProgress = None]
             /\ Done(a)
             /\ UNCHANGED <<validated, desc, held, results>>
        ELSE IF ~reg[t].TableLoadedOnce
        THEN /\ reg' = [reg EXCEPT ![t] = Notified(reg[t])]
             /\ NotifyTblUsersOfUpdate(t) /\ Done(a)
             /\ UNCHANGED <<image, validated, taken, held, results>>
        ELSE /\ reg' = [reg EXCEPT ![t].LoadPending = TRUE]
             /\ IF i # None /\ NotLocked(t)
                  THEN Go(a, "update", [NoLoc EXCEPT !.t = t]) ELSE Done(a)
             /\ UNCHANGED <<image, validated, taken, desc, held, results>>

(* CFE_TBL_Update, which CFE_TBL_Manage calls first when a load is pending. *)
Update(a, t) ==
  /\ pc[a] = "idle" /\ a = OwnerOf[t]
  /\ reg[t].LoadPending /\ reg[t].LoadInProgress # None /\ NotLocked(t)
  /\ Go(a, "update", [NoLoc EXCEPT !.t = t])
  /\ UNCHANGED <<reg, image, validated, taken, desc, held, results>>

(* The rest of CFE_TBL_UpdateInternal: the buffers change roles, or the     *)
(* load buffer is copied and given back.                                    *)
UpdateInternal(a) ==
  /\ pc[a] = "update"
  /\ LET t == loc[a].t
         i == reg[t].LoadInProgress
     IN IF i = None THEN Fault(a) ELSE
        /\ IF t \in DoubleBuffered
             THEN /\ reg' = [reg EXCEPT ![t] =
                        [Notified(reg[t]) EXCEPT !.ActiveBufferIndex = i]]
                  /\ UNCHANGED <<image, taken>>
             ELSE /\ reg' = [reg EXCEPT ![t] = Notified(reg[t])]
                  /\ image' = [image EXCEPT ![<<t, 0>>] = image[LoadBuff(i)]]
                  /\ taken' = Returned(i)
        /\ NotifyTblUsersOfUpdate(t)
        /\ Done(a)
        /\ UNCHANGED <<validated, held, results>>

(* CFE_TBL_Validate, which CFE_TBL_Manage calls when no load is pending: the *)
(* application's function looks at the inactive image first.                *)
Validate(a, t) ==
  /\ pc[a] = "idle" /\ a = OwnerOf[t] /\ ~reg[t].LoadPending
  /\ LET inactive == reg[t].ValidateInactiveIndex # None
         b == IF inactive THEN Working(t) ELSE Active(t)
     IN /\ inactive \/ reg[t].ValidateActiveIndex # None
        /\ IF b \notin Buffers THEN Fault(a) ELSE
           /\ Go(a, "validate", [NoLoc EXCEPT !.t = t, !.idx = IF inactive THEN 1 ELSE 0,
                                              !.ok = image[b] \in Valid])
           /\ UNCHANGED <<reg, image, validated, taken, desc, held, results>>

(* Its verdict is recorded: the result may be reported, and the request is  *)
(* no longer there.                                                         *)
ResultPerformed(slot) == [results EXCEPT ![slot] = "performed"]
RequestDone(t, inactive) ==
  IF inactive THEN [reg EXCEPT ![t].ValidateInactiveIndex = None]
              ELSE [reg EXCEPT ![t].ValidateActiveIndex = None]

ValidateRecord(a) ==
  /\ pc[a] = "validate"
  /\ LET t == loc[a].t
         inactive == loc[a].idx = 1
         slot == IF inactive THEN reg[t].ValidateInactiveIndex
                             ELSE reg[t].ValidateActiveIndex
     IN IF inactive /\ Working(t) \notin Buffers THEN Fault(a) ELSE
        /\ validated' = IF inactive /\ loc[a].ok
                          THEN [validated EXCEPT ![Working(t)] = TRUE]
                          ELSE validated
        /\ results' = ResultPerformed(slot)
        /\ reg' = RequestDone(t, inactive)
        /\ Done(a)
        /\ UNCHANGED <<image, taken, desc, held>>

(* CFE_TBL_Modified: the owner has changed a table in place.  Which change  *)
(* it made is not told apart.                                               *)
Modified(a, t) ==
  /\ pc[a] = "idle" /\ a = OwnerOf[t] /\ t \in Edits
  /\ desc' = [h \in Access |->
                IF h[2] = t /\ h[1] # a THEN [desc[h] EXCEPT !.Updated = TRUE]
                                       ELSE desc[h]]
  /\ UNCHANGED <<reg, image, validated, taken, held, results, pc, loc>>

-----------------------------------------------------------------------------
(* The commands of the Table Services task.                                *)

(* A careful ground sends commands for the tables it loads, after their     *)
(* first load, and when no earlier command for one is outstanding.          *)
MayCommand(t) ==
  /\ pc[TBL] = "idle"
  /\ Careful => /\ t \in GroundLoads
                /\ reg[t].TableLoadedOnce /\ ~reg[t].LoadPending
                /\ {reg[t].ValidateActiveIndex, reg[t].ValidateInactiveIndex} = {None}

(* CFE_TBL_LoadCmd.                                                        *)
LoadCmd(t, s) ==
  /\ MayCommand(t) /\ t \in GroundLoads
  /\ ~reg[t].LoadPending
  /\ s.form = "partial" => reg[t].TableLoadedOnce
  /\ GetWorkingBuffer(TBL, "read", t, s)
  /\ UNCHANGED <<validated, desc, held, results>>

(* The Validated flag of a buffer that has been loaded; and one that keeps  *)
(* what an earlier load left there.                                         *)
ValidatedKept(t, b) == validated
ValidatedReset(t, b) == [validated EXCEPT ![b] = t \notin Checked]

(* The file is read; only one that has exactly the data its header says is  *)
(* given a new Validated flag.                                              *)
LoadCmdRead ==
  /\ pc[TBL] = "read"
  /\ LET l == loc[TBL] IN
     /\ image' = [image EXCEPT ![l.working] =
                    IF l.src.form = "short" THEN Torn ELSE l.src.image]
     /\ validated' = IF l.src.form \in {"full", "partial"}
                       THEN ValidatedReset(l.t, l.working)
                       ELSE validated
  /\ Done(TBL)
  /\ UNCHANGED <<reg, taken, desc, held, results>>

(* The request for a validation, whose result will be in entry i; and one   *)
(* that names the entry behind it.                                          *)
RequestedNext(t, inactive, i) ==
  IF inactive THEN [reg EXCEPT ![t].ValidateInactiveIndex = i + 1]
              ELSE [reg EXCEPT ![t].ValidateActiveIndex = i + 1]
Requested(t, inactive, i) ==
  IF inactive THEN [reg EXCEPT ![t].ValidateInactiveIndex = i]
              ELSE [reg EXCEPT ![t].ValidateActiveIndex = i]

(* CFE_TBL_ValidateCmd for the active or the inactive image.               *)
ValidateCmd(t, inactive) ==
  /\ MayCommand(t)
  /\ inactive => (t \in DoubleBuffered \/ reg[t].LoadInProgress # None)
  /\ \E i \in Slots :
       /\ results[i] = "free" /\ \A j \in 0 .. i - 1 : results[j] # "free"
       /\ IF t \in Checked
            THEN /\ results' = [results EXCEPT ![i] = "pending"]
                 /\ reg' = Requested(t, inactive, i)
            ELSE /\ results' = [results EXCEPT ![i] = "performed"]
                 /\ UNCHANGED reg
  /\ UNCHANGED <<image, validated, taken, desc, held, pc, loc>>

(* CFE_TBL_ActivateCmd.                                                    *)
ActivateCmd(t) ==
  /\ MayCommand(t)
  /\ reg[t].LoadInProgress # None
  /\ validated[Working(t)]
  /\ reg' = [reg EXCEPT ![t].LoadPending = TRUE]
  /\ UNCHANGED <<image, validated, taken, desc, held, results, pc, loc>>

(* CFE_TBL_AbortLoadCmd.                                                   *)
AbortLoadCmd(t) ==
  /\ MayCommand(t)
  /\ reg[t].LoadInProgress # None
  /\ taken' = IF t \in DoubleBuffered THEN taken
               ELSE Returned(reg[t].LoadInProgress)
  /\ reg' = [reg EXCEPT ![t].LoadInProgress = None, ![t].LoadPending = FALSE]
  /\ UNCHANGED <<image, validated, desc, held, results, pc, loc>>

(* CFE_TBL_HousekeepingCmd: the first finished validation is reported.      *)
HousekeepingCmd ==
  /\ pc[TBL] = "idle"
  /\ \E i \in Slots :
       /\ results[i] = "performed" /\ \A j \in 0 .. i - 1 : results[j] # "performed"
       /\ results' = [results EXCEPT ![i] = "free"]
  /\ UNCHANGED <<reg, image, validated, taken, desc, held, pc, loc>>

-----------------------------------------------------------------------------
(* CFE_TBL_Manage.                                                         *)
Manage(t) == LET a == OwnerOf[t] IN
             Update(a, t) \/ Validate(a, t)

(* The later steps of a call.                                              *)
Continue(a) == \/ GetAddressIndex(a) \/ GetAddressStore(a)
               \/ LoadWrite(a) \/ LoadFinish(a)
               \/ UpdateInternal(a) \/ ValidateRecord(a)

AppStep(a) ==
  \/ \E t \in Tables : GetAddress(a, t) \/ ReleaseAddress(a, t) \/ Modified(a, t)
  \/ \E t \in Tables : \E s \in SourcesOf[t] : Load(a, t, s)
  \/ Continue(a)
  \/ \E t \in Tables : OwnerOf[t] = a /\ Manage(t)

TableTask ==
  \/ \E t \in Tables : \E s \in SourcesOf[t] : LoadCmd(t, s)
  \/ LoadCmdRead
  \/ \E t \in Tables, inactive \in BOOLEAN : ValidateCmd(t, inactive)
  \/ \E t \in Tables : ActivateCmd(t) \/ AbortLoadCmd(t)
  \/ HousekeepingCmd

Next == (\E a \in Apps : AppStep(a)) \/ TableTask
Spec == Init /\ [][Next]_vars

(* An application's main loop keeps managing each of its tables and its     *)
(* calls return; Table Services keeps answering housekeeping requests.      *)
FairSpec ==
  /\ Spec
  /\ \A a \in Apps : WF_vars(Continue(a))
  /\ \A t \in Tables : SF_vars(Manage(t))
  /\ SF_vars(HousekeepingCmd) /\ WF_vars(LoadCmdRead)

-----------------------------------------------------------------------------
(* Users that hold the address of an image that was current when they took  *)
(* it.                                                                      *)
Readings == {h \in Access : held[h] \notin {NULL, Overtaken}}

(* The image at an address that an application holds does not change: an    *)
(* inactive buffer in use is not loaded (GetWorkingBuffer) and a table in   *)
(* use is not overwritten (UpdateInternal), whichever tasks come between    *)
(* the steps of GetAddress and of the update.  The one exception is an      *)
(* address that was Overtaken when it was handed out.                       *)
ReadersUndisturbed ==
  \A h \in Readings : held[h] = image[<<h[2], desc[h].BufferIndex>>]

(* The active image of a table with a validation function is one that the   *)
(* function accepts (CFE_TBL_UNVALIDATED_ERR_EID).                          *)
ActiveImageValidated ==
  \A t \in Checked : reg[t].TableLoadedOnce => image[Active(t)] \in Valid

(* A user that has not been told of an update (Updated) holds the address   *)
(* of the active buffer, with the image it found there: whoever holds an    *)
(* old one knows that it has to ask again (GetAddressInternal clears the    *)
(* flag, NotifyTblUsersOfUpdate sets it); again but for an address that was *)
(* Overtaken when it was handed out.                                        *)
NoLostUpdate ==
  \A h \in Readings : ~desc[h].Updated =>
    /\ <<h[2], desc[h].BufferIndex>> = Active(h[2])
    /\ held[h] = image[Active(h[2])]

(* A load the ground has activated is applied (CFE_TBL_Manage).             *)
LoadsApplied == \A t \in DoubleBuffered : reg[t].LoadPending ~> ~reg[t].LoadPending

(* A validation the ground has asked for is carried out (CFE_TBL_Manage) and *)
(* reported (CFE_TBL_HousekeepingCmd), so its entry is free again.           *)
ValidationsReported == \A i \in Slots : results[i] # "free" ~> results[i] = "free"

(* What the ground asks for is done, although it takes the owner's calls    *)
(* and readers that release their addresses.                                *)
RequestsServed == LoadsApplied /\ ValidationsReported
-----------------------------------------------------------------------------
(* What the code keeps only for a ground that waits for the outcome of its  *)
(* commands and does not load a table its owner loads as well.              *)

(* A shared load buffer is taken exactly while one table's load is in        *)
(* progress in it: none is lost and none is shared by two tables.            *)
LoadBuffersAccounted ==
  \A i \in Loads :
    Cardinality({t \in Tables \ DoubleBuffered : reg[t].LoadInProgress = i}) =
      IF taken[i] THEN 1 ELSE 0

(* A validation result is pending exactly while one table refers to it, so  *)
(* that the few entries of ValidationResults are not used up.               *)
ValidationsAccounted ==
  \A i \in Slots :
    Cardinality({r \in Tables \X {"ValidateActiveIndex", "ValidateInactiveIndex"} :
                   reg[r[1]][r[2]] = i}) = IF results[i] = "pending" THEN 1 ELSE 0

(* No task indexes LoadBuffs or Buffers with NO_LOAD_IN_PROGRESS.           *)
NoBadIndex == \A x \in Tasks : pc[x] # "fault"
=============================================================================

------------------------- MODULE CriticalDataStore -------------------------
(***************************************************************************)
(* The Critical Data Store of Executive Services (cfe_es_cds.c,             *)
(* cfe_es_cds_mempool.c and its callers in cfe_es_api.c): a registry and a  *)
(* pool of blocks in memory that survives a processor reset, with working   *)
(* copies in RAM that do not.  A step is one write to that memory, because  *)
(* the processor may be reset between any two of them.  CFE_PSP_WriteToCDS  *)
(* and CFE_PSP_ReadFromCDS are memory copies and do not fail.               *)
(*                                                                         *)
(* A free list is the sequence of the blocks its Next links reach.  The     *)
(* Table flag of an entry, which decides whether ES or TBL may delete it,   *)
(* is left out.                                                             *)
(***************************************************************************)
EXTENDS Integers, Sequences, FiniteSets

CONSTANTS
  Apps,            \* applications; one task of each calls the store
  Ending,          \* those that may end between two resets
  Names,           \* full CDS names, "app.name"
  OwnerOf,         \* name -> the application in it
  SizesOf,         \* name -> the block sizes asked for under it
  BinSizes,        \* CFE_ES_CDSMemPoolDefSize: descending
  DescSize,        \* sizeof(CFE_ES_CDSBlockDesc_t)
  FieldSize,       \* sizeof(ValidityField)
  PoolStart,       \* CDS_POOL_OFFSET
  PoolEnd,
  MaxEntries,      \* CFE_PLATFORM_ES_CDS_MAX_NUM_ENTRIES
  DataOf,          \* name -> what the application copies to its block
  Zero,            \* cleared memory; its CRC is 0
  Torn,            \* memory of which an interrupted copy wrote a part
  Windows,         \* subset of {"return", "initialise"}: see ProcessorReset
  MaxResets,
  ES, NoName, NULL

Steps == {"down", "boot", "begin", "end", "registry", "idle", "allocate",
          "update", "remove", "copy", "fault"}

ASSUME CDSAssumption ==
  /\ ES \notin Apps /\ NoName \notin Names
  /\ OwnerOf \in [Names -> Apps]
  /\ IsFiniteSet(Names) /\ IsFiniteSet(Apps)
  /\ SizesOf \in [Names -> SUBSET (Nat \ {0})]
  /\ BinSizes \in Seq(Nat \ {0}) /\ BinSizes # <<>>
  /\ \A i \in 2 .. Len(BinSizes) : BinSizes[i] < BinSizes[i - 1]
  /\ DescSize \in Nat \ {0} /\ FieldSize \in Nat \ {0}
  /\ PoolStart \in Nat \ {0} /\ PoolEnd \in Nat
  /\ PoolStart + DescSize + BinSizes[Len(BinSizes)] <= PoolEnd
  /\ MaxEntries \in Nat \ {0}
  /\ \A n \in Names : Torn \notin DataOf[n] \cup {Zero}
  /\ Windows \subseteq {"return", "initialise"} /\ MaxResets \in Nat

VARIABLES
  \* in the memory that survives a processor reset
  ValidityField,    \* "none", "begin" (one of the two written) or "both"
  savedRegSize,     \* the registry size at CDS_REG_SIZE_OFFSET
  savedRegistry,    \* the registry at CDS_REG_OFFSET
  desc,             \* offset -> block descriptor, or NULL: no check pattern
  data,             \* offset -> what the block there holds
  \* in RAM
  MaxNumRegEntries, \* CDSVars.MaxNumRegEntries
  Registry,         \* CDSVars.Registry
  Current,          \* CFE_ES_CDSMemPool.Current; 0: no room left
  free,             \* bin -> its free list, from SizeDesc[].Top on
  RegistryMutex,    \* who holds it, or NULL
  PoolMutex,        \* who holds CFE_ES_CDSMemPool.MutexId, or NULL
  handle,           \* name -> the handle its application has been given
  pc, loc,          \* where each application's task, and ES, is
  resets            \* resets so far

savedVars == <<ValidityField, savedRegSize, savedRegistry, desc, data>>
poolVars  == <<desc, Current, free>>
vars == <<savedVars, MaxNumRegEntries, Registry, Current, free,
          RegistryMutex, PoolMutex, handle, pc, loc, resets>>

Data    == UNION {DataOf[n] : n \in Names}
Sizes   == UNION {SizesOf[n] : n \in Names}
Actors  == Apps \cup {ES}
Offsets == PoolStart .. PoolEnd
Entries == 0 .. MaxEntries - 1
Bins    == DOMAIN BinSizes
MinBlockSize == BinSizes[Len(BinSizes)]
NotFound == -1
ZeroCRC == <<>>         \* the CRC 0 of a descriptor without data

FreeEntry == [Name |-> NoName, Size |-> 0, MemHandle |-> 0, Taken |-> FALSE]
NoLoc == [name |-> NoName, size |-> 0, idx |-> NotFound, data |-> Zero]

RegRec == [Name : Names \cup {NoName}, Size : Sizes \cup {0},
           MemHandle : Offsets \cup {0}, Taken : BOOLEAN]
Desc == [Used : BOOLEAN, SizeUsed : Sizes, ActualSize : Nat,
         CRC : {<<d>> : d \in Data} \cup {ZeroCRC}]

ASSUME NullAssumption == NULL \notin Actors /\ NULL \notin Desc

(* The type invariant: the registry, the descriptors and the handles stay in*)
(* range, through every reset (CFE_ES_CDS_RegRec_t, CFE_ES_CDSBlockDesc_t). *)
TypeOK ==
  /\ ValidityField \in {"none", "begin", "both"}
  /\ savedRegSize \in {0, MaxEntries}
  /\ savedRegistry \in [Entries -> RegRec] /\ Registry \in [Entries -> RegRec]
  /\ desc \in [Offsets -> Desc \cup {NULL}]
  /\ data \in [Offsets -> Data \cup {Zero, Torn}]
  /\ MaxNumRegEntries \in {0, MaxEntries}
  /\ Current \in Offsets \cup {0}
  /\ free \in [Bins -> Seq(Offsets)]
  /\ RegistryMutex \in Actors \cup {NULL} /\ PoolMutex \in Actors \cup {NULL}
  /\ handle \in [Names -> Entries \cup {NotFound}]
  /\ pc \in [Actors -> Steps]
  /\ loc \in [Actors -> [name : Names \cup {NoName}, size : Sizes \cup {0},
                         idx : Entries \cup {NotFound}, data : Data \cup {Zero}]]
  /\ resets \in 0 .. MaxResets

(* Power on: the memory holds nothing valid and ES begins its start-up.    *)
Init ==
  /\ ValidityField = "none" /\ savedRegSize = 0
  /\ savedRegistry = [i \in Entries |-> FreeEntry]
  /\ desc = [o \in Offsets |-> NULL] /\ data = [o \in Offsets |-> Zero]
  /\ MaxNumRegEntries = 0
  /\ Registry = [i \in Entries |-> FreeEntry]
  /\ Current = 0 /\ free = [b \in Bins |-> <<>>]
  /\ RegistryMutex = NULL /\ PoolMutex = NULL
  /\ handle = [n \in Names |-> NotFound]
  /\ pc = [x \in Actors |-> IF x = ES THEN "boot" ELSE "down"]
  /\ loc = [x \in Actors |-> NoLoc]
  /\ resets = 0

-----------------------------------------------------------------------------
Goto(x, step, locals) ==
  /\ pc' = [pc EXCEPT ![x] = step]
  /\ loc' = [loc EXCEPT ![x] = locals]

Least(S) == CHOOSE x \in S : \A y \in S : x <= y

(* CFE_ES_CalculateCRC, collision-free on what applications write; the CRC  *)
(* of cleared memory is the 0 that GetCDSBlock puts into a new descriptor.  *)
CRC(d) == IF d = Zero THEN ZeroCRC ELSE <<d>>

(* CFE_ES_CDSGetBinIndex: the last bin that still holds the size.          *)
FitsABin(size) == size <= BinSizes[1]
GetBinIndex(size) ==
  Least({b \in Bins : b = Len(BinSizes) \/ size > BinSizes[b + 1]})

(* The range test PutCDSBlock, CDSBlockWrite and CDSBlockRead begin with.  *)
HandleInRange(h) ==
  /\ h >= FieldSize
  /\ h <= PoolEnd - DescSize - MinBlockSize - FieldSize

ValidBlock(h) == HandleInRange(h) /\ desc[h] # NULL /\ desc[h].Used

-----------------------------------------------------------------------------
(* The pool.  PutCDSBlock and GetCDSBlock take its mutex for one step.     *)

(* Mutant of PutCDSBlock: the block is left in use.                         *)
PutCDSBlockForgotten(h) ==
  /\ PoolMutex = NULL /\ ValidBlock(h)
  /\ UNCHANGED <<desc, free, Current>>

(* CFE_ES_PutCDSBlock of a valid block.                                    *)
PutCDSBlock(h) ==
  LET b == GetBinIndex(desc[h].ActualSize)
  IN /\ PoolMutex = NULL /\ ValidBlock(h)
     /\ desc' = [desc EXCEPT ![h].Used = FALSE]
     /\ free' = [free EXCEPT ![b] = <<h>> \o free[b]]
     /\ UNCHANGED Current

(* CFE_ES_GetCDSBlock finds a block: on a free list, or beyond the last     *)
(* one created.                                                            *)
CanGetCDSBlock(size) ==
  /\ FitsABin(size)
  /\ LET b == GetBinIndex(size)
     IN \/ free[b] # <<>>
        \/ Current # 0 /\ Current + DescSize + BinSizes[b] < PoolEnd

NewBlock(size) ==
  LET b == GetBinIndex(size)
  IN IF free[b] # <<>> THEN Head(free[b]) ELSE Current

(* Mutant of GetCDSBlock: the descriptor keeps the old CRC.                 *)
GetCDSBlockOldCRC(size) ==
  LET b == GetBinIndex(size)
      h == NewBlock(size)
  IN /\ PoolMutex = NULL /\ CanGetCDSBlock(size)
     /\ desc' = [desc EXCEPT ![h] =
          [Used |-> TRUE, SizeUsed |-> size, ActualSize |-> BinSizes[b],
           CRC |-> IF desc[h] = NULL THEN ZeroCRC ELSE desc[h].CRC]]
     /\ IF free[b] # <<>>
        THEN free' = [free EXCEPT ![b] = Tail(free[b])] /\ UNCHANGED Current
        ELSE Current' = Current + BinSizes[b] + DescSize /\ UNCHANGED free

(* CFE_ES_GetCDSBlock.                                                     *)
GetCDSBlock(size) ==
  LET b == GetBinIndex(size)
  IN /\ PoolMutex = NULL /\ CanGetCDSBlock(size)
     /\ desc' = [desc EXCEPT ![NewBlock(size)] =
          [Used |-> TRUE, SizeUsed |-> size, ActualSize |-> BinSizes[b],
           CRC |-> ZeroCRC]]
     /\ IF free[b] # <<>>
        THEN free' = [free EXCEPT ![b] = Tail(free[b])] /\ UNCHANGED Current
        ELSE Current' = Current + BinSizes[b] + DescSize /\ UNCHANGED free

-----------------------------------------------------------------------------
(* Start-up: CFE_ES_CDS_EarlyInit *)

(* The blocks a walk over the pool passes, from offset o on.               *)
BlocksFrom(o) ==
  LET walk[x \in PoolStart .. PoolEnd + BinSizes[1] + DescSize] ==
        IF x < PoolEnd - DescSize /\ desc[x] # NULL
        THEN <<x>> \o walk[x + desc[x].ActualSize + DescSize]
        ELSE <<>>
  IN walk[o]

(* Mutant of Rebuilt: every block goes to the first bin.                    *)
RebuiltOneBin(blocks) ==
  LET unused == SelectSeq(blocks, LAMBDA o : ~desc[o].Used)
  IN [b \in Bins |-> IF b = 1 THEN unused ELSE <<>>]

(* CFE_ES_RebuildCDSPool puts every block that is not in use on the list of *)
(* the bin for its SizeUsed, the last one found first.                      *)
Rebuilt(blocks) ==
  LET lists[k \in 0 .. Len(blocks)] ==
        IF k = 0 THEN [b \in Bins |-> <<>>]
        ELSE LET o == blocks[k]
                 before == lists[k - 1]
                 b == GetBinIndex(desc[o].SizeUsed)
             IN IF desc[o].Used THEN before
                ELSE [before EXCEPT ![b] = <<o>> \o before[b]]
  IN lists[Len(blocks)]

(* Where the walk ends: at memory without the check pattern, the first free *)
(* offset, or at the end of the pool, and then Current stays 0.             *)
RebuiltCurrent(blocks) ==
  LET last == blocks[Len(blocks)]
      past == IF blocks = <<>> THEN PoolStart
              ELSE last + desc[last].ActualSize + DescSize
  IN IF past < PoolEnd - DescSize THEN past ELSE 0

(* CFE_ES_ValidateCDS finds both fields: CFE_ES_RebuildCDS.                *)
Rebuild ==
  LET blocks == BlocksFrom(PoolStart)
  IN /\ pc[ES] = "boot" /\ ValidityField = "both"
     /\ MaxNumRegEntries' = savedRegSize
     /\ Registry' = [i \in Entries |-> IF i < savedRegSize THEN savedRegistry[i]
                                       ELSE FreeEntry]
     /\ free' = Rebuilt(blocks)
     /\ Current' = RebuiltCurrent(blocks)
     /\ Goto(ES, "idle", NoLoc)
     /\ UNCHANGED <<savedVars, RegistryMutex, PoolMutex, handle, resets>>

(* It does not: CFE_ES_InitializeCDS clears the memory, ...                *)
InitClear ==
  /\ pc[ES] = "boot" /\ ValidityField # "both"
  /\ ValidityField' = "none" /\ savedRegSize' = 0
  /\ savedRegistry' = [i \in Entries |-> FreeEntry]
  /\ desc' = [o \in Offsets |-> NULL] /\ data' = [o \in Offsets |-> Zero]
  /\ Goto(ES, "begin", NoLoc)
  /\ UNCHANGED <<MaxNumRegEntries, Registry, Current, free, RegistryMutex,
                 PoolMutex, handle, resets>>

(* ... writes "_CDSBeg_", ...                                              *)
InitBegin ==
  /\ pc[ES] = "begin"
  /\ ValidityField' = "begin"
  /\ Goto(ES, "end", NoLoc)
  /\ UNCHANGED <<savedRegSize, savedRegistry, data, poolVars, RegistryMutex,
                 PoolMutex, MaxNumRegEntries, Registry, handle, resets>>

(* ... writes "_CDSEnd_" and creates the pool (CFE_ES_CreateCDSPool), ...  *)
InitEnd ==
  /\ pc[ES] = "end"
  /\ ValidityField' = "both"
  /\ Current' = PoolStart /\ free' = [b \in Bins |-> <<>>]
  /\ Goto(ES, "registry", NoLoc)
  /\ UNCHANGED <<savedRegSize, savedRegistry, desc, data, RegistryMutex,
                 PoolMutex, MaxNumRegEntries, Registry, handle, resets>>

(* ... and writes the size of the registry and an empty registry.          *)
InitCDSRegistry ==
  /\ pc[ES] = "registry"
  /\ MaxNumRegEntries' = MaxEntries /\ savedRegSize' = MaxEntries
  /\ Registry' = [i \in Entries |-> FreeEntry]
  /\ savedRegistry' = [i \in Entries |-> FreeEntry]
  /\ Goto(ES, "idle", NoLoc)
  /\ UNCHANGED <<ValidityField, data, poolVars, RegistryMutex, PoolMutex,
                 handle, resets>>

-----------------------------------------------------------------------------
(* Registering and deleting *)

(* CFE_ES_FindCDSInRegistry.  Its loop bound is MaxNumRegEntries - 1 in     *)
(* unsigned arithmetic: with no entries it runs off the array.              *)
Find(n) ==
  LET found == {i \in Entries : Registry[i].Taken /\ Registry[i].Name = n}
  IN IF found = {} THEN NotFound ELSE Least(found)
FindFaults == MaxNumRegEntries = 0

(* CFE_ES_FindFreeCDSRegistryEntry.                                        *)
FreeEntries == {i \in Entries : i < MaxNumRegEntries /\ ~Registry[i].Taken}

(* CFE_ES_RegisterCDS by application a, down to the RegistryMutex and, for  *)
(* a name already registered with another size, the return of its block.    *)
(* A registration that is refused leaves no handle.                        *)
RegisterCDS(a, n, size) ==
  LET i == Find(n)
  IN /\ pc[a] = "idle" /\ OwnerOf[n] = a
     /\ pc[ES] \notin {"boot", "begin", "end", "registry"}
     /\ RegistryMutex = NULL
     /\ \/ FindFaults
           /\ Goto(a, "fault", NoLoc)
           /\ UNCHANGED <<poolVars, RegistryMutex, handle>>
        \/ /\ ~FindFaults /\ i # NotFound /\ Registry[i].Size = size
           /\ handle' = [handle EXCEPT ![n] = i]
           /\ UNCHANGED <<poolVars, RegistryMutex, pc, loc>>
        \/ /\ ~FindFaults /\ i # NotFound /\ Registry[i].Size # size
           /\ PutCDSBlock(Registry[i].MemHandle)
           /\ RegistryMutex' = a
           /\ handle' = [handle EXCEPT ![n] = NotFound]
           /\ Goto(a, "allocate", [NoLoc EXCEPT !.name = n, !.size = size,
                                                !.idx = i])
        \/ /\ ~FindFaults /\ i = NotFound /\ FreeEntries # {}
           /\ RegistryMutex' = a
           /\ handle' = [handle EXCEPT ![n] = NotFound]
           /\ Goto(a, "allocate", [NoLoc EXCEPT !.name = n, !.size = size,
                                                !.idx = Least(FreeEntries)])
           /\ UNCHANGED poolVars
     /\ UNCHANGED <<ValidityField, savedRegSize, savedRegistry, data,
                    MaxNumRegEntries, Registry, PoolMutex, resets>>

(* CFE_ES_RegisterCDSEx: the block, and the entry in RAM.  Without a block  *)
(* the registration fails and the entry stays as it is.                     *)
Allocate(a) ==
  /\ pc[a] = "allocate"
  /\ IF CanGetCDSBlock(loc[a].size)
     THEN /\ GetCDSBlock(loc[a].size)
          /\ Registry' = [Registry EXCEPT ![loc[a].idx] =
               [Name |-> loc[a].name, Size |-> loc[a].size, Taken |-> TRUE,
                MemHandle |-> NewBlock(loc[a].size)]]
          /\ Goto(a, "update", loc[a])
          /\ UNCHANGED RegistryMutex
     ELSE /\ Goto(a, "idle", NoLoc)
          /\ RegistryMutex' = NULL
          /\ UNCHANGED <<poolVars, Registry>>
  /\ UNCHANGED <<ValidityField, savedRegSize, savedRegistry, data,
                 MaxNumRegEntries, PoolMutex, handle, resets>>

(* CFE_ES_UpdateCDSRegistry.                                               *)
UpdateCDSRegistry == savedRegistry' = Registry

(* The registration is made durable, and the mutex given back.             *)
Update(a) ==
  /\ pc[a] = "update"
  /\ UpdateCDSRegistry
  /\ handle' = [handle EXCEPT ![loc[a].name] = loc[a].idx]
  /\ RegistryMutex' = NULL
  /\ Goto(a, "idle", NoLoc)
  /\ UNCHANGED <<ValidityField, savedRegSize, data, poolVars,
                 MaxNumRegEntries, Registry, PoolMutex, resets>>

(* CFE_ES_GetAppIDByName does not know the application in the name.        *)
MayDelete(n) == pc[OwnerOf[n]] = "down"

(* CFE_ES_DeleteCDS, by ground command: the block is returned first, ...   *)
DeleteCDS(n) ==
  LET i == Find(n)
  IN /\ pc[ES] = "idle" /\ RegistryMutex = NULL /\ ~FindFaults
     /\ i # NotFound /\ MayDelete(n)
     /\ PutCDSBlock(Registry[i].MemHandle)
     /\ RegistryMutex' = ES
     /\ Goto(ES, "remove", [NoLoc EXCEPT !.name = n, !.idx = i])
     /\ UNCHANGED <<ValidityField, savedRegSize, savedRegistry, data,
                    MaxNumRegEntries, Registry, PoolMutex, handle, resets>>

(* ... then the entry is given up, in RAM and in the saved registry.       *)
Remove ==
  /\ pc[ES] = "remove"
  /\ Registry' = [Registry EXCEPT ![loc[ES].idx].Taken = FALSE]
  /\ savedRegistry' = Registry'
  /\ RegistryMutex' = NULL
  /\ Goto(ES, "idle", NoLoc)
  /\ UNCHANGED <<ValidityField, savedRegSize, data, poolVars,
                 MaxNumRegEntries, PoolMutex, handle, resets>>

-----------------------------------------------------------------------------
(* Copying and restoring *)

(* CFE_ES_CopyToCDS and CFE_ES_CDSBlockWrite: the descriptor with the CRC   *)
(* of the new data, and the start of the copy of the data itself (copying   *)
(* what is already there changes nothing).                                  *)
CopyToCDS(a, n, d) ==
  LET h == Registry[handle[n]].MemHandle
  IN /\ pc[a] = "idle" /\ OwnerOf[n] = a /\ handle[n] # NotFound
     /\ PoolMutex = NULL /\ ValidBlock(h)
     /\ desc' = [desc EXCEPT ![h].CRC = CRC(d)]
     /\ data' = [data EXCEPT ![h] = IF data[h] = d THEN d ELSE Torn]
     /\ PoolMutex' = a
     /\ Goto(a, "copy", [NoLoc EXCEPT !.name = n, !.data = d])
     /\ UNCHANGED <<ValidityField, savedRegSize, savedRegistry, Current, free,
                    MaxNumRegEntries, Registry, RegistryMutex, handle, resets>>

(* The copy is complete.                                                   *)
CopyDone(a) ==
  LET h == Registry[handle[loc[a].name]].MemHandle
  IN /\ pc[a] = "copy"
     /\ data' = [data EXCEPT ![h] = loc[a].data]
     /\ PoolMutex' = NULL
     /\ Goto(a, "idle", NoLoc)
     /\ UNCHANGED <<ValidityField, savedRegSize, savedRegistry, poolVars,
                    MaxNumRegEntries, Registry, RegistryMutex, handle, resets>>

(* CFE_ES_RestoreFromCDS and CFE_ES_CDSBlockRead of a handle: the data, or  *)
(* NULL if the handle is refused or the CRC does not match.                 *)
RestoreFromCDS(h) ==
  IF ValidBlock(h) /\ desc[h].CRC = CRC(data[h]) THEN data[h] ELSE NULL

-----------------------------------------------------------------------------
(* Applications and the processor *)

StartApp(a) ==
  /\ pc[a] = "down" /\ pc[ES] \notin {"boot", "begin", "end", "registry"}
  /\ Goto(a, "idle", NoLoc)
  /\ UNCHANGED <<savedVars, MaxNumRegEntries, Registry, Current, free,
                 RegistryMutex, PoolMutex, handle, resets>>

(* The application ends between two calls, and forgets its handles.        *)
ExitApp(a) ==
  /\ pc[a] = "idle" /\ a \in Ending
  /\ Goto(a, "down", NoLoc)
  /\ handle' = [n \in Names |-> IF OwnerOf[n] = a THEN NotFound ELSE handle[n]]
  /\ UNCHANGED <<savedVars, MaxNumRegEntries, Registry, Current, free,
                 RegistryMutex, PoolMutex, resets>>

(* The saved registry still names a block that has been returned.          *)
BlockReturned ==
  \E x \in Actors : /\ pc[x] \in {"allocate", "update", "remove"}
                    /\ savedRegistry[loc[x].idx].Taken

(* A processor reset: RAM is lost, the memory of the store is not.  A reset *)
(* in one of two windows is not recovered from, and only falls there if     *)
(* Windows says so: between returning a registered block and updating the   *)
(* saved registry, and between the validity fields and the registry size.   *)
ProcessorReset ==
  /\ resets < MaxResets /\ resets' = resets + 1
  /\ pc[ES] = "registry" => "initialise" \in Windows
  /\ BlockReturned => "return" \in Windows
  /\ pc' = [x \in Actors |-> IF x = ES THEN "boot" ELSE "down"]
  /\ loc' = [x \in Actors |-> NoLoc]
  /\ RegistryMutex' = NULL /\ PoolMutex' = NULL
  /\ handle' = [n \in Names |-> NotFound]
  /\ Registry' = [i \in Entries |-> FreeEntry] /\ MaxNumRegEntries' = 0
  /\ Current' = 0 /\ free' = [b \in Bins |-> <<>>]
  /\ UNCHANGED savedVars

Next ==
  \/ Rebuild \/ InitClear \/ InitBegin \/ InitEnd \/ InitCDSRegistry
  \/ \E a \in Apps :
       \/ StartApp(a) \/ ExitApp(a) \/ Allocate(a) \/ Update(a) \/ CopyDone(a)
       \/ \E n \in Names : \/ \E size \in SizesOf[n] : RegisterCDS(a, n, size)
                           \/ \E d \in DataOf[n] : CopyToCDS(a, n, d)
  \/ \E n \in Names : DeleteCDS(n)
  \/ Remove
  \/ ProcessorReset

Spec == Init /\ [][Next]_vars

-----------------------------------------------------------------------------
(* Properties *)

Running == pc[ES] \notin {"boot", "begin", "end", "registry"}
Blocks  == {o \in Offsets : desc[o] # NULL}
TakenEntries == {i \in Entries : Registry[i].Taken}

(* The entries whose block is theirs: not one whose registration is between *)
(* returning its old block and getting a new one, or being deleted.         *)
Settled == {i \in TakenEntries :
  \A x \in Actors : pc[x] \in {"allocate", "remove"} => loc[x].idx # i}

(* Registered names have blocks of their own: no block belongs to two       *)
(* entries of the registry, and each is in use with the size registered     *)
(* (CFE_ES_RegisterCDSEx and CFE_ES_DeleteCDS against the pool).            *)
BlocksOwned ==
  /\ \A i \in Settled :
       LET h == Registry[i].MemHandle
       IN h \in Blocks /\ desc[h].Used /\ desc[h].SizeUsed = Registry[i].Size
  /\ \A i, j \in TakenEntries :
       i # j => Registry[i].MemHandle # Registry[j].MemHandle

(* The free lists are right, also those rebuilt after a reset from what the *)
(* walk over the pool finds: each block not in use is on the list of the    *)
(* bin it was made for, once, and nothing else is on a list.                *)
FreeListsExact ==
  Running =>
    /\ \A b \in Bins : \A i, j \in DOMAIN free[b] :
         free[b][i] = free[b][j] => i = j
    /\ \A b \in Bins :
         {free[b][i] : i \in DOMAIN free[b]} =
           {o \in Blocks : ~desc[o].Used /\ desc[o].ActualSize = BinSizes[b]}

(* Blocks lie one after another from the start of the pool to Current and   *)
(* never overlap, after any sequence of registrations and resets; the walk  *)
(* of CFE_ES_RebuildCDSPool therefore meets them all.                       *)
BlocksTile ==
  Running =>
    LET seq == BlocksFrom(PoolStart)
    IN /\ {seq[i] : i \in DOMAIN seq} = Blocks
       /\ Current # 0 => \A o \in Blocks : o + desc[o].ActualSize + DescSize <= Current

(* Registry and pool agree, before and after every reset: each block is in  *)
(* the place, on the list and of the entry it should be                     *)
(* (CFE_ES_RebuildCDS, CFE_ES_RegisterCDSEx).                               *)
PoolExact == TypeOK /\ BlocksOwned /\ FreeListsExact /\ BlocksTile

(* Blocks in use that no entry names: they are lost for good.               *)
LostBlocks ==
  {o \in Blocks : desc[o].Used /\ \A i \in TakenEntries : Registry[i].MemHandle # o}

(* Only a reset between the allocation of a block and the update of the saved*)
(* registry (CFE_ES_RegisterCDSEx) loses a block, and each loses one at most.*)
LeaksBounded == Running => Cardinality(LostBlocks) <= resets

(* The refinement mapping: the saved registry is the truth.                 *)
SavedEntry(n) ==
  LET found == {i \in Entries : savedRegistry[i].Taken /\ savedRegistry[i].Name = n}
  IN IF found = {} THEN NotFound ELSE Least(found)

Operation(x) ==
  CASE pc[x] = "copy"   -> [kind |-> "copy", data |-> loc[x].data]
    [] pc[x] = "remove" -> [kind |-> "delete"]
    [] OTHER            -> [kind |-> "register", size |-> loc[x].size]

StoredSize ==
  [n \in Names |-> IF SavedEntry(n) = NotFound THEN 0 ELSE savedRegistry[SavedEntry(n)].Size]
StoredValue ==
  [n \in Names |-> IF SavedEntry(n) = NotFound THEN NULL
                   ELSE RestoreFromCDS(savedRegistry[SavedEntry(n)].MemHandle)]
Doing ==
  [n \in Names |-> IF \E x \in Actors : loc[x].name = n
                   THEN Operation(CHOOSE x \in Actors : loc[x].name = n) ELSE NULL]

Store == INSTANCE CriticalStore WITH
  Fresh <- Zero, None <- 0, Invalid <- NULL, Idle <- NULL,
  size <- StoredSize, value <- StoredValue, doing <- Doing

ASSUME IdleAssumption == NULL \notin Store!Operations

(* The store keeps what module CriticalStore promises: a name's data survives*)
(* every reset outside an operation on that name, and no operation on one name*)
(* disturbs another (CFE_ES_CopyToCDS, CFE_ES_RebuildCDS).                  *)
ImplementsStore == Store!StoreSpec

(* A start-up that finds the store initialised can use it: the search of    *)
(* the registry stays inside the registry.                                  *)
NoRegistryFault == \A x \in Actors : pc[x] # "fault"
=============================================================================
